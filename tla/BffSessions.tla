---------------------------- MODULE BffSessions ----------------------------
(***************************************************************************)
(* apps/bff: browser sessions over Auth0 tokens.  Every request first runs *)
(* requireSession, which refreshes an access token that is about to expire *)
(* with the rotating refresh token of the session: a SELECT, a call of     *)
(* Auth0, an UPDATE and a second SELECT, with an await before each.  Other *)
(* requests of the same session run in between, a logout among them.       *)
(*                                                                         *)
(* Refresh tokens of a session are numbered in the order Auth0 issues      *)
(* them.  README.md asks for Refresh Token Rotation: a token is accepted   *)
(* once, and one that is used again may cost the session all its tokens.   *)
(***************************************************************************)
EXTENDS Naturals, Tables

CONSTANTS
    Sessions,  \* session ids createUserSession draws
    Requests   \* HTTP requests to the BFF that carry a session, or start one

VARIABLES
    current,  \* Auth0: the number of the token it accepts, 0 for none
    rows,     \* identity.sessions
    requests  \* request -> what its handler has in hand and how far it is

bffVars == <<current, rows, requests>>

\* "proxy": an order, a report, the session view or an assignment; "again": a
\* refresh that has passed requireSession and calls ensureFreshSession itself.
Kinds == {"callback", "proxy", "refresh", "again", "logout"}

\* The awaits a handler stands at, then the answers: done, 401 and 500 (or the
\* 403 of requireCsrf).  "lost" is a 500 after Auth0 had issued a token that
\* was never stored.
Waits   == {"refreshing", "exchanged", "stored", "in", "revoking"}
Answers == {"done", "unauthenticated", "failed", "lost"}

SessionRow == [token : Nat, stale : BOOLEAN, revoked : BOOLEAN]
RequestRow == [session : Sessions, kind : Kinds, token : Nat, at : Waits \cup Answers]

SessionsTypeOK ==
    /\ current \in [Sessions -> Nat]
    /\ DOMAIN rows \subseteq Sessions
    /\ \A s \in DOMAIN rows : rows[s] \in SessionRow
    /\ DOMAIN requests \subseteq Requests
    /\ \A r \in DOMAIN requests : requests[r] \in RequestRow

Init ==
    /\ current = [s \in Sessions |-> 0]
    /\ rows = EmptyTable
    /\ requests = EmptyTable

At(r, place) == r \in DOMAIN requests /\ requests[r].at = place
Session(r) == requests[r].session

Goes(r, place) == requests' = [requests EXCEPT ![r].at = place]

----------------------------------------------------------------------------
(* Login. *)

\* callbackController redeems the code: Auth0 issues the first token.
RedeemCode(r) ==
    /\ r \notin DOMAIN requests
    /\ \E s \in Sessions :
          /\ \A q \in DOMAIN requests : Session(q) # s
          /\ current' = [current EXCEPT ![s] = 1]
          /\ requests' = Put(requests, r, [session |-> s, kind |-> "callback",
                                           token |-> 1, at |-> "exchanged"])
    /\ UNCHANGED rows

\* The row of a new session.
NewSession(r) == [token |-> requests[r].token, stale |-> FALSE, revoked |-> FALSE]

\* mutant: the INSERT is not awaited, and fails after the answer
CreateUnawaited(r) ==
    /\ At(r, "exchanged") /\ requests[r].kind = "callback"
    /\ rows' \in {rows, Put(rows, Session(r), NewSession(r))}
    /\ Goes(r, "done")
    /\ UNCHANGED current

\* createUserSession inserts the session.  The callback may end in an error all
\* the same, if the answer to the INSERT is lost or the BFF stops: then the
\* browser is not told the id of the session.
CreateSession(r) ==
    /\ At(r, "exchanged") /\ requests[r].kind = "callback"
    /\ rows' = Put(rows, Session(r), NewSession(r))
    /\ \E place \in {"done", "failed"} : Goes(r, place)
    /\ UNCHANGED current

\* The browser has the cookie of this session: its login has been answered.
LoggedIn(s) ==
    \E q \in DOMAIN requests :
        Session(q) = s /\ requests[q].kind = "callback" /\ requests[q].at = "done"

----------------------------------------------------------------------------
(* requireSession and ensureFreshSession. *)

\* What follows when there is no session any more: requireSession answers 401,
\* refreshController answers all the same.
Gone(kind) == IF kind = "again" THEN "done" ELSE "unauthenticated"

\* loadSession, and the comparison of the expiry with the refresh window.
LoadSession(r, s, kind) ==
    requests' = Put(requests, r,
        [session |-> s, kind |-> kind, token |-> rows[s].token,
         at |-> IF rows[s].revoked THEN Gone(kind)
                ELSE IF rows[s].stale THEN "refreshing" ELSE "in"])

\* A request arrives with the cookie of a session.
RequireSession(r) ==
    /\ r \notin DOMAIN requests
    /\ \E s \in DOMAIN rows, kind \in {"proxy", "refresh", "logout"} :
          LoggedIn(s) /\ LoadSession(r, s, kind)
    /\ UNCHANGED <<current, rows>>

\* refreshAuth0Tokens, when Auth0 accepts the token; the answer may be lost or
\* come after the circuit breaker has given up.
TokenAccepted(r) ==
    /\ At(r, "refreshing")
    /\ requests[r].token = current[Session(r)]
    /\ current' = [current EXCEPT ![Session(r)] = @ + 1]
    /\ \E place \in {"exchanged", "lost"} :
          requests' = [requests EXCEPT ![r].at = place,
                                       ![r].token = current[Session(r)] + 1]
    /\ UNCHANGED rows

\* mutant: the session is written back as it was loaded
RefusedWritesBack(r) ==
    /\ At(r, "refreshing")
    /\ requests[r].token # current[Session(r)]
    /\ rows' = [rows EXCEPT ![Session(r)].token = requests[r].token]
    /\ Goes(r, "failed")
    /\ UNCHANGED current

\* refreshAuth0Tokens, when the token has been used before: Auth0 may revoke
\* the tokens of the session altogether.
TokenRefused(r) ==
    /\ At(r, "refreshing")
    /\ requests[r].token # current[Session(r)]
    /\ \E c \in {current[Session(r)], 0} : current' = [current EXCEPT ![Session(r)] = c]
    /\ Goes(r, "failed")
    /\ UNCHANGED rows

\* mutant: the refresh token that was loaded is stored with the new access token
KeepRefreshToken(r) ==
    /\ At(r, "exchanged") /\ requests[r].kind # "callback"
    /\ rows' = [rows EXCEPT ![Session(r)].stale = FALSE]
    /\ Goes(r, "stored")
    /\ UNCHANGED current

\* updateSessionTokens; it does not look at revoked_at.
UpdateSessionTokens(r) ==
    /\ At(r, "exchanged") /\ requests[r].kind # "callback"
    /\ rows' = [rows EXCEPT ![Session(r)].token = requests[r].token,
                            ![Session(r)].stale = FALSE]
    /\ \E place \in {"stored", "failed"} : Goes(r, place)
    /\ UNCHANGED current

\* mutant: the refreshed session is returned without reading it again
ReturnRefreshed(r) ==
    /\ At(r, "stored")
    /\ Goes(r, "in")
    /\ UNCHANGED <<current, rows>>

\* The second loadSession, whose result is returned as it is.
Reload(r) ==
    /\ At(r, "stored")
    /\ LET row == rows[Session(r)]
           place == IF row.revoked THEN Gone(requests[r].kind) ELSE "in"
       IN requests' = [requests EXCEPT ![r].at = place, ![r].token = row.token]
    /\ UNCHANGED <<current, rows>>

----------------------------------------------------------------------------
(* The controllers, behind requireSession. *)

\* proxyToGateway or another controller that does not touch the session.
Proxy(r) ==
    /\ At(r, "in") /\ requests[r].kind \in {"proxy", "again"}
    /\ Goes(r, "done")
    /\ UNCHANGED <<current, rows>>

\* refreshController
Refresh(r) ==
    /\ At(r, "in") /\ requests[r].kind = "refresh"
    /\ LoadSession(r, Session(r), "again")
    /\ UNCHANGED <<current, rows>>

\* logoutController revokes the token it has loaded at Auth0.  If another one
\* has taken its place, the call may change nothing.
RevokeRefreshToken(r) ==
    /\ At(r, "in") /\ requests[r].kind = "logout"
    /\ \E c \in {0} \cup ({current[Session(r)]} \ {requests[r].token}) :
          current' = [current EXCEPT ![Session(r)] = c]
    /\ \E place \in {"revoking", "failed"} : Goes(r, place)
    /\ UNCHANGED rows

\* revokeSession
RevokeSession(r) ==
    /\ At(r, "revoking")
    /\ rows' = [rows EXCEPT ![Session(r)].revoked = TRUE]
    /\ \E place \in {"done", "failed"} : Goes(r, place)
    /\ UNCHANGED current

\* An await throws, a breaker rejects, requireCsrf refuses or the BFF stops.
Fail(r) ==
    /\ \E place \in Waits : At(r, place)
    /\ Goes(r, IF At(r, "exchanged") THEN "lost" ELSE "failed")
    /\ UNCHANGED <<current, rows>>

\* The access token of a session comes into the refresh window.
Age(s) ==
    /\ s \in DOMAIN rows
    /\ rows' = [rows EXCEPT ![s].stale = TRUE]
    /\ UNCHANGED <<current, requests>>

Next ==
    \/ \E r \in Requests :
          \/ RedeemCode(r) \/ CreateSession(r) \/ RequireSession(r)
          \/ TokenAccepted(r) \/ TokenRefused(r) \/ UpdateSessionTokens(r) \/ Reload(r)
          \/ Proxy(r) \/ Refresh(r) \/ RevokeRefreshToken(r) \/ RevokeSession(r) \/ Fail(r)
    \/ \E s \in Sessions : Age(s)

Spec == Init /\ [][Next]_bffVars

----------------------------------------------------------------------------
(* What sessions promise. *)

Stored(s) == s \in DOMAIN rows /\ rows[s].token = current[s]

\* The requests that got the token Auth0 accepts now, and have not stored it.
Holders(s) ==
    {r \in DOMAIN requests : /\ Session(r) = s
                             /\ requests[r].at \in {"exchanged", "lost"}
                             /\ requests[r].token = current[s]}

\* However the refreshes of concurrent requests interleave, the token Auth0
\* accepts is the one in the session, or exactly one request is between the
\* exchange and the UPDATE with it, or failed there.  A session never loses its
\* token to a slower request.
NewestTokenIsKept ==
    \A s \in Sessions : current[s] # 0 =>
        IF Stored(s) THEN Holders(s) = {} ELSE \E r \in Requests : Holders(s) = {r}

\* The UPDATE of a session has no condition on what it replaces; even so an
\* older refresh token never overwrites a newer one.
TokensMoveForward ==
    [][\A s \in DOMAIN rows : s \in DOMAIN rows' /\ rows'[s].token >= rows[s].token]_bffVars

\* A session that was logged out stays so, although a refresh in flight may
\* still write to its row, and lets no request in that had not passed before.
LogoutIsFinal ==
    [][/\ \A s \in DOMAIN rows : rows[s].revoked => rows'[s].revoked
       /\ \A r \in Requests :
             At(r, "in")' /\ ~At(r, "in") => ~rows[requests'[r].session].revoked]_bffVars

----------------------------------------------------------------------------
(* The inductive invariant: which token each request can have in hand.     *)

\* A request has the token Auth0 issued, and the UPDATE is still to come, or
\* will not come any more.
Pending(s) ==
    {r \in DOMAIN requests : Session(r) = s /\ requests[r].at \in {"exchanged", "lost"}}

\* A session has one login, which is over when there is a row, with an answer or
\* with an error; all other requests come with the cookie of a session that has
\* one.
OneLogin ==
    /\ \A r \in DOMAIN requests :
          /\ requests[r].kind = "callback" =>
                /\ requests[r].token = 1
                /\ requests[r].at \in {"done", "failed"} <=> Session(r) \in DOMAIN rows
                /\ requests[r].at \in {"exchanged", "lost", "done", "failed"}
          /\ requests[r].kind # "callback" => Session(r) \in DOMAIN rows
    /\ \A r, q \in DOMAIN requests :
          requests[r].kind = "callback" /\ requests[q].kind = "callback" =>
              (Session(q) = Session(r) => q = r)
    /\ \A s \in DOMAIN rows : \E r \in DOMAIN requests : Session(r) = s
    /\ \A s \in Sessions \ DOMAIN rows :
          current[s] = IF \E r \in DOMAIN requests : Session(r) = s THEN 1 ELSE 0

\* No request but the one between the exchange and the UPDATE has a newer token
\* than the row, and its token is the next one: while it is on its way Auth0
\* accepts no other exchange.
TokenChain ==
    \A s \in DOMAIN rows :
        /\ rows[s].token # 0
        /\ \A r \in DOMAIN requests : Session(r) = s =>
              /\ requests[r].token # 0
              /\ IF r \in Pending(s) THEN requests[r].token = rows[s].token + 1
                                     ELSE requests[r].token <= rows[s].token
        /\ \A r, q \in Pending(s) : r = q
        /\ current[s] # 0 =>
              current[s] = rows[s].token + (IF Pending(s) = {} THEN 0 ELSE 1)

\* Together they hold in every reachable state, and each needs the others.
SessionsInv == SessionsTypeOK /\ OneLogin /\ TokenChain

=============================================================================
