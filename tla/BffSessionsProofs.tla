------------------------- MODULE BffSessionsProofs -------------------------
(***************************************************************************)
(* The promises of the browser sessions, for any number of sessions and of *)
(* requests that overlap in them.                                          *)
(***************************************************************************)
EXTENDS BffSessions, TLAPS

USE DEF EmptyTable, Put, Session

----------------------------------------------------------------------------
(* What a step leaves alone. *)

\* Only the request r of a session changes, and it neither gets a new token nor
\* gives one up; the session keeps its token, and Auth0 may revoke it.
LEMMA QuietStep ==
    ASSUME SessionsInv, NEW r \in Requests, NEW s \in DOMAIN rows, NEW new \in RequestRow,
           r \in DOMAIN requests =>
              Session(r) = s /\ requests[r].kind # "callback" /\ r \notin Pending(s),
           new.session = s, new.kind # "callback", new.at \notin {"exchanged", "lost"},
           new.token # 0, new.token <= rows[s].token,
           DOMAIN requests' = DOMAIN requests \cup {r}, requests'[r] = new,
           \A q \in DOMAIN requests : q # r => requests'[q] = requests[q],
           DOMAIN rows' = DOMAIN rows,
           \A x \in DOMAIN rows : rows'[x] \in SessionRow /\ rows'[x].token = rows[x].token,
           current' \in [Sessions -> Nat],
           \A x \in Sessions : current'[x] = current[x] \/ (x = s /\ current'[x] = 0)
    PROVE  SessionsInv'
<1>1. SessionsTypeOK'
  BY DEF SessionsInv, SessionsTypeOK
<1>2. s \in Sessions /\ \A x \in DOMAIN rows : rows[x] \in SessionRow
  BY DEF SessionsInv, SessionsTypeOK
<1>3. \A x \in DOMAIN rows : Pending(x)' = Pending(x)
  BY DEF Pending
<1>4. OneLogin'
  <2>1. \A q \in DOMAIN requests' : requests'[q].kind = "callback" =>
           q \in DOMAIN requests /\ requests'[q] = requests[q]
    OBVIOUS
  <2>2. \A x \in Sessions : (\E q \in DOMAIN requests' : requests'[q].session = x)
           <=> (\E q \in DOMAIN requests : requests[q].session = x) \/ x = s
    OBVIOUS
  <2>3. \E q \in DOMAIN requests : requests[q].session = s
    BY DEF SessionsInv, OneLogin
  <2> QED BY <1>2, <2>1, <2>2, <2>3 DEF SessionsInv, SessionsTypeOK, OneLogin
<1>5. TokenChain'
  <2> SUFFICES ASSUME NEW x \in DOMAIN rows
               PROVE  /\ rows'[x].token # 0
                      /\ \A q \in DOMAIN requests' : requests'[q].session = x =>
                            /\ requests'[q].token # 0
                            /\ IF q \in Pending(x)
                               THEN requests'[q].token = rows'[x].token + 1
                               ELSE requests'[q].token <= rows'[x].token
                      /\ \A q, p \in Pending(x) : q = p
                      /\ current'[x] # 0 => current'[x] =
                            rows'[x].token + (IF Pending(x) = {} THEN 0 ELSE 1)
    BY <1>3 DEF TokenChain
  <2>1. /\ rows[x].token # 0
        /\ \A q \in DOMAIN requests : Session(q) = x =>
              /\ requests[q].token # 0
              /\ IF q \in Pending(x) THEN requests[q].token = rows[x].token + 1
                                     ELSE requests[q].token <= rows[x].token
        /\ \A q, p \in Pending(x) : q = p
        /\ current[x] # 0 =>
              current[x] = rows[x].token + (IF Pending(x) = {} THEN 0 ELSE 1)
    BY DEF SessionsInv, TokenChain
  <2>2. x \in Sessions /\ rows'[x].token = rows[x].token
    BY DEF SessionsInv, SessionsTypeOK
  <2>3. r \notin Pending(x)
    BY DEF Pending
  <2>4. \A q \in DOMAIN requests' : requests'[q].session = x =>
            /\ requests'[q].token # 0
            /\ IF q \in Pending(x)
               THEN requests'[q].token = rows'[x].token + 1
               ELSE requests'[q].token <= rows'[x].token
    BY <2>1, <2>2, <2>3
  <2> QED BY <2>1, <2>2, <2>4
<1> QED BY <1>1, <1>4, <1>5 DEF SessionsInv

\* The same, for a request that goes from one place to another.
LEMMA QuietMove ==
    ASSUME SessionsInv, NEW r \in DOMAIN requests, NEW place \in Waits \cup Answers,
           requests[r].at \notin {"exchanged", "lost"}, place \notin {"exchanged", "lost"},
           requests[r].kind # "callback", Goes(r, place),
           DOMAIN rows' = DOMAIN rows,
           \A x \in DOMAIN rows : rows'[x] \in SessionRow /\ rows'[x].token = rows[x].token,
           current' \in [Sessions -> Nat],
           \A x \in Sessions :
              current'[x] = current[x] \/ (x = Session(r) /\ current'[x] = 0)
    PROVE  SessionsInv'
<1> DEFINE new == [requests[r] EXCEPT !.at = place]
<1>1. requests[r] \in RequestRow /\ r \in Requests
  BY DEF SessionsInv, SessionsTypeOK
<1>2. Session(r) \in DOMAIN rows /\ r \notin Pending(Session(r))
  BY DEF SessionsInv, OneLogin, Pending
<1>3. requests[r].token # 0 /\ requests[r].token <= rows[Session(r)].token
  BY <1>2 DEF SessionsInv, TokenChain
<1>4. /\ new \in RequestRow /\ new.session = Session(r) /\ new.kind = requests[r].kind
      /\ new.token = requests[r].token /\ new.at = place
  BY <1>1 DEF RequestRow
<1>5. /\ DOMAIN requests' = DOMAIN requests \cup {r} /\ requests'[r] = new
      /\ \A q \in DOMAIN requests : q # r => requests'[q] = requests[q]
  BY DEF Goes
<1> HIDE DEF new
<1> QED BY <1>1, <1>2, <1>3, <1>4, <1>5, QuietStep

\* A request that is not in Pending and not a login.
LEMMA InSession ==
    ASSUME SessionsInv, NEW r \in DOMAIN requests,
           requests[r].at \notin {"exchanged", "lost"}, requests[r].kind # "callback"
    PROVE  /\ r \in Requests /\ Session(r) \in Sessions /\ Session(r) \in DOMAIN rows
           /\ r \notin Pending(Session(r))
           /\ requests[r].token # 0 /\ requests[r].token <= rows[Session(r)].token
BY DEF SessionsInv, SessionsTypeOK, RequestRow, OneLogin, Pending, TokenChain

\* Only a login that is answered and a request that has its token are not.
LEMMA NotCallback ==
    ASSUME SessionsInv, NEW r \in DOMAIN requests,
           requests[r].at \in {"refreshing", "stored", "in", "revoking"}
    PROVE  requests[r].kind # "callback" /\ requests[r].at \notin {"exchanged", "lost"}
BY DEF SessionsInv, OneLogin

----------------------------------------------------------------------------
(* Login. *)

LEMMA RedeemStep == ASSUME NEW r \in Requests PROVE SessionsInv /\ RedeemCode(r) => SessionsInv'
<1> SUFFICES ASSUME SessionsInv, RedeemCode(r) PROVE SessionsInv'
  OBVIOUS
<1>1. PICK s \in Sessions :
         /\ \A q \in DOMAIN requests : Session(q) # s
         /\ current' = [current EXCEPT ![s] = 1]
         /\ requests' = Put(requests, r, [session |-> s, kind |-> "callback",
                                          token |-> 1, at |-> "exchanged"])
  BY DEF RedeemCode
<1>2. r \notin DOMAIN requests /\ UNCHANGED rows
  BY DEF RedeemCode
<1>3. /\ DOMAIN requests' = DOMAIN requests \cup {r}
      /\ requests'[r] = [session |-> s, kind |-> "callback", token |-> 1, at |-> "exchanged"]
      /\ \A q \in DOMAIN requests : requests'[q] = requests[q]
  BY <1>1, <1>2
<1>4. s \notin DOMAIN rows
  BY <1>1 DEF SessionsInv, OneLogin
<1>5. SessionsTypeOK'
  BY <1>1, <1>2, <1>3
  DEF SessionsInv, SessionsTypeOK, RequestRow, Kinds, Waits, Answers
<1>6. OneLogin'
  <2>1. \A x \in Sessions : current'[x] = IF x = s THEN 1 ELSE current[x]
    BY <1>1 DEF SessionsInv, SessionsTypeOK
  <2>2. \A q \in DOMAIN requests' : q # r =>
           requests'[q] = requests[q] /\ requests[q].session # s
    BY <1>1, <1>3
  <2>3. \A x \in DOMAIN rows' : \E q \in DOMAIN requests' : requests'[q].session = x
    BY <1>2, <1>3 DEF SessionsInv, OneLogin
  <2>4. \A x \in Sessions \ DOMAIN rows' :
           current'[x] = IF \E q \in DOMAIN requests' : requests'[q].session = x THEN 1 ELSE 0
    BY <1>2, <1>3, <2>1 DEF SessionsInv, OneLogin
  <2>5. \A p \in DOMAIN requests' :
          /\ requests'[p].kind = "callback" =>
                /\ requests'[p].token = 1
                /\ requests'[p].at \in {"done", "failed"} <=> requests'[p].session \in DOMAIN rows'
                /\ requests'[p].at \in {"exchanged", "lost", "done", "failed"}
          /\ requests'[p].kind # "callback" => requests'[p].session \in DOMAIN rows'
    BY <1>2, <1>3, <1>4, <2>2 DEF SessionsInv, OneLogin
  <2>6. \A p, q \in DOMAIN requests' :
          requests'[p].kind = "callback" /\ requests'[q].kind = "callback" =>
              (requests'[q].session = requests'[p].session => q = p)
    BY <1>3, <2>2 DEF SessionsInv, OneLogin
  <2> QED BY <2>3, <2>4, <2>5, <2>6 DEF OneLogin
<1>7. \A x \in DOMAIN rows : Pending(x)' = Pending(x) /\ current'[x] = current[x]
  BY <1>1, <1>3, <1>4 DEF Pending, SessionsInv, SessionsTypeOK
<1>8. TokenChain'
  BY <1>2, <1>3, <1>4, <1>7 DEF SessionsInv, TokenChain
<1> QED BY <1>5, <1>6, <1>8 DEF SessionsInv

LEMMA CreateStep == ASSUME NEW r \in Requests PROVE SessionsInv /\ CreateSession(r) => SessionsInv'
<1> SUFFICES ASSUME SessionsInv, CreateSession(r) PROVE SessionsInv'
  OBVIOUS
<1> DEFINE s == requests[r].session
<1>1. /\ r \in DOMAIN requests /\ requests[r].at = "exchanged" /\ requests[r].kind = "callback"
      /\ DOMAIN rows' = DOMAIN rows \cup {s}
      /\ rows'[s] = [token |-> requests[r].token, stale |-> FALSE, revoked |-> FALSE]
      /\ \A x \in DOMAIN rows : x # s => rows'[x] = rows[x]
      /\ UNCHANGED current
  BY DEF CreateSession, NewSession, At
<1>2. /\ s \in Sessions /\ s \notin DOMAIN rows /\ requests[r].token = 1
      /\ current[s] = 1
      /\ \A q \in DOMAIN requests : Session(q) = s => q = r
  BY <1>1 DEF SessionsInv, SessionsTypeOK, RequestRow, OneLogin
<1>3. PICK place \in {"done", "failed"} : Goes(r, place)
  BY DEF CreateSession
<1>4. /\ DOMAIN requests' = DOMAIN requests
      /\ requests'[r] = [session |-> s, kind |-> "callback", token |-> 1, at |-> place]
      /\ \A q \in DOMAIN requests : q # r => requests'[q] = requests[q]
  BY <1>1, <1>2, <1>3 DEF Goes, SessionsInv, SessionsTypeOK, RequestRow
<1>5. SessionsTypeOK'
  <2>1. requests'[r] \in RequestRow
    BY <1>2, <1>4 DEF RequestRow, Kinds, Answers
  <2>2. rows'[s] \in SessionRow
    BY <1>1, <1>2 DEF SessionRow
  <2> QED BY <1>1, <1>2, <1>4, <2>1, <2>2 DEF SessionsInv, SessionsTypeOK
<1>6. OneLogin'
  BY <1>1, <1>2, <1>4 DEF SessionsInv, OneLogin
<1>7. Pending(s)' = {} /\ \A x \in DOMAIN rows : Pending(x)' = Pending(x)
  BY <1>2, <1>4 DEF Pending
<1>8. TokenChain'
  BY <1>1, <1>2, <1>4, <1>7 DEF SessionsInv, TokenChain
<1> QED BY <1>5, <1>6, <1>8 DEF SessionsInv

----------------------------------------------------------------------------
(* The refresh. *)

\* A request that has loaded a session, or loads it again.
LEMMA LoadStep ==
    ASSUME SessionsInv, NEW r \in Requests, NEW s \in DOMAIN rows, NEW kind \in Kinds,
           kind # "callback", LoadSession(r, s, kind), UNCHANGED <<current, rows>>,
           r \in DOMAIN requests =>
              Session(r) = s /\ requests[r].kind # "callback" /\ r \notin Pending(s)
    PROVE  SessionsInv'
<1> DEFINE place == IF rows[s].revoked THEN Gone(kind)
                    ELSE IF rows[s].stale THEN "refreshing" ELSE "in"
           new == [session |-> s, kind |-> kind, token |-> rows[s].token, at |-> place]
<1>1. /\ s \in Sessions /\ current \in [Sessions -> Nat]
      /\ \A x \in DOMAIN rows : rows[x] \in SessionRow
  BY DEF SessionsInv, SessionsTypeOK
<1>2. rows[s].token \in Nat /\ rows[s].token # 0
  BY <1>1 DEF SessionsInv, TokenChain, SessionRow
<1>3. place \in Waits \cup Answers /\ place \notin {"exchanged", "lost"}
  BY DEF Gone, Waits, Answers
<1>4. /\ DOMAIN requests' = DOMAIN requests \cup {r} /\ requests'[r] = new
      /\ \A q \in DOMAIN requests : q # r => requests'[q] = requests[q]
  BY DEF LoadSession
<1> HIDE DEF place
<1>5. new \in RequestRow
  BY <1>1, <1>2, <1>3 DEF RequestRow
<1> QED BY <1>1, <1>2, <1>3, <1>4, <1>5, QuietStep

LEMMA RequireStep ==
    ASSUME NEW r \in Requests PROVE SessionsInv /\ RequireSession(r) => SessionsInv'
BY LoadStep DEF RequireSession, Kinds

LEMMA RefreshStep == ASSUME NEW r \in Requests PROVE SessionsInv /\ Refresh(r) => SessionsInv'
BY LoadStep, NotCallback, InSession DEF Refresh, At, Kinds

\* The token a request offers is the one Auth0 accepts only if no exchange is
\* on its way: then it is the one in the row, and the new one is the next.
LEMMA AcceptedStep ==
    ASSUME NEW r \in Requests PROVE SessionsInv /\ TokenAccepted(r) => SessionsInv'
<1> SUFFICES ASSUME SessionsInv, TokenAccepted(r) PROVE SessionsInv'
  OBVIOUS
<1> DEFINE s == requests[r].session
<1>1. /\ r \in DOMAIN requests /\ requests[r].at = "refreshing"
      /\ requests[r].token = current[s]
      /\ current' = [current EXCEPT ![s] = @ + 1]
      /\ UNCHANGED rows
  BY DEF TokenAccepted, At
<1>2. PICK place \in {"exchanged", "lost"} :
         requests' = [requests EXCEPT ![r].at = place, ![r].token = current[s] + 1]
  BY DEF TokenAccepted
<1>3. /\ requests[r].kind # "callback" /\ s \in Sessions /\ s \in DOMAIN rows
      /\ r \notin Pending(s)
      /\ requests[r].token # 0 /\ requests[r].token <= rows[s].token
  BY <1>1, NotCallback, InSession
<1>4. /\ current[s] \in Nat /\ rows[s].token \in Nat /\ requests[r] \in RequestRow
  BY <1>1, <1>3 DEF SessionsInv, SessionsTypeOK, SessionRow
<1>5. Pending(s) = {} /\ current[s] = rows[s].token
  BY <1>1, <1>3, <1>4 DEF SessionsInv, TokenChain
<1>6. /\ DOMAIN requests' = DOMAIN requests
      /\ \A q \in DOMAIN requests : q # r => requests'[q] = requests[q]
  BY <1>1, <1>2
<1>7. /\ requests'[r] \in RequestRow
      /\ requests'[r].session = s /\ requests'[r].kind = requests[r].kind
      /\ requests'[r].token = rows[s].token + 1 /\ requests'[r].at = place
  <2>1. requests'[r] = [session |-> s, kind |-> requests[r].kind,
                        token |-> current[s] + 1, at |-> place]
    BY <1>1, <1>2, <1>4 DEF RequestRow
  <2> QED BY <1>3, <1>4, <1>5, <2>1 DEF RequestRow, Waits, Answers
<1>8. /\ current' \in [Sessions -> Nat] /\ current'[s] = rows[s].token + 1
      /\ \A x \in Sessions : x # s => current'[x] = current[x]
  BY <1>1, <1>3, <1>4, <1>5 DEF SessionsInv, SessionsTypeOK
<1>9. SessionsTypeOK'
  BY <1>1, <1>6, <1>7, <1>8 DEF SessionsInv, SessionsTypeOK
<1>10. OneLogin'
  <2>1. DOMAIN rows \subseteq Sessions
    BY DEF SessionsInv, SessionsTypeOK
  <2>2. \A q \in DOMAIN requests :
           requests'[q].session = requests[q].session /\ requests'[q].kind = requests[q].kind
    BY <1>6, <1>7
  <2>3. \A q \in DOMAIN requests : requests[q].kind = "callback" => requests'[q] = requests[q]
    BY <1>3, <1>6
  <2>4. \A x \in Sessions \ DOMAIN rows : current'[x] = current[x]
    BY <1>3, <1>8
  <2> QED BY <1>1, <1>6, <2>1, <2>2, <2>3, <2>4 DEF SessionsInv, OneLogin
<1>11. Pending(s)' = {r} /\ \A x \in DOMAIN rows : x # s => Pending(x)' = Pending(x)
  BY <1>1, <1>5, <1>6, <1>7 DEF Pending
<1>12. TokenChain'
  <2> SUFFICES ASSUME NEW x \in DOMAIN rows
               PROVE  /\ rows[x].token # 0
                      /\ \A q \in DOMAIN requests' : requests'[q].session = x =>
                            /\ requests'[q].token # 0
                            /\ IF q \in Pending(x)'
                               THEN requests'[q].token = rows[x].token + 1
                               ELSE requests'[q].token <= rows[x].token
                      /\ \A q, p \in Pending(x)' : q = p
                      /\ current'[x] # 0 => current'[x] =
                            rows[x].token + (IF Pending(x)' = {} THEN 0 ELSE 1)
    BY <1>1 DEF TokenChain, Pending
  <2>1. CASE x = s
    BY <1>4, <1>5, <1>6, <1>7, <1>8, <1>11, <2>1 DEF SessionsInv, TokenChain
  <2>2. CASE x # s
    BY <1>1, <1>6, <1>7, <1>8, <1>11, <2>2 DEF SessionsInv, SessionsTypeOK, TokenChain
  <2> QED BY <2>1, <2>2
<1> QED BY <1>9, <1>10, <1>12 DEF SessionsInv

LEMMA RefusedStep ==
    ASSUME NEW r \in Requests PROVE SessionsInv /\ TokenRefused(r) => SessionsInv'
<1> SUFFICES ASSUME SessionsInv, TokenRefused(r) PROVE SessionsInv'
  OBVIOUS
<1>1. /\ r \in DOMAIN requests /\ requests[r].at = "refreshing" /\ Goes(r, "failed")
      /\ UNCHANGED rows
  BY DEF TokenRefused, At
<1>2. PICK c \in {current[Session(r)], 0} : current' = [current EXCEPT ![Session(r)] = c]
  BY DEF TokenRefused
<1>3. /\ current' \in [Sessions -> Nat]
      /\ \A x \in Sessions : current'[x] = current[x] \/ (x = Session(r) /\ current'[x] = 0)
  BY <1>1, <1>2, NotCallback, InSession DEF SessionsInv, SessionsTypeOK
<1> QED BY <1>1, <1>3, NotCallback, QuietMove DEF SessionsInv, SessionsTypeOK, Waits, Answers

\* The UPDATE stores the token that follows the one in the row.
LEMMA UpdateStep ==
    ASSUME NEW r \in Requests PROVE SessionsInv /\ UpdateSessionTokens(r) => SessionsInv'
<1> SUFFICES ASSUME SessionsInv, UpdateSessionTokens(r) PROVE SessionsInv'
  OBVIOUS
<1> DEFINE s == requests[r].session
<1>1. /\ r \in DOMAIN requests /\ requests[r].at = "exchanged"
      /\ requests[r].kind # "callback"
      /\ rows' = [rows EXCEPT ![s].token = requests[r].token, ![s].stale = FALSE]
      /\ UNCHANGED current
  BY DEF UpdateSessionTokens, At
<1>2. PICK place \in {"stored", "failed"} : requests' = [requests EXCEPT ![r].at = place]
  BY DEF UpdateSessionTokens, Goes
<1>3. /\ s \in DOMAIN rows /\ s \in Sessions /\ requests[r] \in RequestRow
      /\ rows[s] \in SessionRow /\ current[s] \in Nat
  BY <1>1 DEF SessionsInv, SessionsTypeOK, OneLogin
<1>4. Pending(s) = {r}
  BY <1>1, <1>3 DEF SessionsInv, TokenChain, Pending
<1>5. requests[r].token = rows[s].token + 1 /\ rows[s].token \in Nat
      /\ (current[s] # 0 => current[s] = rows[s].token + 1)
  BY <1>1, <1>3, <1>4 DEF SessionsInv, TokenChain, SessionRow
<1>6. /\ DOMAIN requests' = DOMAIN requests
      /\ \A q \in DOMAIN requests : q # r => requests'[q] = requests[q]
  BY <1>1, <1>2
<1>7. /\ requests'[r] \in RequestRow
      /\ requests'[r].session = s /\ requests'[r].kind = requests[r].kind
      /\ requests'[r].token = requests[r].token /\ requests'[r].at = place
  BY <1>1, <1>2, <1>3 DEF RequestRow, Waits, Answers
<1>8. /\ DOMAIN rows' = DOMAIN rows
      /\ rows'[s] \in SessionRow /\ rows'[s].token = rows[s].token + 1
      /\ \A x \in DOMAIN rows : x # s => rows'[x] = rows[x]
  BY <1>1, <1>3, <1>5 DEF SessionRow
<1>9. SessionsTypeOK'
  BY <1>1, <1>6, <1>7, <1>8 DEF SessionsInv, SessionsTypeOK
<1>10. OneLogin'
  BY <1>1, <1>6, <1>7, <1>8 DEF SessionsInv, OneLogin
<1>11. Pending(s)' = {} /\ \A x \in DOMAIN rows : x # s => Pending(x)' = Pending(x)
  BY <1>1, <1>4, <1>6, <1>7 DEF Pending
<1>12. TokenChain'
  <2> SUFFICES ASSUME NEW x \in DOMAIN rows
               PROVE  /\ rows'[x].token # 0
                      /\ \A q \in DOMAIN requests' : requests'[q].session = x =>
                            /\ requests'[q].token # 0
                            /\ IF q \in Pending(x)'
                               THEN requests'[q].token = rows'[x].token + 1
                               ELSE requests'[q].token <= rows'[x].token
                      /\ \A q, p \in Pending(x)' : q = p
                      /\ current[x] # 0 => current[x] =
                            rows'[x].token + (IF Pending(x)' = {} THEN 0 ELSE 1)
    BY <1>1, <1>8 DEF TokenChain, Pending
  <2>1. CASE x = s
    <3>1. \A q \in DOMAIN requests : Session(q) = s /\ q # r =>
             requests[q].token \in Nat /\ requests[q].token # 0 /\ requests[q].token <= rows[s].token
      BY <1>3, <1>4 DEF SessionsInv, SessionsTypeOK, RequestRow, TokenChain
    <3>2. requests[r].token # 0 /\ requests'[r].token <= rows'[s].token
      BY <1>3, <1>5, <1>7, <1>8
    <3>3. \A q \in DOMAIN requests : Session(q) = s /\ q # r => requests[q].token <= rows'[s].token
      BY <1>5, <1>8, <3>1
    <3> QED BY <1>5, <1>6, <1>7, <1>8, <1>11, <2>1, <3>1, <3>2, <3>3
  <2>2. CASE x # s
    BY <1>6, <1>7, <1>8, <1>11, <2>2 DEF SessionsInv, TokenChain
  <2> QED BY <2>1, <2>2
<1> QED BY <1>9, <1>10, <1>12 DEF SessionsInv

LEMMA ReloadStep == ASSUME NEW r \in Requests PROVE SessionsInv /\ Reload(r) => SessionsInv'
<1> SUFFICES ASSUME SessionsInv, Reload(r) PROVE SessionsInv'
  OBVIOUS
<1> DEFINE s == requests[r].session
           place == IF rows[s].revoked THEN Gone(requests[r].kind) ELSE "in"
           new == [requests[r] EXCEPT !.at = place, !.token = rows[s].token]
<1>1. /\ r \in DOMAIN requests /\ requests[r].at = "stored"
      /\ requests' = [requests EXCEPT ![r].at = place, ![r].token = rows[s].token]
      /\ UNCHANGED <<current, rows>>
  BY DEF Reload, At
<1>2. /\ requests[r].kind # "callback" /\ s \in DOMAIN rows /\ r \notin Pending(s)
  BY <1>1, NotCallback, InSession
<1>3. /\ requests[r] \in RequestRow /\ current \in [Sessions -> Nat]
      /\ \A x \in DOMAIN rows : rows[x] \in SessionRow
  BY <1>1 DEF SessionsInv, SessionsTypeOK
<1>4. place \in Waits \cup Answers /\ place \notin {"exchanged", "lost"}
  BY DEF Gone, Waits, Answers
<1>5. rows[s].token \in Nat /\ rows[s].token # 0
  BY <1>2, <1>3 DEF SessionsInv, TokenChain, SessionRow
<1> HIDE DEF place
<1>6. /\ new \in RequestRow /\ new.session = s /\ new.kind = requests[r].kind
      /\ new.token = rows[s].token /\ new.at = place
  BY <1>3, <1>4, <1>5 DEF RequestRow
<1>7. /\ DOMAIN requests' = DOMAIN requests \cup {r} /\ requests'[r] = new
      /\ \A q \in DOMAIN requests : q # r => requests'[q] = requests[q]
  BY <1>1
<1>8. UNCHANGED <<current, rows>> /\ new.token <= rows[s].token /\ new.token # 0
      /\ (r \in DOMAIN requests => Session(r) = s)
  BY <1>1, <1>5, <1>6
<1> HIDE DEF new, s
<1> QED BY <1>2, <1>3, <1>4, <1>6, <1>7, <1>8, QuietStep

----------------------------------------------------------------------------
(* The controllers, and failures. *)

LEMMA ProxyStep == ASSUME NEW r \in Requests PROVE SessionsInv /\ Proxy(r) => SessionsInv'
BY NotCallback, QuietMove DEF Proxy, At, SessionsInv, SessionsTypeOK, Waits, Answers

LEMMA RevokeTokenStep ==
    ASSUME NEW r \in Requests PROVE SessionsInv /\ RevokeRefreshToken(r) => SessionsInv'
<1> SUFFICES ASSUME SessionsInv, RevokeRefreshToken(r) PROVE SessionsInv'
  OBVIOUS
<1>1. /\ r \in DOMAIN requests /\ requests[r].at = "in" /\ UNCHANGED rows
      /\ \E place \in {"revoking", "failed"} : Goes(r, place)
  BY DEF RevokeRefreshToken, At
<1>2. PICK c \in {0} \cup ({current[Session(r)]} \ {requests[r].token}) :
         current' = [current EXCEPT ![Session(r)] = c]
  BY DEF RevokeRefreshToken
<1>3. /\ current' \in [Sessions -> Nat]
      /\ \A x \in Sessions : current'[x] = current[x] \/ (x = Session(r) /\ current'[x] = 0)
  BY <1>1, <1>2, NotCallback, InSession DEF SessionsInv, SessionsTypeOK
<1> QED BY <1>1, <1>3, NotCallback, QuietMove DEF SessionsInv, SessionsTypeOK, Waits, Answers

LEMMA RevokeSessionStep ==
    ASSUME NEW r \in Requests PROVE SessionsInv /\ RevokeSession(r) => SessionsInv'
<1> SUFFICES ASSUME SessionsInv, RevokeSession(r) PROVE SessionsInv'
  OBVIOUS
<1>1. /\ r \in DOMAIN requests /\ requests[r].at = "revoking" /\ UNCHANGED current
      /\ rows' = [rows EXCEPT ![Session(r)].revoked = TRUE]
  BY DEF RevokeSession, At
<1>2. PICK place \in {"done", "failed"} : Goes(r, place)
  BY DEF RevokeSession
<1>3. /\ DOMAIN rows' = DOMAIN rows
      /\ \A x \in DOMAIN rows : rows'[x] \in SessionRow /\ rows'[x].token = rows[x].token
  BY <1>1 DEF SessionsInv, SessionsTypeOK, SessionRow
<1> QED BY <1>1, <1>2, <1>3, NotCallback, QuietMove
        DEF SessionsInv, SessionsTypeOK, Waits, Answers

\* A request that fails with the new token in hand keeps it from everybody else.
LEMMA FailStep == ASSUME NEW r \in Requests PROVE SessionsInv /\ Fail(r) => SessionsInv'
<1> SUFFICES ASSUME SessionsInv, Fail(r) PROVE SessionsInv'
  OBVIOUS
<1>1. /\ r \in DOMAIN requests /\ requests[r].at \in Waits
      /\ Goes(r, IF requests[r].at = "exchanged" THEN "lost" ELSE "failed")
      /\ UNCHANGED <<current, rows>>
  BY DEF Fail, At
<1>2. CASE requests[r].at # "exchanged"
  BY <1>1, <1>2, NotCallback, QuietMove DEF SessionsInv, SessionsTypeOK, Waits, Answers
<1>3. CASE requests[r].at = "exchanged"
  <2>1. requests' = [requests EXCEPT ![r].at = "lost"]
    BY <1>1, <1>3 DEF Goes
  <2>2. requests[r] \in RequestRow
    BY <1>1 DEF SessionsInv, SessionsTypeOK
  <2>3. /\ DOMAIN requests' = DOMAIN requests
        /\ \A q \in DOMAIN requests : q # r => requests'[q] = requests[q]
        /\ requests'[r] \in RequestRow /\ requests'[r].at = "lost"
        /\ requests'[r].session = requests[r].session /\ requests'[r].kind = requests[r].kind
        /\ requests'[r].token = requests[r].token
    BY <1>1, <2>1, <2>2 DEF RequestRow, Answers
  <2>4. SessionsTypeOK'
    BY <1>1, <2>3 DEF SessionsInv, SessionsTypeOK
  <2>5. OneLogin'
    BY <1>1, <1>3, <2>3 DEF SessionsInv, OneLogin
  <2>6. \A x \in DOMAIN rows : Pending(x)' = Pending(x)
    BY <1>1, <1>3, <2>3 DEF Pending
  <2>7. TokenChain'
    BY <1>1, <2>3, <2>6 DEF SessionsInv, TokenChain
  <2> QED BY <2>4, <2>5, <2>7 DEF SessionsInv
<1> QED BY <1>2, <1>3

LEMMA AgeStep == ASSUME NEW s \in Sessions PROVE SessionsInv /\ Age(s) => SessionsInv'
<1> SUFFICES ASSUME SessionsInv, Age(s) PROVE SessionsInv'
  OBVIOUS
<1>1. /\ DOMAIN rows' = DOMAIN rows
      /\ \A x \in DOMAIN rows : rows'[x] \in SessionRow /\ rows'[x].token = rows[x].token
      /\ UNCHANGED <<current, requests>>
  BY DEF Age, SessionsInv, SessionsTypeOK, SessionRow
<1>2. \A x \in DOMAIN rows : Pending(x)' = Pending(x)
  BY <1>1 DEF Pending
<1>3. SessionsTypeOK' /\ OneLogin'
  BY <1>1 DEF SessionsInv, SessionsTypeOK, OneLogin
<1>4. TokenChain'
  BY <1>1, <1>2 DEF SessionsInv, TokenChain
<1> QED BY <1>3, <1>4 DEF SessionsInv

----------------------------------------------------------------------------
(* The theorems. *)

\* Which token each request can have in hand, however many overlap in a session.
THEOREM SessionsInvariant == Spec => []SessionsInv
<1>1. Init => SessionsInv
  BY DEF Init, SessionsInv, SessionsTypeOK, OneLogin, TokenChain
<1>2. SessionsInv /\ [Next]_bffVars => SessionsInv'
  <2>1. SessionsInv /\ UNCHANGED bffVars => SessionsInv'
    BY DEF bffVars, SessionsInv, SessionsTypeOK, OneLogin, TokenChain, Pending
  <2> QED
    BY <2>1, RedeemStep, CreateStep, RequireStep, AcceptedStep, RefusedStep, UpdateStep,
       ReloadStep, ProxyStep, RefreshStep, RevokeTokenStep, RevokeSessionStep, FailStep,
       AgeStep
    DEF Next
<1> QED BY <1>1, <1>2, PTL DEF Spec

\* The token Auth0 accepts is in the session, or in the hands of one request.
THEOREM SessionsKeepNewest == Spec => []NewestTokenIsKept
<1>1. SessionsInv => NewestTokenIsKept
  <2> SUFFICES ASSUME SessionsInv, NEW s \in Sessions, current[s] # 0
               PROVE  IF Stored(s) THEN Holders(s) = {}
                                   ELSE \E r \in Requests : Holders(s) = {r}
    BY DEF NewestTokenIsKept
  <2>1. CASE s \notin DOMAIN rows
    <3>1. PICK r \in DOMAIN requests : Session(r) = s
      BY <2>1 DEF SessionsInv, OneLogin
    <3>2. /\ r \in Requests /\ current[s] = 1 /\ requests[r].token = 1
          /\ requests[r].at \in {"exchanged", "lost"}
          /\ \A q \in DOMAIN requests : Session(q) = s => q = r
      BY <2>1, <3>1 DEF SessionsInv, SessionsTypeOK, OneLogin
    <3>3. Holders(s) = {r}
      BY <3>1, <3>2 DEF Holders
    <3> QED BY <2>1, <3>2, <3>3 DEF Stored
  <2>2. CASE s \in DOMAIN rows
    <3>1. /\ rows[s].token \in Nat /\ DOMAIN requests \subseteq Requests
          /\ current[s] = rows[s].token + (IF Pending(s) = {} THEN 0 ELSE 1)
          /\ \A r, q \in Pending(s) : r = q
          /\ \A r \in Pending(s) : requests[r].token = rows[s].token + 1
      BY <2>2 DEF SessionsInv, SessionsTypeOK, SessionRow, TokenChain, Pending
    <3>2. CASE Pending(s) = {}
      BY <2>2, <3>1, <3>2 DEF Stored, Holders, Pending
    <3>3. CASE Pending(s) # {}
      <4>1. PICK r \in DOMAIN requests : Pending(s) = {r}
        BY <3>1, <3>3 DEF Pending
      <4>2. Holders(s) = {r}
        BY <3>1, <3>3, <4>1 DEF Holders, Pending
      <4> QED BY <3>1, <3>3, <4>1, <4>2 DEF Stored
    <3> QED BY <3>2, <3>3
  <2> QED BY <2>1, <2>2
<1> QED BY <1>1, SessionsInvariant, PTL

\* No slower request overwrites a newer token.
THEOREM SessionsMoveForward == Spec => TokensMoveForward
<1>1. SessionsInv /\ [Next]_bffVars =>
         [\A s \in DOMAIN rows : s \in DOMAIN rows' /\ rows'[s].token >= rows[s].token]_bffVars
  <2> SUFFICES ASSUME SessionsInv, Next, NEW s \in DOMAIN rows
               PROVE  s \in DOMAIN rows' /\ rows'[s].token >= rows[s].token
    OBVIOUS
  <2>1. rows[s] \in SessionRow /\ rows[s].token \in Nat
    BY DEF SessionsInv, SessionsTypeOK, SessionRow
  <2>2. ASSUME NEW r \in Requests, UpdateSessionTokens(r) PROVE s \in DOMAIN rows' /\ rows'[s].token >= rows[s].token
    <3>1. /\ r \in DOMAIN requests /\ requests[r].at = "exchanged"
          /\ requests[r].kind # "callback"
          /\ rows' = [rows EXCEPT ![Session(r)].token = requests[r].token,
                                  ![Session(r)].stale = FALSE]
      BY <2>2 DEF UpdateSessionTokens, At
    <3>2. Session(r) = s => requests[r].token = rows[s].token + 1
      BY <3>1 DEF SessionsInv, TokenChain, Pending
    <3> QED BY <2>1, <3>1, <3>2 DEF SessionRow
  <2>3. ASSUME NEW r \in Requests, CreateSession(r) PROVE s \in DOMAIN rows' /\ rows'[s] = rows[s]
    BY <2>3 DEF CreateSession, At, SessionsInv, OneLogin
  <2>4. ASSUME NEW r \in Requests, RevokeSession(r)
        PROVE  s \in DOMAIN rows' /\ rows'[s].token = rows[s].token
    BY <2>1, <2>4 DEF RevokeSession, SessionRow
  <2>5. ASSUME NEW x \in Sessions, Age(x)
        PROVE  s \in DOMAIN rows' /\ rows'[s].token = rows[s].token
    BY <2>1, <2>5 DEF Age, SessionRow
  <2>6. CASE UNCHANGED rows
    BY <2>1, <2>6
  <2>7. ASSUME rows'[s] = rows[s] \/ rows'[s].token = rows[s].token
        PROVE  rows'[s].token >= rows[s].token
    BY <2>1, <2>7
  <2> QED
    BY <2>2, <2>3, <2>4, <2>5, <2>6, <2>7
    DEF Next, RedeemCode, RequireSession, TokenAccepted, TokenRefused, Reload, Proxy,
        Refresh, RevokeRefreshToken, Fail
<1> QED BY <1>1, SessionsInvariant, PTL DEF Spec, TokensMoveForward

\* A logout stays, and whoever comes in has seen that there was none.
THEOREM SessionsLogoutFinal == Spec => LogoutIsFinal
<1>1. SessionsInv /\ [Next]_bffVars =>
         [/\ \A s \in DOMAIN rows : rows[s].revoked => rows'[s].revoked
          /\ \A r \in Requests :
                At(r, "in")' /\ ~At(r, "in") => ~rows[requests'[r].session].revoked]_bffVars
  <2> SUFFICES ASSUME SessionsInv, Next
               PROVE  /\ \A s \in DOMAIN rows : rows[s].revoked => rows'[s].revoked
                      /\ \A r \in Requests :
                            At(r, "in")' /\ ~At(r, "in") => ~rows[requests'[r].session].revoked
    OBVIOUS
  <2>1. ASSUME NEW s \in DOMAIN rows PROVE rows[s].revoked => rows'[s].revoked
    <3>1. rows[s] \in SessionRow
      BY DEF SessionsInv, SessionsTypeOK
    <3>2. ASSUME NEW r \in Requests, UpdateSessionTokens(r) \/ RevokeSession(r)
          PROVE  rows[s].revoked => rows'[s].revoked
      BY <3>1, <3>2 DEF UpdateSessionTokens, RevokeSession, SessionRow
    <3>3. ASSUME NEW r \in Requests, CreateSession(r) PROVE rows'[s] = rows[s]
      BY <3>3 DEF CreateSession, At, SessionsInv, OneLogin
    <3>4. ASSUME NEW x \in Sessions, Age(x) PROVE rows[s].revoked => rows'[s].revoked
      BY <3>1, <3>4 DEF Age, SessionRow
    <3>5. CASE UNCHANGED rows
      BY <3>5
    <3> QED
      BY <3>2, <3>3, <3>4, <3>5
      DEF Next, RedeemCode, RequireSession, TokenAccepted, TokenRefused, Reload, Proxy,
          Refresh, RevokeRefreshToken, Fail
  <2>2. ASSUME NEW r \in Requests, At(r, "in")', ~At(r, "in")
        PROVE  ~rows[requests'[r].session].revoked
    <3>1. ASSUME NEW q \in Requests, NEW place, place # "in", Goes(q, place) PROVE FALSE
      BY <2>2, <3>1 DEF Goes, At
    <3>2. ASSUME NEW q \in Requests, NEW s \in DOMAIN rows, NEW kind \in Kinds,
                 LoadSession(q, s, kind)
          PROVE  ~rows[requests'[r].session].revoked
      BY <2>2, <3>2 DEF LoadSession, At, Gone
    <3>3. ASSUME NEW q \in Requests, Reload(q) PROVE ~rows[requests'[r].session].revoked
      BY <2>2, <3>3 DEF Reload, At, Gone
    <3>4. ASSUME NEW q \in Requests, RedeemCode(q) \/ TokenAccepted(q) PROVE FALSE
      <4>1. CASE RedeemCode(q)
        BY <2>2, <4>1 DEF RedeemCode, At
      <4>2. CASE TokenAccepted(q)
        <5>1. PICK place \in {"exchanged", "lost"} :
                 requests' = [requests EXCEPT ![q].at = place,
                                              ![q].token = current[Session(q)] + 1]
          BY <4>2 DEF TokenAccepted
        <5> QED BY <2>2, <5>1 DEF At
      <4> QED BY <3>4, <4>1, <4>2
    <3>5. ASSUME NEW q \in Requests, Refresh(q) PROVE ~rows[requests'[r].session].revoked
      BY <3>2, <3>5, NotCallback, InSession DEF Refresh, At, Kinds
    <3>6. ASSUME NEW q \in Requests, RequireSession(q) PROVE ~rows[requests'[r].session].revoked
      BY <3>2, <3>6 DEF RequireSession, Kinds
    <3>7. CASE UNCHANGED requests
      BY <2>2, <3>7 DEF At
    <3> QED
      BY <3>1, <3>3, <3>4, <3>5, <3>6, <3>7
      DEF Next, CreateSession, TokenRefused, UpdateSessionTokens, Proxy, RevokeRefreshToken,
          RevokeSession, Fail, Age
  <2> QED BY <2>1, <2>2
<1> QED BY <1>1, SessionsInvariant, PTL DEF Spec, LogoutIsFinal

=============================================================================
