---------------------------- MODULE RequestPath ----------------------------
(***************************************************************************)
(* POST /bff/orders: browser, BFF, API gateway, order-service.  The BFF    *)
(* and the gateway each call the next hop through a circuit breaker, whose *)
(* timeout is shorter than that of fetch; nobody tells the next hop that   *)
(* its caller has given up.  A client that gets an error asks again with   *)
(* the same Idempotency-Key, while the first attempt may still be running. *)
(***************************************************************************)
EXTENDS OrderService, AccessControl, CircuitBreaker

CONSTANTS
    Intents,    \* orders clients want: [user, key, body]
    MaxFaults   \* bound: calls that time out and database errors

ASSUME PathAssumption ==
    /\ Intents \subseteq [user : Users \cap Subjects, key : Keys, body : Bodies]
    /\ MaxFaults \in Nat

VARIABLES
    attempts,      \* HTTP request -> its intent and what each hop knows
    bffBreaker,    \* gatewayBreaker of the BFF
    orderBreaker,  \* orderServiceBreaker of the gateway
    faults

pathVars == <<orderVars, accessVars, attempts, bffBreaker, orderBreaker, faults>>

\* Answers by status: 200 and 202, 409, 403, 500.
Replies == {"ok", "conflict", "forbidden", "error"}

\* Attempts are named by the order id that order-service would draw for them.
\* The BFF is waiting or has given a reply; the gateway has received, authorized
\* or forwarded the call, has given it up or has given a reply.

PathInit ==
    /\ OrderInit /\ AccessInit
    /\ attempts = EmptyTable
    /\ bffBreaker = "closed" /\ orderBreaker = "closed"
    /\ faults = 0

Gateway(r, place) == r \in DOMAIN attempts /\ attempts[r].gateway = place
Waiting(r) == r \in DOMAIN attempts /\ attempts[r].bff = "waiting"

Fault == faults < MaxFaults /\ faults' = faults + 1

----------------------------------------------------------------------------
(* The BFF. *)

\* An attempt that the gateway turned down, and that is over, has left no trace.
Unused ==
    {r \in OrderIds : r \in DOMAIN attempts =>
        /\ attempts[r].bff = "error" /\ attempts[r].gateway = "error"
        /\ r \notin DOMAIN requests}

AttemptsOf(i) == {r \in DOMAIN attempts : attempts[r].intent = i}

\* Which id is drawn makes no difference.
Fresh == CHOOSE r \in Unused : TRUE

\* proxyToGateway fires the breaker; one that is open answers at once and
\* changes nothing.  The client asks until it has another answer than a 500.
Ask(i) ==
    /\ \A r \in AttemptsOf(i) : attempts[r].bff = "error"
    /\ Admits(bffBreaker)
    /\ bffBreaker' = Fired(bffBreaker)
    /\ Unused # {}
    /\ attempts' = Put(attempts, Fresh, [intent |-> i, bff |-> "waiting",
                                         gateway |-> "received"])
    /\ UNCHANGED <<orderVars, accessVars, orderBreaker, faults>>

\* The status of the gateway is passed on; it is a success of the breaker.
BffAnswers(r) ==
    /\ Waiting(r) /\ attempts[r].gateway \in Replies \cup {"gaveUp"}
    /\ attempts' = [attempts EXCEPT ![r].bff =
           IF Gateway(r, "gaveUp") THEN "error" ELSE attempts[r].gateway]
    /\ bffBreaker' = Succeeded(bffBreaker)
    /\ UNCHANGED <<orderVars, accessVars, orderBreaker, faults>>

\* The breaker gives up; the gateway does not hear of it.
BffGivesUp(r) ==
    /\ Waiting(r)
    /\ attempts' = [attempts EXCEPT ![r].bff = "error"]
    /\ bffBreaker' \in Failed(bffBreaker)
    /\ Fault
    /\ UNCHANGED <<orderVars, accessVars, orderBreaker>>

----------------------------------------------------------------------------
(* The API gateway. *)

\* mutant: the route has no requirePrivilege
AuthorizeAnyone(r) ==
    /\ Gateway(r, "received")
    /\ attempts' = [attempts EXCEPT ![r].gateway = "authorized"]
    /\ UNCHANGED <<orderVars, accessVars, bffBreaker, orderBreaker, faults>>

\* authorize reads the privileges of the subject, requirePrivilege asks for one.
Authorize(r) ==
    /\ Gateway(r, "received")
    /\ attempts' = [attempts EXCEPT ![r].gateway =
           IF "ORDER_CREATE" \in PrivilegesOf(attempts[r].intent.user)
           THEN "authorized" ELSE "forbidden"]
    /\ UNCHANGED <<orderVars, accessVars, bffBreaker, orderBreaker, faults>>

\* forward fires the breaker, which rejects when open.
Forward(r) ==
    /\ Gateway(r, "authorized")
    /\ attempts' = [attempts EXCEPT ![r].gateway =
           IF Admits(orderBreaker) THEN "forwarded" ELSE "error"]
    /\ orderBreaker' = Fired(orderBreaker)
    /\ UNCHANGED <<orderVars, accessVars, bffBreaker, faults>>

\* mutant: the body of any answer is passed on, and its status for a 409 only
ErrorsPassAsSuccess(outcome) == IF outcome = "conflict" THEN "conflict" ELSE "ok"

\* The status order-service gives for an outcome.
Status(outcome) ==
    CASE outcome \in {"created", "replayed"} -> "ok"
      [] outcome = "conflict" -> "conflict"
      [] OTHER -> "error"

Finished(r) == r \in DOMAIN requests /\ ~Inserting(r)

\* forward returns the answer of order-service.
GatewayAnswers(r) ==
    /\ Gateway(r, "forwarded") /\ Finished(r)
    /\ attempts' = [attempts EXCEPT ![r].gateway = Status(requests[r].outcome)]
    /\ orderBreaker' = Succeeded(orderBreaker)
    /\ UNCHANGED <<orderVars, accessVars, bffBreaker, faults>>

\* The breaker gives up, or the connection is lost.
GatewayGivesUp(r) ==
    /\ Gateway(r, "forwarded")
    /\ attempts' = [attempts EXCEPT ![r].gateway = "gaveUp"]
    /\ orderBreaker' \in Failed(orderBreaker)
    /\ Fault
    /\ UNCHANGED <<orderVars, accessVars, bffBreaker>>

----------------------------------------------------------------------------
(* order-service, and the rest of the system. *)

\* createOrderController takes the request as the gateway forwards it; it may
\* arrive after the gateway has given up.
Receive(r) ==
    /\ Gateway(r, "forwarded") \/ Gateway(r, "gaveUp")
    /\ Lookup(r)
    /\ LET i == attempts[r].intent q == requests'[r]
       IN q.user = i.user /\ q.key = i.key /\ q.body = i.body
    /\ UNCHANGED <<accessVars, attempts, bffBreaker, orderBreaker, faults>>

Insert(r) ==
    /\ InsertOrder(r) \/ InsertRefused(r)
    /\ IF requests'[r].outcome = "aborted" THEN Fault ELSE UNCHANGED faults
    /\ UNCHANGED <<accessVars, attempts, bffBreaker, orderBreaker>>

AbortInsert(r) ==
    /\ Abort(r)
    /\ Fault
    /\ UNCHANGED <<accessVars, attempts, bffBreaker, orderBreaker>>

\* resetTimeout of either breaker.
ResetBff ==
    /\ bffBreaker' = HalfOpened(bffBreaker)
    /\ UNCHANGED <<orderVars, accessVars, attempts, orderBreaker, faults>>

ResetOrder ==
    /\ orderBreaker' = HalfOpened(orderBreaker)
    /\ UNCHANGED <<orderVars, accessVars, attempts, bffBreaker, faults>>

FailedAssignments == {a \in DOMAIN assignments : Assigning(a, "failed")}

Access ==
    /\ AccessStep
    /\ IF FailedAssignments' = FailedAssignments THEN UNCHANGED faults ELSE Fault
    /\ UNCHANGED <<orderVars, attempts, bffBreaker, orderBreaker>>

Hop(r) ==
    \/ BffAnswers(r) \/ Authorize(r) \/ Forward(r) \/ GatewayAnswers(r)
    \/ Gateway(r, "forwarded") /\ Receive(r)
    \/ Insert(r)

Next ==
    \/ \E i \in Intents : Ask(i)
    \/ \E r \in OrderIds : Hop(r) \/ Receive(r) \/ BffGivesUp(r) \/ GatewayGivesUp(r) \/ AbortInsert(r)
    \/ ResetBff \/ ResetOrder
    \/ Access

Spec == PathInit /\ [][Next]_pathVars

\* Every hop answers or is given up, the timers of the breakers fire, and the
\* client retries as docs/ARCHITECTURE.md expects it to.
Fairness ==
    /\ \A r \in OrderIds : WF_pathVars(Hop(r))
    /\ \A i \in Intents : SF_pathVars(Ask(i))
    /\ WF_pathVars(ResetBff) /\ WF_pathVars(ResetOrder)

FairSpec == Spec /\ Fairness

----------------------------------------------------------------------------
(* The inductive invariant. *)

AttemptRow ==
    [intent : Intents, bff : {"waiting"} \cup Replies,
     gateway : {"received", "authorized", "forwarded", "gaveUp"} \cup Replies]

AssignmentRow ==
    [sub : Subjects, code : Codes, at : {"started", "upserted", "done", "failed"}]

PathTypeOK ==
    /\ OrderTypeOK
    /\ DOMAIN attempts \subseteq OrderIds
    /\ \A r \in DOMAIN attempts : attempts[r] \in AttemptRow
    /\ DOMAIN assignments \subseteq Assignments
    /\ \A a \in DOMAIN assignments : assignments[a] \in AssignmentRow
    /\ DOMAIN people \subseteq Subjects
    /\ \A s \in DOMAIN people : people[s] \in UserIds
    /\ bffBreaker \in BreakerStates /\ orderBreaker \in BreakerStates
    /\ faults \in 0 .. MaxFaults

MayOrder(r) == "ORDER_CREATE" \in PrivilegesOf(attempts[r].intent.user)

\* order-service has only what the gateway has forwarded to it: the request of
\* the attempt, whose user is authorised.
RequestsWereForwarded ==
    \A r \in DOMAIN requests :
        /\ r \in DOMAIN attempts
        /\ attempts[r].gateway \notin {"received", "authorized", "forbidden"}
        /\ requests[r].user = attempts[r].intent.user
        /\ requests[r].key = attempts[r].intent.key
        /\ MayOrder(r)

\* A call on its way past the gateway's check was let through by it.
ForwardedWasChecked ==
    \A r \in DOMAIN attempts :
        attempts[r].gateway \in {"authorized", "forwarded", "gaveUp"} => MayOrder(r)

\* A success is what order-service has said, at every hop.
SuccessIsAnswered ==
    \A r \in DOMAIN attempts :
        /\ attempts[r].gateway = "ok" =>
              r \in DOMAIN requests /\ requests[r].outcome \in {"created", "replayed"}
        /\ attempts[r].bff = "ok" => attempts[r].gateway = "ok"

\* No two subjects share an id; a membership is what an assignment has written
\* that was answered, or that failed after its last statement; and an answered
\* assignment has written its membership.
IdsAreDistinct == \A s, t \in DOMAIN people : people[s] = people[t] => s = t

MembershipsWereAssigned ==
    \A m \in memberships : \E a \in DOMAIN assignments :
        /\ Assigning(a, "done") \/ Assigning(a, "failed")
        /\ assignments[a].sub \in DOMAIN people
        /\ m = <<people[assignments[a].sub], assignments[a].code>>

AssignmentsTakeEffect ==
    \A a \in DOMAIN assignments : Assigning(a, "upserted") \/ Assigning(a, "done") =>
        /\ assignments[a].sub \in DOMAIN people
        /\ Assigning(a, "done") /\ assignments[a].code \in Groups =>
              <<people[assignments[a].sub], assignments[a].code>> \in memberships

----------------------------------------------------------------------------
(* What the path promises. *)

\* Whichever hop has given up and however often the client has asked, all that
\* it is told of one user and key is the one order they have.
SuccessNamesTheOrder ==
    \A r, q \in DOMAIN attempts :
        LET i == attempts[r].intent j == attempts[q].intent IN
        attempts[r].bff = "ok" /\ j.user = i.user /\ j.key = i.key =>
            /\ FindOrderByIdempotency(i.user, i.key) = {requests[r].order}
            /\ attempts[q].bff = "ok" => requests[q].order = requests[r].order

\* An order exists only for a user whose groups allow it, however late the
\* attempt that created it came through.
OrdersAreAuthorised ==
    \A o \in DOMAIN orders : "ORDER_CREATE" \in PrivilegesOf(orders[o].user)

\* What holds together in every reachable state: a request is known to
\* order-service only through a check of the gateway that still stands, and
\* group memberships are those that assignments have asked for.
PathInv ==
    /\ PathTypeOK
    /\ IntakeInv
    /\ RequestsWereForwarded
    /\ ForwardedWasChecked
    /\ SuccessIsAnswered
    /\ OrdersAreAuthorised
    /\ IdsAreDistinct
    /\ MembershipsWereAssigned
    /\ AssignmentsTakeEffect

\* Once an assignment to an existing group has been answered, the gateway turns
\* no request of that user away, although the two services share no more than
\* the database and the user may have logged in in between.
GrantIsEffective ==
    [][\A r \in OrderIds, a \in DOMAIN assignments :
          /\ Gateway(r, "received") /\ Gateway(r, "forbidden")'
          /\ Assigning(a, "done") /\ assignments[a].code \in Groups
          => assignments[a].sub # attempts[r].intent.user]_pathVars

Settled(i) == \E r \in AttemptsOf(i) : attempts[r].bff \in {"ok", "conflict", "forbidden"}

\* When faults come to an end, a client that keeps asking gets its order or is
\* told why not: no breaker stays open for good, and no attempt that was given
\* up stands in the way of a later one.
EveryIntentIsSettled == \A i \in Intents : <>Settled(i)

=============================================================================
