------------------------- MODULE RequestPathProofs -------------------------
(***************************************************************************)
(* Theorems about RequestPath, for any set of users, keys, bodies, orders  *)
(* and assignments, and any number of faults.                              *)
(***************************************************************************)
EXTENDS RequestPath, OrderServiceProofs

USE DEF EmptyTable, Put

----------------------------------------------------------------------------
(* Users and groups. *)

AccessTypeOK ==
    /\ DOMAIN people \subseteq Subjects
    /\ \A s \in DOMAIN people : people[s] \in UserIds
    /\ DOMAIN assignments \subseteq Assignments
    /\ \A a \in DOMAIN assignments : assignments[a] \in AssignmentRow

AccessInv ==
    /\ AccessTypeOK
    /\ IdsAreDistinct
    /\ MembershipsWereAssigned
    /\ AssignmentsTakeEffect

\* A user keeps its id, and a group its members.
AccessGrows ==
    /\ \A s \in DOMAIN people : s \in DOMAIN people' /\ people'[s] = people[s]
    /\ memberships \subseteq memberships'

LEMMA PrivilegesGrow ==
    ASSUME AccessGrows, NEW sub
    PROVE  PrivilegesOf(sub) \subseteq PrivilegesOf(sub)'
BY DEF AccessGrows, PrivilegesOf, GroupsOf

\* Every group may order.
LEMMA GroupsMayOrder ==
    ASSUME NEW sub, NEW g \in GroupsOf(sub)
    PROVE  "ORDER_CREATE" \in PrivilegesOf(sub)
<1>1. g \in DOMAIN GroupPrivileges
  BY DEF GroupsOf, Groups
<1>2. "ORDER_CREATE" \in GroupPrivileges[g]
  BY <1>1 DEF GroupPrivileges
<1> QED BY <1>2 DEF PrivilegesOf

\* An insert of a user takes an id that nobody has.
LEMMA UpsertStep ==
    ASSUME AccessTypeOK, IdsAreDistinct, NEW sub \in Subjects, UpsertUser(sub)
    PROVE  /\ DOMAIN people' = DOMAIN people \cup {sub}
           /\ \A s \in DOMAIN people : people'[s] = people[s]
           /\ \A s \in DOMAIN people' : people'[s] \in UserIds
           /\ IdsAreDistinct'
<1>1. CASE sub \in DOMAIN people
  BY <1>1 DEF UpsertUser, AccessTypeOK, IdsAreDistinct
<1>2. CASE sub \notin DOMAIN people
  <2>1. PICK id \in UserIds \ {people[s] : s \in DOMAIN people} :
           people' = Put(people, sub, id)
    BY <1>2 DEF UpsertUser
  <2>2. /\ DOMAIN people' = DOMAIN people \cup {sub}
        /\ \A s \in DOMAIN people : people'[s] = people[s]
        /\ people'[sub] = id
    BY <1>2, <2>1
  <2>3. \A s \in DOMAIN people : people[s] # id
    BY <2>1
  <2> QED BY <2>1, <2>2, <2>3 DEF AccessTypeOK, IdsAreDistinct
<1> QED BY <1>1, <1>2

LEMMA LoginStep ==
    ASSUME AccessInv, NEW sub \in Subjects, Login(sub)
    PROVE  AccessInv' /\ AccessGrows
<1>1. /\ DOMAIN people' = DOMAIN people \cup {sub}
      /\ \A s \in DOMAIN people : people'[s] = people[s]
      /\ \A s \in DOMAIN people' : people'[s] \in UserIds
      /\ IdsAreDistinct'
      /\ UNCHANGED <<memberships, assignments>>
  BY UpsertStep DEF Login, AccessInv
<1>2. AccessTypeOK'
  BY <1>1 DEF AccessInv, AccessTypeOK
<1>3. MembershipsWereAssigned'
  BY <1>1 DEF AccessInv, MembershipsWereAssigned, Assigning
<1>4. AssignmentsTakeEffect'
  <2> SUFFICES ASSUME NEW a \in DOMAIN assignments, assignments[a].at \in {"upserted", "done"}
               PROVE  /\ assignments[a].sub \in DOMAIN people'
                      /\ assignments[a].at = "done" /\ assignments[a].code \in Groups =>
                            <<people'[assignments[a].sub], assignments[a].code>> \in memberships
    BY <1>1 DEF AssignmentsTakeEffect, Assigning, Groups
  <2> QED BY <1>1 DEF AccessInv, AssignmentsTakeEffect, Assigning
<1> QED BY <1>1, <1>2, <1>3, <1>4 DEF AccessInv, AccessGrows

LEMMA StartAssignmentStep ==
    ASSUME AccessInv, NEW a \in Assignments, StartAssignment(a)
    PROVE  AccessInv' /\ AccessGrows
<1>1. PICK sub \in Subjects, code \in Codes :
         assignments' = Put(assignments, a,
             [sub |-> sub, at |-> "started",
              code |-> IF a \in Seeds THEN UpperCode[code] ELSE code])
  BY DEF StartAssignment
<1>2. a \notin DOMAIN assignments /\ UNCHANGED <<people, memberships>>
  BY DEF StartAssignment
<1>3. /\ DOMAIN assignments' = DOMAIN assignments \cup {a}
      /\ \A b \in DOMAIN assignments : assignments'[b] = assignments[b]
      /\ assignments'[a].at = "started" /\ assignments'[a] \in AssignmentRow
  BY <1>1, <1>2, UpperCodeAssumption DEF AssignmentRow
<1>4. AccessTypeOK'
  BY <1>2, <1>3 DEF AccessInv, AccessTypeOK
<1>5. MembershipsWereAssigned' /\ AssignmentsTakeEffect'
  BY <1>2, <1>3 DEF AccessInv, MembershipsWereAssigned, AssignmentsTakeEffect, Assigning
<1> QED BY <1>2, <1>4, <1>5 DEF AccessInv, IdsAreDistinct, AccessGrows

LEMMA AssignUpsertStep ==
    ASSUME AccessInv, NEW a \in Assignments, AssignUpsert(a)
    PROVE  AccessInv' /\ AccessGrows
<1>1. a \in DOMAIN assignments /\ assignments[a] \in AssignmentRow
      /\ assignments[a].at = "started"
  BY DEF AssignUpsert, Assigning, AccessInv, AccessTypeOK
<1>2. /\ DOMAIN people' = DOMAIN people \cup {assignments[a].sub}
      /\ \A s \in DOMAIN people : people'[s] = people[s]
      /\ \A s \in DOMAIN people' : people'[s] \in UserIds
      /\ IdsAreDistinct'
      /\ UNCHANGED memberships
  BY <1>1, UpsertStep DEF AssignUpsert, AccessInv, AssignmentRow
<1>0. PICK place \in {"upserted", "failed"} : AssignGoes(a, place)
  BY DEF AssignUpsert
<1>3. /\ DOMAIN assignments' = DOMAIN assignments
      /\ \A b \in DOMAIN assignments : b # a => assignments'[b] = assignments[b]
      /\ assignments'[a] = [sub |-> assignments[a].sub, code |-> assignments[a].code,
                            at |-> place]
  BY <1>0, <1>1 DEF AssignGoes, AssignmentRow
<1>4. assignments'[a] \in AssignmentRow
  BY <1>1, <1>3 DEF AssignmentRow
<1>5. AccessTypeOK'
  BY <1>1, <1>2, <1>3, <1>4 DEF AccessInv, AccessTypeOK, AssignmentRow
<1>6. MembershipsWereAssigned'
  BY <1>1, <1>2, <1>3 DEF AccessInv, MembershipsWereAssigned, Assigning
<1>7. AssignmentsTakeEffect'
  <2> SUFFICES ASSUME NEW b \in DOMAIN assignments, assignments'[b].at \in {"upserted", "done"}
               PROVE  /\ assignments'[b].sub \in DOMAIN people'
                      /\ assignments'[b].at = "done" /\ assignments'[b].code \in Groups =>
                            <<people'[assignments'[b].sub], assignments'[b].code>> \in memberships
    BY <1>2, <1>3 DEF AssignmentsTakeEffect, Assigning, Groups
  <2>1. CASE b = a
    BY <1>2, <1>3, <2>1
  <2>2. CASE b # a
    BY <1>2, <1>3, <2>2 DEF AccessInv, AssignmentsTakeEffect, Assigning
  <2> QED BY <2>1, <2>2
<1> QED BY <1>2, <1>5, <1>6, <1>7 DEF AccessInv, AccessGrows

LEMMA AssignGroupStep ==
    ASSUME AccessInv, NEW a \in Assignments, AssignGroup(a)
    PROVE  AccessInv' /\ AccessGrows
<1>1. /\ a \in DOMAIN assignments /\ assignments[a] \in AssignmentRow
      /\ assignments[a].at = "upserted" /\ assignments[a].sub \in DOMAIN people
  BY DEF AssignGroup, Assigning, AccessInv, AccessTypeOK, AssignmentsTakeEffect
<1>0. PICK place \in {"done", "failed"} : AssignGoes(a, place)
  BY DEF AssignGroup
<1>2. /\ DOMAIN assignments' = DOMAIN assignments
      /\ \A b \in DOMAIN assignments : b # a => assignments'[b] = assignments[b]
      /\ assignments'[a] = [sub |-> assignments[a].sub, code |-> assignments[a].code,
                            at |-> place]
  BY <1>0, <1>1 DEF AssignGoes, AssignmentRow
<1>3. /\ UNCHANGED people
      /\ \A m : m \in memberships' <=>
            \/ m \in memberships
            \/ /\ assignments[a].code \in Groups
               /\ m = <<people[assignments[a].sub], assignments[a].code>>
  BY DEF AssignGroup
<1>4. AccessTypeOK'
  <2>1. assignments'[a] \in AssignmentRow
    BY <1>1, <1>2 DEF AssignmentRow
  <2> QED BY <1>2, <1>3, <2>1 DEF AccessInv, AccessTypeOK
<1>5. MembershipsWereAssigned'
  <2> SUFFICES ASSUME NEW m \in memberships'
               PROVE  \E b \in DOMAIN assignments :
                         /\ assignments'[b].at \in {"done", "failed"}
                         /\ assignments'[b].sub \in DOMAIN people
                         /\ m = <<people[assignments'[b].sub], assignments'[b].code>>
    BY <1>2, <1>3 DEF MembershipsWereAssigned, Assigning
  <2>1. CASE m \in memberships
    BY <1>1, <1>2, <2>1 DEF AccessInv, MembershipsWereAssigned, Assigning
  <2>2. CASE m = <<people[assignments[a].sub], assignments[a].code>>
    BY <1>1, <1>2, <2>2
  <2> QED BY <1>3, <2>1, <2>2
<1>6. AssignmentsTakeEffect'
  BY <1>1, <1>2, <1>3 DEF AccessInv, AssignmentsTakeEffect, Assigning, Groups
<1> QED BY <1>3, <1>4, <1>5, <1>6 DEF AccessInv, IdsAreDistinct, AccessGrows

LEMMA AssignFailsStep ==
    ASSUME AccessInv, NEW a \in Assignments, AssignFails(a)
    PROVE  AccessInv' /\ AccessGrows
<1>1. /\ a \in DOMAIN assignments /\ assignments[a].at \in {"started", "upserted"}
      /\ assignments[a] \in AssignmentRow
  BY DEF AssignFails, Assigning, AccessInv, AccessTypeOK
<1>2. /\ DOMAIN assignments' = DOMAIN assignments
      /\ \A b \in DOMAIN assignments : b # a => assignments'[b] = assignments[b]
      /\ assignments'[a] = [sub |-> assignments[a].sub, code |-> assignments[a].code,
                            at |-> "failed"]
      /\ UNCHANGED <<people, memberships>>
  BY <1>1 DEF AssignFails, AssignGoes, AssignmentRow
<1>3. AccessTypeOK'
  <2>1. assignments'[a] \in AssignmentRow
    BY <1>1, <1>2 DEF AssignmentRow
  <2> QED BY <1>2, <2>1 DEF AccessInv, AccessTypeOK
<1>4. MembershipsWereAssigned'
  BY <1>1, <1>2 DEF AccessInv, MembershipsWereAssigned, Assigning
<1>5. AssignmentsTakeEffect'
  BY <1>1, <1>2 DEF AccessInv, AssignmentsTakeEffect, Assigning, Groups
<1> QED BY <1>2, <1>3, <1>4, <1>5 DEF AccessInv, IdsAreDistinct, AccessGrows

LEMMA AccessSteps ==
    ASSUME AccessInv, AccessStep
    PROVE  AccessInv' /\ AccessGrows
BY LoginStep, StartAssignmentStep, AssignUpsertStep, AssignGroupStep, AssignFailsStep
   DEF AccessStep

LEMMA AccessStays ==
    ASSUME AccessInv, UNCHANGED accessVars
    PROVE  AccessInv' /\ AccessGrows
BY DEF accessVars, AccessInv, AccessTypeOK, IdsAreDistinct, MembershipsWereAssigned,
   AssignmentsTakeEffect, Assigning, AccessGrows

----------------------------------------------------------------------------
(* The hops. *)

LEMMA BreakerTypes ==
    ASSUME NEW b \in BreakerStates
    PROVE  /\ Fired(b) \in BreakerStates /\ Succeeded(b) \in BreakerStates
           /\ Failed(b) \subseteq BreakerStates /\ HalfOpened(b) \in BreakerStates
BY DEF BreakerStates, Fired, Succeeded, Failed, HalfOpened

CountersOK ==
    bffBreaker \in BreakerStates /\ orderBreaker \in BreakerStates /\ faults \in 0 .. MaxFaults

LEMMA FaultType == ASSUME faults \in 0 .. MaxFaults, Fault PROVE faults' \in 0 .. MaxFaults
BY PathAssumption DEF Fault

LEMMA PathParts ==
    ASSUME PathInv
    PROVE  /\ OrderTypeOK /\ IntakeInv /\ AccessInv /\ CountersOK
           /\ DOMAIN attempts \subseteq OrderIds
           /\ \A r \in DOMAIN attempts : attempts[r] \in AttemptRow
           /\ RequestsWereForwarded /\ ForwardedWasChecked
           /\ SuccessIsAnswered /\ OrdersAreAuthorised
BY DEF PathInv, PathTypeOK, AccessInv, AccessTypeOK, CountersOK

LEMMA PathWhole ==
    ASSUME OrderTypeOK', IntakeInv', AccessInv', CountersOK',
           DOMAIN attempts' \subseteq OrderIds,
           \A r \in DOMAIN attempts' : attempts'[r] \in AttemptRow,
           RequestsWereForwarded', ForwardedWasChecked', SuccessIsAnswered', OrdersAreAuthorised'
    PROVE  PathInv'
BY DEF PathInv, PathTypeOK, AccessInv, AccessTypeOK, CountersOK

LEMMA OrdersStay ==
    ASSUME OrderTypeOK, IntakeInv, UNCHANGED orderVars
    PROVE  OrderTypeOK' /\ IntakeInv'
<1>1. IntakeInv'
  BY StatusStep DEF orderVars
<1> QED BY <1>1 DEF orderVars, OrderTypeOK

\* What was allowed stays allowed.
LEMMA MayOrderStays ==
    ASSUME AccessGrows, NEW r, MayOrder(r), attempts'[r].intent = attempts[r].intent
    PROVE  MayOrder(r)'
BY PrivilegesGrow DEF MayOrder

LEMMA AuthorisedStays ==
    ASSUME AccessGrows, OrdersAreAuthorised, UNCHANGED orders
    PROVE  OrdersAreAuthorised'
BY PrivilegesGrow DEF OrdersAreAuthorised

\* A step of one attempt: what a hop may make of the attempt's reply and place.
LEMMA HopStep ==
    ASSUME PathInv, UNCHANGED <<orderVars, accessVars>>, CountersOK',
           NEW r \in DOMAIN attempts, NEW b, NEW g,
           attempts' = [attempts EXCEPT ![r] =
               [intent |-> attempts[r].intent, bff |-> b, gateway |-> g]],
           [intent |-> attempts[r].intent, bff |-> b, gateway |-> g] \in AttemptRow,
           b = "ok" => g = "ok",
           g = "ok" => r \in DOMAIN requests /\ requests[r].outcome \in {"created", "replayed"},
           g \in {"authorized", "forwarded", "gaveUp"} => MayOrder(r),
           r \in DOMAIN requests => g \notin {"received", "authorized", "forbidden"}
    PROVE  PathInv'
<1>1. /\ DOMAIN attempts' = DOMAIN attempts
      /\ \A x \in DOMAIN attempts : x # r => attempts'[x] = attempts[x]
      /\ \A x \in DOMAIN attempts : attempts'[x].intent = attempts[x].intent
      /\ attempts'[r].bff = b /\ attempts'[r].gateway = g
      /\ attempts'[r] \in AttemptRow
  OBVIOUS
<1>2. OrderTypeOK' /\ IntakeInv'
  BY PathParts, OrdersStay
<1>3. AccessInv' /\ AccessGrows
  BY PathParts, AccessStays
<1>4. \A x \in DOMAIN attempts : MayOrder(x) => MayOrder(x)'
  BY <1>1, <1>3, MayOrderStays
<1>5. UNCHANGED <<requests, orders>>
  BY DEF orderVars
<1>6. RequestsWereForwarded'
  <2> SUFFICES ASSUME NEW x \in DOMAIN requests
               PROVE  /\ x \in DOMAIN attempts
                      /\ attempts'[x].gateway \notin {"received", "authorized", "forbidden"}
                      /\ requests[x].user = attempts'[x].intent.user
                      /\ requests[x].key = attempts'[x].intent.key
                      /\ MayOrder(x)'
    BY <1>1, <1>5 DEF RequestsWereForwarded
  <2>1. /\ x \in DOMAIN attempts
        /\ attempts[x].gateway \notin {"received", "authorized", "forbidden"}
        /\ requests[x].user = attempts[x].intent.user
        /\ requests[x].key = attempts[x].intent.key
        /\ MayOrder(x)
    BY PathParts DEF RequestsWereForwarded
  <2>2. CASE x = r
    BY <1>1, <1>4, <2>1, <2>2
  <2>3. CASE x # r
    BY <1>1, <1>4, <2>1, <2>3
  <2> QED BY <2>2, <2>3
<1>7. ForwardedWasChecked'
  BY <1>1, <1>4, PathParts DEF ForwardedWasChecked
<1>8. SuccessIsAnswered'
  BY <1>1, <1>5, PathParts DEF SuccessIsAnswered
<1>9. OrdersAreAuthorised'
  BY <1>3, <1>5, PathParts, AuthorisedStays
<1>10. DOMAIN attempts' \subseteq OrderIds /\ \A x \in DOMAIN attempts' : attempts'[x] \in AttemptRow
  BY <1>1, PathParts
<1> QED BY <1>2, <1>3, <1>6, <1>7, <1>8, <1>9, <1>10, PathWhole

LEMMA AskStep ==
    ASSUME PathInv, NEW i \in Intents, Ask(i)
    PROVE  PathInv'
<1> DEFINE f == Fresh
<1>1. f \in Unused
  BY DEF Ask, Fresh
<1>2. /\ f \in OrderIds /\ f \notin DOMAIN requests
      /\ attempts' = Put(attempts, f, [intent |-> i, bff |-> "waiting", gateway |-> "received"])
      /\ UNCHANGED <<orderVars, accessVars, orderBreaker, faults>>
      /\ bffBreaker' = Fired(bffBreaker)
  <2>1. f \in OrderIds /\ (f \in DOMAIN attempts => f \notin DOMAIN requests)
    BY <1>1 DEF Unused
  <2>2. f \notin DOMAIN attempts => f \notin DOMAIN requests
    BY PathParts DEF RequestsWereForwarded
  <2> QED BY <2>1, <2>2 DEF Ask
<1> HIDE DEF f
<1>3. /\ DOMAIN attempts' = DOMAIN attempts \cup {f}
      /\ \A x \in DOMAIN attempts : x # f => attempts'[x] = attempts[x]
      /\ attempts'[f] = [intent |-> i, bff |-> "waiting", gateway |-> "received"]
  BY <1>2
<1>4. OrderTypeOK' /\ IntakeInv'
  BY <1>2, PathParts, OrdersStay
<1>5. AccessInv' /\ AccessGrows
  BY <1>2, PathParts, AccessStays
<1>6. \A x \in DOMAIN attempts : x # f /\ MayOrder(x) => MayOrder(x)'
  BY <1>3, <1>5, MayOrderStays
<1>7. UNCHANGED <<requests, orders>>
  BY <1>2 DEF orderVars
<1>8. RequestsWereForwarded'
  BY <1>2, <1>3, <1>6, <1>7, PathParts DEF RequestsWereForwarded
<1>9. ForwardedWasChecked'
  BY <1>3, <1>6, PathParts DEF ForwardedWasChecked
<1>10. SuccessIsAnswered'
  BY <1>3, <1>7, PathParts DEF SuccessIsAnswered
<1>11. OrdersAreAuthorised'
  BY <1>5, <1>7, PathParts, AuthorisedStays
<1>12. DOMAIN attempts' \subseteq OrderIds /\ \A x \in DOMAIN attempts' : attempts'[x] \in AttemptRow
  BY <1>2, <1>3, PathParts DEF AttemptRow
<1>13. CountersOK'
  BY <1>2, PathParts, BreakerTypes DEF CountersOK
<1> QED BY <1>4, <1>5, <1>8, <1>9, <1>10, <1>11, <1>12, <1>13, PathWhole

LEMMA ReplyStep ==
    ASSUME PathInv, NEW r \in OrderIds, BffAnswers(r) \/ BffGivesUp(r)
    PROVE  PathInv'
<1>1. r \in DOMAIN attempts /\ attempts[r] \in AttemptRow /\ UNCHANGED <<orderVars, accessVars>>
  BY PathParts DEF BffAnswers, BffGivesUp, Waiting
<1>2. PICK b \in Replies :
         /\ attempts' = [attempts EXCEPT ![r] = [intent |-> attempts[r].intent, bff |-> b,
                                                gateway |-> attempts[r].gateway]]
         /\ b = "ok" => attempts[r].gateway = "ok"
  <2> DEFINE row(b) == [intent |-> attempts[r].intent, bff |-> b, gateway |-> attempts[r].gateway]
  <2>1. \A b : [attempts[r] EXCEPT !.bff = b] = row(b)
    BY <1>1 DEF AttemptRow
  <2>2. CASE BffAnswers(r)
    <3>1. PICK b \in Replies :
             /\ attempts' = [attempts EXCEPT ![r].bff = b]
             /\ (b = "error" \/ b = attempts[r].gateway)
      BY <2>2 DEF BffAnswers, Gateway, Replies
    <3>2. [attempts[r] EXCEPT !.bff = b] = row(b)
      BY <2>1
    <3>3. attempts' = [attempts EXCEPT ![r] = row(b)]
      BY <3>1, <3>2
    <3> QED BY <3>1, <3>3
  <2>3. CASE BffGivesUp(r)
    BY <2>1, <2>3 DEF BffGivesUp, Replies
  <2> QED BY <2>2, <2>3
<1>3. [intent |-> attempts[r].intent, bff |-> b, gateway |-> attempts[r].gateway] \in AttemptRow
  BY <1>1 DEF AttemptRow
<1>4. CountersOK'
  <2>1. CASE BffAnswers(r)
    BY <2>1, PathParts, BreakerTypes DEF BffAnswers, CountersOK
  <2>2. CASE BffGivesUp(r)
    BY <2>2, PathParts, BreakerTypes, FaultType DEF BffGivesUp, CountersOK
  <2> QED BY <2>1, <2>2
<1>5. /\ attempts[r].gateway = "ok" =>
            r \in DOMAIN requests /\ requests[r].outcome \in {"created", "replayed"}
      /\ attempts[r].gateway \in {"authorized", "forwarded", "gaveUp"} => MayOrder(r)
      /\ r \in DOMAIN requests =>
            attempts[r].gateway \notin {"received", "authorized", "forbidden"}
  BY <1>1, PathParts DEF SuccessIsAnswered, ForwardedWasChecked, RequestsWereForwarded
<1> QED BY <1>1, <1>2, <1>3, <1>4, <1>5, HopStep

\* The gateway moves an attempt that the BFF has not called a success.
LEMMA GatewayStep ==
    ASSUME PathInv, NEW r \in OrderIds,
           Authorize(r) \/ Forward(r) \/ GatewayAnswers(r) \/ GatewayGivesUp(r)
    PROVE  PathInv'
<1>1. r \in DOMAIN attempts /\ attempts[r] \in AttemptRow /\ UNCHANGED <<orderVars, accessVars>>
  BY PathParts DEF Authorize, Forward, GatewayAnswers, GatewayGivesUp, Gateway
<1>2. attempts[r].gateway \in {"received", "authorized", "forwarded"}
  BY DEF Authorize, Forward, GatewayAnswers, GatewayGivesUp, Gateway
<1>3. attempts[r].bff # "ok"
  BY <1>1, <1>2, PathParts DEF SuccessIsAnswered
<1> DEFINE row(g) == [intent |-> attempts[r].intent, bff |-> attempts[r].bff, gateway |-> g]
<1>4. \A g : [attempts[r] EXCEPT !.gateway = g] = row(g)
  BY <1>1 DEF AttemptRow
<1>5. PICK g \in {"authorized", "forwarded", "gaveUp"} \cup Replies :
         /\ attempts' = [attempts EXCEPT ![r].gateway = g]
         /\ g = "ok" => r \in DOMAIN requests /\ requests[r].outcome \in {"created", "replayed"}
         /\ g \in {"authorized", "forwarded", "gaveUp"} => MayOrder(r)
         /\ r \in DOMAIN requests => g \notin {"received", "authorized", "forbidden"}
         /\ CountersOK'
  <2>1. CASE Authorize(r)
    <3>1. r \notin DOMAIN requests
      BY <2>1, PathParts DEF Authorize, Gateway, RequestsWereForwarded
    <3>2. CountersOK'
      BY <2>1, PathParts DEF Authorize, CountersOK
    <3> QED BY <2>1, <3>1, <3>2 DEF Authorize, MayOrder, Replies
  <2>2. CASE Forward(r)
    <3>1. r \notin DOMAIN requests /\ MayOrder(r)
      BY <1>1, <2>2, PathParts DEF Forward, Gateway, RequestsWereForwarded, ForwardedWasChecked
    <3>2. CountersOK'
      BY <2>2, PathParts, BreakerTypes DEF Forward, CountersOK
    <3> QED BY <2>2, <3>1, <3>2 DEF Forward, Replies
  <2>3. CASE GatewayAnswers(r)
    <3>1. /\ r \in DOMAIN requests
          /\ Status(requests[r].outcome) \in {"ok", "conflict", "error"}
          /\ Status(requests[r].outcome) = "ok" =>
                requests[r].outcome \in {"created", "replayed"}
      BY <2>3 DEF GatewayAnswers, Finished, Status
    <3>2. CountersOK'
      BY <2>3, PathParts, BreakerTypes DEF GatewayAnswers, CountersOK
    <3> QED BY <2>3, <3>1, <3>2 DEF GatewayAnswers, Replies
  <2>4. CASE GatewayGivesUp(r)
    <3>1. MayOrder(r)
      BY <1>1, <2>4, PathParts DEF GatewayGivesUp, Gateway, ForwardedWasChecked
    <3>2. CountersOK'
      BY <2>4, PathParts, BreakerTypes, FaultType DEF GatewayGivesUp, CountersOK
    <3> QED BY <2>4, <3>1, <3>2 DEF GatewayGivesUp
  <2> QED BY <2>1, <2>2, <2>3, <2>4
<1>6. attempts' = [attempts EXCEPT ![r] = row(g)] /\ row(g) \in AttemptRow
  BY <1>1, <1>4, <1>5 DEF AttemptRow
<1> QED BY <1>1, <1>3, <1>5, <1>6, HopStep

----------------------------------------------------------------------------
(* order-service. *)

\* A step of order-service on one request: what it needs of the new tables.
LEMMA ServiceStep ==
    ASSUME PathInv, OrderTypeOK', IntakeInv', UNCHANGED <<accessVars, attempts>>, CountersOK',
           NEW r \in DOMAIN attempts,
           attempts[r].gateway \notin {"received", "authorized", "forbidden"},
           MayOrder(r),
           DOMAIN requests' = DOMAIN requests \cup {r},
           \A x \in DOMAIN requests : x # r => requests'[x] = requests[x],
           requests'[r].user = attempts[r].intent.user,
           requests'[r].key = attempts[r].intent.key,
           r \in DOMAIN requests => requests[r].outcome \notin {"created", "replayed"},
           \A o \in DOMAIN orders' :
              \/ o \in DOMAIN orders /\ orders'[o] = orders[o]
              \/ o = r /\ orders'[o].user = attempts[r].intent.user
    PROVE  PathInv'
<1>1. AccessInv' /\ AccessGrows
  BY PathParts, AccessStays
<1>2. \A x \in DOMAIN attempts : MayOrder(x) => MayOrder(x)'
  BY <1>1, MayOrderStays
<1>3. RequestsWereForwarded'
  <2> SUFFICES ASSUME NEW x \in DOMAIN requests'
               PROVE  /\ x \in DOMAIN attempts
                      /\ attempts[x].gateway \notin {"received", "authorized", "forbidden"}
                      /\ requests'[x].user = attempts[x].intent.user
                      /\ requests'[x].key = attempts[x].intent.key
                      /\ MayOrder(x)'
    BY DEF RequestsWereForwarded
  <2>1. CASE x = r
    BY <1>2, <2>1
  <2>2. CASE x # r
    BY <1>2, <2>2, PathParts DEF RequestsWereForwarded
  <2> QED BY <2>1, <2>2
<1>4. ForwardedWasChecked'
  BY <1>2, PathParts DEF ForwardedWasChecked
<1>5. SuccessIsAnswered'
  BY PathParts DEF SuccessIsAnswered
<1>6. OrdersAreAuthorised'
  <2> SUFFICES ASSUME NEW o \in DOMAIN orders', NEW u, u = orders'[o].user
               PROVE  "ORDER_CREATE" \in PrivilegesOf(u)'
    BY DEF OrdersAreAuthorised, PrivilegesOf, GroupsOf
  <2>1. "ORDER_CREATE" \in PrivilegesOf(u)
    <3>1. CASE o \in DOMAIN orders /\ orders'[o] = orders[o]
      BY <3>1, PathParts DEF OrdersAreAuthorised
    <3>2. CASE o = r /\ orders'[o].user = attempts[r].intent.user
      BY <3>2 DEF MayOrder
    <3> QED BY <3>1, <3>2
  <2>2. PrivilegesOf(u) \subseteq PrivilegesOf(u)'
    BY <1>1, PrivilegesGrow
  <2> QED BY <2>1, <2>2
<1> QED BY <1>1, <1>3, <1>4, <1>5, <1>6, PathParts, PathWhole

LEMMA ReceiveStep ==
    ASSUME PathInv, NEW r \in OrderIds, Receive(r)
    PROVE  PathInv'
<1>1. /\ Lookup(r) /\ r \notin DOMAIN requests /\ r \in DOMAIN attempts
      /\ attempts[r].gateway \in {"forwarded", "gaveUp"}
      /\ requests'[r].user = attempts[r].intent.user
      /\ requests'[r].key = attempts[r].intent.key
      /\ UNCHANGED <<accessVars, attempts, bffBreaker, orderBreaker, faults, orders>>
  BY DEF Receive, Lookup, Gateway
<1>2. OrderTypeOK' /\ IntakeInv'
  BY <1>1, PathParts, IntakeTypes, LookupStep DEF Intake
<1>3. /\ DOMAIN requests' = DOMAIN requests \cup {r}
      /\ \A x \in DOMAIN requests : x # r => requests'[x] = requests[x]
  BY <1>1 DEF Lookup, Answered
<1>4. MayOrder(r)
  BY <1>1, PathParts DEF ForwardedWasChecked
<1>5. CountersOK'
  BY <1>1, PathParts DEF CountersOK
<1> QED BY <1>1, <1>2, <1>3, <1>4, <1>5, ServiceStep

\* The rest of a request that order-service has received.
LEMMA InsertStep ==
    ASSUME PathInv, NEW r \in OrderIds, Insert(r) \/ AbortInsert(r)
    PROVE  PathInv'
<1>1. InsertOrder(r) \/ InsertRefused(r) \/ Abort(r)
  BY DEF Insert, AbortInsert
<1>2. PICK outcome : requests' = [requests EXCEPT ![r].outcome = outcome]
  BY <1>1 DEF InsertOrder, InsertRefused, Abort
<1>3. /\ r \in DOMAIN requests /\ requests[r].outcome = "inserting"
      /\ requests[r] \in RequestRow
  BY <1>1, PathParts DEF InsertOrder, InsertRefused, Abort, Inserting, OrderTypeOK
<1>4. /\ DOMAIN requests' = DOMAIN requests \cup {r}
      /\ \A x \in DOMAIN requests : x # r => requests'[x] = requests[x]
      /\ requests'[r].user = requests[r].user /\ requests'[r].key = requests[r].key
  BY <1>2, <1>3 DEF RequestRow
<1>5. /\ r \in DOMAIN attempts
      /\ attempts[r].gateway \notin {"received", "authorized", "forbidden"}
      /\ requests[r].user = attempts[r].intent.user
      /\ requests[r].key = attempts[r].intent.key
      /\ MayOrder(r)
  BY <1>3, PathParts DEF RequestsWereForwarded
<1>6. UNCHANGED <<accessVars, attempts>> /\ CountersOK'
  <2>1. UNCHANGED <<accessVars, attempts, bffBreaker, orderBreaker>>
    BY DEF Insert, AbortInsert
  <2>2. faults' \in 0 .. MaxFaults
    BY PathParts, FaultType DEF Insert, AbortInsert, CountersOK
  <2> QED BY <2>1, <2>2, PathParts DEF CountersOK
<1>7. OrderTypeOK' /\ IntakeInv'
  BY <1>1, PathParts, IntakeTypes, InsertOrderStep, UnansweredStep DEF Intake
<1>8. \A o \in DOMAIN orders' :
         \/ o \in DOMAIN orders /\ orders'[o] = orders[o]
         \/ o = r /\ orders'[o].user = attempts[r].intent.user
  <2>1. CASE InsertOrder(r)
    BY <1>5, <2>1 DEF InsertOrder, NewOrder
  <2>2. CASE InsertRefused(r) \/ Abort(r)
    BY <2>2 DEF InsertRefused, Abort
  <2> QED BY <1>1, <2>1, <2>2
<1> QED BY <1>3, <1>4, <1>5, <1>6, <1>7, <1>8, ServiceStep

----------------------------------------------------------------------------
(* The rest of the system. *)

\* Attempts and orders stay as they are, and access changes or does not.
LEMMA ElsewhereStep ==
    ASSUME PathInv, UNCHANGED <<orderVars, attempts>>, AccessInv', AccessGrows, CountersOK'
    PROVE  PathInv'
<1>1. OrderTypeOK' /\ IntakeInv' /\ OrdersAreAuthorised'
  BY PathParts, OrdersStay, AuthorisedStays DEF orderVars
<1>2. \A x \in DOMAIN attempts : MayOrder(x) => MayOrder(x)'
  BY MayOrderStays
<1>3. RequestsWereForwarded' /\ ForwardedWasChecked' /\ SuccessIsAnswered'
  BY <1>2, PathParts DEF orderVars, RequestsWereForwarded, ForwardedWasChecked, SuccessIsAnswered
<1> QED BY <1>1, <1>3, PathParts, PathWhole

LEMMA PathSteps ==
    ASSUME PathInv, [Next]_pathVars
    PROVE  PathInv'
<1>1. CASE \E i \in Intents : Ask(i)
  BY <1>1, AskStep
<1>2. ASSUME NEW r \in OrderIds,
             Hop(r) \/ Receive(r) \/ BffGivesUp(r) \/ GatewayGivesUp(r) \/ AbortInsert(r)
      PROVE  PathInv'
  BY <1>2, ReplyStep, GatewayStep, ReceiveStep, InsertStep DEF Hop
<1>3. CASE ResetBff \/ ResetOrder
  <2>1. UNCHANGED <<orderVars, attempts, accessVars>> /\ CountersOK'
    BY <1>3, PathParts, BreakerTypes DEF ResetBff, ResetOrder, CountersOK
  <2> QED BY <2>1, PathParts, AccessStays, ElsewhereStep
<1>4. CASE Access
  <2>1. UNCHANGED <<orderVars, attempts>> /\ CountersOK' /\ AccessStep
    BY <1>4, PathParts, FaultType DEF Access, CountersOK
  <2> QED BY <2>1, PathParts, AccessSteps, ElsewhereStep
<1>5. CASE UNCHANGED pathVars
  <2>1. UNCHANGED <<orderVars, attempts, accessVars>> /\ CountersOK'
    BY <1>5, PathParts DEF pathVars, CountersOK
  <2> QED BY <2>1, PathParts, AccessStays, ElsewhereStep
<1> QED BY <1>1, <1>2, <1>3, <1>4, <1>5 DEF Next

\* PathInv holds in every reachable state.
THEOREM PathInvariant == Spec => []PathInv
<1>1. PathInit => PathInv
  <2> SUFFICES ASSUME PathInit PROVE PathInv
    OBVIOUS
  <2>1. OrderTypeOK /\ IntakeInv
    BY DEF PathInit, OrderInit, OrderTypeOK, IntakeInv, OrderHasRequest, StoredNormalised,
       OneOrderPerKey, AnswersNameTheOrder, ConflictIsReal
  <2>2. AccessInv
    BY DEF PathInit, AccessInit, AccessInv, AccessTypeOK, IdsAreDistinct,
       MembershipsWereAssigned, AssignmentsTakeEffect
  <2>3. CountersOK
    BY PathAssumption DEF PathInit, CountersOK, BreakerStates
  <2> QED BY <2>1, <2>2, <2>3 DEF PathInit, OrderInit, PathInv, PathTypeOK, AccessInv,
          AccessTypeOK, CountersOK, RequestsWereForwarded, ForwardedWasChecked,
          SuccessIsAnswered, OrdersAreAuthorised
<1> QED BY <1>1, PathSteps, PTL DEF Spec

\* All that a client is told of one user and key is the one order they have,
\* whichever hops have given up and however often it has asked.
THEOREM PathSuccess == Spec => []SuccessNamesTheOrder
<1>1. PathInv => SuccessNamesTheOrder
  <2> SUFFICES ASSUME PathInv,
                      NEW r \in DOMAIN attempts, NEW q \in DOMAIN attempts,
                      attempts[r].bff = "ok",
                      attempts[q].intent.user = attempts[r].intent.user,
                      attempts[q].intent.key = attempts[r].intent.key
               PROVE  /\ FindOrderByIdempotency(attempts[r].intent.user, attempts[r].intent.key)
                            = {requests[r].order}
                      /\ attempts[q].bff = "ok" => requests[q].order = requests[r].order
    BY DEF SuccessNamesTheOrder
  <2>1. ASSUME NEW x \in DOMAIN attempts, attempts[x].bff = "ok"
        PROVE  FindOrderByIdempotency(attempts[x].intent.user, attempts[x].intent.key)
                  = {requests[x].order}
    <3>1. x \in DOMAIN requests /\ requests[x].outcome \in {"created", "replayed"}
      BY <2>1, PathParts DEF SuccessIsAnswered
    <3>2. /\ requests[x].user = attempts[x].intent.user
          /\ requests[x].key = attempts[x].intent.key
      BY <3>1, PathParts DEF RequestsWereForwarded
    <3> QED BY <3>1, <3>2, PathParts DEF IntakeInv, AnswersNameTheOrder
  <2>2. attempts[q].bff = "ok" => {requests[q].order} = {requests[r].order}
    BY <2>1
  <2> QED BY <2>1, <2>2
<1> QED BY <1>1, PathInvariant, PTL

\* An order exists only for a user whose groups allow it.
THEOREM PathAuthorised == Spec => []OrdersAreAuthorised
<1>1. PathInv => OrdersAreAuthorised
  BY DEF PathInv
<1> QED BY <1>1, PathInvariant, PTL

\* A user whose assignment has been answered is not turned away.
THEOREM PathGrants == Spec => GrantIsEffective
<1>1. PathInv /\ [Next]_pathVars =>
         [\A r \in OrderIds, a \in DOMAIN assignments :
             /\ Gateway(r, "received") /\ Gateway(r, "forbidden")'
             /\ Assigning(a, "done") /\ assignments[a].code \in Groups
             => assignments[a].sub # attempts[r].intent.user]_pathVars
  <2> SUFFICES ASSUME PathInv, Next, NEW r \in OrderIds, NEW a \in DOMAIN assignments,
                      Gateway(r, "received"), Gateway(r, "forbidden")',
                      Assigning(a, "done"), assignments[a].code \in Groups,
                      assignments[a].sub = attempts[r].intent.user
               PROVE  FALSE
    OBVIOUS
  <2>1. MayOrder(r)
    <3>1. assignments[a].code \in GroupsOf(attempts[r].intent.user)
      BY PathParts DEF AccessInv, AssignmentsTakeEffect, Assigning, GroupsOf
    <3> QED BY <3>1, GroupsMayOrder DEF MayOrder
  <2>2. PICK q \in OrderIds : BffAnswers(q) \/ BffGivesUp(q) \/ Authorize(q) \/ Forward(q)
                               \/ GatewayAnswers(q) \/ GatewayGivesUp(q)
    <3>1. attempts' # attempts
      BY DEF Gateway
    <3>2. ~ \E i \in Intents : Ask(i)
      <4> SUFFICES ASSUME NEW i \in Intents, Ask(i) PROVE FALSE
        OBVIOUS
      <4> DEFINE f == Fresh
      <4>1. attempts' = Put(attempts, f, [intent |-> i, bff |-> "waiting", gateway |-> "received"])
        BY DEF Ask
      <4> HIDE DEF f
      <4> QED BY <4>1 DEF Gateway
    <3> QED BY <3>1, <3>2 DEF Next, Hop, Receive, Insert, AbortInsert, ResetBff, ResetOrder, Access
  <2>3. r \in DOMAIN attempts /\ attempts[r] \in AttemptRow /\ attempts[r].gateway = "received"
        /\ attempts'[r].gateway = "forbidden"
    BY PathParts DEF Gateway
  <2>4. CASE BffAnswers(q) \/ BffGivesUp(q)
    <3>1. PICK b : attempts' = [attempts EXCEPT ![q].bff = b]
      BY <2>4 DEF BffAnswers, BffGivesUp
    <3> QED BY <2>3, <3>1 DEF AttemptRow
  <2>5. CASE Authorize(q)
    <3>1. PICK g : attempts' = [attempts EXCEPT ![q].gateway = g] /\ (q = r => g = "authorized")
      BY <2>1, <2>5 DEF Authorize, MayOrder
    <3> QED BY <2>3, <3>1 DEF AttemptRow
  <2>6. CASE Forward(q) \/ GatewayAnswers(q) \/ GatewayGivesUp(q)
    <3>1. PICK g : attempts' = [attempts EXCEPT ![q].gateway = g] /\ q # r
      BY <2>3, <2>6 DEF Forward, GatewayAnswers, GatewayGivesUp, Gateway
    <3> QED BY <2>3, <3>1
  <2> QED BY <2>2, <2>4, <2>5, <2>6
<1> QED BY <1>1, PathInvariant, PTL DEF Spec, GrantIsEffective

\* Whatever hops give up and clients ask again, all that order-service does is
\* to take in orders.
THEOREM PathImplementsIntake == Spec => IntakeSpec
<1>1. PathInit => OrderInit
  BY DEF PathInit
<1>2. [Next]_pathVars => [Intake]_orderVars
  <2> SUFFICES ASSUME [Next]_pathVars PROVE Intake \/ UNCHANGED orderVars
    OBVIOUS
  <2>1. CASE \E r \in OrderIds : Receive(r) \/ Insert(r) \/ AbortInsert(r)
    BY <2>1 DEF Receive, Insert, AbortInsert, Intake
  <2>2. CASE \E r \in OrderIds : BffAnswers(r) \/ BffGivesUp(r) \/ Authorize(r) \/ Forward(r)
                                \/ GatewayAnswers(r) \/ GatewayGivesUp(r)
    BY <2>2 DEF BffAnswers, BffGivesUp, Authorize, Forward, GatewayAnswers, GatewayGivesUp
  <2>3. CASE (\E i \in Intents : Ask(i)) \/ ResetBff \/ ResetOrder \/ Access \/ UNCHANGED pathVars
    BY <2>3 DEF Ask, ResetBff, ResetOrder, Access, pathVars
  <2> QED BY <2>1, <2>2, <2>3 DEF Next, Hop
<1> QED BY <1>1, <1>2, PTL DEF Spec, IntakeSpec

=============================================================================
