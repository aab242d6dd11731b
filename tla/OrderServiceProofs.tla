------------------------- MODULE OrderServiceProofs -------------------------
(***************************************************************************)
(* Theorems about the creation of orders, for any set of users, keys,      *)
(* bodies and concurrent requests.                                         *)
(***************************************************************************)
EXTENDS OrderService, TLAPS

USE DEF EmptyTable, Put

----------------------------------------------------------------------------
(* Types. *)

LEMMA EventTypes ==
    ASSUME NEW e \in Event
    PROVE  /\ e.id \in EventId /\ e.order \in OrderIds
           /\ e.type = "ReserveInventoryRequested" => e.body \in Body
           /\ e.type \in {"InventoryReserved", "ProcessPayment"} =>
                 e.amount \in Nat \ {0} /\ e.currency \in Currencies
BY DEF Event, ReserveEvents, PricedEvents, PlainEvents

LEMMA NextIdType ==
    ASSUME NEW outbox \in Seq(Event), NEW s \in Services
    PROVE  NextId(s, outbox) \in EventId
BY DEF NextId, EventId

\* A column of cents keeps a number of cents, and keeps the order of amounts.
LEMMA StoredCents ==
    ASSUME NEW a \in Nat
    PROVE  /\ Stored(a) \in Nat
           /\ \A b \in Nat : a <= b => Stored(a) <= Stored(b)
<1>1. ASSUME NEW m \in Nat, NEW n \in Nat, NEW d \in Nat \ {0}, m <= n
      PROVE  m \div d \in Nat /\ m \div d <= n \div d
  BY <1>1
<1>2. ASSUME NEW m \in Nat, NEW n \in Nat, m <= n
      PROVE  Cent * m \in Nat /\ Cent * m <= Cent * n
  BY <1>2, CentAssumption
<1> DEFINE Up(x) == (2 * x + Cent) \div (2 * Cent)
<1>3. ASSUME NEW b \in Nat, a <= b
      PROVE  Up(a) \in Nat /\ Up(b) \in Nat /\ Up(a) <= Up(b)
  <2>1. /\ 2 * a + Cent \in Nat /\ 2 * b + Cent \in Nat /\ 2 * Cent \in Nat \ {0}
        /\ 2 * a + Cent <= 2 * b + Cent
    BY <1>3, CentAssumption
  <2> QED BY <2>1, <1>1
<1> QED BY <1>2, <1>3 DEF Stored

LEMMA NormaliseType == ASSUME NEW b \in Body PROVE Normalise(b) \in Body
BY UpperAssumption DEF Normalise, Body

LEMMA IntakeTypes == OrderTypeOK /\ Intake => OrderTypeOK'
<1> SUFFICES ASSUME OrderTypeOK, NEW r \in OrderIds,
                    Lookup(r) \/ InsertOrder(r) \/ InsertRefused(r) \/ Abort(r)
             PROVE  OrderTypeOK'
  BY DEF Intake
<1> USE DEF OrderTypeOK
<1>1. CASE Lookup(r)
  BY <1>1, BodiesAssumption DEF Lookup, Answered, RequestRow, Outcomes, FindOrderByIdempotency
<1>2. CASE InsertOrder(r)
  <2>1. NewOrder(r) \in OrderRow /\ NewOrder(r).body \in Body
    BY <1>2, NormaliseType, StoredCents
    DEF InsertOrder, Inserting, NewOrder, OrderRow, RequestRow, Statuses, Body
  <2>2. [id |-> NextId("orders", orderOutbox), type |-> "ReserveInventoryRequested",
         order |-> r, body |-> NewOrder(r).body] \in Event
    BY <2>1, NextIdType DEF Event, ReserveEvents, Services
  <2>3. orderOutbox' \in Seq(Event)
    BY <1>2, <2>2 DEF InsertOrder
  <2>4. /\ DOMAIN orders' \subseteq OrderIds
        /\ \A o \in DOMAIN orders' : orders'[o] \in OrderRow
    BY <1>2, <2>1 DEF InsertOrder
  <2>5. /\ DOMAIN requests' \subseteq OrderIds
        /\ \A x \in DOMAIN requests' : requests'[x] \in RequestRow
    <3>1. PICK outcome \in {"created", "aborted"} :
             requests' = [requests EXCEPT ![r].outcome = outcome]
      BY <1>2 DEF InsertOrder
    <3> QED BY <3>1, <1>2 DEF InsertOrder, Inserting, RequestRow, Outcomes
  <2> QED BY <1>2, <2>3, <2>4, <2>5 DEF InsertOrder
<1>3. CASE InsertRefused(r)
  BY <1>3 DEF InsertRefused, Inserting, RequestRow, Outcomes
<1>4. CASE Abort(r)
  BY <1>4 DEF Abort, Inserting, RequestRow, Outcomes
<1> QED BY <1>1, <1>2, <1>3, <1>4

THEOREM IntakeTypeCorrect == IntakeSpec => []OrderTypeOK
<1>1. OrderInit => OrderTypeOK
  BY DEF OrderInit, OrderTypeOK
<1>2. OrderTypeOK /\ [Intake]_orderVars => OrderTypeOK'
  BY IntakeTypes DEF orderVars, OrderTypeOK
<1> QED BY <1>1, <1>2, PTL DEF IntakeSpec

----------------------------------------------------------------------------
(* Payloads. *)

LEMMA NormaliseFields ==
    ASSUME NEW b \in Body
    PROVE  /\ Normalise(b) = [sku |-> b.sku, quantity |-> b.quantity, amount |-> b.amount,
                              currency |-> Upper[b.currency]]
           /\ Upper[Normalise(b).currency] = Normalise(b).currency
           /\ SamePayload(b, Normalise(b))
<1>1. Normalise(b) = [sku |-> b.sku, quantity |-> b.quantity, amount |-> b.amount,
                      currency |-> Upper[b.currency]]
  BY DEF Normalise, Body
<1>2. Upper[Normalise(b).currency] = Normalise(b).currency
  BY <1>1, UpperAssumption DEF Body
<1>3. SamePayload(b, Normalise(b))
  BY <1>1, <1>2, NormaliseType DEF SamePayload, Normalise, Body
<1> QED BY <1>1, <1>2, <1>3

\* Against a stored payload, equal hashes mean equal payloads.
LEMMA StoredPayload ==
    ASSUME NEW b \in Body, NEW c \in Body, Upper[c.currency] = c.currency
    PROVE  SamePayload(b, c) <=> c = Normalise(b)
<1>1. [c EXCEPT !.currency = Upper[c.currency]] = c
  BY DEF Body
<1> QED BY <1>1 DEF SamePayload, Normalise

----------------------------------------------------------------------------
(* IntakeInv is inductive. *)

LEMMA LookupStep ==
    ASSUME OrderTypeOK, IntakeInv, NEW r \in OrderIds, Lookup(r)
    PROVE  IntakeInv'
<1>1. PICK u \in Users, k \in Keys, b \in Bodies :
         LET existing == FindOrderByIdempotency(u, k)
         IN \/ /\ existing = {}
               /\ requests' = Answered(r, u, k, b, "inserting", r)
            \/ \E o \in existing :
                  requests' = Answered(r, u, k, b,
                      IF SameRequestHash(o, Normalise(b)) THEN "replayed" ELSE "conflict", o)
  BY DEF Lookup
<1>2. r \notin DOMAIN requests /\ r \notin DOMAIN orders /\ b \in Body
      /\ UNCHANGED <<orders, orderOutbox, orderProcessed>>
  BY BodiesAssumption DEF Lookup, IntakeInv, OrderHasRequest
<1>3. /\ DOMAIN requests' = DOMAIN requests \cup {r}
      /\ \A x \in DOMAIN requests : requests'[x] = requests[x]
      /\ requests'[r].user = u /\ requests'[r].key = k /\ requests'[r].body = b
  BY <1>1, <1>2 DEF Answered
<1>4. \/ /\ FindOrderByIdempotency(u, k) = {}
         /\ requests'[r].outcome = "inserting" /\ requests'[r].order = r
      \/ \E o \in FindOrderByIdempotency(u, k) :
            /\ requests'[r].order = o
            /\ requests'[r].outcome =
                  IF SameRequestHash(o, Normalise(b)) THEN "replayed" ELSE "conflict"
  BY <1>1, <1>2 DEF Answered
<1>5. OrderHasRequest' /\ StoredNormalised' /\ OneOrderPerKey'
  BY <1>2, <1>3 DEF IntakeInv, OrderHasRequest, StoredNormalised, OneOrderPerKey, Inserting
<1>6. \A x \in DOMAIN requests' : Inserting(x)' => requests'[x].order = x
  BY <1>3, <1>4 DEF IntakeInv, Inserting
<1>7. ASSUME NEW o \in FindOrderByIdempotency(u, k)
      PROVE  /\ o \in DOMAIN orders /\ orders[o].user = u /\ orders[o].key = k
             /\ FindOrderByIdempotency(u, k) = {o}
             /\ SamePayload(b, orders[o].body) <=> SameRequestHash(o, Normalise(b))
  <2>1. o \in DOMAIN orders /\ orders[o].user = u /\ orders[o].key = k
    BY DEF FindOrderByIdempotency
  <2>2. FindOrderByIdempotency(u, k) = {o}
    BY <2>1 DEF FindOrderByIdempotency, IntakeInv, OneOrderPerKey
  <2>3. orders[o].body \in Body /\ Upper[orders[o].body.currency] = orders[o].body.currency
    BY <2>1 DEF OrderTypeOK, OrderRow, IntakeInv, StoredNormalised
  <2> QED BY <1>2, <2>1, <2>2, <2>3, StoredPayload DEF SameRequestHash
<1>8. AnswersNameTheOrder'
  <2> SUFFICES ASSUME NEW x \in DOMAIN requests',
                      requests'[x].outcome \in {"created", "replayed"}
               PROVE  \E o \in DOMAIN orders :
                         /\ FindOrderByIdempotency(requests'[x].user, requests'[x].key) = {o}
                         /\ requests'[x].order = o
                         /\ orders[o].user = requests'[x].user
                         /\ SamePayload(requests'[x].body, orders[o].body)
    BY <1>2 DEF AnswersNameTheOrder, FindOrderByIdempotency, SamePayload
  <2>1. CASE x = r
    BY <1>3, <1>4, <1>7, <2>1
  <2>2. CASE x # r
    BY <1>3, <2>2 DEF IntakeInv, AnswersNameTheOrder
  <2> QED BY <2>1, <2>2
<1>9. ConflictIsReal'
  <2> SUFFICES ASSUME NEW x \in DOMAIN requests', requests'[x].outcome = "conflict"
               PROVE  \E o \in DOMAIN orders :
                         /\ orders[o].user = requests'[x].user /\ orders[o].key = requests'[x].key
                         /\ ~SamePayload(requests'[x].body, orders[o].body)
    BY <1>2 DEF ConflictIsReal, SamePayload
  <2>1. CASE x = r
    BY <1>3, <1>4, <1>7, <2>1
  <2>2. CASE x # r
    BY <1>3, <2>2 DEF IntakeInv, ConflictIsReal
  <2> QED BY <2>1, <2>2
<1> QED BY <1>5, <1>6, <1>8, <1>9 DEF IntakeInv

LEMMA InsertOrderStep ==
    ASSUME OrderTypeOK, IntakeInv, NEW r \in OrderIds, InsertOrder(r)
    PROVE  IntakeInv'
<1>1. PICK outcome \in {"created", "aborted"} :
         requests' = [requests EXCEPT ![r].outcome = outcome]
  BY DEF InsertOrder
<1>2. /\ r \in DOMAIN requests /\ r \notin DOMAIN orders /\ requests[r].order = r
      /\ requests[r] \in RequestRow /\ requests[r].body \in Body
  BY DEF InsertOrder, Inserting, IntakeInv, OrderHasRequest, OrderTypeOK, RequestRow
<1>3. /\ DOMAIN requests' = DOMAIN requests
      /\ \A x \in DOMAIN requests : x # r => requests'[x] = requests[x]
      /\ requests'[r] = [requests[r] EXCEPT !.outcome = outcome]
  BY <1>1, <1>2
<1>4. /\ requests'[r].user = requests[r].user /\ requests'[r].key = requests[r].key
      /\ requests'[r].body = requests[r].body /\ requests'[r].order = r
      /\ requests'[r].outcome = outcome
  BY <1>2, <1>3 DEF RequestRow
<1>5. /\ DOMAIN orders' = DOMAIN orders \cup {r}
      /\ \A o \in DOMAIN orders : orders'[o] = orders[o]
      /\ orders'[r] = NewOrder(r)
  BY <1>2 DEF InsertOrder
<1>6. /\ NewOrder(r).user = requests[r].user /\ NewOrder(r).key = requests[r].key
      /\ NewOrder(r).body = Normalise(requests[r].body)
  BY DEF NewOrder
<1>7. \A o \in DOMAIN orders :
         ~(orders[o].user = requests[r].user /\ orders[o].key = requests[r].key)
  BY DEF InsertOrder, IndexRefuses, FindOrderByIdempotency
<1>8. OrderHasRequest' /\ \A x \in DOMAIN requests' : Inserting(x)' => requests'[x].order = x
  BY <1>2, <1>3, <1>4, <1>5 DEF IntakeInv, OrderHasRequest, Inserting
<1>9. StoredNormalised'
  BY <1>2, <1>5, <1>6, NormaliseFields DEF IntakeInv, StoredNormalised
<1>10. OneOrderPerKey'
  BY <1>5, <1>6, <1>7 DEF IntakeInv, OneOrderPerKey
<1>11. AnswersNameTheOrder'
  <2> SUFFICES ASSUME NEW x \in DOMAIN requests',
                      requests'[x].outcome \in {"created", "replayed"}
               PROVE  \E o \in DOMAIN orders' :
                         /\ FindOrderByIdempotency(requests[x].user, requests[x].key)' = {o}
                         /\ requests'[x].order = o
                         /\ orders'[o].user = requests'[x].user
                         /\ SamePayload(requests'[x].body, orders'[o].body)
    BY <1>3, <1>4 DEF AnswersNameTheOrder, FindOrderByIdempotency, SamePayload
  <2>1. CASE x = r
    <3>1. FindOrderByIdempotency(requests[r].user, requests[r].key)' = {r}
      BY <1>4, <1>5, <1>6, <1>7 DEF FindOrderByIdempotency
    <3> QED BY <2>1, <3>1, <1>2, <1>4, <1>5, <1>6, NormaliseFields
  <2>2. CASE x # r
    <3>1. x \in DOMAIN requests /\ requests'[x] = requests[x]
      BY <1>3, <2>2
    <3>2. PICK o \in DOMAIN orders :
             /\ FindOrderByIdempotency(requests[x].user, requests[x].key) = {o}
             /\ requests[x].order = o
             /\ orders[o].user = requests[x].user
             /\ SamePayload(requests[x].body, orders[o].body)
      BY <3>1 DEF IntakeInv, AnswersNameTheOrder
    <3>3. orders[o].key = requests[x].key
      BY <3>2 DEF FindOrderByIdempotency
    <3>4. FindOrderByIdempotency(requests[x].user, requests[x].key)' = {o}
      BY <1>4, <1>5, <1>6, <1>7, <3>1, <3>2, <3>3 DEF FindOrderByIdempotency
    <3> QED BY <1>5, <3>1, <3>2, <3>4
  <2> QED BY <2>1, <2>2
<1>12. ConflictIsReal'
  <2> SUFFICES ASSUME NEW x \in DOMAIN requests', requests'[x].outcome = "conflict"
               PROVE  \E o \in DOMAIN orders' :
                         /\ orders'[o].user = requests'[x].user
                         /\ orders'[o].key = requests'[x].key
                         /\ ~SamePayload(requests'[x].body, orders'[o].body)
    BY DEF ConflictIsReal, SamePayload
  <2>1. x \in DOMAIN requests /\ requests'[x] = requests[x]
    BY <1>3, <1>4
  <2> QED BY <1>5, <2>1 DEF IntakeInv, ConflictIsReal
<1> QED BY <1>8, <1>9, <1>10, <1>11, <1>12 DEF IntakeInv

LEMMA UnansweredStep ==
    ASSUME OrderTypeOK, IntakeInv, NEW r \in OrderIds, InsertRefused(r) \/ Abort(r)
    PROVE  IntakeInv'
<1>1. PICK outcome \in {"duplicate", "aborted"} :
         requests' = [requests EXCEPT ![r].outcome = outcome]
  BY DEF InsertRefused, Abort
<1>2. r \in DOMAIN requests /\ requests[r] \in RequestRow /\ UNCHANGED orders
  BY DEF InsertRefused, Abort, Inserting, OrderTypeOK
<1>3. /\ DOMAIN requests' = DOMAIN requests
      /\ \A x \in DOMAIN requests : x # r => requests'[x] = requests[x]
      /\ requests'[r].outcome = outcome
  BY <1>1, <1>2 DEF RequestRow
<1>4. OrderHasRequest' /\ \A x \in DOMAIN requests' : Inserting(x)' => requests'[x].order = x
  BY <1>2, <1>3 DEF IntakeInv, OrderHasRequest, Inserting
<1>5. AnswersNameTheOrder'
  BY <1>2, <1>3 DEF IntakeInv, AnswersNameTheOrder, FindOrderByIdempotency, SamePayload
<1>6. ConflictIsReal'
  BY <1>2, <1>3 DEF IntakeInv, ConflictIsReal, SamePayload
<1> QED BY <1>2, <1>4, <1>5, <1>6 DEF IntakeInv, StoredNormalised, OneOrderPerKey

\* What the saga does to an order does not concern its creation.
LEMMA StatusStep ==
    ASSUME OrderTypeOK, IntakeInv, UNCHANGED requests,
           DOMAIN orders' = DOMAIN orders,
           \A o \in DOMAIN orders : /\ orders'[o].user = orders[o].user
                                   /\ orders'[o].key = orders[o].key
                                   /\ orders'[o].body = orders[o].body
    PROVE  IntakeInv'
<1>2. OrderHasRequest' /\ \A x \in DOMAIN requests' : Inserting(x)' => requests'[x].order = x
  BY DEF IntakeInv, OrderHasRequest, Inserting
<1>3. AnswersNameTheOrder'
  <2> SUFFICES ASSUME NEW x \in DOMAIN requests,
                      requests[x].outcome \in {"created", "replayed"}
               PROVE  \E o \in DOMAIN orders :
                         /\ FindOrderByIdempotency(requests[x].user, requests[x].key)' = {o}
                         /\ requests[x].order = o
                         /\ orders'[o].user = requests[x].user
                         /\ SamePayload(requests[x].body, orders'[o].body)
    BY DEF AnswersNameTheOrder, FindOrderByIdempotency, SamePayload
  <2>1. PICK o \in DOMAIN orders :
           /\ FindOrderByIdempotency(requests[x].user, requests[x].key) = {o}
           /\ requests[x].order = o
           /\ orders[o].user = requests[x].user
           /\ SamePayload(requests[x].body, orders[o].body)
    BY DEF IntakeInv, AnswersNameTheOrder
  <2>2. FindOrderByIdempotency(requests[x].user, requests[x].key)' = {o}
    BY <2>1 DEF FindOrderByIdempotency
  <2> QED BY <2>1, <2>2
<1>4. ConflictIsReal'
  <2> SUFFICES ASSUME NEW x \in DOMAIN requests, requests[x].outcome = "conflict"
               PROVE  \E o \in DOMAIN orders :
                         /\ orders'[o].user = requests[x].user
                         /\ orders'[o].key = requests[x].key
                         /\ ~SamePayload(requests[x].body, orders'[o].body)
    BY DEF ConflictIsReal, SamePayload
  <2> QED BY DEF IntakeInv, ConflictIsReal
<1> QED BY <1>2, <1>3, <1>4 DEF IntakeInv, StoredNormalised, OneOrderPerKey

THEOREM IntakeInvariant == IntakeSpec => []IntakeInv
<1>1. OrderInit => IntakeInv
  BY DEF OrderInit, IntakeInv, OrderHasRequest, StoredNormalised, OneOrderPerKey,
     AnswersNameTheOrder, ConflictIsReal
<1>2. OrderTypeOK /\ IntakeInv /\ [Intake]_orderVars => IntakeInv'
  <2> SUFFICES ASSUME OrderTypeOK, IntakeInv, [Intake]_orderVars PROVE IntakeInv'
    OBVIOUS
  <2>1. CASE Intake
    BY <2>1, LookupStep, InsertOrderStep, UnansweredStep DEF Intake
  <2>2. CASE UNCHANGED orderVars
    BY <2>2, StatusStep DEF orderVars
  <2> QED BY <2>1, <2>2
<1> QED BY <1>1, <1>2, IntakeTypeCorrect, PTL DEF IntakeSpec

\* However many requests race with one key, they leave one order, and it is the
\* unique index that sees to it.
THEOREM IntakeOneOrder == IntakeSpec => []OneOrderPerKey
<1>1. IntakeInv => OneOrderPerKey
  BY DEF IntakeInv
<1> QED BY <1>1, IntakeInvariant, PTL

\* A 202 or a 200 names the one order of its user and key, with its payload.
THEOREM IntakeAnswers == IntakeSpec => []AnswersNameTheOrder
<1>1. IntakeInv => AnswersNameTheOrder
  BY DEF IntakeInv
<1> QED BY <1>1, IntakeInvariant, PTL

\* A 409 is given for another payload only.
THEOREM IntakeConflicts == IntakeSpec => []ConflictIsReal
<1>1. IntakeInv => ConflictIsReal
  BY DEF IntakeInv
<1> QED BY <1>1, IntakeInvariant, PTL

=============================================================================
