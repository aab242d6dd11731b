---------------------------- MODULE OrderService ----------------------------
(***************************************************************************)
(* apps/order-service: order creation under an Idempotency-Key, and the    *)
(* saga orchestrator that reacts to inventory and payment results.         *)
(*                                                                         *)
(* createOrder awaits twice: a SELECT on the pool, then one transaction    *)
(* that inserts the order and its first outbox row.  Other requests run    *)
(* between the two, so each request is a process with an outcome.          *)
(* handleSagaEvent is one transaction, hence one step; a transaction that  *)
(* rolls back leaves no trace and is a stuttering step.                    *)
(***************************************************************************)
EXTENDS SagaEvents

CONSTANTS
    Users,   \* values of x-user-sub
    Keys,    \* values of Idempotency-Key
    Bodies   \* request bodies clients send

ASSUME BodiesAssumption == Bodies \subseteq Body

VARIABLES
    requests,       \* order id drawn by a request -> the request and its outcome
    orders,         \* orders.orders
    orderOutbox,    \* orders.outbox, in created_at order
    orderProcessed  \* orders.processed_events

orderVars == <<requests, orders, orderOutbox, orderProcessed>>

Statuses == {"PENDING_INVENTORY", "PENDING_PAYMENT", "CONFIRMED", "FAILED"}

\* "inserting": past the lookup, before the transaction.  "duplicate": the
\* unique index refused the row, and "aborted": another database error, a lost
\* answer to COMMIT or a crash ended the request.  The client gets a 500, or
\* nothing, for both.
Outcomes == {"inserting", "created", "replayed", "conflict", "duplicate", "aborted"}

\* The body is what request_hash is the hash of; its sku, quantity and currency
\* are columns too, and total is the column total_amount.
OrderRow   == [user : Users, key : Keys, body : Body, total : Nat, status : Statuses]
RequestRow == [user : Users, key : Keys, body : Body,
               outcome : Outcomes, order : OrderIds]

OrderTypeOK ==
    /\ DOMAIN requests \subseteq OrderIds
    /\ \A r \in DOMAIN requests : requests[r] \in RequestRow
    /\ DOMAIN orders \subseteq OrderIds
    /\ \A o \in DOMAIN orders : orders[o] \in OrderRow
    /\ orderOutbox \in Seq(Event)
    /\ orderProcessed \subseteq EventId

OrderInit ==
    /\ requests = EmptyTable
    /\ orders = EmptyTable
    /\ orderOutbox = <<>>
    /\ orderProcessed = {}

----------------------------------------------------------------------------
(* Creation of an order. *)

NormaliseVerbatim(b) == b    \* mutant: the hash covers the currency as sent

\* The body with its currency in upper case: what is hashed and what is stored.
Normalise(b) == [b EXCEPT !.currency = Upper[b.currency]]

FindByKeyOnly(u, k) == {o \in DOMAIN orders : orders[o].key = k}    \* mutant

FindOrderByIdempotency(u, k) ==
    {o \in DOMAIN orders : orders[o].user = u /\ orders[o].key = k}

\* mutant: no stored hash is compared
HashAlwaysAgrees(o, body) == TRUE

\* SHA-256 of the body, its amount not rounded, is taken to be injective.
SameRequestHash(o, body) == orders[o].body = body

\* The row a request leaves: its arguments as sent, its outcome and the order
\* it names.
Answered(r, u, k, b, outcome, o) ==
    Put(requests, r, [user |-> u, key |-> k, body |-> b,
                      outcome |-> outcome, order |-> o])

\* createOrder up to its first await: the request looks for an earlier order.
Lookup(r) ==
    /\ r \notin DOMAIN requests
    /\ \E u \in Users, k \in Keys, b \in Bodies :
          LET existing == FindOrderByIdempotency(u, k)
          IN \/ /\ existing = {}
                /\ requests' = Answered(r, u, k, b, "inserting", r)
             \/ \E o \in existing :
                   requests' = Answered(r, u, k, b,
                       IF SameRequestHash(o, Normalise(b)) THEN "replayed" ELSE "conflict", o)
    /\ UNCHANGED <<orders, orderOutbox, orderProcessed>>

Inserting(r) == r \in DOMAIN requests /\ requests[r].outcome = "inserting"

\* mutant: no unique index on (user_id, idempotency_key)
NoUniqueIndex(r) == FALSE

\* The unique index on (user_id, idempotency_key) already has this pair.
IndexRefuses(r) == FindOrderByIdempotency(requests[r].user, requests[r].key) # {}

\* The order row, in the status every order starts with.
NewOrder(r) == [user |-> requests[r].user, key |-> requests[r].key,
                body |-> Normalise(requests[r].body),
                total |-> Stored(requests[r].body.amount), status |-> "PENDING_INVENTORY"]

\* mutant: the first event is written after COMMIT, and a lost answer skips it
InsertThenAnnounce(r) ==
    /\ Inserting(r)
    /\ ~IndexRefuses(r)
    /\ orders' = Put(orders, r, NewOrder(r))
    /\ \/ /\ orderOutbox' = Append(orderOutbox,
                            [id |-> NextId("orders", orderOutbox),
                             type |-> "ReserveInventoryRequested",
                             order |-> r, body |-> NewOrder(r).body])
          /\ requests' = [requests EXCEPT ![r].outcome = "created"]
       \/ /\ orderOutbox' = orderOutbox
          /\ requests' = [requests EXCEPT ![r].outcome = "aborted"]
    /\ UNCHANGED orderProcessed

\* createOrderWithOutbox commits the order and its first event together; the
\* request may still end in an error if the answer to COMMIT is lost.
InsertOrder(r) ==
    /\ Inserting(r)
    /\ ~IndexRefuses(r)
    /\ orders' = Put(orders, r, NewOrder(r))
    /\ orderOutbox' = Append(orderOutbox,
                         [id |-> NextId("orders", orderOutbox),
                          type |-> "ReserveInventoryRequested",
                          order |-> r, body |-> NewOrder(r).body])
    /\ \E outcome \in {"created", "aborted"} :
          requests' = [requests EXCEPT ![r].outcome = outcome]
    /\ UNCHANGED orderProcessed

\* createOrderWithOutbox rolls back on the unique index; createOrder rethrows.
InsertRefused(r) ==
    /\ Inserting(r)
    /\ IndexRefuses(r)
    /\ requests' = [requests EXCEPT ![r].outcome = "duplicate"]
    /\ UNCHANGED <<orders, orderOutbox, orderProcessed>>

\* A database error (a value out of a column's range too) or a crash of the
\* process before COMMIT.
Abort(r) ==
    /\ Inserting(r)
    /\ requests' = [requests EXCEPT ![r].outcome = "aborted"]
    /\ UNCHANGED <<orders, orderOutbox, orderProcessed>>

Intake == \E r \in OrderIds : Lookup(r) \/ InsertOrder(r) \/ InsertRefused(r) \/ Abort(r)

\* Order creation by itself, with no saga event ever delivered.
IntakeSpec == OrderInit /\ [][Intake]_orderVars

----------------------------------------------------------------------------
(* What creation under an Idempotency-Key promises. *)

SamePayload(a, b) == [a EXCEPT !.currency = Upper[a.currency]]
                       = [b EXCEPT !.currency = Upper[b.currency]]

\* However the lookups and inserts of concurrent requests interleave, a user
\* and a key never have two orders (README.md, "Idempotency").
OneOrderPerKey ==
    \A o1, o2 \in DOMAIN orders :
        orders[o1].user = orders[o2].user /\ orders[o1].key = orders[o2].key => o1 = o2

\* All the 202 and 200 answers to one user and key name one existing order, and
\* the payload of each such request is the payload of that order.
AnswersNameTheOrder ==
    \A r \in DOMAIN requests :
        requests[r].outcome \in {"created", "replayed"} =>
            \E o \in DOMAIN orders :
                /\ FindOrderByIdempotency(requests[r].user, requests[r].key) = {o}
                /\ requests[r].order = o
                /\ orders[o].user = requests[r].user
                /\ SamePayload(requests[r].body, orders[o].body)

\* A 409 is only ever given for a payload that differs from the payload of the
\* order its user already has under that key; the case of the currency does not
\* make a difference.
ConflictIsReal ==
    \A r \in DOMAIN requests :
        requests[r].outcome = "conflict" =>
            \E o \in DOMAIN orders :
                /\ orders[o].user = requests[r].user /\ orders[o].key = requests[r].key
                /\ ~SamePayload(requests[r].body, orders[o].body)

ReserveRequests == {e \in Rows(orderOutbox) : e.type = "ReserveInventoryRequested"}

\* The transactional outbox: an order is in the database if and only if the
\* command that starts its saga is in the outbox, once and with its body.
OrderIffAnnounced ==
    /\ \A o \in DOMAIN orders : \E e \in ReserveRequests :
          {f \in ReserveRequests : f.order = o} = {e} /\ e.body = orders[o].body
    /\ \A e \in ReserveRequests : e.order \in DOMAIN orders

\* An order belongs to a request that is past its insert, so that its id is not
\* inserted a second time.
OrderHasRequest == \A o \in DOMAIN orders : o \in DOMAIN requests /\ ~Inserting(o)

\* Orders are stored with their currency in upper case, which makes the stored
\* payload comparable with that of a later request.
StoredNormalised ==
    \A o \in DOMAIN orders : Upper[orders[o].body.currency] = orders[o].body.currency

\* The inductive invariant of order creation.
IntakeInv ==
    /\ OrderHasRequest
    /\ StoredNormalised
    /\ \A r \in DOMAIN requests : Inserting(r) => requests[r].order = r
    /\ OneOrderPerKey
    /\ AnswersNameTheOrder
    /\ ConflictIsReal

\* README.md, "Idempotency": the same user and key "will return the original
\* order".  A request that repeats the payload of an existing order is never
\* turned away with an error.
RepeatIsReplayed ==
    \A r \in DOMAIN requests :
        requests[r].outcome = "duplicate" =>
            \A o \in FindOrderByIdempotency(requests[r].user, requests[r].key) :
                ~SamePayload(requests[r].body, orders[o].body)

----------------------------------------------------------------------------
(* handleSagaEvent: one transaction per event type. *)

\* mutant: the rejected and the failed order keep their status
KeepStatus(o, s) ==
    orders' = IF s = "FAILED" THEN orders ELSE [orders EXCEPT ![o].status = s]

SetStatus(o, s) == orders' = [orders EXCEPT ![o].status = s]

OrderMarks(e) ==
    /\ ShouldProcess(orderProcessed, e)
    /\ orderProcessed' = orderProcessed \cup {e.id}

HandleInventoryReserved(e) ==
    /\ e.type = "InventoryReserved"
    /\ OrderMarks(e)
    /\ SetStatus(e.order, "PENDING_PAYMENT")
    /\ orderOutbox' = Append(orderOutbox,
                         [id |-> NextId("orders", orderOutbox),
                          type |-> "ProcessPayment", order |-> e.order,
                          amount |-> e.amount, currency |-> e.currency])
    /\ UNCHANGED requests

HandleInventoryRejected(e) ==
    /\ e.type = "InventoryRejected"
    /\ OrderMarks(e)
    /\ SetStatus(e.order, "FAILED")
    /\ UNCHANGED <<requests, orderOutbox>>

HandlePaymentSucceeded(e) ==
    /\ e.type = "PaymentSucceeded"
    /\ OrderMarks(e)
    /\ SetStatus(e.order, "CONFIRMED")
    /\ UNCHANGED <<requests, orderOutbox>>

\* mutant: the failure is recorded and the compensation forgotten
PaymentFailedNoRelease(e) ==
    /\ e.type = "PaymentFailed"
    /\ OrderMarks(e)
    /\ SetStatus(e.order, "FAILED")
    /\ UNCHANGED <<requests, orderOutbox>>

HandlePaymentFailed(e) ==
    /\ e.type = "PaymentFailed"
    /\ OrderMarks(e)
    /\ SetStatus(e.order, "FAILED")
    /\ orderOutbox' = Append(orderOutbox,
                         [id |-> NextId("orders", orderOutbox),
                          type |-> "ReleaseInventory", order |-> e.order])
    /\ UNCHANGED requests

HandleSagaEvent(e) ==
    \/ HandleInventoryReserved(e)
    \/ HandleInventoryRejected(e)
    \/ HandlePaymentSucceeded(e)
    \/ HandlePaymentFailed(e)

=============================================================================
