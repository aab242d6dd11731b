---------------------------- MODULE OrderSagaInv ----------------------------
(***************************************************************************)
(* The inductive invariant of OrderSaga: which events exist, which have    *)
(* been handled, and what that says of the tables of the three services.   *)
(***************************************************************************)
EXTENDS OrderSaga

\* An outbox row has the id of its place, and each service writes its own
\* types of event.
OutboxShape ==
    /\ \A i \in DOMAIN orderOutbox :
          /\ orderOutbox[i].id = <<"orders", i>>
          /\ Stage(orderOutbox[i].type) \in {1, 3, 5}
    /\ \A i \in DOMAIN invOutbox :
          /\ invOutbox[i].id = <<"inventory", i>>
          /\ Stage(invOutbox[i].type) = 2
    /\ \A i \in DOMAIN payOutbox :
          /\ payOutbox[i].id = <<"payments", i>>
          /\ Stage(payOutbox[i].type) = 4

\* Only written events reach Kafka, and a service marks only events of the
\* types it consumes, which it got from Kafka.
ProcessedWasSent ==
    /\ bus \subseteq Written
    /\ \A x \in orderProcessed : \E e \in bus : e.id = x /\ Stage(e.type) \in {2, 4}
    /\ \A x \in invProcessed   : \E e \in bus : e.id = x /\ Stage(e.type) \in {1, 5}
    /\ \A x \in payProcessed   : \E e \in bus : e.id = x /\ Stage(e.type) = 3

\* The types of the events an order has, and of those that have been handled.
Sent(o) == {e.type : e \in {x \in Written : x.order = o}}
Done(o) == {e.type : e \in {x \in Written : x.order = o /\ Handled(x)}}

InventoryAnswer(types) == "InventoryReserved" \in types \/ "InventoryRejected" \in types
PaymentAnswer(types)   == "PaymentSucceeded" \in types \/ "PaymentFailed" \in types

\* An event of each type exists if and only if its cause has been handled.
CausalChain ==
    \A o \in OrderIds :
        /\ "ReserveInventoryRequested" \in Sent(o) <=> o \in DOMAIN orders
        /\ InventoryAnswer(Sent(o)) <=> "ReserveInventoryRequested" \in Done(o)
        /\ "ProcessPayment" \in Sent(o) <=> "InventoryReserved" \in Done(o)
        /\ PaymentAnswer(Sent(o)) <=> "ProcessPayment" \in Done(o)
        /\ "ReleaseInventory" \in Sent(o) <=> "PaymentFailed" \in Done(o)

\* The status of an order tells how far its saga has come.
StatusTellsProgress ==
    \A o \in DOMAIN orders :
        /\ orders[o].status = "PENDING_PAYMENT" <=>
              "InventoryReserved" \in Done(o) /\ ~PaymentAnswer(Done(o))
        /\ orders[o].status = "CONFIRMED" <=> "PaymentSucceeded" \in Done(o)
        /\ orders[o].status = "FAILED" <=>
              "InventoryRejected" \in Done(o) \/ "PaymentFailed" \in Done(o)

\* So do the reservation and the payment attempt.
EffectsTellProgress ==
    \A o \in OrderIds :
        /\ o \in DOMAIN reservations <=> "InventoryReserved" \in Sent(o)
        /\ o \in DOMAIN reservations => (Held(o) <=> "ReleaseInventory" \notin Done(o))
        /\ o \in DOMAIN attempts <=> PaymentAnswer(Sent(o))
        /\ o \in DOMAIN attempts =>
              (attempts[o].status = "SUCCEEDED" <=> "PaymentSucceeded" \in Sent(o))

\* The events are of orders that exist, and carry their data; the amount of an
\* event is not rounded, and the total of the order is.
EventsMatchOrder ==
    /\ \A o \in DOMAIN orders : orders[o].total = Stored(orders[o].body.amount)
    /\ \A e \in Written :
          /\ e.order \in DOMAIN orders
          /\ e.type = "ReserveInventoryRequested" => e.body = orders[e.order].body
          /\ e.type \in {"InventoryReserved", "ProcessPayment"} =>
                /\ e.amount = orders[e.order].body.amount
                /\ e.currency = orders[e.order].body.currency

\* Together they hold in every reachable state, and each needs the others.
SagaInv ==
    /\ OutboxShape
    /\ ProcessedWasSent
    /\ OrderHasRequest
    /\ EachStepOnce
    /\ CausalChain
    /\ StatusTellsProgress
    /\ EffectsTellProgress
    /\ EventsMatchOrder
    /\ EffectsMatchOrder

\* With the types they are inductive.
SagaIInv == SagaTypeOK /\ SagaInv

=============================================================================
