---------------------------- MODULE SagaDelivery ----------------------------
(***************************************************************************)
(* What the orders can wait for: the order saga, and the two ways in which *)
(* an event that was written may not reach the handler it is meant for.    *)
(* A publisher whose producer could not connect sends nothing until its    *)
(* process is restarted, and a consumer group that has no committed offset *)
(* yet begins at the end of the log each time it starts.                   *)
(***************************************************************************)
EXTENDS OrderSaga

CONSTANTS
    MaxStuck,   \* bound: services with a rejected producer at one time
    MaxMissed   \* bound: events that a consumer group passes by

ASSUME DeliveryAssumption == MaxStuck \in Nat /\ MaxMissed \in Nat

VARIABLES
    stuck,   \* the services whose producerPromise is rejected
    missed   \* the events that were published before their group began

deliveryVars == <<sagaVars, stuck, missed>>

Outbox(s) ==
    CASE s = "orders"    -> orderOutbox
      [] s = "inventory" -> invOutbox
      [] s = "payments"  -> payOutbox

DeliveryInit == Init /\ stuck = {} /\ missed = {}

\* publishOutboxBatch, when getProducer has a producer.
Send(s) ==
    /\ s \notin stuck
    /\ Publish(Outbox(s))
    /\ UNCHANGED <<stuck, missed>>

\* getProducer keeps the rejected promise of the first connect() of a process.
ConnectFails(s) ==
    /\ s \notin stuck /\ Cardinality(stuck) < MaxStuck
    /\ Rows(Outbox(s)) \ bus # {}
    /\ stuck' = stuck \cup {s}
    /\ UNCHANGED <<sagaVars, missed>>

\* The process is started again, and connects anew.
Restart(s) ==
    /\ s \in stuck
    /\ stuck' = stuck \ {s}
    /\ UNCHANGED <<sagaVars, missed>>

\* The group the event is meant for has no committed offset, and begins behind
\* it (fromBeginning is false).  A member that was there before may have it in
\* its handler even so.
PassBy(e) ==
    /\ ~Handled(e)
    /\ Cardinality(missed) < MaxMissed
    /\ missed' = missed \cup {e}
    /\ UNCHANGED <<sagaVars, stuck>>

DeliveryNext ==
    \/ \E s \in Services : Send(s) \/ ConnectFails(s) \/ Restart(s)
    \/ \E e \in bus : PassBy(e)
    \/ /\ CreateOrder \/ OrderConsumer \/ InventoryConsumer \/ PaymentConsumer
       /\ UNCHANGED <<stuck, missed>>

\* An event that was not passed by is handled for the first time.
HandlesNext == \E e \in bus \ missed : ~Handled(e) /\ Handled(e)'

\* setInterval calls a publisher as long as its process lives, and a send that
\* fails is tried again by a later batch if there is a producer.  A consumer
\* group retries the events it has not passed by until the handler returns.
\* Nobody promises a restart, and clients promise nothing.
DeliveryFairness ==
    /\ \A s \in Services : WF_deliveryVars(Send(s))
    /\ WF_deliveryVars(OrderConsumer /\ HandlesNext /\ UNCHANGED <<stuck, missed>>)
    /\ WF_deliveryVars(InventoryConsumer /\ HandlesNext /\ UNCHANGED <<stuck, missed>>)
    /\ WF_deliveryVars(PaymentConsumer /\ HandlesNext /\ UNCHANGED <<stuck, missed>>)

DeliverySpec == DeliveryInit /\ [][DeliveryNext]_deliveryVars /\ DeliveryFairness

----------------------------------------------------------------------------
(* What an order can rely on. *)

\* No service keeps a rejected producer for good.
ProducersRecover == <>[](stuck = {})

\* An event of the order was passed by, and no earlier member has handled it.
Lost(o) == \E e \in missed : e.order = o /\ ~Handled(e)

\* Every order that was accepted gets its verdict, however often the events of
\* its saga are delayed, if processes with a rejected producer are restarted
\* and no event of this order is lost to a group without an offset.  The loss
\* of another order's event does no harm.
EveryOrderSettles ==
    ProducersRecover =>
        \A o \in OrderIds :
            o \in DOMAIN orders ~>
                Lost(o) \/ o \in WithStatus("CONFIRMED") \cup WithStatus("FAILED")

\* The compensation runs, under the same conditions: the pieces of an order
\* whose payment fails go back, and are not taken again by a late delivery.
FailedOrderLetsGo ==
    ProducersRecover =>
        \A o \in OrderIds :
            o \in WithStatus("FAILED") ~> (Lost(o) \/ [](~Held(o)))

=============================================================================
