----------------------------- MODULE OrderSaga -----------------------------
(***************************************************************************)
(* The order saga: order-service, inventory-service and payment-service,   *)
(* each with its database, exchanging events through their outboxes and    *)
(* Kafka.                                                                  *)
(*                                                                         *)
(* Kafka is the set of the events that have reached a topic.  An event     *)
(* stays there, so a consumer may meet it at any time, after any other     *)
(* event and any number of times: what at-least-once delivery from several *)
(* topics and partitions can do.  A crash or a rollback between two steps  *)
(* changes nothing that is durable and is a stuttering step.               *)
(***************************************************************************)
EXTENDS OrderService, InventoryService, PaymentService, FiniteSets

VARIABLE bus    \* the events in the inventory and payment topics

sagaVars == <<requests, orders, orderOutbox, orderProcessed,
              items, reservations, invOutbox, invProcessed,
              attempts, payOutbox, payProcessed, bus>>

SagaTypeOK == OrderTypeOK /\ InventoryTypeOK /\ PaymentTypeOK /\ bus \subseteq Event

Init == OrderInit /\ InventoryInit /\ PaymentInit /\ bus = {}

\* publishOutboxBatch: a row without published_at reaches its topic.  Sending
\* a row again, because the process stopped before markOutboxPublished or two
\* batches overlapped, leaves the set as it is.
Publish(outbox) ==
    /\ \E e \in Rows(outbox) \ bus : bus' = bus \cup {e}
    /\ UNCHANGED <<orderVars, inventoryVars, paymentVars>>

PublishOrders    == Publish(orderOutbox)
PublishInventory == Publish(invOutbox)
PublishPayments  == Publish(payOutbox)

\* A consumer handles one event of the topics its group is subscribed to.
OrderConsumer ==
    /\ \E e \in bus : HandleSagaEvent(e)
    /\ UNCHANGED <<inventoryVars, paymentVars, bus>>

InventoryConsumer ==
    /\ \E e \in bus : HandleInventoryCommand(e)
    /\ UNCHANGED <<orderVars, paymentVars, bus>>

PaymentConsumer ==
    /\ \E e \in bus : HandlePaymentCommand(e)
    /\ UNCHANGED <<orderVars, inventoryVars, bus>>

CreateOrder == Intake /\ UNCHANGED <<inventoryVars, paymentVars, bus>>

Next ==
    \/ CreateOrder
    \/ PublishOrders \/ PublishInventory \/ PublishPayments
    \/ OrderConsumer \/ InventoryConsumer \/ PaymentConsumer

Spec == Init /\ [][Next]_sagaVars

----------------------------------------------------------------------------
(* Vocabulary of the properties. *)

Written == Rows(orderOutbox) \cup Rows(invOutbox) \cup Rows(payOutbox)

\* The event types by the step of the saga they stand for: of each row, an
\* order may have one event.
Stage(type) ==
    CASE type = "ReserveInventoryRequested" -> 1
      [] type \in {"InventoryReserved", "InventoryRejected"} -> 2
      [] type = "ProcessPayment" -> 3
      [] type \in {"PaymentSucceeded", "PaymentFailed"} -> 4
      [] type = "ReleaseInventory" -> 5

WithStatus(s) == {o \in DOMAIN orders : orders[o].status = s}

\* What the client asked to pay, to the last digit, is within the limit.
Approvable(o) == orders[o].body.amount <= PaymentLimit

\* The pieces of an item, each under the number its order gives it, that these
\* orders ask for and that the RESERVED reservations hold.  Their cardinalities
\* are the sums of the quantities.
PiecesOrdered(os, sku) ==
    UNION {{o} \X (1 .. orders[o].body.quantity) : o \in {x \in os : orders[x].body.sku = sku}}

PiecesHeld(sku) ==
    UNION {{o} \X (1 .. reservations[o].quantity) :
               o \in {x \in DOMAIN reservations : Held(x) /\ reservations[x].sku = sku}}

\* The service that consumes this event has handled it: no event id is in the
\* processed_events of two services.
Processed == orderProcessed \cup invProcessed \cup payProcessed

Handled(e) == e.id \in Processed

----------------------------------------------------------------------------
(* Safety. *)

\* Whatever is delivered twice or late, an order takes each step of its saga
\* once: no second reservation, charge, verdict or release is ever requested
\* or reported for it.
EachStepOnce ==
    \A e, f \in Written :
        e.order = f.order /\ Stage(e.type) = Stage(f.type) => e = f

\* No piece of stock appears or disappears, and no more is promised than there
\* is: the check of available_quantity and its UPDATE hold against every other
\* order and release in between.
StockConserved ==
    \A s \in Stocked :
        /\ items[s].available >= 0
        /\ items[s].available + items[s].reserved = InitialStock[s]

\* reserved_quantity of an item is what the RESERVED reservations hold of it.
ReservedMatchesReservations ==
    \A s \in Stocked : items[s].reserved = Cardinality(PiecesHeld(s))

\* When every event has been handled, the stock still held is what the
\* CONFIRMED orders bought, and no order is left on its way.
NothingLeftBehind ==
    (\A e \in Written : e \in bus /\ Handled(e)) =>
        /\ DOMAIN orders = WithStatus("CONFIRMED") \cup WithStatus("FAILED")
        /\ \A s \in Stocked :
              items[s].reserved = Cardinality(PiecesOrdered(WithStatus("CONFIRMED"), s))

\* A CONFIRMED order has its pieces and has been charged; a FAILED order has
\* not been charged; and a reservation is given back for FAILED orders only.
VerdictMatchesEffects ==
    /\ \A o \in WithStatus("CONFIRMED") :
          Held(o) /\ o \in DOMAIN attempts /\ attempts[o].status = "SUCCEEDED"
    /\ \A o \in WithStatus("FAILED") :
          o \in DOMAIN attempts => attempts[o].status = "FAILED"
    /\ \A o \in DOMAIN reservations \ WithStatus("FAILED") : Held(o)

\* What is held and what is charged is what the order's row says, although the
\* amount reaches the payment service through three other events and is rounded
\* to cents there as it was in the order's row.  The payment is decided on the
\* amount as the client sent it: of two orders whose rows have the same total,
\* the limit itself, one may be charged and the other not.  No row with a total
\* above the limit is ever charged.
EffectsMatchOrder ==
    /\ \A o \in DOMAIN reservations :
          /\ o \in DOMAIN orders
          /\ reservations[o].sku = orders[o].body.sku
          /\ reservations[o].quantity = orders[o].body.quantity
    /\ \A o \in DOMAIN attempts :
          /\ o \in DOMAIN orders
          /\ attempts[o].amount = orders[o].total
          /\ attempts[o].currency = orders[o].body.currency
          /\ attempts[o].status = "SUCCEEDED" <=> Approvable(o)
          /\ attempts[o].status = "SUCCEEDED" => orders[o].total <= PaymentLimit

\* The statuses an order may go to from each status.
After(s) ==
    CASE s = "PENDING_INVENTORY" -> {"PENDING_PAYMENT", "FAILED"}
      [] s = "PENDING_PAYMENT"   -> {"CONFIRMED", "FAILED"}
      [] OTHER                   -> {}

\* The UPDATEs of orders.status carry no condition on the status they replace;
\* even so a status never goes back, none is skipped and a verdict is final.
StatusMovesForward ==
    [][\A o \in DOMAIN orders :
          /\ o \in DOMAIN orders'
          /\ orders'[o].status # orders[o].status =>
                orders'[o].status \in After(orders[o].status)]_sagaVars

----------------------------------------------------------------------------
(* The order lifecycle each saga implements. *)

Refused(o) == \E e \in Rows(invOutbox) : e.type = "InventoryRejected" /\ e.order = o

StatusOf(o) == IF o \in DOMAIN orders THEN orders[o].status ELSE "NONE"

HoldOf(o) ==
    IF o \in DOMAIN reservations THEN IF Held(o) THEN "HELD" ELSE "RETURNED"
    ELSE IF Refused(o) THEN "REFUSED" ELSE "NONE"

ChargeOf(o) ==
    IF o \notin DOMAIN attempts THEN "NONE"
    ELSE IF attempts[o].status = "SUCCEEDED" THEN "CHARGED" ELSE "DECLINED"

Lifecycle == INSTANCE OrderLifecycle WITH
    status <- [o \in OrderIds |-> StatusOf(o)],
    hold   <- [o \in OrderIds |-> HoldOf(o)],
    charge <- [o \in OrderIds |-> ChargeOf(o)]

\* Seen through what an order's row, its reservation and its payment attempt
\* say, every step of the three services is one step of one order's lifecycle,
\* or none: outboxes, redelivery and the other orders do not show.
ImplementsLifecycle == Lifecycle!Spec

=============================================================================
