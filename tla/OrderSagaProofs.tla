-------------------------- MODULE OrderSagaProofs --------------------------
(***************************************************************************)
(* Theorems about OrderSaga, for any set of orders, users, keys, items and *)
(* bodies, any stock and any payment limit.                                *)
(***************************************************************************)
EXTENDS OrderSagaInv, OrderServiceProofs, FiniteSetTheorems

USE DEF EmptyTable, Put

----------------------------------------------------------------------------
(* Types. *)

THEOREM SagaTypeCorrect == Spec => []SagaTypeOK
<1>1. Init => SagaTypeOK
  <2> SUFFICES ASSUME Init PROVE SagaTypeOK
    OBVIOUS
  <2>1. OrderTypeOK /\ PaymentTypeOK
    BY DEF Init, OrderInit, PaymentInit, OrderTypeOK, PaymentTypeOK
  <2>2. InventoryTypeOK
    BY StockAssumption DEF Init, InventoryInit, InventoryTypeOK, ItemRow, Stocked
  <2> QED BY <2>1, <2>2 DEF Init, SagaTypeOK
<1>2. SagaTypeOK /\ [Next]_sagaVars => SagaTypeOK'
  <2> SUFFICES ASSUME SagaTypeOK, [Next]_sagaVars PROVE SagaTypeOK'
    OBVIOUS
  <2> USE DEF SagaTypeOK
  <2>1. CASE CreateOrder
    BY <2>1, IntakeTypes
       DEF CreateOrder, inventoryVars, paymentVars, InventoryTypeOK, PaymentTypeOK
  <2>2. CASE PublishOrders \/ PublishInventory \/ PublishPayments
    <3>1. bus' \subseteq Event
      BY <2>2 DEF PublishOrders, PublishInventory, PublishPayments, Publish, Rows,
         OrderTypeOK, InventoryTypeOK, PaymentTypeOK
    <3> QED BY <2>2, <3>1 DEF PublishOrders, PublishInventory, PublishPayments, Publish,
            OrderTypeOK, InventoryTypeOK, PaymentTypeOK, orderVars, inventoryVars, paymentVars
  <2>3. CASE OrderConsumer
    <3> SUFFICES ASSUME NEW e \in bus, HandleSagaEvent(e) PROVE OrderTypeOK'
      BY <2>3 DEF OrderConsumer, inventoryVars, paymentVars, InventoryTypeOK, PaymentTypeOK
    <3>e. e \in Event
      OBVIOUS
    <3> HIDE DEF SagaTypeOK
    <3>t. OrderTypeOK
      BY DEF SagaTypeOK
    <3> USE EventTypes, <3>e, <3>t DEF OrderTypeOK, SetStatus, OrderMarks, OrderRow, Statuses
    <3>1. CASE HandleInventoryReserved(e)
      <4>1. [id |-> NextId("orders", orderOutbox), type |-> "ProcessPayment", order |-> e.order,
             amount |-> e.amount, currency |-> e.currency] \in Event
        BY <3>1, NextIdType DEF HandleInventoryReserved, Event, PricedEvents, Services
      <4>2. orderOutbox' \in Seq(Event)
        BY <3>1, <4>1 DEF HandleInventoryReserved
      <4> QED BY <3>1, <4>2 DEF HandleInventoryReserved
    <3>2. CASE HandleInventoryRejected(e) \/ HandlePaymentSucceeded(e)
      <4>1. CASE HandleInventoryRejected(e)
        BY <4>1 DEF HandleInventoryRejected
      <4>2. CASE HandlePaymentSucceeded(e)
        BY <4>2 DEF HandlePaymentSucceeded
      <4> QED BY <3>2, <4>1, <4>2
    <3>3. CASE HandlePaymentFailed(e)
      <4>1. [id |-> NextId("orders", orderOutbox), type |-> "ReleaseInventory",
             order |-> e.order] \in Event
        BY NextIdType DEF Event, PlainEvents, Services
      <4>2. orderOutbox' \in Seq(Event)
        BY <3>3, <4>1 DEF HandlePaymentFailed
      <4> QED BY <3>3, <4>2 DEF HandlePaymentFailed
    <3> QED BY <3>1, <3>2, <3>3 DEF HandleSagaEvent
  <2>4. CASE InventoryConsumer
    <3> SUFFICES ASSUME NEW e \in bus, HandleInventoryCommand(e) PROVE InventoryTypeOK'
      BY <2>4 DEF InventoryConsumer, orderVars, paymentVars, OrderTypeOK, PaymentTypeOK
    <3>e. e \in Event
      OBVIOUS
    <3> HIDE DEF SagaTypeOK
    <3>t. InventoryTypeOK
      BY DEF SagaTypeOK
    <3> USE EventTypes, <3>e, <3>t DEF InventoryTypeOK, InventoryMarks
    <3>m. ASSUME NEW s, NEW n \in Int, MoveStock(s, n) PROVE items' \in [Stocked -> ItemRow]
      <4>1. CASE s \in Stocked
        <5>1. [available |-> items[s].available - n, reserved |-> items[s].reserved + n] \in ItemRow
          BY <4>1 DEF ItemRow
        <5> QED BY <3>m, <5>1 DEF MoveStock
      <4>2. CASE s \notin Stocked
        BY <3>m, <4>2 DEF MoveStock
      <4> QED BY <4>1, <4>2
    <3>1. CASE HandleReserve(e)
      <4> USE <3>1 DEF HandleReserve
      <4>1. [id |-> NextId("inventory", invOutbox), type |-> "InventoryReserved",
             order |-> e.order, amount |-> e.body.amount,
             currency |-> e.body.currency] \in Event
        BY NextIdType DEF Event, PricedEvents, Services, Body
      <4>2. invOutbox' \in Seq(Event)
        BY <4>1
      <4>3. items' \in [Stocked -> ItemRow]
        BY <3>m DEF Body
      <4>4. /\ DOMAIN reservations' \subseteq OrderIds
            /\ \A o \in DOMAIN reservations' : reservations'[o] \in ReservationRow
        BY DEF UpsertReservation, ReservationRow, Body
      <4> QED BY <4>2, <4>3, <4>4
    <3>2. CASE HandleReject(e)
      <4>1. [id |-> NextId("inventory", invOutbox), type |-> "InventoryRejected",
             order |-> e.order] \in Event
        BY NextIdType DEF Event, PlainEvents, Services
      <4>2. invOutbox' \in Seq(Event)
        BY <3>2, <4>1 DEF HandleReject
      <4> QED BY <3>2, <4>2 DEF HandleReject
    <3>3. CASE HandleRelease(e)
      <4> USE <3>3 DEF HandleRelease, Held
      <4>1. items' \in [Stocked -> ItemRow]
        BY <3>m DEF ReservationRow
      <4>2. /\ DOMAIN reservations' \subseteq OrderIds
            /\ \A o \in DOMAIN reservations' : reservations'[o] \in ReservationRow
        BY DEF ReservationRow
      <4> QED BY <4>1, <4>2
    <3> QED BY <3>1, <3>2, <3>3 DEF HandleInventoryCommand
  <2>5. CASE PaymentConsumer
    <3> SUFFICES ASSUME NEW e \in bus, HandlePaymentCommand(e) PROVE PaymentTypeOK'
      BY <2>5 DEF PaymentConsumer, orderVars, inventoryVars, OrderTypeOK, InventoryTypeOK
    <3> USE DEF HandlePaymentCommand
    <3>t. e \in Event /\ PaymentTypeOK
      OBVIOUS
    <3> HIDE DEF SagaTypeOK
    <3> USE <3>t, EventTypes DEF PaymentTypeOK
    <3>1. [id |-> NextId("payments", payOutbox),
           type |-> IF Approved(e) THEN "PaymentSucceeded" ELSE "PaymentFailed",
           order |-> e.order] \in Event
      BY NextIdType DEF Event, PlainEvents, Services
    <3>2. payOutbox' \in Seq(Event)
      BY <3>1
    <3>3. /\ DOMAIN attempts' \subseteq OrderIds
          /\ \A o \in DOMAIN attempts' : attempts'[o] \in AttemptRow
      BY StoredCents DEF UpsertAttempt, AttemptRow
    <3> QED BY <3>2, <3>3
  <2>6. CASE UNCHANGED sagaVars
    BY <2>6 DEF sagaVars, OrderTypeOK, InventoryTypeOK, PaymentTypeOK
  <2> QED BY <2>1, <2>2, <2>3, <2>4, <2>5, <2>6 DEF Next
<1> QED BY <1>1, <1>2, PTL DEF Spec


----------------------------------------------------------------------------
(* Events: what the shape of the outboxes says of them. *)

LEMMA RowsOfAppend ==
    ASSUME NEW S, NEW outbox \in Seq(S), NEW f
    PROVE  Rows(Append(outbox, f)) = Rows(outbox) \cup {f}
<1>0. outbox \in Seq(S \cup {f})
  OBVIOUS
<1>1. /\ Append(outbox, f) \in Seq(S \cup {f})
      /\ Len(Append(outbox, f)) = Len(outbox) + 1
      /\ \A i \in 1..Len(outbox) : Append(outbox, f)[i] = outbox[i]
      /\ Append(outbox, f)[Len(outbox) + 1] = f
  BY <1>0
<1>2. DOMAIN Append(outbox, f) = DOMAIN outbox \cup {Len(outbox) + 1}
  BY <1>1
<1> QED BY <1>1, <1>2 DEF Rows

\* Every written event has a type of the saga and comes from one outbox.
LEMMA WrittenEvents ==
    ASSUME SagaTypeOK, OutboxShape, NEW e \in Written
    PROVE  /\ e \in Event
           /\ e \in Rows(orderOutbox) => Stage(e.type) \in {1, 3, 5}
           /\ e \in Rows(invOutbox) => Stage(e.type) = 2
           /\ e \in Rows(payOutbox) => Stage(e.type) = 4
<1>1. e \in Event
  BY DEF SagaTypeOK, OrderTypeOK, InventoryTypeOK, PaymentTypeOK, Written, Rows
<1>2. e \in Rows(orderOutbox) => Stage(e.type) \in {1, 3, 5}
  BY DEF OutboxShape, Rows
<1>3. e \in Rows(invOutbox) => Stage(e.type) = 2
  BY DEF OutboxShape, Rows
<1>4. e \in Rows(payOutbox) => Stage(e.type) = 4
  BY DEF OutboxShape, Rows
<1> QED BY <1>1, <1>2, <1>3, <1>4

\* An event is known by its id.
LEMMA IdsAreUnique ==
    ASSUME SagaTypeOK, OutboxShape, NEW e \in Written, NEW f \in Written, e.id = f.id
    PROVE  e = f
<1>1. /\ \A x \in Rows(orderOutbox) : x.id[1] = "orders" /\ orderOutbox[x.id[2]] = x
      /\ \A x \in Rows(invOutbox) : x.id[1] = "inventory" /\ invOutbox[x.id[2]] = x
      /\ \A x \in Rows(payOutbox) : x.id[1] = "payments" /\ payOutbox[x.id[2]] = x
  BY DEF OutboxShape, Rows
<1> QED BY <1>1 DEF Written

\* The id of the next event is new.
LEMMA NextIdsAreNew ==
    ASSUME SagaTypeOK, OutboxShape, NEW e \in Written
    PROVE  /\ e.id # NextId("orders", orderOutbox)
           /\ e.id # NextId("inventory", invOutbox)
           /\ e.id # NextId("payments", payOutbox)
<1>1. /\ \A x \in Rows(orderOutbox) : x.id[1] = "orders" /\ x.id[2] \in 1..Len(orderOutbox)
      /\ \A x \in Rows(invOutbox) : x.id[1] = "inventory" /\ x.id[2] \in 1..Len(invOutbox)
      /\ \A x \in Rows(payOutbox) : x.id[1] = "payments" /\ x.id[2] \in 1..Len(payOutbox)
  BY DEF OutboxShape, Rows, SagaTypeOK, OrderTypeOK, InventoryTypeOK, PaymentTypeOK
<1>2. /\ NextId("orders", orderOutbox)[1] = "orders"
      /\ NextId("orders", orderOutbox)[2] = Len(orderOutbox) + 1
      /\ NextId("inventory", invOutbox)[1] = "inventory"
      /\ NextId("inventory", invOutbox)[2] = Len(invOutbox) + 1
      /\ NextId("payments", payOutbox)[1] = "payments"
      /\ NextId("payments", payOutbox)[2] = Len(payOutbox) + 1
  BY DEF NextId
<1>3. Len(orderOutbox) \in Nat /\ Len(invOutbox) \in Nat /\ Len(payOutbox) \in Nat
  BY DEF SagaTypeOK, OrderTypeOK, InventoryTypeOK, PaymentTypeOK
<1> QED BY <1>1, <1>2, <1>3 DEF Written

\* processed_events holds no id but those of events that were delivered.
LEMMA ProcessedIsWritten ==
    ASSUME SagaInv, NEW x \in Processed
    PROVE  \E e \in Written : e.id = x
BY DEF SagaInv, ProcessedWasSent, Processed

\* A consumer that has not marked an event is alone in consuming it.
LEMMA UnmarkedIsUnhandled ==
    ASSUME SagaTypeOK, SagaInv, NEW e \in bus
    PROVE  /\ Stage(e.type) \in {2, 4} /\ e.id \notin orderProcessed => ~Handled(e)
           /\ Stage(e.type) \in {1, 5} /\ e.id \notin invProcessed => ~Handled(e)
           /\ Stage(e.type) = 3 /\ e.id \notin payProcessed => ~Handled(e)
<1>1. \A g \in bus : g.id = e.id => g = e
  BY IdsAreUnique DEF SagaInv, ProcessedWasSent
<1>2. e.id \in orderProcessed => Stage(e.type) \in {2, 4}
  BY <1>1 DEF SagaInv, ProcessedWasSent
<1>3. e.id \in invProcessed => Stage(e.type) \in {1, 5}
  BY <1>1 DEF SagaInv, ProcessedWasSent
<1>4. e.id \in payProcessed => Stage(e.type) = 3
  BY <1>1 DEF SagaInv, ProcessedWasSent
<1> QED BY <1>2, <1>3, <1>4 DEF Handled, Processed

\* An unhandled event is the only one of its stage, so that none of its stage
\* has been handled.
LEMMA UnhandledStage ==
    ASSUME SagaInv, NEW e \in Written, ~Handled(e)
    PROVE  /\ e.type \in Sent(e.order)
           /\ \A t \in Sent(e.order) : Stage(t) = Stage(e.type) => t = e.type
           /\ \A t \in Done(e.order) : Stage(t) # Stage(e.type)
BY DEF SagaInv, EachStepOnce, Sent, Done

\* What has been handled had been sent, and each verdict is one or the other.
LEMMA OneVerdict ==
    ASSUME SagaInv, NEW o
    PROVE  /\ Done(o) \subseteq Sent(o)
           /\ \A s, t \in Sent(o) : Stage(s) = Stage(t) => s = t
BY DEF SagaInv, EachStepOnce, Sent, Done

\* The types of the events of each stage.
LEMMA StageTypes ==
    ASSUME SagaTypeOK, SagaInv, NEW o, NEW t \in Sent(o)
    PROVE  /\ Stage(t) = 1 => t = "ReserveInventoryRequested"
           /\ Stage(t) = 2 => t \in {"InventoryReserved", "InventoryRejected"}
           /\ Stage(t) = 3 => t = "ProcessPayment"
           /\ Stage(t) = 4 => t \in {"PaymentSucceeded", "PaymentFailed"}
           /\ Stage(t) = 5 => t = "ReleaseInventory"
<1>1. t \in {"ReserveInventoryRequested", "InventoryReserved", "InventoryRejected",
             "ProcessPayment", "PaymentSucceeded", "PaymentFailed", "ReleaseInventory"}
  BY WrittenEvents DEF Sent, SagaInv, Event, ReserveEvents, PricedEvents, PlainEvents
<1> QED BY <1>1 DEF Stage

----------------------------------------------------------------------------
(* The effect of a step on Sent and Done. *)

LEMMA AnsweringStep ==
    ASSUME SagaTypeOK, SagaInv, NEW e \in bus, NEW f, NEW o,
           \A x \in Written : x.id # f.id,
           Written' = Written \cup {f},
           Processed' = Processed \cup {e.id}
    PROVE  /\ Sent(o)' = IF f.order = o THEN Sent(o) \cup {f.type} ELSE Sent(o)
           /\ Done(o)' = IF e.order = o THEN Done(o) \cup {e.type} ELSE Done(o)
<1>1. e \in Written /\ e.id # f.id /\ f.id \notin Processed
  BY ProcessedIsWritten DEF SagaInv, ProcessedWasSent
<1>2. \A x \in Written : x.id = e.id => x = e
  BY <1>1, IdsAreUnique DEF SagaInv
<1>3. Sent(o)' = IF f.order = o THEN Sent(o) \cup {f.type} ELSE Sent(o)
  BY DEF Sent
<1>4. Done(o)' = IF e.order = o THEN Done(o) \cup {e.type} ELSE Done(o)
  BY <1>1, <1>2 DEF Done, Handled
<1> QED BY <1>3, <1>4

LEMMA SilentStep ==
    ASSUME SagaTypeOK, SagaInv, NEW e \in bus, NEW o,
           Written' = Written,
           Processed' = Processed \cup {e.id}
    PROVE  /\ Sent(o)' = Sent(o)
           /\ Done(o)' = IF e.order = o THEN Done(o) \cup {e.type} ELSE Done(o)
<1>1. e \in Written
  BY DEF SagaInv, ProcessedWasSent
<1>2. \A x \in Written : x.id = e.id => x = e
  BY <1>1, IdsAreUnique DEF SagaInv
<1>3. Done(o)' = IF e.order = o THEN Done(o) \cup {e.type} ELSE Done(o)
  BY <1>1, <1>2 DEF Done, Handled
<1> QED BY <1>3 DEF Sent

LEMMA CreatingStep ==
    ASSUME SagaInv, NEW f, NEW o,
           \A x \in Written : x.id # f.id,
           Written' = Written \cup {f},
           Processed' = Processed
    PROVE  /\ Sent(o)' = IF f.order = o THEN Sent(o) \cup {f.type} ELSE Sent(o)
           /\ Done(o)' = Done(o)
<1>1. f.id \notin Processed
  BY ProcessedIsWritten
<1>2. Sent(o)' = IF f.order = o THEN Sent(o) \cup {f.type} ELSE Sent(o)
  BY DEF Sent
<1>3. Done(o)' = Done(o)
  BY <1>1 DEF Done, Handled
<1> QED BY <1>2, <1>3

----------------------------------------------------------------------------
(* One more row in an outbox. *)

LEMMA OrderRowAdded ==
    ASSUME SagaTypeOK, OutboxShape, NEW f \in Event,
           f.id = NextId("orders", orderOutbox), Stage(f.type) \in {1, 3, 5},
           orderOutbox' = Append(orderOutbox, f), UNCHANGED <<invOutbox, payOutbox>>
    PROVE  OutboxShape' /\ Written' = Written \cup {f} /\ \A x \in Written : x.id # f.id
<1>1. orderOutbox \in Seq(Event)
  BY DEF SagaTypeOK, OrderTypeOK
<1>2. OutboxShape'
  BY <1>1 DEF OutboxShape, NextId
<1>3. Written' = Written \cup {f}
  BY <1>1, RowsOfAppend DEF Written, Rows
<1> QED BY <1>2, <1>3, NextIdsAreNew

LEMMA InventoryRowAdded ==
    ASSUME SagaTypeOK, OutboxShape, NEW f \in Event,
           f.id = NextId("inventory", invOutbox), Stage(f.type) = 2,
           invOutbox' = Append(invOutbox, f), UNCHANGED <<orderOutbox, payOutbox>>
    PROVE  OutboxShape' /\ Written' = Written \cup {f} /\ \A x \in Written : x.id # f.id
<1>1. invOutbox \in Seq(Event)
  BY DEF SagaTypeOK, InventoryTypeOK
<1>2. OutboxShape'
  BY <1>1 DEF OutboxShape, NextId
<1>3. Written' = Written \cup {f}
  BY <1>1, RowsOfAppend DEF Written, Rows
<1> QED BY <1>2, <1>3, NextIdsAreNew

LEMMA PaymentRowAdded ==
    ASSUME SagaTypeOK, OutboxShape, NEW f \in Event,
           f.id = NextId("payments", payOutbox), Stage(f.type) = 4,
           payOutbox' = Append(payOutbox, f), UNCHANGED <<orderOutbox, invOutbox>>
    PROVE  OutboxShape' /\ Written' = Written \cup {f} /\ \A x \in Written : x.id # f.id
<1>1. payOutbox \in Seq(Event)
  BY DEF SagaTypeOK, PaymentTypeOK
<1>2. OutboxShape'
  BY <1>1 DEF OutboxShape, NextId
<1>3. Written' = Written \cup {f}
  BY <1>1, RowsOfAppend DEF Written, Rows
<1> QED BY <1>2, <1>3, NextIdsAreNew

LEMMA StagesStaySingle ==
    ASSUME SagaTypeOK, SagaInv, NEW f, Written' = Written \cup {f},
           \A t \in Sent(f.order) : Stage(t) # Stage(f.type)
    PROVE  EachStepOnce'
BY DEF SagaInv, EachStepOnce, Sent

----------------------------------------------------------------------------
(* SagaInv is inductive: the steps of order-service. *)

LEMMA ReservedStep ==
    ASSUME SagaTypeOK, SagaInv, NEW e \in bus, HandleInventoryReserved(e),
           UNCHANGED <<inventoryVars, paymentVars, bus>>
    PROVE  SagaInv'
<1> DEFINE f == [id |-> NextId("orders", orderOutbox), type |-> "ProcessPayment",
                 order |-> e.order,
                 amount |-> e.amount, currency |-> e.currency]
<1>1. /\ e \in Written /\ e \in Event /\ e.type = "InventoryReserved"
      /\ e.order \in OrderIds /\ ~Handled(e)
  BY UnmarkedIsUnhandled, WrittenEvents, EventTypes
     DEF HandleInventoryReserved, OrderMarks, ShouldProcess, SagaInv, ProcessedWasSent, Stage
<1>2. /\ f \in Event /\ f.type = "ProcessPayment" /\ f.order = e.order
      /\ f.id = NextId("orders", orderOutbox) /\ Stage(f.type) \in {3, 5}
      /\ f.amount = e.amount /\ f.currency = e.currency
  <2>1. NextId("orders", orderOutbox) \in EventId
    BY NextIdType DEF SagaTypeOK, OrderTypeOK, Services
  <2> QED BY <1>1, <2>1, EventTypes DEF Event, PricedEvents, PlainEvents, Stage
<1> HIDE DEF f
<1>3. /\ OutboxShape' /\ Written' = Written \cup {f}
      /\ \A x \in Written : x.id # f.id
  BY <1>2, OrderRowAdded
     DEF f, HandleInventoryReserved, inventoryVars, paymentVars, SagaInv
<1>4. Processed' = Processed \cup {e.id}
  BY DEF HandleInventoryReserved, OrderMarks, Processed, inventoryVars, paymentVars
<1>5. ASSUME NEW o \in OrderIds
      PROVE  /\ Sent(o)' = IF o = e.order THEN Sent(o) \cup {"ProcessPayment"} ELSE Sent(o)
             /\ Done(o)' = IF o = e.order THEN Done(o) \cup {"InventoryReserved"} ELSE Done(o)
  BY <1>1, <1>2, <1>3, <1>4, AnsweringStep
<1>6. ProcessedWasSent'
  BY <1>1, <1>3 DEF SagaInv, ProcessedWasSent, HandleInventoryReserved, OrderMarks,
     inventoryVars, paymentVars, Stage
<1>7. /\ "InventoryReserved" \in Sent(e.order) /\ "InventoryRejected" \notin Sent(e.order)
      /\ "InventoryReserved" \notin Done(e.order)
      /\ Done(e.order) \subseteq Sent(e.order)
  BY <1>1, UnhandledStage, OneVerdict DEF Stage
<1>8. /\ "ReserveInventoryRequested" \in Sent(e.order) /\ e.order \in DOMAIN orders
      /\ "ProcessPayment" \notin Sent(e.order) /\ ~PaymentAnswer(Sent(e.order))
      /\ "ReleaseInventory" \notin Sent(e.order)
  BY <1>1, <1>7, OneVerdict DEF SagaInv, CausalChain, InventoryAnswer, PaymentAnswer, Stage
<1>9. EachStepOnce'
  BY <1>2, <1>3, <1>8, StageTypes, StagesStaySingle DEF Stage
<1>10. CausalChain'
  BY <1>5, <1>7, <1>8 DEF SagaInv, CausalChain, InventoryAnswer, PaymentAnswer,
     HandleInventoryReserved, SetStatus
<1>11. StatusTellsProgress'
  BY <1>5, <1>7, <1>8 DEF SagaInv, StatusTellsProgress, CausalChain, InventoryAnswer,
     PaymentAnswer, HandleInventoryReserved, SetStatus, SagaTypeOK, OrderTypeOK, OrderRow
<1>12. EffectsTellProgress'
  BY <1>5, <1>7, <1>8 DEF SagaInv, EffectsTellProgress, PaymentAnswer, Held,
     inventoryVars, paymentVars
<1>13. /\ OrderHasRequest'
       /\ DOMAIN orders' = DOMAIN orders
       /\ \A o \in DOMAIN orders : /\ orders'[o].body = orders[o].body
                                   /\ orders'[o].total = orders[o].total
  BY DEF HandleInventoryReserved, SetStatus, SagaTypeOK, OrderTypeOK, OrderRow,
     SagaInv, OrderHasRequest, Inserting
<1>14. EventsMatchOrder'
  BY <1>1, <1>2, <1>3, <1>8, <1>13 DEF SagaInv, EventsMatchOrder
<1>15. EffectsMatchOrder'
  BY <1>13 DEF SagaInv, EffectsMatchOrder, Approvable, inventoryVars, paymentVars
<1> QED BY <1>3, <1>6, <1>9, <1>10, <1>11, <1>12, <1>13, <1>14, <1>15 DEF SagaInv

LEMMA RejectedStep ==
    ASSUME SagaTypeOK, SagaInv, NEW e \in bus, HandleInventoryRejected(e),
           UNCHANGED <<inventoryVars, paymentVars, bus>>
    PROVE  SagaInv'
<1>1. /\ e \in Written /\ e \in Event /\ e.type = "InventoryRejected"
      /\ e.order \in OrderIds /\ ~Handled(e)
  BY UnmarkedIsUnhandled, WrittenEvents, EventTypes
     DEF HandleInventoryRejected, OrderMarks, ShouldProcess, SagaInv, ProcessedWasSent, Stage
<1>3. OutboxShape' /\ Written' = Written
  BY DEF HandleInventoryRejected, inventoryVars, paymentVars, SagaInv, OutboxShape, Written, Rows
<1>4. Processed' = Processed \cup {e.id}
  BY DEF HandleInventoryRejected, OrderMarks, Processed, inventoryVars, paymentVars
<1>5. ASSUME NEW o \in OrderIds
      PROVE  /\ Sent(o)' = Sent(o)
             /\ Done(o)' = IF o = e.order THEN Done(o) \cup {"InventoryRejected"} ELSE Done(o)
  BY <1>1, <1>3, <1>4, SilentStep
<1>6. ProcessedWasSent'
  BY <1>1, <1>3 DEF SagaInv, ProcessedWasSent, HandleInventoryRejected, OrderMarks,
     inventoryVars, paymentVars, Stage
<1>7. /\ "InventoryRejected" \in Sent(e.order) /\ "InventoryReserved" \notin Sent(e.order)
      /\ "InventoryRejected" \notin Done(e.order)
      /\ Done(e.order) \subseteq Sent(e.order)
  BY <1>1, UnhandledStage, OneVerdict DEF Stage
<1>8. /\ "ReserveInventoryRequested" \in Sent(e.order) /\ e.order \in DOMAIN orders
      /\ "ProcessPayment" \notin Sent(e.order) /\ ~PaymentAnswer(Sent(e.order))
      /\ "ReleaseInventory" \notin Sent(e.order)
  BY <1>1, <1>7, OneVerdict DEF SagaInv, CausalChain, InventoryAnswer, PaymentAnswer, Stage
<1>9. EachStepOnce'
  BY <1>3 DEF SagaInv, EachStepOnce
<1>10. CausalChain'
  BY <1>5, <1>7, <1>8 DEF SagaInv, CausalChain, InventoryAnswer, PaymentAnswer,
     HandleInventoryRejected, SetStatus
<1>11. StatusTellsProgress'
  BY <1>5, <1>7, <1>8 DEF SagaInv, StatusTellsProgress, CausalChain, InventoryAnswer,
     PaymentAnswer, HandleInventoryRejected, SetStatus, SagaTypeOK, OrderTypeOK, OrderRow
<1>12. EffectsTellProgress'
  BY <1>5, <1>7, <1>8 DEF SagaInv, EffectsTellProgress, PaymentAnswer, Held,
     inventoryVars, paymentVars
<1>13. /\ OrderHasRequest'
       /\ DOMAIN orders' = DOMAIN orders
       /\ \A o \in DOMAIN orders : /\ orders'[o].body = orders[o].body
                                   /\ orders'[o].total = orders[o].total
  BY DEF HandleInventoryRejected, SetStatus, SagaTypeOK, OrderTypeOK, OrderRow,
     SagaInv, OrderHasRequest, Inserting
<1>14. EventsMatchOrder'
  BY <1>3, <1>13 DEF SagaInv, EventsMatchOrder
<1>15. EffectsMatchOrder'
  BY <1>13 DEF SagaInv, EffectsMatchOrder, Approvable, inventoryVars, paymentVars
<1> QED BY <1>3, <1>6, <1>9, <1>10, <1>11, <1>12, <1>13, <1>14, <1>15 DEF SagaInv

LEMMA PaymentSucceededStep ==
    ASSUME SagaTypeOK, SagaInv, NEW e \in bus, HandlePaymentSucceeded(e),
           UNCHANGED <<inventoryVars, paymentVars, bus>>
    PROVE  SagaInv'
<1>1. /\ e \in Written /\ e \in Event /\ e.type = "PaymentSucceeded"
      /\ e.order \in OrderIds /\ ~Handled(e)
  BY UnmarkedIsUnhandled, WrittenEvents, EventTypes
     DEF HandlePaymentSucceeded, OrderMarks, ShouldProcess, SagaInv, ProcessedWasSent, Stage
<1>3. OutboxShape' /\ Written' = Written
  BY DEF HandlePaymentSucceeded, inventoryVars, paymentVars, SagaInv, OutboxShape, Written, Rows
<1>4. Processed' = Processed \cup {e.id}
  BY DEF HandlePaymentSucceeded, OrderMarks, Processed, inventoryVars, paymentVars
<1>5. ASSUME NEW o \in OrderIds
      PROVE  /\ Sent(o)' = Sent(o)
             /\ Done(o)' = IF o = e.order THEN Done(o) \cup {"PaymentSucceeded"} ELSE Done(o)
  BY <1>1, <1>3, <1>4, SilentStep
<1>6. ProcessedWasSent'
  BY <1>1, <1>3 DEF SagaInv, ProcessedWasSent, HandlePaymentSucceeded, OrderMarks,
     inventoryVars, paymentVars, Stage
<1>7. /\ "PaymentSucceeded" \in Sent(e.order) /\ "PaymentFailed" \notin Sent(e.order)
      /\ "PaymentSucceeded" \notin Done(e.order)
      /\ Done(e.order) \subseteq Sent(e.order)
  BY <1>1, UnhandledStage, OneVerdict DEF Stage
<1>8. /\ "ProcessPayment" \in Done(e.order) /\ "InventoryReserved" \in Done(e.order)
      /\ "ReserveInventoryRequested" \in Done(e.order) /\ e.order \in DOMAIN orders
      /\ "InventoryRejected" \notin Sent(e.order) /\ "ReleaseInventory" \notin Sent(e.order)
  BY <1>1, <1>7, OneVerdict DEF SagaInv, CausalChain, InventoryAnswer, PaymentAnswer, Stage
<1>9. EachStepOnce'
  BY <1>3 DEF SagaInv, EachStepOnce
<1>10. CausalChain'
  BY <1>5, <1>7, <1>8 DEF SagaInv, CausalChain, InventoryAnswer, PaymentAnswer,
     HandlePaymentSucceeded, SetStatus
<1>11. StatusTellsProgress'
  BY <1>5, <1>7, <1>8 DEF SagaInv, StatusTellsProgress, CausalChain, InventoryAnswer,
     PaymentAnswer, HandlePaymentSucceeded, SetStatus, SagaTypeOK, OrderTypeOK, OrderRow
<1>12. EffectsTellProgress'
  BY <1>5, <1>7, <1>8 DEF SagaInv, EffectsTellProgress, PaymentAnswer, Held,
     inventoryVars, paymentVars
<1>13. /\ OrderHasRequest'
       /\ DOMAIN orders' = DOMAIN orders
       /\ \A o \in DOMAIN orders : /\ orders'[o].body = orders[o].body
                                   /\ orders'[o].total = orders[o].total
  BY DEF HandlePaymentSucceeded, SetStatus, SagaTypeOK, OrderTypeOK, OrderRow,
     SagaInv, OrderHasRequest, Inserting
<1>14. EventsMatchOrder'
  BY <1>3, <1>13 DEF SagaInv, EventsMatchOrder
<1>15. EffectsMatchOrder'
  BY <1>13 DEF SagaInv, EffectsMatchOrder, Approvable, inventoryVars, paymentVars
<1> QED BY <1>3, <1>6, <1>9, <1>10, <1>11, <1>12, <1>13, <1>14, <1>15 DEF SagaInv

LEMMA PaymentFailedStep ==
    ASSUME SagaTypeOK, SagaInv, NEW e \in bus, HandlePaymentFailed(e),
           UNCHANGED <<inventoryVars, paymentVars, bus>>
    PROVE  SagaInv'
<1> DEFINE f == [id |-> NextId("orders", orderOutbox), type |-> "ReleaseInventory",
                 order |-> e.order]
<1>1. /\ e \in Written /\ e \in Event /\ e.type = "PaymentFailed"
      /\ e.order \in OrderIds /\ ~Handled(e)
  BY UnmarkedIsUnhandled, WrittenEvents, EventTypes
     DEF HandlePaymentFailed, OrderMarks, ShouldProcess, SagaInv, ProcessedWasSent, Stage
<1>2. /\ f \in Event /\ f.type = "ReleaseInventory" /\ f.order = e.order
      /\ f.id = NextId("orders", orderOutbox) /\ Stage(f.type) \in {3, 5}
  <2>1. NextId("orders", orderOutbox) \in EventId
    BY NextIdType DEF SagaTypeOK, OrderTypeOK, Services
  <2> QED BY <1>1, <2>1, EventTypes DEF Event, PricedEvents, PlainEvents, Stage
<1> HIDE DEF f
<1>3. /\ OutboxShape' /\ Written' = Written \cup {f}
      /\ \A x \in Written : x.id # f.id
  BY <1>2, OrderRowAdded
     DEF f, HandlePaymentFailed, inventoryVars, paymentVars, SagaInv
<1>4. Processed' = Processed \cup {e.id}
  BY DEF HandlePaymentFailed, OrderMarks, Processed, inventoryVars, paymentVars
<1>5. ASSUME NEW o \in OrderIds
      PROVE  /\ Sent(o)' = IF o = e.order THEN Sent(o) \cup {"ReleaseInventory"} ELSE Sent(o)
             /\ Done(o)' = IF o = e.order THEN Done(o) \cup {"PaymentFailed"} ELSE Done(o)
  BY <1>1, <1>2, <1>3, <1>4, AnsweringStep
<1>6. ProcessedWasSent'
  BY <1>1, <1>3 DEF SagaInv, ProcessedWasSent, HandlePaymentFailed, OrderMarks,
     inventoryVars, paymentVars, Stage
<1>7. /\ "PaymentFailed" \in Sent(e.order) /\ "PaymentSucceeded" \notin Sent(e.order)
      /\ "PaymentFailed" \notin Done(e.order)
      /\ Done(e.order) \subseteq Sent(e.order)
  BY <1>1, UnhandledStage, OneVerdict DEF Stage
<1>8. /\ "ProcessPayment" \in Done(e.order) /\ "InventoryReserved" \in Done(e.order)
      /\ "ReserveInventoryRequested" \in Done(e.order) /\ e.order \in DOMAIN orders
      /\ "InventoryRejected" \notin Sent(e.order) /\ "ReleaseInventory" \notin Sent(e.order)
  BY <1>1, <1>7, OneVerdict DEF SagaInv, CausalChain, InventoryAnswer, PaymentAnswer, Stage
<1>9. EachStepOnce'
  BY <1>2, <1>3, <1>8, StageTypes, StagesStaySingle DEF Stage
<1>10. CausalChain'
  BY <1>5, <1>7, <1>8 DEF SagaInv, CausalChain, InventoryAnswer, PaymentAnswer,
     HandlePaymentFailed, SetStatus
<1>11. StatusTellsProgress'
  BY <1>5, <1>7, <1>8 DEF SagaInv, StatusTellsProgress, CausalChain, InventoryAnswer,
     PaymentAnswer, HandlePaymentFailed, SetStatus, SagaTypeOK, OrderTypeOK, OrderRow
<1>12. EffectsTellProgress'
  BY <1>5, <1>7, <1>8 DEF SagaInv, EffectsTellProgress, PaymentAnswer, Held,
     inventoryVars, paymentVars
<1>13. /\ OrderHasRequest'
       /\ DOMAIN orders' = DOMAIN orders
       /\ \A o \in DOMAIN orders : /\ orders'[o].body = orders[o].body
                                   /\ orders'[o].total = orders[o].total
  BY DEF HandlePaymentFailed, SetStatus, SagaTypeOK, OrderTypeOK, OrderRow,
     SagaInv, OrderHasRequest, Inserting
<1>14. EventsMatchOrder'
  BY <1>1, <1>2, <1>3, <1>8, <1>13 DEF SagaInv, EventsMatchOrder
<1>15. EffectsMatchOrder'
  BY <1>13 DEF SagaInv, EffectsMatchOrder, Approvable, inventoryVars, paymentVars
<1> QED BY <1>3, <1>6, <1>9, <1>10, <1>11, <1>12, <1>13, <1>14, <1>15 DEF SagaInv

----------------------------------------------------------------------------
(* SagaInv is inductive: the steps of inventory-service. *)

LEMMA ReserveStep ==
    ASSUME SagaTypeOK, SagaInv, NEW e \in bus, HandleReserve(e),
           UNCHANGED <<orderVars, paymentVars, bus>>
    PROVE  SagaInv'
<1> DEFINE f == [id |-> NextId("inventory", invOutbox), type |-> "InventoryReserved",
                 order |-> e.order, amount |-> e.body.amount, currency |-> e.body.currency]
<1>1. /\ e \in Written /\ e \in Event /\ e.type = "ReserveInventoryRequested"
      /\ e.order \in OrderIds /\ e.body \in Body /\ ~Handled(e)
  BY UnmarkedIsUnhandled, WrittenEvents, EventTypes
     DEF HandleReserve, InventoryMarks, ShouldProcess, SagaInv, ProcessedWasSent, Stage
<1>2. /\ f \in Event /\ f.type = "InventoryReserved" /\ f.order = e.order
      /\ f.id = NextId("inventory", invOutbox) /\ Stage(f.type) = 2
      /\ f.amount = e.body.amount /\ f.currency = e.body.currency
  <2>1. NextId("inventory", invOutbox) \in EventId
    BY NextIdType DEF SagaTypeOK, InventoryTypeOK, Services
  <2> QED BY <1>1, <2>1 DEF Event, PricedEvents, Body, Stage
<1> HIDE DEF f
<1>3. /\ OutboxShape' /\ Written' = Written \cup {f}
      /\ \A x \in Written : x.id # f.id
  BY <1>2, InventoryRowAdded DEF f, HandleReserve, orderVars, paymentVars, SagaInv
<1>4. Processed' = Processed \cup {e.id}
  BY DEF HandleReserve, InventoryMarks, Processed, orderVars, paymentVars
<1>5. ASSUME NEW o \in OrderIds
      PROVE  /\ Sent(o)' = IF o = e.order THEN Sent(o) \cup {"InventoryReserved"} ELSE Sent(o)
             /\ Done(o)' = IF o = e.order THEN Done(o) \cup {"ReserveInventoryRequested"} ELSE Done(o)
  BY <1>1, <1>2, <1>3, <1>4, AnsweringStep
<1>6. ProcessedWasSent'
  BY <1>1, <1>3 DEF SagaInv, ProcessedWasSent, HandleReserve, InventoryMarks,
     orderVars, paymentVars, Stage
<1>7. /\ "ReserveInventoryRequested" \in Sent(e.order)
      /\ "ReserveInventoryRequested" \notin Done(e.order)
      /\ Done(e.order) \subseteq Sent(e.order)
  BY <1>1, UnhandledStage, OneVerdict DEF Stage
<1>8. /\ ~InventoryAnswer(Sent(e.order)) /\ "ProcessPayment" \notin Sent(e.order)
      /\ ~PaymentAnswer(Sent(e.order)) /\ "ReleaseInventory" \notin Sent(e.order)
      /\ e.order \in DOMAIN orders /\ e.order \notin DOMAIN reservations
  BY <1>1, <1>7 DEF SagaInv, CausalChain, EffectsTellProgress, InventoryAnswer, PaymentAnswer
<1>9. EachStepOnce'
  BY <1>2, <1>3, <1>8, StageTypes, StagesStaySingle DEF Stage, InventoryAnswer
<1>10. CausalChain'
  BY <1>5, <1>7, <1>8 DEF SagaInv, CausalChain, InventoryAnswer, PaymentAnswer, orderVars
<1>11. StatusTellsProgress'
  BY <1>5, <1>7, <1>8 DEF SagaInv, StatusTellsProgress, PaymentAnswer, orderVars,
     SagaTypeOK, OrderTypeOK
<1>12. reservations' = Put(reservations, e.order, [sku |-> e.body.sku,
                           quantity |-> e.body.quantity, status |-> "RESERVED"])
  BY <1>8 DEF HandleReserve, UpsertReservation
<1>13. EffectsTellProgress'
  BY <1>5, <1>7, <1>8, <1>12 DEF SagaInv, EffectsTellProgress, PaymentAnswer, Held, paymentVars
<1>14. EventsMatchOrder'
  BY <1>1, <1>2, <1>3, <1>8 DEF SagaInv, EventsMatchOrder, orderVars
<1>15. EffectsMatchOrder'
  BY <1>1, <1>8, <1>12 DEF SagaInv, EventsMatchOrder, EffectsMatchOrder, Approvable,
     orderVars, paymentVars
<1>16. OrderHasRequest'
  BY DEF SagaInv, OrderHasRequest, Inserting, orderVars
<1> QED BY <1>3, <1>6, <1>9, <1>10, <1>11, <1>13, <1>14, <1>15, <1>16 DEF SagaInv

LEMMA RejectStep ==
    ASSUME SagaTypeOK, SagaInv, NEW e \in bus, HandleReject(e),
           UNCHANGED <<orderVars, paymentVars, bus>>
    PROVE  SagaInv'
<1> DEFINE f == [id |-> NextId("inventory", invOutbox), type |-> "InventoryRejected",
                 order |-> e.order]
<1>1. /\ e \in Written /\ e \in Event /\ e.type = "ReserveInventoryRequested"
      /\ e.order \in OrderIds /\ ~Handled(e)
  BY UnmarkedIsUnhandled, WrittenEvents, EventTypes
     DEF HandleReject, InventoryMarks, ShouldProcess, SagaInv, ProcessedWasSent, Stage
<1>2. /\ f \in Event /\ f.type = "InventoryRejected" /\ f.order = e.order
      /\ f.id = NextId("inventory", invOutbox) /\ Stage(f.type) = 2
  <2>1. NextId("inventory", invOutbox) \in EventId
    BY NextIdType DEF SagaTypeOK, InventoryTypeOK, Services
  <2> QED BY <1>1, <2>1 DEF Event, PlainEvents, Stage
<1> HIDE DEF f
<1>3. /\ OutboxShape' /\ Written' = Written \cup {f}
      /\ \A x \in Written : x.id # f.id
  BY <1>2, InventoryRowAdded DEF f, HandleReject, orderVars, paymentVars, SagaInv
<1>4. Processed' = Processed \cup {e.id}
  BY DEF HandleReject, InventoryMarks, Processed, orderVars, paymentVars
<1>5. ASSUME NEW o \in OrderIds
      PROVE  /\ Sent(o)' = IF o = e.order THEN Sent(o) \cup {"InventoryRejected"} ELSE Sent(o)
             /\ Done(o)' = IF o = e.order THEN Done(o) \cup {"ReserveInventoryRequested"} ELSE Done(o)
  BY <1>1, <1>2, <1>3, <1>4, AnsweringStep
<1>6. ProcessedWasSent'
  BY <1>1, <1>3 DEF SagaInv, ProcessedWasSent, HandleReject, InventoryMarks,
     orderVars, paymentVars, Stage
<1>7. /\ "ReserveInventoryRequested" \in Sent(e.order)
      /\ "ReserveInventoryRequested" \notin Done(e.order)
      /\ Done(e.order) \subseteq Sent(e.order)
  BY <1>1, UnhandledStage, OneVerdict DEF Stage
<1>8. /\ ~InventoryAnswer(Sent(e.order)) /\ "ProcessPayment" \notin Sent(e.order)
      /\ ~PaymentAnswer(Sent(e.order)) /\ "ReleaseInventory" \notin Sent(e.order)
      /\ e.order \in DOMAIN orders
  BY <1>1, <1>7 DEF SagaInv, CausalChain, InventoryAnswer, PaymentAnswer
<1>9. EachStepOnce'
  BY <1>2, <1>3, <1>8, StageTypes, StagesStaySingle DEF Stage, InventoryAnswer
<1>10. CausalChain'
  BY <1>5, <1>7, <1>8 DEF SagaInv, CausalChain, InventoryAnswer, PaymentAnswer, orderVars
<1>11. StatusTellsProgress'
  BY <1>5, <1>7, <1>8 DEF SagaInv, StatusTellsProgress, PaymentAnswer, orderVars,
     SagaTypeOK, OrderTypeOK
<1>12. EffectsTellProgress'
  BY <1>5, <1>7, <1>8 DEF SagaInv, EffectsTellProgress, PaymentAnswer, Held, paymentVars,
     HandleReject
<1>13. EventsMatchOrder'
  BY <1>1, <1>2, <1>3, <1>8 DEF SagaInv, EventsMatchOrder, orderVars
<1>14. EffectsMatchOrder'
  BY DEF SagaInv, EffectsMatchOrder, Approvable, orderVars, paymentVars, HandleReject
<1>15. OrderHasRequest'
  BY DEF SagaInv, OrderHasRequest, Inserting, orderVars
<1> QED BY <1>3, <1>6, <1>9, <1>10, <1>11, <1>12, <1>13, <1>14, <1>15 DEF SagaInv

LEMMA ReleaseStep ==
    ASSUME SagaTypeOK, SagaInv, NEW e \in bus, HandleRelease(e),
           UNCHANGED <<orderVars, paymentVars, bus>>
    PROVE  SagaInv'
<1>1. /\ e \in Written /\ e \in Event /\ e.type = "ReleaseInventory"
      /\ e.order \in OrderIds /\ ~Handled(e)
  BY UnmarkedIsUnhandled, WrittenEvents, EventTypes
     DEF HandleRelease, InventoryMarks, ShouldProcess, SagaInv, ProcessedWasSent, Stage
<1>2. OutboxShape' /\ Written' = Written
  BY DEF HandleRelease, orderVars, paymentVars, SagaInv, OutboxShape, Written, Rows
<1>3. Processed' = Processed \cup {e.id}
  BY DEF HandleRelease, InventoryMarks, Processed, orderVars, paymentVars
<1>4. ASSUME NEW o \in OrderIds
      PROVE  /\ Sent(o)' = Sent(o)
             /\ Done(o)' = IF o = e.order THEN Done(o) \cup {"ReleaseInventory"} ELSE Done(o)
  BY <1>1, <1>2, <1>3, SilentStep
<1>5. ProcessedWasSent'
  BY <1>1, <1>2 DEF SagaInv, ProcessedWasSent, HandleRelease, InventoryMarks,
     orderVars, paymentVars, Stage
<1>6. /\ "ReleaseInventory" \in Sent(e.order) /\ "ReleaseInventory" \notin Done(e.order)
      /\ Done(e.order) \subseteq Sent(e.order)
  BY <1>1, UnhandledStage, OneVerdict DEF Stage
<1>7. "InventoryReserved" \in Sent(e.order)
  BY <1>1, <1>6 DEF SagaInv, CausalChain, PaymentAnswer
<1>8. e.order \in DOMAIN reservations /\ Held(e.order)
  BY <1>1, <1>6, <1>7 DEF SagaInv, EffectsTellProgress
<1>9. reservations' = [reservations EXCEPT ![e.order].status = "RELEASED"]
  BY <1>8 DEF HandleRelease
<1>10. \A o \in DOMAIN reservations :
          /\ o \in DOMAIN reservations'
          /\ reservations'[o].sku = reservations[o].sku
          /\ reservations'[o].quantity = reservations[o].quantity
          /\ reservations'[o].status = IF o = e.order THEN "RELEASED" ELSE reservations[o].status
  BY <1>9 DEF SagaTypeOK, InventoryTypeOK, ReservationRow
<1>11. DOMAIN reservations' = DOMAIN reservations
  BY <1>9
<1>12. EffectsTellProgress'
  BY <1>4, <1>6, <1>10, <1>11 DEF SagaInv, EffectsTellProgress, PaymentAnswer, Held, paymentVars
<1>13. EffectsMatchOrder'
  BY <1>10, <1>11 DEF SagaInv, EffectsMatchOrder, Approvable, orderVars, paymentVars
<1>14. CausalChain'
  BY <1>4 DEF SagaInv, CausalChain, InventoryAnswer, PaymentAnswer, orderVars
<1>15. StatusTellsProgress'
  BY <1>4 DEF SagaInv, StatusTellsProgress, PaymentAnswer, orderVars, SagaTypeOK, OrderTypeOK
<1>16. EachStepOnce' /\ EventsMatchOrder' /\ OrderHasRequest'
  BY <1>2 DEF SagaInv, EachStepOnce, EventsMatchOrder, OrderHasRequest, Inserting, orderVars
<1> QED BY <1>2, <1>5, <1>12, <1>13, <1>14, <1>15, <1>16 DEF SagaInv

----------------------------------------------------------------------------
(* SagaInv is inductive: the step of payment-service. *)

LEMMA PaymentStep ==
    ASSUME SagaTypeOK, SagaInv, NEW e \in bus, HandlePaymentCommand(e),
           UNCHANGED <<orderVars, inventoryVars, bus>>
    PROVE  SagaInv'
<1> DEFINE verdict == IF Approved(e) THEN "PaymentSucceeded" ELSE "PaymentFailed"
           f == [id |-> NextId("payments", payOutbox), type |-> verdict, order |-> e.order]
<1>1. /\ e \in Written /\ e \in Event /\ e.type = "ProcessPayment"
      /\ e.order \in OrderIds /\ ~Handled(e)
  BY UnmarkedIsUnhandled, WrittenEvents, EventTypes
     DEF HandlePaymentCommand, ShouldProcess, SagaInv, ProcessedWasSent, Stage
<1>v. verdict \in {"PaymentSucceeded", "PaymentFailed"} /\ Stage(verdict) = 4
  BY DEF Stage
<1>2. /\ f \in Event /\ f.type = verdict /\ f.order = e.order
      /\ f.id = NextId("payments", payOutbox) /\ Stage(f.type) = 4
  <2>1. NextId("payments", payOutbox) \in EventId
    BY NextIdType DEF SagaTypeOK, PaymentTypeOK, Services
  <2> QED BY <1>1, <1>v, <2>1 DEF Event, PlainEvents
<1> HIDE DEF f
<1>3. /\ OutboxShape' /\ Written' = Written \cup {f}
      /\ \A x \in Written : x.id # f.id
  BY <1>2, PaymentRowAdded DEF f, HandlePaymentCommand, orderVars, inventoryVars, SagaInv
<1>s. Approved(e) <=> verdict = "PaymentSucceeded"
  OBVIOUS
<1> HIDE DEF verdict
<1>4. Processed' = Processed \cup {e.id}
  BY DEF HandlePaymentCommand, Processed, orderVars, inventoryVars
<1>5. ASSUME NEW o \in OrderIds
      PROVE  /\ Sent(o)' = IF o = e.order THEN Sent(o) \cup {verdict} ELSE Sent(o)
             /\ Done(o)' = IF o = e.order THEN Done(o) \cup {"ProcessPayment"} ELSE Done(o)
  BY <1>1, <1>2, <1>3, <1>4, AnsweringStep
<1>6. ProcessedWasSent'
  BY <1>1, <1>3 DEF SagaInv, ProcessedWasSent, HandlePaymentCommand,
     orderVars, inventoryVars, Stage
<1>7. /\ "ProcessPayment" \in Sent(e.order) /\ "ProcessPayment" \notin Done(e.order)
      /\ Done(e.order) \subseteq Sent(e.order)
  BY <1>1, UnhandledStage, OneVerdict DEF Stage
<1>8. /\ ~PaymentAnswer(Sent(e.order)) /\ "ReleaseInventory" \notin Sent(e.order)
      /\ e.order \in DOMAIN orders /\ e.order \notin DOMAIN attempts
      /\ "InventoryReserved" \in Done(e.order)
  BY <1>1, <1>7 DEF SagaInv, CausalChain, EffectsTellProgress, EventsMatchOrder, PaymentAnswer
<1>9. EachStepOnce'
  BY <1>2, <1>3, <1>8, StageTypes, StagesStaySingle DEF PaymentAnswer
<1>10. CausalChain'
  BY <1>5, <1>7, <1>8, <1>v DEF SagaInv, CausalChain, InventoryAnswer, PaymentAnswer, orderVars
<1>11. StatusTellsProgress'
  BY <1>5, <1>7, <1>8, <1>v DEF SagaInv, StatusTellsProgress, PaymentAnswer, orderVars,
     SagaTypeOK, OrderTypeOK
<1>12. attempts' = Put(attempts, e.order,
                       [amount |-> Stored(e.amount), currency |-> e.currency,
                        status |-> IF Approved(e) THEN "SUCCEEDED" ELSE "FAILED"])
  BY <1>8 DEF HandlePaymentCommand, UpsertAttempt
<1>13. EffectsTellProgress'
  BY <1>5, <1>7, <1>8, <1>v, <1>s, <1>12 DEF SagaInv, EffectsTellProgress, PaymentAnswer,
     Held, inventoryVars
<1>14. EventsMatchOrder'
  BY <1>1, <1>2, <1>3, <1>8, <1>v DEF SagaInv, EventsMatchOrder, orderVars
<1>a. /\ e.amount = orders[e.order].body.amount /\ e.currency = orders[e.order].body.currency
      /\ Stored(e.amount) = orders[e.order].total
  BY <1>1, <1>8 DEF SagaInv, EventsMatchOrder
<1>p. Approved(e) => Stored(e.amount) <= PaymentLimit
  BY <1>1, EventTypes, StoredCents, LimitAssumption DEF Approved
<1>15. EffectsMatchOrder'
  BY <1>8, <1>12, <1>a, <1>p DEF SagaInv, EffectsMatchOrder, Approvable, Approved,
     orderVars, inventoryVars
<1>16. OrderHasRequest'
  BY DEF SagaInv, OrderHasRequest, Inserting, orderVars
<1> QED BY <1>3, <1>6, <1>9, <1>10, <1>11, <1>13, <1>14, <1>15, <1>16 DEF SagaInv

----------------------------------------------------------------------------
(* SagaInv is inductive: the other steps. *)

LEMMA InsertStep ==
    ASSUME SagaTypeOK, SagaInv, NEW r \in OrderIds, InsertOrder(r),
           UNCHANGED <<inventoryVars, paymentVars, bus>>
    PROVE  SagaInv'
<1> DEFINE f == [id |-> NextId("orders", orderOutbox), type |-> "ReserveInventoryRequested",
                 order |-> r, body |-> NewOrder(r).body]
<1>1. r \in DOMAIN requests /\ r \notin DOMAIN orders
  BY DEF InsertOrder, SagaInv, OrderHasRequest, Inserting
<1>2. /\ f \in Event /\ f.type = "ReserveInventoryRequested" /\ f.order = r
      /\ f.id = NextId("orders", orderOutbox) /\ Stage(f.type) = 1
      /\ f.body = NewOrder(r).body
  <2>1. NextId("orders", orderOutbox) \in EventId
    BY NextIdType DEF SagaTypeOK, OrderTypeOK, Services
  <2>2. NewOrder(r).body \in Body
    BY <1>1, NormaliseType DEF NewOrder, SagaTypeOK, OrderTypeOK, RequestRow
  <2> QED BY <2>1, <2>2 DEF Event, ReserveEvents, Stage
<1> HIDE DEF f
<1>3. /\ OutboxShape' /\ Written' = Written \cup {f}
      /\ \A x \in Written : x.id # f.id
  BY <1>2, OrderRowAdded DEF f, InsertOrder, inventoryVars, paymentVars, SagaInv
<1>4. Processed' = Processed
  BY DEF InsertOrder, Processed, inventoryVars, paymentVars
<1>5. ASSUME NEW o \in OrderIds
      PROVE  /\ Sent(o)' = IF o = r THEN Sent(o) \cup {"ReserveInventoryRequested"} ELSE Sent(o)
             /\ Done(o)' = Done(o)
  BY <1>2, <1>3, <1>4, CreatingStep
<1>6. ProcessedWasSent'
  BY <1>3 DEF SagaInv, ProcessedWasSent, InsertOrder, inventoryVars, paymentVars
<1>7. Sent(r) = {} /\ Done(r) = {}
  BY <1>1 DEF SagaInv, EventsMatchOrder, Sent, Done
<1>8. orders' = Put(orders, r, NewOrder(r)) /\ NewOrder(r).status = "PENDING_INVENTORY"
  BY DEF InsertOrder, NewOrder
<1>9. EachStepOnce'
  BY <1>2, <1>3, <1>7, StagesStaySingle
<1>10. CausalChain'
  BY <1>5, <1>7, <1>8 DEF SagaInv, CausalChain, InventoryAnswer, PaymentAnswer
<1>11. StatusTellsProgress'
  BY <1>5, <1>7, <1>8 DEF SagaInv, StatusTellsProgress, PaymentAnswer, SagaTypeOK, OrderTypeOK
<1>12. EffectsTellProgress'
  BY <1>5, <1>7 DEF SagaInv, EffectsTellProgress, PaymentAnswer, Held, inventoryVars, paymentVars
<1>13. EventsMatchOrder'
  <2>1. NewOrder(r).total = Stored(NewOrder(r).body.amount)
    BY <1>1 DEF NewOrder, Normalise, SagaTypeOK, OrderTypeOK, RequestRow, Body
  <2> QED BY <1>1, <1>2, <1>3, <1>8, <2>1 DEF SagaInv, EventsMatchOrder
<1>14. EffectsMatchOrder'
  BY <1>1, <1>8 DEF SagaInv, EffectsMatchOrder, Approvable, inventoryVars, paymentVars
<1>15. OrderHasRequest'
  <2>1. PICK outcome \in {"created", "aborted"} :
           requests' = [requests EXCEPT ![r].outcome = outcome]
    BY DEF InsertOrder
  <2>2. /\ DOMAIN requests' = DOMAIN requests
        /\ \A x \in DOMAIN requests : x # r => requests'[x] = requests[x]
        /\ requests'[r].outcome = outcome
    BY <1>1, <2>1 DEF SagaTypeOK, OrderTypeOK, RequestRow
  <2> QED BY <1>1, <1>8, <2>2 DEF SagaInv, OrderHasRequest, Inserting
<1> QED BY <1>3, <1>6, <1>9, <1>10, <1>11, <1>12, <1>13, <1>14, <1>15 DEF SagaInv

\* A step that leaves the outboxes, the processed events, the orders and their
\* effects alone.
LEMMA OtherStep ==
    ASSUME SagaTypeOK, SagaInv, OrderHasRequest', ProcessedWasSent',
           UNCHANGED <<orders, orderOutbox, orderProcessed, inventoryVars, paymentVars>>
    PROVE  SagaInv'
<1>1. Written' = Written /\ Processed' = Processed
  BY DEF Written, Rows, Processed, inventoryVars, paymentVars
<1>2. ASSUME NEW o \in OrderIds PROVE Sent(o)' = Sent(o) /\ Done(o)' = Done(o)
  BY <1>1 DEF Sent, Done, Handled
<1>3. OutboxShape'
  BY DEF SagaInv, OutboxShape, inventoryVars, paymentVars
<1>4. EachStepOnce' /\ EventsMatchOrder'
  BY <1>1 DEF SagaInv, EachStepOnce, EventsMatchOrder
<1>5. CausalChain'
  BY <1>2 DEF SagaInv, CausalChain, InventoryAnswer, PaymentAnswer
<1>6. StatusTellsProgress'
  <2>1. \A o \in DOMAIN orders : o \in OrderIds
    BY DEF SagaTypeOK, OrderTypeOK
  <2> QED BY <1>2, <2>1 DEF SagaInv, StatusTellsProgress, PaymentAnswer
<1>7. EffectsTellProgress'
  BY <1>2 DEF SagaInv, EffectsTellProgress, PaymentAnswer, Held, inventoryVars, paymentVars
<1>8. EffectsMatchOrder'
  BY DEF SagaInv, EffectsMatchOrder, Approvable, inventoryVars, paymentVars
<1> QED BY <1>3, <1>4, <1>5, <1>6, <1>7, <1>8 DEF SagaInv

\* Every reachable state satisfies the invariant the other theorems rest on.
THEOREM SagaInvariant == Spec => []SagaInv
<1>1. Init => SagaInv
  <2> SUFFICES ASSUME Init PROVE SagaInv
    OBVIOUS
  <2> USE DEF Init, OrderInit, InventoryInit, PaymentInit
  <2>1. Written = {} /\ Processed = {}
    BY DEF Written, Rows, Processed
  <2>2. ASSUME NEW o PROVE Sent(o) = {} /\ Done(o) = {}
    BY <2>1 DEF Sent, Done
  <2>3. OutboxShape
    BY DEF OutboxShape
  <2>4. ProcessedWasSent
    BY DEF ProcessedWasSent
  <2>5. OrderHasRequest /\ StatusTellsProgress
    BY DEF OrderHasRequest, StatusTellsProgress
  <2>6. EachStepOnce /\ EventsMatchOrder
    BY <2>1 DEF EachStepOnce, EventsMatchOrder
  <2>7. CausalChain
    BY <2>2 DEF CausalChain, InventoryAnswer, PaymentAnswer
  <2>8. EffectsTellProgress
    BY <2>2 DEF EffectsTellProgress, PaymentAnswer
  <2>9. EffectsMatchOrder
    BY DEF EffectsMatchOrder
  <2> QED BY <2>3, <2>4, <2>5, <2>6, <2>7, <2>8, <2>9 DEF SagaInv
<1>2. SagaTypeOK /\ SagaInv /\ [Next]_sagaVars => SagaInv'
  <2> SUFFICES ASSUME SagaTypeOK, SagaInv, [Next]_sagaVars PROVE SagaInv'
    OBVIOUS
  <2>1. CASE CreateOrder
    <3> SUFFICES ASSUME NEW r \in OrderIds,
                        Lookup(r) \/ InsertOrder(r) \/ InsertRefused(r) \/ Abort(r),
                        UNCHANGED <<inventoryVars, paymentVars, bus>>
                 PROVE  SagaInv'
      BY <2>1 DEF CreateOrder, Intake
    <3>1. CASE InsertOrder(r)
      BY <3>1, InsertStep
    <3>2. CASE Lookup(r) \/ InsertRefused(r) \/ Abort(r)
      <4>1. UNCHANGED <<orders, orderOutbox, orderProcessed>>
        BY <3>2 DEF Lookup, InsertRefused, Abort
      <4>2. ProcessedWasSent'
        BY <4>1 DEF SagaInv, ProcessedWasSent, Written, Rows, inventoryVars, paymentVars
      <4>3. CASE Lookup(r)
        <5>1. r \notin DOMAIN orders
          BY <4>3 DEF Lookup, SagaInv, OrderHasRequest
        <5>2. \A o \in DOMAIN requests : o \in DOMAIN requests' /\ requests'[o] = requests[o]
          BY <4>3 DEF Lookup, Answered
        <5>3. OrderHasRequest'
          BY <4>1, <5>2 DEF SagaInv, OrderHasRequest, Inserting
        <5> QED BY <4>1, <4>2, <5>3, OtherStep
      <4>4. CASE InsertRefused(r) \/ Abort(r)
        <5>1. /\ r \in DOMAIN requests /\ DOMAIN requests' = DOMAIN requests
              /\ \A o \in DOMAIN requests : o # r => requests'[o] = requests[o]
              /\ requests'[r].outcome # "inserting"
          BY <4>4 DEF InsertRefused, Abort, Inserting, SagaTypeOK, OrderTypeOK, RequestRow
        <5>2. OrderHasRequest'
          BY <4>1, <5>1 DEF SagaInv, OrderHasRequest, Inserting
        <5> QED BY <4>1, <4>2, <5>2, OtherStep
      <4> QED BY <3>2, <4>3, <4>4
    <3> QED BY <3>1, <3>2
  <2>2. CASE PublishOrders \/ PublishInventory \/ PublishPayments
    <3>1. /\ UNCHANGED <<orderVars, inventoryVars, paymentVars>>
          /\ bus \subseteq bus' /\ bus' \subseteq bus \cup Written
      BY <2>2 DEF PublishOrders, PublishInventory, PublishPayments, Publish, Written
    <3>2. ProcessedWasSent'
      BY <3>1 DEF SagaInv, ProcessedWasSent, Written, Rows, orderVars, inventoryVars, paymentVars
    <3>3. OrderHasRequest'
      BY <3>1 DEF SagaInv, OrderHasRequest, Inserting, orderVars
    <3> QED BY <3>1, <3>2, <3>3, OtherStep DEF orderVars
  <2>3. CASE OrderConsumer
    BY <2>3, ReservedStep, RejectedStep, PaymentSucceededStep, PaymentFailedStep
       DEF OrderConsumer, HandleSagaEvent
  <2>4. CASE InventoryConsumer
    BY <2>4, ReserveStep, RejectStep, ReleaseStep DEF InventoryConsumer, HandleInventoryCommand
  <2>5. CASE PaymentConsumer
    BY <2>5, PaymentStep DEF PaymentConsumer
  <2>6. CASE UNCHANGED sagaVars
    <3>1. ProcessedWasSent' /\ OrderHasRequest'
      BY <2>6 DEF sagaVars, SagaInv, ProcessedWasSent, OrderHasRequest, Inserting, Written, Rows
    <3> QED BY <2>6, <3>1, OtherStep DEF sagaVars, inventoryVars, paymentVars
  <2> QED BY <2>1, <2>2, <2>3, <2>4, <2>5, <2>6 DEF Next
<1> QED BY <1>1, <1>2, SagaTypeCorrect, PTL DEF Spec

----------------------------------------------------------------------------
(* What follows from the invariant. *)

\* However often and in whatever order Kafka delivers, an order has one event
\* for each step of its saga.
THEOREM SagaStepsOnce == Spec => []EachStepOnce
<1>1. SagaInv => EachStepOnce
  BY DEF SagaInv
<1> QED BY <1>1, SagaInvariant, PTL

\* Reservations and payments are for what the order's row says, in cents; the
\* payment is decided on the amount before it was rounded.
THEOREM SagaEffectsMatch == Spec => []EffectsMatchOrder
<1>1. SagaInv => EffectsMatchOrder
  BY DEF SagaInv
<1> QED BY <1>1, SagaInvariant, PTL

\* The verdict on an order agrees with its stock and its payment.
THEOREM SagaVerdicts == Spec => []VerdictMatchesEffects
<1>1. SagaTypeOK /\ SagaInv => VerdictMatchesEffects
  <2> SUFFICES ASSUME SagaTypeOK, SagaInv PROVE VerdictMatchesEffects
    OBVIOUS
  <2>o. \A o \in DOMAIN orders : o \in OrderIds
    BY DEF SagaTypeOK, OrderTypeOK
  <2>d. ASSUME NEW o \in OrderIds
        PROVE  /\ "PaymentFailed" \in Done(o) => "PaymentSucceeded" \notin Sent(o)
               /\ "PaymentSucceeded" \in Done(o) => "PaymentFailed" \notin Sent(o)
               /\ "InventoryRejected" \in Done(o) => "InventoryReserved" \notin Sent(o)
               /\ Done(o) \subseteq Sent(o)
    BY OneVerdict DEF Stage
  <2>1. ASSUME NEW o \in WithStatus("CONFIRMED")
        PROVE  Held(o) /\ o \in DOMAIN attempts /\ attempts[o].status = "SUCCEEDED"
    <3>1. o \in OrderIds /\ "PaymentSucceeded" \in Done(o)
      BY <2>o DEF WithStatus, SagaInv, StatusTellsProgress
    <3>2. "InventoryReserved" \in Done(o) /\ "ReleaseInventory" \notin Sent(o)
      BY <2>d, <3>1 DEF SagaInv, CausalChain, PaymentAnswer
    <3> QED BY <2>d, <3>1, <3>2 DEF SagaInv, EffectsTellProgress, PaymentAnswer
  <2>2. ASSUME NEW o \in WithStatus("FAILED"), o \in DOMAIN attempts
        PROVE  attempts[o].status = "FAILED"
    <3>1. o \in OrderIds /\ ("InventoryRejected" \in Done(o) \/ "PaymentFailed" \in Done(o))
      BY <2>o DEF WithStatus, SagaInv, StatusTellsProgress
    <3>2. "PaymentSucceeded" \notin Sent(o)
      BY <2>d, <3>1 DEF SagaInv, CausalChain, PaymentAnswer
    <3> QED BY <2>2, <3>1, <3>2 DEF SagaInv, EffectsTellProgress, SagaTypeOK, PaymentTypeOK, AttemptRow
  <2>3. ASSUME NEW o \in DOMAIN reservations \ WithStatus("FAILED") PROVE Held(o)
    <3>1. o \in OrderIds /\ o \in DOMAIN orders /\ orders[o].status # "FAILED"
      BY <2>3 DEF WithStatus, SagaTypeOK, InventoryTypeOK, SagaInv, EffectsMatchOrder
    <3>2. "ReleaseInventory" \notin Done(o)
      BY <2>d, <3>1 DEF SagaInv, StatusTellsProgress, CausalChain
    <3> QED BY <3>1, <3>2 DEF SagaInv, EffectsTellProgress
  <2> QED BY <2>1, <2>2, <2>3 DEF VerdictMatchesEffects
<1> QED BY <1>1, SagaTypeCorrect, SagaInvariant, PTL

\* No order is promised stock that another has, whatever the quantities.
THEOREM SagaStock == Spec => []StockConserved
<1>1. Init => StockConserved
  BY StockAssumption DEF Init, InventoryInit, StockConserved, Stocked
<1>2. SagaTypeOK /\ StockConserved /\ [Next]_sagaVars => StockConserved'
  <2> SUFFICES ASSUME SagaTypeOK, StockConserved, [Next]_sagaVars PROVE StockConserved'
    OBVIOUS
  <2>t. /\ items \in [Stocked -> ItemRow]
        /\ \A s \in Stocked : items[s].available \in Int /\ items[s].reserved \in Int
        /\ \A s \in Stocked : InitialStock[s] \in Nat
    BY StockAssumption DEF SagaTypeOK, InventoryTypeOK, ItemRow, Stocked
  <2>m. ASSUME NEW s, NEW n \in Int, MoveStock(s, n), s \in Stocked => n <= items[s].available
        PROVE  StockConserved'
    BY <2>t, <2>m DEF MoveStock, StockConserved
  <2>1. CASE UNCHANGED items
    BY <2>1 DEF StockConserved
  <2>2. CASE InventoryConsumer
    <3> SUFFICES ASSUME NEW e \in bus, HandleInventoryCommand(e) PROVE StockConserved'
      BY <2>2 DEF InventoryConsumer
    <3>e. e \in Event
      BY DEF SagaTypeOK
    <3>1. CASE HandleReserve(e)
      <4>1. e.body.quantity \in Int /\ e.body.quantity <= items[e.body.sku].available
        BY <3>1, <3>e, <2>t, EventTypes DEF HandleReserve, InStock, Body
      <4> QED BY <3>1, <4>1, <2>m DEF HandleReserve
    <3>2. CASE HandleReject(e)
      BY <3>2, <2>1 DEF HandleReject
    <3>3. CASE HandleRelease(e) /\ Held(e.order)
      <4> DEFINE s == reservations[e.order].sku
                 n == reservations[e.order].quantity
      <4>1. n \in Nat /\ -n \in Int /\ MoveStock(s, -n)
        BY <3>3 DEF HandleRelease, Held, SagaTypeOK, InventoryTypeOK, ReservationRow
      <4>2. s \in Stocked => -n <= items[s].available
        BY <4>1, <2>t DEF StockConserved
      <4> QED BY <4>1, <4>2, <2>m
    <3>4. CASE HandleRelease(e) /\ ~Held(e.order)
      BY <3>4, <2>1 DEF HandleRelease
    <3> QED BY <3>1, <3>2, <3>3, <3>4 DEF HandleInventoryCommand
  <2> QED BY <2>1, <2>2 DEF Next, CreateOrder, PublishOrders, PublishInventory, PublishPayments,
          Publish, OrderConsumer, PaymentConsumer, inventoryVars, sagaVars
<1> QED BY <1>1, <1>2, SagaTypeCorrect, PTL DEF Spec

\* What SagaInv says of the order of an event that has not been handled.
LEMMA StatusBefore ==
    ASSUME SagaTypeOK, SagaInv, NEW e \in bus, ~Handled(e)
    PROVE  /\ e \in Written /\ e.order \in OrderIds /\ e.order \in DOMAIN orders
           /\ e.type \in {"InventoryReserved", "InventoryRejected"} =>
                 orders[e.order].status = "PENDING_INVENTORY"
           /\ e.type \in {"ProcessPayment", "PaymentSucceeded", "PaymentFailed"} =>
                 orders[e.order].status = "PENDING_PAYMENT"
           /\ e.type = "ReserveInventoryRequested" =>
                 orders[e.order].status = "PENDING_INVENTORY"
           /\ e.type = "ReleaseInventory" => orders[e.order].status = "FAILED"
<1>1. e \in Written /\ e.order \in OrderIds /\ e.order \in DOMAIN orders
  BY WrittenEvents, EventTypes DEF SagaInv, ProcessedWasSent, EventsMatchOrder
<1>2. orders[e.order].status \in Statuses
  BY <1>1 DEF SagaTypeOK, OrderTypeOK, OrderRow
<1>3. /\ e.type \in Sent(e.order) /\ e.type \notin Done(e.order)
      /\ \A t \in Done(e.order) : Stage(t) # Stage(e.type)
      /\ Done(e.order) \subseteq Sent(e.order)
      /\ \A s, t \in Sent(e.order) : Stage(s) = Stage(t) => s = t
  BY <1>1, UnhandledStage, OneVerdict
<1>4. CASE e.type \in {"InventoryReserved", "InventoryRejected"}
  <2>1. ~InventoryAnswer(Done(e.order)) /\ ~PaymentAnswer(Done(e.order))
    BY <1>1, <1>3, <1>4 DEF SagaInv, CausalChain, InventoryAnswer, PaymentAnswer, Stage
  <2> QED BY <1>1, <1>2, <1>4, <2>1 DEF SagaInv, StatusTellsProgress, InventoryAnswer,
          PaymentAnswer, Statuses
<1>5. CASE e.type \in {"ProcessPayment", "PaymentSucceeded", "PaymentFailed"}
  <2>1. ~PaymentAnswer(Done(e.order)) /\ "InventoryReserved" \in Done(e.order)
    BY <1>1, <1>3, <1>5 DEF SagaInv, CausalChain, PaymentAnswer, Stage
  <2> QED BY <1>1, <1>5, <2>1 DEF SagaInv, StatusTellsProgress
<1>6. CASE e.type = "ReserveInventoryRequested"
  <2>1. ~InventoryAnswer(Done(e.order)) /\ ~PaymentAnswer(Done(e.order))
    BY <1>1, <1>3, <1>6 DEF SagaInv, CausalChain, InventoryAnswer, PaymentAnswer
  <2> QED BY <1>1, <1>2, <1>6, <2>1 DEF SagaInv, StatusTellsProgress, InventoryAnswer,
          PaymentAnswer, Statuses
<1>7. CASE e.type = "ReleaseInventory"
  BY <1>1, <1>3, <1>7 DEF SagaInv, CausalChain, StatusTellsProgress
<1> QED BY <1>1, <1>4, <1>5, <1>6, <1>7

\* Unconditional UPDATEs and all, a status only ever moves forward.
THEOREM SagaStatusForward == Spec => StatusMovesForward
<1> DEFINE Forward == \A o \in DOMAIN orders :
              /\ o \in DOMAIN orders'
              /\ orders'[o].status # orders[o].status =>
                    orders'[o].status \in After(orders[o].status)
<1>1. SagaTypeOK /\ SagaInv /\ [Next]_sagaVars => [Forward]_sagaVars
  <2> SUFFICES ASSUME SagaTypeOK, SagaInv, Next PROVE Forward
    OBVIOUS
  <2>s. ASSUME NEW o \in DOMAIN orders, NEW to, SetStatus(o, to), to \in After(orders[o].status)
        PROVE  Forward
    BY <2>s DEF SetStatus, SagaTypeOK, OrderTypeOK, OrderRow
  <2>1. CASE OrderConsumer
    <3> SUFFICES ASSUME NEW e \in bus, HandleSagaEvent(e) PROVE Forward
      BY <2>1 DEF OrderConsumer
    <3>1. ~Handled(e)
      BY UnmarkedIsUnhandled DEF HandleSagaEvent, HandleInventoryReserved,
         HandleInventoryRejected, HandlePaymentSucceeded, HandlePaymentFailed, OrderMarks,
         ShouldProcess, Stage
    <3>2. CASE HandleInventoryReserved(e)
      BY <3>1, <3>2, <2>s, StatusBefore DEF HandleInventoryReserved, After
    <3>3. CASE HandleInventoryRejected(e)
      BY <3>1, <3>3, <2>s, StatusBefore DEF HandleInventoryRejected, After
    <3>4. CASE HandlePaymentSucceeded(e)
      BY <3>1, <3>4, <2>s, StatusBefore DEF HandlePaymentSucceeded, After
    <3>5. CASE HandlePaymentFailed(e)
      BY <3>1, <3>5, <2>s, StatusBefore DEF HandlePaymentFailed, After
    <3> QED BY <3>2, <3>3, <3>4, <3>5 DEF HandleSagaEvent
  <2>2. CASE CreateOrder
    <3> SUFFICES ASSUME NEW r \in OrderIds, InsertOrder(r) \/ UNCHANGED orders PROVE Forward
      BY <2>2 DEF CreateOrder, Intake, Lookup, InsertRefused, Abort
    <3>1. CASE InsertOrder(r)
      BY <3>1 DEF InsertOrder, SagaInv, OrderHasRequest
    <3> QED BY <3>1
  <2>3. CASE PublishOrders \/ PublishInventory \/ PublishPayments \/ InventoryConsumer \/ PaymentConsumer
    BY <2>3 DEF PublishOrders, PublishInventory, PublishPayments, Publish, InventoryConsumer,
       PaymentConsumer, orderVars
  <2> QED BY <2>1, <2>2, <2>3 DEF Next
<1> QED BY <1>1, SagaTypeCorrect, SagaInvariant, PTL DEF Spec, StatusMovesForward

\* The promises of order creation hold while the saga changes the orders.
THEOREM SagaIntake == Spec => [](OneOrderPerKey /\ AnswersNameTheOrder /\ ConflictIsReal)
<1>1. Init => IntakeInv
  BY DEF Init, OrderInit, IntakeInv, OrderHasRequest, StoredNormalised, OneOrderPerKey,
     AnswersNameTheOrder, ConflictIsReal
<1>2. SagaTypeOK /\ IntakeInv /\ [Next]_sagaVars => IntakeInv'
  <2> SUFFICES ASSUME SagaTypeOK, IntakeInv, [Next]_sagaVars PROVE IntakeInv'
    OBVIOUS
  <2>t. OrderTypeOK
    BY DEF SagaTypeOK
  <2>1. CASE CreateOrder
    BY <2>1, <2>t, LookupStep, InsertOrderStep, UnansweredStep DEF CreateOrder, Intake
  <2>2. CASE OrderConsumer
    <3>1. PICK o, s : SetStatus(o, s) /\ UNCHANGED requests
      BY <2>2 DEF OrderConsumer, HandleSagaEvent, HandleInventoryReserved,
         HandleInventoryRejected, HandlePaymentSucceeded, HandlePaymentFailed
    <3>2. /\ DOMAIN orders' = DOMAIN orders
          /\ \A x \in DOMAIN orders : /\ orders'[x].user = orders[x].user
                                      /\ orders'[x].key = orders[x].key
                                      /\ orders'[x].body = orders[x].body
      BY <3>1, <2>t DEF SetStatus, OrderTypeOK, OrderRow
    <3> QED BY <2>t, <3>1, <3>2, StatusStep
  <2>3. CASE UNCHANGED orderVars
    BY <2>3, <2>t, StatusStep DEF orderVars
  <2> QED BY <2>1, <2>2, <2>3 DEF Next, PublishOrders, PublishInventory, PublishPayments,
          Publish, InventoryConsumer, PaymentConsumer, sagaVars, orderVars
<1>3. IntakeInv => OneOrderPerKey /\ AnswersNameTheOrder /\ ConflictIsReal
  BY DEF IntakeInv
<1> QED BY <1>1, <1>2, <1>3, SagaTypeCorrect, PTL DEF Spec

\* The inductive invariant as a run checks it.
THEOREM SagaInductive == Spec => []SagaIInv
BY SagaTypeCorrect, SagaInvariant, PTL DEF SagaIInv

\* No order without its first command in the outbox, and no command without its
\* order.
THEOREM SagaAnnounced == Spec => []OrderIffAnnounced
<1>1. SagaTypeOK /\ SagaInv => OrderIffAnnounced
  <2> SUFFICES ASSUME SagaTypeOK, SagaInv PROVE OrderIffAnnounced
    OBVIOUS
  <2>1. ReserveRequests = {e \in Written : e.type = "ReserveInventoryRequested"}
    BY WrittenEvents DEF ReserveRequests, Written, Stage, SagaInv
  <2>2. ASSUME NEW e \in ReserveRequests
        PROVE  e.order \in DOMAIN orders /\ e.body = orders[e.order].body
    BY <2>1 DEF SagaInv, EventsMatchOrder
  <2>3. ASSUME NEW o \in DOMAIN orders
        PROVE  \E e \in ReserveRequests :
                  {f \in ReserveRequests : f.order = o} = {e} /\ e.body = orders[o].body
    <3>1. "ReserveInventoryRequested" \in Sent(o)
      BY DEF SagaInv, CausalChain, SagaTypeOK, OrderTypeOK
    <3>2. PICK e \in ReserveRequests : e.order = o
      BY <2>1, <3>1 DEF Sent
    <3>3. {f \in ReserveRequests : f.order = o} = {e}
      BY <2>1, <3>2 DEF SagaInv, EachStepOnce
    <3> QED BY <2>2, <3>2, <3>3
  <2> QED BY <2>2, <2>3 DEF OrderIffAnnounced
<1> QED BY <1>1, SagaTypeCorrect, SagaInvariant, PTL

----------------------------------------------------------------------------
(* Pieces of stock: a sum of quantities is the cardinality of a set. *)

\* One order's pieces are as many as its quantity.
LEMMA PiecesOfOne ==
    ASSUME NEW o, NEW n \in Nat
    PROVE  IsFiniteSet({o} \X (1 .. n)) /\ Cardinality({o} \X (1 .. n)) = n
<1>1. IsFiniteSet({o}) /\ Cardinality({o}) = 1
  BY FS_Singleton
<1>2. IsFiniteSet(1 .. n) /\ Cardinality(1 .. n) = n
  BY FS_Interval
<1>3. /\ IsFiniteSet({o} \X (1 .. n))
      /\ Cardinality({o} \X (1 .. n)) = Cardinality({o}) * Cardinality(1 .. n)
  BY <1>1, <1>2, FS_Product
<1> QED BY <1>1, <1>2, <1>3

\* Pieces of an order that has none yet add up with those of the others.
LEMMA PiecesAdd ==
    ASSUME NEW S, IsFiniteSet(S), NEW o, NEW n \in Nat, \A p \in S : p[1] # o
    PROVE  /\ IsFiniteSet(S \cup ({o} \X (1 .. n)))
           /\ Cardinality(S \cup ({o} \X (1 .. n))) = Cardinality(S) + n
<1> DEFINE T == {o} \X (1 .. n)
<1>1. IsFiniteSet(T) /\ Cardinality(T) = n
  BY PiecesOfOne
<1>2. S \cap T = {}
  <2> SUFFICES ASSUME NEW p \in S, p \in T PROVE FALSE
    OBVIOUS
  <2> QED OBVIOUS
<1> HIDE DEF T
<1>3. Cardinality(S \cap T) = 0 /\ Cardinality(S) \in Nat
  BY <1>2, FS_EmptySet, FS_CardinalityType
<1>4. /\ IsFiniteSet(S \cup T)
      /\ Cardinality(S \cup T) = Cardinality(S) + Cardinality(T) - Cardinality(S \cap T)
  BY <1>1, FS_Union
<1>5. Cardinality(S \cup T) = Cardinality(S) + n
  BY <1>1, <1>3, <1>4
<1> QED BY <1>4, <1>5 DEF T

HoldsOf(s) == {x \in DOMAIN reservations : Held(x) /\ reservations[x].sku = s}

LEMMA PiecesByHolds ==
    ASSUME NEW s
    PROVE  /\ PiecesHeld(s) = UNION {{o} \X (1 .. reservations[o].quantity) : o \in HoldsOf(s)}
           /\ PiecesHeld(s)' = UNION {{o} \X (1 .. reservations'[o].quantity) : o \in HoldsOf(s)'}
BY DEF PiecesHeld, HoldsOf

LEMMA PieceOfHold ==
    ASSUME NEW s, NEW p
    PROVE  /\ p \in PiecesHeld(s) <=>
                 \E o \in HoldsOf(s) : p \in {o} \X (1 .. reservations[o].quantity)
           /\ p \in PiecesHeld(s)' <=>
                 \E o \in HoldsOf(s)' : p \in {o} \X (1 .. reservations'[o].quantity)
BY PiecesByHolds

LEMMA PiecesStay ==
    ASSUME NEW s, HoldsOf(s)' = HoldsOf(s),
           \A o \in HoldsOf(s) : reservations'[o].quantity = reservations[o].quantity
    PROVE  PiecesHeld(s)' = PiecesHeld(s)
<1> DEFINE of(o) == {o} \X (1 .. reservations[o].quantity)
           ofNew(o) == {o} \X (1 .. reservations'[o].quantity)
<1>1. \A o \in HoldsOf(s) : ofNew(o) = of(o)
  OBVIOUS
<1> HIDE DEF of, ofNew
<1>2. {ofNew(o) : o \in HoldsOf(s)} = {of(o) : o \in HoldsOf(s)}
  BY <1>1
<1> QED BY <1>2, PiecesByHolds DEF of, ofNew

PiecesFinite == \A s \in Stocked : IsFiniteSet(PiecesHeld(s))

\* An order that begins to hold pieces of an item.
LEMMA PiecesTaken ==
    ASSUME SagaTypeOK, PiecesFinite, ReservedMatchesReservations,
           NEW s \in Stocked, NEW o, o \notin DOMAIN reservations, NEW n \in Nat,
           reservations' = Put(reservations, o, [sku |-> s, quantity |-> n, status |-> "RESERVED"]),
           MoveStock(s, n)
    PROVE  PiecesFinite' /\ ReservedMatchesReservations'
<1>1. /\ DOMAIN reservations' = DOMAIN reservations \cup {o}
      /\ \A x \in DOMAIN reservations : reservations'[x] = reservations[x]
      /\ reservations'[o].sku = s /\ reservations'[o].quantity = n
      /\ reservations'[o].status = "RESERVED"
  OBVIOUS
<1>2. HoldsOf(s)' = HoldsOf(s) \cup {o}
  BY <1>1 DEF HoldsOf, Held
<1>3. \A t : t # s => HoldsOf(t)' = HoldsOf(t)
  BY <1>1 DEF HoldsOf, Held
<1>4. \A t : \A x \in HoldsOf(t) : x # o /\ reservations'[x].quantity = reservations[x].quantity
  BY <1>1 DEF HoldsOf
<1>5. PiecesHeld(s)' = PiecesHeld(s) \cup ({o} \X (1 .. n))
  <2> SUFFICES ASSUME NEW p
               PROVE  p \in PiecesHeld(s)' <=> p \in PiecesHeld(s) \/ p \in {o} \X (1 .. n)
    OBVIOUS
  <2>1. p \in PiecesHeld(s) <=> \E x \in HoldsOf(s) : p \in {x} \X (1 .. reservations[x].quantity)
    BY PieceOfHold
  <2>2. p \in PiecesHeld(s)' <=> \E x \in HoldsOf(s)' : p \in {x} \X (1 .. reservations'[x].quantity)
    BY PieceOfHold
  <2> QED BY <1>1, <1>2, <1>4, <2>1, <2>2
<1>6. \A p \in PiecesHeld(s) : p[1] # o
  <2> SUFFICES ASSUME NEW p \in PiecesHeld(s) PROVE p[1] # o
    OBVIOUS
  <2>1. p \in PiecesHeld(s) <=> \E x \in HoldsOf(s) : p \in {x} \X (1 .. reservations[x].quantity)
    BY PieceOfHold
  <2> QED BY <1>4, <2>1
<1>7. /\ IsFiniteSet(PiecesHeld(s)')
      /\ Cardinality(PiecesHeld(s)') = Cardinality(PiecesHeld(s)) + n
  <2> DEFINE S == PiecesHeld(s)
  <2>1. IsFiniteSet(S)
    BY DEF PiecesFinite
  <2>2. \A p \in S : p[1] # o
    BY <1>6
  <2> HIDE DEF S
  <2>3. /\ IsFiniteSet(S \cup ({o} \X (1 .. n)))
        /\ Cardinality(S \cup ({o} \X (1 .. n))) = Cardinality(S) + n
    BY <2>1, <2>2, PiecesAdd
  <2> QED BY <1>5, <2>3 DEF S
<1>8. /\ items'[s].reserved = items[s].reserved + n
      /\ \A t \in Stocked : t # s => items'[t].reserved = items[t].reserved
  BY DEF MoveStock, SagaTypeOK, InventoryTypeOK
<1>9. ASSUME NEW t \in Stocked, t # s
      PROVE  PiecesHeld(t)' = PiecesHeld(t)
  BY <1>3, <1>4, <1>9, PiecesStay
<1> QED BY <1>7, <1>8, <1>9 DEF PiecesFinite, ReservedMatchesReservations, Stocked

\* An order that gives its pieces back.
LEMMA PiecesReturned ==
    ASSUME SagaTypeOK, PiecesFinite, ReservedMatchesReservations, NEW o, Held(o),
           NEW s, s = reservations[o].sku, NEW n, n = reservations[o].quantity,
           reservations' = [reservations EXCEPT ![o].status = "RELEASED"],
           MoveStock(s, -n)
    PROVE  PiecesFinite' /\ ReservedMatchesReservations'
<1>1. o \in DOMAIN reservations /\ reservations[o].status = "RESERVED" /\ n \in Nat
      /\ reservations[o] \in ReservationRow
  BY DEF Held, SagaTypeOK, InventoryTypeOK, ReservationRow
<1>2. /\ DOMAIN reservations' = DOMAIN reservations
      /\ \A x \in DOMAIN reservations : x # o => reservations'[x] = reservations[x]
      /\ reservations'[o].status = "RELEASED"
  BY <1>1 DEF ReservationRow
<1>3. o \in HoldsOf(s) /\ HoldsOf(s)' = HoldsOf(s) \ {o}
  BY <1>1, <1>2 DEF HoldsOf, Held
<1>4. \A t : t # s => HoldsOf(t)' = HoldsOf(t) /\ o \notin HoldsOf(t)
  BY <1>1, <1>2 DEF HoldsOf, Held
<1>5. \A t : \A x \in HoldsOf(t) : x # o => reservations'[x].quantity = reservations[x].quantity
  BY <1>2 DEF HoldsOf
<1>6. PiecesHeld(s) = PiecesHeld(s)' \cup ({o} \X (1 .. n))
  <2> SUFFICES ASSUME NEW p
               PROVE  p \in PiecesHeld(s) <=> p \in PiecesHeld(s)' \/ p \in {o} \X (1 .. n)
    OBVIOUS
  <2>1. p \in PiecesHeld(s) <=> \E x \in HoldsOf(s) : p \in {x} \X (1 .. reservations[x].quantity)
    BY PieceOfHold
  <2>2. p \in PiecesHeld(s)' <=> \E x \in HoldsOf(s)' : p \in {x} \X (1 .. reservations'[x].quantity)
    BY PieceOfHold
  <2> QED BY <1>3, <1>5, <2>1, <2>2
<1>7. \A p \in PiecesHeld(s)' : p[1] # o
  <2> SUFFICES ASSUME NEW x \in HoldsOf(s)', NEW p \in {x} \X (1 .. reservations'[x].quantity)
               PROVE  p[1] # o
    BY PiecesByHolds
  <2> QED BY <1>3
<1>8. ASSUME s \in Stocked
      PROVE  /\ IsFiniteSet(PiecesHeld(s)')
             /\ Cardinality(PiecesHeld(s)) = Cardinality(PiecesHeld(s)') + n
             /\ Cardinality(PiecesHeld(s)') \in Nat
  <2> DEFINE S == PiecesHeld(s)'
  <2>1. IsFiniteSet(S)
    BY <1>6, <1>8, FS_Subset DEF PiecesFinite
  <2>2. \A p \in S : p[1] # o
    BY <1>7
  <2> HIDE DEF S
  <2>3. Cardinality(S \cup ({o} \X (1 .. n))) = Cardinality(S) + n /\ Cardinality(S) \in Nat
    BY <1>1, <2>1, <2>2, PiecesAdd, FS_CardinalityType
  <2> QED BY <1>6, <2>1, <2>3 DEF S
<1>9. /\ \A t \in Stocked : t # s => items'[t].reserved = items[t].reserved
      /\ s \in Stocked => items'[s].reserved = items[s].reserved - n
  BY <1>1 DEF MoveStock, SagaTypeOK, InventoryTypeOK, ItemRow
<1>10. ASSUME NEW t \in Stocked, t # s
       PROVE  PiecesHeld(t)' = PiecesHeld(t)
  BY <1>4, <1>5, <1>10, PiecesStay
<1>11. PiecesFinite'
  BY <1>8, <1>10 DEF PiecesFinite, Stocked
<1>12. ASSUME NEW t \in Stocked PROVE items'[t].reserved = Cardinality(PiecesHeld(t)')
  <2>1. CASE t = s
    <3>1. items[s].reserved = Cardinality(PiecesHeld(s)') + n
      BY <1>8, <2>1 DEF ReservedMatchesReservations
    <3> QED BY <1>1, <1>8, <1>9, <2>1, <3>1
  <2>2. CASE t # s
    BY <1>9, <1>10, <2>2 DEF ReservedMatchesReservations
  <2> QED BY <2>1, <2>2
<1> QED BY <1>11, <1>12 DEF ReservedMatchesReservations, Stocked

\* The invariant of the sums.
LEMMA PiecesStep ==
    ASSUME SagaTypeOK, SagaInv, PiecesFinite, ReservedMatchesReservations, [Next]_sagaVars
    PROVE  PiecesFinite' /\ ReservedMatchesReservations'
<1>1. CASE UNCHANGED <<items, reservations>>
  BY <1>1 DEF PiecesFinite, ReservedMatchesReservations, PiecesHeld, Held
<1>2. CASE InventoryConsumer
  <2> SUFFICES ASSUME NEW e \in bus, HandleInventoryCommand(e), UNCHANGED <<orderVars, paymentVars, bus>>
               PROVE  PiecesFinite' /\ ReservedMatchesReservations'
    BY <1>2 DEF InventoryConsumer
  <2>e. e \in Event /\ e \in Written
    BY DEF SagaTypeOK, SagaInv, ProcessedWasSent
  <2>1. CASE HandleReserve(e)
    <3>1. ~Handled(e)
      BY <2>1, UnmarkedIsUnhandled DEF HandleReserve, InventoryMarks, ShouldProcess, Stage
    <3>2. e.order \in OrderIds /\ e.body \in Body /\ e.body.sku \in Stocked
      BY <2>1, <2>e, EventTypes DEF HandleReserve, InStock
    <3>3. e.order \notin DOMAIN reservations
      <4>1. "InventoryReserved" \notin Sent(e.order)
        <5>1. "ReserveInventoryRequested" \notin Done(e.order)
          BY <2>1, <2>e, <3>1, UnhandledStage DEF HandleReserve
        <5> QED BY <3>2, <5>1 DEF SagaInv, CausalChain, InventoryAnswer
      <4> QED BY <3>2, <4>1 DEF SagaInv, EffectsTellProgress
    <3>4. /\ reservations' = Put(reservations, e.order,
                [sku |-> e.body.sku, quantity |-> e.body.quantity, status |-> "RESERVED"])
          /\ MoveStock(e.body.sku, e.body.quantity)
      BY <2>1, <3>3 DEF HandleReserve, UpsertReservation
    <3>5. e.body.quantity \in Nat
      BY <3>2 DEF Body
    <3> QED BY <3>2, <3>3, <3>4, <3>5, PiecesTaken
  <2>2. CASE HandleReject(e)
    BY <1>1, <2>2 DEF HandleReject
  <2>3. CASE HandleRelease(e) /\ Held(e.order)
    BY <2>3, PiecesReturned DEF HandleRelease
  <2>4. CASE HandleRelease(e) /\ ~Held(e.order)
    BY <1>1, <2>4 DEF HandleRelease
  <2> QED BY <2>1, <2>2, <2>3, <2>4 DEF HandleInventoryCommand
<1> QED BY <1>1, <1>2 DEF Next, CreateOrder, PublishOrders, PublishInventory, PublishPayments,
        Publish, OrderConsumer, PaymentConsumer, inventoryVars, sagaVars

\* The reserved quantity of an item is what the reservations hold of it.
THEOREM SagaReserved == Spec => []ReservedMatchesReservations
<1>1. Init => PiecesFinite /\ ReservedMatchesReservations
  <2> SUFFICES ASSUME Init, NEW s \in Stocked
               PROVE  IsFiniteSet(PiecesHeld(s)) /\ items[s].reserved = Cardinality(PiecesHeld(s))
    BY DEF PiecesFinite, ReservedMatchesReservations
  <2>1. PiecesHeld(s) = {}
    BY DEF Init, InventoryInit, PiecesHeld
  <2> QED BY <2>1, FS_EmptySet DEF Init, InventoryInit
<1> QED BY <1>1, PiecesStep, SagaTypeCorrect, SagaInvariant, PTL DEF Spec

\* An order whose events have all been handled has its verdict, and holds stock
\* if and only if it is CONFIRMED.
LEMMA SettledOrder ==
    ASSUME SagaTypeOK, SagaInv, NEW o \in DOMAIN orders, Sent(o) = Done(o)
    PROVE  /\ orders[o].status \in {"CONFIRMED", "FAILED"}
           /\ Held(o) <=> orders[o].status = "CONFIRMED"
<1>o. o \in OrderIds
  BY DEF SagaTypeOK, OrderTypeOK
<1>1. InventoryAnswer(Done(o)) /\ ("InventoryReserved" \in Done(o) => PaymentAnswer(Done(o)))
  BY <1>o DEF SagaInv, CausalChain
<1>2. /\ orders[o].status = "CONFIRMED" <=> "PaymentSucceeded" \in Done(o)
      /\ orders[o].status = "FAILED" <=>
            "InventoryRejected" \in Done(o) \/ "PaymentFailed" \in Done(o)
  BY DEF SagaInv, StatusTellsProgress
<1>3. orders[o].status \in {"CONFIRMED", "FAILED"}
  BY <1>1, <1>2 DEF InventoryAnswer, PaymentAnswer
<1>4. ~("InventoryRejected" \in Done(o) /\ "InventoryReserved" \in Done(o))
      /\ ~("PaymentFailed" \in Done(o) /\ "PaymentSucceeded" \in Done(o))
  BY OneVerdict DEF Stage
<1>5. "PaymentSucceeded" \in Done(o) => "InventoryReserved" \in Done(o)
  BY <1>o DEF SagaInv, CausalChain, PaymentAnswer
<1>6. Held(o) <=> "InventoryReserved" \in Done(o) /\ "PaymentFailed" \notin Done(o)
  BY <1>o DEF SagaInv, CausalChain, EffectsTellProgress, Held
<1>7. "InventoryReserved" \in Done(o) /\ "PaymentFailed" \notin Done(o)
         <=> "PaymentSucceeded" \in Done(o)
  BY <1>1, <1>4, <1>5 DEF PaymentAnswer
<1> QED BY <1>2, <1>3, <1>6, <1>7

\* When every event has been handled no order is left on its way, and the stock
\* still held is what the CONFIRMED orders bought.
THEOREM SagaLeavesNothing == Spec => []NothingLeftBehind
<1>1. SagaTypeOK /\ SagaInv /\ ReservedMatchesReservations => NothingLeftBehind
  <2> SUFFICES ASSUME SagaTypeOK, SagaInv, ReservedMatchesReservations,
                      \A e \in Written : Handled(e)
               PROVE  /\ DOMAIN orders = WithStatus("CONFIRMED") \cup WithStatus("FAILED")
                      /\ \A s \in Stocked : PiecesHeld(s) = PiecesOrdered(WithStatus("CONFIRMED"), s)
    BY DEF NothingLeftBehind, ReservedMatchesReservations
  <2>1. \A o \in DOMAIN orders : Sent(o) = Done(o)
    BY DEF Sent, Done
  <2>2. \A o \in DOMAIN orders : /\ orders[o].status \in {"CONFIRMED", "FAILED"}
                                 /\ Held(o) <=> orders[o].status = "CONFIRMED"
    BY <2>1, SettledOrder
  <2>3. DOMAIN orders = WithStatus("CONFIRMED") \cup WithStatus("FAILED")
    BY <2>2 DEF WithStatus
  <2>4. ASSUME NEW s \in Stocked
        PROVE  PiecesHeld(s) = PiecesOrdered(WithStatus("CONFIRMED"), s)
    <3> DEFINE bought == {x \in WithStatus("CONFIRMED") : orders[x].body.sku = s}
    <3>1. HoldsOf(s) = bought
      BY <2>2 DEF HoldsOf, WithStatus, Held, SagaInv, EffectsMatchOrder
    <3>2. \A o \in HoldsOf(s) : reservations[o].quantity = orders[o].body.quantity
      BY DEF HoldsOf, SagaInv, EffectsMatchOrder
    <3> SUFFICES ASSUME NEW p
                 PROVE  p \in PiecesHeld(s) <=> p \in PiecesOrdered(WithStatus("CONFIRMED"), s)
      OBVIOUS
    <3>3. p \in PiecesHeld(s) <=> \E o \in HoldsOf(s) : p \in {o} \X (1 .. reservations[o].quantity)
      BY PieceOfHold
    <3>4. p \in PiecesOrdered(WithStatus("CONFIRMED"), s) <=>
             \E o \in bought : p \in {o} \X (1 .. orders[o].body.quantity)
      BY DEF PiecesOrdered
    <3> QED BY <3>1, <3>2, <3>3, <3>4
  <2> QED BY <2>3, <2>4
<1> QED BY <1>1, SagaTypeCorrect, SagaInvariant, SagaReserved, PTL

----------------------------------------------------------------------------
(* OrderSaga implements OrderLifecycle: the initial states map to initial   *)
(* states, and every step to a step or a stutter.                          *)

\* A step that changes what one table says of one order, and nothing else that
\* the lifecycle shows, is the corresponding step of the lifecycle.
LEMMA StatusShows ==
    ASSUME NEW o \in OrderIds, NEW to,
           \A x \in OrderIds : StatusOf(x)' = IF x = o THEN to ELSE StatusOf(x),
           \A x \in OrderIds : HoldOf(x)' = HoldOf(x),
           \A x \in OrderIds : ChargeOf(x)' = ChargeOf(x)
    PROVE  Lifecycle!SetStatus(o, StatusOf(o), to)
BY DEF Lifecycle!SetStatus

LEMMA HoldShows ==
    ASSUME NEW o \in OrderIds, NEW to,
           \A x \in OrderIds : HoldOf(x)' = IF x = o THEN to ELSE HoldOf(x),
           \A x \in OrderIds : StatusOf(x)' = StatusOf(x),
           \A x \in OrderIds : ChargeOf(x)' = ChargeOf(x)
    PROVE  Lifecycle!SetHold(o, HoldOf(o), to)
BY DEF Lifecycle!SetHold

LEMMA ChargeShows ==
    ASSUME NEW o \in OrderIds, NEW to, ChargeOf(o) = "NONE",
           \A x \in OrderIds : ChargeOf(x)' = IF x = o THEN to ELSE ChargeOf(x),
           \A x \in OrderIds : StatusOf(x)' = StatusOf(x),
           \A x \in OrderIds : HoldOf(x)' = HoldOf(x)
    PROVE  Lifecycle!SetCharge(o, to)
BY DEF Lifecycle!SetCharge

LEMMA NothingShows ==
    ASSUME \A x \in OrderIds : StatusOf(x)' = StatusOf(x),
           \A x \in OrderIds : HoldOf(x)' = HoldOf(x),
           \A x \in OrderIds : ChargeOf(x)' = ChargeOf(x)
    PROVE  UNCHANGED Lifecycle!vars
BY DEF Lifecycle!vars

----------------------------------------------------------------------------
(* The steps of order-service. *)

LEMMA OrderConsumerShows ==
    ASSUME SagaTypeOK, SagaInv, OrderConsumer
    PROVE  Lifecycle!Next
<1>1. PICK e \in bus : HandleSagaEvent(e) /\ UNCHANGED <<inventoryVars, paymentVars, bus>>
  BY DEF OrderConsumer
<1>2. ~Handled(e)
  BY <1>1, UnmarkedIsUnhandled DEF HandleSagaEvent, HandleInventoryReserved,
     HandleInventoryRejected, HandlePaymentSucceeded, HandlePaymentFailed, OrderMarks,
     ShouldProcess, Stage
<1>3. e.order \in OrderIds /\ e.order \in DOMAIN orders /\ e.type \in Sent(e.order)
  BY <1>2, StatusBefore, UnhandledStage
<1>4. /\ \A x \in OrderIds : HoldOf(x)' = HoldOf(x)
      /\ \A x \in OrderIds : ChargeOf(x)' = ChargeOf(x)
  BY <1>1 DEF HoldOf, ChargeOf, Held, Refused, Rows, inventoryVars, paymentVars
<1>5. ASSUME NEW to, SetStatus(e.order, to)
      PROVE  Lifecycle!SetStatus(e.order, StatusOf(e.order), to)
  <2>1. \A x \in OrderIds : StatusOf(x)' = IF x = e.order THEN to ELSE StatusOf(x)
    BY <1>3, <1>5 DEF SetStatus, StatusOf, SagaTypeOK, OrderTypeOK, OrderRow
  <2> QED BY <1>3, <1>4, <2>1, StatusShows
<1>6. CASE HandleInventoryReserved(e)
  <2>1. StatusOf(e.order) = "PENDING_INVENTORY"
    BY <1>2, <1>3, <1>6, StatusBefore DEF HandleInventoryReserved, StatusOf
  <2>2. HoldOf(e.order) = "HELD"
    <3>1. /\ "InventoryReserved" \in Sent(e.order) /\ "InventoryReserved" \notin Done(e.order)
          /\ Done(e.order) \subseteq Sent(e.order)
      BY <1>2, <1>3, <1>6, UnhandledStage, OneVerdict, StatusBefore DEF HandleInventoryReserved
    <3>2. "ReleaseInventory" \notin Done(e.order)
      BY <1>3, <3>1 DEF SagaInv, CausalChain, PaymentAnswer
    <3> QED BY <1>3, <3>1, <3>2 DEF SagaInv, EffectsTellProgress, HoldOf
  <2>3. Lifecycle!AwaitPayment(e.order)
    BY <1>3, <1>5, <1>6, <2>1, <2>2 DEF HandleInventoryReserved, Lifecycle!AwaitPayment
  <2> QED BY <1>3, <2>3 DEF Lifecycle!Next
<1>7. CASE HandleInventoryRejected(e)
  <2>1. StatusOf(e.order) = "PENDING_INVENTORY"
    BY <1>2, <1>3, <1>7, StatusBefore DEF HandleInventoryRejected, StatusOf
  <2>2. HoldOf(e.order) = "REFUSED"
    <3>1. "InventoryRejected" \in Sent(e.order) /\ "InventoryReserved" \notin Sent(e.order)
      BY <1>3, <1>7, OneVerdict DEF HandleInventoryRejected, Stage
    <3>2. e.order \notin DOMAIN reservations
      BY <1>3, <3>1 DEF SagaInv, EffectsTellProgress
    <3>3. e \in Written /\ e \in Rows(invOutbox)
      BY <1>2, <1>7, StatusBefore, WrittenEvents
         DEF HandleInventoryRejected, Written, Stage, SagaInv
    <3> QED BY <1>7, <3>2, <3>3 DEF HoldOf, Refused, HandleInventoryRejected
  <2>3. Lifecycle!GiveUp(e.order)
    BY <1>3, <1>5, <1>7, <2>1, <2>2 DEF HandleInventoryRejected, Lifecycle!GiveUp
  <2> QED BY <1>3, <2>3 DEF Lifecycle!Next
<1>8. CASE HandlePaymentSucceeded(e) \/ HandlePaymentFailed(e)
  <2>1. StatusOf(e.order) = "PENDING_PAYMENT"
    BY <1>2, <1>3, <1>8, StatusBefore DEF HandlePaymentSucceeded, HandlePaymentFailed, StatusOf
  <2>2. e.order \in DOMAIN attempts
    BY <1>3, <1>8 DEF HandlePaymentSucceeded, HandlePaymentFailed, SagaInv,
       EffectsTellProgress, PaymentAnswer
  <2>3. attempts[e.order].status = "SUCCEEDED" <=> e.type = "PaymentSucceeded"
    <3>1. "PaymentSucceeded" \in Sent(e.order) <=> e.type = "PaymentSucceeded"
      BY <1>3, <1>8, OneVerdict DEF HandlePaymentSucceeded, HandlePaymentFailed, Stage
    <3> QED BY <1>3, <2>2, <3>1 DEF SagaInv, EffectsTellProgress
  <2>4. CASE HandlePaymentSucceeded(e)
    <3>1. Lifecycle!Confirm(e.order)
      BY <1>3, <1>5, <2>1, <2>2, <2>3, <2>4 DEF HandlePaymentSucceeded, ChargeOf, Lifecycle!Confirm
    <3> QED BY <1>3, <3>1 DEF Lifecycle!Next
  <2>5. CASE HandlePaymentFailed(e)
    <3>1. Lifecycle!Fail(e.order)
      BY <1>3, <1>5, <2>1, <2>2, <2>3, <2>5 DEF HandlePaymentFailed, ChargeOf, Lifecycle!Fail
    <3> QED BY <1>3, <3>1 DEF Lifecycle!Next
  <2> QED BY <1>8, <2>4, <2>5
<1> QED BY <1>1, <1>6, <1>7, <1>8 DEF HandleSagaEvent

LEMMA CreateOrderShows ==
    ASSUME SagaTypeOK, SagaInv, CreateOrder
    PROVE  Lifecycle!Next \/ UNCHANGED Lifecycle!vars
<1>1. PICK r \in OrderIds : Lookup(r) \/ InsertOrder(r) \/ InsertRefused(r) \/ Abort(r)
  BY DEF CreateOrder, Intake
<1>2. /\ \A x \in OrderIds : HoldOf(x)' = HoldOf(x)
      /\ \A x \in OrderIds : ChargeOf(x)' = ChargeOf(x)
  BY DEF CreateOrder, HoldOf, ChargeOf, Held, Refused, Rows, inventoryVars, paymentVars
<1>3. CASE InsertOrder(r)
  <2>1. StatusOf(r) = "NONE"
    BY <1>3 DEF InsertOrder, SagaInv, OrderHasRequest, StatusOf
  <2>2. \A x \in OrderIds : StatusOf(x)' = IF x = r THEN "PENDING_INVENTORY" ELSE StatusOf(x)
    <3>1. orders' = Put(orders, r, NewOrder(r)) /\ NewOrder(r).status = "PENDING_INVENTORY"
      BY <1>3 DEF InsertOrder, NewOrder
    <3> QED BY <3>1 DEF StatusOf
  <2>3. Lifecycle!Place(r)
    BY <1>2, <2>1, <2>2, StatusShows DEF Lifecycle!Place
  <2> QED BY <2>3 DEF Lifecycle!Next
<1>4. CASE UNCHANGED orders
  BY <1>2, <1>4, NothingShows DEF StatusOf
<1> QED BY <1>1, <1>3, <1>4 DEF Lookup, InsertRefused, Abort

----------------------------------------------------------------------------
(* The steps of inventory-service and payment-service. *)

LEMMA InventoryConsumerShows ==
    ASSUME SagaTypeOK, SagaInv, InventoryConsumer
    PROVE  Lifecycle!Next
<1>1. PICK e \in bus : HandleInventoryCommand(e) /\ UNCHANGED <<orderVars, paymentVars, bus>>
  BY DEF InventoryConsumer
<1>2. ~Handled(e)
  BY <1>1, UnmarkedIsUnhandled DEF HandleInventoryCommand, HandleReserve, HandleReject,
     HandleRelease, InventoryMarks, ShouldProcess, Stage
<1>3. e.order \in OrderIds /\ e.order \in DOMAIN orders /\ e.type \in Sent(e.order)
  BY <1>2, StatusBefore, UnhandledStage
<1>4. /\ \A x \in OrderIds : StatusOf(x)' = StatusOf(x)
      /\ \A x \in OrderIds : ChargeOf(x)' = ChargeOf(x)
  BY <1>1 DEF StatusOf, ChargeOf, orderVars, paymentVars
<1>5. CASE HandleReserve(e) \/ HandleReject(e)
  <2>1. StatusOf(e.order) = "PENDING_INVENTORY"
    BY <1>2, <1>3, <1>5, StatusBefore DEF HandleReserve, HandleReject, StatusOf
  <2>2. ~InventoryAnswer(Sent(e.order))
    <3>1. "ReserveInventoryRequested" \notin Done(e.order)
      BY <1>2, <1>5, UnhandledStage, StatusBefore DEF HandleReserve, HandleReject
    <3> QED BY <1>3, <3>1 DEF SagaInv, CausalChain
  <2>3. e.order \notin DOMAIN reservations
    BY <1>3, <2>2 DEF SagaInv, EffectsTellProgress, InventoryAnswer
  <2>4. ~Refused(e.order)
    BY <2>2 DEF Refused, Sent, Written, InventoryAnswer
  <2>5. HoldOf(e.order) = "NONE"
    BY <2>3, <2>4 DEF HoldOf
  <2>6. invOutbox \in Seq(Event)
    BY DEF SagaTypeOK, InventoryTypeOK
  <2>7. CASE HandleReserve(e)
    <3>1. reservations' = Put(reservations, e.order, [sku |-> e.body.sku,
                              quantity |-> e.body.quantity, status |-> "RESERVED"])
      BY <2>3, <2>7 DEF HandleReserve, UpsertReservation
    <3>2. PICK f : /\ f.type = "InventoryReserved" /\ f.order = e.order
                   /\ invOutbox' = Append(invOutbox, f)
      BY <2>7 DEF HandleReserve
    <3>3. \A x \in OrderIds : Refused(x)' <=> Refused(x)
      BY <2>6, <3>2, RowsOfAppend DEF Refused
    <3>4. \A x \in OrderIds : HoldOf(x)' = IF x = e.order THEN "HELD" ELSE HoldOf(x)
      BY <3>1, <3>3 DEF HoldOf, Held
    <3>5. Lifecycle!Hold(e.order)
      BY <1>3, <1>4, <2>1, <2>5, <3>4, HoldShows DEF Lifecycle!Hold
    <3> QED BY <1>3, <3>5 DEF Lifecycle!Next
  <2>8. CASE HandleReject(e)
    <3>1. PICK f : /\ f.type = "InventoryRejected" /\ f.order = e.order
                   /\ invOutbox' = Append(invOutbox, f)
      BY <2>8 DEF HandleReject
    <3>2. \A x \in OrderIds : Refused(x)' <=> x = e.order \/ Refused(x)
      BY <2>6, <3>1, RowsOfAppend DEF Refused
    <3>3. \A x \in OrderIds : HoldOf(x)' = IF x = e.order THEN "REFUSED" ELSE HoldOf(x)
      BY <2>3, <2>8, <3>2 DEF HoldOf, Held, HandleReject
    <3>4. Lifecycle!Refuse(e.order)
      BY <1>3, <1>4, <2>1, <2>5, <3>3, HoldShows DEF Lifecycle!Refuse
    <3> QED BY <1>3, <3>4 DEF Lifecycle!Next
  <2> QED BY <1>5, <2>7, <2>8
<1>6. CASE HandleRelease(e)
  <2>1. StatusOf(e.order) = "FAILED"
    BY <1>2, <1>3, <1>6, StatusBefore DEF HandleRelease, StatusOf
  <2>2. "ReleaseInventory" \notin Done(e.order) /\ Done(e.order) \subseteq Sent(e.order)
    BY <1>2, <1>6, UnhandledStage, OneVerdict, StatusBefore DEF HandleRelease
  <2>3. "InventoryReserved" \in Sent(e.order)
    BY <1>3, <1>6, <2>2 DEF HandleRelease, SagaInv, CausalChain, PaymentAnswer
  <2>4. e.order \in DOMAIN reservations /\ Held(e.order)
    BY <1>3, <2>2, <2>3 DEF SagaInv, EffectsTellProgress
  <2>5. reservations' = [reservations EXCEPT ![e.order].status = "RELEASED"]
    BY <1>6, <2>4 DEF HandleRelease
  <2>6. /\ DOMAIN reservations' = DOMAIN reservations
        /\ \A x \in DOMAIN reservations :
              reservations'[x].status = IF x = e.order THEN "RELEASED" ELSE reservations[x].status
    BY <2>5 DEF SagaTypeOK, InventoryTypeOK, ReservationRow
  <2>7. \A x \in OrderIds : HoldOf(x)' = IF x = e.order THEN "RETURNED" ELSE HoldOf(x)
    BY <1>6, <2>4, <2>6 DEF HoldOf, Held, Refused, HandleRelease
  <2>8. Lifecycle!Return(e.order)
    BY <1>3, <1>4, <2>1, <2>4, <2>7, HoldShows DEF HoldOf, Lifecycle!Return
  <2> QED BY <1>3, <2>8 DEF Lifecycle!Next
<1> QED BY <1>1, <1>5, <1>6 DEF HandleInventoryCommand

LEMMA PaymentConsumerShows ==
    ASSUME SagaTypeOK, SagaInv, PaymentConsumer
    PROVE  Lifecycle!Next
<1>1. PICK e \in bus : HandlePaymentCommand(e) /\ UNCHANGED <<orderVars, inventoryVars, bus>>
  BY DEF PaymentConsumer
<1>2. ~Handled(e)
  BY <1>1, UnmarkedIsUnhandled DEF HandlePaymentCommand, ShouldProcess, Stage
<1>3. e.order \in OrderIds /\ e.order \in DOMAIN orders /\ e.type \in Sent(e.order)
  BY <1>2, StatusBefore, UnhandledStage
<1>4. /\ \A x \in OrderIds : StatusOf(x)' = StatusOf(x)
      /\ \A x \in OrderIds : HoldOf(x)' = HoldOf(x)
  BY <1>1 DEF StatusOf, HoldOf, Held, Refused, Rows, orderVars, inventoryVars
<1>5. StatusOf(e.order) = "PENDING_PAYMENT"
  BY <1>1, <1>2, <1>3, StatusBefore DEF HandlePaymentCommand, StatusOf
<1>6. e.order \notin DOMAIN attempts
  <2>1. "ProcessPayment" \notin Done(e.order)
    BY <1>1, <1>2, UnhandledStage, StatusBefore DEF HandlePaymentCommand
  <2> QED BY <1>3, <2>1 DEF SagaInv, CausalChain, EffectsTellProgress
<1>7. attempts' = Put(attempts, e.order,
                      [amount |-> Stored(e.amount), currency |-> e.currency,
                       status |-> IF Approved(e) THEN "SUCCEEDED" ELSE "FAILED"])
  BY <1>1, <1>6 DEF HandlePaymentCommand, UpsertAttempt
<1>8. \A x \in OrderIds :
         ChargeOf(x)' = IF x = e.order THEN IF Approved(e) THEN "CHARGED" ELSE "DECLINED"
                        ELSE ChargeOf(x)
  BY <1>7 DEF ChargeOf
<1>9. ChargeOf(e.order) = "NONE"
  BY <1>6 DEF ChargeOf
<1>10. CASE Approved(e)
  <2>1. Lifecycle!Charge(e.order)
    BY <1>3, <1>4, <1>5, <1>8, <1>9, <1>10, ChargeShows DEF Lifecycle!Charge
  <2> QED BY <1>3, <2>1 DEF Lifecycle!Next
<1>11. CASE ~Approved(e)
  <2>1. Lifecycle!Decline(e.order)
    BY <1>3, <1>4, <1>5, <1>8, <1>9, <1>11, ChargeShows DEF Lifecycle!Decline
  <2> QED BY <1>3, <2>1 DEF Lifecycle!Next
<1> QED BY <1>10, <1>11

----------------------------------------------------------------------------
\* Whatever the orders, the stock and the deliveries, an observer of the tables
\* sees each order live its lifecycle and nothing else.
THEOREM SagaImplementsLifecycle == Spec => ImplementsLifecycle
<1>1. Init => Lifecycle!Init
  <2> SUFFICES ASSUME Init PROVE Lifecycle!Init
    OBVIOUS
  <2>1. \A o \in OrderIds : StatusOf(o) = "NONE" /\ HoldOf(o) = "NONE" /\ ChargeOf(o) = "NONE"
    BY DEF Init, OrderInit, InventoryInit, PaymentInit, StatusOf, HoldOf, ChargeOf, Refused, Rows
  <2> QED BY <2>1 DEF Lifecycle!Init
<1>2. SagaTypeOK /\ SagaInv /\ [Next]_sagaVars => [Lifecycle!Next]_Lifecycle!vars
  <2> SUFFICES ASSUME SagaTypeOK, SagaInv, [Next]_sagaVars
               PROVE  Lifecycle!Next \/ UNCHANGED Lifecycle!vars
    OBVIOUS
  <2>1. CASE PublishOrders \/ PublishInventory \/ PublishPayments \/ UNCHANGED sagaVars
    <3>1. UNCHANGED <<orderVars, inventoryVars, paymentVars>>
      BY <2>1 DEF PublishOrders, PublishInventory, PublishPayments, Publish, sagaVars,
         orderVars, inventoryVars, paymentVars
    <3> QED BY <3>1, NothingShows DEF StatusOf, HoldOf, ChargeOf, Held, Refused, Rows,
            orderVars, inventoryVars, paymentVars
  <2> QED BY <2>1, OrderConsumerShows, InventoryConsumerShows, PaymentConsumerShows,
          CreateOrderShows DEF Next
<1> QED BY <1>1, <1>2, SagaTypeCorrect, SagaInvariant, PTL DEF Spec, ImplementsLifecycle, Lifecycle!Spec

=============================================================================
