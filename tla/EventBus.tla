------------------------------ MODULE EventBus ------------------------------
(***************************************************************************)
(* What the transactional outbox promises: an event that a transaction     *)
(* wrote reaches Kafka, and nothing else does.  OutboxRelay implements     *)
(* this, and it is the bus OrderSaga is built on: there an outbox row is a *)
(* written event, and Publish delivers it.                                 *)
(***************************************************************************)
CONSTANT Events

VARIABLES
    written,   \* events in outbox rows that are committed
    delivered  \* events that have reached their topic, once or more often

vars == <<written, delivered>>

Init == written = {} /\ delivered = {}

Write(e) ==
    /\ e \notin written
    /\ written' = written \cup {e}
    /\ UNCHANGED delivered

Deliver(e) ==
    /\ e \in written \ delivered
    /\ delivered' = delivered \cup {e}
    /\ UNCHANGED written

Next == \E e \in Events : Write(e) \/ Deliver(e)

Spec == Init /\ [][Next]_vars

=============================================================================
