--------------------------- MODULE OrderLifecycle ---------------------------
(***************************************************************************)
(* What the saga promises for an order, with no service, outbox, event or  *)
(* message in sight: the status a client reads, what has become of the     *)
(* stock and of the money, and the order in which they change.  The steps  *)
(* of one order do not depend on those of another.  OrderSaga implements   *)
(* this specification.                                                     *)
(***************************************************************************)
CONSTANT OrderIds

VARIABLES
    status,  \* "NONE" until the order is placed
    hold,    \* its pieces: "NONE", "HELD", "REFUSED" or "RETURNED"
    charge   \* its payment: "NONE", "CHARGED" or "DECLINED"

vars == <<status, hold, charge>>

TypeOK ==
    /\ status \in [OrderIds -> {"NONE", "PENDING_INVENTORY", "PENDING_PAYMENT",
                                "CONFIRMED", "FAILED"}]
    /\ hold \in [OrderIds -> {"NONE", "HELD", "REFUSED", "RETURNED"}]
    /\ charge \in [OrderIds -> {"NONE", "CHARGED", "DECLINED"}]

Init ==
    /\ status = [o \in OrderIds |-> "NONE"]
    /\ hold = [o \in OrderIds |-> "NONE"]
    /\ charge = [o \in OrderIds |-> "NONE"]

SetStatus(o, from, to) ==
    status[o] = from /\ status' = [status EXCEPT ![o] = to] /\ UNCHANGED <<hold, charge>>

SetHold(o, from, to) ==
    hold[o] = from /\ hold' = [hold EXCEPT ![o] = to] /\ UNCHANGED <<status, charge>>

SetCharge(o, to) ==
    charge[o] = "NONE" /\ charge' = [charge EXCEPT ![o] = to] /\ UNCHANGED <<status, hold>>

Place(o) == SetStatus(o, "NONE", "PENDING_INVENTORY")

Hold(o)   == status[o] = "PENDING_INVENTORY" /\ SetHold(o, "NONE", "HELD")
Refuse(o) == status[o] = "PENDING_INVENTORY" /\ SetHold(o, "NONE", "REFUSED")

AwaitPayment(o) == hold[o] = "HELD" /\ SetStatus(o, "PENDING_INVENTORY", "PENDING_PAYMENT")

Charge(o)  == status[o] = "PENDING_PAYMENT" /\ SetCharge(o, "CHARGED")
Decline(o) == status[o] = "PENDING_PAYMENT" /\ SetCharge(o, "DECLINED")

Confirm(o) == charge[o] = "CHARGED" /\ SetStatus(o, "PENDING_PAYMENT", "CONFIRMED")

GiveUp(o) == hold[o] = "REFUSED" /\ SetStatus(o, "PENDING_INVENTORY", "FAILED")
Fail(o)   == charge[o] = "DECLINED" /\ SetStatus(o, "PENDING_PAYMENT", "FAILED")

\* The compensation, after the verdict.
Return(o) == status[o] = "FAILED" /\ SetHold(o, "HELD", "RETURNED")

Next ==
    \E o \in OrderIds :
        \/ Place(o) \/ Hold(o) \/ Refuse(o) \/ AwaitPayment(o) \/ Charge(o)
        \/ Decline(o) \/ Confirm(o) \/ GiveUp(o) \/ Fail(o) \/ Return(o)

Spec == Init /\ [][Next]_vars

=============================================================================
