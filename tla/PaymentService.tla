--------------------------- MODULE PaymentService ---------------------------
(***************************************************************************)
(* apps/payment-service: handlePaymentCommand, one transaction per         *)
(* ProcessPayment command.                                                 *)
(***************************************************************************)
EXTENDS SagaEvents

CONSTANT PaymentLimit    \* amounts up to this are approved (10000), whole cents

ASSUME LimitAssumption == PaymentLimit \in Nat /\ Stored(PaymentLimit) = PaymentLimit

VARIABLES
    attempts,      \* payments.payment_attempts, by order_id
    payOutbox,     \* payments.outbox, in created_at order
    payProcessed   \* payments.processed_events

paymentVars == <<attempts, payOutbox, payProcessed>>

AttemptRow == [amount : Nat, currency : Currencies, status : {"SUCCEEDED", "FAILED"}]

PaymentTypeOK ==
    /\ DOMAIN attempts \subseteq OrderIds
    /\ \A o \in DOMAIN attempts : attempts[o] \in AttemptRow
    /\ payOutbox \in Seq(Event)
    /\ payProcessed \subseteq EventId

PaymentInit ==
    /\ attempts = EmptyTable
    /\ payOutbox = <<>>
    /\ payProcessed = {}

\* mutant: the limit itself is declined
ApprovedBelow(e) == e.amount < PaymentLimit

\* Number(payload.amount) <= 10000: the amount of the message, not the stored one.
Approved(e) == e.amount <= PaymentLimit

\* ON CONFLICT (order_id) sets the status and keeps amount and currency.
UpsertAttempt(e, status) ==
    IF e.order \in DOMAIN attempts
    THEN [attempts EXCEPT ![e.order].status = status]
    ELSE Put(attempts, e.order,
             [amount |-> Stored(e.amount), currency |-> e.currency, status |-> status])

\* mutant: a failed attempt is recorded and nobody is told
AttemptTellsSuccess(e) ==
    /\ e.type = "ProcessPayment"
    /\ ShouldProcess(payProcessed, e)
    /\ payProcessed' = payProcessed \cup {e.id}
    /\ attempts' = UpsertAttempt(e, IF Approved(e) THEN "SUCCEEDED" ELSE "FAILED")
    /\ payOutbox' = IF Approved(e)
                    THEN Append(payOutbox, [id |-> NextId("payments", payOutbox),
                                            type |-> "PaymentSucceeded", order |-> e.order])
                    ELSE payOutbox

HandlePaymentCommand(e) ==
    /\ e.type = "ProcessPayment"
    /\ ShouldProcess(payProcessed, e)
    /\ payProcessed' = payProcessed \cup {e.id}
    /\ attempts' = UpsertAttempt(e, IF Approved(e) THEN "SUCCEEDED" ELSE "FAILED")
    /\ payOutbox' = Append(payOutbox,
                       [id |-> NextId("payments", payOutbox),
                        type |-> IF Approved(e) THEN "PaymentSucceeded" ELSE "PaymentFailed",
                        order |-> e.order])

=============================================================================
