----------------------------- MODULE SagaEvents -----------------------------
(***************************************************************************)
(* The events the three services exchange (packages/shared routingKeys,    *)
(* the createEventEnvelope of each service) and the request body that      *)
(* starts an order.  A routing key and its eventType go together, so the   *)
(* type stands for both.                                                   *)
(***************************************************************************)
EXTENDS Naturals, Sequences, Tables

CONSTANTS
    OrderIds,    \* crypto.randomUUID() of each POST /internal/orders
    Skus,        \* item codes a body may name, stocked or not
    Currencies,  \* currency codes as clients spell them
    Upper,       \* currency.toUpperCase(), a function on Currencies
    Cent         \* one cent, in the unit the amounts are counted in

ASSUME UpperAssumption ==
    /\ Upper \in [Currencies -> Currencies]
    /\ \A c \in Currencies : Upper[Upper[c]] = Upper[c]

ASSUME CentAssumption == Cent \in Nat \ {0}

\* What a NUMERIC(12,2) column keeps of an amount: PostgreSQL rounds it to
\* cents, a half away from zero.  An amount below half a cent is kept as 0.
Stored(amount) == Cent * ((2 * amount + Cent) \div (2 * Cent))

\* orderCreateSchema: quantity and totalAmount are positive.  totalAmount is any
\* positive number, a multiple of a unit that may be much finer than a cent;
\* JSON and JSONB keep it as it is.
Body == [sku : Skus, quantity : Nat \ {0}, amount : Nat \ {0}, currency : Currencies]

\* The services that own an outbox; an event is identified by the service
\* that created it and its place there (the UUID createEventEnvelope draws).
Services == {"orders", "inventory", "payments"}
EventId == Services \X (Nat \ {0})

ReserveEvents == [id : EventId, type : {"ReserveInventoryRequested"},
                  order : OrderIds, body : Body]
PricedEvents  == [id : EventId, type : {"InventoryReserved", "ProcessPayment"},
                  order : OrderIds, amount : Nat \ {0}, currency : Currencies]
PlainEvents   == [id : EventId, order : OrderIds,
                  type : {"InventoryRejected", "PaymentSucceeded",
                          "PaymentFailed", "ReleaseInventory"}]
Event == ReserveEvents \cup PricedEvents \cup PlainEvents

\* createEventEnvelope: a fresh eventId for the next row of this outbox.
NextId(service, outbox) == <<service, Len(outbox) + 1>>

\* The rows of an outbox, in no order.
Rows(outbox) == {outbox[i] : i \in DOMAIN outbox}

=============================================================================
