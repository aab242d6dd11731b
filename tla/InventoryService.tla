-------------------------- MODULE InventoryService --------------------------
(***************************************************************************)
(* apps/inventory-service: handleInventoryCommand reserves stock for an    *)
(* order or releases it.  Each command is one transaction, serialised per  *)
(* event by the insert into processed_events and per item by SELECT ...    *)
(* FOR UPDATE and the row lock of UPDATE, hence one step.                  *)
(***************************************************************************)
EXTENDS SagaEvents, Integers

CONSTANT InitialStock    \* sku -> available_quantity, the seeded rows

ASSUME StockAssumption ==
    /\ DOMAIN InitialStock \subseteq Skus
    /\ \A s \in DOMAIN InitialStock : InitialStock[s] \in Nat

VARIABLES
    items,         \* inventory.inventory_items
    reservations,  \* inventory.reservations, by order_id
    invOutbox,     \* inventory.outbox, in created_at order
    invProcessed   \* inventory.processed_events

inventoryVars == <<items, reservations, invOutbox, invProcessed>>

Stocked == DOMAIN InitialStock

ItemRow        == [available : Int, reserved : Int]
ReservationRow == [sku : Skus, quantity : Nat \ {0}, status : {"RESERVED", "RELEASED"}]

InventoryTypeOK ==
    /\ items \in [Stocked -> ItemRow]
    /\ DOMAIN reservations \subseteq OrderIds
    /\ \A o \in DOMAIN reservations : reservations[o] \in ReservationRow
    /\ invOutbox \in Seq(Event)
    /\ invProcessed \subseteq EventId

InventoryInit ==
    /\ items = [s \in Stocked |-> [available |-> InitialStock[s], reserved |-> 0]]
    /\ reservations = EmptyTable
    /\ invOutbox = <<>>
    /\ invProcessed = {}

InventoryMarks(e) ==
    /\ ShouldProcess(invProcessed, e)
    /\ invProcessed' = invProcessed \cup {e.id}

\* Move n pieces of an item from available to reserved (back when n < 0).
MoveStock(sku, n) ==
    items' = [items EXCEPT ![sku] = [available |-> items[sku].available - n,
                                     reserved |-> items[sku].reserved + n]]

\* mutant: the comparison with the wanted quantity is off by one
EnoughByOne(body) ==
    body.sku \in Stocked /\ items[body.sku].available >= body.quantity - 1

\* The item exists and has the wanted quantity.
InStock(body) ==
    body.sku \in Stocked /\ items[body.sku].available >= body.quantity

\* ON CONFLICT (order_id) sets the status and keeps sku and quantity.
UpsertReservation(o, body) ==
    IF o \in DOMAIN reservations
    THEN [reservations EXCEPT ![o].status = "RESERVED"]
    ELSE Put(reservations, o,
             [sku |-> body.sku, quantity |-> body.quantity, status |-> "RESERVED"])

HandleReserve(e) ==
    /\ e.type = "ReserveInventoryRequested"
    /\ InStock(e.body)
    /\ InventoryMarks(e)
    /\ MoveStock(e.body.sku, e.body.quantity)
    /\ reservations' = UpsertReservation(e.order, e.body)
    /\ invOutbox' = Append(invOutbox,
                       [id |-> NextId("inventory", invOutbox),
                        type |-> "InventoryReserved", order |-> e.order,
                        amount |-> e.body.amount, currency |-> e.body.currency])

HandleReject(e) ==
    /\ e.type = "ReserveInventoryRequested"
    /\ ~InStock(e.body)
    /\ InventoryMarks(e)
    /\ invOutbox' = Append(invOutbox,
                       [id |-> NextId("inventory", invOutbox),
                        type |-> "InventoryRejected", order |-> e.order])
    /\ UNCHANGED <<items, reservations>>

\* The reservation the release finds: SELECT ... WHERE status = 'RESERVED'.
Held(o) == o \in DOMAIN reservations /\ reservations[o].status = "RESERVED"

\* mutant: the release returns the pieces and leaves the reservation RESERVED
ReleaseKeepsRow(e) ==
    /\ e.type = "ReleaseInventory"
    /\ InventoryMarks(e)
    /\ IF Held(e.order)
       THEN MoveStock(reservations[e.order].sku, -reservations[e.order].quantity)
       ELSE UNCHANGED items
    /\ UNCHANGED <<reservations, invOutbox>>

HandleRelease(e) ==
    /\ e.type = "ReleaseInventory"
    /\ InventoryMarks(e)
    /\ IF Held(e.order)
       THEN /\ MoveStock(reservations[e.order].sku, -reservations[e.order].quantity)
            /\ reservations' = [reservations EXCEPT ![e.order].status = "RELEASED"]
       ELSE UNCHANGED <<items, reservations>>
    /\ UNCHANGED invOutbox

HandleInventoryCommand(e) == HandleReserve(e) \/ HandleReject(e) \/ HandleRelease(e)

=============================================================================
