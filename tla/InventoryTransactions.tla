----------------------- MODULE InventoryTransactions -----------------------
(***************************************************************************)
(* The transactions of apps/inventory-service statement by statement.      *)
(* Each consumer process has one open at a time (withTransaction); they    *)
(* run READ COMMITTED, so a statement sees what others have committed, and *)
(* waits for a row that another open transaction has written or locked.    *)
(* What a transaction has written is in its record until COMMIT.           *)
(***************************************************************************)
EXTENDS InventoryService

CONSTANTS
    Workers,    \* consumer processes, those that are about to lose their partition among them
    Commands,   \* the commands the topic will carry
    MaxFaults   \* bound: transactions that are rolled back

\* The saga sends an order at most one command of each type (EachStepOnce in
\* OrderSaga).
ASSUME CommandsAssumption ==
    /\ Commands \subseteq Event
    /\ \A e \in Commands : e.type \in {"ReserveInventoryRequested", "ReleaseInventory"}
    /\ \A e, f \in Commands : e.id = f.id \/ (e.order = f.order /\ e.type = f.type) => e = f

ASSUME MaxFaultsAssumption == MaxFaults \in Nat

VARIABLES
    tx,      \* worker -> its open transaction
    faults   \* transactions rolled back so far

txVars == <<items, reservations, invOutbox, invProcessed, tx, faults>>

\* What a transaction may have locked: the key it inserts into
\* processed_events, the row of an item, the reservation of an order.
EventKey(e) == <<"event", e.id>>
ItemRowOf(sku) == <<"item", sku>>
ReservationOf(o) == <<"reservation", o>>
Locks == {EventKey(e) : e \in Commands} \cup {ItemRowOf(s) : s \in Skus}
             \cup {ReservationOf(o) : o \in OrderIds}

NoRow == EmptyTable

Transaction ==
    [event : Commands, at : {"begun", "marked", "enough", "found", "moved", "kept",
                             "short", "nothing"},
     locks : SUBSET Locks, row : {NoRow} \cup ReservationRow]

TransactionsInit ==
    /\ InventoryInit
    /\ tx = EmptyTable
    /\ faults = 0

Open(w, place, type) == w \in DOMAIN tx /\ tx[w].at = place /\ tx[w].event.type = type

\* No other open transaction has this lock.
Free(w, lock) == \A v \in DOMAIN tx \ {w} : lock \notin tx[v].locks

\* A statement that takes a lock, and waits for it.
Statement(w, lock, place) ==
    /\ Free(w, lock)
    /\ tx' = [tx EXCEPT ![w].at = place, ![w].locks = @ \cup {lock}]
    /\ UNCHANGED <<inventoryVars, faults>>

Without(w) == [v \in DOMAIN tx \ {w} |-> tx[v]]

----------------------------------------------------------------------------

\* The saga releases an order after its reservation was answered.
Sent(e) ==
    e.type = "ReserveInventoryRequested" \/ Held(e.order)

\* eachMessage hands a command to a worker, once more if need be: BEGIN.
Begin(w, e) ==
    /\ w \notin DOMAIN tx
    /\ Sent(e) \/ e.id \in invProcessed
    /\ tx' = Put(tx, w, [event |-> e, at |-> "begun", locks |-> {}, row |-> NoRow])
    /\ UNCHANGED <<inventoryVars, faults>>

\* mutant: the insert goes through the pool instead of the transaction's client
MarkOutside(w) ==
    /\ w \in DOMAIN tx /\ tx[w].at = "begun"
    /\ tx' = [tx EXCEPT ![w].at = IF tx[w].event.id \in invProcessed
                                  THEN "nothing" ELSE "marked"]
    /\ invProcessed' = invProcessed \cup {tx[w].event.id}
    /\ UNCHANGED <<items, reservations, invOutbox, faults>>

\* mutant: the id is looked up and not inserted
LookUpEvent(w) ==
    /\ w \in DOMAIN tx /\ tx[w].at = "begun"
    /\ tx' = [tx EXCEPT ![w].at = IF tx[w].event.id \in invProcessed
                                  THEN "nothing" ELSE "marked"]
    /\ UNCHANGED <<inventoryVars, faults>>

\* markEventProcessed: the insert waits for an open one of the same id.
MarkEventProcessed(w) ==
    /\ w \in DOMAIN tx /\ tx[w].at = "begun"
    /\ IF ShouldProcess(invProcessed, tx[w].event)
       THEN Statement(w, EventKey(tx[w].event), "marked")
       ELSE /\ tx' = [tx EXCEPT ![w].at = "nothing"]
            /\ UNCHANGED <<inventoryVars, faults>>

\* mutant: SELECT without FOR UPDATE
SelectItemPlain(w) ==
    /\ Open(w, "marked", "ReserveInventoryRequested")
    /\ tx' = [tx EXCEPT ![w].at = IF InStock(tx[w].event.body) THEN "enough" ELSE "short"]
    /\ UNCHANGED <<inventoryVars, faults>>

\* SELECT ... FOR UPDATE, and the comparison with the wanted quantity.  It locks
\* the row it finds: nothing for an unknown sku.
SelectItemForUpdate(w) ==
    /\ Open(w, "marked", "ReserveInventoryRequested")
    /\ LET body == tx[w].event.body
       IN \/ /\ body.sku \in Stocked
             /\ Statement(w, ItemRowOf(body.sku), IF InStock(body) THEN "enough" ELSE "short")
          \/ /\ body.sku \notin Stocked
             /\ tx' = [tx EXCEPT ![w].at = "short"]
             /\ UNCHANGED <<inventoryVars, faults>>

\* The UPDATE of the item of a reservation.
TakeStock(w) ==
    /\ Open(w, "enough", "ReserveInventoryRequested")
    /\ Statement(w, ItemRowOf(tx[w].event.body.sku), "moved")

\* The upsert of the reservation.
KeepReservation(w) ==
    /\ Open(w, "moved", "ReserveInventoryRequested")
    /\ Statement(w, ReservationOf(tx[w].event.order), "kept")

\* SELECT of the reservation, without a lock.
SelectReservation(w) ==
    /\ Open(w, "marked", "ReleaseInventory")
    /\ LET o == tx[w].event.order
       IN tx' = [tx EXCEPT ![w].at = IF Held(o) THEN "found" ELSE "nothing",
                           ![w].row = IF Held(o) THEN reservations[o] ELSE NoRow]
    /\ UNCHANGED <<inventoryVars, faults>>

\* The UPDATE of the item of a release.
ReturnStock(w) ==
    /\ Open(w, "found", "ReleaseInventory")
    /\ Statement(w, ItemRowOf(tx[w].row.sku), "moved")

\* The UPDATE of the reservation of a release.
ReleaseReservation(w) ==
    /\ Open(w, "moved", "ReleaseInventory")
    /\ Statement(w, ReservationOf(tx[w].event.order), "kept")

----------------------------------------------------------------------------
(* COMMIT makes what the transaction wrote visible and lets its locks go.  *)
(* An item keeps the value the UPDATE saw until then, being locked.        *)

Commits(w) ==
    /\ tx' = Without(w)
    /\ invProcessed' = invProcessed \cup {tx[w].event.id}
    /\ UNCHANGED faults

CommitReserved(w) ==
    /\ Open(w, "kept", "ReserveInventoryRequested")
    /\ Commits(w)
    /\ LET e == tx[w].event
       IN /\ MoveStock(e.body.sku, e.body.quantity)
          /\ reservations' = UpsertReservation(e.order, e.body)
          /\ invOutbox' = Append(invOutbox,
                 [id |-> NextId("inventory", invOutbox),
                  type |-> "InventoryReserved", order |-> e.order,
                  amount |-> e.body.amount, currency |-> e.body.currency])

\* mutant: the callback throws for want of stock, and its answer is rolled back
RejectThrows(w) ==
    /\ Open(w, "short", "ReserveInventoryRequested")
    /\ tx' = Without(w)
    /\ UNCHANGED <<inventoryVars, faults>>

CommitRejected(w) ==
    /\ Open(w, "short", "ReserveInventoryRequested")
    /\ Commits(w)
    /\ invOutbox' = Append(invOutbox,
           [id |-> NextId("inventory", invOutbox),
            type |-> "InventoryRejected", order |-> tx[w].event.order])
    /\ UNCHANGED <<items, reservations>>

CommitReleased(w) ==
    /\ Open(w, "kept", "ReleaseInventory")
    /\ Commits(w)
    /\ MoveStock(tx[w].row.sku, -tx[w].row.quantity)
    /\ reservations' = [reservations EXCEPT ![tx[w].event.order].status = "RELEASED"]
    /\ UNCHANGED invOutbox

\* The handler returned early: a second delivery, or nothing to release.
CommitNothing(w) ==
    /\ w \in DOMAIN tx /\ tx[w].at = "nothing"
    /\ Commits(w)
    /\ UNCHANGED <<items, reservations, invOutbox>>

\* A statement fails, or the process or its connection is lost.
Rollback(w) ==
    /\ w \in DOMAIN tx
    /\ faults < MaxFaults
    /\ faults' = faults + 1
    /\ tx' = Without(w)
    /\ UNCHANGED inventoryVars

\* The next statement of an open transaction.
Proceed(w) ==
    \/ MarkEventProcessed(w)
    \/ SelectItemForUpdate(w) \/ TakeStock(w) \/ KeepReservation(w)
    \/ SelectReservation(w) \/ ReturnStock(w) \/ ReleaseReservation(w)
    \/ CommitReserved(w) \/ CommitRejected(w) \/ CommitReleased(w) \/ CommitNothing(w)

Next ==
    \E w \in Workers :
        \/ \E e \in Commands : Begin(w, e)
        \/ Proceed(w)
        \/ Rollback(w)

Spec == TransactionsInit /\ [][Next]_txVars

\* PostgreSQL answers every statement once the lock is free, first come first
\* served, and Kafka delivers a command until its handler has come through.
Fairness ==
    /\ \A w \in Workers : SF_txVars(Proceed(w))
    /\ \A e \in Commands : SF_txVars(e.id \notin invProcessed /\ \E w \in Workers : Begin(w, e))

FairSpec == Spec /\ Fairness

----------------------------------------------------------------------------
(* What the transactions promise. *)

TransactionsTypeOK ==
    /\ InventoryTypeOK
    /\ DOMAIN tx \subseteq Workers
    /\ \A w \in DOMAIN tx : tx[w] \in Transaction
    /\ faults \in 0..MaxFaults

\* What a handler has read in one statement is still so when it commits what
\* follows from it: the item has the pieces a reservation was granted, and the
\* reservation a release found, without a lock, is still there to release.
ReadsStayTrue ==
    \A w \in DOMAIN tx :
        LET t == tx[w] IN
        /\ t.event.type = "ReserveInventoryRequested" =>
              /\ t.at \in {"enough", "moved", "kept"} => InStock(t.event.body)
              /\ t.at = "short" => ~InStock(t.event.body)
        /\ t.event.type = "ReleaseInventory" /\ t.at \in {"found", "moved", "kept"} =>
              Held(t.event.order) /\ t.row = reservations[t.event.order]

\* Whatever the interleaving of their statements, the transactions have the
\* effect of one step each: the handlers of InventoryService, which the saga is
\* composed of.
ImplementsAtomic ==
    InventoryInit /\ [][\E e \in Commands : HandleInventoryCommand(e)]_inventoryVars

\* No two transactions wait for each other, and a command that was sent is
\* handled, the compensations of orders that could not be paid among them.
EverySentIsHandled ==
    \A e \in Commands : Sent(e) ~> e.id \in invProcessed

----------------------------------------------------------------------------
(* The inductive invariant: what a transaction has locked, and what it may *)
(* rely on because of that.                                                *)

\* The locks a transaction has at each of its statements.
LocksTaken ==
    \A w \in DOMAIN tx :
        LET t == tx[w] IN
        /\ t.at \notin {"begun", "nothing"} => EventKey(t.event) \in t.locks
        /\ t.event.type = "ReserveInventoryRequested" =>
              (t.at \in {"enough", "short", "moved", "kept"} /\ t.event.body.sku \in Stocked =>
                  ItemRowOf(t.event.body.sku) \in t.locks)
        /\ t.event.type = "ReleaseInventory" =>
              (t.at \in {"moved", "kept"} => ItemRowOf(t.row.sku) \in t.locks)

\* No two transactions have the same lock.
LocksExclude ==
    \A v, w \in DOMAIN tx : v # w => tx[v].locks \cap tx[w].locks = {}

\* A transaction that has inserted its event id is the first to commit it; one
\* with nothing to do has found it there.
MarkedIsNew ==
    \A w \in DOMAIN tx :
        /\ tx[w].at \notin {"begun", "nothing"} => tx[w].event.id \notin invProcessed
        /\ tx[w].at = "nothing" => tx[w].event.id \in invProcessed

\* Nobody but the release itself takes away the reservation it was sent for,
\* hence it need not lock the row it reads.
ReleaseIsDue ==
    \A w \in DOMAIN tx :
        tx[w].event.type = "ReleaseInventory" /\ tx[w].event.id \notin invProcessed =>
            Held(tx[w].event.order)

\* Together they hold in every reachable state, and each needs the others.
TransactionsInv ==
    /\ TransactionsTypeOK
    /\ LocksTaken /\ LocksExclude
    /\ MarkedIsNew /\ ReleaseIsDue
    /\ ReadsStayTrue

=============================================================================
