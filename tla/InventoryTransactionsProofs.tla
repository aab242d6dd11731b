-------------------- MODULE InventoryTransactionsProofs --------------------
(***************************************************************************)
(* The transactions of the inventory service have the effect of the atomic *)
(* handlers, for any number of consumers, commands and items.              *)
(***************************************************************************)
EXTENDS InventoryTransactions, TLAPS

USE DEF EmptyTable, Put, NoRow

----------------------------------------------------------------------------
(* Types. *)

LEMMA CommandTypes ==
    ASSUME NEW e \in Commands
    PROVE  /\ e \in Event /\ e.id \in EventId /\ e.order \in OrderIds
           /\ e.type \in {"ReserveInventoryRequested", "ReleaseInventory"}
           /\ e.type = "ReserveInventoryRequested" => e.body \in Body
BY CommandsAssumption DEF Event, ReserveEvents, PricedEvents, PlainEvents

LEMMA SameCommand ==
    ASSUME NEW e \in Commands, NEW f \in Commands,
           e.id = f.id \/ (e.order = f.order /\ e.type = f.type)
    PROVE  e = f
BY CommandsAssumption

LEMMA LockTypes ==
    /\ \A e \in Commands : EventKey(e) \in Locks
    /\ \A s \in Skus : ItemRowOf(s) \in Locks
    /\ \A o \in OrderIds : ReservationOf(o) \in Locks
BY DEF Locks

\* What a handler does to the tables and the outbox is well-typed.
LEMMA HandlerTypes ==
    ASSUME InventoryTypeOK, NEW e \in Commands, HandleInventoryCommand(e)
    PROVE  InventoryTypeOK'
<1> USE DEF InventoryTypeOK
<1>1. /\ e.id \in EventId /\ e.order \in OrderIds
      /\ e.type = "ReserveInventoryRequested" => e.body \in Body
  BY CommandTypes
<1>2. NextId("inventory", invOutbox) \in EventId
  BY DEF NextId, EventId, Services
<1>3. CASE HandleReserve(e)
  <2>1. /\ e.body.sku \in Skus /\ e.body.quantity \in Nat \ {0}
        /\ e.body.amount \in Nat \ {0} /\ e.body.currency \in Currencies
    BY <1>1, <1>3 DEF HandleReserve, Body
  <2>2. items' \in [Stocked -> ItemRow]
    BY <1>3, <2>1 DEF HandleReserve, MoveStock, InStock, ItemRow
  <2>3. /\ DOMAIN reservations' \subseteq OrderIds
        /\ \A o \in DOMAIN reservations' : reservations'[o] \in ReservationRow
    <3>1. CASE e.order \in DOMAIN reservations
      BY <1>1, <1>3, <3>1 DEF HandleReserve, UpsertReservation, ReservationRow
    <3>2. CASE e.order \notin DOMAIN reservations
      BY <1>1, <1>3, <2>1, <3>2 DEF HandleReserve, UpsertReservation, ReservationRow
    <3> QED BY <3>1, <3>2
  <2>4. [id |-> NextId("inventory", invOutbox), type |-> "InventoryReserved",
         order |-> e.order, amount |-> e.body.amount,
         currency |-> e.body.currency] \in Event
    BY <1>1, <1>2, <2>1 DEF Event, PricedEvents
  <2>5. invOutbox' \in Seq(Event)
    BY <1>3, <2>4 DEF HandleReserve
  <2> QED BY <1>1, <1>3, <2>2, <2>3, <2>5 DEF HandleReserve, InventoryMarks
<1>4. CASE HandleReject(e)
  <2>1. [id |-> NextId("inventory", invOutbox), type |-> "InventoryRejected",
         order |-> e.order] \in Event
    BY <1>1, <1>2 DEF Event, PlainEvents
  <2> QED BY <1>1, <1>4, <2>1 DEF HandleReject, InventoryMarks
<1>5. CASE HandleRelease(e)
  <2>1. CASE Held(e.order)
    <3>1. reservations[e.order].quantity \in Nat /\ reservations[e.order].sku \in Skus
      BY <2>1 DEF Held, ReservationRow
    <3>2. items' \in [Stocked -> ItemRow]
      <4>1. items' = [items EXCEPT ![reservations[e.order].sku] =
                [available |-> items[reservations[e.order].sku].available
                                   - (-reservations[e.order].quantity),
                 reserved  |-> items[reservations[e.order].sku].reserved
                                   + (-reservations[e.order].quantity)]]
        BY <1>5, <2>1 DEF HandleRelease, MoveStock
      <4>2. ASSUME NEW i \in Int, NEW n \in Nat PROVE i - (-n) \in Int /\ i + (-n) \in Int
        OBVIOUS
      <4>3. reservations[e.order].sku \in Stocked =>
               /\ items[reservations[e.order].sku].available \in Int
               /\ items[reservations[e.order].sku].reserved \in Int
        BY DEF ItemRow
      <4>4. reservations[e.order].sku \in Stocked =>
               [available |-> items[reservations[e.order].sku].available
                                  - (-reservations[e.order].quantity),
                reserved  |-> items[reservations[e.order].sku].reserved
                                  + (-reservations[e.order].quantity)] \in ItemRow
        BY <3>1, <4>2, <4>3 DEF ItemRow
      <4> QED BY <4>1, <4>4
    <3>3. /\ DOMAIN reservations' \subseteq OrderIds
          /\ \A o \in DOMAIN reservations' : reservations'[o] \in ReservationRow
      <4>1. /\ e.order \in DOMAIN reservations
            /\ reservations' = [reservations EXCEPT ![e.order].status = "RELEASED"]
        BY <1>5, <2>1 DEF HandleRelease, Held
      <4> QED BY <4>1 DEF ReservationRow
    <3> QED BY <1>1, <1>5, <3>2, <3>3 DEF HandleRelease, InventoryMarks
  <2>2. CASE ~Held(e.order)
    BY <1>1, <1>5, <2>2 DEF HandleRelease, InventoryMarks
  <2> QED BY <2>1, <2>2
<1> QED BY <1>3, <1>4, <1>5 DEF HandleInventoryCommand

LEMMA OpenTypes ==
    ASSUME TransactionsInv, NEW w \in DOMAIN tx
    PROVE  /\ w \in Workers /\ tx[w] \in Transaction
           /\ tx[w].event \in Commands /\ tx[w].locks \subseteq Locks
BY DEF TransactionsInv, TransactionsTypeOK, Transaction

----------------------------------------------------------------------------
(* A statement inside a transaction takes a lock that is free, or none, and *)
(* commits nothing.                                                         *)

LEMMA InsideStep ==
    ASSUME TransactionsInv, NEW w \in DOMAIN tx, NEW new \in Transaction,
           NEW taken \in SUBSET Locks, \A lock \in taken : Free(w, lock),
           new.event = tx[w].event, new.locks = tx[w].locks \cup taken,
           tx' = [tx EXCEPT ![w] = new], UNCHANGED <<inventoryVars, faults>>,
           new.at \notin {"begun", "nothing"} =>
              EventKey(new.event) \in new.locks /\ new.event.id \notin invProcessed,
           new.at = "nothing" => new.event.id \in invProcessed,
           new.event.type = "ReserveInventoryRequested" =>
              /\ new.at \in {"enough", "short", "moved", "kept"} /\ new.event.body.sku \in Stocked
                    => ItemRowOf(new.event.body.sku) \in new.locks
              /\ new.at \in {"enough", "moved", "kept"} => InStock(new.event.body)
              /\ new.at = "short" => ~InStock(new.event.body),
           new.event.type = "ReleaseInventory" /\ new.at \in {"found", "moved", "kept"} =>
              Held(new.event.order) /\ new.row = reservations[new.event.order],
           new.event.type = "ReleaseInventory" /\ new.at \in {"moved", "kept"} =>
              ItemRowOf(new.row.sku) \in new.locks
    PROVE  TransactionsInv'
<1>1. /\ DOMAIN tx' = DOMAIN tx /\ tx'[w] = new
      /\ \A v \in DOMAIN tx : v # w => tx'[v] = tx[v]
  OBVIOUS
<1>2. UNCHANGED <<items, reservations, invOutbox, invProcessed, faults>>
  BY DEF inventoryVars
<1>3. \A b : InStock(b)' <=> InStock(b)
  BY <1>2 DEF InStock
<1>4. \A o : Held(o)' <=> Held(o)
  BY <1>2 DEF Held
<1>5. TransactionsTypeOK'
  BY <1>1, <1>2 DEF TransactionsInv, TransactionsTypeOK, InventoryTypeOK
<1>6. LocksTaken'
  BY <1>1 DEF TransactionsInv, LocksTaken
<1>7. LocksExclude'
  BY <1>1 DEF TransactionsInv, LocksExclude, Free
<1>8. MarkedIsNew'
  BY <1>1, <1>2 DEF TransactionsInv, MarkedIsNew
<1>9. ReleaseIsDue'
  BY <1>1, <1>2, <1>4 DEF TransactionsInv, ReleaseIsDue
<1>10. ReadsStayTrue'
  BY <1>1, <1>2, <1>3, <1>4 DEF TransactionsInv, ReadsStayTrue
<1> QED BY <1>5, <1>6, <1>7, <1>8, <1>9, <1>10 DEF TransactionsInv

----------------------------------------------------------------------------
(* The end of a transaction. *)

\* COMMIT changes only items the transaction has locked, and takes away no
\* reservation but the one it releases: what others have read stays true.
LEMMA CommitKeeps ==
    ASSUME TransactionsInv, NEW w \in DOMAIN tx, Commits(w), InventoryTypeOK',
           tx[w].at \notin {"begun"},
           \A s \in Stocked : ItemRowOf(s) \notin tx[w].locks => items'[s] = items[s],
           \A o : Held(o) =>
              \/ Held(o)' /\ reservations'[o] = reservations[o]
              \/ tx[w].event.type = "ReleaseInventory" /\ tx[w].event.order = o
    PROVE  TransactionsInv'
<1> DEFINE e == tx[w].event
<1>1. /\ DOMAIN tx' = DOMAIN tx \ {w}
      /\ \A v \in DOMAIN tx' : tx'[v] = tx[v]
      /\ invProcessed' = invProcessed \cup {e.id} /\ faults' = faults
  BY DEF Commits, Without
<1>2. ASSUME NEW v \in DOMAIN tx', tx[v].at \notin {"begun", "nothing"}
      PROVE  tx[v].event.id # e.id
  <2>1. EventKey(tx[v].event) \in tx[v].locks /\ tx[v].event.id \notin invProcessed
    BY <1>1, <1>2 DEF TransactionsInv, LocksTaken, MarkedIsNew
  <2>2. SUFFICES ASSUME tx[v].event.id = e.id PROVE FALSE
    OBVIOUS
  <2>3. tx[w].at # "nothing"
    BY <2>1, <2>2 DEF TransactionsInv, MarkedIsNew
  <2>4. EventKey(e) \in tx[w].locks
    BY <2>3 DEF TransactionsInv, LocksTaken
  <2>5. EventKey(e) = EventKey(tx[v].event)
    BY <2>2 DEF EventKey
  <2> QED BY <1>1, <2>1, <2>4, <2>5 DEF TransactionsInv, LocksExclude
<1>3. TransactionsTypeOK'
  BY <1>1 DEF TransactionsInv, TransactionsTypeOK
<1>4. LocksTaken' /\ LocksExclude'
  BY <1>1 DEF TransactionsInv, LocksTaken, LocksExclude
<1>5. MarkedIsNew'
  BY <1>1, <1>2 DEF TransactionsInv, MarkedIsNew
<1>6. ASSUME NEW v \in DOMAIN tx', tx[v].event.type = "ReleaseInventory",
             tx[v].event.id # e.id, Held(tx[v].event.order)
      PROVE  /\ Held(tx[v].event.order)'
             /\ reservations'[tx[v].event.order] = reservations[tx[v].event.order]
  <2>1. ~(e.type = "ReleaseInventory" /\ e.order = tx[v].event.order)
    BY <1>1, <1>6, OpenTypes, SameCommand
  <2>2. tx'[v].event = tx[v].event
    BY <1>1
  <2> QED BY <1>6, <2>1, <2>2 DEF Held
<1>7. ReleaseIsDue'
  BY <1>1, <1>6 DEF TransactionsInv, ReleaseIsDue, Held
<1>8. ASSUME NEW v \in DOMAIN tx', tx[v].event.type = "ReserveInventoryRequested",
             tx[v].at \in {"enough", "short", "moved", "kept"}
      PROVE  InStock(tx[v].event.body)' <=> InStock(tx[v].event.body)
  <2>1. tx[v].event.body.sku \in Stocked => ItemRowOf(tx[v].event.body.sku) \notin tx[w].locks
    BY <1>1, <1>8 DEF TransactionsInv, LocksTaken, LocksExclude
  <2>2. tx'[v] = tx[v]
    BY <1>1
  <2> QED BY <2>1, <2>2 DEF InStock
<1>9. ReadsStayTrue'
  BY <1>1, <1>2, <1>6, <1>8 DEF TransactionsInv, ReadsStayTrue, Held
<1> QED BY <1>3, <1>4, <1>5, <1>7, <1>9 DEF TransactionsInv

LEMMA RollbackStep ==
    ASSUME NEW w \in Workers PROVE TransactionsInv /\ Rollback(w) => TransactionsInv'
<1> SUFFICES ASSUME TransactionsInv, Rollback(w) PROVE TransactionsInv'
  OBVIOUS
<1>1. /\ DOMAIN tx' = DOMAIN tx \ {w}
      /\ \A v \in DOMAIN tx' : tx'[v] = tx[v]
      /\ UNCHANGED <<items, reservations, invOutbox, invProcessed>>
  BY DEF Rollback, Without, inventoryVars
<1>2. faults' \in 0..MaxFaults
  BY MaxFaultsAssumption DEF Rollback, TransactionsInv, TransactionsTypeOK
<1>3. TransactionsTypeOK'
  BY <1>1, <1>2 DEF TransactionsInv, TransactionsTypeOK, InventoryTypeOK
<1>4. LocksTaken' /\ LocksExclude' /\ MarkedIsNew'
  BY <1>1 DEF TransactionsInv, LocksTaken, LocksExclude, MarkedIsNew
<1>5. ReleaseIsDue' /\ ReadsStayTrue'
  BY <1>1 DEF TransactionsInv, ReleaseIsDue, ReadsStayTrue, Held, InStock
<1> QED BY <1>3, <1>4, <1>5 DEF TransactionsInv

----------------------------------------------------------------------------
(* The statements. *)

LEMMA BeginStep ==
    ASSUME NEW w \in Workers, NEW e \in Commands
    PROVE  TransactionsInv /\ Begin(w, e) => TransactionsInv'
<1> SUFFICES ASSUME TransactionsInv, Begin(w, e) PROVE TransactionsInv'
  OBVIOUS
<1> DEFINE new == [event |-> e, at |-> "begun", locks |-> {}, row |-> NoRow]
<1>1. /\ w \notin DOMAIN tx
      /\ DOMAIN tx' = DOMAIN tx \cup {w} /\ tx'[w] = new
      /\ \A v \in DOMAIN tx : tx'[v] = tx[v]
      /\ UNCHANGED <<items, reservations, invOutbox, invProcessed, faults>>
  BY DEF Begin, inventoryVars
<1>2. new \in Transaction
  BY DEF Transaction
<1>3. TransactionsTypeOK'
  BY <1>1, <1>2 DEF TransactionsInv, TransactionsTypeOK, InventoryTypeOK
<1>4. LocksTaken' /\ LocksExclude' /\ MarkedIsNew'
  BY <1>1 DEF TransactionsInv, LocksTaken, LocksExclude, MarkedIsNew
<1>5. ReleaseIsDue'
  BY <1>1 DEF TransactionsInv, ReleaseIsDue, Begin, Sent, Held
<1>6. ReadsStayTrue'
  BY <1>1 DEF TransactionsInv, ReadsStayTrue, Held, InStock
<1> QED BY <1>3, <1>4, <1>5, <1>6 DEF TransactionsInv

LEMMA MarkStep ==
    ASSUME NEW w \in Workers PROVE TransactionsInv /\ MarkEventProcessed(w) => TransactionsInv'
<1> SUFFICES ASSUME TransactionsInv, MarkEventProcessed(w) PROVE TransactionsInv'
  OBVIOUS
<1> DEFINE t == tx[w]
<1>1. w \in DOMAIN tx /\ t.at = "begun" /\ t \in Transaction /\ t.event \in Commands
  BY OpenTypes DEF MarkEventProcessed
<1>2. CASE t.event.id \notin invProcessed
  <2> DEFINE new == [t EXCEPT !.at = "marked", !.locks = @ \cup {EventKey(t.event)}]
  <2>1. /\ Free(w, EventKey(t.event))
        /\ tx' = [tx EXCEPT ![w] = new]
        /\ UNCHANGED <<inventoryVars, faults>>
    BY <1>2 DEF MarkEventProcessed, Statement, ShouldProcess
  <2>2. {EventKey(t.event)} \subseteq Locks
    BY <1>1, LockTypes
  <2>3. /\ new \in Transaction /\ new.event = t.event /\ new.at = "marked"
        /\ new.locks = t.locks \cup {EventKey(t.event)}
    BY <1>1, <2>2 DEF Transaction
  <2> HIDE DEF new
  <2> QED BY <1>1, <1>2, <2>1, <2>2, <2>3, InsideStep
<1>3. CASE t.event.id \in invProcessed
  <2> DEFINE new == [t EXCEPT !.at = "nothing"]
  <2>1. tx' = [tx EXCEPT ![w] = new] /\ UNCHANGED <<inventoryVars, faults>>
    BY <1>3 DEF MarkEventProcessed, ShouldProcess
  <2>2. /\ new \in Transaction /\ new.event = t.event /\ new.at = "nothing"
        /\ new.locks = t.locks \cup {}
    BY <1>1 DEF Transaction
  <2> HIDE DEF new
  <2>3. {} \in SUBSET Locks /\ \A lock \in {} : Free(w, lock)
    OBVIOUS
  <2>4. new.event.id \in invProcessed /\ new.at \notin {"enough", "short", "found", "moved", "kept"}
    BY <1>3, <2>2
  <2> QED BY <1>1, <2>1, <2>2, <2>3, <2>4, InsideStep
<1> QED BY <1>2, <1>3

\* The statements of a reservation lock the item it is about and leave alone
\* what was read of it.
LEMMA ReserveStep ==
    ASSUME NEW w \in Workers
    PROVE  TransactionsInv /\ (SelectItemForUpdate(w) \/ TakeStock(w) \/ KeepReservation(w))
              => TransactionsInv'
<1> SUFFICES ASSUME TransactionsInv,
                    SelectItemForUpdate(w) \/ TakeStock(w) \/ KeepReservation(w)
             PROVE  TransactionsInv'
  OBVIOUS
<1> DEFINE t == tx[w]
           item == ItemRowOf(t.event.body.sku)
<1>1. /\ w \in DOMAIN tx /\ t \in Transaction /\ t.event \in Commands
      /\ t.event.type = "ReserveInventoryRequested"
      /\ t.at \in {"marked", "enough", "moved"}
  BY OpenTypes DEF SelectItemForUpdate, TakeStock, KeepReservation, Open
<1>2. t.event.body.sku \in Skus /\ t.event.order \in OrderIds
  BY <1>1, CommandTypes DEF Body
<1>3. EventKey(t.event) \in t.locks /\ t.event.id \notin invProcessed
  BY <1>1 DEF TransactionsInv, LocksTaken, MarkedIsNew
<1>4. ASSUME NEW lock \in Locks, NEW place \in {"enough", "short", "moved", "kept"},
             Statement(w, lock, place), item \in t.locks \cup {lock},
             place # "short" => InStock(t.event.body),
             place = "short" => ~InStock(t.event.body)
      PROVE  TransactionsInv'
  <2> DEFINE new == [t EXCEPT !.at = place, !.locks = @ \cup {lock}]
  <2>1. /\ Free(w, lock) /\ tx' = [tx EXCEPT ![w] = new]
        /\ UNCHANGED <<inventoryVars, faults>>
    BY <1>4 DEF Statement
  <2>2. /\ new \in Transaction /\ new.event = t.event /\ new.at = place
        /\ new.locks = t.locks \cup {lock}
    BY <1>1 DEF Transaction
  <2> HIDE DEF new
  <2> QED BY <1>1, <1>3, <1>4, <2>1, <2>2, InsideStep
<1>5. item \in Locks /\ ReservationOf(t.event.order) \in Locks
  BY <1>2, LockTypes
<1>6. CASE SelectItemForUpdate(w)
  <2>1. CASE t.event.body.sku \in Stocked
    <3>1. Statement(w, item, IF InStock(t.event.body) THEN "enough" ELSE "short")
      BY <1>6, <2>1 DEF SelectItemForUpdate
    <3> QED BY <1>4, <1>5, <3>1
  <2>2. CASE t.event.body.sku \notin Stocked
    <3> DEFINE new == [t EXCEPT !.at = "short"]
    <3>1. /\ tx' = [tx EXCEPT ![w] = new] /\ UNCHANGED <<inventoryVars, faults>>
          /\ ~InStock(t.event.body)
      BY <1>6, <2>2 DEF SelectItemForUpdate, InStock
    <3>2. /\ new \in Transaction /\ new.event = t.event /\ new.at = "short"
          /\ new.locks = t.locks \cup {}
      BY <1>1 DEF Transaction
    <3>3. {} \in SUBSET Locks /\ \A lock \in {} : Free(w, lock)
      OBVIOUS
    <3> HIDE DEF new
    <3> QED BY <1>1, <1>3, <2>2, <3>1, <3>2, <3>3, InsideStep
  <2> QED BY <2>1, <2>2
<1>7. CASE TakeStock(w)
  <2>1. Statement(w, item, "moved") /\ t.at = "enough"
    BY <1>7 DEF TakeStock, Open
  <2>2. InStock(t.event.body)
    BY <1>1, <2>1 DEF TransactionsInv, ReadsStayTrue
  <2> QED BY <1>4, <1>5, <2>1, <2>2
<1>8. CASE KeepReservation(w)
  <2>1. Statement(w, ReservationOf(t.event.order), "kept") /\ t.at = "moved"
    BY <1>8 DEF KeepReservation, Open
  <2>2. InStock(t.event.body) /\ item \in t.locks
    BY <1>1, <2>1 DEF TransactionsInv, ReadsStayTrue, LocksTaken, InStock
  <2> QED BY <1>4, <1>5, <2>1, <2>2
<1> QED BY <1>6, <1>7, <1>8

\* Those of a release: the reservation is there although its SELECT locks
\* nothing.
LEMMA ReleaseStep ==
    ASSUME NEW w \in Workers
    PROVE  TransactionsInv /\ (SelectReservation(w) \/ ReturnStock(w) \/ ReleaseReservation(w))
              => TransactionsInv'
<1> SUFFICES ASSUME TransactionsInv,
                    SelectReservation(w) \/ ReturnStock(w) \/ ReleaseReservation(w)
             PROVE  TransactionsInv'
  OBVIOUS
<1> DEFINE t == tx[w]
           o == t.event.order
<1>1. /\ w \in DOMAIN tx /\ t \in Transaction /\ t.event \in Commands
      /\ t.event.type = "ReleaseInventory" /\ t.at \in {"marked", "found", "moved"}
  BY OpenTypes DEF SelectReservation, ReturnStock, ReleaseReservation, Open
<1>2. /\ EventKey(t.event) \in t.locks /\ t.event.id \notin invProcessed
      /\ Held(o)
  BY <1>1 DEF TransactionsInv, LocksTaken, MarkedIsNew, ReleaseIsDue
<1>3. reservations[o] \in ReservationRow /\ o \in OrderIds
  BY <1>2 DEF Held, TransactionsInv, TransactionsTypeOK, InventoryTypeOK
<1>4. ASSUME NEW taken \in SUBSET Locks, \A lock \in taken : Free(w, lock),
             NEW new \in Transaction, tx' = [tx EXCEPT ![w] = new],
             UNCHANGED <<inventoryVars, faults>>,
             new.event = t.event, new.locks = t.locks \cup taken,
             new.at \in {"found", "moved", "kept"}, new.row = reservations[o],
             new.at # "found" => ItemRowOf(new.row.sku) \in new.locks
      PROVE  TransactionsInv'
  BY <1>1, <1>2, <1>4, InsideStep
<1>5. CASE SelectReservation(w)
  <2> DEFINE new == [t EXCEPT !.at = "found", !.row = reservations[o]]
  <2>1. tx' = [tx EXCEPT ![w] = new] /\ UNCHANGED <<inventoryVars, faults>>
    BY <1>2, <1>5 DEF SelectReservation
  <2>2. /\ new \in Transaction /\ new.event = t.event /\ new.locks = t.locks \cup {}
        /\ new.at = "found" /\ new.row = reservations[o]
    BY <1>1, <1>3 DEF Transaction
  <2> HIDE DEF new
  <2> QED BY <1>4, <2>1, <2>2
<1>6. ASSUME NEW lock \in Locks, NEW place \in {"moved", "kept"}, Statement(w, lock, place),
             t.row = reservations[o], ItemRowOf(t.row.sku) \in t.locks \cup {lock}
      PROVE  TransactionsInv'
  <2> DEFINE new == [t EXCEPT !.at = place, !.locks = @ \cup {lock}]
  <2>1. /\ Free(w, lock) /\ tx' = [tx EXCEPT ![w] = new]
        /\ UNCHANGED <<inventoryVars, faults>>
    BY <1>6 DEF Statement
  <2>2. /\ new \in Transaction /\ new.event = t.event /\ new.locks = t.locks \cup {lock}
        /\ new.at = place /\ new.row = t.row
    BY <1>1 DEF Transaction
  <2> HIDE DEF new
  <2> QED BY <1>4, <1>6, <2>1, <2>2
<1>7. CASE ReturnStock(w)
  <2>1. Statement(w, ItemRowOf(t.row.sku), "moved") /\ t.at = "found"
    BY <1>7 DEF ReturnStock, Open
  <2>2. t.row = reservations[o]
    BY <1>1, <2>1 DEF TransactionsInv, ReadsStayTrue
  <2>3. ItemRowOf(t.row.sku) \in Locks
    BY <1>3, <2>2, LockTypes DEF ReservationRow
  <2> QED BY <1>6, <2>1, <2>2, <2>3
<1>8. CASE ReleaseReservation(w)
  <2>1. Statement(w, ReservationOf(o), "kept") /\ t.at = "moved"
    BY <1>8 DEF ReleaseReservation, Open
  <2>2. t.row = reservations[o] /\ ItemRowOf(t.row.sku) \in t.locks
    BY <1>1, <2>1 DEF TransactionsInv, ReadsStayTrue, LocksTaken
  <2> QED BY <1>3, <1>6, <2>1, <2>2, LockTypes
<1> QED BY <1>5, <1>7, <1>8

----------------------------------------------------------------------------
(* Each COMMIT is a step of the handler, or of nobody. *)

LEMMA CommitReservedShows ==
    ASSUME TransactionsInv, NEW w \in Workers, CommitReserved(w)
    PROVE  HandleReserve(tx[w].event)
<1>1. /\ w \in DOMAIN tx /\ tx[w].at = "kept"
      /\ tx[w].event.type = "ReserveInventoryRequested"
  BY DEF CommitReserved, Open
<1>2. InStock(tx[w].event.body) /\ tx[w].event.id \notin invProcessed
  BY <1>1 DEF TransactionsInv, ReadsStayTrue, MarkedIsNew
<1> QED BY <1>1, <1>2 DEF CommitReserved, Commits, HandleReserve, InventoryMarks, ShouldProcess

LEMMA CommitRejectedShows ==
    ASSUME TransactionsInv, NEW w \in Workers, CommitRejected(w)
    PROVE  HandleReject(tx[w].event)
<1>1. /\ w \in DOMAIN tx /\ tx[w].at = "short"
      /\ tx[w].event.type = "ReserveInventoryRequested"
  BY DEF CommitRejected, Open
<1>2. ~InStock(tx[w].event.body) /\ tx[w].event.id \notin invProcessed
  BY <1>1 DEF TransactionsInv, ReadsStayTrue, MarkedIsNew
<1> QED BY <1>1, <1>2 DEF CommitRejected, Commits, HandleReject, InventoryMarks, ShouldProcess

LEMMA CommitReleasedShows ==
    ASSUME TransactionsInv, NEW w \in Workers, CommitReleased(w)
    PROVE  HandleRelease(tx[w].event)
<1>1. /\ w \in DOMAIN tx /\ tx[w].at = "kept" /\ tx[w].event.type = "ReleaseInventory"
  BY DEF CommitReleased, Open
<1>2. /\ Held(tx[w].event.order) /\ tx[w].row = reservations[tx[w].event.order]
      /\ tx[w].event.id \notin invProcessed
  BY <1>1 DEF TransactionsInv, ReadsStayTrue, MarkedIsNew
<1> QED BY <1>1, <1>2 DEF CommitReleased, Commits, HandleRelease, InventoryMarks, ShouldProcess

LEMMA CommitNothingShows ==
    ASSUME TransactionsInv, NEW w \in Workers, CommitNothing(w)
    PROVE  UNCHANGED inventoryVars
<1>1. w \in DOMAIN tx /\ tx[w].event.id \in invProcessed
  BY DEF CommitNothing, TransactionsInv, MarkedIsNew
<1> QED BY <1>1 DEF CommitNothing, Commits, inventoryVars

LEMMA CommitStep ==
    ASSUME NEW w \in Workers
    PROVE  TransactionsInv
           /\ (CommitReserved(w) \/ CommitRejected(w) \/ CommitReleased(w) \/ CommitNothing(w))
              => TransactionsInv'
<1> SUFFICES ASSUME TransactionsInv,
                    \/ CommitReserved(w) \/ CommitRejected(w)
                    \/ CommitReleased(w) \/ CommitNothing(w)
             PROVE  TransactionsInv'
  OBVIOUS
<1> DEFINE e == tx[w].event
<1>1. w \in DOMAIN tx /\ Commits(w) /\ e \in Commands /\ InventoryTypeOK
  BY OpenTypes DEF CommitReserved, CommitRejected, CommitReleased, CommitNothing, Open,
     TransactionsInv, TransactionsTypeOK
<1>2. CASE CommitReserved(w)
  <2>1. HandleReserve(e)
    BY <1>2, CommitReservedShows
  <2>2. InventoryTypeOK'
    BY <1>1, <2>1, HandlerTypes DEF HandleInventoryCommand
  <2>3. tx[w].at = "kept" /\ e.type = "ReserveInventoryRequested"
    BY <1>2 DEF CommitReserved, Open
  <2>4. ItemRowOf(e.body.sku) \in tx[w].locks
    BY <1>1, <2>3 DEF TransactionsInv, LocksTaken, ReadsStayTrue, InStock
  <2>5. \A s \in Stocked : ItemRowOf(s) \notin tx[w].locks => items'[s] = items[s]
    BY <1>1, <2>1, <2>4 DEF HandleReserve, MoveStock, InventoryTypeOK
  <2>6. ASSUME NEW o, Held(o) PROVE Held(o)' /\ reservations'[o] = reservations[o]
    BY <1>1, <2>1, <2>6 DEF HandleReserve, UpsertReservation, Held, InventoryTypeOK, ReservationRow
  <2> QED BY <1>1, <2>2, <2>3, <2>5, <2>6, CommitKeeps
<1>3. CASE CommitRejected(w)
  <2>1. HandleReject(e)
    BY <1>3, CommitRejectedShows
  <2>2. InventoryTypeOK'
    BY <1>1, <2>1, HandlerTypes DEF HandleInventoryCommand
  <2>3. tx[w].at = "short" /\ UNCHANGED <<items, reservations>>
    BY <1>3 DEF CommitRejected, Open
  <2> QED BY <1>1, <2>2, <2>3, CommitKeeps DEF Held
<1>4. CASE CommitReleased(w)
  <2>1. HandleRelease(e)
    BY <1>4, CommitReleasedShows
  <2>2. InventoryTypeOK'
    BY <1>1, <2>1, HandlerTypes DEF HandleInventoryCommand
  <2>3. /\ tx[w].at = "kept" /\ e.type = "ReleaseInventory"
        /\ MoveStock(tx[w].row.sku, -tx[w].row.quantity)
        /\ reservations' = [reservations EXCEPT ![e.order].status = "RELEASED"]
    BY <1>4 DEF CommitReleased, Open
  <2>4. ItemRowOf(tx[w].row.sku) \in tx[w].locks
    BY <1>1, <2>3 DEF TransactionsInv, LocksTaken
  <2>5. \A s \in Stocked : ItemRowOf(s) \notin tx[w].locks => items'[s] = items[s]
    BY <1>1, <2>3, <2>4 DEF MoveStock, InventoryTypeOK
  <2>6. ASSUME NEW o, Held(o), o # e.order PROVE Held(o)' /\ reservations'[o] = reservations[o]
    BY <2>3, <2>6 DEF Held
  <2> QED BY <1>1, <2>2, <2>3, <2>5, <2>6, CommitKeeps
<1>5. CASE CommitNothing(w)
  <2>1. UNCHANGED inventoryVars /\ tx[w].at = "nothing"
    BY <1>5, CommitNothingShows DEF CommitNothing
  <2> QED BY <1>1, <2>1, CommitKeeps DEF inventoryVars, Held, InventoryTypeOK
<1> QED BY <1>2, <1>3, <1>4, <1>5

----------------------------------------------------------------------------
(* The theorems. *)

\* Locks, and what a transaction may rely on because of them.
THEOREM TransactionsInvariant == Spec => []TransactionsInv
<1>1. TransactionsInit => TransactionsInv
  BY StockAssumption, MaxFaultsAssumption
  DEF TransactionsInit, InventoryInit, TransactionsInv, TransactionsTypeOK, InventoryTypeOK,
      ItemRow, LocksTaken, LocksExclude, MarkedIsNew, ReleaseIsDue, ReadsStayTrue, Stocked
<1>2. TransactionsInv /\ [Next]_txVars => TransactionsInv'
  <2>1. TransactionsInv /\ UNCHANGED txVars => TransactionsInv'
    BY DEF txVars, TransactionsInv, TransactionsTypeOK, InventoryTypeOK, LocksTaken,
           LocksExclude, MarkedIsNew, ReleaseIsDue, ReadsStayTrue, InStock, Held
  <2> QED
    BY <2>1, BeginStep, MarkStep, ReserveStep, ReleaseStep, CommitStep, RollbackStep
    DEF Next, Proceed
<1> QED BY <1>1, <1>2, PTL DEF Spec

\* What a statement has read is still so when the transaction commits.
THEOREM TransactionsReadTruth == Spec => []ReadsStayTrue
<1>1. TransactionsInv => ReadsStayTrue
  BY DEF TransactionsInv
<1> QED BY <1>1, TransactionsInvariant, PTL

\* The interleaved statements have the effect of one atomic handler at a time.
THEOREM TransactionsImplementAtomic == Spec => ImplementsAtomic
<1>1. TransactionsInit => InventoryInit
  BY DEF TransactionsInit
<1>2. TransactionsInv /\ [Next]_txVars =>
         [\E e \in Commands : HandleInventoryCommand(e)]_inventoryVars
  <2> SUFFICES ASSUME TransactionsInv, [Next]_txVars
               PROVE  \/ \E e \in Commands : HandleInventoryCommand(e)
                      \/ UNCHANGED inventoryVars
    OBVIOUS
  <2>1. ASSUME NEW w \in Workers, CommitReserved(w) \/ CommitRejected(w) \/ CommitReleased(w)
        PROVE  \E e \in Commands : HandleInventoryCommand(e)
    <3>1. w \in DOMAIN tx /\ tx[w].event \in Commands
      BY <2>1, OpenTypes DEF CommitReserved, CommitRejected, CommitReleased, Open
    <3> QED BY <2>1, <3>1, CommitReservedShows, CommitRejectedShows, CommitReleasedShows
            DEF HandleInventoryCommand
  <2>2. CASE UNCHANGED txVars
    BY <2>2 DEF txVars, inventoryVars
  <2> QED
    BY <2>1, <2>2, CommitNothingShows
    DEF Next, Proceed, Begin, MarkEventProcessed, Statement, SelectItemForUpdate, TakeStock,
        KeepReservation, SelectReservation, ReturnStock, ReleaseReservation, Rollback
<1> QED BY <1>1, <1>2, TransactionsInvariant, PTL DEF Spec, ImplementsAtomic

=============================================================================
