---------------------------- MODULE OutboxRelay ----------------------------
(***************************************************************************)
(* The outbox publisher of one service.  startOutboxPublisher starts a     *)
(* batch every interval and never waits for the last one: a batch reads    *)
(* the oldest unpublished rows, then sends and marks them one by one, with *)
(* an await before each, while other batches and the transactions that     *)
(* write rows go on.  All batches of a process send through one producer,  *)
(* whose connect() getProducer calls once.                                 *)
(***************************************************************************)
EXTENDS Naturals, Sequences, FiniteSets

CONSTANTS
    Events,      \* events a service writes to its outbox, one row each
    Cause,       \* an event -> the earlier event of its order it results from
    Batches,     \* bound: calls of publishOutboxBatch that run at one time
    BatchLimit,  \* LIMIT of the SELECT (25)
    MaxFaults    \* bound: failed awaits and crashes

ASSUME CauseAssumption == DOMAIN Cause \subseteq Events
ASSUME BoundsAssumption == BatchLimit \in Nat \ {0} /\ MaxFaults \in Nat

VARIABLES
    created,    \* the rows in created_at order, which is when BEGIN ran
    committed,  \* the rows whose transaction has committed
    published,  \* the rows with published_at
    log,        \* the messages in the topic, oldest first
    todo,       \* batch -> the rows it has read and not sent yet
    sent,       \* batch -> the row it has sent and not marked yet, or none
    producer,   \* producerPromise of the process: no call of connect() has
                \* ended yet, or how the first one did
    faults      \* how many faults there have been

relayVars == <<created, committed, published, log, todo, sent, producer, faults>>

InLog == {log[i] : i \in DOMAIN log}

RelayTypeOK ==
    /\ created \in Seq(Events)
    /\ committed \subseteq Events
    /\ published \subseteq Events
    /\ log \in Seq(Events)
    /\ todo \in [Batches -> SUBSET Events]
    /\ sent \in [Batches -> SUBSET Events]
    /\ producer \in {"unset", "connected", "rejected"}
    /\ faults \in Nat

Init ==
    /\ created = <<>>
    /\ committed = {}
    /\ published = {}
    /\ log = <<>>
    /\ todo = [b \in Batches |-> {}]
    /\ sent = [b \in Batches |-> {}]
    /\ producer = "unset"
    /\ faults = 0

----------------------------------------------------------------------------
(* The transactions that write rows. *)

Started == {created[i] : i \in DOMAIN created}

\* BEGIN of the handler that writes this row: DEFAULT NOW() is this moment.
\* An event comes after the one it results from has been received.
Begin(e) ==
    /\ e \notin Started
    /\ e \in DOMAIN Cause => Cause[e] \in InLog
    /\ created' = Append(created, e)
    /\ UNCHANGED <<committed, published, log, todo, sent, producer, faults>>

\* COMMIT; a transaction that rolls back never takes this step, and the handler
\* that runs again writes another row.
Commit(e) ==
    /\ e \in Started \ committed
    /\ committed' = committed \cup {e}
    /\ UNCHANGED <<created, published, log, todo, sent, producer, faults>>

----------------------------------------------------------------------------
(* publishOutboxBatch. *)

Idle(b) == todo[b] = {} /\ sent[b] = {}

Older(e, f) == \E i, j \in DOMAIN created : i < j /\ created[i] = e /\ created[j] = f

OldestOf(S) == {e \in S : \A f \in S : ~Older(f, e)}

\* mutant: a cursor over created_at takes the place of published_at IS NULL
PendingAfterCursor == {e \in committed \ published : \A f \in published : Older(f, e)}

\* mutant: the rows are read whether they have been published or not
PendingOrNot == committed

\* mutant: a row is sent before its transaction commits
PendingUncommitted == Started \ published

\* WHERE published_at IS NULL, as a read committed SELECT sees it.
Pending == committed \ published

\* ORDER BY created_at LIMIT BatchLimit
Batch == {e \in Pending : Cardinality({f \in Pending : Older(f, e)}) < BatchLimit}

\* The timer fires and the SELECT returns; the batch keeps what it read.
Start(b) ==
    /\ Idle(b)
    /\ Pending # {}
    /\ todo' = [todo EXCEPT ![b] = Batch]
    /\ UNCHANGED <<created, committed, published, log, sent, producer, faults>>

\* A batch has its next row to send, and publishEvent awaits getProducer.
ToSend(b) == sent[b] = {} /\ todo[b] # {}

\* getProducer: connect() succeeds, once for the process.
Connect ==
    /\ producer = "unset" /\ \E b \in Batches : ToSend(b)
    /\ producer' = "connected"
    /\ UNCHANGED <<created, committed, published, log, todo, sent, faults>>

\* publishEvent of the next row returns.
Send(b) ==
    /\ producer = "connected" /\ sent[b] = {}
    /\ \E e \in OldestOf(todo[b]) :
          /\ log' = Append(log, e)
          /\ sent' = [sent EXCEPT ![b] = {e}]
          /\ todo' = [todo EXCEPT ![b] = @ \ {e}]
    /\ UNCHANGED <<created, committed, published, producer, faults>>

\* markOutboxPublished returns.
Mark(b) ==
    /\ sent[b] # {}
    /\ published' = published \cup sent[b]
    /\ sent' = [sent EXCEPT ![b] = {}]
    /\ UNCHANGED <<created, committed, log, todo, producer, faults>>

Fault == faults < MaxFaults /\ faults' = faults + 1

\* getProducer: connect() is rejected.  The promise stays in producerPromise
\* and no later call of getProducer tries again.
ConnectFails ==
    /\ Fault
    /\ producer = "unset" /\ \E b \in Batches : ToSend(b)
    /\ producer' = "rejected"
    /\ UNCHANGED <<created, committed, published, log, todo, sent>>

\* publishEvent throws what getProducer has kept, whether Kafka could be reached
\* by now or not: the batch is given up.
SendRejected(b) ==
    /\ producer = "rejected" /\ ToSend(b)
    /\ todo' = [todo EXCEPT ![b] = {}]
    /\ UNCHANGED <<created, committed, published, log, sent, producer, faults>>

\* mutant: a row whose send fails is marked all the same
GiveUpRow(b) ==
    /\ Fault
    /\ producer = "connected" /\ sent[b] = {}
    /\ \E e \in OldestOf(todo[b]) : published' = published \cup {e}
    /\ todo' = [todo EXCEPT ![b] = {}]
    /\ UNCHANGED <<created, committed, log, sent, producer>>

\* producer.send throws, whether the broker has the message or not: the rest of
\* the batch is given up.  The connected producer serves later batches.
SendFails(b) ==
    /\ Fault
    /\ producer = "connected" /\ sent[b] = {}
    /\ \E e \in OldestOf(todo[b]) : log' \in {log, Append(log, e)}
    /\ todo' = [todo EXCEPT ![b] = {}]
    /\ UNCHANGED <<created, committed, published, sent, producer>>

\* markOutboxPublished throws, whether the UPDATE took place or not.
MarkFails(b) ==
    /\ Fault
    /\ sent[b] # {}
    /\ published' \in {published, published \cup sent[b]}
    /\ todo' = [todo EXCEPT ![b] = {}]
    /\ sent' = [sent EXCEPT ![b] = {}]
    /\ UNCHANGED <<created, committed, log, producer>>

\* The process stops, all its batches and its producer with it, and is started
\* again.
Crash ==
    /\ Fault
    /\ todo' = [b \in Batches |-> {}]
    /\ sent' = [b \in Batches |-> {}]
    /\ producer' = "unset"
    /\ UNCHANGED <<created, committed, published, log>>

Next ==
    \/ \E e \in Events : Begin(e) \/ Commit(e)
    \/ \E b \in Batches :
          \/ Start(b) \/ Send(b) \/ Mark(b)
          \/ SendFails(b) \/ SendRejected(b) \/ MarkFails(b)
    \/ Connect \/ ConnectFails \/ Crash

Spec == Init /\ [][Next]_relayVars

\* The timer fires again and again, and the awaits of a batch end: connect() in
\* a connection unless it fails, a send in a message or in what getProducer
\* throws.  Nobody restarts a process whose producer is rejected.
Fairness ==
    /\ WF_relayVars(Connect)
    /\ WF_relayVars(\E b \in Batches : Start(b))
    /\ \A b \in Batches :
          WF_relayVars(Send(b)) /\ WF_relayVars(SendRejected(b)) /\ WF_relayVars(Mark(b))

FairSpec == Spec /\ Fairness

----------------------------------------------------------------------------
(* What the publisher promises. *)

\* A row marked as published is in the topic, whatever failed in between: the
\* transactional outbox loses nothing between the database and Kafka.
MarkedIsInLog == published \subseteq InLog

\* Only committed rows are ever sent: no consumer hears of a transaction that
\* rolled back.
OnlyCommittedIsSent == InLog \subseteq committed

\* A published row is never taken up again: it is sent once more only by a
\* batch that read it before it was marked.
PublishedStaysQuiet ==
    [][\A e \in published :
          /\ e \in published'
          /\ \A b \in Batches : e \in todo'[b] => e \in todo[b]
          /\ log' = Append(log, e) => \E b \in Batches : e \in todo[b]]_relayVars

\* packages/messaging says of its message keys "so all events for one order
\* stay ordered".  The topic has no event after one that resulted from it.
OrderKept ==
    \A i, j \in DOMAIN log :
        log[j] \in DOMAIN Cause /\ log[i] = Cause[log[j]] => i < j

\* The inductive invariant.
RelayInv ==
    /\ RelayTypeOK
    /\ MarkedIsInLog
    /\ OnlyCommittedIsSent
    /\ committed \subseteq Started
    /\ \A b \in Batches : todo[b] \subseteq committed /\ sent[b] \subseteq InLog

Bus == INSTANCE EventBus WITH written <- committed, delivered <- InLog

\* Overlapping batches, failures and crashes do not show: a step of the
\* publisher delivers one committed event, or none.
ImplementsBus == Bus!Spec

\* The process does not keep a rejected producer for good: connect() did not
\* fail, or the process has been restarted since.
ProducerRecovers == <>[](producer # "rejected")

\* Every committed row is marked sooner or later, and from then on leaves room
\* for others in the batches, whatever the order in which transactions begin and
\* commit, once faults no longer happen and no producer is stuck.
EveryRowIsMarked ==
    ProducerRecovers => \A e \in Events : e \in committed ~> [](e \in published)

\* README.md says of the outbox "best for making sure a DB commit and a Kafka
\* publish do not drift apart": a committed event reaches Kafka, once faults no
\* longer happen.
CommittedReachesKafka == \A e \in Events : e \in committed ~> e \in InLog

=============================================================================
