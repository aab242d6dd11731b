--------------------------- MODULE ConsumerGroup ---------------------------
(***************************************************************************)
(* consumeTopics of packages/messaging: the consumer group of one service  *)
(* on one partition of a topic.  Partitions do not interact.  The group    *)
(* remembers an offset; a member that gets the partition starts there, and *)
(* one that has lost it, or is about to crash, may still be in its handler *)
(* (docs/ARCHITECTURE.md, "Why Idempotency Is Also Needed").  Offsets      *)
(* start at 1, and 0 stands for an offset that is not there.               *)
(***************************************************************************)
EXTENDS Naturals, Sequences, Tables

CONSTANTS
    Members,      \* processes of the service
    RoutingKeys,  \* headers.routingKey of the messages of the topic
    Handled,      \* input.routingKeys, those the service handles
    MaxLog,       \* bound: messages of the partition
    MaxFaults     \* bound: errors of handlers, crashes and rebalances

ASSUME GroupAssumption ==
    /\ Handled \subseteq RoutingKeys
    /\ MaxLog \in Nat /\ MaxFaults \in Nat

VARIABLES
    log,        \* the partition: the routing keys of its messages
    committed,  \* the offset of the group
    owner,      \* the member the partition is assigned to
    consumers,  \* member -> where it began, where it is, whether in its handler
    effects,    \* the offsets whose handler has come through
    origin,     \* history: the offset the first member to commit began at
    faults

groupVars == <<log, committed, owner, consumers, effects, origin, faults>>

Nobody == {}

Init ==
    /\ log = <<>>
    /\ committed = 0 /\ origin = 0
    /\ owner = Nobody
    /\ consumers = EmptyTable
    /\ effects = {}
    /\ faults = 0

Wanted(n) == log[n] \in Handled

Fault == faults < MaxFaults /\ faults' = faults + 1

\* A publisher appends; messages of one key stay in one partition.
Publish ==
    /\ Len(log) < MaxLog
    /\ \E key \in RoutingKeys : log' = Append(log, key)
    /\ UNCHANGED <<committed, owner, consumers, effects, origin, faults>>

Begins(m, offset) ==
    /\ owner' = {m}
    /\ consumers' = Put(consumers, m, [start |-> offset, next |-> offset, busy |-> FALSE])

\* mutant: every start is at the end of the log
StartAtEnd == Len(log) + 1

\* fromBeginning is false: a group with no offset begins at the end of the log.
StartOffset == IF committed = 0 THEN Len(log) + 1 ELSE committed

\* connect, subscribe and run: the partition is assigned to a member.  A member
\* that loses it that way finds out later.
Join(m) ==
    /\ owner # {m}
    /\ m \in DOMAIN consumers => ~consumers[m].busy
    /\ Begins(m, StartOffset)
    /\ IF owner = Nobody THEN UNCHANGED faults ELSE Fault
    /\ UNCHANGED <<log, committed, effects, origin>>

Ready(m) ==
    m \in DOMAIN consumers /\ ~consumers[m].busy /\ consumers[m].next <= Len(log)

\* eachMessage returns at once for a routing key the service does not handle.
Skip(m) ==
    /\ Ready(m) /\ ~Wanted(consumers[m].next)
    /\ consumers' = [consumers EXCEPT ![m].next = @ + 1]
    /\ UNCHANGED <<log, committed, owner, effects, origin, faults>>

\* mutant: eachMessage does not await the handler, which may yet fail
HandlerUnawaited(m) ==
    /\ Ready(m) /\ Wanted(consumers[m].next)
    /\ consumers' = [consumers EXCEPT ![m].next = @ + 1]
    /\ \E done \in SUBSET {consumers[m].next} : effects' = effects \cup done
    /\ UNCHANGED <<log, committed, owner, origin, faults>>

\* eachMessage awaits the handler.
StartHandler(m) ==
    /\ Ready(m) /\ Wanted(consumers[m].next)
    /\ consumers' = [consumers EXCEPT ![m].busy = TRUE]
    /\ UNCHANGED <<log, committed, owner, effects, origin, faults>>

HandlerReturns(m) ==
    /\ m \in DOMAIN consumers /\ consumers[m].busy
    /\ effects' = effects \cup {consumers[m].next}
    /\ consumers' = [consumers EXCEPT ![m].next = @ + 1, ![m].busy = FALSE]
    /\ UNCHANGED <<log, committed, owner, origin, faults>>

\* mutant: the error is logged and not thrown again
HandlerSwallows(m) ==
    /\ m \in DOMAIN consumers /\ consumers[m].busy
    /\ consumers' = [consumers EXCEPT ![m].next = @ + 1, ![m].busy = FALSE]
    /\ Fault
    /\ UNCHANGED <<log, committed, owner, effects, origin>>

\* mutant: the consumer does not go on after an error
HandlerHangs(m) ==
    /\ m \in DOMAIN consumers /\ consumers[m].busy
    /\ consumers' = [consumers EXCEPT ![m].next = Len(log) + MaxLog, ![m].busy = FALSE]
    /\ Fault
    /\ UNCHANGED <<log, committed, owner, effects, origin>>

\* The error is thrown again: the message is delivered another time.
HandlerThrows(m) ==
    /\ m \in DOMAIN consumers /\ consumers[m].busy
    /\ consumers' = [consumers EXCEPT ![m].busy = FALSE]
    /\ Fault
    /\ UNCHANGED <<log, committed, owner, effects, origin>>

\* autoCommit, some time after messages were resolved.  The broker refuses a
\* member that is no longer the owner.
Commit(m) ==
    /\ owner = {m}
    /\ consumers[m].next > consumers[m].start /\ consumers[m].next > committed
    /\ committed' = consumers[m].next
    /\ origin' = IF origin = 0 THEN consumers[m].start ELSE origin
    /\ UNCHANGED <<log, owner, consumers, effects, faults>>

\* The process stops, or hears that it has lost the partition.
Leave(m) ==
    /\ m \in DOMAIN consumers
    /\ consumers' = [c \in DOMAIN consumers \ {m} |-> consumers[c]]
    /\ owner' = owner \ {m}
    /\ IF owner = {m} THEN Fault ELSE UNCHANGED faults
    /\ UNCHANGED <<log, committed, effects, origin>>

Work(m) == Skip(m) \/ StartHandler(m) \/ HandlerReturns(m)

Next ==
    \/ Publish
    \/ \E m \in Members :
          Join(m) \/ Work(m) \/ HandlerThrows(m) \/ Commit(m) \/ Leave(m)

Spec == Init /\ [][Next]_groupVars

\* A partition without an owner is assigned, its owner reads on, and the
\* handler ends one way or the other.  Nothing is assumed of Commit.
Fairness ==
    /\ WF_groupVars(owner = Nobody /\ \E m \in Members : Join(m))
    /\ \A m \in Members : WF_groupVars(owner = {m} /\ Work(m))

FairSpec == Spec /\ Fairness

----------------------------------------------------------------------------
(* What a group promises, from the message on at which its first member to *)
(* commit an offset began.  Those before may be lost: a group without an   *)
(* offset begins at the end of the log, each time anew.                    *)

ConsumerState == [start : Nat \ {0}, next : Nat \ {0}, busy : BOOLEAN]

ConsumerTypeOK ==
    /\ log \in Seq(RoutingKeys) /\ Len(log) <= MaxLog
    /\ committed \in Nat /\ origin \in Nat /\ faults \in 0..MaxFaults
    /\ owner \subseteq DOMAIN consumers
    /\ DOMAIN consumers \subseteq Members
    /\ \A m \in DOMAIN consumers : consumers[m] \in ConsumerState
    /\ effects \subseteq 1..Len(log)

Since(n) == origin # 0 /\ n >= origin

\* No error, crash or rebalance lets the offset of the group pass a message
\* whose handler has not come through.
NoSkip ==
    \A n \in 1..Len(log) : Since(n) /\ n < committed /\ Wanted(n) => n \in effects

\* The first time a message is handled, all that the service handles of what
\* was published before it has been: the events of one order take effect in
\* their order, although members overlap and messages are delivered again
\* ("all events for one order stay ordered", packages/messaging).
StaysOrdered ==
    \A n \in effects : \A k \in 1..n : Since(k) /\ Wanted(k) => k \in effects

\* When errors, crashes and rebalances come to an end, every message the
\* service handles is handled, even one whose handler had failed.
EveryMessageIsHandled ==
    \A n \in 1..MaxLog :
        (n <= Len(log) /\ Since(n) /\ Wanted(n)) ~> n \in effects

----------------------------------------------------------------------------
(* NoSkip and StaysOrdered are not inductive: they speak of what is        *)
(* committed and handled, and a step needs to know what the members have   *)
(* in hand.                                                                *)

\* The partition has one owner at most.
OneOwner == owner = Nobody \/ \E m \in Members : owner = {m}

\* A member has handled all it wants between where it began and where it is,
\* and is in its handler only for a message that the service handles.
ReadsInOrder ==
    \A m \in DOMAIN consumers :
        LET c == consumers[m] IN
        /\ c.start <= c.next /\ c.next <= Len(log) + 1
        /\ c.busy => c.next <= Len(log) /\ Wanted(c.next)
        /\ \A k \in c.start .. (c.next - 1) : Wanted(k) => k \in effects

\* The offset of the group came from a member that had begun before it.  No
\* member begins beyond it.
CommittedWasRead ==
    /\ origin = 0 <=> committed = 0
    /\ committed # 0 =>
          /\ origin <= committed /\ committed <= Len(log) + 1
          /\ \A m \in DOMAIN consumers : consumers[m].start <= committed

\* As long as there is no offset, who begins later begins further on, so that
\* from the owner's start on the effects are in order already.
LatestBeganLast ==
    \A m \in owner : committed = 0 =>
        /\ \A c \in DOMAIN consumers : consumers[c].start <= consumers[m].start
        /\ \A n \in effects : \A k \in 1..n :
              k >= consumers[m].start /\ Wanted(k) => k \in effects

\* Together they hold in every reachable state, and each needs the others.
GroupInv ==
    /\ ConsumerTypeOK
    /\ OneOwner
    /\ ReadsInOrder
    /\ CommittedWasRead
    /\ LatestBeganLast
    /\ NoSkip
    /\ StaysOrdered

=============================================================================
