------------------------ MODULE ConsumerGroupProofs ------------------------
(***************************************************************************)
(* The promises of a consumer group, for any number of members, messages   *)
(* and faults.                                                             *)
(***************************************************************************)
EXTENDS ConsumerGroup, TLAPS

USE DEF EmptyTable, Put, Nobody, ConsumerState

----------------------------------------------------------------------------
(* One lemma per action. *)

\* The log grows at its end: what was wanted of it still is.
LEMMA PublishStep == GroupInv /\ Publish => GroupInv'
<1> SUFFICES ASSUME GroupInv, Publish PROVE GroupInv'
  OBVIOUS
<1>1. PICK key \in RoutingKeys : log' = Append(log, key)
  BY DEF Publish
<1>2. /\ log \in Seq(RoutingKeys) /\ log' \in Seq(RoutingKeys)
      /\ Len(log) \in Nat /\ Len(log') = Len(log) + 1 /\ Len(log') <= MaxLog
      /\ \A n \in 1..Len(log) : log'[n] = log[n]
  BY <1>1, GroupAssumption DEF Publish, GroupInv, ConsumerTypeOK
<1>3. \A n \in 1..Len(log) : Wanted(n)' <=> Wanted(n)
  BY <1>2 DEF Wanted
<1>4. ConsumerTypeOK'
  BY <1>2 DEF Publish, GroupInv, ConsumerTypeOK
<1>5. OneOwner'
  BY DEF Publish, GroupInv, OneOwner
<1>6. ReadsInOrder'
  <2> SUFFICES ASSUME NEW m \in DOMAIN consumers
               PROVE  LET c == consumers[m] IN
                      /\ c.start <= c.next /\ c.next <= Len(log') + 1
                      /\ c.busy => c.next <= Len(log') /\ Wanted(c.next)'
                      /\ \A k \in c.start .. (c.next - 1) : Wanted(k)' => k \in effects
    BY DEF Publish, ReadsInOrder, Wanted
  <2>1. consumers[m] \in ConsumerState
    BY DEF GroupInv, ConsumerTypeOK
  <2>2. /\ consumers[m].start <= consumers[m].next
        /\ consumers[m].next <= Len(log) + 1
        /\ consumers[m].busy =>
              consumers[m].next <= Len(log) /\ Wanted(consumers[m].next)
    BY DEF GroupInv, ReadsInOrder
  <2>3. \A k \in consumers[m].start .. (consumers[m].next - 1) : Wanted(k) => k \in effects
    BY DEF GroupInv, ReadsInOrder
  <2>4. \A k \in consumers[m].start .. (consumers[m].next - 1) : k \in 1..Len(log)
    BY <1>2, <2>1, <2>2
  <2>5. consumers[m].next <= Len(log) => consumers[m].next \in 1..Len(log)
    BY <1>2, <2>1
  <2>6. /\ consumers[m].next <= Len(log') + 1
        /\ consumers[m].busy =>
              consumers[m].next <= Len(log') /\ Wanted(consumers[m].next)'
    BY <1>2, <2>1, <2>2, <2>5 DEF Publish, Wanted
  <2>7. \A k \in consumers[m].start .. (consumers[m].next - 1) : Wanted(k)' => k \in effects
    BY <1>3, <2>3, <2>4
  <2> QED BY <2>2, <2>6, <2>7
<1>7. CommittedWasRead'
  BY <1>2 DEF Publish, GroupInv, ConsumerTypeOK, CommittedWasRead
<1>8. LatestBeganLast'
  BY <1>2, <1>3 DEF Publish, GroupInv, ConsumerTypeOK, LatestBeganLast
<1>9. NoSkip'
  BY <1>2, <1>3 DEF Publish, GroupInv, ConsumerTypeOK, CommittedWasRead, NoSkip, Since
<1>10. StaysOrdered'
  BY <1>2, <1>3 DEF Publish, GroupInv, ConsumerTypeOK, StaysOrdered, Since
<1> QED BY <1>4, <1>5, <1>6, <1>7, <1>8, <1>9, <1>10 DEF GroupInv

\* A member begins at the offset of the group, or behind all there is.
LEMMA JoinStep == ASSUME NEW m \in Members PROVE GroupInv /\ Join(m) => GroupInv'
<1> SUFFICES ASSUME GroupInv, Join(m) PROVE GroupInv'
  OBVIOUS
<1>1. /\ owner' = {m}
      /\ DOMAIN consumers' = DOMAIN consumers \cup {m}
      /\ consumers'[m] = [start |-> StartOffset, next |-> StartOffset, busy |-> FALSE]
      /\ \A c \in DOMAIN consumers : c # m => consumers'[c] = consumers[c]
  BY DEF Join, Begins
<1>2. /\ UNCHANGED <<log, committed, effects, origin>>
      /\ faults' \in 0..MaxFaults
  BY GroupAssumption DEF Join, Fault, GroupInv, ConsumerTypeOK
<1>3. /\ Len(log) \in Nat /\ committed \in Nat /\ effects \subseteq 1..Len(log)
      /\ StartOffset \in Nat \ {0} /\ StartOffset <= Len(log) + 1
      /\ committed # 0 => StartOffset = committed
      /\ committed = 0 => StartOffset = Len(log) + 1
  BY DEF GroupInv, ConsumerTypeOK, CommittedWasRead, StartOffset
<1>4. ConsumerTypeOK'
  <2>1. consumers'[m] \in ConsumerState
    BY <1>1, <1>3
  <2> QED BY <1>1, <1>2, <2>1 DEF GroupInv, ConsumerTypeOK
<1>5. OneOwner'
  BY <1>1 DEF OneOwner
<1>6. ReadsInOrder'
  BY <1>1, <1>2, <1>3 DEF GroupInv, ConsumerTypeOK, ReadsInOrder, Wanted
<1>7. CommittedWasRead'
  BY <1>1, <1>2, <1>3 DEF GroupInv, ConsumerTypeOK, CommittedWasRead
<1>8. LatestBeganLast'
  BY <1>1, <1>2, <1>3 DEF GroupInv, ConsumerTypeOK, ReadsInOrder, LatestBeganLast, Wanted
<1>9. NoSkip' /\ StaysOrdered'
  BY <1>2 DEF GroupInv, NoSkip, StaysOrdered, Since, Wanted
<1> QED BY <1>4, <1>5, <1>6, <1>7, <1>8, <1>9 DEF GroupInv

\* Passing over a message of another service, or entering or leaving the
\* handler by an error, changes what one member has in hand.
LEMMA ReadStep ==
    ASSUME NEW m \in Members
    PROVE  GroupInv /\ (Skip(m) \/ StartHandler(m) \/ HandlerThrows(m)) => GroupInv'
<1> SUFFICES ASSUME GroupInv, Skip(m) \/ StartHandler(m) \/ HandlerThrows(m) PROVE GroupInv'
  OBVIOUS
<1>1. /\ m \in DOMAIN consumers
      /\ UNCHANGED <<log, committed, owner, effects, origin>>
      /\ faults' \in 0..MaxFaults
  BY GroupAssumption
  DEF Skip, StartHandler, HandlerThrows, Ready, Fault, GroupInv, ConsumerTypeOK
<1>2. /\ DOMAIN consumers' = DOMAIN consumers
      /\ \A c \in DOMAIN consumers : c # m => consumers'[c] = consumers[c]
  BY <1>1 DEF Skip, StartHandler, HandlerThrows
<1>3. /\ consumers[m] \in ConsumerState
      /\ consumers'[m] \in ConsumerState
      /\ consumers'[m].start = consumers[m].start
  <2>1. consumers[m] \in ConsumerState
    BY <1>1 DEF GroupInv, ConsumerTypeOK
  <2>2. \/ consumers'[m] = [consumers[m] EXCEPT !.next = @ + 1]
        \/ \E b \in BOOLEAN : consumers'[m] = [consumers[m] EXCEPT !.busy = b]
    BY <1>1 DEF Skip, StartHandler, HandlerThrows
  <2>3. ASSUME NEW b \in BOOLEAN, consumers'[m] = [consumers[m] EXCEPT !.busy = b]
        PROVE  /\ consumers'[m] \in ConsumerState
               /\ consumers'[m].start = consumers[m].start
    BY <2>1, <2>3
  <2>4. ASSUME consumers'[m] = [consumers[m] EXCEPT !.next = @ + 1]
        PROVE  /\ consumers'[m] \in ConsumerState
               /\ consumers'[m].start = consumers[m].start
    BY <2>1, <2>4
  <2> QED BY <2>1, <2>2, <2>3, <2>4
<1>4. \/ /\ Ready(m) /\ ~Wanted(consumers[m].next)
         /\ consumers'[m].next = consumers[m].next + 1 /\ ~consumers'[m].busy
      \/ /\ Ready(m) /\ Wanted(consumers[m].next)
         /\ consumers'[m].next = consumers[m].next
      \/ consumers'[m].next = consumers[m].next /\ ~consumers'[m].busy
  BY <1>1, <1>3 DEF Skip, StartHandler, HandlerThrows, Ready
<1>5. ConsumerTypeOK'
  BY <1>1, <1>2, <1>3 DEF GroupInv, ConsumerTypeOK
<1>6. OneOwner'
  BY <1>1 DEF GroupInv, OneOwner
<1>7. ReadsInOrder'
  BY <1>1, <1>2, <1>3, <1>4 DEF GroupInv, ConsumerTypeOK, ReadsInOrder, Ready, Wanted
<1>8. CommittedWasRead' /\ LatestBeganLast'
  BY <1>1, <1>2, <1>3 DEF GroupInv, ConsumerTypeOK, CommittedWasRead, LatestBeganLast, Wanted
<1>9. NoSkip' /\ StaysOrdered'
  BY <1>1 DEF GroupInv, NoSkip, StaysOrdered, Since, Wanted
<1> QED BY <1>5, <1>6, <1>7, <1>8, <1>9 DEF GroupInv

\* A message takes effect when all before it have, whoever the member is.
LEMMA ReturnStep ==
    ASSUME NEW m \in Members
    PROVE  GroupInv /\ HandlerReturns(m) => GroupInv'
<1> SUFFICES ASSUME GroupInv, HandlerReturns(m) PROVE GroupInv'
  OBVIOUS
<1> DEFINE n == consumers[m].next
<1>1. /\ m \in DOMAIN consumers /\ consumers[m].busy
      /\ effects' = effects \cup {n}
      /\ UNCHANGED <<log, committed, owner, origin, faults>>
  BY DEF HandlerReturns
<1>2. /\ consumers[m] \in ConsumerState
      /\ Len(log) \in Nat /\ n \in 1..Len(log) /\ Wanted(n) /\ consumers[m].start <= n
      /\ \A k \in consumers[m].start .. (n - 1) : Wanted(k) => k \in effects
  <2>1. consumers[m] \in ConsumerState
        /\ Len(log) \in Nat
    BY <1>1 DEF GroupInv, ConsumerTypeOK
  <2> QED BY <1>1, <2>1 DEF GroupInv, ReadsInOrder
<1>3. /\ DOMAIN consumers' = DOMAIN consumers
      /\ \A c \in DOMAIN consumers : c # m => consumers'[c] = consumers[c]
      /\ consumers'[m] = [start |-> consumers[m].start, next |-> n + 1, busy |-> FALSE]
  BY <1>1, <1>2 DEF HandlerReturns
<1>4. ConsumerTypeOK' /\ OneOwner'
  <2>1. consumers'[m] \in ConsumerState
    BY <1>2, <1>3
  <2> QED BY <1>1, <1>2, <1>3, <2>1 DEF GroupInv, ConsumerTypeOK, OneOwner
<1>5. ReadsInOrder'
  BY <1>1, <1>2, <1>3 DEF GroupInv, ConsumerTypeOK, ReadsInOrder, Wanted
<1>6. CommittedWasRead'
  BY <1>1, <1>3 DEF GroupInv, CommittedWasRead
<1>7. LatestBeganLast'
  <2> SUFFICES ASSUME NEW o \in owner, committed = 0
               PROVE  /\ \A c \in DOMAIN consumers : consumers[c].start <= consumers[o].start
                      /\ \A x \in effects' : \A k \in 1..x :
                            k >= consumers[o].start /\ Wanted(k) => k \in effects'
    <3>1. /\ \A c \in DOMAIN consumers : consumers'[c].start = consumers[c].start
          /\ owner \subseteq DOMAIN consumers
      BY <1>1, <1>3 DEF GroupInv, ConsumerTypeOK
    <3> QED BY <1>1, <1>3, <3>1 DEF LatestBeganLast, Wanted
  <2>1. /\ \A c \in DOMAIN consumers : consumers[c].start <= consumers[o].start
        /\ \A x \in effects : \A k \in 1..x :
              k >= consumers[o].start /\ Wanted(k) => k \in effects
    BY DEF GroupInv, LatestBeganLast
  <2>2. o \in DOMAIN consumers /\ consumers[o].start \in Nat
    BY DEF GroupInv, ConsumerTypeOK
  <2>3. \A k \in 1..n : k >= consumers[o].start /\ Wanted(k) => k \in effects'
    BY <1>1, <1>2, <2>1, <2>2
  <2> QED BY <1>1, <2>1, <2>3
<1>8. NoSkip'
  BY <1>1 DEF GroupInv, NoSkip, Since, Wanted
<1>9. StaysOrdered'
  <2>1. ASSUME NEW k \in 1..n, Since(k), Wanted(k) PROVE k \in effects'
    <3>1. CASE k >= consumers[m].start
      BY <1>1, <1>2, <2>1, <3>1
    <3>2. CASE k < consumers[m].start
      <4>1. committed \in Nat /\ consumers[m].start <= committed
        BY <1>1, <2>1 DEF GroupInv, ConsumerTypeOK, CommittedWasRead, Since
      <4> QED BY <1>1, <1>2, <2>1, <3>2, <4>1 DEF GroupInv, NoSkip
    <3> QED BY <1>2, <3>1, <3>2
  <2> QED BY <1>1, <2>1 DEF GroupInv, StaysOrdered, Since, Wanted
<1> QED BY <1>4, <1>5, <1>6, <1>7, <1>8, <1>9 DEF GroupInv

\* Between the offset of the group and that of its owner nothing is missing.
LEMMA CommitStep == ASSUME NEW m \in Members PROVE GroupInv /\ Commit(m) => GroupInv'
<1> SUFFICES ASSUME GroupInv, Commit(m) PROVE GroupInv'
  OBVIOUS
<1>1. /\ owner = {m} /\ m \in DOMAIN consumers
      /\ consumers[m].next > consumers[m].start /\ consumers[m].next > committed
      /\ committed' = consumers[m].next
      /\ origin' = IF origin = 0 THEN consumers[m].start ELSE origin
      /\ UNCHANGED <<log, owner, consumers, effects, faults>>
  BY DEF Commit, GroupInv, ConsumerTypeOK
<1>2. /\ consumers[m].start \in Nat \ {0} /\ consumers[m].next \in Nat \ {0}
      /\ Len(log) \in Nat /\ consumers[m].next <= Len(log) + 1
      /\ committed \in Nat /\ origin \in Nat
      /\ \A k \in consumers[m].start .. (consumers[m].next - 1) : Wanted(k) => k \in effects
      /\ origin = 0 <=> committed = 0
  BY <1>1 DEF GroupInv, ConsumerTypeOK, ReadsInOrder, CommittedWasRead
<1>3. ConsumerTypeOK' /\ OneOwner' /\ ReadsInOrder' /\ LatestBeganLast'
  BY <1>1, <1>2 DEF GroupInv, ConsumerTypeOK, OneOwner, ReadsInOrder, LatestBeganLast, Wanted
<1>4. CASE committed = 0
  <2>1. /\ \A c \in DOMAIN consumers : consumers[c].start <= consumers[m].start
        /\ \A n \in effects : \A k \in 1..n :
              k >= consumers[m].start /\ Wanted(k) => k \in effects
    BY <1>1, <1>4 DEF GroupInv, LatestBeganLast
  <2>2. origin' = consumers[m].start
    BY <1>1, <1>2, <1>4
  <2>3. CommittedWasRead'
    BY <1>1, <1>2, <2>1, <2>2 DEF GroupInv, ConsumerTypeOK, CommittedWasRead
  <2>4. NoSkip' /\ StaysOrdered'
    BY <1>1, <1>2, <2>1, <2>2 DEF NoSkip, StaysOrdered, Since, Wanted
  <2> QED BY <1>3, <2>3, <2>4 DEF GroupInv
<1>5. CASE committed # 0
  <2>1. /\ origin' = origin /\ origin <= committed
        /\ \A c \in DOMAIN consumers : consumers[c].start <= committed
    BY <1>1, <1>2, <1>5 DEF GroupInv, CommittedWasRead
  <2>2. CommittedWasRead'
    BY <1>1, <1>2, <1>5, <2>1 DEF GroupInv, ConsumerTypeOK, CommittedWasRead
  <2>3. NoSkip'
    BY <1>1, <1>2, <2>1 DEF GroupInv, NoSkip, Since, Wanted
  <2>4. StaysOrdered'
    BY <1>1, <2>1 DEF GroupInv, StaysOrdered, Since, Wanted
  <2> QED BY <1>3, <2>2, <2>3, <2>4 DEF GroupInv
<1> QED BY <1>4, <1>5

LEMMA LeaveStep == ASSUME NEW m \in Members PROVE GroupInv /\ Leave(m) => GroupInv'
<1> SUFFICES ASSUME GroupInv, Leave(m) PROVE GroupInv'
  OBVIOUS
<1>1. /\ DOMAIN consumers' = DOMAIN consumers \ {m}
      /\ \A c \in DOMAIN consumers' : consumers'[c] = consumers[c]
      /\ owner' = owner \ {m}
      /\ UNCHANGED <<log, committed, effects, origin>>
      /\ faults' \in 0..MaxFaults
  BY GroupAssumption DEF Leave, Fault, GroupInv, ConsumerTypeOK
<1>2. ConsumerTypeOK' /\ OneOwner'
  BY <1>1 DEF GroupInv, ConsumerTypeOK, OneOwner
<1>3. ReadsInOrder' /\ CommittedWasRead' /\ LatestBeganLast'
  BY <1>1 DEF GroupInv, ConsumerTypeOK, ReadsInOrder, CommittedWasRead, LatestBeganLast, Wanted
<1>4. NoSkip' /\ StaysOrdered'
  BY <1>1 DEF GroupInv, NoSkip, StaysOrdered, Since, Wanted
<1> QED BY <1>2, <1>3, <1>4 DEF GroupInv

----------------------------------------------------------------------------
(* The theorems. *)

\* The inductive invariant of a group holds from the first join on, through
\* every error, crash and rebalance.
THEOREM GroupInvariant == Spec => []GroupInv
<1>1. Init => GroupInv
  BY GroupAssumption
  DEF Init, GroupInv, ConsumerTypeOK, OneOwner, ReadsInOrder, CommittedWasRead,
      LatestBeganLast, NoSkip, StaysOrdered, Since
<1>2. GroupInv /\ [Next]_groupVars => GroupInv'
  <2>1. GroupInv /\ UNCHANGED groupVars => GroupInv'
    BY DEF groupVars, GroupInv, ConsumerTypeOK, OneOwner, ReadsInOrder, CommittedWasRead,
           LatestBeganLast, NoSkip, StaysOrdered, Since, Wanted
  <2> QED
    BY <2>1, PublishStep, JoinStep, ReadStep, ReturnStep, CommitStep, LeaveStep DEF Next, Work
<1> QED BY <1>1, <1>2, PTL DEF Spec

\* No error, crash or rebalance lets the group pass a message of its service
\* without its handler having come through.
THEOREM GroupSkipsNothing == Spec => []NoSkip
<1>1. GroupInv => NoSkip
  BY DEF GroupInv
<1> QED BY <1>1, GroupInvariant, PTL

\* The messages of a partition first take effect in their order, although
\* members overlap and messages are delivered again.
THEOREM GroupStaysOrdered == Spec => []StaysOrdered
<1>1. GroupInv => StaysOrdered
  BY DEF GroupInv
<1> QED BY <1>1, GroupInvariant, PTL

=============================================================================
