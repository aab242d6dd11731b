------------------------- MODULE OutboxRelayProofs -------------------------
(***************************************************************************)
(* The safety of the outbox publisher, for any number of rows, batches and *)
(* faults, and any batch limit.                                            *)
(***************************************************************************)
EXTENDS OutboxRelay, TLAPS

\* What a sequence contains after Append.
LEMMA AppendAdds ==
    ASSUME NEW S, NEW s \in Seq(S), NEW e \in S
    PROVE  {Append(s, e)[i] : i \in DOMAIN Append(s, e)} = {s[i] : i \in DOMAIN s} \cup {e}
<1> DEFINE t == Append(s, e)
<1>1. /\ DOMAIN t = 1 .. Len(s) + 1
      /\ DOMAIN s = 1 .. Len(s)
      /\ Len(s) \in Nat
      /\ \A i \in 1 .. Len(s) : t[i] = s[i]
      /\ t[Len(s) + 1] = e
  OBVIOUS
<1>2. ASSUME NEW i \in DOMAIN t PROVE t[i] \in {s[j] : j \in DOMAIN s} \cup {e}
  <2>1. CASE i = Len(s) + 1
    BY <1>1, <2>1
  <2>2. CASE i \in DOMAIN s
    BY <1>1, <2>2
  <2> QED BY <1>1, <2>1, <2>2
<1>3. ASSUME NEW i \in DOMAIN s PROVE s[i] \in {t[j] : j \in DOMAIN t}
  <2>1. i \in DOMAIN t /\ t[i] = s[i]
    BY <1>1
  <2> QED BY <2>1
<1>4. e \in {t[j] : j \in DOMAIN t}
  BY <1>1
<1> HIDE DEF t
<1>5. {t[i] : i \in DOMAIN t} = {s[i] : i \in DOMAIN s} \cup {e}
  BY <1>2, <1>3, <1>4
<1> QED BY <1>5 DEF t

\* A message appended to the topic is in it, with all the earlier ones.
LEMMA LogGrows ==
    ASSUME RelayTypeOK, NEW e \in Events, log' = Append(log, e)
    PROVE  InLog' = InLog \cup {e} /\ log' \in Seq(Events)
<1>1. log \in Seq(Events) /\ log' \in Seq(Events)
  BY DEF RelayTypeOK
<1>2. {Append(log, e)[i] : i \in DOMAIN Append(log, e)} = {log[i] : i \in DOMAIN log} \cup {e}
  BY <1>1, AppendAdds
<1> QED BY <1>1, <1>2 DEF InLog

\* What a batch may send next is one of the rows it has read.
LEMMA OldestIsRow == ASSUME NEW S PROVE OldestOf(S) \subseteq S
BY DEF OldestOf

\* The empty outbox satisfies the invariant.
LEMMA RelayInvInit == Init => RelayInv
<1> SUFFICES ASSUME Init PROVE RelayInv
  OBVIOUS
<1>1. RelayTypeOK
  BY DEF Init, RelayTypeOK
<1>2. InLog = {} /\ Started = {}
  BY DEF Init, InLog, Started
<1> QED BY <1>1, <1>2 DEF Init, RelayInv, MarkedIsInLog, OnlyCommittedIsSent

\* Every step preserves the invariant.
LEMMA RelayInvNext == RelayInv /\ [Next]_relayVars => RelayInv'
<1> SUFFICES ASSUME RelayInv, [Next]_relayVars PROVE RelayInv'
  OBVIOUS
<1> USE DEF RelayInv
<1>1. ASSUME NEW e \in Events, Begin(e) PROVE RelayInv'
  <2>1. Started' = Started \cup {e}
    <3>1. created \in Seq(Events) /\ created' = Append(created, e)
      BY <1>1 DEF Begin, RelayTypeOK
    <3>2. {Append(created, e)[i] : i \in DOMAIN Append(created, e)}
             = {created[i] : i \in DOMAIN created} \cup {e}
      BY <3>1, AppendAdds
    <3> QED BY <3>1, <3>2 DEF Started
  <2>2. RelayTypeOK'
    BY <1>1 DEF Begin, RelayTypeOK
  <2> QED BY <1>1, <2>1, <2>2 DEF Begin, MarkedIsInLog, OnlyCommittedIsSent, InLog
<1>2. ASSUME NEW e \in Events, Commit(e) PROVE RelayInv'
  <2>1. RelayTypeOK'
    BY <1>2 DEF Commit, RelayTypeOK
  <2> QED BY <1>2, <2>1 DEF Commit, MarkedIsInLog, OnlyCommittedIsSent, InLog, Started
<1>3. ASSUME NEW b \in Batches, Start(b) PROVE RelayInv'
  <2>1. Batch \subseteq committed
    BY DEF Batch, Pending
  <2>2. RelayTypeOK'
    BY <1>3, <2>1 DEF Start, RelayTypeOK
  <2>3. \A c \in Batches : todo'[c] \subseteq committed
    BY <1>3, <2>1 DEF Start, RelayTypeOK
  <2> QED BY <1>3, <2>2, <2>3 DEF Start, MarkedIsInLog, OnlyCommittedIsSent, InLog, Started
<1>4. ASSUME NEW b \in Batches, Send(b) PROVE RelayInv'
  <2>1. PICK e \in todo[b] : /\ log' = Append(log, e)
                             /\ sent' = [sent EXCEPT ![b] = {e}]
                             /\ todo' = [todo EXCEPT ![b] = @ \ {e}]
    BY <1>4, OldestIsRow DEF Send
  <2>2. e \in Events /\ e \in committed
    BY <2>1 DEF RelayTypeOK
  <2>3. InLog' = InLog \cup {e} /\ log' \in Seq(Events)
    BY <2>1, <2>2, LogGrows
  <2>4. RelayTypeOK'
    BY <1>4, <2>1, <2>2, <2>3 DEF Send, RelayTypeOK
  <2>5. \A c \in Batches : todo'[c] \subseteq committed /\ sent'[c] \subseteq InLog'
    BY <2>1, <2>3 DEF RelayTypeOK
  <2> QED BY <1>4, <2>2, <2>3, <2>4, <2>5 DEF Send, MarkedIsInLog, OnlyCommittedIsSent, Started
<1>5. ASSUME NEW b \in Batches, Mark(b) PROVE RelayInv'
  <2>1. RelayTypeOK'
    BY <1>5 DEF Mark, RelayTypeOK
  <2>2. \A c \in Batches : sent'[c] \subseteq InLog
    BY <1>5 DEF Mark, RelayTypeOK
  <2> QED BY <1>5, <2>1, <2>2 DEF Mark, MarkedIsInLog, OnlyCommittedIsSent, InLog, Started
<1>6. ASSUME NEW b \in Batches, SendFails(b) PROVE RelayInv'
  <2>1. PICK e \in todo[b] : log' \in {log, Append(log, e)}
    BY <1>6, OldestIsRow DEF SendFails
  <2>2. e \in Events /\ e \in committed
    BY <2>1 DEF RelayTypeOK
  <2>3. InLog' \in {InLog, InLog \cup {e}} /\ log' \in Seq(Events)
    <3>1. CASE log' = log
      BY <3>1 DEF InLog, RelayTypeOK
    <3>2. CASE log' = Append(log, e)
      BY <3>2, <2>2, LogGrows
    <3> QED BY <2>1, <3>1, <3>2
  <2>4. RelayTypeOK'
    BY <1>6, <2>3 DEF SendFails, Fault, RelayTypeOK
  <2>5. \A c \in Batches : todo'[c] \subseteq committed
    BY <1>6 DEF SendFails, RelayTypeOK
  <2> QED BY <1>6, <2>2, <2>3, <2>4, <2>5
          DEF SendFails, MarkedIsInLog, OnlyCommittedIsSent, Started
<1>7. ASSUME NEW b \in Batches, MarkFails(b) PROVE RelayInv'
  <2>1. published' \subseteq published \cup sent[b]
    BY <1>7 DEF MarkFails
  <2>2. RelayTypeOK'
    BY <1>7, <2>1 DEF MarkFails, Fault, RelayTypeOK
  <2>3. \A c \in Batches : todo'[c] \subseteq committed /\ sent'[c] \subseteq InLog
    BY <1>7 DEF MarkFails, RelayTypeOK
  <2> QED BY <1>7, <2>1, <2>2, <2>3
          DEF MarkFails, MarkedIsInLog, OnlyCommittedIsSent, InLog, Started
<1>8. ASSUME NEW b \in Batches, SendRejected(b) PROVE RelayInv'
  <2>1. RelayTypeOK'
    BY <1>8 DEF SendRejected, RelayTypeOK
  <2>2. \A c \in Batches : todo'[c] \subseteq committed
    BY <1>8 DEF SendRejected, RelayTypeOK
  <2> QED BY <1>8, <2>1, <2>2
          DEF SendRejected, MarkedIsInLog, OnlyCommittedIsSent, InLog, Started
<1>9. CASE Connect \/ ConnectFails
  <2>1. RelayTypeOK'
    BY <1>9 DEF Connect, ConnectFails, Fault, RelayTypeOK
  <2> QED BY <1>9, <2>1
          DEF Connect, ConnectFails, MarkedIsInLog, OnlyCommittedIsSent, InLog, Started
<1>10. CASE Crash
  <2>1. RelayTypeOK'
    BY <1>10 DEF Crash, Fault, RelayTypeOK
  <2> QED BY <1>10, <2>1 DEF Crash, MarkedIsInLog, OnlyCommittedIsSent, InLog, Started
<1>11. CASE UNCHANGED relayVars
  BY <1>11 DEF relayVars, RelayTypeOK, MarkedIsInLog, OnlyCommittedIsSent, InLog, Started
<1> QED BY <1>1, <1>2, <1>3, <1>4, <1>5, <1>6, <1>7, <1>8, <1>9, <1>10, <1>11 DEF Next

\* The inductive invariant holds in every state of the publisher: what is marked
\* is in the topic, and what is in the topic or in a batch is committed.
THEOREM RelayInvariant == Spec => []RelayInv
<1> QED BY RelayInvInit, RelayInvNext, PTL DEF Spec

\* Nothing marked as published is missing from Kafka, whatever failed on the
\* way, and no row of a transaction that did not commit is there.
THEOREM RelayLosesNothing == Spec => [](MarkedIsInLog /\ OnlyCommittedIsSent)
<1>1. RelayInv => MarkedIsInLog /\ OnlyCommittedIsSent
  BY DEF RelayInv
<1> QED BY <1>1, RelayInvariant, PTL

\* Appending a message changes the topic, so that two messages are not confused.
LEMMA AppendTells ==
    ASSUME NEW S, NEW s \in Seq(S), NEW e \in S, NEW f \in S
    PROVE  /\ Append(s, e) # s
           /\ Append(s, e) = Append(s, f) => e = f
<1>1. Len(Append(s, e)) = Len(s) + 1 /\ Len(s) \in Nat
  OBVIOUS
<1>2. Append(s, e)[Len(s) + 1] = e /\ Append(s, f)[Len(s) + 1] = f
  OBVIOUS
<1>3. Append(s, e) # s
  BY <1>1
<1>4. Append(s, e) = Append(s, f) => e = f
  BY <1>2
<1> QED BY <1>3, <1>4

\* One step of the publisher takes no published row up again.
LEMMA QuietStep ==
    ASSUME RelayInv, [Next]_relayVars, NEW e \in published
    PROVE  /\ e \in published'
           /\ \A b \in Batches : e \in todo'[b] => e \in todo[b]
           /\ log' = Append(log, e) => \E b \in Batches : e \in todo[b]
<1> USE DEF RelayInv
<1>0. e \in Events /\ log \in Seq(Events) /\ Append(log, e) # log
  BY AppendTells DEF RelayTypeOK
<1> DEFINE Quiet == /\ e \in published'
                    /\ \A b \in Batches : e \in todo'[b] => e \in todo[b]
                    /\ log' = Append(log, e) => \E b \in Batches : e \in todo[b]
<1>1. ASSUME NEW f \in Events, Begin(f) \/ Commit(f) PROVE Quiet
  BY <1>0, <1>1 DEF Begin, Commit
<1>2. ASSUME NEW b \in Batches, Start(b) PROVE Quiet
  <2>1. e \notin Batch
    BY DEF Batch, Pending
  <2> QED BY <1>0, <1>2, <2>1 DEF Start, RelayTypeOK
<1>3. ASSUME NEW b \in Batches, Send(b) PROVE Quiet
  <2>1. PICK f \in todo[b] : log' = Append(log, f) /\ todo' = [todo EXCEPT ![b] = @ \ {f}]
    BY <1>3, OldestIsRow DEF Send
  <2>2. f \in Events
    BY <2>1 DEF RelayTypeOK
  <2>3. log' = Append(log, e) => e = f
    BY <1>0, <2>1, <2>2, AppendTells
  <2> QED BY <1>3, <2>1, <2>3 DEF Send, RelayTypeOK
<1>4. ASSUME NEW b \in Batches, Mark(b) PROVE Quiet
  BY <1>0, <1>4 DEF Mark
<1>5. ASSUME NEW b \in Batches, SendFails(b) PROVE Quiet
  <2>1. PICK f \in todo[b] : log' \in {log, Append(log, f)}
    BY <1>5, OldestIsRow DEF SendFails
  <2>2. f \in Events
    BY <2>1 DEF RelayTypeOK
  <2>3. log' = Append(log, e) => e = f
    BY <1>0, <2>1, <2>2, AppendTells
  <2> QED BY <1>5, <2>1, <2>3 DEF SendFails, RelayTypeOK
<1>6. ASSUME NEW b \in Batches, MarkFails(b) \/ SendRejected(b) PROVE Quiet
  BY <1>0, <1>6 DEF MarkFails, SendRejected, RelayTypeOK
<1>7. CASE Crash \/ Connect \/ ConnectFails
  BY <1>0, <1>7 DEF Crash, Connect, ConnectFails
<1>8. CASE UNCHANGED relayVars
  BY <1>0, <1>8 DEF relayVars
<1> QED BY <1>1, <1>2, <1>3, <1>4, <1>5, <1>6, <1>7, <1>8 DEF Next

\* A published row is never read by a batch again, and is sent again only by a
\* batch that had read it before.
THEOREM RelayStaysQuiet == Spec => PublishedStaysQuiet
<1>1. RelayInv /\ [Next]_relayVars =>
        [\A e \in published :
          /\ e \in published'
          /\ \A b \in Batches : e \in todo'[b] => e \in todo[b]
          /\ log' = Append(log, e) => \E b \in Batches : e \in todo[b]]_relayVars
  BY QuietStep
<1> QED BY <1>1, RelayInvariant, PTL DEF Spec, PublishedStaysQuiet

\* The empty outbox is an empty bus.
LEMMA BusInit == Init => Bus!Init
BY DEF Init, Bus!Init, InLog

\* Every step of the publisher delivers one event, writes one, or does not show.
LEMMA BusNext == RelayInv /\ [Next]_relayVars => [Bus!Next]_(Bus!vars)
<1> SUFFICES ASSUME RelayInv, [Next]_relayVars PROVE [Bus!Next]_(Bus!vars)
  OBVIOUS
<1> USE DEF RelayInv
<1>1. ASSUME NEW e \in Events, Begin(e) PROVE UNCHANGED Bus!vars
  BY <1>1 DEF Begin, Bus!vars, InLog
<1>2. ASSUME NEW e \in Events, Commit(e) PROVE Bus!Write(e)
  BY <1>2 DEF Commit, Bus!Write, InLog
<1>3. ASSUME NEW e \in committed, log' = Append(log, e), UNCHANGED committed
      PROVE  Bus!Deliver(e) \/ UNCHANGED Bus!vars
  <2>1. e \in Events
    BY DEF RelayTypeOK
  <2>2. InLog' = InLog \cup {e}
    BY <1>3, <2>1, LogGrows
  <2>3. CASE e \in InLog
    BY <1>3, <2>2, <2>3 DEF Bus!vars
  <2>4. CASE e \notin InLog
    BY <1>3, <2>2, <2>4 DEF Bus!Deliver
  <2> QED BY <2>3, <2>4
<1>4. ASSUME NEW b \in Batches, Send(b) \/ SendFails(b) PROVE [Bus!Next]_(Bus!vars)
  <2>1. PICK e \in todo[b] : log' \in {log, Append(log, e)}
    BY <1>4, OldestIsRow DEF Send, SendFails
  <2>2. e \in committed /\ e \in Events
    BY <2>1 DEF RelayTypeOK
  <2>3. UNCHANGED committed
    BY <1>4 DEF Send, SendFails
  <2>4. CASE log' = log
    BY <2>3, <2>4 DEF Bus!vars, InLog
  <2>5. CASE log' = Append(log, e)
    BY <1>3, <2>2, <2>3, <2>5 DEF Bus!Next
  <2> QED BY <2>1, <2>4, <2>5
<1>5. ASSUME NEW b \in Batches, Start(b) \/ Mark(b) \/ MarkFails(b) \/ SendRejected(b)
      PROVE  UNCHANGED Bus!vars
  BY <1>5 DEF Start, Mark, MarkFails, SendRejected, Bus!vars, InLog
<1>6. CASE Crash \/ Connect \/ ConnectFails
  BY <1>6 DEF Crash, Connect, ConnectFails, Bus!vars, InLog
<1>7. CASE UNCHANGED relayVars
  BY <1>7 DEF relayVars, Bus!vars, InLog
<1> QED BY <1>1, <1>2, <1>4, <1>5, <1>6, <1>7 DEF Next, Bus!Next

\* The publisher implements the bus: overlapping batches, failures and crashes
\* never show as a lost or an invented event.
THEOREM RelayImplementsBus == Spec => ImplementsBus
<1> QED BY BusInit, BusNext, RelayInvariant, PTL DEF Spec, ImplementsBus, Bus!Spec

=============================================================================
