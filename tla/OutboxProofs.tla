---------------------------- MODULE OutboxProofs ----------------------------
(***************************************************************************)
(* Proofs about Outbox for every number of rows and replicas and every     *)
(* bound: the inductive invariant IInv, the safety properties that follow  *)
(* from it, and that the outbox implements TaskHandoff.                    *)
(***************************************************************************)
EXTENDS Outbox, TLAPS

USE OutboxAssumption

\* The publish loop is at one row at a time.
LEMMA CurrentIsUnique ==
    ASSUME NEW p, NEW q, NEW r, q \in Rows, r \in Rows,
           IsCurrent(p, q), IsCurrent(p, r)
    PROVE  q = r
<1>1. q \in Nat /\ r \in Nat
  OBVIOUS
<1>2. q <= r /\ r <= q
  BY DEF IsCurrent
<1> QED
  BY <1>1, <1>2

\* A claimed batch consists of pending rows that nobody else has locked.
LEMMA FirstRowsClaims ==
    ASSUME NEW S, NEW n
    PROVE  FirstRows(S, n) \subseteq S
BY DEF FirstRows

-----------------------------------------------------------------------------
(* Type correctness *)

\* Every action keeps every variable in its type.
LEMMA TypeStep == TypeOK /\ [Next]_vars => TypeOK'
<1> SUFFICES ASSUME TypeOK, [Next]_vars PROVE TypeOK'
  OBVIOUS
<1> USE DEF TypeOK
<1>1. ASSUME NEW r \in Rows, Producer(r) PROVE TypeOK'
  <2>1. CASE Add(r)
    BY <2>1 DEF Add, relayVars, brokerVars, histVars
  <2>2. CASE CommitTask(r)
    BY <2>2 DEF CommitTask, relayVars, brokerVars, histVars
  <2>3. CASE RollbackTask(r)
    BY <2>3 DEF RollbackTask, relayVars, brokerVars, histVars
  <2> QED
    BY <1>1, <2>1, <2>2, <2>3 DEF Producer
<1>2. ASSUME NEW r \in Rows, LateArrives(r) \/ LateLost(r) PROVE TypeOK'
  <2>1. late' \in [Rows -> Nat]
    BY <1>2 DEF LateArrives, LateLost
  <2>2. copies' \in [Rows -> Nat]
    BY <1>2 DEF LateArrives, LateLost
  <2> QED
    BY <1>2, <2>1, <2>2 DEF LateArrives, LateLost, dbVars, relayVars, histVars
<1>3. ASSUME NEW p \in Relays, PendingBatch(p) PROVE TypeOK'
  <2>1. FirstRows(Claimable, BatchSize) \subseteq Rows
    BY FirstRowsClaims DEF Claimable
  <2> QED
    BY <1>3, <2>1 DEF PendingBatch, dbVars, brokerVars, histVars
<1>4. ASSUME NEW p \in Relays, CommitBatch(p) PROVE TypeOK'
  <2>1. row' \in [Rows -> {"absent", "pending", "sent"}]
    BY <1>4 DEF CommitBatch
  <2>2. attempts' \in [Rows -> 0..MaxAttempts]
    BY <1>4 DEF CommitBatch
  <2> QED
    BY <1>4, <2>1, <2>2 DEF CommitBatch, brokerVars, histVars
<1>5. ASSUME NEW p \in Relays, NEW r \in Rows,
             PublishFails(p, r) \/ Publish(p, r) \/ ConfirmAck(p, r) \/ ConfirmNack(p, r)
      PROVE TypeOK'
  <2>1. CASE PublishFails(p, r)
    BY <2>1 DEF PublishFails, dbVars, relayVars, brokerVars, histVars
  <2>2. CASE Publish(p, r)
    BY <2>2 DEF Publish, dbVars, relayVars, brokerVars, histVars
  <2>3. CASE ConfirmAck(p, r)
    BY <2>3 DEF ConfirmAck, dbVars, relayVars, brokerVars, histVars
  <2>4. CASE ConfirmNack(p, r)
    BY <2>4 DEF ConfirmNack, dbVars, relayVars, brokerVars, histVars
  <2> QED
    BY <1>5, <2>1, <2>2, <2>3, <2>4
<1>6. ASSUME NEW p \in Relays, NEW r \in Rows, BrokerAccept(p, r) \/ BrokerReject(p, r)
      PROVE TypeOK'
  <2>1. copies' \in [Rows -> Nat]
    BY <1>6 DEF BrokerAccept, BrokerReject
  <2>2. wire' \in [Relays -> {"idle", "sent", "acked", "nacked", "cut"}]
    BY <1>6 DEF BrokerAccept, BrokerReject
  <2> QED
    BY <1>6, <2>1, <2>2 DEF BrokerAccept, BrokerReject, dbVars, relayVars, histVars
<1>7. ASSUME NEW p \in Relays, RollbackBatch(p) \/ Crash(p) PROVE TypeOK'
  <2>1. late' \in [Rows -> Nat]
    <3>1. late' = [r \in Rows |-> IF wire[p] = "sent" /\ IsCurrent(p, r)
                                 THEN late[r] + 1 ELSE late[r]]
      BY <1>7 DEF RollbackBatch, Crash, ReleaseBatch
    <3> QED
      BY <3>1
  <2>2. redo' \in [Rows -> Nat]
    <3>1. redo' = [r \in Rows |-> IF r \in Republished(p) THEN redo[r] + 1 ELSE redo[r]]
      BY <1>7 DEF RollbackBatch, Crash, ReleaseBatch
    <3> QED
      BY <3>1
  <2>3. faults' \in [rollbacks : Nat, connLosses : Nat, chanLosses : Nat]
    BY <1>7 DEF RollbackBatch, Crash, ReleaseBatch
  <2>4. /\ pc' \in [Relays -> {"poll", "publish"}]
        /\ batch' \in [Relays -> SUBSET Rows]
        /\ sent' \in [Relays -> SUBSET Rows]
        /\ failed' \in [Relays -> SUBSET Rows]
    BY <1>7 DEF RollbackBatch, Crash, ReleaseBatch
  <2>5. /\ wire' \in [Relays -> {"idle", "sent", "acked", "nacked", "cut"}]
        /\ conn' \in [Relays -> {"up", "down", "half"}]
    BY <1>7 DEF RollbackBatch, Crash, ReleaseBatch
  <2>6. UNCHANGED <<txn, documents, row, attempts, copies, doubt>>
    BY <1>7 DEF RollbackBatch, Crash, dbVars
  <2> QED
    BY <2>1, <2>2, <2>3, <2>4, <2>5, <2>6
<1>8. ASSUME NEW p \in Relays, ConnectionLost(p) \/ ChannelClosed(p) PROVE TypeOK'
  <2>1. late' \in [Rows -> Nat]
    BY <1>8 DEF ConnectionLost, ChannelClosed, CutWire
  <2>2. faults' \in [rollbacks : Nat, connLosses : Nat, chanLosses : Nat]
    BY <1>8 DEF ConnectionLost, ChannelClosed
  <2>3. /\ wire' \in [Relays -> {"idle", "sent", "acked", "nacked", "cut"}]
        /\ conn' \in [Relays -> {"up", "down", "half"}]
    BY <1>8 DEF ConnectionLost, ChannelClosed, CutWire
  <2> QED
    BY <1>8, <2>1, <2>2, <2>3 DEF ConnectionLost, ChannelClosed, CutWire, dbVars, relayVars
<1>9. ASSUME NEW p \in Relays, NEW r \in Rows, ConfirmTimeout(p, r) PROVE TypeOK'
  <2>1. late' \in [Rows -> Nat]
    BY <1>9 DEF ConfirmTimeout
  <2>2. doubt' \in [Rows -> Nat]
    BY <1>9 DEF ConfirmTimeout
  <2> QED
    BY <1>9, <2>1, <2>2 DEF ConfirmTimeout, dbVars
<1>10. ASSUME NEW p \in Relays, Reconnect(p) PROVE TypeOK'
  BY <1>10 DEF Reconnect, dbVars, relayVars, histVars
<1>11. CASE UNCHANGED vars
  BY <1>11 DEF vars, dbVars, relayVars, brokerVars, histVars
<1> QED
  BY <1>1, <1>2, <1>3, <1>4, <1>5, <1>6, <1>7, <1>8, <1>9, <1>10, <1>11
     DEF Next, RelayStep, Broker, Fault

\* The variables of the outbox always have their types.
THEOREM TypeCorrect == Spec => []TypeOK
<1>1. Init => TypeOK
  BY DEF Init, TypeOK
<1>2. QED
  BY <1>1, TypeStep, PTL DEF Spec

-----------------------------------------------------------------------------
(* The row locks and the relay's local slices *)

\* A relay whose batch and slices a step leaves alone is at the same row after it.
LEMMA SameCurrent ==
    ASSUME NEW q, batch'[q] = batch[q], sent'[q] = sent[q], failed'[q] = failed[q]
    PROVE  /\ Todo(q)' = Todo(q)
           /\ \A r : IsCurrent(q, r)' <=> IsCurrent(q, r)
BY DEF IsCurrent, Todo

\* Only PendingBatch adds to a batch, and it skips what is locked.
LEMMA LocksExclusiveStep ==
    TypeOK /\ LocksExclusive /\ [Next]_vars => LocksExclusive'
<1> SUFFICES ASSUME TypeOK, LocksExclusive, [Next]_vars,
                    NEW p \in Relays, NEW q \in Relays, p # q
             PROVE  (batch[p] \cap batch[q] = {})'
  BY DEF LocksExclusive
<1>0. batch[p] \cap batch[q] = {}
  BY DEF LocksExclusive
<1>1. ASSUME NEW z \in Relays, PendingBatch(z)
      PROVE  (batch[p] \cap batch[q] = {})'
  <2>1. batch' = [batch EXCEPT ![z] = FirstRows(Claimable, BatchSize)]
    BY <1>1 DEF PendingBatch
  <2>2. \A x \in Relays : FirstRows(Claimable, BatchSize) \cap batch[x] = {}
    BY FirstRowsClaims DEF Claimable, Locked
  <2> QED
    BY <1>0, <2>1, <2>2 DEF TypeOK
<1>2. ASSUME NEW z \in Relays, CommitBatch(z) \/ RollbackBatch(z) \/ Crash(z)
      PROVE  (batch[p] \cap batch[q] = {})'
  <2>1. batch' = [batch EXCEPT ![z] = {}]
    BY <1>2 DEF CommitBatch, RollbackBatch, Crash, ReleaseBatch
  <2> QED
    BY <1>0, <2>1 DEF TypeOK
<1>3. CASE UNCHANGED batch
  BY <1>0, <1>3
<1> QED
  BY <1>1, <1>2, <1>3
     DEF Next, vars, Producer, Add, CommitTask, RollbackTask, LateArrives, LateLost,
         RelayStep, PublishFails, Publish, ConfirmAck, ConfirmNack,
         Broker, BrokerAccept, BrokerReject, Fault, ConfirmTimeout,
         ConnectionLost, ChannelClosed, CutWire, Reconnect, relayVars

\* A relay that is between batches holds nothing and waits for nothing.
LEMMA IdleRelay ==
    ASSUME TypeOK, BatchIsPending, NEW p \in Relays, batch[p] = {}
    PROVE  sent[p] = {} /\ failed[p] = {} /\ wire[p] = "idle"
<1>1. sent[p] = {} /\ failed[p] = {}
  BY DEF BatchIsPending
<1>2. \A r \in Rows : ~IsCurrent(p, r)
  BY DEF IsCurrent, Todo
<1> QED
  BY <1>1, <1>2 DEF BatchIsPending

\* Locked rows stay pending until their own relay commits; a confirm is awaited
\* only for the row the loop is at.
LEMMA BatchIsPendingStep ==
    TypeOK /\ LocksExclusive /\ BatchIsPending /\ [Next]_vars => BatchIsPending'
<1> DEFINE Holds(p) ==
             /\ \A r \in batch[p] : row[r] = "pending"
             /\ sent[p] \cup failed[p] \subseteq batch[p]
             /\ sent[p] \cap failed[p] = {}
             /\ pc[p] = "poll" => batch[p] = {}
             /\ wire[p] # "idle" => \E r \in Rows : IsCurrent(p, r)
<1> SUFFICES ASSUME TypeOK, LocksExclusive, BatchIsPending, [Next]_vars,
                    NEW p \in Relays
             PROVE  Holds(p)'
  BY DEF BatchIsPending
<1>0. Holds(p)
  BY DEF BatchIsPending
<1>a. ASSUME UNCHANGED <<pc, batch, sent, failed>>,
             \A r \in Rows : row[r] = "pending" => row'[r] = "pending",
             wire'[p] # "idle" => wire[p] # "idle" \/ \E r \in Rows : IsCurrent(p, r)
      PROVE  Holds(p)'
  <2>1. \A r : IsCurrent(p, r)' <=> IsCurrent(p, r)
    BY <1>a, SameCurrent
  <2>2. batch[p] \subseteq Rows
    BY DEF TypeOK
  <2> QED
    BY <1>0, <1>a, <2>1, <2>2
<1>1. ASSUME NEW r \in Rows, Producer(r) \/ LateArrives(r) \/ LateLost(r)
      PROVE  Holds(p)'
  <2>1. UNCHANGED <<pc, batch, sent, failed, wire>>
    BY <1>1 DEF Producer, Add, CommitTask, RollbackTask, LateArrives, LateLost,
                relayVars, brokerVars
  <2>2. \A q \in Rows : row[q] = "pending" => row'[q] = "pending"
    BY <1>1 DEF Producer, Add, CommitTask, RollbackTask, LateArrives, LateLost, dbVars, TypeOK
  <2> QED
    BY <1>a, <2>1, <2>2
<1>2. ASSUME NEW z \in Relays, PendingBatch(z) PROVE Holds(p)'
  <2>1. batch' = [batch EXCEPT ![z] = FirstRows(Claimable, BatchSize)]
    BY <1>2 DEF PendingBatch
  <2>2. /\ pc' = [pc EXCEPT ![z] = "publish"]
        /\ UNCHANGED <<row, sent, failed, wire>>
    BY <1>2 DEF PendingBatch, dbVars, brokerVars
  <2>3. CASE p # z
    <3>1. batch'[p] = batch[p] /\ pc'[p] = pc[p]
      BY <2>1, <2>2, <2>3 DEF TypeOK
    <3>2. \A r : IsCurrent(p, r)' <=> IsCurrent(p, r)
      BY <3>1, <2>2, SameCurrent
    <3> QED
      BY <1>0, <2>2, <3>1, <3>2
  <2>4. CASE p = z
    <3>1. pc[p] = "poll"
      BY <1>2, <2>4 DEF PendingBatch
    <3>2. batch[p] = {} /\ sent[p] = {} /\ failed[p] = {} /\ wire[p] = "idle"
      BY <1>0, <3>1, IdleRelay
    <3>3. batch'[p] = FirstRows(Claimable, BatchSize)
      BY <2>1, <2>4 DEF TypeOK
    <3>4. \A r \in batch'[p] : row[r] = "pending"
      BY <3>3, FirstRowsClaims DEF Claimable
    <3>5. pc'[p] = "publish"
      BY <2>2, <2>4 DEF TypeOK
    <3> QED
      BY <2>2, <3>2, <3>4, <3>5
  <2> QED
    BY <2>3, <2>4
<1>3. ASSUME NEW z \in Relays, NEW r \in Rows,
             \/ PublishFails(z, r) \/ ConfirmAck(z, r) \/ ConfirmNack(z, r)
             \/ ConfirmTimeout(z, r)
      PROVE  Holds(p)'
  <2>1. /\ UNCHANGED <<row, pc, batch>>
        /\ r \in Todo(z)
        /\ wire' = [wire EXCEPT ![z] = "idle"] \/ (wire[z] = "idle" /\ wire' = wire)
        /\ \/ sent' = [sent EXCEPT ![z] = @ \cup {r}] /\ failed' = failed
           \/ failed' = [failed EXCEPT ![z] = @ \cup {r}] /\ sent' = sent
    BY <1>3 DEF PublishFails, ConfirmAck, ConfirmNack, ConfirmTimeout, IsCurrent,
                dbVars, brokerVars
  <2>2. CASE p # z
    <3>1. sent'[p] = sent[p] /\ failed'[p] = failed[p] /\ wire'[p] = wire[p]
      BY <2>1, <2>2 DEF TypeOK
    <3>2. \A x : IsCurrent(p, x)' <=> IsCurrent(p, x)
      BY <2>1, <3>1, SameCurrent
    <3> QED
      BY <1>0, <2>1, <3>1, <3>2
  <2>3. CASE p = z
    <3>1. wire'[p] = "idle"
      BY <2>1, <2>3 DEF TypeOK
    <3>2. r \in batch[p] /\ r \notin sent[p] /\ r \notin failed[p]
      BY <2>1, <2>3 DEF Todo
    <3>3. \/ sent'[p] = sent[p] \cup {r} /\ failed'[p] = failed[p]
          \/ failed'[p] = failed[p] \cup {r} /\ sent'[p] = sent[p]
      BY <2>1, <2>3 DEF TypeOK
    <3> QED
      BY <1>0, <2>1, <3>1, <3>2, <3>3
  <2> QED
    BY <2>2, <2>3
<1>4. ASSUME NEW z \in Relays, NEW r \in Rows, Publish(z, r) PROVE Holds(p)'
  <2>1. wire' = [wire EXCEPT ![z] = "sent"] /\ IsCurrent(z, r)
    BY <1>4 DEF Publish
  <2>2. wire'[p] # "idle" => wire[p] # "idle" \/ \E x \in Rows : IsCurrent(p, x)
    BY <2>1 DEF TypeOK
  <2> QED
    BY <1>4, <1>a, <2>2 DEF Publish, dbVars, relayVars
<1>5. ASSUME NEW z \in Relays, NEW r \in Rows,
             BrokerAccept(z, r) \/ BrokerReject(z, r)
      PROVE  Holds(p)'
  <2>1. wire'[p] # "idle" => wire[p] # "idle"
    BY <1>5 DEF BrokerAccept, BrokerReject, TypeOK
  <2> QED
    BY <1>5, <1>a, <2>1 DEF BrokerAccept, BrokerReject, dbVars, relayVars
<1>6. ASSUME NEW z \in Relays, ConnectionLost(z) \/ ChannelClosed(z) PROVE Holds(p)'
  <2>1. wire'[p] # "idle" => wire[p] # "idle"
    BY <1>6 DEF ConnectionLost, ChannelClosed, CutWire, TypeOK
  <2> QED
    BY <1>6, <1>a, <2>1 DEF ConnectionLost, ChannelClosed, CutWire, dbVars, relayVars
<1>7. ASSUME NEW z \in Relays, CommitBatch(z) \/ RollbackBatch(z) \/ Crash(z)
      PROVE  Holds(p)'
  <2>1. /\ batch' = [batch EXCEPT ![z] = {}]
        /\ sent' = [sent EXCEPT ![z] = {}]
        /\ failed' = [failed EXCEPT ![z] = {}]
        /\ pc' = [pc EXCEPT ![z] = "poll"]
        /\ wire' = [wire EXCEPT ![z] = "idle"] \/ (wire' = wire /\ Todo(z) = {})
    BY <1>7 DEF CommitBatch, RollbackBatch, Crash, ReleaseBatch, brokerVars
  <2>2. CASE p = z
    <3>1. wire'[p] = "idle"
      <4>1. Todo(p) = {} => wire[p] = "idle"
        BY <1>0 DEF IsCurrent
      <4> QED
        BY <2>1, <2>2, <4>1 DEF TypeOK
    <3> QED
      BY <2>1, <2>2, <3>1 DEF TypeOK
  <2>3. CASE p # z
    <3>1. /\ batch'[p] = batch[p] /\ sent'[p] = sent[p] /\ failed'[p] = failed[p]
          /\ pc'[p] = pc[p] /\ wire'[p] = wire[p]
      BY <2>1, <2>3 DEF TypeOK
    <3>2. \A x : IsCurrent(p, x)' <=> IsCurrent(p, x)
      BY <3>1, SameCurrent
    <3>3. \A x \in batch[p] : row'[x] = "pending"
      <4>1. row' = row \/ row' = [x \in Rows |-> IF x \in sent[z] THEN "sent" ELSE row[x]]
        BY <1>7 DEF CommitBatch, RollbackBatch, Crash, dbVars
      <4>2. batch[p] \cap sent[z] = {} /\ batch[p] \subseteq Rows
        BY <2>3 DEF LocksExclusive, BatchIsPending, TypeOK
      <4> QED
        BY <1>0, <4>1, <4>2
    <3> QED
      BY <1>0, <3>1, <3>2, <3>3
  <2> QED
    BY <2>2, <2>3
<1>8. ASSUME NEW z \in Relays, Reconnect(z) PROVE Holds(p)'
  BY <1>8, <1>a DEF Reconnect, dbVars, relayVars
<1>9. CASE UNCHANGED vars
  BY <1>9, <1>a DEF vars, dbVars, relayVars, brokerVars
<1> HIDE DEF Holds
<1> QED
  BY <1>1, <1>2, <1>3, <1>4, <1>5, <1>6, <1>7, <1>8, <1>9
     DEF Next, RelayStep, Broker, Fault

-----------------------------------------------------------------------------
(* Transactions: document, row and message *)

\* Only a producer's COMMIT makes a document or a row visible, and it makes both.
LEMMA CommittedTogetherStep ==
    TypeOK /\ BatchIsPending /\ CommittedTogether /\ [Next]_vars => CommittedTogether'
<1> SUFFICES ASSUME TypeOK, BatchIsPending, CommittedTogether, [Next]_vars
             PROVE  CommittedTogether'
  OBVIOUS
<1> USE DEF CommittedTogether
<1>1. ASSUME NEW r \in Rows, Add(r) \/ RollbackTask(r) PROVE CommittedTogether'
  <2>1. /\ UNCHANGED <<documents, row>>
        /\ \A q \in Rows : txn'[q] = "committed" <=> txn[q] = "committed"
    BY <1>1 DEF Add, RollbackTask, TypeOK
  <2> QED
    BY <2>1
<1>2. ASSUME NEW r \in Rows, CommitTask(r) PROVE CommittedTogether'
  <2>1. /\ txn' = [txn EXCEPT ![r] = "committed"]
        /\ row' = [row EXCEPT ![r] = "pending"]
        /\ documents' = documents \cup ({r} \cap DocRows)
    BY <1>2 DEF CommitTask
  <2>2. \A q \in Rows : row'[q] # "absent" <=> txn'[q] = "committed"
    BY <2>1 DEF TypeOK
  <2>3. \A q \in DocRows : q \in documents' <=> txn'[q] = "committed"
    BY <2>1 DEF TypeOK
  <2> QED
    BY <2>1, <2>2, <2>3
<1>3. ASSUME NEW p \in Relays, CommitBatch(p) PROVE CommittedTogether'
  <2>1. \A r \in Rows : row'[r] # "absent" <=> row[r] # "absent"
    BY <1>3 DEF CommitBatch, BatchIsPending
  <2> QED
    BY <1>3, <2>1 DEF CommitBatch
<1>4. CASE UNCHANGED <<txn, documents, row>>
  BY <1>4
<1> QED
  BY <1>1, <1>2, <1>3, <1>4
     DEF Next, vars, Producer, LateArrives, LateLost, RelayStep, PendingBatch,
         PublishFails, Publish, ConfirmAck, ConfirmNack, Broker, BrokerAccept,
         BrokerReject, Fault, RollbackBatch, Crash, ConfirmTimeout, ConnectionLost,
         ChannelClosed, CutWire, Reconnect, dbVars

\* A committed row never disappears.
LEMMA RowsStay ==
    ASSUME TypeOK, [Next]_vars, NEW r \in Rows, row[r] # "absent"
    PROVE  row'[r] # "absent"
<1>1. ASSUME NEW q \in Rows, CommitTask(q) PROVE row'[r] # "absent"
  BY <1>1 DEF CommitTask, TypeOK
<1>2. ASSUME NEW p \in Relays, CommitBatch(p) PROVE row'[r] # "absent"
  BY <1>2 DEF CommitBatch
<1>3. CASE UNCHANGED row
  BY <1>3
<1> QED
  BY <1>1, <1>2, <1>3
     DEF Next, vars, Producer, Add, RollbackTask, LateArrives, LateLost, RelayStep,
         PendingBatch, PublishFails, Publish, ConfirmAck, ConfirmNack, Broker,
         BrokerAccept, BrokerReject, Fault, RollbackBatch, Crash, ConfirmTimeout,
         ConnectionLost, ChannelClosed, CutWire, Reconnect, dbVars

\* A message, or one on its way, stems from a batch, and a batch is of rows.
LEMMA WorkHasRowStep ==
    TypeOK /\ BatchIsPending /\ WorkHasRow /\ [Next]_vars => WorkHasRow'
<1> SUFFICES ASSUME TypeOK, BatchIsPending, WorkHasRow, [Next]_vars,
                    NEW r \in Rows, copies'[r] + late'[r] > 0
             PROVE  row[r] # "absent"
  BY RowsStay DEF WorkHasRow
<1>0. copies[r] \in Nat /\ late[r] \in Nat
  BY DEF TypeOK
<1>a. SUFFICES ASSUME copies[r] + late[r] = 0 PROVE row[r] # "absent"
  BY <1>0 DEF WorkHasRow
<1>b. ASSUME NEW p \in Relays, IsCurrent(p, r) PROVE row[r] # "absent"
  BY <1>b DEF IsCurrent, Todo, BatchIsPending
<1>1. ASSUME NEW q \in Rows, LateArrives(q) \/ LateLost(q) PROVE FALSE
  <2>1. late[q] > 0
    BY <1>1 DEF LateArrives, LateLost
  <2>2. q # r
    BY <1>0, <1>a, <2>1
  <2>3. copies'[r] = copies[r] /\ late'[r] = late[r]
    BY <1>1, <2>2 DEF LateArrives, LateLost, TypeOK
  <2> QED
    BY <1>0, <1>a, <2>3
<1>2. ASSUME NEW p \in Relays, NEW q \in Rows, BrokerAccept(p, q)
      PROVE  row[r] # "absent"
  <2>1. IsCurrent(p, q) /\ copies' = [copies EXCEPT ![q] = @ + 1] /\ late' = late
    BY <1>2 DEF BrokerAccept
  <2>2. q = r
    BY <1>0, <1>a, <2>1 DEF TypeOK
  <2> QED
    BY <1>b, <2>1, <2>2
<1>3. ASSUME NEW p \in Relays, NEW q \in Rows, ConfirmTimeout(p, q)
      PROVE  row[r] # "absent"
  <2>1. /\ IsCurrent(p, q) /\ copies' = copies
        /\ late' = [late EXCEPT ![q] = IF wire[p] = "sent" THEN @ + 1 ELSE @]
    BY <1>3 DEF ConfirmTimeout
  <2>2. q = r
    BY <1>0, <1>a, <2>1 DEF TypeOK
  <2> QED
    BY <1>b, <2>1, <2>2
<1>4. ASSUME NEW p \in Relays,
             \/ RollbackBatch(p) \/ Crash(p) \/ ConnectionLost(p) \/ ChannelClosed(p)
      PROVE  row[r] # "absent"
  <2>1. /\ copies' = copies
        /\ late' = [q \in Rows |-> IF wire[p] = "sent" /\ IsCurrent(p, q)
                                   THEN late[q] + 1 ELSE late[q]]
    BY <1>4 DEF RollbackBatch, Crash, ReleaseBatch, ConnectionLost, ChannelClosed, CutWire
  <2>2. IsCurrent(p, r)
    BY <1>0, <1>a, <2>1 DEF TypeOK
  <2> QED
    BY <1>b, <2>2
<1>5. ~UNCHANGED <<copies, late>>
  BY <1>0, <1>a
<1> QED
  BY <1>1, <1>2, <1>3, <1>4, <1>5
     DEF Next, vars, Producer, Add, CommitTask, RollbackTask, RelayStep, PendingBatch,
         CommitBatch, PublishFails, Publish, ConfirmAck, ConfirmNack, Broker,
         BrokerReject, Fault, Reconnect, brokerVars

-----------------------------------------------------------------------------
(* Confirms *)

\* Messages on the work queue are never taken back by anything in Outbox.
LEMMA CopiesGrow ==
    ASSUME TypeOK, [Next]_vars, NEW r \in Rows
    PROVE  copies'[r] >= copies[r]
<1>0. copies[r] \in Nat
  BY DEF TypeOK
<1>1. ASSUME NEW q \in Rows, LateArrives(q) PROVE copies'[r] >= copies[r]
  BY <1>0, <1>1 DEF LateArrives, TypeOK
<1>2. ASSUME NEW p \in Relays, NEW q \in Rows, BrokerAccept(p, q)
      PROVE  copies'[r] >= copies[r]
  BY <1>0, <1>2 DEF BrokerAccept, TypeOK
<1>3. CASE UNCHANGED copies
  BY <1>0, <1>3
<1> QED
  BY <1>1, <1>2, <1>3
     DEF Next, vars, Producer, Add, CommitTask, RollbackTask, LateLost, RelayStep,
         PendingBatch, CommitBatch, PublishFails, Publish, ConfirmAck, ConfirmNack,
         Broker, BrokerReject, Fault, RollbackBatch, Crash, ConfirmTimeout,
         ConnectionLost, ChannelClosed, CutWire, Reconnect, brokerVars

\* The relay's evidence for a row: its confirm in the slice, or on the way.
LEMMA ConfirmedIsDeliveredStep ==
    TypeOK /\ LocksExclusive /\ BatchIsPending /\ ConfirmedIsDelivered /\ [Next]_vars
      => ConfirmedIsDelivered'
<1> DEFINE Evidence(p, r) == r \in sent[p] \/ (wire[p] = "acked" /\ IsCurrent(p, r))
<1> SUFFICES ASSUME TypeOK, LocksExclusive, BatchIsPending, ConfirmedIsDelivered,
                    [Next]_vars, NEW p \in Relays, NEW r \in Rows, Evidence(p, r)'
             PROVE  copies'[r] > 0
  BY DEF ConfirmedIsDelivered
<1>0. copies[r] \in Nat /\ copies'[r] \in Nat /\ copies'[r] >= copies[r]
  BY CopiesGrow, TypeStep DEF TypeOK
<1>b. Evidence(p, r) => copies[r] > 0
  BY DEF ConfirmedIsDelivered
<1>1. SUFFICES ASSUME ~Evidence(p, r) PROVE copies'[r] > 0
  BY <1>0, <1>b
<1>a. ASSUME UNCHANGED <<batch, sent, failed>>, wire'[p] = "acked" => wire[p] = "acked"
      PROVE  FALSE
  BY <1>1, <1>a, SameCurrent
<1>2. ASSUME NEW z \in Relays, NEW q \in Rows, BrokerAccept(z, q)
      PROVE  copies'[r] > 0
  <2>1. /\ IsCurrent(z, q) /\ UNCHANGED <<batch, sent, failed>>
        /\ copies' = [copies EXCEPT ![q] = @ + 1]
        /\ wire' = [wire EXCEPT ![z] = "acked"]
    BY <1>2 DEF BrokerAccept, relayVars
  <2>2. p = z
    BY <1>1, <2>1, SameCurrent DEF TypeOK
  <2>3. IsCurrent(p, r)
    BY <1>1, <2>1, SameCurrent
  <2>4. q = r
    BY <2>1, <2>2, <2>3, CurrentIsUnique
  <2> QED
    BY <1>0, <2>1, <2>4 DEF TypeOK
<1>3. ASSUME NEW z \in Relays, NEW q \in Rows, ConfirmAck(z, q)
      PROVE  copies'[r] > 0
  <2>1. /\ wire[z] = "acked" /\ IsCurrent(z, q)
        /\ wire' = [wire EXCEPT ![z] = "idle"]
        /\ sent' = [sent EXCEPT ![z] = @ \cup {q}]
        /\ UNCHANGED <<batch, failed>>
    BY <1>3 DEF ConfirmAck
  <2>2. p = z
    BY <1>1, <2>1, SameCurrent DEF TypeOK
  <2>3. r = q
    BY <1>1, <2>1, <2>2 DEF TypeOK
  <2> QED
    BY <1>1, <2>1, <2>2, <2>3
<1>4. ASSUME NEW z \in Relays, NEW q \in Rows,
             PublishFails(z, q) \/ ConfirmNack(z, q) \/ ConfirmTimeout(z, q)
      PROVE  FALSE
  <2>1. /\ wire' = wire \/ wire' = [wire EXCEPT ![z] = "idle"]
        /\ wire[z] = "idle" \/ wire' = [wire EXCEPT ![z] = "idle"]
        /\ failed' = [failed EXCEPT ![z] = @ \cup {q}]
        /\ UNCHANGED <<batch, sent>>
    BY <1>4 DEF PublishFails, ConfirmNack, ConfirmTimeout, brokerVars
  <2>2. p # z
    BY <1>1, <2>1 DEF TypeOK
  <2> QED
    BY <1>1, <2>1, <2>2, SameCurrent DEF TypeOK
<1>5. ASSUME NEW z \in Relays, PendingBatch(z) PROVE FALSE
  <2>1. /\ pc[z] = "poll" /\ UNCHANGED <<sent, failed, wire>>
        /\ batch' = [batch EXCEPT ![z] = FirstRows(Claimable, BatchSize)]
    BY <1>5 DEF PendingBatch, brokerVars
  <2>2. wire[z] = "idle"
    BY <2>1, IdleRelay DEF BatchIsPending
  <2>3. p # z
    BY <1>1, <2>1, <2>2
  <2> QED
    BY <1>1, <2>1, <2>3, SameCurrent DEF TypeOK
<1>6. ASSUME NEW z \in Relays, CommitBatch(z) \/ RollbackBatch(z) \/ Crash(z)
      PROVE  FALSE
  <2>1. /\ batch' = [batch EXCEPT ![z] = {}]
        /\ sent' = [sent EXCEPT ![z] = {}]
        /\ failed' = [failed EXCEPT ![z] = {}]
        /\ wire' = [wire EXCEPT ![z] = "idle"] \/ wire' = wire
    BY <1>6 DEF CommitBatch, RollbackBatch, Crash, ReleaseBatch, brokerVars
  <2>2. p # z
    BY <2>1 DEF TypeOK, IsCurrent, Todo
  <2> QED
    BY <1>1, <2>1, <2>2, SameCurrent DEF TypeOK
<1>7. ASSUME NEW z \in Relays,
             \/ ConnectionLost(z) \/ ChannelClosed(z)
             \/ \E q \in Rows : Publish(z, q) \/ BrokerReject(z, q)
      PROVE  FALSE
  BY <1>7, <1>a DEF ConnectionLost, ChannelClosed, CutWire, Publish, BrokerReject,
                    relayVars, TypeOK
<1>8. ~UNCHANGED <<batch, sent, failed, wire>>
  BY <1>a
<1> HIDE DEF Evidence
<1> QED
  BY <1>2, <1>3, <1>4, <1>5, <1>6, <1>7, <1>8
     DEF Next, vars, Producer, Add, CommitTask, RollbackTask, LateArrives, LateLost,
         RelayStep, Broker, Fault, Reconnect, relayVars, brokerVars

\* sent_at is stamped from the slice of confirmed rows only.
LEMMA SentWasDeliveredStep ==
    TypeOK /\ ConfirmedIsDelivered /\ SentWasDelivered /\ [Next]_vars => SentWasDelivered'
<1> SUFFICES ASSUME TypeOK, ConfirmedIsDelivered, SentWasDelivered, [Next]_vars,
                    NEW r \in Rows, row'[r] = "sent"
             PROVE  copies'[r] > 0
  BY DEF SentWasDelivered
<1>0. copies[r] \in Nat /\ copies'[r] \in Nat /\ copies'[r] >= copies[r]
  BY CopiesGrow, TypeStep DEF TypeOK
<1>1. ASSUME NEW p \in Relays, CommitBatch(p) PROVE copies'[r] > 0
  BY <1>0, <1>1 DEF CommitBatch, ConfirmedIsDelivered, SentWasDelivered, brokerVars
<1>2. ASSUME NEW q \in Rows, CommitTask(q) PROVE copies'[r] > 0
  BY <1>0, <1>2 DEF CommitTask, SentWasDelivered, TypeOK
<1>3. CASE UNCHANGED row
  BY <1>0, <1>3 DEF SentWasDelivered
<1> QED
  BY <1>1, <1>2, <1>3
     DEF Next, vars, Producer, Add, RollbackTask, LateArrives, LateLost, RelayStep,
         PendingBatch, PublishFails, Publish, ConfirmAck, ConfirmNack, Broker,
         BrokerAccept, BrokerReject, Fault, RollbackBatch, Crash, ConfirmTimeout,
         ConnectionLost, ChannelClosed, CutWire, Reconnect, dbVars

-----------------------------------------------------------------------------
(* Duplicates *)

\* While the relay waits without a verdict, the row it is at is not accounted for.
LEMMA NotCounted ==
    ASSUME TypeOK, LocksExclusive, BatchIsPending, NEW z \in Relays, NEW r \in Rows,
           IsCurrent(z, r), wire[z] \notin {"acked", "cut"}
    PROVE  ~Counted(r)
<1>1. r \in batch[z] /\ r \notin sent[z]
  BY DEF IsCurrent, Todo
<1>2. row[r] # "sent"
  BY <1>1 DEF BatchIsPending
<1>3. \A p \in Relays : r \in batch[p] => p = z
  BY <1>1 DEF LocksExclusive
<1>4. \A p \in Relays : Vouched(p, r) => r \in batch[p]
  BY DEF Vouched, IsCurrent, Todo, BatchIsPending
<1>5. ~Vouched(z, r)
  BY <1>1 DEF Vouched
<1> QED
  BY <1>2, <1>3, <1>4, <1>5 DEF Counted

\* A row stays accounted for over a step of one relay that does not lose it.
LEMMA CountedKept ==
    ASSUME NEW z \in Relays, NEW r \in Rows, Counted(r),
           row[r] = "sent" => row'[r] = "sent",
           \A p \in Relays \ {z} : /\ batch'[p] = batch[p] /\ sent'[p] = sent[p]
                                   /\ failed'[p] = failed[p] /\ wire'[p] = wire[p],
           Vouched(z, r) => Counted(r)'
    PROVE  Counted(r)'
<1>1. ASSUME NEW p \in Relays \ {z}, Vouched(p, r) PROVE Vouched(p, r)'
  <2>1. IsCurrent(p, r)' <=> IsCurrent(p, r)
    BY SameCurrent
  <2> QED
    BY <1>1, <2>1 DEF Vouched
<1> QED
  BY <1>1 DEF Counted

\* What a row's messages may number grows with every publish that can add one.
LEMMA DuplicatesPaidStep ==
    /\ TypeOK /\ LocksExclusive /\ BatchIsPending /\ CommittedTogether
    /\ DuplicatesPaid /\ [Next]_vars
    => DuplicatesPaid'
<1> DEFINE Load(r) == copies[r] + late[r]
           Debt(r) == doubt[r] + redo[r]
<1> SUFFICES ASSUME TypeOK, LocksExclusive, BatchIsPending, CommittedTogether,
                    DuplicatesPaid, [Next]_vars, NEW r \in Rows
             PROVE  Paid(r)'
  BY DEF DuplicatesPaid
<1>0. /\ copies[r] \in Nat /\ late[r] \in Nat /\ doubt[r] \in Nat /\ redo[r] \in Nat
      /\ copies'[r] \in Nat /\ late'[r] \in Nat /\ doubt'[r] \in Nat /\ redo'[r] \in Nat
  BY TypeStep DEF TypeOK
<1>p. Paid(r)
  BY DEF DuplicatesPaid
\* The three ways a step keeps the account balanced.
<1>a. ASSUME Load(r)' <= Load(r), Debt(r)' >= Debt(r), Counted(r) => Counted(r)'
      PROVE  Paid(r)'
  BY <1>0, <1>p, <1>a DEF Paid
<1>b. ASSUME Load(r)' = Load(r) + 1, Debt(r)' = Debt(r), ~Counted(r), Counted(r)'
      PROVE  Paid(r)'
  BY <1>0, <1>p, <1>b DEF Paid
<1>c. ASSUME Load(r)' <= Load(r) + 1, Debt(r)' = Debt(r) + 1,
             Counted(r) => Load(r)' <= Load(r)
      PROVE  Paid(r)'
  BY <1>0, <1>p, <1>c DEF Paid
<1>s. ASSUME UNCHANGED <<batch, sent, failed, wire>>, row[r] = "sent" => row'[r] = "sent"
      PROVE  Counted(r) => Counted(r)'
  BY <1>s, SameCurrent DEF Counted, Vouched
<1>1. ASSUME NEW q \in Rows, Producer(q) PROVE Paid(r)'
  <2>1. /\ UNCHANGED <<batch, sent, failed, wire>>
        /\ UNCHANGED <<copies, late, doubt, redo>>
    BY <1>1 DEF Producer, Add, CommitTask, RollbackTask, relayVars, brokerVars, histVars
  <2>2. row[r] = "sent" => row'[r] = "sent"
    BY <1>1 DEF Producer, Add, CommitTask, RollbackTask, TypeOK, CommittedTogether
  <2>3. Counted(r) => Counted(r)'
    BY <1>s, <2>1, <2>2
  <2>4. Load(r)' <= Load(r) /\ Debt(r)' >= Debt(r)
    BY <1>0, <2>1
  <2> QED
    BY <1>a, <2>3, <2>4
<1>2. ASSUME NEW q \in Rows, LateArrives(q) \/ LateLost(q) PROVE Paid(r)'
  <2>1. UNCHANGED <<batch, sent, failed, wire, row, doubt, redo>>
    BY <1>2 DEF LateArrives, LateLost, dbVars, relayVars, histVars
  <2>2. late[q] > 0 /\ late' = [late EXCEPT ![q] = @ - 1]
    BY <1>2 DEF LateArrives, LateLost
  <2>3. \/ copies' = copies
        \/ copies' = [copies EXCEPT ![q] = @ + 1]
    BY <1>2 DEF LateArrives, LateLost, TypeOK
  <2>4. Load(r)' <= Load(r)
    BY <1>0, <2>2, <2>3 DEF TypeOK
  <2>5. Debt(r)' >= Debt(r)
    BY <1>0, <2>1
  <2>6. Counted(r) => Counted(r)'
    BY <1>s, <2>1
  <2> QED
    BY <1>a, <2>4, <2>5, <2>6
<1>3. ASSUME NEW z \in Relays, PendingBatch(z) PROVE Paid(r)'
  <2>1. /\ pc[z] = "poll" /\ UNCHANGED <<row, sent, failed, wire>>
        /\ UNCHANGED <<copies, late, doubt, redo>>
        /\ batch' = [batch EXCEPT ![z] = FirstRows(Claimable, BatchSize)]
    BY <1>3 DEF PendingBatch, dbVars, brokerVars, histVars
  <2>2. batch[z] = {}
    BY <2>1 DEF BatchIsPending
  <2>3. ~Vouched(z, r)
    BY <2>2, IdleRelay DEF Vouched
  <2>4. \A p \in Relays \ {z} : batch'[p] = batch[p]
    BY <2>1 DEF TypeOK
  <2>5. Counted(r) => Counted(r)'
    BY <2>1, <2>3, <2>4, CountedKept
  <2>6. Load(r)' <= Load(r) /\ Debt(r)' >= Debt(r)
    BY <1>0, <2>1
  <2> QED
    BY <1>a, <2>5, <2>6
<1>4. ASSUME NEW z \in Relays, NEW q \in Rows,
             \/ PublishFails(z, q) \/ Publish(z, q) \/ ConfirmNack(z, q)
             \/ BrokerReject(z, q)
      PROVE  Paid(r)'
  <2>1. /\ UNCHANGED <<row, batch, sent>> /\ UNCHANGED <<copies, late, doubt, redo>>
        /\ wire[z] \notin {"acked", "cut"}
        /\ \A p \in Relays \ {z} : failed'[p] = failed[p] /\ wire'[p] = wire[p]
    BY <1>4 DEF PublishFails, Publish, ConfirmNack, BrokerReject,
                dbVars, relayVars, brokerVars, histVars, TypeOK
  <2>2. Vouched(z, r) => Vouched(z, r)'
    BY <2>1 DEF Vouched
  <2>3. Counted(r) => Counted(r)'
    BY <2>1, <2>2, CountedKept DEF Counted
  <2>4. Load(r)' <= Load(r) /\ Debt(r)' >= Debt(r)
    BY <1>0, <2>1
  <2> QED
    BY <1>a, <2>3, <2>4
<1>5. ASSUME NEW z \in Relays, NEW q \in Rows, ConfirmAck(z, q) PROVE Paid(r)'
  <2>1. /\ UNCHANGED <<row, batch, failed>> /\ UNCHANGED <<copies, late, doubt, redo>>
        /\ IsCurrent(z, q)
        /\ sent' = [sent EXCEPT ![z] = @ \cup {q}]
        /\ wire' = [wire EXCEPT ![z] = "idle"]
    BY <1>5 DEF ConfirmAck, dbVars, histVars
  <2>2. Vouched(z, r) => r \in sent[z] \/ r = q
    BY <2>1, CurrentIsUnique DEF Vouched
  <2>3. Vouched(z, r) => Vouched(z, r)'
    BY <2>1, <2>2 DEF Vouched, TypeOK
  <2>4. \A p \in Relays \ {z} : sent'[p] = sent[p] /\ wire'[p] = wire[p]
    BY <2>1 DEF TypeOK
  <2>5. Counted(r) => Counted(r)'
    BY <2>1, <2>3, <2>4, CountedKept DEF Counted
  <2>6. Load(r)' <= Load(r) /\ Debt(r)' >= Debt(r)
    BY <1>0, <2>1
  <2> QED
    BY <1>a, <2>5, <2>6
<1>6. ASSUME NEW z \in Relays, NEW q \in Rows, BrokerAccept(z, q) PROVE Paid(r)'
  <2>1. /\ UNCHANGED <<row, batch, sent, failed, late, doubt, redo>>
        /\ IsCurrent(z, q) /\ wire[z] = "sent"
        /\ copies' = [copies EXCEPT ![q] = @ + 1]
        /\ wire' = [wire EXCEPT ![z] = "acked"]
    BY <1>6 DEF BrokerAccept, dbVars, relayVars, histVars
  <2>2. CASE q = r
    <3>1. ~Counted(r)
      BY <2>1, <2>2, NotCounted
    <3>2. Counted(r)'
      BY <2>1, <2>2, SameCurrent DEF Counted, Vouched, TypeOK
    <3>3. Load(r)' = Load(r) + 1 /\ Debt(r)' = Debt(r)
      BY <1>0, <2>1, <2>2 DEF TypeOK
    <3> QED
      BY <1>b, <3>1, <3>2, <3>3
  <2>3. CASE q # r
    <3>1. Vouched(z, r) => Vouched(z, r)'
      BY <2>1 DEF Vouched
    <3>2. Counted(r) => Counted(r)'
      BY <2>1, <3>1, CountedKept DEF Counted, TypeOK
    <3>3. Load(r)' <= Load(r) /\ Debt(r)' >= Debt(r)
      BY <1>0, <2>1, <2>3 DEF TypeOK
    <3> QED
      BY <1>a, <3>2, <3>3
  <2> QED
    BY <2>2, <2>3
<1>7. ASSUME NEW z \in Relays, NEW q \in Rows, ConfirmTimeout(z, q) PROVE Paid(r)'
  <2>1. /\ UNCHANGED <<row, batch, sent, copies, redo>>
        /\ IsCurrent(z, q)
        /\ late' = [late EXCEPT ![q] = IF wire[z] = "sent" THEN @ + 1 ELSE @]
        /\ doubt' = [doubt EXCEPT ![q] = @ + 1]
        /\ wire' = [wire EXCEPT ![z] = "idle"]
        /\ failed' = [failed EXCEPT ![z] = @ \cup {q}]
    BY <1>7 DEF ConfirmTimeout, dbVars
  <2>2. CASE q = r
    <3>1. Load(r)' <= Load(r) + 1 /\ Debt(r)' = Debt(r) + 1
      BY <1>0, <2>1, <2>2 DEF TypeOK
    <3>2. wire[z] # "sent" => Load(r)' <= Load(r)
      BY <1>0, <2>1, <2>2 DEF TypeOK
    <3>3. wire[z] = "sent" => ~Counted(r)
      BY <2>1, <2>2, NotCounted
    <3> QED
      BY <1>c, <3>1, <3>2, <3>3
  <2>3. CASE q # r
    <3>1. ~IsCurrent(z, r)
      BY <2>1, <2>3, CurrentIsUnique
    <3>2. Vouched(z, r) => Vouched(z, r)'
      BY <2>1, <3>1 DEF Vouched
    <3>3. \A p \in Relays \ {z} : failed'[p] = failed[p] /\ wire'[p] = wire[p]
      BY <2>1 DEF TypeOK
    <3>4. Counted(r) => Counted(r)'
      BY <2>1, <3>2, <3>3, CountedKept DEF Counted
    <3>5. Load(r)' <= Load(r) /\ Debt(r)' >= Debt(r)
      BY <1>0, <2>1, <2>3 DEF TypeOK
    <3> QED
      BY <1>a, <3>4, <3>5
  <2> QED
    BY <2>2, <2>3
<1>8. ASSUME NEW z \in Relays, CommitBatch(z) PROVE Paid(r)'
  <2>1. /\ Todo(z) = {} /\ UNCHANGED <<wire, copies, late, doubt, redo>>
        /\ row' = [q \in Rows |-> IF q \in sent[z] THEN "sent" ELSE row[q]]
        /\ batch' = [batch EXCEPT ![z] = {}]
        /\ sent' = [sent EXCEPT ![z] = {}]
        /\ failed' = [failed EXCEPT ![z] = {}]
    BY <1>8 DEF CommitBatch, brokerVars, histVars
  <2>2. Vouched(z, r) => r \in sent[z]
    BY <2>1 DEF Vouched, IsCurrent
  <2>3. Vouched(z, r) => Counted(r)'
    BY <2>1, <2>2 DEF Counted
  <2>4. \A p \in Relays \ {z} : /\ batch'[p] = batch[p] /\ sent'[p] = sent[p]
                                /\ failed'[p] = failed[p]
    BY <2>1 DEF TypeOK
  <2>5. row[r] = "sent" => row'[r] = "sent"
    BY <2>1
  <2>6. Counted(r) => Counted(r)'
    BY <2>1, <2>3, <2>4, <2>5, CountedKept
  <2>7. Load(r)' <= Load(r) /\ Debt(r)' >= Debt(r)
    BY <1>0, <2>1
  <2> QED
    BY <1>a, <2>6, <2>7
<1>9. ASSUME NEW z \in Relays, RollbackBatch(z) \/ Crash(z) PROVE Paid(r)'
  <2>1. /\ UNCHANGED <<row, copies, doubt>>
        /\ late' = [q \in Rows |-> IF wire[z] = "sent" /\ IsCurrent(z, q)
                                   THEN late[q] + 1 ELSE late[q]]
        /\ redo' = [q \in Rows |-> IF q \in Republished(z) THEN redo[q] + 1 ELSE redo[q]]
        /\ batch' = [batch EXCEPT ![z] = {}]
        /\ sent' = [sent EXCEPT ![z] = {}]
        /\ failed' = [failed EXCEPT ![z] = {}]
        /\ wire' = [wire EXCEPT ![z] = "idle"]
    BY <1>9 DEF RollbackBatch, Crash, ReleaseBatch, dbVars
  <2>2. CASE r \in Republished(z)
    <3>1. Load(r)' <= Load(r) + 1 /\ Debt(r)' = Debt(r) + 1
      BY <1>0, <2>1, <2>2
    <3>2. wire[z] = "sent" /\ IsCurrent(z, r) => ~Counted(r)
      BY NotCounted
    <3>3. ~(wire[z] = "sent" /\ IsCurrent(z, r)) => Load(r)' <= Load(r)
      BY <1>0, <2>1
    <3> QED
      BY <1>c, <3>1, <3>2, <3>3
  <2>3. CASE r \notin Republished(z)
    <3>1. ~Vouched(z, r) /\ ~(wire[z] = "sent" /\ IsCurrent(z, r))
      BY <2>3 DEF Vouched, Republished
    <3>2. \A p \in Relays \ {z} : /\ batch'[p] = batch[p] /\ sent'[p] = sent[p]
                                  /\ failed'[p] = failed[p] /\ wire'[p] = wire[p]
      BY <2>1 DEF TypeOK
    <3>3. Counted(r) => Counted(r)'
      BY <2>1, <3>1, <3>2, CountedKept
    <3>4. Load(r)' <= Load(r) /\ Debt(r)' >= Debt(r)
      BY <1>0, <2>1, <2>3, <3>1
    <3> QED
      BY <1>a, <3>3, <3>4
  <2> QED
    BY <2>2, <2>3
<1>10. ASSUME NEW z \in Relays, ConnectionLost(z) \/ ChannelClosed(z) PROVE Paid(r)'
  <2>1. /\ UNCHANGED <<row, batch, sent, failed, copies, doubt, redo>>
        /\ wire' = [wire EXCEPT ![z] = IF @ = "idle" THEN "idle" ELSE "cut"]
        /\ late' = [q \in Rows |-> IF wire[z] = "sent" /\ IsCurrent(z, q)
                                   THEN late[q] + 1 ELSE late[q]]
    BY <1>10 DEF ConnectionLost, ChannelClosed, CutWire, dbVars, relayVars
  <2>2. CASE wire[z] = "sent" /\ IsCurrent(z, r)
    <3>1. ~Counted(r)
      BY <2>2, NotCounted
    <3>2. Counted(r)'
      BY <2>1, <2>2, SameCurrent DEF Counted, Vouched, TypeOK
    <3>3. Load(r)' = Load(r) + 1 /\ Debt(r)' = Debt(r)
      BY <1>0, <2>1, <2>2
    <3> QED
      BY <1>b, <3>1, <3>2, <3>3
  <2>3. CASE ~(wire[z] = "sent" /\ IsCurrent(z, r))
    <3>1. Vouched(z, r) => Vouched(z, r)'
      BY <2>1, SameCurrent DEF Vouched, TypeOK
    <3>2. \A p \in Relays \ {z} : wire'[p] = wire[p]
      BY <2>1 DEF TypeOK
    <3>3. Counted(r) => Counted(r)'
      BY <2>1, <3>1, <3>2, CountedKept DEF Counted
    <3>4. Load(r)' <= Load(r) /\ Debt(r)' >= Debt(r)
      BY <1>0, <2>1, <2>3
    <3> QED
      BY <1>a, <3>3, <3>4
  <2> QED
    BY <2>2, <2>3
<1>11. CASE UNCHANGED <<row, batch, sent, failed, wire, copies, late, doubt, redo>>
  <2>1. Counted(r) => Counted(r)'
    BY <1>s, <1>11
  <2>2. Load(r)' <= Load(r) /\ Debt(r)' >= Debt(r)
    BY <1>0, <1>11
  <2> QED
    BY <1>a, <2>1, <2>2
<1>12. ASSUME NEW z \in Relays, Reconnect(z) PROVE Paid(r)'
  BY <1>11, <1>12 DEF Reconnect, dbVars, relayVars, histVars
<1>13. CASE UNCHANGED vars
  BY <1>11, <1>13 DEF vars, dbVars, relayVars, brokerVars, histVars
<1>14. ASSUME NEW z \in Relays, RelayStep(z) PROVE Paid(r)'
  BY <1>3, <1>4, <1>5, <1>8, <1>14 DEF RelayStep
<1>15. ASSUME NEW z \in Relays, Broker(z) PROVE Paid(r)'
  BY <1>4, <1>6, <1>15 DEF Broker
<1>16. ASSUME NEW z \in Relays, Fault(z) PROVE Paid(r)'
  BY <1>7, <1>9, <1>10, <1>16 DEF Fault
<1> QED
  BY <1>1, <1>2, <1>12, <1>13, <1>14, <1>15, <1>16 DEF Next

-----------------------------------------------------------------------------
(* The inductive invariant and what follows from it *)

\* IInv holds before any task exists.
LEMMA InitIInv == Init => IInv
<1> SUFFICES ASSUME Init PROVE IInv
  OBVIOUS
<1>1. TypeOK
  BY DEF Init, TypeOK
<1>2. LocksExclusive /\ BatchIsPending /\ CommittedTogether
  BY DEF Init, LocksExclusive, BatchIsPending, CommittedTogether
<1>3. WorkHasRow /\ SentWasDelivered /\ ConfirmedIsDelivered
  BY DEF Init, WorkHasRow, SentWasDelivered, ConfirmedIsDelivered
<1>4. DuplicatesPaid
  BY DEF Init, DuplicatesPaid, Paid
<1> QED
  BY <1>1, <1>2, <1>3, <1>4 DEF IInv

\* Every step of producers, relays, broker and faults keeps IInv.
LEMMA StepIInv == IInv /\ [Next]_vars => IInv'
BY TypeStep, LocksExclusiveStep, BatchIsPendingStep, CommittedTogetherStep,
   WorkHasRowStep, SentWasDeliveredStep, ConfirmedIsDeliveredStep, DuplicatesPaidStep
   DEF IInv

\* The inductive invariant of the outbox, for every number of rows and replicas.
THEOREM Invariance == Spec => []IInv
<1> QED
  BY InitIInv, StepIInv, PTL DEF Spec

\* sent_at is stamped only on rows whose message reached the work queue.
THEOREM NothingSentUndelivered == Spec => []SentWasDelivered
<1>1. IInv => SentWasDelivered
  BY DEF IInv
<1> QED
  BY <1>1, Invariance, PTL

\* EXP-42: a visible document has its task row.
THEOREM NoDocumentWithoutTask == Spec => []DocumentHasTask
<1>1. IInv => DocumentHasTask
  BY DEF IInv, CommittedTogether, DocumentHasTask, OutboxAssumption
<1> QED
  BY <1>1, Invariance, PTL

\* No task of a rolled-back upload is on the work queue or on its way there.
THEOREM NoTaskWithoutDocument == Spec => []TaskHasDocument
<1>1. IInv => TaskHasDocument
  BY DEF IInv, CommittedTogether, WorkHasRow, TaskHasDocument, OutboxAssumption
<1> QED
  BY <1>1, Invariance, PTL

\* Every duplicate message is paid for by an unknown outcome or a rollback.
THEOREM DuplicatesBounded == Spec => []DuplicatesAccounted
<1>1. IInv => DuplicatesAccounted
  <2> SUFFICES ASSUME IInv, NEW r \in Rows
               PROVE  copies[r] + late[r] <= 1 + doubt[r] + redo[r]
    BY DEF DuplicatesAccounted
  <2>1. copies[r] \in Nat /\ late[r] \in Nat /\ doubt[r] \in Nat /\ redo[r] \in Nat
    BY DEF IInv, TypeOK
  <2>2. copies[r] + late[r] <= doubt[r] + redo[r] + (IF Counted(r) THEN 1 ELSE 0)
    BY DEF IInv, DuplicatesPaid, Paid
  <2> QED
    BY <2>1, <2>2
<1> QED
  BY <1>1, Invariance, PTL

\* No replica ever un-sends a stamped row or touches its attempts again.
THEOREM SentForGood == Spec => SentIsFinal
<1>1. ASSUME IInv, [Next]_vars
      PROVE  [\A r \in Rows : row[r] = "sent" =>
                 row'[r] = "sent" /\ attempts'[r] = attempts[r]]_<<row, attempts>>
  <2> SUFFICES ASSUME NEW r \in Rows, row[r] = "sent"
               PROVE  \/ row'[r] = "sent" /\ attempts'[r] = attempts[r]
                      \/ UNCHANGED <<row, attempts>>
    OBVIOUS
  <2>1. ASSUME NEW q \in Rows, CommitTask(q)
        PROVE  row'[r] = "sent" /\ attempts'[r] = attempts[r]
    <3>1. q # r
      BY <1>1, <2>1 DEF CommitTask, IInv, CommittedTogether
    <3> QED
      BY <1>1, <2>1, <3>1 DEF CommitTask, IInv, TypeOK
  <2>2. ASSUME NEW p \in Relays, CommitBatch(p)
        PROVE  row'[r] = "sent" /\ attempts'[r] = attempts[r]
    <3>1. r \notin failed[p]
      BY <1>1 DEF IInv, BatchIsPending
    <3> QED
      BY <2>2, <3>1 DEF CommitBatch
  <2>3. CASE UNCHANGED <<row, attempts>>
    BY <2>3
  <2> QED
    BY <1>1, <2>1, <2>2, <2>3
       DEF Next, vars, Producer, Add, RollbackTask, LateArrives, LateLost, RelayStep,
           PendingBatch, PublishFails, Publish, ConfirmAck, ConfirmNack, Broker,
           BrokerAccept, BrokerReject, Fault, RollbackBatch, Crash, ConfirmTimeout,
           ConnectionLost, ChannelClosed, CutWire, Reconnect, dbVars
<1> QED
  BY <1>1, Invariance, PTL DEF Spec, SentIsFinal

-----------------------------------------------------------------------------
(* Refinement *)

\* The outbox, whatever fails, behaves as the at-least-once hand-off of TaskHandoff.
THEOREM Implements == Spec => ImplementsHandoff
<1>1. Init => Handoff!Init
  BY DEF Init, Handoff!Init, Accepted, Delivered, Settled
<1>2. ASSUME IInv, [Next]_vars PROVE [Handoff!Next]_(Handoff!vars)
  <2> USE <1>2 DEF IInv
  <2>1. ASSUME NEW q \in Rows, CommitTask(q) PROVE Handoff!Accept(q)
    <3>1. /\ row' = [row EXCEPT ![q] = "pending"] /\ row[q] = "absent"
          /\ copies' = copies
      BY <2>1 DEF CommitTask, CommittedTogether, brokerVars
    <3>2. Accepted' = Accepted \cup {q} /\ q \notin Accepted
      BY <3>1 DEF Accepted, TypeOK
    <3>3. Delivered' = Delivered /\ Settled' = Settled
      BY <3>1 DEF Delivered, Settled, TypeOK
    <3> QED
      BY <3>2, <3>3 DEF Handoff!Accept
  <2>2. ASSUME NEW q \in Rows,
               LateArrives(q) \/ \E p \in Relays : BrokerAccept(p, q)
        PROVE  Handoff!Deliver(q) \/ UNCHANGED Handoff!vars
    <3>1. /\ row' = row
          /\ copies' = copies \/ copies' = [copies EXCEPT ![q] = @ + 1]
      BY <2>2 DEF LateArrives, BrokerAccept, dbVars, TypeOK
    <3>2. Accepted' = Accepted /\ Settled' = Settled
      BY <3>1 DEF Accepted, Settled
    <3>3. CASE copies' = copies
      BY <3>2, <3>3 DEF Delivered, Handoff!vars
    <3>4. CASE copies' = [copies EXCEPT ![q] = @ + 1]
      <4>1. Delivered' = Delivered \cup {q}
        BY <3>4 DEF Delivered, TypeOK
      <4>2. row[q] # "absent"
        <5>1. CASE LateArrives(q)
          <6>1. late[q] > 0 /\ late[q] \in Nat /\ copies[q] \in Nat
            BY <5>1 DEF LateArrives, TypeOK
          <6> QED
            BY <6>1 DEF WorkHasRow
        <5>2. ASSUME NEW p \in Relays, BrokerAccept(p, q) PROVE row[q] # "absent"
          BY <5>2 DEF BrokerAccept, IsCurrent, Todo, BatchIsPending
        <5> QED
          BY <2>2, <5>1, <5>2
      <4> QED
        BY <3>2, <4>1, <4>2 DEF Handoff!Deliver, Accepted
    <3> QED
      BY <3>1, <3>3, <3>4
  <2>3. ASSUME NEW p \in Relays, CommitBatch(p) PROVE Handoff!Settle(sent[p])
    <3>1. /\ row' = [r \in Rows |-> IF r \in sent[p] THEN "sent" ELSE row[r]]
          /\ copies' = copies
      BY <2>3 DEF CommitBatch, brokerVars
    <3>2. sent[p] \subseteq Rows /\ \A r \in sent[p] : row[r] = "pending"
      BY DEF BatchIsPending, TypeOK
    <3>3. sent[p] \subseteq Delivered
      BY <3>2 DEF ConfirmedIsDelivered, Delivered
    <3>4. Accepted' = Accepted /\ Delivered' = Delivered
      BY <3>1, <3>2 DEF Accepted, Delivered
    <3>5. Settled' = Settled \cup sent[p]
      BY <3>1, <3>2 DEF Settled
    <3> QED
      BY <3>3, <3>4, <3>5 DEF Handoff!Settle
  <2>4. CASE UNCHANGED <<row, copies>>
    BY <2>4 DEF Accepted, Delivered, Settled, Handoff!vars
  <2>5. \/ \E q \in Rows : CommitTask(q)
        \/ \E q \in Rows : LateArrives(q) \/ \E p \in Relays : BrokerAccept(p, q)
        \/ \E p \in Relays : CommitBatch(p)
        \/ UNCHANGED <<row, copies>>
    BY <1>2 DEF Next, vars, Producer, Add, RollbackTask, LateLost, RelayStep,
           PendingBatch, PublishFails, Publish, ConfirmAck, ConfirmNack, Broker,
           BrokerReject, Fault, RollbackBatch, Crash, ConfirmTimeout,
           ConnectionLost, ChannelClosed, CutWire, Reconnect, dbVars, brokerVars
  <2>6. \A p \in Relays : sent[p] \subseteq Rows
    BY DEF TypeOK
  <2> QED
    BY <2>1, <2>2, <2>3, <2>4, <2>5, <2>6 DEF Handoff!Next
<1> QED
  BY <1>1, <1>2, Invariance, PTL DEF Spec, ImplementsHandoff, Handoff!Spec
=============================================================================
