------------------------------ MODULE Outbox ------------------------------
(***************************************************************************)
(* The transactional outbox of api-service: the producers that insert a    *)
(* task row in the transaction of their domain write, the relay goroutine  *)
(* every replica runs, and the confirm-mode publisher it drains into.      *)
(*                                                                         *)
(* A row is named by its BIGSERIAL id.  The content of an envelope plays   *)
(* no part; what matters is which transaction wrote it, who has it locked, *)
(* and what the publisher learned of its fate.                             *)
(***************************************************************************)
EXTENDS Integers, FiniteSets

CONSTANTS
    Rows,           \* ids the outbox sequence can hand out
    DocRows,        \* rows inserted by CreateWithTask; the rest by Enqueue
    Poison,         \* rows no publish of which is ever accepted
    Relays,         \* one Relay goroutine per api-service replica
    BatchSize,      \* DefaultBatchSize
    MaxAttempts,    \* bound: attempts saturates here
    MaxDoubts,      \* bound: confirm timeouts of one row on a live connection
    MaxRollbacks,   \* bound: crashes and batches that roll back
    MaxConnLosses,  \* bound: broker connections lost
    MaxChanLosses   \* bound: channels closed by the broker on a live connection

ASSUME OutboxAssumption ==
    /\ Rows \subseteq Nat
    /\ DocRows \subseteq Rows
    /\ Poison \subseteq Rows
    /\ BatchSize \in Nat \ {0}
    /\ {MaxAttempts, MaxDoubts, MaxRollbacks, MaxConnLosses, MaxChanLosses} \subseteq Nat

VARIABLES
    txn,        \* the producer's transaction of each row
    documents,  \* committed documents (all of them in status processing)
    row,        \* committed state of each row: sent_at is NULL or not
    attempts,   \* the attempts column
    pc,         \* where each relay is in relayOnce
    batch,      \* the rows each relay's transaction holds FOR UPDATE
    sent,       \* relayOnce's local slice of confirmed ids
    failed,     \* relayOnce's local slice of failed ids
    conn,       \* the replica's broker connection, or only its channel, is gone
    wire,       \* fate of the publish the relay is waiting on
    late,       \* per row: publishes given up on that may still reach the broker
    copies,     \* per row: messages the broker has put on the work queue
    doubt,      \* history: per row, publishes whose outcome was never learned
    redo,       \* history: per row, rolled-back batches that had published it
    faults      \* history: crashes and losses so far

dbVars     == <<txn, documents, row, attempts>>
relayVars  == <<pc, batch, sent, failed>>
brokerVars == <<conn, wire, late, copies>>
histVars   == <<doubt, redo, faults>>
vars       == <<dbVars, relayVars, brokerVars, histVars>>

-----------------------------------------------------------------------------
Init ==
    /\ txn       = [r \in Rows |-> "none"]
    /\ documents = {}
    /\ row       = [r \in Rows |-> "absent"]
    /\ attempts  = [r \in Rows |-> 0]
    /\ pc        = [p \in Relays |-> "poll"]
    /\ batch     = [p \in Relays |-> {}]
    /\ sent      = [p \in Relays |-> {}]
    /\ failed    = [p \in Relays |-> {}]
    /\ conn      = [p \in Relays |-> "up"]
    /\ wire      = [p \in Relays |-> "idle"]
    /\ late      = [r \in Rows |-> 0]
    /\ copies    = [r \in Rows |-> 0]
    /\ doubt     = [r \in Rows |-> 0]
    /\ redo      = [r \in Rows |-> 0]
    /\ faults    = [rollbacks |-> 0, connLosses |-> 0, chanLosses |-> 0]

-----------------------------------------------------------------------------
(* Producers.  The id comes from the sequence when the INSERT runs, so a   *)
(* row with a smaller id may commit after one with a larger id.            *)

\* Broken: the INSERT runs on the pool instead of on the caller's transaction.
Add_OutsideTx(r) ==
    /\ txn[r] = "none"
    /\ \A q \in Rows : q < r => txn[q] # "none"
    /\ txn' = [txn EXCEPT ![r] = "open"]
    /\ row' = [row EXCEPT ![r] = "pending"]
    /\ UNCHANGED <<documents, attempts, relayVars, brokerVars, histVars>>

\* CreateWithTask (document, outbox row, status update) or Enqueue, up to COMMIT.
Add(r) ==
    /\ txn[r] = "none"
    /\ \A q \in Rows : q < r => txn[q] # "none"
    /\ txn' = [txn EXCEPT ![r] = "open"]
    /\ UNCHANGED <<documents, row, attempts, relayVars, brokerVars, histVars>>

\* Broken: the document commits and the publish is left to a later call.
CommitTask_NoOutboxRow(r) ==
    /\ txn[r] = "open"
    /\ txn' = [txn EXCEPT ![r] = "committed"]
    /\ documents' = documents \cup ({r} \cap DocRows)
    /\ UNCHANGED <<row, attempts, relayVars, brokerVars, histVars>>

\* Broken: Enqueue writes a domain row too.
CommitTask_AlwaysDocument(r) ==
    /\ txn[r] = "open"
    /\ txn' = [txn EXCEPT ![r] = "committed"]
    /\ documents' = documents \cup {r}
    /\ row' = [row EXCEPT ![r] = "pending"]
    /\ UNCHANGED <<attempts, relayVars, brokerVars, histVars>>

CommitTask(r) ==
    /\ txn[r] = "open"
    /\ txn' = [txn EXCEPT ![r] = "committed"]
    /\ documents' = documents \cup ({r} \cap DocRows)
    /\ row' = [row EXCEPT ![r] = "pending"]
    /\ UNCHANGED <<attempts, relayVars, brokerVars, histVars>>

\* Any statement or the COMMIT fails, or the process dies: nothing was written.
RollbackTask(r) ==
    /\ txn[r] = "open"
    /\ txn' = [txn EXCEPT ![r] = "aborted"]
    /\ UNCHANGED <<documents, row, attempts, relayVars, brokerVars, histVars>>

-----------------------------------------------------------------------------
(* relayOnce *)

Locked == UNION {batch[q] : q \in Relays}

\* Broken: plain SELECT, no row locks.
Claimable_Unlocked == {r \in Rows : row[r] = "pending"}

\* WHERE sent_at IS NULL ... FOR UPDATE SKIP LOCKED
Claimable == {r \in Rows : row[r] = "pending" /\ r \notin Locked}

\* ORDER BY id LIMIT n
FirstRows(S, n) == {r \in S : Cardinality({q \in S : q < r}) < n}

PendingBatch(p) ==
    /\ pc[p] = "poll"
    /\ Claimable # {}
    /\ batch' = [batch EXCEPT ![p] = FirstRows(Claimable, BatchSize)]
    /\ pc' = [pc EXCEPT ![p] = "publish"]
    /\ UNCHANGED <<dbVars, sent, failed, brokerVars, histVars>>

Todo(p) == batch[p] \ (sent[p] \cup failed[p])

\* r is the row the publish loop of p has reached.
IsCurrent(p, r) == r \in Todo(p) /\ \A q \in Todo(p) : r <= q

\* Publish returns an error at once: not connected, or the row cannot be published.
PublishFails(p, r) ==
    /\ pc[p] = "publish" /\ wire[p] = "idle" /\ IsCurrent(p, r)
    /\ conn[p] # "up" \/ r \in Poison
    /\ failed' = [failed EXCEPT ![p] = @ \cup {r}]
    /\ UNCHANGED <<dbVars, pc, batch, sent, brokerVars, histVars>>

\* The message is written to the channel and Publish waits for its confirm.
Publish(p, r) ==
    /\ pc[p] = "publish" /\ wire[p] = "idle" /\ IsCurrent(p, r)
    /\ conn[p] = "up"
    /\ wire' = [wire EXCEPT ![p] = "sent"]
    /\ UNCHANGED <<dbVars, relayVars, conn, late, copies, histVars>>

ConfirmAck(p, r) ==
    /\ wire[p] = "acked" /\ IsCurrent(p, r)
    /\ wire' = [wire EXCEPT ![p] = "idle"]
    /\ sent' = [sent EXCEPT ![p] = @ \cup {r}]
    /\ UNCHANGED <<dbVars, pc, batch, failed, conn, late, copies, histVars>>

ConfirmNack(p, r) ==
    /\ wire[p] = "nacked" /\ IsCurrent(p, r)
    /\ wire' = [wire EXCEPT ![p] = "idle"]
    /\ failed' = [failed EXCEPT ![p] = @ \cup {r}]
    /\ UNCHANGED <<dbVars, pc, batch, sent, conn, late, copies, histVars>>

\* Broken: a confirm that never came counts as one.
ConfirmTimeout_AsSent(p, r) ==
    /\ wire[p] \in {"sent", "acked", "cut"} /\ IsCurrent(p, r)
    /\ wire[p] = "cut" \/ doubt[r] < MaxDoubts
    /\ late' = [late EXCEPT ![r] = IF wire[p] = "sent" THEN @ + 1 ELSE @]
    /\ wire' = [wire EXCEPT ![p] = "idle"]
    /\ sent' = [sent EXCEPT ![p] = @ \cup {r}]
    /\ doubt' = [doubt EXCEPT ![r] = @ + 1]
    /\ UNCHANGED <<dbVars, pc, batch, failed, conn, copies, redo, faults>>

\* No confirm within ConfirmTimeout.  The tracker entry goes, so a confirm that
\* comes later is dropped; a message not yet at the broker may still get there.
ConfirmTimeout(p, r) ==
    /\ wire[p] \in {"sent", "acked", "cut"} /\ IsCurrent(p, r)
    /\ wire[p] = "cut" \/ doubt[r] < MaxDoubts
    /\ late' = [late EXCEPT ![r] = IF wire[p] = "sent" THEN @ + 1 ELSE @]
    /\ wire' = [wire EXCEPT ![p] = "idle"]
    /\ failed' = [failed EXCEPT ![p] = @ \cup {r}]
    /\ doubt' = [doubt EXCEPT ![r] = @ + 1]
    /\ UNCHANGED <<dbVars, pc, batch, sent, conn, copies, redo, faults>>

\* MarkSent, MarkFailed and COMMIT: visible together, and the locks are released.
CommitBatch(p) ==
    /\ pc[p] = "publish" /\ Todo(p) = {}
    /\ row' = [r \in Rows |-> IF r \in sent[p] THEN "sent" ELSE row[r]]
    /\ attempts' = [r \in Rows |->
                      IF r \in failed[p] /\ attempts[r] < MaxAttempts
                      THEN attempts[r] + 1 ELSE attempts[r]]
    /\ pc' = [pc EXCEPT ![p] = "poll"]
    /\ batch' = [batch EXCEPT ![p] = {}]
    /\ sent' = [sent EXCEPT ![p] = {}]
    /\ failed' = [failed EXCEPT ![p] = {}]
    /\ UNCHANGED <<txn, documents, brokerVars, histVars>>

\* Rows of p's batch that a rollback makes the next cycle publish again.
Republished(p) == sent[p] \cup {r \in Rows : wire[p] # "idle" /\ IsCurrent(p, r)}

\* Postgres rolls the batch transaction back and releases its row locks; a
\* message on the wire may still arrive.
ReleaseBatch(p) ==
    /\ faults.rollbacks < MaxRollbacks
    /\ faults' = [faults EXCEPT !.rollbacks = @ + 1]
    /\ late' = [r \in Rows |-> IF wire[p] = "sent" /\ IsCurrent(p, r)
                               THEN late[r] + 1 ELSE late[r]]
    /\ redo' = [r \in Rows |-> IF r \in Republished(p) THEN redo[r] + 1 ELSE redo[r]]
    /\ pc' = [pc EXCEPT ![p] = "poll"]
    /\ batch' = [batch EXCEPT ![p] = {}]
    /\ sent' = [sent EXCEPT ![p] = {}]
    /\ failed' = [failed EXCEPT ![p] = {}]
    /\ wire' = [wire EXCEPT ![p] = "idle"]

\* Broken: no deferred Rollback, so the transaction and its locks stay open.
RollbackBatch_KeepsLocks(p) ==
    /\ pc[p] = "publish" /\ Todo(p) = {}
    /\ faults.rollbacks < MaxRollbacks
    /\ faults' = [faults EXCEPT !.rollbacks = @ + 1]
    /\ pc' = [pc EXCEPT ![p] = "poll"]
    /\ sent' = [sent EXCEPT ![p] = {}]
    /\ failed' = [failed EXCEPT ![p] = {}]
    /\ UNCHANGED <<dbVars, batch, brokerVars, doubt, redo>>

\* MarkSent, MarkFailed or COMMIT returns an error: the deferred Rollback runs.
RollbackBatch(p) ==
    /\ pc[p] = "publish" /\ Todo(p) = {}
    /\ ReleaseBatch(p)
    /\ UNCHANGED <<dbVars, conn, copies, doubt>>

\* The replica dies or is stopped anywhere in its cycle, and a new one connects.
Crash(p) ==
    /\ ReleaseBatch(p)
    /\ conn' = [conn EXCEPT ![p] = "up"]
    /\ UNCHANGED <<dbVars, copies, doubt>>

-----------------------------------------------------------------------------
(* The broker and the connection to it (rabbitmq.Client) *)

\* The broker persists the message on the work queue and acknowledges it.
BrokerAccept(p, r) ==
    /\ wire[p] = "sent" /\ IsCurrent(p, r) /\ r \notin Poison
    /\ copies' = [copies EXCEPT ![r] = @ + 1]
    /\ wire' = [wire EXCEPT ![p] = "acked"]
    /\ UNCHANGED <<dbVars, relayVars, conn, late, histVars>>

\* The broker refuses it: always for Poison, otherwise MaxAttempts bounds it.
BrokerReject(p, r) ==
    /\ wire[p] = "sent" /\ IsCurrent(p, r)
    /\ r \in Poison \/ attempts[r] < MaxAttempts
    /\ wire' = [wire EXCEPT ![p] = "nacked"]
    /\ UNCHANGED <<dbVars, relayVars, conn, late, copies, histVars>>

\* A publish the relay gave up on reaches the broker after all, or never does.
LateArrives(r) ==
    /\ late[r] > 0
    /\ late' = [late EXCEPT ![r] = @ - 1]
    /\ copies' = [copies EXCEPT ![r] = IF r \in Poison THEN @ ELSE @ + 1]
    /\ UNCHANGED <<dbVars, relayVars, conn, wire, histVars>>

LateLost(r) ==
    /\ late[r] > 0
    /\ late' = [late EXCEPT ![r] = @ - 1]
    /\ UNCHANGED <<dbVars, relayVars, conn, wire, copies, histVars>>

\* A publish still waiting when its channel goes can only time out, whether or
\* not the broker had accepted it.
CutWire(p) ==
    /\ conn[p] = "up"
    /\ wire' = [wire EXCEPT ![p] = IF @ = "idle" THEN "idle" ELSE "cut"]
    /\ late' = [r \in Rows |-> IF wire[p] = "sent" /\ IsCurrent(p, r)
                               THEN late[r] + 1 ELSE late[r]]
    /\ UNCHANGED <<dbVars, relayVars, copies, doubt, redo>>

ConnectionLost(p) ==
    /\ faults.connLosses < MaxConnLosses
    /\ faults' = [faults EXCEPT !.connLosses = @ + 1]
    /\ conn' = [conn EXCEPT ![p] = "down"]
    /\ CutWire(p)

\* A channel-level exception: the connection stays open, so the NotifyClose that
\* monitorConnection listens to never fires and nothing reopens the channel.
ChannelClosed(p) ==
    /\ faults.chanLosses < MaxChanLosses
    /\ faults' = [faults EXCEPT !.chanLosses = @ + 1]
    /\ conn' = [conn EXCEPT ![p] = "half"]
    /\ CutWire(p)

\* monitorConnection's loop around connect.
Reconnect(p) ==
    /\ conn[p] = "down"
    /\ conn' = [conn EXCEPT ![p] = "up"]
    /\ UNCHANGED <<dbVars, relayVars, wire, late, copies, histVars>>

-----------------------------------------------------------------------------
Producer(r) == Add(r) \/ CommitTask(r) \/ RollbackTask(r)

RelayStep(p) ==
    \/ PendingBatch(p)
    \/ CommitBatch(p)
    \/ \E r \in Rows : \/ PublishFails(p, r) \/ Publish(p, r)
                       \/ ConfirmAck(p, r) \/ ConfirmNack(p, r)

Broker(p) == \E r \in Rows : BrokerAccept(p, r) \/ BrokerReject(p, r)

Fault(p) ==
    \/ RollbackBatch(p)
    \/ Crash(p)
    \/ ConnectionLost(p)
    \/ ChannelClosed(p)
    \/ \E r \in Rows : ConfirmTimeout(p, r)

Next ==
    \/ \E r \in Rows : Producer(r) \/ LateArrives(r) \/ LateLost(r)
    \/ \E p \in Relays : RelayStep(p) \/ Broker(p) \/ Fault(p) \/ Reconnect(p)

Spec == Init /\ [][Next]_vars

\* The relay loop keeps polling, the broker answers what reaches it, a dead
\* connection is redialled, and a wait with no answer ends in a timeout.
Fairness ==
    \A p \in Relays :
        /\ WF_vars(RelayStep(p))
        /\ WF_vars(Broker(p))
        /\ WF_vars(Reconnect(p))
        /\ WF_vars(wire[p] = "cut" /\ \E r \in Rows : ConfirmTimeout(p, r))

FairSpec == Spec /\ Fairness

-----------------------------------------------------------------------------
\* Every variable has its type.
TypeOK ==
    /\ txn \in [Rows -> {"none", "open", "committed", "aborted"}]
    /\ documents \in SUBSET DocRows
    /\ row \in [Rows -> {"absent", "pending", "sent"}]
    /\ attempts \in [Rows -> 0..MaxAttempts]
    /\ pc \in [Relays -> {"poll", "publish"}]
    /\ batch \in [Relays -> SUBSET Rows]
    /\ sent \in [Relays -> SUBSET Rows]
    /\ failed \in [Relays -> SUBSET Rows]
    /\ conn \in [Relays -> {"up", "down", "half"}]
    /\ wire \in [Relays -> {"idle", "sent", "acked", "nacked", "cut"}]
    /\ late \in [Rows -> Nat]
    /\ copies \in [Rows -> Nat]
    /\ doubt \in [Rows -> Nat]
    /\ redo \in [Rows -> Nat]
    /\ faults \in [rollbacks : Nat, connLosses : Nat, chanLosses : Nat]

\* Nothing is marked sent on the strength of somebody else's confirm, of a
\* timeout or of a rolled-back batch: relayOnce stamps sent_at only on rows
\* whose own message the broker put on the work queue.
SentWasDelivered == \A r \in Rows : row[r] = "sent" => copies[r] > 0

\* EXP-42: the document, its status and its task commit together, so a visible
\* document has its task row ...
DocumentHasTask == \A r \in documents : row[r] # "absent"

\* ... and no worker is ever given a task whose document was rolled back.
TaskHasDocument == \A r \in DocRows : copies[r] + late[r] > 0 => r \in documents

\* "A crash anywhere here re-publishes at most one batch": every message of a row
\* beyond the first is paid for by a publish whose outcome nobody learned or by
\* a rollback of the batch that had published it -- never by two replicas
\* relaying the same row.
DuplicatesAccounted ==
    \A r \in Rows : copies[r] + late[r] <= 1 + doubt[r] + redo[r]

\* Once stamped, a row is out of the relays' hands: no replica un-sends it or
\* bumps the attempts column that alerting reads.
SentIsFinal ==
    [][\A r \in Rows : row[r] = "sent" =>
            row'[r] = "sent" /\ attempts'[r] = attempts[r]]_<<row, attempts>>

\* "The relay gets it to the broker": every committed task that the broker is
\* willing to take is eventually handed over and stamped.
EveryTaskSent == \A r \in Rows \ Poison : row[r] = "pending" ~> row[r] = "sent"

-----------------------------------------------------------------------------
(* The inductive invariant behind the safety properties above. *)

\* FOR UPDATE SKIP LOCKED: no row is in the batches of two relays.
LocksExclusive == \A p, q \in Relays : p # q => batch[p] \cap batch[q] = {}

\* What a relay holds is still pending, its slices are parts of its batch, and it
\* waits for a confirm only while there is a row that the confirm is about.
BatchIsPending ==
    \A p \in Relays :
        /\ \A r \in batch[p] : row[r] = "pending"
        /\ sent[p] \cup failed[p] \subseteq batch[p]
        /\ sent[p] \cap failed[p] = {}
        /\ pc[p] = "poll" => batch[p] = {}
        /\ wire[p] # "idle" => \E r \in Rows : IsCurrent(p, r)

CommittedTogether ==
    /\ \A r \in Rows : row[r] # "absent" <=> txn[r] = "committed"
    /\ documents = {r \in DocRows : txn[r] = "committed"}

\* A message on the queue or on its way there is of a committed row.
WorkHasRow == \A r \in Rows : copies[r] + late[r] > 0 => row[r] # "absent"

\* A positive confirm, in hand or on its way to the relay, means a message.
ConfirmedIsDelivered ==
    \A p \in Relays : \A r \in Rows :
        r \in sent[p] \/ (wire[p] = "acked" /\ IsCurrent(p, r)) => copies[r] > 0

\* The one message of r that is not a duplicate: settled, or still in doubt.
Vouched(p, r) == r \in sent[p] \/ (wire[p] \in {"acked", "cut"} /\ IsCurrent(p, r))

Counted(r) == row[r] = "sent" \/ \E p \in Relays : Vouched(p, r)

Paid(r) == copies[r] + late[r] <= doubt[r] + redo[r] + (IF Counted(r) THEN 1 ELSE 0)

DuplicatesPaid == \A r \in Rows : Paid(r)

IInv ==
    /\ TypeOK
    /\ LocksExclusive
    /\ BatchIsPending
    /\ CommittedTogether
    /\ WorkHasRow
    /\ SentWasDelivered
    /\ ConfirmedIsDelivered
    /\ DuplicatesPaid

-----------------------------------------------------------------------------
(* The outbox implements the at-least-once hand-off. *)
Accepted  == {r \in Rows : row[r] # "absent"}
Delivered == {r \in Rows : copies[r] > 0}
Settled   == {r \in Rows : row[r] = "sent"}

Handoff == INSTANCE TaskHandoff
    WITH Tasks <- Rows, accepted <- Accepted, delivered <- Delivered, settled <- Settled

\* A relay cycle, whatever fails in it, is a step of TaskHandoff or none.
ImplementsHandoff == Handoff!Spec
=============================================================================
