---------------------------- MODULE TaskWorker ----------------------------
(***************************************************************************)
(* The operational workers (email, image, profile): replicas of one        *)
(* BaseWorker consuming one pipeline of WorkQueue, and the idempotency     *)
(* guard they share.                                                       *)
(*                                                                         *)
(* A worker handles one delivery at a time and can lose its connection     *)
(* anywhere in between: it goes on with the copy the broker has already    *)
(* requeued.                                                               *)
(***************************************************************************)
EXTENDS WorkQueue

CONSTANTS
    Malformed,  \* bodies json.Unmarshal rejects
    Invalid,    \* messages processor.Validate rejects
    Workers,    \* replicas of the worker
    MaxFaults   \* bound: crashes, lost connections, failed publishes, guard errors

ASSUME TaskWorkerAssumption ==
    /\ Malformed \subseteq Msgs
    /\ Invalid \subseteq Msgs
    /\ MaxFaults \in Nat

VARIABLES
    guard,      \* idempotency keys taken: one per copy value
    pc,         \* where each worker is in handleDelivery
    held,       \* the delivery it handles
    live,       \* its connection is the one the delivery came on
    unread,     \* the answer a timed-out publish left on its pubConfirms
    runs,       \* history: Process calls per message and attempt
    done,       \* history: messages some Process call succeeded for
    failOpen,   \* history: guard errors per message and attempt
    severed,    \* history: claimed messages that a crash or a lost connection cut off
    requeued,   \* history: claimed messages requeued by requeueOnPublishFailure
    misled,     \* history: messages whose retry or dead letter was lost, another's confirm taken for its own
    faults      \* history: faults so far

workerVars  == <<pc, held, live, unread>>
handling    == <<runs, done, failOpen, severed, requeued>>
historyVars == <<handling, misled, faults>>
vars == <<queueVars, guard, workerVars, historyVars>>

\* Messages that never get as far as the guard.
Rejected == Malformed \cup Invalid

Init ==
    /\ QueueInit
    /\ guard = {}
    /\ pc = [w \in Workers |-> "idle"]
    /\ held = [w \in Workers |-> NoCopy]
    /\ live = [w \in Workers |-> TRUE]
    /\ unread = [w \in Workers |-> "none"]
    /\ runs = [c \in Copies |-> 0]
    /\ done = {}
    /\ failOpen = [c \in Copies |-> 0]
    /\ severed = {}
    /\ requeued = {}
    /\ misled = {}
    /\ faults = 0

Msg(w) == held[w][1]

Goto(w, step) == pc' = [pc EXCEPT ![w] = step]

\* The delivery is over for this worker.
Finish(w) ==
    /\ Goto(w, "idle")
    /\ held' = [held EXCEPT ![w] = NoCopy]

Fault == faults < MaxFaults /\ faults' = faults + 1

FaultUnless(fine) == IF fine THEN UNCHANGED faults ELSE Fault

-----------------------------------------------------------------------------
(* handleDelivery and the handler of BaseWorker.Start *)

Receive(w, c) ==
    /\ pc[w] = "idle" /\ live[w] /\ ready[c] > 0
    /\ ready' = Less(ready, c)
    /\ held' = [held EXCEPT ![w] = c]
    /\ Goto(w, "begin")
    /\ UNCHANGED <<sent, publishes, wait, dlq, expired, results, guard, live, unread, historyVars>>

\* Unparseable, or refused by Validate: ErrUnretryable, straight to the DLQ.
Reject(w) ==
    /\ pc[w] = "begin" /\ Msg(w) \in Rejected
    /\ Goto(w, "dead")
    /\ UNCHANGED <<queueVars, guard, held, live, unread, historyVars>>

\* Broken: the key is read, and set only once processing has succeeded.
Claim_NoKey(w) ==
    /\ pc[w] = "begin" /\ Msg(w) \notin Rejected /\ held[w] \notin guard
    /\ runs' = More(runs, held[w])
    /\ Goto(w, "process")
    /\ UNCHANGED <<queueVars, guard, held, live, unread, done, failOpen, severed, requeued, misled, faults>>

\* Guard.Begin answers true: this delivery owns the attempt.
Claim(w) ==
    /\ pc[w] = "begin" /\ Msg(w) \notin Rejected /\ held[w] \notin guard
    /\ guard' = guard \cup {held[w]}
    /\ runs' = More(runs, held[w])
    /\ Goto(w, "process")
    /\ UNCHANGED <<queueVars, held, live, unread, done, failOpen, severed, requeued, misled, faults>>

\* Broken: the key names the message and not the attempt.
SkipDuplicate_ByMessage(w) ==
    /\ pc[w] = "begin" /\ Msg(w) \notin Rejected /\ \E a \in 0..Tiers : <<Msg(w), a>> \in guard
    /\ Goto(w, "ack")
    /\ UNCHANGED <<queueVars, guard, held, live, unread, historyVars>>

\* Guard.Begin answers false: the handler returns nil without processing.
SkipDuplicate(w) ==
    /\ pc[w] = "begin" /\ Msg(w) \notin Rejected /\ held[w] \in guard
    /\ Goto(w, "ack")
    /\ UNCHANGED <<queueVars, guard, held, live, unread, historyVars>>

\* Guard.Begin errs, whether or not Redis had set the key: fail open.
GuardError(w) ==
    /\ pc[w] = "begin" /\ Msg(w) \notin Rejected
    /\ Fault
    /\ guard' \in {guard, guard \cup {held[w]}}
    /\ runs' = More(runs, held[w])
    /\ failOpen' = More(failOpen, held[w])
    /\ Goto(w, "process")
    /\ UNCHANGED <<queueVars, held, live, unread, done, severed, requeued, misled>>

ProcessSucceeds(w) ==
    /\ pc[w] = "process"
    /\ done' = done \cup {Msg(w)}
    /\ Goto(w, "ack")
    /\ UNCHANGED <<queueVars, guard, held, live, unread, runs, failOpen, severed, requeued, misled, faults>>

\* Broken: an attempt is counted before it is made.
NextRetryTier_OffByOne(a) == a + 1 < Tiers

\* NextRetryTier(attempt) finds a tier.
NextRetryTier(a) == a < Tiers

ProcessFails(w) ==
    /\ pc[w] = "process"
    /\ Goto(w, IF NextRetryTier(Attempt(held[w])) THEN "retry" ELSE "dead")
    /\ UNCHANGED <<queueVars, guard, held, live, unread, historyVars>>

-----------------------------------------------------------------------------
(* publishConfirmed and routeFailure *)

\* Reads the answer to this publish; when none comes in time, the publish fails
\* and its answer stays on pubConfirms, where the next publish reads it as its own.
publishConfirmed(w, ok) ==
    \E taken \in BOOLEAN :
        LET answer == IF taken THEN "ack" ELSE "nack"
        IN  /\ live[w]
            /\ IF taken THEN Accept(pc[w], held[w]) ELSE Lose
            /\ \/ /\ unread[w] = "none" /\ ok = taken
                  /\ UNCHANGED unread
                  /\ FaultUnless(taken)
               \/ /\ unread[w] = "none" /\ ~ok
                  /\ unread' = [unread EXCEPT ![w] = answer]
                  /\ Fault
               \/ /\ unread[w] # "none" /\ ok = (unread[w] = "ack")
                  /\ unread' = [unread EXCEPT ![w] = answer]
                  /\ FaultUnless(taken)
            /\ misled' = IF ok /\ ~taken /\ pc[w] \notin Statuses THEN misled \cup {Msg(w)} ELSE misled

\* A retry is published, as far as publishConfirmed can tell.
PublishRetry(w) ==
    /\ pc[w] = "retry"
    /\ publishConfirmed(w, TRUE)
    /\ Goto(w, "retried")
    /\ UNCHANGED <<sent, publishes, ready, expired, guard, held, live, handling>>

\* Broken: poison is nacked with requeue.
DeadLetter_Requeues(w) ==
    /\ pc[w] = "dead" /\ live[w]
    /\ ready' = More(ready, held[w])
    /\ Finish(w)
    /\ UNCHANGED <<sent, publishes, wait, dlq, expired, results, guard, live, unread, historyVars>>

\* deadLetterAndAck, up to the confirm.
DeadLetter(w) ==
    /\ pc[w] = "dead"
    /\ publishConfirmed(w, TRUE)
    /\ Goto(w, "buried")
    /\ UNCHANGED <<sent, publishes, ready, expired, guard, held, live, handling>>

\* Broken: the terminal result goes out whatever became of the dead-letter publish.
PublishFails_Failed(w) ==
    /\ pc[w] \in {"retry", "dead"}
    /\ publishConfirmed(w, FALSE)
    /\ ready' = More(ready, held[w])
    /\ requeued' = requeued \cup ({Msg(w)} \ Rejected)
    /\ Goto(w, "failed")
    /\ UNCHANGED <<sent, publishes, expired, guard, held, live, runs, done, failOpen, severed>>

\* publishConfirmed errs: requeueOnPublishFailure nacks the delivery with requeue.
PublishFails(w) ==
    /\ pc[w] \in {"retry", "dead"}
    /\ publishConfirmed(w, FALSE)
    /\ ready' = More(ready, held[w])
    /\ requeued' = requeued \cup ({Msg(w)} \ Rejected)
    /\ Finish(w)
    /\ UNCHANGED <<sent, publishes, expired, guard, live, runs, done, failOpen, severed>>

\* The same as the connection dies, or after; the nack fails too, and a result
\* that could not be published is forgotten.
PublishFailsOffline(w) ==
    /\ pc[w] \in Publishing /\ ~live[w]
    /\ Accept(pc[w], held[w]) \/ Lose
    /\ Finish(w)
    /\ UNCHANGED <<sent, publishes, ready, expired, guard, live, unread, historyVars>>

-----------------------------------------------------------------------------
(* The acknowledgement and emitResult *)

\* Broken: a delivery whose ack failed stays in hand.
Ack_KeepsHeld(w) ==
    /\ pc[w] = "ack"
    /\ Goto(w, IF live[w] THEN "completed" ELSE "idle")
    /\ UNCHANGED <<queueVars, guard, held, live, unread, historyVars>>

\* The delivery is acknowledged after the handler returned nil; when that fails
\* no result is published and the broker redelivers.
Ack(w) ==
    /\ pc[w] = "ack"
    /\ IF live[w] THEN Goto(w, "completed") /\ UNCHANGED held ELSE Finish(w)
    /\ UNCHANGED <<queueVars, guard, live, unread, historyVars>>

\* A scheduled retry is no outcome: acknowledged, no result.
AckRetried(w) ==
    /\ pc[w] = "retried"
    /\ Finish(w)
    /\ UNCHANGED <<queueVars, guard, live, unread, historyVars>>

\* Broken: the terminal failure is not reported.
AckBuried_Silent(w) ==
    /\ pc[w] = "buried"
    /\ Finish(w)
    /\ UNCHANGED <<queueVars, guard, live, unread, historyVars>>

\* A dead-lettered one is, even when the ack fails; an unparseable body has no id.
AckBuried(w) ==
    /\ pc[w] = "buried"
    /\ IF Msg(w) \in Malformed THEN Finish(w) ELSE Goto(w, "failed") /\ UNCHANGED held
    /\ UNCHANGED <<queueVars, guard, live, unread, historyVars>>

\* Best effort: whatever publishConfirmed answers, the delivery is over.
emitResult(w) ==
    /\ pc[w] \in Statuses
    /\ \E ok \in BOOLEAN : publishConfirmed(w, ok)
    /\ Finish(w)
    /\ UNCHANGED <<sent, publishes, ready, expired, guard, live, handling>>

-----------------------------------------------------------------------------
(* Connections and crashes *)

\* The broker still waits for this worker's ack.
Unacked(w) == live[w] /\ pc[w] \notin {"idle"} \cup Statuses

\* What is not acknowledged goes back to the work queue, headers unchanged.
Redeliver(w) == ready' = IF Unacked(w) THEN More(ready, held[w]) ELSE ready

\* Steps between taking the key and handing the message on.
Sever(w, steps) ==
    severed' = IF pc[w] \in steps THEN severed \cup ({Msg(w)} \ Rejected) ELSE severed

ConnectionLost(w) ==
    /\ live[w] /\ Fault
    /\ Redeliver(w)
    /\ Sever(w, {"begin", "process", "retry", "dead"})
    /\ live' = [live EXCEPT ![w] = FALSE]
    /\ UNCHANGED <<sent, publishes, wait, dlq, expired, results, guard, pc, held, unread,
                   runs, done, failOpen, requeued, misled>>

\* The delivery channel is closed: run reconnects after the one in hand.
Reconnect(w) ==
    /\ pc[w] = "idle" /\ ~live[w]
    /\ live' = [live EXCEPT ![w] = TRUE]
    /\ unread' = [unread EXCEPT ![w] = "none"]
    /\ UNCHANGED <<queueVars, guard, pc, held, historyVars>>

\* The process dies and a new one connects.
Crash(w) ==
    /\ pc[w] # "idle" /\ Fault
    /\ Redeliver(w)
    /\ Sever(w, {"process", "retry", "dead"})
    /\ Finish(w)
    /\ live' = [live EXCEPT ![w] = TRUE]
    /\ unread' = [unread EXCEPT ![w] = "none"]
    /\ UNCHANGED <<sent, publishes, wait, dlq, expired, results, guard,
                   runs, done, failOpen, requeued, misled>>

-----------------------------------------------------------------------------
Handle(w) ==
    \/ Reject(w) \/ Claim(w) \/ SkipDuplicate(w)
    \/ ProcessSucceeds(w) \/ ProcessFails(w)
    \/ PublishRetry(w) \/ DeadLetter(w) \/ PublishFails(w) \/ PublishFailsOffline(w)
    \/ Ack(w) \/ AckRetried(w) \/ AckBuried(w) \/ emitResult(w)
    \/ Reconnect(w)

Break(w) == GuardError(w) \/ ConnectionLost(w) \/ Crash(w)

Next ==
    \/ Topology /\ UNCHANGED <<guard, workerVars, historyVars>>
    \/ \E w \in Workers : Handle(w) \/ Break(w) \/ \E c \in Copies : Receive(w, c)

Spec == Init /\ [][Next]_vars

\* Wait-queues expire, a worker goes on with what it holds and reconnects, and the
\* broker delivers something to a free worker as long as there is something.
Fairness ==
    /\ WF_vars((\E c \in WaitingCopies : RetryDue(c)) /\ UNCHANGED <<guard, workerVars, historyVars>>)
    /\ \A w \in Workers : WF_vars(Handle(w))
    /\ WF_vars(\E w \in Workers, c \in Copies : Receive(w, c))

FairSpec == Spec /\ Fairness

-----------------------------------------------------------------------------
\* Every variable has its type; who is idle holds nothing.
TypeOK ==
    /\ QueueTypeOK
    /\ {runs, failOpen} \subseteq [Copies -> Nat]
    /\ guard \subseteq Copies
    /\ pc \in [Workers -> {"idle", "begin", "process", "ack", "retried", "buried"} \cup Publishing]
    /\ held \in [Workers -> Copies \cup {NoCopy}]
    /\ \A w \in Workers : held[w] = NoCopy <=> pc[w] = "idle"
    /\ live \in [Workers -> BOOLEAN]
    /\ unread \in [Workers -> {"none", "ack", "nack"}]
    /\ {done, severed, requeued, misled} \subseteq SUBSET Msgs
    /\ faults \in 0..MaxFaults

\* A copy of m is on its way to being handled.
Circulates(m) ==
    \/ Queued(m)
    \/ \E w \in Workers : pc[w] \notin {"idle"} \cup Statuses /\ Msg(w) = m

\* The guard dedupes across replicas, crashes, requeues and relay duplicates: an
\* attempt runs once, and once more for each guard error that failed open.
AttemptRunsOnce == \A c \in Copies : runs[c] <= 1 + failOpen[c]

\* A valid message reaches the DLQ only after a try at every rung of the ladder.
DeadLetterEarned ==
    \A c \in Copies : dlq[c] > 0 /\ c[1] \notin Rejected =>
        \A a \in 0..Tiers : runs[<<c[1], a>>] > 0

\* A "failed" result means the message is in the DLQ, unless the dead letter was
\* lost and the confirm of an earlier publish was taken for its own.
FailedIsBuried == \A m \in Msgs : Reported(m, "failed") => Buried(m) \/ m \in misled

\* consumer.go: "Only a genuine terminal dead-letter yields a failed result".
OnlyBuriedFailed == \A m \in Msgs : Reported(m, "failed") => Buried(m)

\* Guarding before processing gives up at-least-once exactly where the key is
\* taken and the outcome is not handed on: a crash, a lost connection, a failed
\* republish, or one taken for confirmed.  Nothing else loses a message.
LostOnlyIfCutOff ==
    \A m \in sent :
        \/ Circulates(m) \/ m \in done \/ Buried(m) \/ Parked(m)
        \/ m \in severed \cup requeued \cup misled

\* consumer.go on requeueOnPublishFailure: "this preserves at-least-once
\* delivery ... the redelivery re-enters routeFailure and routes correctly".
RequeueLosesNothing ==
    \A m \in sent :
        Circulates(m) \/ m \in done \/ Buried(m) \/ Parked(m) \/ m \in severed \cup misled

\* Neither poison nor a flaky processor circulates for ever: once the relay has no
\* more to publish, the work queue and its wait-queues drain.
EveryMessageLeaves == <>[](\A m \in Msgs : ~Circulates(m))

\* As long as nothing fails, whatever duplicates the relay makes, every message
\* that parses and does not expire ends with a result for api-service.
EveryMessageReported ==
    <>[](faults = 0 => \A m \in sent \ Malformed :
                            Parked(m) \/ \E status \in Statuses : Reported(m, status))
=============================================================================
