--------------------------- MODULE GraphragWorker ---------------------------
(***************************************************************************)
(* graphrag-service: replicas of the Python AsyncRabbitMQConsumer on the   *)
(* document pipeline of WorkQueue.  Its retry ladder is that of the Go     *)
(* workers, but it takes the idempotency key before it validates, reports  *)
(* before it acknowledges, says nothing of a duplicate, and is cancelled   *)
(* in mid-await by SIGTERM.                                                *)
(*                                                                         *)
(* connect_robust restores a lost connection behind a handler's back: what *)
(* the handler publishes may get through, but its delivery is stale, can   *)
(* no longer be acknowledged, and has been requeued by the broker.         *)
(***************************************************************************)
EXTENDS WorkQueue

CONSTANTS
    Malformed,  \* bodies json.loads rejects
    Invalid,    \* messages DocumentProcessor.validate rejects; they have an id
    Workers,    \* replicas of the worker
    MaxFaults   \* bound: crashes, shutdowns, lost connections, failed publishes, guard errors

ASSUME GraphragWorkerAssumption ==
    /\ Malformed \subseteq Msgs
    /\ Invalid \subseteq Msgs \ Malformed
    /\ MaxFaults \in Nat
    /\ ~Stales

VARIABLES
    guard,      \* idempotency keys taken: one per copy value
    pc,         \* where each worker is in _handle_delivery
    held,       \* the delivery it handles
    live,       \* the channel the delivery came on is open
    runs,       \* history: handler calls per message and attempt
    returned,   \* history: <<message, status>> the handler returned
    failOpen,   \* history: guard errors per message and attempt
    severed,    \* history: claimed messages cut off by a crash or a lost connection
    requeued,   \* history: claimed messages nacked because a publish failed
    cancelled,  \* history: claimed messages cut off by SIGTERM
    faults      \* history: faults so far

workerVars  == <<pc, held, live>>
cutVars     == <<severed, requeued, cancelled>>
historyVars == <<runs, returned, failOpen, cutVars, faults>>
vars == <<queueVars, guard, workerVars, historyVars>>

Init ==
    /\ QueueInit
    /\ guard = {}
    /\ pc = [w \in Workers |-> "idle"]
    /\ held = [w \in Workers |-> NoCopy]
    /\ live = [w \in Workers |-> TRUE]
    /\ runs = [c \in Copies |-> 0]
    /\ returned = {}
    /\ failOpen = [c \in Copies |-> 0]
    /\ severed = {}
    /\ requeued = {}
    /\ cancelled = {}
    /\ faults = 0

Msg(w) == held[w][1]

Goto(w, step) == pc' = [pc EXCEPT ![w] = step]

\* The delivery is over for this worker.
Finish(w) ==
    /\ Goto(w, "idle")
    /\ held' = [held EXCEPT ![w] = NoCopy]

Fault == faults < MaxFaults /\ faults' = faults + 1

-----------------------------------------------------------------------------
(* Parsing and the idempotency guard *)

Receive(w, c) ==
    /\ pc[w] = "idle" /\ live[w] /\ ready[c] > 0
    /\ ready' = Less(ready, c)
    /\ held' = [held EXCEPT ![w] = c]
    /\ Goto(w, "begin")
    /\ UNCHANGED <<sent, publishes, wait, dlq, expired, results, guard, live, historyVars>>

ParseError(w) ==
    /\ pc[w] = "begin" /\ Msg(w) \in Malformed
    /\ Goto(w, "dead")
    /\ UNCHANGED <<queueVars, guard, held, live, historyVars>>

\* Broken: the key is read, and set only once processing has succeeded.
Claim_NoKey(w) ==
    /\ pc[w] = "begin" /\ Msg(w) \notin Malformed /\ held[w] \notin guard
    /\ runs' = More(runs, held[w])
    /\ Goto(w, "handler")
    /\ UNCHANGED <<queueVars, guard, held, live, returned, failOpen, cutVars, faults>>

\* _acquire is true: SET NX created the key.
Claim(w) ==
    /\ pc[w] = "begin" /\ Msg(w) \notin Malformed /\ held[w] \notin guard
    /\ guard' = guard \cup {held[w]}
    /\ runs' = More(runs, held[w])
    /\ Goto(w, "handler")
    /\ UNCHANGED <<queueVars, held, live, returned, failOpen, cutVars, faults>>

\* Broken: as in the Go workers, a duplicate is reported as completed.
SkipDuplicate_Reports(w) ==
    /\ pc[w] = "begin" /\ held[w] \in guard
    /\ Goto(w, "completed")
    /\ UNCHANGED <<queueVars, guard, held, live, historyVars>>

\* Broken: the key names the message and not the attempt.
SkipDuplicate_ByMessage(w) ==
    /\ pc[w] = "begin" /\ Msg(w) \notin Malformed /\ \E a \in 0..Tiers : <<Msg(w), a>> \in guard
    /\ Goto(w, "ack")
    /\ UNCHANGED <<queueVars, guard, held, live, historyVars>>

\* _acquire is false: acknowledged without processing and without a result.
SkipDuplicate(w) ==
    /\ pc[w] = "begin" /\ held[w] \in guard
    /\ Goto(w, "ack")
    /\ UNCHANGED <<queueVars, guard, held, live, historyVars>>

\* begin() raises, whether or not Redis had set the key: fail open.
GuardError(w) ==
    /\ pc[w] = "begin" /\ Msg(w) \notin Malformed
    /\ Fault
    /\ guard' \in {guard, guard \cup {held[w]}}
    /\ runs' = More(runs, held[w])
    /\ failOpen' = More(failOpen, held[w])
    /\ Goto(w, "handler")
    /\ UNCHANGED <<queueVars, held, live, returned, cutVars>>

-----------------------------------------------------------------------------
(* The handler: BaseWorker._handle_message *)

\* validate is false: UnretryableError.
ValidationFails(w) ==
    /\ pc[w] = "handler" /\ Msg(w) \in Invalid
    /\ Goto(w, "dead")
    /\ UNCHANGED <<queueVars, guard, held, live, historyVars>>

\* The pipeline ran, or a stub result stands in for it; a non-zero exit code is
\* a returned "failed".
ProcessReturns(w, status) ==
    /\ pc[w] = "handler" /\ Msg(w) \notin Invalid
    /\ returned' = returned \cup {<<Msg(w), status>>}
    /\ Goto(w, status)
    /\ UNCHANGED <<queueVars, guard, held, live, runs, failOpen, cutVars, faults>>

\* Broken: an attempt is counted before it is made.
select_tier_OffByOne(a) == a + 1 < Tiers

\* select_tier(attempt) is not None.
select_tier(a) == a < Tiers

ProcessRaises(w) ==
    /\ pc[w] = "handler" /\ Msg(w) \notin Invalid
    /\ Goto(w, IF select_tier(Attempt(held[w])) THEN "retry" ELSE "dead")
    /\ UNCHANGED <<queueVars, guard, held, live, historyVars>>

-----------------------------------------------------------------------------
(* Publishing the outcome, then acknowledging *)

\* After the dead-letter copy, the failed result; an unparseable body has no id.
AfterBurial(w) == IF Msg(w) \in Malformed THEN "ack" ELSE "failed"

PublishRetry(w) ==
    /\ pc[w] = "retry"
    /\ wait' = More(wait, held[w])
    /\ Goto(w, "ack")
    /\ UNCHANGED <<sent, publishes, ready, dlq, expired, results, guard, held, live, historyVars>>

\* Broken: poison is nacked with requeue.
DeadLetter_Requeues(w) ==
    /\ pc[w] = "dead" /\ live[w]
    /\ ready' = More(ready, held[w])
    /\ Finish(w)
    /\ UNCHANGED <<sent, publishes, wait, dlq, expired, results, guard, live, historyVars>>

DeadLetter(w) ==
    /\ pc[w] = "dead"
    /\ dlq' = More(dlq, held[w])
    /\ Goto(w, AfterBurial(w))
    /\ UNCHANGED <<sent, publishes, ready, wait, expired, results, guard, held, live, historyVars>>

\* Broken: acknowledged without publishing.
PublishResult_Silent(w) ==
    /\ pc[w] \in Statuses
    /\ Goto(w, "ack")
    /\ UNCHANGED <<queueVars, guard, held, live, historyVars>>

PublishResult(w) ==
    /\ pc[w] \in Statuses
    /\ results' = results \cup {<<Msg(w), pc[w]>>}
    /\ Goto(w, "ack")
    /\ UNCHANGED <<sent, publishes, ready, wait, dlq, expired, guard, held, live, historyVars>>

\* The broker refuses a publish: "requeue as a last resort".
PublishFails(w) ==
    /\ pc[w] \in Publishing /\ live[w]
    /\ Fault
    /\ ready' = More(ready, held[w])
    /\ requeued' = requeued \cup ({Msg(w)} \ Malformed)
    /\ Finish(w)
    /\ UNCHANGED <<sent, publishes, wait, dlq, expired, results, guard, live,
                   runs, returned, failOpen, severed, cancelled>>

\* Or the publish dies with the connection, and the nack after it.
PublishFailsOffline(w) ==
    /\ pc[w] \in Publishing /\ ~live[w]
    /\ Accept(pc[w], held[w]) \/ Lose
    /\ Finish(w)
    /\ UNCHANGED <<sent, publishes, ready, expired, guard, live, historyVars>>

\* Broken: an acknowledged delivery stays in hand.
Ack_KeepsHeld(w) ==
    /\ pc[w] = "ack"
    /\ Goto(w, "idle")
    /\ UNCHANGED <<queueVars, guard, held, live, historyVars>>

\* message.ack(); on a stale delivery it raises, the nack does too, and the
\* broker has requeued the message already.
Ack(w) ==
    /\ pc[w] = "ack"
    /\ Finish(w)
    /\ UNCHANGED <<queueVars, guard, live, historyVars>>

-----------------------------------------------------------------------------
(* Connections, crashes and SIGTERM *)

\* What is not acknowledged goes back to the work queue, headers unchanged.
Redeliver(w) == ready' = IF live[w] /\ pc[w] # "idle" THEN More(ready, held[w]) ELSE ready

\* The key is taken and the outcome is not yet handed on.
Claimed(w) == pc[w] \in {"handler"} \cup Publishing /\ Msg(w) \notin Malformed

ClaimedMsgs(w) == IF Claimed(w) THEN {Msg(w)} ELSE {}

\* A handler that has yet to take the key will still do so.
ConnectionLost(w) ==
    /\ live[w] /\ Fault
    /\ Redeliver(w)
    /\ severed' = severed \cup ClaimedMsgs(w) \cup
                  (IF pc[w] = "begin" THEN {Msg(w)} \ Malformed ELSE {})
    /\ live' = [live EXCEPT ![w] = FALSE]
    /\ UNCHANGED <<sent, publishes, wait, dlq, expired, results, guard, pc, held,
                   runs, returned, failOpen, requeued, cancelled>>

\* The restored consumer takes its next delivery.
Reconnect(w) ==
    /\ pc[w] = "idle" /\ ~live[w]
    /\ live' = [live EXCEPT ![w] = TRUE]
    /\ UNCHANGED <<queueVars, guard, pc, held, historyVars>>

\* The process is gone and a new one connects.
Restart(w) ==
    /\ pc[w] # "idle" /\ Fault
    /\ Redeliver(w)
    /\ Finish(w)
    /\ live' = [live EXCEPT ![w] = TRUE]
    /\ UNCHANGED <<sent, publishes, wait, dlq, expired, results, guard, runs, returned, failOpen, requeued>>

Crash(w) ==
    /\ Restart(w)
    /\ severed' = severed \cup ClaimedMsgs(w)
    /\ cancelled' = cancelled

\* SIGTERM cancels every task: CancelledError passes _handle_delivery's handlers
\* wherever it awaits, and start closes the connection.
Shutdown(w) ==
    /\ Restart(w)
    /\ cancelled' = cancelled \cup ClaimedMsgs(w)
    /\ severed' = severed

-----------------------------------------------------------------------------
Handle(w) ==
    \/ ParseError(w) \/ Claim(w) \/ SkipDuplicate(w)
    \/ ValidationFails(w) \/ ProcessRaises(w)
    \/ \E status \in Statuses : ProcessReturns(w, status)
    \/ PublishRetry(w) \/ DeadLetter(w) \/ PublishResult(w) \/ PublishFailsOffline(w)
    \/ Ack(w)
    \/ Reconnect(w)

Break(w) ==
    GuardError(w) \/ PublishFails(w) \/ ConnectionLost(w) \/ Crash(w) \/ Shutdown(w)

Next ==
    \/ Topology /\ UNCHANGED <<guard, workerVars, historyVars>>
    \/ \E w \in Workers : Handle(w) \/ Break(w) \/ \E c \in Copies : Receive(w, c)

Spec == Init /\ [][Next]_vars

\* Wait-queues expire, a worker goes on with what it holds and reconnects, and the
\* broker delivers something to a free worker as long as there is something.
Fairness ==
    /\ WF_vars((\E c \in WaitingCopies : RetryDue(c)) /\ UNCHANGED <<guard, workerVars, historyVars>>)
    /\ \A w \in Workers : WF_vars(Handle(w))
    /\ WF_vars(\E w \in Workers, c \in Copies : Receive(w, c))

FairSpec == Spec /\ Fairness

-----------------------------------------------------------------------------
\* Every variable has its type; who is idle holds nothing.
TypeOK ==
    /\ QueueTypeOK
    /\ {runs, failOpen} \subseteq [Copies -> Nat]
    /\ guard \subseteq Copies
    /\ pc \in [Workers -> {"idle", "begin", "handler", "ack"} \cup Publishing]
    /\ held \in [Workers -> Copies \cup {NoCopy}]
    /\ \A w \in Workers : held[w] = NoCopy <=> pc[w] = "idle"
    /\ live \in [Workers -> BOOLEAN]
    /\ returned \subseteq Msgs \X Statuses
    /\ {severed, requeued, cancelled} \subseteq SUBSET (Msgs \ Malformed)
    /\ faults \in 0..MaxFaults

\* A copy of m is on its way to being handled.
Circulates(m) == Queued(m) \/ \E w \in Workers : pc[w] # "idle" /\ Msg(w) = m

\* What the pipeline owes a message: an unparseable body is buried, any other
\* message gets a result.
Settled(m) ==
    IF m \in Malformed THEN Buried(m) ELSE \E status \in Statuses : Reported(m, status)

\* The guard dedupes across replicas, crashes, requeues and relay duplicates: the
\* handler runs once per attempt, and once more per guard error that failed open.
AttemptRunsOnce == \A c \in Copies : runs[c] <= 1 + failOpen[c]

\* A valid message reaches the DLQ only after a try at every rung of the ladder.
DeadLetterEarned ==
    \A c \in Copies : dlq[c] > 0 /\ c[1] \notin Malformed \cup Invalid =>
        \A a \in 0..Tiers : runs[<<c[1], a>>] > 0

\* A result tells the truth: "completed" only if the handler returned it, "failed"
\* only if it returned that or the message lies in the DLQ.
ResultsAreTrue ==
    \A m \in Msgs :
        /\ Reported(m, "completed") => <<m, "completed">> \in returned
        /\ Reported(m, "failed") => <<m, "failed">> \in returned \/ Buried(m)

\* Attempts of a message run one after the other: api-service is never told both
\* "completed" and "failed" unless the guard failed open.
OneVerdict ==
    \A m \in Msgs : (\A status \in Statuses : Reported(m, status)) =>
        \E a \in 0..Tiers : failOpen[<<m, a>>] > 0

\* A document whose message was published gets its result, unless a crash, a lost
\* connection, a failed publish or SIGTERM fell between the key and the result.
\* Poison that does not even parse is never lost.
UnsettledOnlyIfCutOff ==
    \A m \in sent :
        Circulates(m) \/ Settled(m) \/ m \in severed \cup requeued \cup cancelled

\* CONTRACTS.md: "graceful shutdown on SIGTERM/SIGINT (finish in-flight, close
\* connections)".
ShutdownLosesNothing ==
    \A m \in sent :
        Circulates(m) \/ Settled(m) \/ m \in severed \cup requeued

\* Neither poison nor a failing pipeline circulates for ever: once the relay has no
\* more to publish, the work queue and its wait-queues drain.
EveryMessageLeaves == <>[](\A m \in Msgs : ~Circulates(m))

\* As long as nothing fails, whatever duplicates the relay makes, every message is
\* settled.
EveryMessageSettled == <>[](faults = 0 => \A m \in sent : Settled(m))
=============================================================================
