-------------------------- MODULE TaskWorkerProofs --------------------------
(***************************************************************************)
(* Proofs about TaskWorker for any messages, replicas, retry tiers and     *)
(* bounds: type correctness, that an attempt runs once, what reaches the   *)
(* dead-letter queue, what a "failed" result means, and that nothing but a *)
(* cut-off loses a message.                                                *)
(***************************************************************************)
EXTENDS TaskWorker, WorkQueueProofs

-----------------------------------------------------------------------------
(* The invariant *)

\* A key is taken by a run of its attempt; every other run of it is an error that
\* failed open; and what is rejected never runs.
GuardInv ==
    \A c \in Copies :
        /\ c \in guard => runs[c] > 0
        /\ runs[c] <= (IF c \in guard THEN 1 ELSE 0) + failOpen[c]
        /\ runs[c] > 0 => c[1] \notin Rejected

\* Neither does a worker retry it.
RejectInv == \A w \in Workers : pc[w] \in {"process", "retry"} => Msg(w) \notin Rejected

\* Steps at which the attempt in hand has been run and not yet handed on.
Owning == {"process", "retry", "dead"}

\* A valid copy has climbed the ladder: every lower attempt was run, and its own
\* too once it waits or is in hand past the guard.
CopiesClimbed ==
    \A c \in Copies : c[1] \notin Rejected =>
        /\ ready[c] > 0 \/ wait[c] > 0 => \A a \in 0..Tiers : a < c[2] => runs[<<c[1], a>>] > 0
        /\ wait[c] > 0 => runs[c] > 0
        /\ dlq[c] > 0 => \A a \in 0..Tiers : runs[<<c[1], a>>] > 0

HandsClimbed ==
    \A w \in Workers : pc[w] # "idle" /\ Msg(w) \notin Rejected =>
        /\ \A a \in 0..Tiers : a < held[w][2] => runs[<<Msg(w), a>>] > 0
        /\ pc[w] \in Owning => runs[held[w]] > 0
        /\ pc[w] = "dead" => held[w][2] = Tiers

LadderInv == CopiesClimbed /\ HandsClimbed

\* Who is about to say "failed" has buried the message, or was misled.
FailedInv ==
    /\ \A w \in Workers : pc[w] \in {"buried", "failed"} => Buried(Msg(w)) \/ Msg(w) \in misled
    /\ FailedIsBuried

\* A worker whose connection is lost goes on with a message known to be cut off.
OfflineInv ==
    \A w \in Workers :
        pc[w] \in {"begin"} \cup Owning /\ ~live[w] /\ Msg(w) \notin Rejected => Msg(w) \in severed

\* What LostOnlyIfCutOff asks of a message that no longer circulates.
Over(m) == m \in done \/ Buried(m) \/ Parked(m) \/ m \in severed \cup requeued \cup misled

\* A copy that has yet to be run, and a run that has yet to be handed on.
Pending(c) ==
    \/ ready[c] > 0
    \/ \E w \in Workers : held[w] = c /\ pc[w] = "begin" /\ live[w]

Owned(c) == \E w \in Workers : held[w] = c /\ pc[w] \in Owning /\ live[w]

\* An attempt that was run is still in hand or was handed on: to its retry tier or
\* to the next attempt.
HandedOn(c) ==
    \/ Over(c[1]) \/ Owned(c) \/ wait[c] > 0
    \/ \E d \in Copies : d = <<c[1], c[2] + 1>> /\ (Pending(d) \/ runs[d] > 0)

\* A published message was run, or is yet to be; a rejected one is on its way to
\* the dead-letter queue.
Accounted(m) ==
    \E c \in Copies :
        /\ c = <<m, 0>>
        /\ \/ Over(m) \/ Pending(c)
           \/ IF m \in Rejected THEN Owned(c) ELSE runs[c] > 0

ProgressInv ==
    /\ \A c \in Copies : runs[c] > 0 => HandedOn(c)
    /\ \A m \in sent : Accounted(m)

\* Of the attempts of a message that were run, one is the highest.
TopInv ==
    \A c \in Copies : runs[c] > 0 =>
        \E t \in Copies :
            /\ t[1] = c[1] /\ runs[t] > 0
            /\ \A d \in Copies : d[1] = c[1] /\ runs[d] > 0 => d[2] <= t[2]

IInv ==
    /\ TypeOK /\ GuardInv /\ RejectInv /\ LadderInv /\ FailedInv /\ OfflineInv
    /\ ProgressInv /\ TopInv

-----------------------------------------------------------------------------
(* Lemmas about what a worker holds, publishes and gives back *)

\* A busy worker holds a copy.
LEMMA BusyHoldsCopy ==
    ASSUME TypeOK, NEW w \in Workers, pc[w] # "idle"
    PROVE  /\ held[w] \in Copies
           /\ Msg(w) \in Msgs /\ held[w][2] \in 0..Tiers
           /\ held[w] = <<Msg(w), held[w][2]>>
  <1>1. held[w] \in Copies
    BY DEF TypeOK
  <1> QED
    BY <1>1, CopyParts DEF Msg

\* A publish that passes for confirmed was accepted, or misled its worker.
LEMMA ConfirmMeans ==
    ASSUME TypeOK, NEW w \in Workers, pc[w] \in Publishing, NEW ok \in BOOLEAN,
           publishConfirmed(w, ok)
    PROVE  /\ Accept(pc[w], held[w]) \/ Lose
           /\ live[w]
           /\ unread' \in [Workers -> {"none", "ack", "nack"}]
           /\ faults' \in 0..MaxFaults
           /\ misled \subseteq misled' /\ misled' \subseteq misled \cup {Msg(w)}
           /\ ok /\ pc[w] \notin Statuses => Accept(pc[w], held[w]) \/ Msg(w) \in misled'
  <1>1. Accept(pc[w], held[w]) \/ Lose
    BY DEF publishConfirmed
  <1>2. live[w] /\ unread' \in [Workers -> {"none", "ack", "nack"}]
    BY DEF publishConfirmed, TypeOK
  <1>3. faults' \in 0..MaxFaults
    BY TaskWorkerAssumption
       DEF publishConfirmed, TypeOK, Fault, FaultUnless, TaskWorkerAssumption
  <1>4. /\ misled \subseteq misled' /\ misled' \subseteq misled \cup {Msg(w)}
        /\ ok /\ pc[w] \notin Statuses => Accept(pc[w], held[w]) \/ Msg(w) \in misled'
    BY DEF publishConfirmed
  <1> QED
    BY <1>1, <1>2, <1>3, <1>4

\* What is redelivered is what was in hand.
LEMMA RedeliverReturns ==
    ASSUME TypeOK, NEW w \in Workers, Redeliver(w)
    PROVE  /\ ready' \in [Copies -> Nat]
           /\ \A d \in Copies : ready'[d] >= ready[d]
           /\ \A d \in Copies : ready'[d] > ready[d] => pc[w] # "idle" /\ d = held[w]
           /\ Unacked(w) => ready'[held[w]] > 0
  <1>1. QueueTypeOK
    BY DEF TypeOK
  <1>2. CASE Unacked(w)
    <2>1. pc[w] # "idle" /\ held[w] \in Copies
      BY <1>2, BusyHoldsCopy DEF Unacked
    <2> QED
      BY <1>1, <1>2, <2>1, QueuesAreBags DEF Redeliver, More
  <1>3. CASE ~Unacked(w)
    BY <1>1, <1>3, QueuesAreBags DEF Redeliver
  <1> QED
    BY <1>2, <1>3
-----------------------------------------------------------------------------
(* Type correctness *)

\* Nothing is queued, held or claimed at first.
LEMMA InitType == Init => TypeOK
  <1> SUFFICES ASSUME Init PROVE TypeOK
    OBVIOUS
  <1>1. QueueTypeOK
    BY QueueInitType DEF Init
  <1>2. {runs, failOpen} \subseteq [Copies -> Nat]
    BY DEF Init
  <1>3. faults \in 0..MaxFaults
    BY TaskWorkerAssumption DEF Init, TaskWorkerAssumption
  <1> QED
    BY <1>1, <1>2, <1>3 DEF Init, TypeOK

\* Every step keeps every variable's type.
LEMMA TypeStep == TypeOK /\ [Next]_vars => TypeOK'
<1> SUFFICES ASSUME TypeOK, [Next]_vars PROVE TypeOK'
  OBVIOUS
<1>1. ASSUME Topology, UNCHANGED <<guard, workerVars, historyVars>> PROVE TypeOK'
  <2>1. QueueTypeOK'
    BY <1>1, TopologyType DEF TypeOK
  <2> QED
    BY <1>1, <2>1 DEF TypeOK, workerVars, historyVars, handling
<1>2. ASSUME NEW w \in Workers, NEW c \in Copies, Receive(w, c) PROVE TypeOK'
  <2>1. QueueTypeOK'
    BY <1>2, QueuesAreBags, LessBag DEF Receive, TypeOK, QueueTypeOK
  <2> QED
    BY <1>2, <2>1, NoCopyIsNone DEF Receive, TypeOK, Goto, historyVars, handling
<1>3. ASSUME NEW w \in Workers, Reject(w) PROVE TypeOK'
  <2>1. QueueTypeOK'
    BY <1>3 DEF Reject, TypeOK, QueueTypeOK, queueVars
  <2> QED
    BY <1>3, <2>1 DEF Reject, TypeOK, Goto, Finish, Publishing, Statuses, historyVars, handling
<1>4. ASSUME NEW w \in Workers, Claim(w) PROVE TypeOK'
  <2>1. held[w] \in Copies
    BY <1>4, BusyHoldsCopy DEF Claim
  <2>2. {runs, failOpen}' \subseteq [Copies -> Nat]
    BY <1>4, <2>1, MoreBag DEF Claim, TypeOK
  <2>3. QueueTypeOK'
    BY <1>4 DEF Claim, TypeOK, QueueTypeOK, queueVars
  <2>4. faults' \in 0..MaxFaults
    BY <1>4, TaskWorkerAssumption DEF Claim, TypeOK, Fault, TaskWorkerAssumption
  <2> QED
    BY <1>4, <2>1, <2>2, <2>3, <2>4 DEF Claim, TypeOK, Goto
<1>5. ASSUME NEW w \in Workers, SkipDuplicate(w) PROVE TypeOK'
  <2>1. QueueTypeOK'
    BY <1>5 DEF SkipDuplicate, TypeOK, QueueTypeOK, queueVars
  <2> QED
    BY <1>5, <2>1 DEF SkipDuplicate, TypeOK, Goto, Finish, Publishing, Statuses, historyVars, handling
<1>6. ASSUME NEW w \in Workers, ProcessSucceeds(w) PROVE TypeOK'
  <2>1. Msg(w) \in Msgs
    BY <1>6, BusyHoldsCopy DEF ProcessSucceeds
  <2>2. QueueTypeOK'
    BY <1>6 DEF ProcessSucceeds, TypeOK, QueueTypeOK, queueVars
  <2> QED
    BY <1>6, <2>1, <2>2 DEF ProcessSucceeds, TypeOK, Goto
<1>7. ASSUME NEW w \in Workers, ProcessFails(w) PROVE TypeOK'
  <2>1. QueueTypeOK'
    BY <1>7 DEF ProcessFails, TypeOK, QueueTypeOK, queueVars
  <2> QED
    BY <1>7, <2>1 DEF ProcessFails, TypeOK, Goto, Finish, Publishing, Statuses, historyVars, handling
<1>8. ASSUME NEW w \in Workers, PublishRetry(w) PROVE TypeOK'
  <2>1. held[w] \in Copies /\ Msg(w) \in Msgs
    BY <1>8, BusyHoldsCopy DEF PublishRetry, Publishing, Statuses
  <2>2. pc[w] \in Publishing
    BY <1>8 DEF PublishRetry, Publishing
  <2>3. Accept(pc[w], held[w]) \/ Lose
    BY <1>8, <2>2, ConfirmMeans DEF PublishRetry, Publishing, Statuses
  <2>4. unread' \in [Workers -> {"none", "ack", "nack"}] /\ faults' \in 0..MaxFaults /\ misled' \subseteq Msgs
    BY <1>8, <2>1, <2>2, ConfirmMeans DEF PublishRetry, Publishing, Statuses, TypeOK
  <2>5. QueueTypeOK'
    BY <1>8, <2>1, <2>2, <2>3, AcceptFiles, QueuesAreBags, MoreBag DEF PublishRetry, TypeOK, QueueTypeOK
  <2>6. requeued' \subseteq Msgs
    BY <1>8, <2>1 DEF PublishRetry, TypeOK, handling
  <2> QED
    BY <1>8, <2>1, <2>2, <2>4, <2>5, <2>6 DEF PublishRetry, TypeOK, Goto, Finish, handling, Publishing, Statuses
<1>9. ASSUME NEW w \in Workers, DeadLetter(w) PROVE TypeOK'
  <2>1. held[w] \in Copies /\ Msg(w) \in Msgs
    BY <1>9, BusyHoldsCopy DEF DeadLetter, Publishing, Statuses
  <2>2. pc[w] \in Publishing
    BY <1>9 DEF DeadLetter, Publishing
  <2>3. Accept(pc[w], held[w]) \/ Lose
    BY <1>9, <2>2, ConfirmMeans DEF DeadLetter, Publishing, Statuses
  <2>4. unread' \in [Workers -> {"none", "ack", "nack"}] /\ faults' \in 0..MaxFaults /\ misled' \subseteq Msgs
    BY <1>9, <2>1, <2>2, ConfirmMeans DEF DeadLetter, Publishing, Statuses, TypeOK
  <2>5. QueueTypeOK'
    BY <1>9, <2>1, <2>2, <2>3, AcceptFiles, QueuesAreBags, MoreBag DEF DeadLetter, TypeOK, QueueTypeOK
  <2>6. requeued' \subseteq Msgs
    BY <1>9, <2>1 DEF DeadLetter, TypeOK, handling
  <2> QED
    BY <1>9, <2>1, <2>2, <2>4, <2>5, <2>6 DEF DeadLetter, TypeOK, Goto, Finish, handling, Publishing, Statuses
<1>10. ASSUME NEW w \in Workers, PublishFails(w) PROVE TypeOK'
  <2>1. held[w] \in Copies /\ Msg(w) \in Msgs
    BY <1>10, BusyHoldsCopy DEF PublishFails, Publishing, Statuses
  <2>2. pc[w] \in Publishing
    BY <1>10 DEF PublishFails, Publishing
  <2>3. Accept(pc[w], held[w]) \/ Lose
    BY <1>10, <2>2, ConfirmMeans DEF PublishFails, Publishing, Statuses
  <2>4. unread' \in [Workers -> {"none", "ack", "nack"}] /\ faults' \in 0..MaxFaults /\ misled' \subseteq Msgs
    BY <1>10, <2>1, <2>2, ConfirmMeans DEF PublishFails, Publishing, Statuses, TypeOK
  <2>5. QueueTypeOK'
    <3>1. QueueTypeOK
      BY DEF TypeOK
    <3>2. ready' \in [Copies -> Nat]
      BY <1>10, <2>1, <3>1, QueuesAreBags, MoreBag DEF PublishFails
    <3>3. wait' \in [Copies -> Nat] /\ dlq' \in [Copies -> Nat] /\ results' \subseteq Msgs \X Statuses
      BY <2>1, <2>2, <2>3, <3>1, AcceptFiles
    <3> QED
      BY <1>10, <3>1, <3>2, <3>3 DEF PublishFails, QueueTypeOK
  <2>6. requeued' \subseteq Msgs
    BY <1>10, <2>1 DEF PublishFails, TypeOK, handling
  <2>7. pc' \in [Workers -> {"idle", "begin", "process", "ack", "retried", "buried"} \cup Publishing]
    BY <1>10 DEF PublishFails, TypeOK, Goto, Finish
  <2>8. held' \in [Workers -> Copies \cup {NoCopy}] /\ \A v \in Workers : held'[v] = NoCopy <=> pc'[v] = "idle"
    BY <1>10 DEF PublishFails, TypeOK, Goto, Finish
  <2> QED
    BY <1>10, <2>7, <2>8, <2>1, <2>2, <2>4, <2>5, <2>6 DEF PublishFails, TypeOK, Goto, Finish, handling, Publishing, Statuses
<1>11. ASSUME NEW w \in Workers, PublishFailsOffline(w) PROVE TypeOK'
  <2>1. held[w] \in Copies /\ pc[w] \in Publishing
    BY <1>11, BusyHoldsCopy DEF PublishFailsOffline, Publishing, Statuses
  <2>2. QueueTypeOK'
    BY <1>11, <2>1, AcceptFiles DEF PublishFailsOffline, TypeOK, QueueTypeOK
  <2> QED
    BY <1>11, <2>1, <2>2 DEF PublishFailsOffline, TypeOK, Goto, Finish, historyVars, handling
<1>12. ASSUME NEW w \in Workers, Ack(w) PROVE TypeOK'
  <2>1. QueueTypeOK'
    BY <1>12 DEF Ack, TypeOK, QueueTypeOK, queueVars
  <2> QED
    BY <1>12, <2>1 DEF Ack, TypeOK, Goto, Finish, Publishing, Statuses, historyVars, handling
<1>13. ASSUME NEW w \in Workers, AckRetried(w) PROVE TypeOK'
  <2>1. QueueTypeOK'
    BY <1>13 DEF AckRetried, TypeOK, QueueTypeOK, queueVars
  <2> QED
    BY <1>13, <2>1 DEF AckRetried, TypeOK, Goto, Finish, Publishing, Statuses, historyVars, handling
<1>14. ASSUME NEW w \in Workers, AckBuried(w) PROVE TypeOK'
  <2>1. QueueTypeOK'
    BY <1>14 DEF AckBuried, TypeOK, QueueTypeOK, queueVars
  <2> QED
    BY <1>14, <2>1 DEF AckBuried, TypeOK, Goto, Finish, Publishing, Statuses, historyVars, handling
<1>15. ASSUME NEW w \in Workers, emitResult(w) PROVE TypeOK'
  <2>1. held[w] \in Copies /\ Msg(w) \in Msgs
    BY <1>15, BusyHoldsCopy DEF emitResult, Publishing, Statuses
  <2>2. pc[w] \in Publishing
    BY <1>15 DEF emitResult, Publishing
  <2>3. Accept(pc[w], held[w]) \/ Lose
    BY <1>15, <2>2, ConfirmMeans DEF emitResult, Publishing, Statuses
  <2>4. unread' \in [Workers -> {"none", "ack", "nack"}] /\ faults' \in 0..MaxFaults /\ misled' \subseteq Msgs
    BY <1>15, <2>1, <2>2, ConfirmMeans DEF emitResult, Publishing, Statuses, TypeOK
  <2>5. QueueTypeOK'
    BY <1>15, <2>1, <2>2, <2>3, AcceptFiles, QueuesAreBags, MoreBag DEF emitResult, TypeOK, QueueTypeOK
  <2>6. requeued' \subseteq Msgs
    BY <1>15, <2>1 DEF emitResult, TypeOK, handling
  <2> QED
    BY <1>15, <2>1, <2>2, <2>4, <2>5, <2>6 DEF emitResult, TypeOK, Goto, Finish, handling, Publishing, Statuses
<1>16. ASSUME NEW w \in Workers, Reconnect(w) PROVE TypeOK'
  <2>1. QueueTypeOK'
    BY <1>16 DEF Reconnect, TypeOK, QueueTypeOK, queueVars
  <2> QED
    BY <1>16, <2>1 DEF Reconnect, TypeOK, Goto, Finish, Publishing, Statuses, historyVars, handling
<1>17. ASSUME NEW w \in Workers, GuardError(w) PROVE TypeOK'
  <2>1. held[w] \in Copies
    BY <1>17, BusyHoldsCopy DEF GuardError
  <2>2. {runs, failOpen}' \subseteq [Copies -> Nat]
    BY <1>17, <2>1, MoreBag DEF GuardError, TypeOK
  <2>3. QueueTypeOK'
    BY <1>17 DEF GuardError, TypeOK, QueueTypeOK, queueVars
  <2>4. faults' \in 0..MaxFaults
    BY <1>17, TaskWorkerAssumption DEF GuardError, TypeOK, Fault, TaskWorkerAssumption
  <2> QED
    BY <1>17, <2>1, <2>2, <2>3, <2>4 DEF GuardError, TypeOK, Goto
<1>18. ASSUME NEW w \in Workers, ConnectionLost(w) PROVE TypeOK'
  <2>1. ready' \in [Copies -> Nat]
    BY <1>18, RedeliverReturns DEF ConnectionLost
  <2>2. QueueTypeOK'
    BY <1>18, <2>1 DEF ConnectionLost, TypeOK, QueueTypeOK
  <2>3. faults' \in 0..MaxFaults
    BY <1>18, TaskWorkerAssumption DEF ConnectionLost, TypeOK, Fault, TaskWorkerAssumption
  <2>4. severed' \subseteq Msgs
    BY <1>18, BusyHoldsCopy DEF ConnectionLost, TypeOK, Sever
  <2> QED
    BY <1>18, <2>2, <2>3, <2>4 DEF ConnectionLost, TypeOK, Goto, Finish
<1>19. ASSUME NEW w \in Workers, Crash(w) PROVE TypeOK'
  <2>1. ready' \in [Copies -> Nat]
    BY <1>19, RedeliverReturns DEF Crash
  <2>2. QueueTypeOK'
    BY <1>19, <2>1 DEF Crash, TypeOK, QueueTypeOK
  <2>3. faults' \in 0..MaxFaults
    BY <1>19, TaskWorkerAssumption DEF Crash, TypeOK, Fault, TaskWorkerAssumption
  <2>4. severed' \subseteq Msgs
    BY <1>19, BusyHoldsCopy DEF Crash, TypeOK, Sever
  <2> QED
    BY <1>19, <2>2, <2>3, <2>4 DEF Crash, TypeOK, Goto, Finish
<1>20. CASE UNCHANGED vars
  <2>1. QueueTypeOK'
    BY <1>20 DEF TypeOK, QueueTypeOK, vars, queueVars
  <2> QED
    BY <1>20, <2>1 DEF TypeOK, vars, workerVars, historyVars, handling
<1> QED
  BY <1>1, <1>2, <1>3, <1>4, <1>5, <1>6, <1>7, <1>8, <1>9, <1>10, <1>11, <1>12,
     <1>13, <1>14, <1>15, <1>16, <1>17, <1>18, <1>19, <1>20
     DEF Next, Handle, Break
-----------------------------------------------------------------------------
(* The guard and the retry ladder *)

\* Every run takes the key or is counted as a guard error, and never of what is rejected.
LEMMA GuardStep == TypeOK /\ GuardInv /\ [Next]_vars => GuardInv'
<1> SUFFICES ASSUME TypeOK, GuardInv, [Next]_vars PROVE GuardInv'
  OBVIOUS
<1> USE DEF TypeOK, GuardInv
<1>1. ASSUME Topology, UNCHANGED <<guard, workerVars, historyVars>> PROVE GuardInv'
  BY <1>1 DEF historyVars, handling
<1>2. ASSUME NEW w \in Workers, NEW c \in Copies, Receive(w, c) PROVE GuardInv'
  BY <1>2 DEF Receive, historyVars, handling
<1>3. ASSUME NEW w \in Workers, Reject(w) PROVE GuardInv'
  BY <1>3 DEF Reject, historyVars, handling
<1>4. ASSUME NEW w \in Workers, Claim(w) PROVE GuardInv'
  <2>1. held[w] \in Copies
    BY <1>4, BusyHoldsCopy DEF Claim
  <2>2. Msg(w) = held[w][1] /\ Msg(w) \notin Rejected
    BY <1>4 DEF Claim, Msg
  <2>3. /\ runs' = [runs EXCEPT ![held[w]] = runs[held[w]] + 1]
        /\ \/ failOpen' = failOpen /\ held[w] \notin guard /\ guard' = guard \cup {held[w]}
           \/ failOpen' = [failOpen EXCEPT ![held[w]] = failOpen[held[w]] + 1] /\ guard' \in {guard, guard \cup {held[w]}}
    BY <1>4 DEF Claim, More
  <2> QED
    BY <2>1, <2>2, <2>3
<1>5. ASSUME NEW w \in Workers, SkipDuplicate(w) PROVE GuardInv'
  BY <1>5 DEF SkipDuplicate, historyVars, handling
<1>6. ASSUME NEW w \in Workers, ProcessSucceeds(w) PROVE GuardInv'
  BY <1>6 DEF ProcessSucceeds, historyVars, handling
<1>7. ASSUME NEW w \in Workers, ProcessFails(w) PROVE GuardInv'
  BY <1>7 DEF ProcessFails, historyVars, handling
<1>8. ASSUME NEW w \in Workers, PublishRetry(w) PROVE GuardInv'
  BY <1>8 DEF PublishRetry, historyVars, handling
<1>9. ASSUME NEW w \in Workers, DeadLetter(w) PROVE GuardInv'
  BY <1>9 DEF DeadLetter, historyVars, handling
<1>10. ASSUME NEW w \in Workers, PublishFails(w) PROVE GuardInv'
  BY <1>10 DEF PublishFails, historyVars, handling
<1>11. ASSUME NEW w \in Workers, PublishFailsOffline(w) PROVE GuardInv'
  BY <1>11 DEF PublishFailsOffline, historyVars, handling
<1>12. ASSUME NEW w \in Workers, Ack(w) PROVE GuardInv'
  BY <1>12 DEF Ack, historyVars, handling
<1>13. ASSUME NEW w \in Workers, AckRetried(w) PROVE GuardInv'
  BY <1>13 DEF AckRetried, historyVars, handling
<1>14. ASSUME NEW w \in Workers, AckBuried(w) PROVE GuardInv'
  BY <1>14 DEF AckBuried, historyVars, handling
<1>15. ASSUME NEW w \in Workers, emitResult(w) PROVE GuardInv'
  BY <1>15 DEF emitResult, historyVars, handling
<1>16. ASSUME NEW w \in Workers, Reconnect(w) PROVE GuardInv'
  BY <1>16 DEF Reconnect, historyVars, handling
<1>17. ASSUME NEW w \in Workers, GuardError(w) PROVE GuardInv'
  <2>1. held[w] \in Copies
    BY <1>17, BusyHoldsCopy DEF GuardError
  <2>2. Msg(w) = held[w][1] /\ Msg(w) \notin Rejected
    BY <1>17 DEF GuardError, Msg
  <2>3. /\ runs' = [runs EXCEPT ![held[w]] = runs[held[w]] + 1]
        /\ \/ failOpen' = failOpen /\ held[w] \notin guard /\ guard' = guard \cup {held[w]}
           \/ failOpen' = [failOpen EXCEPT ![held[w]] = failOpen[held[w]] + 1] /\ guard' \in {guard, guard \cup {held[w]}}
    BY <1>17 DEF GuardError, More
  <2> QED
    BY <2>1, <2>2, <2>3
<1>18. ASSUME NEW w \in Workers, ConnectionLost(w) PROVE GuardInv'
  BY <1>18 DEF ConnectionLost, historyVars, handling
<1>19. ASSUME NEW w \in Workers, Crash(w) PROVE GuardInv'
  BY <1>19 DEF Crash, historyVars, handling
<1>20. CASE UNCHANGED vars
  BY <1>20 DEF vars, historyVars, handling
<1> QED
  BY <1>1, <1>2, <1>3, <1>4, <1>5, <1>6, <1>7, <1>8, <1>9, <1>10, <1>11, <1>12,
     <1>13, <1>14, <1>15, <1>16, <1>17, <1>18, <1>19, <1>20
     DEF Next, Handle, Break

\* What is rejected goes to the dead-letter queue without being processed.
LEMMA RejectStep == TypeOK /\ RejectInv /\ [Next]_vars => RejectInv'
<1> SUFFICES ASSUME TypeOK, RejectInv, [Next]_vars PROVE RejectInv'
  OBVIOUS
<1> USE DEF TypeOK, RejectInv, Goto, Finish, Msg
<1>1. ASSUME Topology, UNCHANGED <<guard, workerVars, historyVars>> PROVE RejectInv'
  BY <1>1 DEF workerVars
<1>2. ASSUME NEW w \in Workers, NEW c \in Copies, Receive(w, c) PROVE RejectInv'
  BY <1>2 DEF Receive
<1>3. ASSUME NEW w \in Workers, Reject(w) PROVE RejectInv'
  BY <1>3 DEF Reject, Publishing, Statuses
<1>4. ASSUME NEW w \in Workers, Claim(w) PROVE RejectInv'
  BY <1>4 DEF Claim, Publishing, Statuses
<1>5. ASSUME NEW w \in Workers, SkipDuplicate(w) PROVE RejectInv'
  BY <1>5 DEF SkipDuplicate, Publishing, Statuses
<1>6. ASSUME NEW w \in Workers, ProcessSucceeds(w) PROVE RejectInv'
  BY <1>6 DEF ProcessSucceeds, Publishing, Statuses
<1>7. ASSUME NEW w \in Workers, ProcessFails(w) PROVE RejectInv'
  BY <1>7 DEF ProcessFails, Publishing, Statuses
<1>8. ASSUME NEW w \in Workers, PublishRetry(w) PROVE RejectInv'
  BY <1>8 DEF PublishRetry, Publishing, Statuses
<1>9. ASSUME NEW w \in Workers, DeadLetter(w) PROVE RejectInv'
  BY <1>9 DEF DeadLetter, Publishing, Statuses
<1>10. ASSUME NEW w \in Workers, PublishFails(w) PROVE RejectInv'
  BY <1>10 DEF PublishFails, Publishing, Statuses
<1>11. ASSUME NEW w \in Workers, PublishFailsOffline(w) PROVE RejectInv'
  BY <1>11 DEF PublishFailsOffline, Publishing, Statuses
<1>12. ASSUME NEW w \in Workers, Ack(w) PROVE RejectInv'
  BY <1>12 DEF Ack, Publishing, Statuses
<1>13. ASSUME NEW w \in Workers, AckRetried(w) PROVE RejectInv'
  BY <1>13 DEF AckRetried, Publishing, Statuses
<1>14. ASSUME NEW w \in Workers, AckBuried(w) PROVE RejectInv'
  BY <1>14 DEF AckBuried, Publishing, Statuses
<1>15. ASSUME NEW w \in Workers, emitResult(w) PROVE RejectInv'
  BY <1>15 DEF emitResult, Publishing, Statuses
<1>16. ASSUME NEW w \in Workers, Reconnect(w) PROVE RejectInv'
  BY <1>16 DEF Reconnect, Publishing, Statuses
<1>17. ASSUME NEW w \in Workers, GuardError(w) PROVE RejectInv'
  BY <1>17 DEF GuardError, Publishing, Statuses
<1>18. ASSUME NEW w \in Workers, ConnectionLost(w) PROVE RejectInv'
  BY <1>18 DEF ConnectionLost, Publishing, Statuses
<1>19. ASSUME NEW w \in Workers, Crash(w) PROVE RejectInv'
  BY <1>19 DEF Crash, Publishing, Statuses
<1>20. CASE UNCHANGED vars
  BY <1>20 DEF vars, workerVars
<1> QED
  BY <1>1, <1>2, <1>3, <1>4, <1>5, <1>6, <1>7, <1>8, <1>9, <1>10, <1>11, <1>12,
     <1>13, <1>14, <1>15, <1>16, <1>17, <1>18, <1>19, <1>20
     DEF Next, Handle, Break

\* Only what takes the key, or fails open, runs an attempt.
LEMMA RunsStep ==
    ASSUME TypeOK, [Next]_vars
    PROVE  \/ runs' = runs
           \/ \E w \in Workers :
                  /\ Claim(w) \/ GuardError(w)
                  /\ held[w] \in Copies /\ runs' = More(runs, held[w])
  <1>1. ASSUME NEW w \in Workers, Claim(w) \/ GuardError(w)
        PROVE  runs' = More(runs, held[w]) /\ held[w] \in Copies
    BY <1>1, BusyHoldsCopy DEF Claim, GuardError
  <1>2. ASSUME NEW w \in Workers, Handle(w) \/ Break(w), ~Claim(w), ~GuardError(w)
        PROVE  runs' = runs
    BY <1>2 DEF Handle, Break, Reject, SkipDuplicate, ProcessSucceeds, ProcessFails, PublishRetry,
                DeadLetter, PublishFails, PublishFailsOffline, Ack, AckRetried, AckBuried, emitResult,
                Reconnect, ConnectionLost, Crash, historyVars, handling
  <1>3. ASSUME NEW w \in Workers, NEW c \in Copies, Receive(w, c) PROVE runs' = runs
    BY <1>3 DEF Receive, historyVars, handling
  <1> QED
    BY <1>1, <1>2, <1>3 DEF Next, vars, historyVars, handling

\* Runs are never forgotten.
LEMMA RunsGrow ==
    ASSUME TypeOK, [Next]_vars
    PROVE  \A c \in Copies : runs'[c] >= runs[c] /\ (runs[c] > 0 => runs'[c] > 0)
  <1>1. runs \in [Copies -> Nat] /\ \A c \in Copies : runs[c] \in Nat
    BY DEF TypeOK
  <1>2. CASE runs' = runs
    BY <1>1, <1>2
  <1>3. ASSUME NEW b \in Copies, runs' = More(runs, b)
        PROVE  \A c \in Copies : runs'[c] >= runs[c] /\ (runs[c] > 0 => runs'[c] > 0)
    BY <1>1, <1>3 DEF More
  <1> QED
    BY <1>2, <1>3, RunsStep

\* A copy enters a queue only after a run of each attempt below its own.
LEMMA CopiesClimbedStep == TypeOK /\ LadderInv /\ [Next]_vars => CopiesClimbed'
<1> SUFFICES ASSUME TypeOK, LadderInv, [Next]_vars PROVE CopiesClimbed'
  OBVIOUS
<1>runs. \A c \in Copies : runs[c] > 0 => runs'[c] > 0
  BY RunsGrow
<1>types. /\ QueueTypeOK
          /\ ready \in [Copies -> Nat] /\ \A c \in Copies : ready[c] \in Nat /\ wait[c] \in Nat /\ dlq[c] \in Nat
          /\ \A c \in Copies : c[1] \in Msgs /\ \A a \in 0..Tiers : <<c[1], a>> \in Copies
          /\ \A c \in Copies : wait'[c] \in Nat /\ dlq'[c] \in Nat /\ ready'[c] \in Nat
  <2>1. QueueTypeOK /\ QueueTypeOK'
    BY TypeStep DEF TypeOK
  <2>2. \A c \in Copies : wait'[c] \in Nat /\ dlq'[c] \in Nat /\ ready'[c] \in Nat
    BY <2>1 DEF QueueTypeOK
  <2> QED
    BY <2>1, <2>2, QueuesAreBags, CopyParts DEF Copies
<1>1. ASSUME Topology, UNCHANGED <<guard, workerVars, historyVars>> PROVE CopiesClimbed'
  <2>1. /\ dlq' = dlq
        /\ \A c \in Copies : wait'[c] <= wait[c] /\ wait'[c] \in Nat
        /\ \A c \in Copies : ready'[c] > 0 =>
               \/ ready[c] > 0 \/ c[2] = 0
               \/ c[2] > 0 /\ <<c[1], c[2] - 1>> \in Copies /\ wait[<<c[1], c[2] - 1>>] > 0
    BY <1>1, <1>types, TopologyAddsNothing
  <2>2. ASSUME NEW c \in Copies, c[1] \notin Rejected, ready'[c] > 0 \/ wait'[c] > 0, NEW a \in 0..Tiers, a < c[2]
        PROVE  runs[<<c[1], a>>] > 0
    <3>1. c[2] \in 0..Tiers
      BY CopyParts
    <3>2. CASE ready[c] > 0 \/ wait[c] > 0
      BY <3>2, <2>2 DEF CopiesClimbed, LadderInv
    <3>3. CASE ~(ready[c] > 0 \/ wait[c] > 0)
      <4>1. c[2] > 0 /\ <<c[1], c[2] - 1>> \in Copies /\ wait[<<c[1], c[2] - 1>>] > 0
        BY <3>3, <2>1, <2>2, <3>1, <1>types
      <4>2. CASE a = c[2] - 1
        BY <4>1, <4>2, <2>2 DEF CopiesClimbed, LadderInv
      <4>3. CASE a < c[2] - 1
        BY <4>1, <4>3, <2>2 DEF CopiesClimbed, LadderInv
      <4> QED
        BY <4>2, <4>3, <2>2, <3>1
    <3> QED
      BY <3>2, <3>3
  <2>3. \A c \in Copies : wait'[c] > 0 => wait[c] > 0
    BY <2>1, <1>types
  <2>4. runs' = runs
    BY <1>1 DEF historyVars, handling
  <2> QED
    BY <2>1, <2>2, <2>3, <2>4 DEF CopiesClimbed, LadderInv
<1>2. ASSUME NEW w \in Workers, NEW c \in Copies, Receive(w, c) PROVE CopiesClimbed'
  <2>1. \A d \in Copies : ready'[d] > 0 => ready[d] > 0
    BY <1>2, <1>types, LessBag DEF Receive
  <2>2. wait' = wait /\ dlq' = dlq
    BY <1>2 DEF Receive
  <2> QED
    BY <2>1, <2>2, <1>runs, <1>types DEF CopiesClimbed, LadderInv
<1>3. ASSUME NEW w \in Workers, Reject(w) PROVE CopiesClimbed'
  <2>1. ready' = ready /\ wait' = wait /\ dlq' = dlq
    BY <1>3 DEF Reject, queueVars
  <2> QED
    BY <2>1, <1>runs, <1>types DEF CopiesClimbed, LadderInv
<1>4. ASSUME NEW w \in Workers, Claim(w) PROVE CopiesClimbed'
  <2>1. ready' = ready /\ wait' = wait /\ dlq' = dlq
    BY <1>4 DEF Claim, queueVars
  <2> QED
    BY <2>1, <1>runs, <1>types DEF CopiesClimbed, LadderInv
<1>5. ASSUME NEW w \in Workers, SkipDuplicate(w) PROVE CopiesClimbed'
  <2>1. ready' = ready /\ wait' = wait /\ dlq' = dlq
    BY <1>5 DEF SkipDuplicate, queueVars
  <2> QED
    BY <2>1, <1>runs, <1>types DEF CopiesClimbed, LadderInv
<1>6. ASSUME NEW w \in Workers, ProcessSucceeds(w) PROVE CopiesClimbed'
  <2>1. ready' = ready /\ wait' = wait /\ dlq' = dlq
    BY <1>6 DEF ProcessSucceeds, queueVars
  <2> QED
    BY <2>1, <1>runs, <1>types DEF CopiesClimbed, LadderInv
<1>7. ASSUME NEW w \in Workers, ProcessFails(w) PROVE CopiesClimbed'
  <2>1. ready' = ready /\ wait' = wait /\ dlq' = dlq
    BY <1>7 DEF ProcessFails, queueVars
  <2> QED
    BY <2>1, <1>runs, <1>types DEF CopiesClimbed, LadderInv
<1>8. ASSUME NEW w \in Workers, PublishRetry(w) PROVE CopiesClimbed'
  <2>1. /\ held[w] \in Copies /\ pc[w] = "retry" /\ held[w][1] = Msg(w)
        /\ Msg(w) \notin Rejected => /\ runs[held[w]] > 0
                                     /\ \A a \in 0..Tiers : a < held[w][2] => runs[<<Msg(w), a>>] > 0
    BY <1>8, BusyHoldsCopy DEF PublishRetry, LadderInv, HandsClimbed, Owning, Msg
  <2>2. pc[w] \in Publishing /\ (Accept(pc[w], held[w]) \/ Lose)
    BY <1>8, <2>1, ConfirmMeans DEF PublishRetry, Publishing
  <2>3. \A d \in Copies : wait'[d] > 0 => wait[d] > 0 \/ d = held[w]
    BY <2>1, <2>2, <1>types, AcceptFiles
  <2>4. \A d \in Copies : dlq'[d] > 0 => dlq[d] > 0
    BY <2>1, <2>2, <1>types, AcceptFiles
  <2>5. ready' = ready
    BY <1>8 DEF PublishRetry
  <2> QED
    BY <2>1, <2>3, <2>4, <2>5, <1>runs, <1>types DEF CopiesClimbed, LadderInv
<1>9. ASSUME NEW w \in Workers, DeadLetter(w) PROVE CopiesClimbed'
  <2>1. /\ held[w] \in Copies /\ pc[w] = "dead" /\ held[w][1] = Msg(w)
        /\ Msg(w) \notin Rejected => \A a \in 0..Tiers : runs[<<Msg(w), a>>] > 0
    <3>1. /\ held[w] \in Copies /\ pc[w] = "dead" /\ held[w][1] = Msg(w)
          /\ held[w] = <<Msg(w), held[w][2]>> /\ held[w][2] \in 0..Tiers
      BY <1>9, BusyHoldsCopy DEF DeadLetter, Msg
    <3> QED
      BY <3>1, WorkQueueAssumption DEF LadderInv, HandsClimbed, Owning, WorkQueueAssumption
  <2>2. pc[w] \in Publishing /\ (Accept(pc[w], held[w]) \/ Lose)
    BY <1>9, <2>1, ConfirmMeans DEF DeadLetter, Publishing
  <2>3. \A d \in Copies : wait'[d] > 0 => wait[d] > 0
    BY <2>1, <2>2, <1>types, AcceptFiles
  <2>4. \A d \in Copies : dlq'[d] > 0 => dlq[d] > 0 \/ d = held[w]
    BY <2>1, <2>2, <1>types, AcceptFiles
  <2>5. ready' = ready
    BY <1>9 DEF DeadLetter
  <2> QED
    BY <2>1, <2>3, <2>4, <2>5, <1>runs, <1>types DEF CopiesClimbed, LadderInv
<1>10. ASSUME NEW w \in Workers, PublishFails(w) PROVE CopiesClimbed'
  <2>1. /\ held[w] \in Copies /\ pc[w] \in Publishing /\ pc[w] # "idle" /\ held[w][1] = Msg(w)
        /\ held[w] = <<Msg(w), held[w][2]>> /\ held[w][2] \in 0..Tiers
    BY <1>10, BusyHoldsCopy DEF PublishFails, Publishing, Statuses, Msg
  <2>2. Msg(w) \notin Rejected =>
           /\ \A a \in 0..Tiers : a < held[w][2] => runs[<<Msg(w), a>>] > 0
           /\ pc[w] = "retry" => runs[held[w]] > 0
           /\ pc[w] = "dead" => \A a \in 0..Tiers : runs[<<Msg(w), a>>] > 0
    BY <2>1, WorkQueueAssumption DEF LadderInv, HandsClimbed, Owning, WorkQueueAssumption
  <2>3. Accept(pc[w], held[w]) \/ Lose
    BY <1>10, <2>1, ConfirmMeans DEF PublishFails, Publishing, Statuses
  <2>4. \A d \in Copies : wait'[d] > 0 => wait[d] > 0 \/ (d = held[w] /\ pc[w] = "retry")
    BY <2>1, <2>3, <1>types, AcceptFiles
  <2>5. \A d \in Copies : dlq'[d] > 0 => dlq[d] > 0 \/ (d = held[w] /\ pc[w] = "dead")
    BY <2>1, <2>3, <1>types, AcceptFiles
  <2>6. \A d \in Copies : ready'[d] > 0 => ready[d] > 0 \/ d = held[w]
    BY <1>10, <2>1, <1>types DEF PublishFails, More
  <2> QED
    BY <2>1, <2>2, <2>4, <2>5, <2>6, <1>runs, <1>types DEF CopiesClimbed, LadderInv
<1>11. ASSUME NEW w \in Workers, PublishFailsOffline(w) PROVE CopiesClimbed'
  <2>1. /\ held[w] \in Copies /\ pc[w] \in Publishing /\ pc[w] # "idle" /\ held[w][1] = Msg(w)
        /\ held[w] = <<Msg(w), held[w][2]>> /\ held[w][2] \in 0..Tiers
    BY <1>11, BusyHoldsCopy DEF PublishFailsOffline, Publishing, Statuses, Msg
  <2>2. Msg(w) \notin Rejected =>
           /\ \A a \in 0..Tiers : a < held[w][2] => runs[<<Msg(w), a>>] > 0
           /\ pc[w] = "retry" => runs[held[w]] > 0
           /\ pc[w] = "dead" => \A a \in 0..Tiers : runs[<<Msg(w), a>>] > 0
    BY <2>1, WorkQueueAssumption DEF LadderInv, HandsClimbed, Owning, WorkQueueAssumption
  <2>3. Accept(pc[w], held[w]) \/ Lose
    BY <1>11, <2>1, ConfirmMeans DEF PublishFailsOffline, Publishing, Statuses
  <2>4. \A d \in Copies : wait'[d] > 0 => wait[d] > 0 \/ (d = held[w] /\ pc[w] = "retry")
    BY <2>1, <2>3, <1>types, AcceptFiles
  <2>5. \A d \in Copies : dlq'[d] > 0 => dlq[d] > 0 \/ (d = held[w] /\ pc[w] = "dead")
    BY <2>1, <2>3, <1>types, AcceptFiles
  <2>6. \A d \in Copies : ready'[d] > 0 => ready[d] > 0 \/ d = held[w]
    BY <1>11, <2>1, <1>types DEF PublishFailsOffline, More
  <2> QED
    BY <2>1, <2>2, <2>4, <2>5, <2>6, <1>runs, <1>types DEF CopiesClimbed, LadderInv
<1>12. ASSUME NEW w \in Workers, Ack(w) PROVE CopiesClimbed'
  <2>1. ready' = ready /\ wait' = wait /\ dlq' = dlq
    BY <1>12 DEF Ack, queueVars
  <2> QED
    BY <2>1, <1>runs, <1>types DEF CopiesClimbed, LadderInv
<1>13. ASSUME NEW w \in Workers, AckRetried(w) PROVE CopiesClimbed'
  <2>1. ready' = ready /\ wait' = wait /\ dlq' = dlq
    BY <1>13 DEF AckRetried, queueVars
  <2> QED
    BY <2>1, <1>runs, <1>types DEF CopiesClimbed, LadderInv
<1>14. ASSUME NEW w \in Workers, AckBuried(w) PROVE CopiesClimbed'
  <2>1. ready' = ready /\ wait' = wait /\ dlq' = dlq
    BY <1>14 DEF AckBuried, queueVars
  <2> QED
    BY <2>1, <1>runs, <1>types DEF CopiesClimbed, LadderInv
<1>15. ASSUME NEW w \in Workers, emitResult(w) PROVE CopiesClimbed'
  <2>1. /\ held[w] \in Copies /\ pc[w] \in Publishing /\ pc[w] # "idle" /\ held[w][1] = Msg(w)
        /\ held[w] = <<Msg(w), held[w][2]>> /\ held[w][2] \in 0..Tiers
    BY <1>15, BusyHoldsCopy DEF emitResult, Publishing, Statuses, Msg
  <2>2. Msg(w) \notin Rejected =>
           /\ \A a \in 0..Tiers : a < held[w][2] => runs[<<Msg(w), a>>] > 0
           /\ pc[w] = "retry" => runs[held[w]] > 0
           /\ pc[w] = "dead" => \A a \in 0..Tiers : runs[<<Msg(w), a>>] > 0
    BY <2>1, WorkQueueAssumption DEF LadderInv, HandsClimbed, Owning, WorkQueueAssumption
  <2>3. Accept(pc[w], held[w]) \/ Lose
    BY <1>15, <2>1, ConfirmMeans DEF emitResult, Publishing, Statuses
  <2>4. \A d \in Copies : wait'[d] > 0 => wait[d] > 0 \/ (d = held[w] /\ pc[w] = "retry")
    BY <2>1, <2>3, <1>types, AcceptFiles
  <2>5. \A d \in Copies : dlq'[d] > 0 => dlq[d] > 0 \/ (d = held[w] /\ pc[w] = "dead")
    BY <2>1, <2>3, <1>types, AcceptFiles
  <2>6. \A d \in Copies : ready'[d] > 0 => ready[d] > 0 \/ d = held[w]
    BY <1>15, <2>1, <1>types DEF emitResult, More
  <2> QED
    BY <2>1, <2>2, <2>4, <2>5, <2>6, <1>runs, <1>types DEF CopiesClimbed, LadderInv
<1>16. ASSUME NEW w \in Workers, Reconnect(w) PROVE CopiesClimbed'
  <2>1. ready' = ready /\ wait' = wait /\ dlq' = dlq
    BY <1>16 DEF Reconnect, queueVars
  <2> QED
    BY <2>1, <1>runs, <1>types DEF CopiesClimbed, LadderInv
<1>17. ASSUME NEW w \in Workers, GuardError(w) PROVE CopiesClimbed'
  <2>1. ready' = ready /\ wait' = wait /\ dlq' = dlq
    BY <1>17 DEF GuardError, queueVars
  <2> QED
    BY <2>1, <1>runs, <1>types DEF CopiesClimbed, LadderInv
<1>18. ASSUME NEW w \in Workers, ConnectionLost(w) PROVE CopiesClimbed'
  <2>1. \A d \in Copies : ready'[d] > 0 => ready[d] > 0 \/ (pc[w] # "idle" /\ d = held[w])
    BY <1>18, RedeliverReturns, <1>types DEF ConnectionLost
  <2>2. wait' = wait /\ dlq' = dlq
    BY <1>18 DEF ConnectionLost
  <2>3. pc[w] # "idle" /\ Msg(w) \notin Rejected => \A a \in 0..Tiers : a < held[w][2] => runs[<<Msg(w), a>>] > 0
    BY DEF LadderInv, HandsClimbed
  <2> QED
    BY <2>1, <2>2, <2>3, <1>runs, <1>types DEF CopiesClimbed, LadderInv, Msg
<1>19. ASSUME NEW w \in Workers, Crash(w) PROVE CopiesClimbed'
  <2>1. \A d \in Copies : ready'[d] > 0 => ready[d] > 0 \/ (pc[w] # "idle" /\ d = held[w])
    BY <1>19, RedeliverReturns, <1>types DEF Crash
  <2>2. wait' = wait /\ dlq' = dlq
    BY <1>19 DEF Crash
  <2>3. pc[w] # "idle" /\ Msg(w) \notin Rejected => \A a \in 0..Tiers : a < held[w][2] => runs[<<Msg(w), a>>] > 0
    BY DEF LadderInv, HandsClimbed
  <2> QED
    BY <2>1, <2>2, <2>3, <1>runs, <1>types DEF CopiesClimbed, LadderInv, Msg
<1>20. CASE UNCHANGED vars
  <2>1. ready' = ready /\ wait' = wait /\ dlq' = dlq
    BY <1>20 DEF vars, queueVars
  <2> QED
    BY <2>1, <1>runs, <1>types DEF CopiesClimbed, LadderInv
<1> QED
  BY <1>1, <1>2, <1>3, <1>4, <1>5, <1>6, <1>7, <1>8, <1>9, <1>10, <1>11, <1>12,
     <1>13, <1>14, <1>15, <1>16, <1>17, <1>18, <1>19, <1>20
     DEF Next, Handle, Break

\* A worker's copy comes from the queue, and is handed on only after a run.
LEMMA HandsClimbedStep == TypeOK /\ LadderInv /\ [Next]_vars => HandsClimbed'
<1> SUFFICES ASSUME TypeOK, LadderInv, [Next]_vars PROVE HandsClimbed'
  OBVIOUS
<1> USE DEF TypeOK, LadderInv, HandsClimbed, Owning, Msg, Goto, Finish
<1>runs. \A c \in Copies : runs[c] > 0 => runs'[c] > 0
  BY RunsGrow
<1>types. \A w \in Workers : pc[w] # "idle" =>
              held[w] \in Copies /\ \A a \in 0..Tiers : <<held[w][1], a>> \in Copies
  BY BusyHoldsCopy, CopyParts DEF Copies
<1>1. ASSUME Topology, UNCHANGED <<guard, workerVars, historyVars>> PROVE HandsClimbed'
  BY <1>1, <1>runs, <1>types DEF workerVars
<1>2. ASSUME NEW w \in Workers, NEW c \in Copies, Receive(w, c) PROVE HandsClimbed'
  <2>1. c[1] \notin Rejected => \A a \in 0..Tiers : a < c[2] => runs'[<<c[1], a>>] > 0
    <3>1. ready[c] > 0 /\ \A a \in 0..Tiers : <<c[1], a>> \in Copies
      BY <1>2, CopyParts DEF Receive, Copies
    <3> QED
      BY <3>1, <1>runs DEF CopiesClimbed
  <2>2. /\ pc' = [pc EXCEPT ![w] = "begin"] /\ held' = [held EXCEPT ![w] = c]
    BY <1>2 DEF Receive
  <2> QED
    BY <2>1, <2>2, <1>runs, <1>types
<1>3. ASSUME NEW w \in Workers, Reject(w) PROVE HandsClimbed'
  BY <1>3, <1>runs, <1>types DEF Reject, Publishing, Statuses
<1>4. ASSUME NEW w \in Workers, Claim(w) PROVE HandsClimbed'
  <2>1. held[w] \in Copies /\ held' = held /\ runs'[held[w]] > 0
    <3>1. held[w] \in Copies
      BY <1>4, BusyHoldsCopy DEF Claim
    <3> QED
      BY <1>4, <3>1, MoreBag DEF Claim
  <2>2. pc' = [pc EXCEPT ![w] = "process"] /\ pc[w] # "idle"
    BY <1>4 DEF Claim
  <2> QED
    BY <2>1, <2>2, <1>runs, <1>types
<1>5. ASSUME NEW w \in Workers, SkipDuplicate(w) PROVE HandsClimbed'
  BY <1>5, <1>runs, <1>types DEF SkipDuplicate, Publishing, Statuses
<1>6. ASSUME NEW w \in Workers, ProcessSucceeds(w) PROVE HandsClimbed'
  BY <1>6, <1>runs, <1>types DEF ProcessSucceeds, Publishing, Statuses
<1>7. ASSUME NEW w \in Workers, ProcessFails(w) PROVE HandsClimbed'
  <2>1. held[w][2] \in 0..Tiers /\ Attempt(held[w]) = held[w][2]
    BY <1>7, BusyHoldsCopy DEF ProcessFails, Attempt
  <2>2. /\ pc[w] = "process" /\ held' = held
        /\ pc' = [pc EXCEPT ![w] = IF held[w][2] < Tiers THEN "retry" ELSE "dead"]
    BY <1>7, <2>1 DEF ProcessFails, NextRetryTier
  <2>3. /\ pc'[w] = "retry" \/ (pc'[w] = "dead" /\ held[w][2] = Tiers)
        /\ \A v \in Workers : v # w => pc'[v] = pc[v]
    BY <2>1, <2>2, WorkQueueAssumption DEF WorkQueueAssumption
  <2> QED
    BY <2>2, <2>3, <1>runs, <1>types
<1>8. ASSUME NEW w \in Workers, PublishRetry(w) PROVE HandsClimbed'
  BY <1>8, <1>runs, <1>types DEF PublishRetry, Publishing, Statuses
<1>9. ASSUME NEW w \in Workers, DeadLetter(w) PROVE HandsClimbed'
  BY <1>9, <1>runs, <1>types DEF DeadLetter, Publishing, Statuses
<1>10. ASSUME NEW w \in Workers, PublishFails(w) PROVE HandsClimbed'
  BY <1>10, <1>runs, <1>types DEF PublishFails, Publishing, Statuses
<1>11. ASSUME NEW w \in Workers, PublishFailsOffline(w) PROVE HandsClimbed'
  BY <1>11, <1>runs, <1>types DEF PublishFailsOffline, Publishing, Statuses
<1>12. ASSUME NEW w \in Workers, Ack(w) PROVE HandsClimbed'
  BY <1>12, <1>runs, <1>types DEF Ack, Publishing, Statuses
<1>13. ASSUME NEW w \in Workers, AckRetried(w) PROVE HandsClimbed'
  BY <1>13, <1>runs, <1>types DEF AckRetried, Publishing, Statuses
<1>14. ASSUME NEW w \in Workers, AckBuried(w) PROVE HandsClimbed'
  BY <1>14, <1>runs, <1>types DEF AckBuried, Publishing, Statuses
<1>15. ASSUME NEW w \in Workers, emitResult(w) PROVE HandsClimbed'
  BY <1>15, <1>runs, <1>types DEF emitResult, Publishing, Statuses
<1>16. ASSUME NEW w \in Workers, Reconnect(w) PROVE HandsClimbed'
  BY <1>16, <1>runs, <1>types DEF Reconnect, Publishing, Statuses
<1>17. ASSUME NEW w \in Workers, GuardError(w) PROVE HandsClimbed'
  <2>1. held[w] \in Copies /\ held' = held /\ runs'[held[w]] > 0
    <3>1. held[w] \in Copies
      BY <1>17, BusyHoldsCopy DEF GuardError
    <3> QED
      BY <1>17, <3>1, MoreBag DEF GuardError
  <2>2. pc' = [pc EXCEPT ![w] = "process"] /\ pc[w] # "idle"
    BY <1>17 DEF GuardError
  <2> QED
    BY <2>1, <2>2, <1>runs, <1>types
<1>18. ASSUME NEW w \in Workers, ConnectionLost(w) PROVE HandsClimbed'
  BY <1>18, <1>runs, <1>types DEF ConnectionLost, Publishing, Statuses
<1>19. ASSUME NEW w \in Workers, Crash(w) PROVE HandsClimbed'
  BY <1>19, <1>runs, <1>types DEF Crash, Publishing, Statuses
<1>20. CASE UNCHANGED vars
  BY <1>20, <1>runs, <1>types DEF vars, workerVars
<1> QED
  BY <1>1, <1>2, <1>3, <1>4, <1>5, <1>6, <1>7, <1>8, <1>9, <1>10, <1>11, <1>12,
     <1>13, <1>14, <1>15, <1>16, <1>17, <1>18, <1>19, <1>20
     DEF Next, Handle, Break
-----------------------------------------------------------------------------
(* What stays, what a failed result means, and lost connections *)

\* What is buried, parked, done or cut off stays so.
LEMMA HistoryGrows ==
    ASSUME TypeOK, [Next]_vars
    PROVE  /\ \A c \in Copies : (dlq[c] > 0 => dlq'[c] > 0) /\ (expired[c] > 0 => expired'[c] > 0)
           /\ done \subseteq done' /\ severed \subseteq severed'
           /\ requeued \subseteq requeued' /\ misled \subseteq misled'
<1> DEFINE Goal ==
       /\ \A c \in Copies : (dlq[c] > 0 => dlq'[c] > 0) /\ (expired[c] > 0 => expired'[c] > 0)
       /\ done \subseteq done' /\ severed \subseteq severed'
       /\ requeued \subseteq requeued' /\ misled \subseteq misled'
<1>0. QueueTypeOK /\ \A c \in Copies : dlq[c] \in Nat /\ expired[c] \in Nat
  BY QueuesAreBags DEF TypeOK
<1>bags. \A c \in Copies : dlq'[c] \in Nat /\ expired'[c] \in Nat
  <2>1. QueueTypeOK'
    BY TypeStep DEF TypeOK
  <2> QED
    BY <2>1 DEF QueueTypeOK
<1>1. ASSUME Topology, UNCHANGED <<guard, workerVars, historyVars>> PROVE Goal
  <2>1. dlq' = dlq /\ \A c \in Copies : expired[c] > 0 => expired'[c] > 0
    BY <1>1, <1>0, TopologyAddsNothing, TopologyKeeps
  <2> QED
    BY <1>1, <2>1 DEF historyVars, handling
<1>2. ASSUME NEW w \in Workers, NEW c \in Copies, Receive(w, c) PROVE Goal
  BY <1>2 DEF Receive, historyVars, handling
<1>3. ASSUME NEW w \in Workers, Reject(w) PROVE Goal
  BY <1>3 DEF Reject, queueVars, historyVars, handling, Sever
<1>4. ASSUME NEW w \in Workers, Claim(w) PROVE Goal
  BY <1>4 DEF Claim, queueVars, historyVars, handling, Sever
<1>5. ASSUME NEW w \in Workers, SkipDuplicate(w) PROVE Goal
  BY <1>5 DEF SkipDuplicate, queueVars, historyVars, handling, Sever
<1>6. ASSUME NEW w \in Workers, ProcessSucceeds(w) PROVE Goal
  BY <1>6 DEF ProcessSucceeds, queueVars, historyVars, handling, Sever
<1>7. ASSUME NEW w \in Workers, ProcessFails(w) PROVE Goal
  BY <1>7 DEF ProcessFails, queueVars, historyVars, handling, Sever
<1>8. ASSUME NEW w \in Workers, PublishRetry(w) PROVE Goal
  <2>1. pc[w] \in Publishing /\ held[w] \in Copies
    BY <1>8, BusyHoldsCopy DEF PublishRetry, Publishing, Statuses
  <2>2. (Accept(pc[w], held[w]) \/ Lose) /\ misled \subseteq misled'
    BY <1>8, <2>1, ConfirmMeans DEF PublishRetry, historyVars
  <2>3. \A c \in Copies : dlq'[c] >= dlq[c]
    BY <1>0, <2>1, <2>2, AcceptFiles
  <2>4. expired' = expired /\ done' = done /\ severed' = severed /\ requeued \subseteq requeued'
    BY <1>8 DEF PublishRetry, historyVars, handling
  <2> QED
    BY <1>0, <1>bags, <2>2, <2>3, <2>4
<1>9. ASSUME NEW w \in Workers, DeadLetter(w) PROVE Goal
  <2>1. pc[w] \in Publishing /\ held[w] \in Copies
    BY <1>9, BusyHoldsCopy DEF DeadLetter, Publishing, Statuses
  <2>2. (Accept(pc[w], held[w]) \/ Lose) /\ misled \subseteq misled'
    BY <1>9, <2>1, ConfirmMeans DEF DeadLetter, historyVars
  <2>3. \A c \in Copies : dlq'[c] >= dlq[c]
    BY <1>0, <2>1, <2>2, AcceptFiles
  <2>4. expired' = expired /\ done' = done /\ severed' = severed /\ requeued \subseteq requeued'
    BY <1>9 DEF DeadLetter, historyVars, handling
  <2> QED
    BY <1>0, <1>bags, <2>2, <2>3, <2>4
<1>10. ASSUME NEW w \in Workers, PublishFails(w) PROVE Goal
  <2>1. pc[w] \in Publishing /\ held[w] \in Copies
    BY <1>10, BusyHoldsCopy DEF PublishFails, Publishing, Statuses
  <2>2. (Accept(pc[w], held[w]) \/ Lose) /\ misled \subseteq misled'
    BY <1>10, <2>1, ConfirmMeans DEF PublishFails, historyVars
  <2>3. \A c \in Copies : dlq'[c] >= dlq[c]
    BY <1>0, <2>1, <2>2, AcceptFiles
  <2>4. expired' = expired /\ done' = done /\ severed' = severed /\ requeued \subseteq requeued'
    BY <1>10 DEF PublishFails, historyVars, handling
  <2> QED
    BY <1>0, <1>bags, <2>2, <2>3, <2>4
<1>11. ASSUME NEW w \in Workers, PublishFailsOffline(w) PROVE Goal
  <2>1. pc[w] \in Publishing /\ held[w] \in Copies
    BY <1>11, BusyHoldsCopy DEF PublishFailsOffline, Publishing, Statuses
  <2>2. (Accept(pc[w], held[w]) \/ Lose) /\ misled \subseteq misled'
    BY <1>11, <2>1, ConfirmMeans DEF PublishFailsOffline, historyVars
  <2>3. \A c \in Copies : dlq'[c] >= dlq[c]
    BY <1>0, <2>1, <2>2, AcceptFiles
  <2>4. expired' = expired /\ done' = done /\ severed' = severed /\ requeued \subseteq requeued'
    BY <1>11 DEF PublishFailsOffline, historyVars, handling
  <2> QED
    BY <1>0, <1>bags, <2>2, <2>3, <2>4
<1>12. ASSUME NEW w \in Workers, Ack(w) PROVE Goal
  BY <1>12 DEF Ack, queueVars, historyVars, handling, Sever
<1>13. ASSUME NEW w \in Workers, AckRetried(w) PROVE Goal
  BY <1>13 DEF AckRetried, queueVars, historyVars, handling, Sever
<1>14. ASSUME NEW w \in Workers, AckBuried(w) PROVE Goal
  BY <1>14 DEF AckBuried, queueVars, historyVars, handling, Sever
<1>15. ASSUME NEW w \in Workers, emitResult(w) PROVE Goal
  <2>1. pc[w] \in Publishing /\ held[w] \in Copies
    BY <1>15, BusyHoldsCopy DEF emitResult, Publishing, Statuses
  <2>2. (Accept(pc[w], held[w]) \/ Lose) /\ misled \subseteq misled'
    BY <1>15, <2>1, ConfirmMeans DEF emitResult, historyVars
  <2>3. \A c \in Copies : dlq'[c] >= dlq[c]
    BY <1>0, <2>1, <2>2, AcceptFiles
  <2>4. expired' = expired /\ done' = done /\ severed' = severed /\ requeued \subseteq requeued'
    BY <1>15 DEF emitResult, historyVars, handling
  <2> QED
    BY <1>0, <1>bags, <2>2, <2>3, <2>4
<1>16. ASSUME NEW w \in Workers, Reconnect(w) PROVE Goal
  BY <1>16 DEF Reconnect, queueVars, historyVars, handling, Sever
<1>17. ASSUME NEW w \in Workers, GuardError(w) PROVE Goal
  BY <1>17 DEF GuardError, queueVars, historyVars, handling, Sever
<1>18. ASSUME NEW w \in Workers, ConnectionLost(w) PROVE Goal
  BY <1>18 DEF ConnectionLost, queueVars, historyVars, handling, Sever
<1>19. ASSUME NEW w \in Workers, Crash(w) PROVE Goal
  BY <1>19 DEF Crash, queueVars, historyVars, handling, Sever
<1>20. CASE UNCHANGED vars
  BY <1>20 DEF vars, queueVars, historyVars, handling
<1> QED
  BY <1>1, <1>2, <1>3, <1>4, <1>5, <1>6, <1>7, <1>8, <1>9, <1>10, <1>11, <1>12,
     <1>13, <1>14, <1>15, <1>16, <1>17, <1>18, <1>19, <1>20
     DEF Next, Handle, Break

\* What is over for a message stays over.
LEMMA OverStays ==
    ASSUME TypeOK, [Next]_vars, NEW m \in Msgs
    PROVE  /\ Buried(m) => Buried(m)'
           /\ Over(m) => Over(m)'
  <1>1. \A a \in 0..Tiers : <<m, a>> \in Copies
    BY DEF Copies
  <1>2. Buried(m) => Buried(m)'
    BY <1>1, HistoryGrows DEF Buried
  <1>3. Parked(m) => Parked(m)'
    BY <1>1, HistoryGrows DEF Parked
  <1> QED
    BY <1>2, <1>3, HistoryGrows DEF Over

\* A copy in the dead-letter queue buries its message.
LEMMA CopyBuries ==
    ASSUME NEW c \in Copies, dlq[c] > 0
    PROVE  Buried(c[1])
  BY CopyParts DEF Buried

\* A worker gets to the failed result past the dead letter, or past a stray confirm.
LEMMA FailedStep == TypeOK /\ FailedInv /\ [Next]_vars => FailedInv'
<1> SUFFICES ASSUME TypeOK, FailedInv, [Next]_vars PROVE FailedInv'
  OBVIOUS
<1> USE DEF TypeOK, FailedInv, FailedIsBuried, Reported, Goto, Finish, Msg
<1>stays. \A m \in Msgs : (Buried(m) => Buried(m)') /\ (m \in misled => m \in misled')
  BY OverStays, HistoryGrows
<1>hands. \A w \in Workers : pc[w] # "idle" => held[w] \in Copies /\ Msg(w) \in Msgs
  BY BusyHoldsCopy
<1>1. ASSUME Topology, UNCHANGED <<guard, workerVars, historyVars>> PROVE FailedInv'
  <2>1. results' = results
    BY <1>1, TopologyAddsNothing
  <2> QED
    BY <1>1, <2>1, <1>stays, <1>hands DEF workerVars
<1>2. ASSUME NEW w \in Workers, NEW c \in Copies, Receive(w, c) PROVE FailedInv'
  BY <1>2, <1>stays, <1>hands DEF Receive
<1>3. ASSUME NEW w \in Workers, Reject(w) PROVE FailedInv'
  BY <1>3, <1>stays, <1>hands DEF Reject, queueVars, Publishing, Statuses
<1>4. ASSUME NEW w \in Workers, Claim(w) PROVE FailedInv'
  BY <1>4, <1>stays, <1>hands DEF Claim, queueVars, Publishing, Statuses
<1>5. ASSUME NEW w \in Workers, SkipDuplicate(w) PROVE FailedInv'
  BY <1>5, <1>stays, <1>hands DEF SkipDuplicate, queueVars, Publishing, Statuses
<1>6. ASSUME NEW w \in Workers, ProcessSucceeds(w) PROVE FailedInv'
  BY <1>6, <1>stays, <1>hands DEF ProcessSucceeds, queueVars, Publishing, Statuses
<1>7. ASSUME NEW w \in Workers, ProcessFails(w) PROVE FailedInv'
  BY <1>7, <1>stays, <1>hands DEF ProcessFails, queueVars, Publishing, Statuses
<1>8. ASSUME NEW w \in Workers, PublishRetry(w) PROVE FailedInv'
  <2>1. pc[w] \in Publishing /\ held[w] \in Copies /\ QueueTypeOK /\ pc[w] # "idle"
    BY <1>8, BusyHoldsCopy DEF PublishRetry, Publishing, Statuses
  <2>2. Accept(pc[w], held[w]) \/ Lose
    BY <1>8, <2>1, ConfirmMeans DEF PublishRetry
  <2>3. \A m \in Msgs : <<m, "failed">> \in results' => <<m, "failed">> \in results \/ (m = Msg(w) /\ pc[w] = "failed")
    BY <2>1, <2>2, AcceptFiles DEF Statuses
  <2>4. \A m \in Msgs : <<m, "failed">> \in results' => Buried(m)' \/ m \in misled'
    BY <2>1, <2>3, <1>stays, <1>hands
  <2> QED
    BY <1>8, <2>1, <2>4, <1>stays, <1>hands DEF PublishRetry
<1>9. ASSUME NEW w \in Workers, DeadLetter(w) PROVE FailedInv'
  <2>1. pc[w] \in Publishing /\ held[w] \in Copies /\ QueueTypeOK /\ pc[w] # "idle"
    BY <1>9, BusyHoldsCopy DEF DeadLetter, Publishing, Statuses
  <2>2. Accept(pc[w], held[w]) \/ Lose
    BY <1>9, <2>1, ConfirmMeans DEF DeadLetter
  <2>3. \A m \in Msgs : <<m, "failed">> \in results' => <<m, "failed">> \in results \/ (m = Msg(w) /\ pc[w] = "failed")
    BY <2>1, <2>2, AcceptFiles DEF Statuses
  <2>4. \A m \in Msgs : <<m, "failed">> \in results' => Buried(m)' \/ m \in misled'
    BY <2>1, <2>3, <1>stays, <1>hands
  <2>5. Accept(pc[w], held[w]) \/ Msg(w) \in misled'
    BY <1>9, <2>1, ConfirmMeans DEF DeadLetter, Statuses
  <2>6. dlq'[held[w]] > 0 \/ Msg(w) \in misled'
    BY <1>9, <2>1, <2>5, AcceptFiles DEF DeadLetter
  <2>7. Buried(Msg(w))' \/ Msg(w) \in misled'
    BY <1>9, <2>1, <2>6, CopyParts DEF DeadLetter, Buried
  <2> QED
    BY <1>9, <2>1, <2>4, <2>7, <1>stays, <1>hands DEF DeadLetter
<1>10. ASSUME NEW w \in Workers, PublishFails(w) PROVE FailedInv'
  <2>1. pc[w] \in Publishing /\ held[w] \in Copies /\ QueueTypeOK /\ pc[w] # "idle"
    BY <1>10, BusyHoldsCopy DEF PublishFails, Publishing, Statuses
  <2>2. Accept(pc[w], held[w]) \/ Lose
    BY <1>10, <2>1, ConfirmMeans DEF PublishFails
  <2>3. \A m \in Msgs : <<m, "failed">> \in results' => <<m, "failed">> \in results \/ (m = Msg(w) /\ pc[w] = "failed")
    BY <2>1, <2>2, AcceptFiles DEF Statuses
  <2>4. \A m \in Msgs : <<m, "failed">> \in results' => Buried(m)' \/ m \in misled'
    BY <2>1, <2>3, <1>stays, <1>hands
  <2> QED
    BY <1>10, <2>1, <2>4, <1>stays, <1>hands DEF PublishFails
<1>11. ASSUME NEW w \in Workers, PublishFailsOffline(w) PROVE FailedInv'
  <2>1. pc[w] \in Publishing /\ held[w] \in Copies /\ QueueTypeOK /\ pc[w] # "idle"
    BY <1>11, BusyHoldsCopy DEF PublishFailsOffline, Publishing, Statuses
  <2>2. Accept(pc[w], held[w]) \/ Lose
    BY <1>11, <2>1, ConfirmMeans DEF PublishFailsOffline
  <2>3. \A m \in Msgs : <<m, "failed">> \in results' => <<m, "failed">> \in results \/ (m = Msg(w) /\ pc[w] = "failed")
    BY <2>1, <2>2, AcceptFiles DEF Statuses
  <2>4. \A m \in Msgs : <<m, "failed">> \in results' => Buried(m)' \/ m \in misled'
    BY <2>1, <2>3, <1>stays, <1>hands
  <2> QED
    BY <1>11, <2>1, <2>4, <1>stays, <1>hands DEF PublishFailsOffline
<1>12. ASSUME NEW w \in Workers, Ack(w) PROVE FailedInv'
  BY <1>12, <1>stays, <1>hands DEF Ack, queueVars, Publishing, Statuses
<1>13. ASSUME NEW w \in Workers, AckRetried(w) PROVE FailedInv'
  BY <1>13, <1>stays, <1>hands DEF AckRetried, queueVars, Publishing, Statuses
<1>14. ASSUME NEW w \in Workers, AckBuried(w) PROVE FailedInv'
  BY <1>14, <1>stays, <1>hands DEF AckBuried, queueVars, Publishing, Statuses
<1>15. ASSUME NEW w \in Workers, emitResult(w) PROVE FailedInv'
  <2>1. pc[w] \in Publishing /\ held[w] \in Copies /\ QueueTypeOK /\ pc[w] # "idle"
    BY <1>15, BusyHoldsCopy DEF emitResult, Publishing, Statuses
  <2>2. Accept(pc[w], held[w]) \/ Lose
    BY <1>15, <2>1, ConfirmMeans DEF emitResult
  <2>3. \A m \in Msgs : <<m, "failed">> \in results' => <<m, "failed">> \in results \/ (m = Msg(w) /\ pc[w] = "failed")
    BY <2>1, <2>2, AcceptFiles DEF Statuses
  <2>4. \A m \in Msgs : <<m, "failed">> \in results' => Buried(m)' \/ m \in misled'
    BY <2>1, <2>3, <1>stays, <1>hands
  <2> QED
    BY <1>15, <2>1, <2>4, <1>stays, <1>hands DEF emitResult
<1>16. ASSUME NEW w \in Workers, Reconnect(w) PROVE FailedInv'
  BY <1>16, <1>stays, <1>hands DEF Reconnect, queueVars, Publishing, Statuses
<1>17. ASSUME NEW w \in Workers, GuardError(w) PROVE FailedInv'
  BY <1>17, <1>stays, <1>hands DEF GuardError, queueVars, Publishing, Statuses
<1>18. ASSUME NEW w \in Workers, ConnectionLost(w) PROVE FailedInv'
  BY <1>18, <1>stays, <1>hands DEF ConnectionLost, queueVars, Publishing, Statuses
<1>19. ASSUME NEW w \in Workers, Crash(w) PROVE FailedInv'
  BY <1>19, <1>stays, <1>hands DEF Crash, queueVars, Publishing, Statuses
<1>20. CASE UNCHANGED vars
  BY <1>20, <1>stays, <1>hands DEF vars, queueVars, workerVars
<1> QED
  BY <1>1, <1>2, <1>3, <1>4, <1>5, <1>6, <1>7, <1>8, <1>9, <1>10, <1>11, <1>12,
     <1>13, <1>14, <1>15, <1>16, <1>17, <1>18, <1>19, <1>20
     DEF Next, Handle, Break

\* A connection lost before the hand-over cuts the message off.
LEMMA OfflineStep == TypeOK /\ OfflineInv /\ [Next]_vars => OfflineInv'
<1> SUFFICES ASSUME TypeOK, OfflineInv, [Next]_vars PROVE OfflineInv'
  OBVIOUS
<1> USE DEF TypeOK, OfflineInv, Owning, Goto, Finish, Msg
<1>stays. severed \subseteq severed'
  BY HistoryGrows
<1>1. ASSUME Topology, UNCHANGED <<guard, workerVars, historyVars>> PROVE OfflineInv'
  BY <1>1, <1>stays DEF workerVars
<1>2. ASSUME NEW w \in Workers, NEW c \in Copies, Receive(w, c) PROVE OfflineInv'
  BY <1>2, <1>stays DEF Receive
<1>3. ASSUME NEW w \in Workers, Reject(w) PROVE OfflineInv'
  BY <1>3, <1>stays DEF Reject, Publishing, Statuses, publishConfirmed, historyVars, handling
<1>4. ASSUME NEW w \in Workers, Claim(w) PROVE OfflineInv'
  BY <1>4, <1>stays DEF Claim, Publishing, Statuses, publishConfirmed, historyVars, handling
<1>5. ASSUME NEW w \in Workers, SkipDuplicate(w) PROVE OfflineInv'
  BY <1>5, <1>stays DEF SkipDuplicate, Publishing, Statuses, publishConfirmed, historyVars, handling
<1>6. ASSUME NEW w \in Workers, ProcessSucceeds(w) PROVE OfflineInv'
  BY <1>6, <1>stays DEF ProcessSucceeds, Publishing, Statuses, publishConfirmed, historyVars, handling
<1>7. ASSUME NEW w \in Workers, ProcessFails(w) PROVE OfflineInv'
  BY <1>7, <1>stays DEF ProcessFails, Publishing, Statuses, publishConfirmed, historyVars, handling
<1>8. ASSUME NEW w \in Workers, PublishRetry(w) PROVE OfflineInv'
  BY <1>8, <1>stays DEF PublishRetry, Publishing, Statuses, publishConfirmed, historyVars, handling
<1>9. ASSUME NEW w \in Workers, DeadLetter(w) PROVE OfflineInv'
  BY <1>9, <1>stays DEF DeadLetter, Publishing, Statuses, publishConfirmed, historyVars, handling
<1>10. ASSUME NEW w \in Workers, PublishFails(w) PROVE OfflineInv'
  BY <1>10, <1>stays DEF PublishFails, Publishing, Statuses, publishConfirmed, historyVars, handling
<1>11. ASSUME NEW w \in Workers, PublishFailsOffline(w) PROVE OfflineInv'
  BY <1>11, <1>stays DEF PublishFailsOffline, Publishing, Statuses, publishConfirmed, historyVars, handling
<1>12. ASSUME NEW w \in Workers, Ack(w) PROVE OfflineInv'
  BY <1>12, <1>stays DEF Ack, Publishing, Statuses, publishConfirmed, historyVars, handling
<1>13. ASSUME NEW w \in Workers, AckRetried(w) PROVE OfflineInv'
  BY <1>13, <1>stays DEF AckRetried, Publishing, Statuses, publishConfirmed, historyVars, handling
<1>14. ASSUME NEW w \in Workers, AckBuried(w) PROVE OfflineInv'
  BY <1>14, <1>stays DEF AckBuried, Publishing, Statuses, publishConfirmed, historyVars, handling
<1>15. ASSUME NEW w \in Workers, emitResult(w) PROVE OfflineInv'
  BY <1>15, <1>stays DEF emitResult, Publishing, Statuses, publishConfirmed, historyVars, handling
<1>16. ASSUME NEW w \in Workers, Reconnect(w) PROVE OfflineInv'
  BY <1>16, <1>stays DEF Reconnect, Publishing, Statuses, publishConfirmed, historyVars, handling
<1>17. ASSUME NEW w \in Workers, GuardError(w) PROVE OfflineInv'
  BY <1>17, <1>stays DEF GuardError, Publishing, Statuses, publishConfirmed, historyVars, handling
<1>18. ASSUME NEW w \in Workers, ConnectionLost(w) PROVE OfflineInv'
  <2>1. severed' = IF pc[w] \in {"begin", "process", "retry", "dead"} THEN severed \cup ({Msg(w)} \ Rejected) ELSE severed
    BY <1>18 DEF ConnectionLost, Sever
  <2>2. pc' = pc /\ held' = held /\ live' = [live EXCEPT ![w] = FALSE]
    BY <1>18 DEF ConnectionLost
  <2> QED
    BY <2>1, <2>2, <1>stays
<1>19. ASSUME NEW w \in Workers, Crash(w) PROVE OfflineInv'
  BY <1>19, <1>stays DEF Crash, Publishing, Statuses, publishConfirmed, historyVars, handling
<1>20. CASE UNCHANGED vars
  BY <1>20, <1>stays DEF vars, workerVars
<1> QED
  BY <1>1, <1>2, <1>3, <1>4, <1>5, <1>6, <1>7, <1>8, <1>9, <1>10, <1>11, <1>12,
     <1>13, <1>14, <1>15, <1>16, <1>17, <1>18, <1>19, <1>20
     DEF Next, Handle, Break
-----------------------------------------------------------------------------
(* Nothing is lost on the way *)

\* The highest attempt run is the old one, or the one run now.
LEMMA TopStep == TypeOK /\ TopInv /\ [Next]_vars => TopInv'
<1> SUFFICES ASSUME TypeOK, TopInv, [Next]_vars PROVE TopInv'
  OBVIOUS
<1>1. CASE runs' = runs
  BY <1>1 DEF TopInv
<1>2. ASSUME NEW b \in Copies, runs' = More(runs, b) PROVE TopInv'
  <2>1. /\ \A c \in Copies : runs[c] \in Nat /\ c[2] \in Nat
        /\ \A c \in Copies : runs'[c] = IF c = b THEN runs[c] + 1 ELSE runs[c]
    BY <1>2, CopyParts DEF TypeOK, More
  <2> SUFFICES ASSUME NEW c \in Copies, runs'[c] > 0
               PROVE  \E t \in Copies :
                          /\ t[1] = c[1] /\ runs'[t] > 0
                          /\ \A d \in Copies : d[1] = c[1] /\ runs'[d] > 0 => d[2] <= t[2]
    BY DEF TopInv
  <2>2. CASE \E e \in Copies : e[1] = c[1] /\ runs[e] > 0
    <3>1. PICK t \in Copies : /\ t[1] = c[1] /\ runs[t] > 0
                              /\ \A d \in Copies : d[1] = c[1] /\ runs[d] > 0 => d[2] <= t[2]
      BY <2>2 DEF TopInv
    <3>2. CASE b[1] = c[1] /\ b[2] > t[2]
      BY <2>1, <3>1, <3>2
    <3>3. CASE ~(b[1] = c[1] /\ b[2] > t[2])
      BY <2>1, <3>1, <3>3
    <3> QED
      BY <3>2, <3>3
  <2>3. CASE ~\E e \in Copies : e[1] = c[1] /\ runs[e] > 0
    BY <2>1, <2>3
  <2> QED
    BY <2>2, <2>3
<1> QED
  BY <1>1, <1>2, RunsStep

\* A copy yet to be run stays so until it is run, rejected or over.
LEMMA PendingStep ==
    ASSUME TypeOK, GuardInv, NEW b \in Copies, Pending(b), [Next]_vars
    PROVE  \/ Pending(b)' \/ Over(b[1])'
           \/ IF b[1] \in Rejected THEN Owned(b)' ELSE runs'[b] > 0
<1> DEFINE Goal ==
       \/ Pending(b)' \/ Over(b[1])'
       \/ IF b[1] \in Rejected THEN Owned(b)' ELSE runs'[b] > 0
<1> USE DEF Goal, Pending, Goto, Finish, Msg
<1>types. /\ QueueTypeOK /\ ready \in [Copies -> Nat]
          /\ \A c \in Copies : ready[c] \in Nat /\ ready'[c] \in Nat /\ runs[c] \in Nat
  <2>1. QueueTypeOK /\ QueueTypeOK'
    BY TypeStep DEF TypeOK
  <2>2. \A c \in Copies : ready'[c] \in Nat
    BY <2>1 DEF QueueTypeOK
  <2> QED
    BY <2>1, <2>2, QueuesAreBags DEF TypeOK
<1>b. b[1] \in Msgs /\ b[2] \in 0..Tiers /\ b = <<b[1], b[2]>>
  BY CopyParts
<1>1. ASSUME Topology, UNCHANGED <<guard, workerVars, historyVars>> PROVE Goal
  <2>1. ready[b] > 0 => ready'[b] > 0 \/ expired'[b] > 0
    BY <1>1, <1>types, TopologyKeeps
  <2>2. expired'[b] > 0 => Over(b[1])'
    BY <1>b DEF Over, Parked
  <2> QED
    BY <1>1, <2>1, <2>2 DEF workerVars
<1>2. ASSUME NEW w \in Workers, NEW c \in Copies, Receive(w, c) PROVE Goal
  <2>1. ready[b] > 0 /\ b # c => ready'[b] > 0
    BY <1>2, <1>types, LessBag DEF Receive
  <2>2. b = c => held'[w] = b /\ pc'[w] = "begin" /\ live'[w]
    BY <1>2 DEF Receive, TypeOK
  <2>3. \A v \in Workers : held[v] = b /\ pc[v] = "begin" /\ live[v] => held'[v] = b /\ pc'[v] = "begin" /\ live'[v]
    BY <1>2 DEF Receive, TypeOK
  <2> QED
    BY <2>1, <2>2, <2>3
<1>3. ASSUME NEW w \in Workers, Reject(w) PROVE Goal
  <2>1. ready' = ready /\ live' = live /\ held' = held /\ pc' = [pc EXCEPT ![w] = "dead"]
    BY <1>3 DEF Reject, queueVars
  <2>2. held[w] = b /\ live[w] => b[1] \in Rejected /\ Owned(b)'
    BY <1>3, <2>1 DEF Reject, Owned, Owning, TypeOK
  <2> QED
    BY <2>1, <2>2 DEF TypeOK
<1>4. ASSUME NEW w \in Workers, Claim(w) PROVE Goal
  <2>1. ready' = ready /\ live' = live /\ held' = held /\ pc' = [pc EXCEPT ![w] = "process"]
    BY <1>4 DEF Claim, queueVars
  <2>2. held[w] = b => b[1] \notin Rejected /\ runs'[b] > 0
    BY <1>4, <1>types, MoreBag DEF Claim, TypeOK
  <2> QED
    BY <2>1, <2>2 DEF TypeOK
<1>5. ASSUME NEW w \in Workers, SkipDuplicate(w) PROVE Goal
  <2>1. ready' = ready /\ live' = live /\ held' = held /\ pc' = [pc EXCEPT ![w] = "ack"] /\ runs' = runs
    BY <1>5 DEF SkipDuplicate, queueVars, historyVars, handling
  <2>2. held[w] = b => b[1] \notin Rejected /\ runs'[b] > 0
    BY <1>5, <2>1 DEF SkipDuplicate, GuardInv
  <2> QED
    BY <2>1, <2>2 DEF TypeOK
<1>6. ASSUME NEW w \in Workers, ProcessSucceeds(w) PROVE Goal
  <2>1. ready[b] > 0 => ready'[b] > 0
    BY <1>6, <1>types DEF ProcessSucceeds, queueVars
  <2>2. \A v \in Workers : held[v] = b /\ pc[v] = "begin" /\ live[v] => held'[v] = b /\ pc'[v] = "begin" /\ live'[v]
    BY <1>6 DEF ProcessSucceeds, TypeOK, Publishing, Statuses
  <2> QED
    BY <2>1, <2>2
<1>7. ASSUME NEW w \in Workers, ProcessFails(w) PROVE Goal
  <2>1. ready[b] > 0 => ready'[b] > 0
    BY <1>7, <1>types DEF ProcessFails, queueVars
  <2>2. \A v \in Workers : held[v] = b /\ pc[v] = "begin" /\ live[v] => held'[v] = b /\ pc'[v] = "begin" /\ live'[v]
    BY <1>7 DEF ProcessFails, TypeOK, Publishing, Statuses
  <2> QED
    BY <2>1, <2>2
<1>8. ASSUME NEW w \in Workers, PublishRetry(w) PROVE Goal
  <2>1. ready[b] > 0 => ready'[b] > 0
    BY <1>8, <1>types DEF PublishRetry, queueVars
  <2>2. \A v \in Workers : held[v] = b /\ pc[v] = "begin" /\ live[v] => held'[v] = b /\ pc'[v] = "begin" /\ live'[v]
    BY <1>8 DEF PublishRetry, TypeOK, Publishing, Statuses
  <2> QED
    BY <2>1, <2>2
<1>9. ASSUME NEW w \in Workers, DeadLetter(w) PROVE Goal
  <2>1. ready[b] > 0 => ready'[b] > 0
    BY <1>9, <1>types DEF DeadLetter, queueVars
  <2>2. \A v \in Workers : held[v] = b /\ pc[v] = "begin" /\ live[v] => held'[v] = b /\ pc'[v] = "begin" /\ live'[v]
    BY <1>9 DEF DeadLetter, TypeOK, Publishing, Statuses
  <2> QED
    BY <2>1, <2>2
<1>10. ASSUME NEW w \in Workers, PublishFails(w) PROVE Goal
  <2>1. ready[b] > 0 => ready'[b] > 0
    <3>1. held[w] \in Copies
      BY <1>10, BusyHoldsCopy DEF PublishFails
    <3> QED
      BY <1>10, <3>1, <1>types, MoreBag DEF PublishFails
  <2>2. \A v \in Workers : held[v] = b /\ pc[v] = "begin" /\ live[v] => held'[v] = b /\ pc'[v] = "begin" /\ live'[v]
    BY <1>10 DEF PublishFails, TypeOK, Publishing, Statuses
  <2> QED
    BY <2>1, <2>2
<1>11. ASSUME NEW w \in Workers, PublishFailsOffline(w) PROVE Goal
  <2>1. ready[b] > 0 => ready'[b] > 0
    BY <1>11, <1>types DEF PublishFailsOffline, queueVars
  <2>2. \A v \in Workers : held[v] = b /\ pc[v] = "begin" /\ live[v] => held'[v] = b /\ pc'[v] = "begin" /\ live'[v]
    BY <1>11 DEF PublishFailsOffline, TypeOK, Publishing, Statuses
  <2> QED
    BY <2>1, <2>2
<1>12. ASSUME NEW w \in Workers, Ack(w) PROVE Goal
  <2>1. ready[b] > 0 => ready'[b] > 0
    BY <1>12, <1>types DEF Ack, queueVars
  <2>2. \A v \in Workers : held[v] = b /\ pc[v] = "begin" /\ live[v] => held'[v] = b /\ pc'[v] = "begin" /\ live'[v]
    BY <1>12 DEF Ack, TypeOK, Publishing, Statuses
  <2> QED
    BY <2>1, <2>2
<1>13. ASSUME NEW w \in Workers, AckRetried(w) PROVE Goal
  <2>1. ready[b] > 0 => ready'[b] > 0
    BY <1>13, <1>types DEF AckRetried, queueVars
  <2>2. \A v \in Workers : held[v] = b /\ pc[v] = "begin" /\ live[v] => held'[v] = b /\ pc'[v] = "begin" /\ live'[v]
    BY <1>13 DEF AckRetried, TypeOK, Publishing, Statuses
  <2> QED
    BY <2>1, <2>2
<1>14. ASSUME NEW w \in Workers, AckBuried(w) PROVE Goal
  <2>1. ready[b] > 0 => ready'[b] > 0
    BY <1>14, <1>types DEF AckBuried, queueVars
  <2>2. \A v \in Workers : held[v] = b /\ pc[v] = "begin" /\ live[v] => held'[v] = b /\ pc'[v] = "begin" /\ live'[v]
    BY <1>14 DEF AckBuried, TypeOK, Publishing, Statuses
  <2> QED
    BY <2>1, <2>2
<1>15. ASSUME NEW w \in Workers, emitResult(w) PROVE Goal
  <2>1. ready[b] > 0 => ready'[b] > 0
    BY <1>15, <1>types DEF emitResult, queueVars
  <2>2. \A v \in Workers : held[v] = b /\ pc[v] = "begin" /\ live[v] => held'[v] = b /\ pc'[v] = "begin" /\ live'[v]
    BY <1>15 DEF emitResult, TypeOK, Publishing, Statuses
  <2> QED
    BY <2>1, <2>2
<1>16. ASSUME NEW w \in Workers, Reconnect(w) PROVE Goal
  <2>1. ready[b] > 0 => ready'[b] > 0
    BY <1>16, <1>types DEF Reconnect, queueVars
  <2>2. \A v \in Workers : held[v] = b /\ pc[v] = "begin" /\ live[v] => held'[v] = b /\ pc'[v] = "begin" /\ live'[v]
    BY <1>16 DEF Reconnect, TypeOK, Publishing, Statuses
  <2> QED
    BY <2>1, <2>2
<1>17. ASSUME NEW w \in Workers, GuardError(w) PROVE Goal
  <2>1. ready' = ready /\ live' = live /\ held' = held /\ pc' = [pc EXCEPT ![w] = "process"]
    BY <1>17 DEF GuardError, queueVars
  <2>2. held[w] = b => b[1] \notin Rejected /\ runs'[b] > 0
    BY <1>17, <1>types, MoreBag DEF GuardError, TypeOK
  <2> QED
    BY <2>1, <2>2 DEF TypeOK
<1>18. ASSUME NEW w \in Workers, ConnectionLost(w) PROVE Goal
  <2>1. (ready[b] > 0 => ready'[b] > 0) /\ (Unacked(w) => ready'[held[w]] > 0)
    BY <1>18, <1>types, RedeliverReturns DEF ConnectionLost
  <2>2. held[w] = b /\ pc[w] = "begin" /\ live[w] => ready'[b] > 0
    BY <1>18, <2>1 DEF Unacked, Statuses
  <2>3. \A v \in Workers : v # w /\ held[v] = b /\ pc[v] = "begin" /\ live[v] =>
             held'[v] = b /\ pc'[v] = "begin" /\ live'[v]
    BY <1>18 DEF ConnectionLost, TypeOK
  <2> QED
    BY <2>1, <2>2, <2>3
<1>19. ASSUME NEW w \in Workers, Crash(w) PROVE Goal
  <2>1. (ready[b] > 0 => ready'[b] > 0) /\ (Unacked(w) => ready'[held[w]] > 0)
    BY <1>19, <1>types, RedeliverReturns DEF Crash
  <2>2. held[w] = b /\ pc[w] = "begin" /\ live[w] => ready'[b] > 0
    BY <1>19, <2>1 DEF Unacked, Statuses
  <2>3. \A v \in Workers : v # w /\ held[v] = b /\ pc[v] = "begin" /\ live[v] =>
             held'[v] = b /\ pc'[v] = "begin" /\ live'[v]
    BY <1>19 DEF Crash, TypeOK
  <2> QED
    BY <2>1, <2>2, <2>3
<1>20. CASE UNCHANGED vars
  BY <1>20 DEF vars, queueVars, workerVars
<1> QED
  BY <1>1, <1>2, <1>3, <1>4, <1>5, <1>6, <1>7, <1>8, <1>9, <1>10, <1>11, <1>12,
     <1>13, <1>14, <1>15, <1>16, <1>17, <1>18, <1>19, <1>20
     DEF Next, Handle, Break

\* A run attempt in hand is handed on, or cut off, or goes back to the queue.
LEMMA OwnedStep ==
    ASSUME TypeOK, RejectInv, NEW b \in Copies, Owned(b), [Next]_vars
    PROVE  \/ Owned(b)' \/ Over(b[1])'
           \/ IF b[1] \in Rejected THEN ready'[b] > 0 ELSE wait'[b] > 0
<1> DEFINE Goal ==
       \/ Owned(b)' \/ Over(b[1])'
       \/ IF b[1] \in Rejected THEN ready'[b] > 0 ELSE wait'[b] > 0
<1> USE DEF Goal, Owning, Goto, Finish, Msg
<1>types. QueueTypeOK /\ \A c \in Copies : ready[c] \in Nat
  BY QueuesAreBags DEF TypeOK
<1>b. b[1] \in Msgs /\ b[2] \in 0..Tiers /\ b = <<b[1], b[2]>>
  BY CopyParts
<1>v. PICK v \in Workers : held[v] = b /\ pc[v] \in Owning /\ live[v]
  BY DEF Owned
<1>same. held'[v] = b /\ pc'[v] \in Owning /\ live'[v] => Goal
  BY DEF Owned
<1>1. ASSUME Topology, UNCHANGED <<guard, workerVars, historyVars>> PROVE Goal
  BY <1>1, <1>v, <1>same DEF workerVars
<1>2. ASSUME NEW w \in Workers, NEW c \in Copies, Receive(w, c) PROVE Goal
  BY <1>2, <1>v, <1>same DEF Receive, TypeOK
<1>3. ASSUME NEW w \in Workers, Reject(w) PROVE Goal
  BY <1>3, <1>v, <1>same DEF Reject, TypeOK, Publishing, Statuses, workerVars
<1>4. ASSUME NEW w \in Workers, Claim(w) PROVE Goal
  BY <1>4, <1>v, <1>same DEF Claim, TypeOK, Publishing, Statuses, workerVars
<1>5. ASSUME NEW w \in Workers, SkipDuplicate(w) PROVE Goal
  BY <1>5, <1>v, <1>same DEF SkipDuplicate, TypeOK, Publishing, Statuses, workerVars
<1>6. ASSUME NEW w \in Workers, ProcessSucceeds(w) PROVE Goal
  <2>1. CASE w # v
    BY <1>6, <2>1, <1>v, <1>same DEF ProcessSucceeds, TypeOK
  <2>2. CASE w = v
    BY <1>6, <2>2, <1>v DEF ProcessSucceeds, Over
  <2> QED
    BY <2>1, <2>2
<1>7. ASSUME NEW w \in Workers, ProcessFails(w) PROVE Goal
  BY <1>7, <1>v, <1>same DEF ProcessFails, TypeOK, Publishing, Statuses, workerVars
<1>8. ASSUME NEW w \in Workers, PublishRetry(w) PROVE Goal
  <2>1. CASE w # v
    BY <1>8, <2>1, <1>v, <1>same DEF PublishRetry, TypeOK
  <2>2. CASE w = v
    <3>1. Accept(pc[v], held[v]) \/ b[1] \in misled'
      BY <1>8, <2>2, <1>v, ConfirmMeans DEF PublishRetry, Publishing, Statuses
    <3>2. Accept(pc[v], held[v]) => wait'[b] > 0
      BY <1>8, <2>2, <1>v, <1>types, AcceptFiles DEF PublishRetry, Publishing
    <3>3. b[1] \notin Rejected
      BY <1>8, <2>2, <1>v DEF PublishRetry, RejectInv
    <3> QED
      BY <3>1, <3>2, <3>3 DEF Over
  <2> QED
    BY <2>1, <2>2
<1>9. ASSUME NEW w \in Workers, DeadLetter(w) PROVE Goal
  <2>1. CASE w # v
    BY <1>9, <2>1, <1>v, <1>same DEF DeadLetter, TypeOK
  <2>2. CASE w = v
    <3>1. Accept(pc[v], held[v]) \/ b[1] \in misled'
      BY <1>9, <2>2, <1>v, ConfirmMeans DEF DeadLetter, Publishing, Statuses
    <3>2. Accept(pc[v], held[v]) => dlq'[b] > 0
      BY <1>9, <2>2, <1>v, <1>types, AcceptFiles DEF DeadLetter, Publishing
    <3>3. dlq'[b] > 0 => Buried(b[1])'
      BY <1>b DEF Buried
    <3> QED
      BY <3>1, <3>2, <3>3 DEF Over
  <2> QED
    BY <2>1, <2>2
<1>10. ASSUME NEW w \in Workers, PublishFails(w) PROVE Goal
  <2>1. CASE w # v
    BY <1>10, <2>1, <1>v, <1>same DEF PublishFails, TypeOK
  <2>2. CASE w = v
    <3>1. b[1] \notin Rejected => b[1] \in requeued'
      BY <1>10, <2>2, <1>v DEF PublishFails
    <3>2. ready'[b] > 0
      BY <1>10, <2>2, <1>v, <1>types, QueuesAreBags, MoreBag DEF PublishFails
    <3> QED
      BY <3>1, <3>2 DEF Over
  <2> QED
    BY <2>1, <2>2
<1>11. ASSUME NEW w \in Workers, PublishFailsOffline(w) PROVE Goal
  BY <1>11, <1>v, <1>same DEF PublishFailsOffline, TypeOK, Publishing, Statuses, workerVars
<1>12. ASSUME NEW w \in Workers, Ack(w) PROVE Goal
  BY <1>12, <1>v, <1>same DEF Ack, TypeOK, Publishing, Statuses, workerVars
<1>13. ASSUME NEW w \in Workers, AckRetried(w) PROVE Goal
  BY <1>13, <1>v, <1>same DEF AckRetried, TypeOK, Publishing, Statuses, workerVars
<1>14. ASSUME NEW w \in Workers, AckBuried(w) PROVE Goal
  BY <1>14, <1>v, <1>same DEF AckBuried, TypeOK, Publishing, Statuses, workerVars
<1>15. ASSUME NEW w \in Workers, emitResult(w) PROVE Goal
  BY <1>15, <1>v, <1>same DEF emitResult, TypeOK, Publishing, Statuses, workerVars
<1>16. ASSUME NEW w \in Workers, Reconnect(w) PROVE Goal
  BY <1>16, <1>v, <1>same DEF Reconnect, TypeOK, Publishing, Statuses, workerVars
<1>17. ASSUME NEW w \in Workers, GuardError(w) PROVE Goal
  BY <1>17, <1>v, <1>same DEF GuardError, TypeOK, Publishing, Statuses, workerVars
<1>18. ASSUME NEW w \in Workers, ConnectionLost(w) PROVE Goal
  <2>1. CASE w # v
    BY <1>18, <2>1, <1>v, <1>same DEF ConnectionLost, TypeOK
  <2>2. CASE w = v
    <3>1. b[1] \notin Rejected => b[1] \in severed'
      BY <1>18, <2>2, <1>v DEF ConnectionLost, Sever
    <3>2. ready'[b] > 0
      BY <1>18, <2>2, <1>v, <1>types, RedeliverReturns DEF ConnectionLost, Unacked, Statuses
    <3> QED
      BY <3>1, <3>2 DEF Over
  <2> QED
    BY <2>1, <2>2
<1>19. ASSUME NEW w \in Workers, Crash(w) PROVE Goal
  <2>1. CASE w # v
    BY <1>19, <2>1, <1>v, <1>same DEF Crash, TypeOK
  <2>2. CASE w = v
    <3>1. b[1] \notin Rejected => b[1] \in severed'
      BY <1>19, <2>2, <1>v DEF Crash, Sever
    <3>2. ready'[b] > 0
      BY <1>19, <2>2, <1>v, <1>types, RedeliverReturns DEF Crash, Unacked, Statuses
    <3> QED
      BY <3>1, <3>2 DEF Over
  <2> QED
    BY <2>1, <2>2
<1>20. CASE UNCHANGED vars
  BY <1>20, <1>v, <1>same DEF vars, workerVars
<1> QED
  BY <1>1, <1>2, <1>3, <1>4, <1>5, <1>6, <1>7, <1>8, <1>9, <1>10, <1>11, <1>12,
     <1>13, <1>14, <1>15, <1>16, <1>17, <1>18, <1>19, <1>20
     DEF Next, Handle, Break

\* What waits in its tier stays there until it is queued for the next attempt.
LEMMA WaitStep ==
    ASSUME TypeOK, [Next]_vars, NEW c \in Copies, wait[c] > 0
    PROVE  wait'[c] > 0 \/ \E d \in Copies : d = <<c[1], c[2] + 1>> /\ ready'[d] > 0
  <1> DEFINE Goal == wait'[c] > 0 \/ \E d \in Copies : d = <<c[1], c[2] + 1>> /\ ready'[d] > 0
  <1>types. QueueTypeOK /\ QueueTypeOK' /\ wait[c] \in Nat /\ wait'[c] \in Nat
    <2>1. QueueTypeOK /\ QueueTypeOK'
      BY TypeStep DEF TypeOK
    <2> QED
      BY <2>1 DEF QueueTypeOK
  <1>1. CASE Topology
    BY <1>1, <1>types, TopologyKeeps, NextCopy
  <1>2. ASSUME NEW w \in Workers, Handle(w) \/ Break(w) PROVE Goal
    <2>1. ASSUME PublishRetry(w) \/ DeadLetter(w) \/ PublishFails(w) \/ PublishFailsOffline(w) \/ emitResult(w)
          PROVE  Goal
      <3>1. pc[w] \in Publishing /\ pc[w] # "idle" /\ held[w] \in Copies
        BY <2>1, BusyHoldsCopy DEF PublishRetry, DeadLetter, PublishFails, PublishFailsOffline, emitResult,
                                   Publishing, Statuses
      <3>2. Accept(pc[w], held[w]) \/ Lose
        BY <2>1, <3>1, ConfirmMeans
           DEF PublishRetry, DeadLetter, PublishFails, PublishFailsOffline, emitResult
      <3> QED
        BY <3>1, <3>2, <1>types, AcceptFiles
    <2>2. ASSUME ~(PublishRetry(w) \/ DeadLetter(w) \/ PublishFails(w) \/ PublishFailsOffline(w) \/ emitResult(w))
          PROVE  wait' = wait
      BY <1>2, <2>2 DEF Handle, Break, Reject, Claim, SkipDuplicate, ProcessSucceeds, ProcessFails,
                        Ack, AckRetried, AckBuried, Reconnect, GuardError, ConnectionLost, Crash, queueVars
    <2> QED
      BY <2>1, <2>2
  <1>3. ASSUME NEW w \in Workers, NEW d \in Copies, Receive(w, d) PROVE Goal
    BY <1>3 DEF Receive
  <1>4. CASE UNCHANGED vars
    BY <1>4 DEF vars, queueVars
  <1> QED
    BY <1>1, <1>2, <1>3, <1>4 DEF Next

\* Only the relay publishes a message, and it does so by queueing its first attempt.
LEMMA SentStep ==
    ASSUME TypeOK, [Next]_vars
    PROVE  \A m \in sent' : m \in sent \/ ready'[<<m, 0>>] > 0
  <1>1. CASE Topology
    BY <1>1, TopologyKeeps DEF TypeOK
  <1>2. ASSUME NEW w \in Workers, Handle(w) \/ Break(w) PROVE sent' = sent
    BY <1>2 DEF Handle, Break, Reject, Claim, SkipDuplicate, ProcessSucceeds, ProcessFails, PublishRetry,
                DeadLetter, PublishFails, PublishFailsOffline, Ack, AckRetried, AckBuried, emitResult,
                Reconnect, GuardError, ConnectionLost, Crash, queueVars
  <1>3. ASSUME NEW w \in Workers, NEW d \in Copies, Receive(w, d) PROVE sent' = sent
    BY <1>3 DEF Receive
  <1>4. CASE UNCHANGED vars
    BY <1>4 DEF vars, queueVars
  <1> QED
    BY <1>1, <1>2, <1>3, <1>4 DEF Next

\* A run is handed on for good, and a new one is in hand or was cut off before it.
LEMMA HandedOnStep ==
    ASSUME TypeOK, GuardInv, RejectInv, OfflineInv, ProgressInv, [Next]_vars,
           NEW c \in Copies, runs'[c] > 0
    PROVE  HandedOn(c)'
  <1>0. c[1] \in Msgs /\ runs[c] \in Nat
    BY CopyParts DEF TypeOK
  <1>1. CASE runs[c] > 0
    <2>1. c[1] \notin Rejected
      BY <1>1 DEF GuardInv
    <2>2. CASE Over(c[1])
      BY <2>2, <1>0, OverStays DEF HandedOn
    <2>3. CASE Owned(c)
      BY <2>1, <2>3, OwnedStep DEF HandedOn
    <2>4. CASE wait[c] > 0
      BY <2>4, WaitStep DEF HandedOn, Pending
    <2>5. ASSUME NEW d \in Copies, d = <<c[1], c[2] + 1>>, Pending(d) \/ runs[d] > 0
          PROVE  HandedOn(c)'
      <3>1. d[1] = c[1]
        BY <2>5
      <3>2. Pending(d)' \/ Over(c[1])' \/ runs'[d] > 0
        BY <2>1, <2>5, <3>1, PendingStep, RunsGrow
      <3> QED
        BY <2>5, <3>2 DEF HandedOn
    <2> QED
      BY <1>1, <2>2, <2>3, <2>4, <2>5 DEF ProgressInv, HandedOn
  <1>2. CASE ~(runs[c] > 0)
    <2>1. PICK w \in Workers : /\ Claim(w) \/ GuardError(w)
                               /\ held[w] \in Copies /\ runs' = More(runs, held[w])
      BY <1>2, RunsStep
    <2>2. held[w] = c
      BY <1>0, <1>2, <2>1, MoreBag DEF TypeOK
    <2>3. /\ pc[w] = "begin" /\ Msg(w) = c[1] /\ c[1] \notin Rejected
          /\ held' = held /\ live' = live /\ severed' = severed /\ pc' = [pc EXCEPT ![w] = "process"]
      BY <2>1, <2>2 DEF Claim, GuardError, Goto, Msg
    <2>4. CASE live[w]
      BY <2>2, <2>3, <2>4 DEF HandedOn, Owned, Owning, TypeOK
    <2>5. CASE ~live[w]
      BY <2>2, <2>3, <2>5 DEF HandedOn, Over, OfflineInv
    <2> QED
      BY <2>4, <2>5
  <1> QED
    BY <1>1, <1>2

\* A published message stays accounted for.
LEMMA ProgressStep ==
    TypeOK /\ GuardInv /\ RejectInv /\ OfflineInv /\ ProgressInv /\ [Next]_vars => ProgressInv'
  <1> SUFFICES ASSUME TypeOK, GuardInv, RejectInv, OfflineInv, ProgressInv, [Next]_vars
               PROVE  ProgressInv'
    OBVIOUS
  <1>1. ASSUME NEW m \in sent' PROVE Accounted(m)'
    <2>1. m \in Msgs /\ <<m, 0>> \in Copies /\ <<m, 0>>[1] = m
      BY TypeStep, WorkQueueAssumption DEF TypeOK, QueueTypeOK, Copies, WorkQueueAssumption
    <2> DEFINE c == <<m, 0>>
    <2>2. CASE ready'[c] > 0
      BY <2>1, <2>2 DEF Accounted, Pending
    <2>3. CASE m \in sent
      <3>1. Over(m) \/ Pending(c) \/ IF m \in Rejected THEN Owned(c) ELSE runs[c] > 0
        BY <2>3 DEF ProgressInv, Accounted
      <3> HIDE DEF c
      <3>2. c \in Copies /\ c[1] = m /\ c = <<m, 0>>
        BY <2>1 DEF c
      <3>3. Over(m) => Over(m)'
        BY <2>1, OverStays
      <3>4. Pending(c) => Pending(c)' \/ Over(m)' \/ IF m \in Rejected THEN Owned(c)' ELSE runs'[c] > 0
        BY <3>2, PendingStep
      <3>5. m \in Rejected /\ Owned(c) => Owned(c)' \/ Over(m)' \/ ready'[c] > 0
        BY <3>2, OwnedStep
      <3>6. runs[c] > 0 => runs'[c] > 0
        BY <3>2, RunsGrow
      <3>7. Over(m)' \/ Pending(c)' \/ IF m \in Rejected THEN Owned(c)' ELSE runs'[c] > 0
        BY <3>1, <3>3, <3>4, <3>5, <3>6 DEF Pending
      <3> QED
        BY <3>2, <3>7 DEF Accounted
    <2> QED
      BY <2>2, <2>3, SentStep
  <1> QED
    BY <1>1, HandedOnStep DEF ProgressInv
-----------------------------------------------------------------------------
(* The theorems *)

\* Nothing is queued, run or sent at first.
LEMMA InitInv == Init => IInv
  <1> SUFFICES ASSUME Init PROVE IInv
    OBVIOUS
  <1>1. /\ \A c \in Copies : ready[c] = 0 /\ wait[c] = 0 /\ dlq[c] = 0 /\ runs[c] = 0 /\ failOpen[c] = 0
        /\ guard = {} /\ sent = {} /\ results = {}
        /\ \A w \in Workers : pc[w] = "idle"
    BY DEF Init, QueueInit
  <1>2. GuardInv /\ RejectInv /\ LadderInv
    BY <1>1 DEF GuardInv, RejectInv, LadderInv, CopiesClimbed, HandsClimbed
  <1>3. FailedInv /\ OfflineInv
    BY <1>1 DEF FailedInv, FailedIsBuried, Reported, OfflineInv, Owning
  <1>4. ProgressInv /\ TopInv
    BY <1>1 DEF ProgressInv, TopInv
  <1> QED
    BY <1>2, <1>3, <1>4, InitType DEF IInv

\* The parts of IInv are inductive together.
THEOREM Invariance == Spec => []IInv
  <1>1. IInv /\ [Next]_vars => IInv'
    <2> SUFFICES ASSUME IInv, [Next]_vars PROVE IInv'
      OBVIOUS
    <2>1. TypeOK' /\ GuardInv' /\ RejectInv'
      BY TypeStep, GuardStep, RejectStep DEF IInv
    <2>2. LadderInv'
      BY CopiesClimbedStep, HandsClimbedStep DEF IInv, LadderInv
    <2>3. FailedInv' /\ OfflineInv'
      BY FailedStep, OfflineStep DEF IInv
    <2>4. ProgressInv' /\ TopInv'
      BY ProgressStep, TopStep DEF IInv
    <2> QED
      BY <2>1, <2>2, <2>3, <2>4 DEF IInv
  <1> QED
    BY InitInv, <1>1, PTL DEF Spec

\* Every variable has its type; who is idle holds nothing.
THEOREM TypeCorrect == Spec => []TypeOK
  <1>1. IInv => TypeOK
    BY DEF IInv
  <1> QED
    BY <1>1, Invariance, PTL

\* Guard.Begin dedupes across replicas, crashes, requeues and relay duplicates: an
\* attempt runs once, and once more for each guard error that failed open.
THEOREM RunsOnce == Spec => []AttemptRunsOnce
  <1>1. IInv => AttemptRunsOnce
    BY DEF IInv, TypeOK, GuardInv, AttemptRunsOnce
  <1> QED
    BY <1>1, Invariance, PTL

\* routeFailure buries a valid message only after a try at every rung of the ladder.
THEOREM BurialEarned == Spec => []DeadLetterEarned
  <1>1. IInv => DeadLetterEarned
    BY DEF IInv, LadderInv, CopiesClimbed, DeadLetterEarned
  <1> QED
    BY <1>1, Invariance, PTL

\* emitResult says "failed" only of what is in the dead-letter queue, but for a
\* worker that took the confirm of an earlier publish for its dead letter's.
THEOREM FailedTellsBurial == Spec => []FailedIsBuried
  <1>1. IInv => FailedIsBuried
    BY DEF IInv, FailedInv
  <1> QED
    BY <1>1, Invariance, PTL

\* What was handed on and is not over still circulates: at the highest attempt run
\* it is in hand, waits in its tier, or is queued for the attempt after it.
LEMMA TopCirculates ==
    ASSUME IInv, NEW c \in Copies, runs[c] > 0
    PROVE  Over(c[1]) \/ Circulates(c[1])
  <1>0. /\ QueueTypeOK
        /\ \A d \in Copies : ready[d] \in Nat /\ wait[d] \in Nat /\ d[2] \in Nat
    BY QueuesAreBags, CopyParts DEF IInv, TypeOK
  <1>1. PICK t \in Copies : /\ t[1] = c[1] /\ runs[t] > 0
                            /\ \A d \in Copies : d[1] = c[1] /\ runs[d] > 0 => d[2] <= t[2]
    BY DEF IInv, TopInv
  <1>2. HandedOn(t)
    BY <1>1 DEF IInv, ProgressInv
  <1>3. Owned(t) => Circulates(c[1])
    BY <1>1 DEF Owned, Owning, Circulates, Msg, Statuses
  <1>4. wait[t] > 0 => Circulates(c[1])
    BY <1>0, <1>1 DEF Circulates, Queued
  <1>5. ASSUME NEW d \in Copies, d = <<t[1], t[2] + 1>>, Pending(d) \/ runs[d] > 0
        PROVE  Circulates(c[1])
    <2>1. d[1] = c[1] /\ d[2] = t[2] + 1
      BY <1>1, <1>5
    <2>2. Pending(d)
      BY <1>0, <1>1, <1>5, <2>1
    <2>3. ready[d] > 0 => Circulates(c[1])
      BY <1>0, <2>1 DEF Circulates, Queued
    <2> QED
      BY <2>1, <2>2, <2>3 DEF Pending, Circulates, Msg, Statuses
  <1> QED
    BY <1>1, <1>2, <1>3, <1>4, <1>5 DEF HandedOn

\* Guarding before processing loses a message only where the key is taken and the
\* outcome is not handed on.
THEOREM OnlyCutOffIsLost == Spec => []LostOnlyIfCutOff
  <1>1. IInv => LostOnlyIfCutOff
    <2> SUFFICES ASSUME IInv, NEW m \in sent PROVE Over(m) \/ Circulates(m)
      BY DEF LostOnlyIfCutOff, Over
    <2>1. PICK c \in Copies :
            /\ c = <<m, 0>>
            /\ Over(m) \/ Pending(c) \/ IF m \in Rejected THEN Owned(c) ELSE runs[c] > 0
      BY DEF IInv, ProgressInv, Accounted
    <2>2. c[1] = m
      BY <2>1
    <2>3. ready[c] \in Nat /\ wait[c] \in Nat
      BY QueuesAreBags DEF IInv, TypeOK
    <2>4. Pending(c) => Circulates(m)
      BY <2>2, <2>3 DEF Pending, Circulates, Queued, Msg, Statuses
    <2>5. Owned(c) => Circulates(m)
      BY <2>2 DEF Owned, Owning, Circulates, Msg, Statuses
    <2>6. runs[c] > 0 => Over(m) \/ Circulates(m)
      BY <2>2, TopCirculates
    <2> QED
      BY <2>1, <2>4, <2>5, <2>6
  <1> QED
    BY <1>1, Invariance, PTL
=============================================================================
