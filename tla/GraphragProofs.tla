--------------------------- MODULE GraphragProofs ---------------------------
(***************************************************************************)
(* Proofs about GraphragWorker for any messages, replicas, retry tiers and *)
(* bounds: type correctness, that an attempt runs once, what reaches the   *)
(* dead-letter queue, that results are true and do not contradict one      *)
(* another, and that only what was cut off is left without one.            *)
(***************************************************************************)
EXTENDS GraphragWorker, WorkQueueProofs

-----------------------------------------------------------------------------
(* The invariant *)

\* A key is taken by a run of its attempt; every other run of it is an error that
\* failed open; and what does not parse never runs.
GuardInv ==
    \A c \in Copies :
        /\ c \in guard => runs[c] > 0
        /\ runs[c] <= (IF c \in guard THEN 1 ELSE 0) + failOpen[c]
        /\ runs[c] > 0 => c[1] \notin Malformed

\* Neither is it handled or retried, or does it get past the dead letter.
RejectInv == \A w \in Workers : pc[w] \in {"handler", "retry"} \cup Statuses => Msg(w) \notin Malformed

\* Steps at which the attempt in hand has been run and not yet handed on; the dead
\* letter of an unparseable body is the one that has not been run.
Owning == {"handler"} \cup Publishing

\* A parseable copy has climbed the ladder: every lower attempt was run, and its
\* own too once it waits or is in hand past the guard.
CopiesClimbed ==
    \A c \in Copies : c[1] \notin Malformed =>
        /\ ready[c] > 0 \/ wait[c] > 0 \/ runs[c] > 0 =>
              \A a \in 0..Tiers : a < c[2] => runs[<<c[1], a>>] > 0
        /\ wait[c] > 0 => runs[c] > 0
        /\ dlq[c] > 0 /\ c[1] \notin Invalid => \A a \in 0..Tiers : runs[<<c[1], a>>] > 0

HandsClimbed ==
    \A w \in Workers : pc[w] # "idle" /\ Msg(w) \notin Malformed =>
        /\ \A a \in 0..Tiers : a < held[w][2] => runs[<<Msg(w), a>>] > 0
        /\ pc[w] \in Owning => runs[held[w]] > 0
        /\ pc[w] = "dead" /\ Msg(w) \notin Invalid => held[w][2] = Tiers

LadderInv == CopiesClimbed /\ HandsClimbed

\* Who is about to report tells the truth.
TruthInv ==
    /\ \A w \in Workers :
          /\ pc[w] = "completed" => <<Msg(w), "completed">> \in returned
          /\ pc[w] = "failed" => <<Msg(w), "failed">> \in returned \/ Buried(Msg(w))
    /\ ResultsAreTrue

\* A worker whose channel is closed goes on with a message known to be cut off.
OfflineInv ==
    \A w \in Workers :
        pc[w] \in {"begin"} \cup Owning /\ ~live[w] /\ Msg(w) \notin Malformed => Msg(w) \in severed

\* What UnsettledOnlyIfCutOff asks of a message that no longer circulates.
Over(m) == Settled(m) \/ m \in severed \cup requeued \cup cancelled

\* A copy that has yet to be run, and a run that has yet to be handed on.
Pending(c) ==
    \/ ready[c] > 0
    \/ \E w \in Workers : held[w] = c /\ pc[w] = "begin" /\ live[w]

Owned(c) == \E w \in Workers : held[w] = c /\ pc[w] \in Owning /\ live[w]

\* An attempt that was run is still in hand or was handed on: to its retry tier or
\* to the next attempt.
HandedOn(c) ==
    \/ Over(c[1]) \/ Owned(c) \/ wait[c] > 0
    \/ \E d \in Copies : d = <<c[1], c[2] + 1>> /\ (Pending(d) \/ runs[d] > 0)

\* A published message was run, or is yet to be; an unparseable one is on its way
\* to the dead-letter queue.
Accounted(m) ==
    \E c \in Copies :
        /\ c = <<m, 0>>
        /\ \/ Over(m) \/ Pending(c)
           \/ IF m \in Malformed THEN Owned(c) ELSE runs[c] > 0

ProgressInv ==
    /\ \A c \in Copies : runs[c] > 0 => HandedOn(c)
    /\ \A m \in sent : Accounted(m)

\* Of the attempts of a message that were run, one is the highest.
TopInv ==
    \A c \in Copies : runs[c] > 0 =>
        \E t \in Copies :
            /\ t[1] = c[1] /\ runs[t] > 0
            /\ \A d \in Copies : d[1] = c[1] /\ runs[d] > 0 => d[2] <= t[2]

\* The guard never failed open for m.
Guarded(m) == m \notin Malformed /\ \A a \in 0..Tiers : failOpen[<<m, a>>] = 0

\* w runs attempt c, or is about to hand it on.
Active(w, c) == held[w] = c /\ pc[w] \in Owning

\* Attempt c is the last so far: it is not to be retried and no later one exists.
Latest(c) ==
    /\ wait[c] = 0
    /\ \A d \in Copies : d[1] = c[1] /\ d[2] > c[2] =>
           /\ ready[d] = 0 /\ wait[d] = 0 /\ runs[d] = 0
           /\ \A w \in Workers : held[w] # d

\* The attempts of a message whose guard never failed open run one at a time, each
\* in one worker, and what was reported was the end of the last one.
SerialInv ==
    /\ \A c \in Copies : Guarded(c[1]) =>
          \A w \in Workers : Active(w, c) =>
              /\ Latest(c)
              /\ \A v \in Workers : Active(v, c) => v = w
    /\ \A m \in Msgs, s \in Statuses : Reported(m, s) =>
          /\ m \notin Malformed
          /\ Guarded(m) => \E c \in Copies :
                 c[1] = m /\ runs[c] > 0 /\ Latest(c) /\ \A w \in Workers : ~Active(w, c)
    /\ OneVerdict

IInv ==
    /\ TypeOK /\ GuardInv /\ RejectInv /\ LadderInv /\ TruthInv /\ OfflineInv
    /\ ProgressInv /\ TopInv /\ SerialInv

-----------------------------------------------------------------------------
(* Lemmas about what a worker holds, publishes and gives back *)

\* A busy worker holds a copy.
LEMMA BusyHoldsCopy ==
    ASSUME TypeOK, NEW w \in Workers, pc[w] # "idle"
    PROVE  /\ held[w] \in Copies
           /\ Msg(w) \in Msgs /\ held[w][2] \in 0..Tiers
           /\ held[w] = <<Msg(w), held[w][2]>>
  <1>1. held[w] \in Copies
    BY DEF TypeOK
  <1> QED
    BY <1>1, CopyParts DEF Msg

\* Whatever a worker publishes, the broker accepts it or it is lost.
LEMMA PublishMeans ==
    ASSUME TypeOK, NEW w \in Workers,
           \/ PublishRetry(w) \/ DeadLetter(w) \/ PublishResult(w)
           \/ PublishFails(w) \/ PublishFailsOffline(w)
    PROVE  /\ pc[w] \in Publishing /\ pc[w] # "idle" /\ held[w] \in Copies
           /\ Accept(pc[w], held[w]) \/ Lose
           /\ ~PublishFails(w) /\ ~PublishFailsOffline(w) => Accept(pc[w], held[w])
  <1>1. pc[w] \in Publishing /\ pc[w] # "idle"
    BY DEF PublishRetry, DeadLetter, PublishResult, PublishFails, PublishFailsOffline, Publishing, Statuses
  <1>2. held[w] \in Copies
    BY <1>1, BusyHoldsCopy
  <1>3. PublishRetry(w) => Accept(pc[w], held[w])
    BY DEF PublishRetry, Accept, Statuses
  <1>4. DeadLetter(w) => Accept(pc[w], held[w])
    BY DEF DeadLetter, Accept, Statuses
  <1>5. PublishResult(w) => Accept(pc[w], held[w])
    BY DEF PublishResult, Accept, Statuses, Msg
  <1>6. PublishFails(w) => Lose
    BY DEF PublishFails, Lose
  <1>7. PublishFailsOffline(w) => Accept(pc[w], held[w]) \/ Lose
    BY DEF PublishFailsOffline
  <1> QED
    BY <1>1, <1>2, <1>3, <1>4, <1>5, <1>6, <1>7

\* What is redelivered is what was in hand.
LEMMA RedeliverReturns ==
    ASSUME TypeOK, NEW w \in Workers, Redeliver(w)
    PROVE  /\ ready' \in [Copies -> Nat]
           /\ \A d \in Copies : ready'[d] >= ready[d]
           /\ \A d \in Copies : ready'[d] > ready[d] => pc[w] # "idle" /\ d = held[w]
           /\ live[w] /\ pc[w] # "idle" => ready'[held[w]] > 0
  <1>1. QueueTypeOK
    BY DEF TypeOK
  <1>2. CASE live[w] /\ pc[w] # "idle"
    <2>1. held[w] \in Copies
      BY <1>2, BusyHoldsCopy
    <2> QED
      BY <1>1, <1>2, <2>1, QueuesAreBags DEF Redeliver, More
  <1>3. CASE ~(live[w] /\ pc[w] # "idle")
    BY <1>1, <1>3, QueuesAreBags DEF Redeliver
  <1> QED
    BY <1>2, <1>3

-----------------------------------------------------------------------------
(* Type correctness *)

\* Nothing is queued, held or claimed at first.
LEMMA InitType == Init => TypeOK
  <1> SUFFICES ASSUME Init PROVE TypeOK
    OBVIOUS
  <1>1. QueueTypeOK
    BY QueueInitType DEF Init
  <1>2. {runs, failOpen} \subseteq [Copies -> Nat]
    BY DEF Init
  <1>3. faults \in 0..MaxFaults
    BY GraphragWorkerAssumption DEF Init, GraphragWorkerAssumption
  <1> QED
    BY <1>1, <1>2, <1>3 DEF Init, TypeOK

\* Every step keeps every variable's type.
LEMMA TypeStep == TypeOK /\ [Next]_vars => TypeOK'
<1> SUFFICES ASSUME TypeOK, [Next]_vars PROVE TypeOK'
  OBVIOUS
<1>1. ASSUME Topology, UNCHANGED <<guard, workerVars, historyVars>> PROVE TypeOK'
  <2>1. QueueTypeOK'
    BY <1>1, TopologyType DEF TypeOK
  <2> QED
    BY <1>1, <2>1 DEF TypeOK, workerVars, historyVars, cutVars
<1>2. ASSUME NEW w \in Workers, NEW c \in Copies, Receive(w, c) PROVE TypeOK'
  <2>1. QueueTypeOK'
    BY <1>2, QueuesAreBags, LessBag DEF Receive, TypeOK, QueueTypeOK
  <2> QED
    BY <1>2, <2>1, NoCopyIsNone DEF Receive, TypeOK, Goto, historyVars, cutVars
<1>3. ASSUME NEW w \in Workers, ParseError(w) PROVE TypeOK'
  <2>1. QueueTypeOK'
    BY <1>3 DEF ParseError, TypeOK, QueueTypeOK, queueVars
  <2> QED
    BY <1>3, <2>1 DEF ParseError, TypeOK, Goto, Finish, Publishing, Statuses, historyVars, cutVars
<1>4. ASSUME NEW w \in Workers, Claim(w) PROVE TypeOK'
  <2>1. held[w] \in Copies
    BY <1>4, BusyHoldsCopy DEF Claim
  <2>2. {runs, failOpen}' \subseteq [Copies -> Nat]
    BY <1>4, <2>1, MoreBag DEF Claim, TypeOK
  <2>3. QueueTypeOK'
    BY <1>4 DEF Claim, TypeOK, QueueTypeOK, queueVars
  <2>4. faults' \in 0..MaxFaults
    BY <1>4, GraphragWorkerAssumption DEF Claim, TypeOK, Fault, GraphragWorkerAssumption
  <2> QED
    BY <1>4, <2>1, <2>2, <2>3, <2>4 DEF Claim, TypeOK, Goto, cutVars
<1>5. ASSUME NEW w \in Workers, SkipDuplicate(w) PROVE TypeOK'
  <2>1. QueueTypeOK'
    BY <1>5 DEF SkipDuplicate, TypeOK, QueueTypeOK, queueVars
  <2> QED
    BY <1>5, <2>1 DEF SkipDuplicate, TypeOK, Goto, Finish, Publishing, Statuses, historyVars, cutVars
<1>6. ASSUME NEW w \in Workers, ValidationFails(w) PROVE TypeOK'
  <2>1. QueueTypeOK'
    BY <1>6 DEF ValidationFails, TypeOK, QueueTypeOK, queueVars
  <2> QED
    BY <1>6, <2>1 DEF ValidationFails, TypeOK, Goto, Finish, Publishing, Statuses, historyVars, cutVars
<1>7. ASSUME NEW w \in Workers, ProcessRaises(w) PROVE TypeOK'
  <2>1. QueueTypeOK'
    BY <1>7 DEF ProcessRaises, TypeOK, QueueTypeOK, queueVars
  <2> QED
    BY <1>7, <2>1 DEF ProcessRaises, TypeOK, Goto, Finish, Publishing, Statuses, historyVars, cutVars
<1>8. ASSUME NEW w \in Workers, NEW status \in Statuses, ProcessReturns(w, status) PROVE TypeOK'
  <2>1. Msg(w) \in Msgs
    BY <1>8, BusyHoldsCopy DEF ProcessReturns
  <2>2. QueueTypeOK'
    BY <1>8 DEF ProcessReturns, TypeOK, QueueTypeOK, queueVars
  <2>3. pc' = [pc EXCEPT ![w] = status] /\ pc[w] = "handler"
    BY <1>8 DEF ProcessReturns, Goto
  <2>4. returned' \subseteq Msgs \X Statuses
    BY <1>8, <2>1 DEF ProcessReturns, TypeOK
  <2> QED
    BY <1>8, <2>2, <2>3, <2>4 DEF ProcessReturns, TypeOK, Publishing, Statuses, cutVars
<1>9. ASSUME NEW w \in Workers, PublishRetry(w) PROVE TypeOK'
  <2>1. pc[w] \in Publishing /\ held[w] \in Copies /\ (Accept(pc[w], held[w]) \/ Lose) /\ QueueTypeOK
    BY <1>9, PublishMeans DEF TypeOK
  <2>2. wait' \in [Copies -> Nat] /\ dlq' \in [Copies -> Nat] /\ results' \subseteq Msgs \X Statuses
    BY <2>1, AcceptFiles
  <2>3. ready' \in [Copies -> Nat]
    BY <1>9, <2>1, QueuesAreBags, MoreBag DEF PublishRetry
  <2>4. QueueTypeOK'
    BY <1>9, <2>1, <2>2, <2>3 DEF PublishRetry, QueueTypeOK
  <2>5. requeued' \subseteq Msgs \ Malformed /\ faults' \in 0..MaxFaults
    BY <1>9, <2>1, CopyParts, GraphragWorkerAssumption
       DEF PublishRetry, TypeOK, historyVars, cutVars, Fault, Msg, GraphragWorkerAssumption
  <2>6. pc' \in [Workers -> {"idle", "begin", "handler", "ack"} \cup Publishing]
    BY <1>9 DEF PublishRetry, TypeOK, Goto, Finish, AfterBurial, Publishing, Statuses
  <2>7. held' \in [Workers -> Copies \cup {NoCopy}] /\ \A v \in Workers : held'[v] = NoCopy <=> pc'[v] = "idle"
    BY <1>9, <2>1 DEF PublishRetry, TypeOK, Goto, Finish, AfterBurial, Publishing, Statuses
  <2> QED
    BY <1>9, <2>4, <2>5, <2>6, <2>7 DEF PublishRetry, TypeOK, historyVars, cutVars
<1>10. ASSUME NEW w \in Workers, DeadLetter(w) PROVE TypeOK'
  <2>1. pc[w] \in Publishing /\ held[w] \in Copies /\ (Accept(pc[w], held[w]) \/ Lose) /\ QueueTypeOK
    BY <1>10, PublishMeans DEF TypeOK
  <2>2. wait' \in [Copies -> Nat] /\ dlq' \in [Copies -> Nat] /\ results' \subseteq Msgs \X Statuses
    BY <2>1, AcceptFiles
  <2>3. ready' \in [Copies -> Nat]
    BY <1>10, <2>1, QueuesAreBags, MoreBag DEF DeadLetter
  <2>4. QueueTypeOK'
    BY <1>10, <2>1, <2>2, <2>3 DEF DeadLetter, QueueTypeOK
  <2>5. requeued' \subseteq Msgs \ Malformed /\ faults' \in 0..MaxFaults
    BY <1>10, <2>1, CopyParts, GraphragWorkerAssumption
       DEF DeadLetter, TypeOK, historyVars, cutVars, Fault, Msg, GraphragWorkerAssumption
  <2>6. pc' \in [Workers -> {"idle", "begin", "handler", "ack"} \cup Publishing]
    BY <1>10 DEF DeadLetter, TypeOK, Goto, Finish, AfterBurial, Publishing, Statuses
  <2>7. held' \in [Workers -> Copies \cup {NoCopy}] /\ \A v \in Workers : held'[v] = NoCopy <=> pc'[v] = "idle"
    BY <1>10, <2>1 DEF DeadLetter, TypeOK, Goto, Finish, AfterBurial, Publishing, Statuses
  <2> QED
    BY <1>10, <2>4, <2>5, <2>6, <2>7 DEF DeadLetter, TypeOK, historyVars, cutVars
<1>11. ASSUME NEW w \in Workers, PublishResult(w) PROVE TypeOK'
  <2>1. pc[w] \in Publishing /\ held[w] \in Copies /\ (Accept(pc[w], held[w]) \/ Lose) /\ QueueTypeOK
    BY <1>11, PublishMeans DEF TypeOK
  <2>2. wait' \in [Copies -> Nat] /\ dlq' \in [Copies -> Nat] /\ results' \subseteq Msgs \X Statuses
    BY <2>1, AcceptFiles
  <2>3. ready' \in [Copies -> Nat]
    BY <1>11, <2>1, QueuesAreBags, MoreBag DEF PublishResult
  <2>4. QueueTypeOK'
    BY <1>11, <2>1, <2>2, <2>3 DEF PublishResult, QueueTypeOK
  <2>5. requeued' \subseteq Msgs \ Malformed /\ faults' \in 0..MaxFaults
    BY <1>11, <2>1, CopyParts, GraphragWorkerAssumption
       DEF PublishResult, TypeOK, historyVars, cutVars, Fault, Msg, GraphragWorkerAssumption
  <2>6. pc' \in [Workers -> {"idle", "begin", "handler", "ack"} \cup Publishing]
    BY <1>11 DEF PublishResult, TypeOK, Goto, Finish, AfterBurial, Publishing, Statuses
  <2>7. held' \in [Workers -> Copies \cup {NoCopy}] /\ \A v \in Workers : held'[v] = NoCopy <=> pc'[v] = "idle"
    BY <1>11, <2>1 DEF PublishResult, TypeOK, Goto, Finish, AfterBurial, Publishing, Statuses
  <2> QED
    BY <1>11, <2>4, <2>5, <2>6, <2>7 DEF PublishResult, TypeOK, historyVars, cutVars
<1>12. ASSUME NEW w \in Workers, PublishFailsOffline(w) PROVE TypeOK'
  <2>1. pc[w] \in Publishing /\ held[w] \in Copies /\ (Accept(pc[w], held[w]) \/ Lose) /\ QueueTypeOK
    BY <1>12, PublishMeans DEF TypeOK
  <2>2. wait' \in [Copies -> Nat] /\ dlq' \in [Copies -> Nat] /\ results' \subseteq Msgs \X Statuses
    BY <2>1, AcceptFiles
  <2>3. ready' \in [Copies -> Nat]
    BY <1>12, <2>1, QueuesAreBags, MoreBag DEF PublishFailsOffline
  <2>4. QueueTypeOK'
    BY <1>12, <2>1, <2>2, <2>3 DEF PublishFailsOffline, QueueTypeOK
  <2>5. requeued' \subseteq Msgs \ Malformed /\ faults' \in 0..MaxFaults
    BY <1>12, <2>1, CopyParts, GraphragWorkerAssumption
       DEF PublishFailsOffline, TypeOK, historyVars, cutVars, Fault, Msg, GraphragWorkerAssumption
  <2>6. pc' \in [Workers -> {"idle", "begin", "handler", "ack"} \cup Publishing]
    BY <1>12 DEF PublishFailsOffline, TypeOK, Goto, Finish, AfterBurial, Publishing, Statuses
  <2>7. held' \in [Workers -> Copies \cup {NoCopy}] /\ \A v \in Workers : held'[v] = NoCopy <=> pc'[v] = "idle"
    BY <1>12, <2>1 DEF PublishFailsOffline, TypeOK, Goto, Finish, AfterBurial, Publishing, Statuses
  <2> QED
    BY <1>12, <2>4, <2>5, <2>6, <2>7 DEF PublishFailsOffline, TypeOK, historyVars, cutVars
<1>13. ASSUME NEW w \in Workers, Ack(w) PROVE TypeOK'
  <2>1. QueueTypeOK'
    BY <1>13 DEF Ack, TypeOK, QueueTypeOK, queueVars
  <2> QED
    BY <1>13, <2>1 DEF Ack, TypeOK, Goto, Finish, Publishing, Statuses, historyVars, cutVars
<1>14. ASSUME NEW w \in Workers, Reconnect(w) PROVE TypeOK'
  <2>1. QueueTypeOK'
    BY <1>14 DEF Reconnect, TypeOK, QueueTypeOK, queueVars
  <2> QED
    BY <1>14, <2>1 DEF Reconnect, TypeOK, Goto, Finish, Publishing, Statuses, historyVars, cutVars
<1>15. ASSUME NEW w \in Workers, GuardError(w) PROVE TypeOK'
  <2>1. held[w] \in Copies
    BY <1>15, BusyHoldsCopy DEF GuardError
  <2>2. {runs, failOpen}' \subseteq [Copies -> Nat]
    BY <1>15, <2>1, MoreBag DEF GuardError, TypeOK
  <2>3. QueueTypeOK'
    BY <1>15 DEF GuardError, TypeOK, QueueTypeOK, queueVars
  <2>4. faults' \in 0..MaxFaults
    BY <1>15, GraphragWorkerAssumption DEF GuardError, TypeOK, Fault, GraphragWorkerAssumption
  <2> QED
    BY <1>15, <2>1, <2>2, <2>3, <2>4 DEF GuardError, TypeOK, Goto, cutVars
<1>16. ASSUME NEW w \in Workers, PublishFails(w) PROVE TypeOK'
  <2>1. pc[w] \in Publishing /\ held[w] \in Copies /\ (Accept(pc[w], held[w]) \/ Lose) /\ QueueTypeOK
    BY <1>16, PublishMeans DEF TypeOK
  <2>2. wait' \in [Copies -> Nat] /\ dlq' \in [Copies -> Nat] /\ results' \subseteq Msgs \X Statuses
    BY <2>1, AcceptFiles
  <2>3. ready' \in [Copies -> Nat]
    BY <1>16, <2>1, QueuesAreBags, MoreBag DEF PublishFails
  <2>4. QueueTypeOK'
    BY <1>16, <2>1, <2>2, <2>3 DEF PublishFails, QueueTypeOK
  <2>5. requeued' \subseteq Msgs \ Malformed /\ faults' \in 0..MaxFaults
    BY <1>16, <2>1, CopyParts, GraphragWorkerAssumption
       DEF PublishFails, TypeOK, historyVars, cutVars, Fault, Msg, GraphragWorkerAssumption
  <2>6. pc' \in [Workers -> {"idle", "begin", "handler", "ack"} \cup Publishing]
    BY <1>16 DEF PublishFails, TypeOK, Goto, Finish, AfterBurial, Publishing, Statuses
  <2>7. held' \in [Workers -> Copies \cup {NoCopy}] /\ \A v \in Workers : held'[v] = NoCopy <=> pc'[v] = "idle"
    BY <1>16, <2>1 DEF PublishFails, TypeOK, Goto, Finish, AfterBurial, Publishing, Statuses
  <2> QED
    BY <1>16, <2>4, <2>5, <2>6, <2>7 DEF PublishFails, TypeOK, historyVars, cutVars
<1>17. ASSUME NEW w \in Workers, ConnectionLost(w) PROVE TypeOK'
  <2>1. ready' \in [Copies -> Nat]
    BY <1>17, RedeliverReturns DEF ConnectionLost
  <2>2. QueueTypeOK'
    BY <1>17, <2>1 DEF ConnectionLost, TypeOK, QueueTypeOK
  <2>3. faults' \in 0..MaxFaults
    BY <1>17, GraphragWorkerAssumption DEF ConnectionLost, TypeOK, Fault, GraphragWorkerAssumption
  <2>4. pc[w] # "idle" => Msg(w) \in Msgs
    BY BusyHoldsCopy
  <2>5. ClaimedMsgs(w) \subseteq Msgs \ Malformed
    BY <2>4 DEF ClaimedMsgs, Claimed, Publishing, Statuses
  <2>6. severed' \subseteq Msgs \ Malformed /\ cancelled' \subseteq Msgs \ Malformed
    BY <1>17, <2>4, <2>5 DEF ConnectionLost, TypeOK
  <2> QED
    BY <1>17, <2>2, <2>3, <2>6 DEF ConnectionLost, TypeOK, Goto, Finish
<1>18. ASSUME NEW w \in Workers, Crash(w) PROVE TypeOK'
  <2>1. ready' \in [Copies -> Nat]
    BY <1>18, RedeliverReturns DEF Crash, Restart
  <2>2. QueueTypeOK'
    BY <1>18, <2>1 DEF Crash, Restart, TypeOK, QueueTypeOK
  <2>3. faults' \in 0..MaxFaults
    BY <1>18, GraphragWorkerAssumption DEF Crash, Restart, TypeOK, Fault, GraphragWorkerAssumption
  <2>4. pc[w] # "idle" => Msg(w) \in Msgs
    BY BusyHoldsCopy
  <2>5. ClaimedMsgs(w) \subseteq Msgs \ Malformed
    BY <2>4 DEF ClaimedMsgs, Claimed, Publishing, Statuses
  <2>6. severed' \subseteq Msgs \ Malformed /\ cancelled' \subseteq Msgs \ Malformed
    BY <1>18, <2>4, <2>5 DEF Crash, Restart, TypeOK
  <2> QED
    BY <1>18, <2>2, <2>3, <2>6 DEF Crash, Restart, TypeOK, Goto, Finish
<1>19. ASSUME NEW w \in Workers, Shutdown(w) PROVE TypeOK'
  <2>1. ready' \in [Copies -> Nat]
    BY <1>19, RedeliverReturns DEF Shutdown, Restart
  <2>2. QueueTypeOK'
    BY <1>19, <2>1 DEF Shutdown, Restart, TypeOK, QueueTypeOK
  <2>3. faults' \in 0..MaxFaults
    BY <1>19, GraphragWorkerAssumption DEF Shutdown, Restart, TypeOK, Fault, GraphragWorkerAssumption
  <2>4. pc[w] # "idle" => Msg(w) \in Msgs
    BY BusyHoldsCopy
  <2>5. ClaimedMsgs(w) \subseteq Msgs \ Malformed
    BY <2>4 DEF ClaimedMsgs, Claimed, Publishing, Statuses
  <2>6. severed' \subseteq Msgs \ Malformed /\ cancelled' \subseteq Msgs \ Malformed
    BY <1>19, <2>4, <2>5 DEF Shutdown, Restart, TypeOK
  <2> QED
    BY <1>19, <2>2, <2>3, <2>6 DEF Shutdown, Restart, TypeOK, Goto, Finish
<1>20. CASE UNCHANGED vars
  <2>1. QueueTypeOK'
    BY <1>20 DEF TypeOK, QueueTypeOK, vars, queueVars
  <2> QED
    BY <1>20, <2>1 DEF TypeOK, vars, workerVars, historyVars, cutVars
<1> QED
  BY <1>1, <1>2, <1>3, <1>4, <1>5, <1>6, <1>7, <1>8, <1>9, <1>10, <1>11, <1>12,
     <1>13, <1>14, <1>15, <1>16, <1>17, <1>18, <1>19, <1>20
     DEF Next, Handle, Break
-----------------------------------------------------------------------------
(* The guard and the retry ladder *)

\* Only what takes the key, or fails open, runs an attempt.
LEMMA RunsStep ==
    ASSUME TypeOK, [Next]_vars
    PROVE  \/ runs' = runs /\ guard' = guard /\ failOpen' = failOpen
           \/ \E w \in Workers :
                  /\ Claim(w) \/ GuardError(w)
                  /\ held[w] \in Copies /\ runs' = More(runs, held[w])
  <1>1. ASSUME NEW w \in Workers, Claim(w) \/ GuardError(w)
        PROVE  runs' = More(runs, held[w]) /\ held[w] \in Copies
    BY <1>1, BusyHoldsCopy DEF Claim, GuardError
  <1>2. ASSUME NEW w \in Workers, Handle(w) \/ Break(w), ~Claim(w), ~GuardError(w)
        PROVE  runs' = runs /\ guard' = guard /\ failOpen' = failOpen
    BY <1>2 DEF Handle, Break, ParseError, SkipDuplicate, ValidationFails, ProcessRaises, ProcessReturns,
                PublishRetry, DeadLetter, PublishResult, PublishFailsOffline, Ack, Reconnect,
                PublishFails, ConnectionLost, Crash, Shutdown, Restart, historyVars, cutVars
  <1>3. ASSUME NEW w \in Workers, NEW c \in Copies, Receive(w, c)
        PROVE  runs' = runs /\ guard' = guard /\ failOpen' = failOpen
    BY <1>3 DEF Receive, historyVars
  <1> QED
    BY <1>1, <1>2, <1>3 DEF Next, vars, historyVars

\* Runs and guard errors are never forgotten.
LEMMA RunsGrow ==
    ASSUME TypeOK, [Next]_vars
    PROVE  \A c \in Copies : /\ runs'[c] >= runs[c] /\ (runs[c] > 0 => runs'[c] > 0)
                             /\ failOpen'[c] >= failOpen[c]
  <1>1. /\ runs \in [Copies -> Nat] /\ \A c \in Copies : runs[c] \in Nat
        /\ failOpen \in [Copies -> Nat] /\ \A c \in Copies : failOpen[c] \in Nat
    BY DEF TypeOK
  <1>2. CASE runs' = runs /\ guard' = guard /\ failOpen' = failOpen
    BY <1>1, <1>2
  <1>3. ASSUME NEW w \in Workers, Claim(w) \/ GuardError(w), held[w] \in Copies, runs' = More(runs, held[w])
        PROVE  \A c \in Copies : /\ runs'[c] >= runs[c] /\ (runs[c] > 0 => runs'[c] > 0)
                                 /\ failOpen'[c] >= failOpen[c]
    <2>1. failOpen' = failOpen \/ failOpen' = More(failOpen, held[w])
      BY <1>3 DEF Claim, GuardError
    <2> QED
      BY <1>1, <1>3, <2>1 DEF More
  <1> QED
    BY <1>2, <1>3, RunsStep

\* Every run takes the key or is counted as a guard error, and never of what does
\* not parse.
LEMMA GuardStep == TypeOK /\ GuardInv /\ [Next]_vars => GuardInv'
  <1> SUFFICES ASSUME TypeOK, GuardInv, [Next]_vars PROVE GuardInv'
    OBVIOUS
  <1>1. CASE runs' = runs /\ guard' = guard /\ failOpen' = failOpen
    BY <1>1 DEF GuardInv
  <1>2. ASSUME NEW w \in Workers, Claim(w) \/ GuardError(w), held[w] \in Copies PROVE GuardInv'
    <2>1. held[w][1] \notin Malformed
      BY <1>2 DEF Claim, GuardError, Msg
    <2>2. /\ runs' = [runs EXCEPT ![held[w]] = runs[held[w]] + 1]
          /\ \/ failOpen' = failOpen /\ held[w] \notin guard /\ guard' = guard \cup {held[w]}
             \/ /\ failOpen' = [failOpen EXCEPT ![held[w]] = failOpen[held[w]] + 1]
                /\ guard' \in {guard, guard \cup {held[w]}}
      BY <1>2 DEF Claim, GuardError, More
    <2> QED
      BY <1>2, <2>1, <2>2 DEF GuardInv, TypeOK
  <1> QED
    BY <1>1, <1>2, RunsStep

\* What does not parse is never handled, and what is invalid never processed.
LEMMA RejectStep == TypeOK /\ RejectInv /\ [Next]_vars => RejectInv'
<1> SUFFICES ASSUME TypeOK, RejectInv, [Next]_vars PROVE RejectInv'
  OBVIOUS
<1> USE DEF TypeOK, RejectInv, Goto, Finish, Msg, AfterBurial
<1>1. ASSUME Topology, UNCHANGED <<guard, workerVars, historyVars>> PROVE RejectInv'
  BY <1>1 DEF workerVars, Statuses
<1>2. ASSUME NEW w \in Workers, NEW c \in Copies, Receive(w, c) PROVE RejectInv'
  BY <1>2 DEF Receive, Statuses
<1>3. ASSUME NEW w \in Workers, ParseError(w) PROVE RejectInv'
  BY <1>3 DEF ParseError, Publishing, Statuses, queueVars
<1>4. ASSUME NEW w \in Workers, Claim(w) PROVE RejectInv'
  BY <1>4 DEF Claim, Publishing, Statuses, queueVars
<1>5. ASSUME NEW w \in Workers, SkipDuplicate(w) PROVE RejectInv'
  BY <1>5 DEF SkipDuplicate, Publishing, Statuses, queueVars
<1>6. ASSUME NEW w \in Workers, ValidationFails(w) PROVE RejectInv'
  BY <1>6 DEF ValidationFails, Publishing, Statuses, queueVars
<1>7. ASSUME NEW w \in Workers, ProcessRaises(w) PROVE RejectInv'
  BY <1>7 DEF ProcessRaises, Publishing, Statuses, queueVars
<1>8. ASSUME NEW w \in Workers, NEW status \in Statuses, ProcessReturns(w, status) PROVE RejectInv'
  BY <1>8 DEF ProcessReturns, Publishing, Statuses, queueVars
<1>9. ASSUME NEW w \in Workers, PublishRetry(w) PROVE RejectInv'
  BY <1>9 DEF PublishRetry, Publishing, Statuses, queueVars
<1>10. ASSUME NEW w \in Workers, DeadLetter(w) PROVE RejectInv'
  BY <1>10 DEF DeadLetter, Publishing, Statuses, queueVars
<1>11. ASSUME NEW w \in Workers, PublishResult(w) PROVE RejectInv'
  BY <1>11 DEF PublishResult, Publishing, Statuses, queueVars
<1>12. ASSUME NEW w \in Workers, PublishFailsOffline(w) PROVE RejectInv'
  BY <1>12 DEF PublishFailsOffline, Publishing, Statuses, queueVars
<1>13. ASSUME NEW w \in Workers, Ack(w) PROVE RejectInv'
  BY <1>13 DEF Ack, Publishing, Statuses, queueVars
<1>14. ASSUME NEW w \in Workers, Reconnect(w) PROVE RejectInv'
  BY <1>14 DEF Reconnect, Publishing, Statuses, queueVars
<1>15. ASSUME NEW w \in Workers, GuardError(w) PROVE RejectInv'
  BY <1>15 DEF GuardError, Publishing, Statuses, queueVars
<1>16. ASSUME NEW w \in Workers, PublishFails(w) PROVE RejectInv'
  BY <1>16 DEF PublishFails, Publishing, Statuses, queueVars
<1>17. ASSUME NEW w \in Workers, ConnectionLost(w) PROVE RejectInv'
  BY <1>17 DEF ConnectionLost, Publishing, Statuses, queueVars
<1>18. ASSUME NEW w \in Workers, Crash(w) PROVE RejectInv'
  BY <1>18 DEF Crash, Restart, Publishing, Statuses, queueVars
<1>19. ASSUME NEW w \in Workers, Shutdown(w) PROVE RejectInv'
  BY <1>19 DEF Shutdown, Restart, Publishing, Statuses, queueVars
<1>20. CASE UNCHANGED vars
  BY <1>20 DEF vars, workerVars, Statuses
<1> QED
  BY <1>1, <1>2, <1>3, <1>4, <1>5, <1>6, <1>7, <1>8, <1>9, <1>10, <1>11, <1>12,
     <1>13, <1>14, <1>15, <1>16, <1>17, <1>18, <1>19, <1>20
     DEF Next, Handle, Break

\* A copy enters a queue only after a run of each attempt below its own.
LEMMA CopiesClimbedStep == TypeOK /\ RejectInv /\ LadderInv /\ [Next]_vars => CopiesClimbed'
<1> SUFFICES ASSUME TypeOK, RejectInv, LadderInv, [Next]_vars PROVE CopiesClimbed'
  OBVIOUS
<1>runs. \A c \in Copies : runs[c] > 0 => runs'[c] > 0
  BY RunsGrow
<1>types. /\ QueueTypeOK
          /\ ready \in [Copies -> Nat] /\ \A c \in Copies : ready[c] \in Nat /\ wait[c] \in Nat /\ dlq[c] \in Nat
          /\ \A c \in Copies : c[1] \in Msgs /\ \A a \in 0..Tiers : <<c[1], a>> \in Copies
          /\ \A c \in Copies : wait'[c] \in Nat /\ dlq'[c] \in Nat /\ ready'[c] \in Nat
  <2>1. QueueTypeOK /\ QueueTypeOK'
    BY TypeStep DEF TypeOK
  <2>2. \A c \in Copies : wait'[c] \in Nat /\ dlq'[c] \in Nat /\ ready'[c] \in Nat
    BY <2>1 DEF QueueTypeOK
  <2> QED
    BY <2>1, <2>2, QueuesAreBags, CopyParts DEF Copies
<1>ran. \A c \in Copies : c[1] \notin Malformed /\ runs'[c] > 0 =>
            \A a \in 0..Tiers : a < c[2] => runs[<<c[1], a>>] > 0
  <2>1. CASE runs' = runs
    BY <2>1 DEF LadderInv, CopiesClimbed
  <2>2. ASSUME NEW w \in Workers, Claim(w) \/ GuardError(w), held[w] \in Copies, runs' = More(runs, held[w])
        PROVE  \A c \in Copies : c[1] \notin Malformed /\ runs'[c] > 0 =>
                   \A a \in 0..Tiers : a < c[2] => runs[<<c[1], a>>] > 0
    <3>1. runs \in [Copies -> Nat] /\ \A c \in Copies : c # held[w] => runs'[c] = runs[c]
      BY <2>2, MoreBag DEF TypeOK
    <3>2. /\ Msg(w) = held[w][1]
          /\ Msg(w) \notin Malformed => \A a \in 0..Tiers : a < held[w][2] => runs[<<Msg(w), a>>] > 0
      BY <2>2 DEF Claim, GuardError, LadderInv, HandsClimbed, Msg
    <3> QED
      BY <3>1, <3>2 DEF LadderInv, CopiesClimbed
  <2> QED
    BY <2>1, <2>2, RunsStep
<1>1. ASSUME Topology, UNCHANGED <<guard, workerVars, historyVars>> PROVE CopiesClimbed'
  <2>1. /\ dlq' = dlq
        /\ \A c \in Copies : wait'[c] <= wait[c] /\ wait'[c] \in Nat
        /\ \A c \in Copies : ready'[c] > 0 =>
               \/ ready[c] > 0 \/ c[2] = 0
               \/ c[2] > 0 /\ <<c[1], c[2] - 1>> \in Copies /\ wait[<<c[1], c[2] - 1>>] > 0
    BY <1>1, <1>types, TopologyAddsNothing
  <2>2. ASSUME NEW c \in Copies, c[1] \notin Malformed, ready'[c] > 0 \/ wait'[c] > 0, NEW a \in 0..Tiers, a < c[2]
        PROVE  runs[<<c[1], a>>] > 0
    <3>1. c[2] \in 0..Tiers
      BY CopyParts
    <3>2. CASE ready[c] > 0 \/ wait[c] > 0
      BY <3>2, <2>2 DEF CopiesClimbed, LadderInv
    <3>3. CASE ~(ready[c] > 0 \/ wait[c] > 0)
      <4>1. c[2] > 0 /\ <<c[1], c[2] - 1>> \in Copies /\ wait[<<c[1], c[2] - 1>>] > 0
        BY <3>3, <2>1, <2>2, <3>1, <1>types
      <4>2. CASE a = c[2] - 1
        BY <4>1, <4>2, <2>2 DEF CopiesClimbed, LadderInv
      <4>3. CASE a < c[2] - 1
        BY <4>1, <4>3, <2>2 DEF CopiesClimbed, LadderInv
      <4> QED
        BY <4>2, <4>3, <2>2, <3>1
    <3> QED
      BY <3>2, <3>3
  <2>3. \A c \in Copies : wait'[c] > 0 => wait[c] > 0
    BY <2>1, <1>types
  <2>4. runs' = runs
    BY <1>1 DEF historyVars
  <2> QED
    BY <2>1, <2>2, <2>3, <2>4, <1>ran DEF CopiesClimbed, LadderInv
<1>2. ASSUME NEW w \in Workers, NEW c \in Copies, Receive(w, c) PROVE CopiesClimbed'
  <2>1. \A d \in Copies : ready'[d] > 0 => ready[d] > 0
    BY <1>2, <1>types, LessBag DEF Receive
  <2>2. wait' = wait /\ dlq' = dlq
    BY <1>2 DEF Receive
  <2> QED
    BY <2>1, <2>2, <1>runs, <1>types, <1>ran DEF CopiesClimbed, LadderInv
<1>3. ASSUME NEW w \in Workers, ParseError(w) PROVE CopiesClimbed'
  <2>1. ready' = ready /\ wait' = wait /\ dlq' = dlq
    BY <1>3 DEF ParseError, queueVars
  <2> QED
    BY <2>1, <1>runs, <1>types, <1>ran DEF CopiesClimbed, LadderInv
<1>4. ASSUME NEW w \in Workers, Claim(w) PROVE CopiesClimbed'
  <2>1. ready' = ready /\ wait' = wait /\ dlq' = dlq
    BY <1>4 DEF Claim, queueVars
  <2> QED
    BY <2>1, <1>runs, <1>types, <1>ran DEF CopiesClimbed, LadderInv
<1>5. ASSUME NEW w \in Workers, SkipDuplicate(w) PROVE CopiesClimbed'
  <2>1. ready' = ready /\ wait' = wait /\ dlq' = dlq
    BY <1>5 DEF SkipDuplicate, queueVars
  <2> QED
    BY <2>1, <1>runs, <1>types, <1>ran DEF CopiesClimbed, LadderInv
<1>6. ASSUME NEW w \in Workers, ValidationFails(w) PROVE CopiesClimbed'
  <2>1. ready' = ready /\ wait' = wait /\ dlq' = dlq
    BY <1>6 DEF ValidationFails, queueVars
  <2> QED
    BY <2>1, <1>runs, <1>types, <1>ran DEF CopiesClimbed, LadderInv
<1>7. ASSUME NEW w \in Workers, ProcessRaises(w) PROVE CopiesClimbed'
  <2>1. ready' = ready /\ wait' = wait /\ dlq' = dlq
    BY <1>7 DEF ProcessRaises, queueVars
  <2> QED
    BY <2>1, <1>runs, <1>types, <1>ran DEF CopiesClimbed, LadderInv
<1>8. ASSUME NEW w \in Workers, NEW status \in Statuses, ProcessReturns(w, status) PROVE CopiesClimbed'
  <2>1. ready' = ready /\ wait' = wait /\ dlq' = dlq
    BY <1>8 DEF ProcessReturns, queueVars
  <2> QED
    BY <2>1, <1>runs, <1>types, <1>ran DEF CopiesClimbed, LadderInv
<1>9. ASSUME NEW w \in Workers, PublishRetry(w) PROVE CopiesClimbed'
  <2>1. /\ held[w] \in Copies /\ pc[w] \in Publishing /\ pc[w] # "idle" /\ held[w][1] = Msg(w)
        /\ held[w] = <<Msg(w), held[w][2]>> /\ held[w][2] \in 0..Tiers
        /\ Accept(pc[w], held[w]) \/ Lose
    BY <1>9, PublishMeans, BusyHoldsCopy DEF Msg
  <2>2. Msg(w) \notin Malformed =>
           /\ \A a \in 0..Tiers : a < held[w][2] => runs[<<Msg(w), a>>] > 0
           /\ pc[w] = "retry" => runs[held[w]] > 0
           /\ pc[w] = "dead" /\ Msg(w) \notin Invalid => \A a \in 0..Tiers : runs[<<Msg(w), a>>] > 0
    BY <2>1, WorkQueueAssumption DEF LadderInv, HandsClimbed, Owning, WorkQueueAssumption
  <2>3. \A d \in Copies : wait'[d] > 0 => wait[d] > 0 \/ (d = held[w] /\ pc[w] = "retry")
    BY <2>1, <1>types, AcceptFiles
  <2>4. \A d \in Copies : dlq'[d] > 0 => dlq[d] > 0 \/ (d = held[w] /\ pc[w] = "dead")
    BY <2>1, <1>types, AcceptFiles
  <2>5. \A d \in Copies : ready'[d] > 0 => ready[d] > 0 \/ d = held[w]
    BY <1>9, <2>1, <1>types DEF PublishRetry, More
  <2> QED
    BY <2>1, <2>2, <2>3, <2>4, <2>5, <1>runs, <1>types, <1>ran DEF CopiesClimbed, LadderInv
<1>10. ASSUME NEW w \in Workers, DeadLetter(w) PROVE CopiesClimbed'
  <2>1. /\ held[w] \in Copies /\ pc[w] \in Publishing /\ pc[w] # "idle" /\ held[w][1] = Msg(w)
        /\ held[w] = <<Msg(w), held[w][2]>> /\ held[w][2] \in 0..Tiers
        /\ Accept(pc[w], held[w]) \/ Lose
    BY <1>10, PublishMeans, BusyHoldsCopy DEF Msg
  <2>2. Msg(w) \notin Malformed =>
           /\ \A a \in 0..Tiers : a < held[w][2] => runs[<<Msg(w), a>>] > 0
           /\ pc[w] = "retry" => runs[held[w]] > 0
           /\ pc[w] = "dead" /\ Msg(w) \notin Invalid => \A a \in 0..Tiers : runs[<<Msg(w), a>>] > 0
    BY <2>1, WorkQueueAssumption DEF LadderInv, HandsClimbed, Owning, WorkQueueAssumption
  <2>3. \A d \in Copies : wait'[d] > 0 => wait[d] > 0 \/ (d = held[w] /\ pc[w] = "retry")
    BY <2>1, <1>types, AcceptFiles
  <2>4. \A d \in Copies : dlq'[d] > 0 => dlq[d] > 0 \/ (d = held[w] /\ pc[w] = "dead")
    BY <2>1, <1>types, AcceptFiles
  <2>5. \A d \in Copies : ready'[d] > 0 => ready[d] > 0 \/ d = held[w]
    BY <1>10, <2>1, <1>types DEF DeadLetter, More
  <2> QED
    BY <2>1, <2>2, <2>3, <2>4, <2>5, <1>runs, <1>types, <1>ran DEF CopiesClimbed, LadderInv
<1>11. ASSUME NEW w \in Workers, PublishResult(w) PROVE CopiesClimbed'
  <2>1. /\ held[w] \in Copies /\ pc[w] \in Publishing /\ pc[w] # "idle" /\ held[w][1] = Msg(w)
        /\ held[w] = <<Msg(w), held[w][2]>> /\ held[w][2] \in 0..Tiers
        /\ Accept(pc[w], held[w]) \/ Lose
    BY <1>11, PublishMeans, BusyHoldsCopy DEF Msg
  <2>2. Msg(w) \notin Malformed =>
           /\ \A a \in 0..Tiers : a < held[w][2] => runs[<<Msg(w), a>>] > 0
           /\ pc[w] = "retry" => runs[held[w]] > 0
           /\ pc[w] = "dead" /\ Msg(w) \notin Invalid => \A a \in 0..Tiers : runs[<<Msg(w), a>>] > 0
    BY <2>1, WorkQueueAssumption DEF LadderInv, HandsClimbed, Owning, WorkQueueAssumption
  <2>3. \A d \in Copies : wait'[d] > 0 => wait[d] > 0 \/ (d = held[w] /\ pc[w] = "retry")
    BY <2>1, <1>types, AcceptFiles
  <2>4. \A d \in Copies : dlq'[d] > 0 => dlq[d] > 0 \/ (d = held[w] /\ pc[w] = "dead")
    BY <2>1, <1>types, AcceptFiles
  <2>5. \A d \in Copies : ready'[d] > 0 => ready[d] > 0 \/ d = held[w]
    BY <1>11, <2>1, <1>types DEF PublishResult, More
  <2> QED
    BY <2>1, <2>2, <2>3, <2>4, <2>5, <1>runs, <1>types, <1>ran DEF CopiesClimbed, LadderInv
<1>12. ASSUME NEW w \in Workers, PublishFailsOffline(w) PROVE CopiesClimbed'
  <2>1. /\ held[w] \in Copies /\ pc[w] \in Publishing /\ pc[w] # "idle" /\ held[w][1] = Msg(w)
        /\ held[w] = <<Msg(w), held[w][2]>> /\ held[w][2] \in 0..Tiers
        /\ Accept(pc[w], held[w]) \/ Lose
    BY <1>12, PublishMeans, BusyHoldsCopy DEF Msg
  <2>2. Msg(w) \notin Malformed =>
           /\ \A a \in 0..Tiers : a < held[w][2] => runs[<<Msg(w), a>>] > 0
           /\ pc[w] = "retry" => runs[held[w]] > 0
           /\ pc[w] = "dead" /\ Msg(w) \notin Invalid => \A a \in 0..Tiers : runs[<<Msg(w), a>>] > 0
    BY <2>1, WorkQueueAssumption DEF LadderInv, HandsClimbed, Owning, WorkQueueAssumption
  <2>3. \A d \in Copies : wait'[d] > 0 => wait[d] > 0 \/ (d = held[w] /\ pc[w] = "retry")
    BY <2>1, <1>types, AcceptFiles
  <2>4. \A d \in Copies : dlq'[d] > 0 => dlq[d] > 0 \/ (d = held[w] /\ pc[w] = "dead")
    BY <2>1, <1>types, AcceptFiles
  <2>5. \A d \in Copies : ready'[d] > 0 => ready[d] > 0 \/ d = held[w]
    BY <1>12, <2>1, <1>types DEF PublishFailsOffline, More
  <2> QED
    BY <2>1, <2>2, <2>3, <2>4, <2>5, <1>runs, <1>types, <1>ran DEF CopiesClimbed, LadderInv
<1>13. ASSUME NEW w \in Workers, Ack(w) PROVE CopiesClimbed'
  <2>1. ready' = ready /\ wait' = wait /\ dlq' = dlq
    BY <1>13 DEF Ack, queueVars
  <2> QED
    BY <2>1, <1>runs, <1>types, <1>ran DEF CopiesClimbed, LadderInv
<1>14. ASSUME NEW w \in Workers, Reconnect(w) PROVE CopiesClimbed'
  <2>1. ready' = ready /\ wait' = wait /\ dlq' = dlq
    BY <1>14 DEF Reconnect, queueVars
  <2> QED
    BY <2>1, <1>runs, <1>types, <1>ran DEF CopiesClimbed, LadderInv
<1>15. ASSUME NEW w \in Workers, GuardError(w) PROVE CopiesClimbed'
  <2>1. ready' = ready /\ wait' = wait /\ dlq' = dlq
    BY <1>15 DEF GuardError, queueVars
  <2> QED
    BY <2>1, <1>runs, <1>types, <1>ran DEF CopiesClimbed, LadderInv
<1>16. ASSUME NEW w \in Workers, PublishFails(w) PROVE CopiesClimbed'
  <2>1. /\ held[w] \in Copies /\ pc[w] \in Publishing /\ pc[w] # "idle" /\ held[w][1] = Msg(w)
        /\ held[w] = <<Msg(w), held[w][2]>> /\ held[w][2] \in 0..Tiers
        /\ Accept(pc[w], held[w]) \/ Lose
    BY <1>16, PublishMeans, BusyHoldsCopy DEF Msg
  <2>2. Msg(w) \notin Malformed =>
           /\ \A a \in 0..Tiers : a < held[w][2] => runs[<<Msg(w), a>>] > 0
           /\ pc[w] = "retry" => runs[held[w]] > 0
           /\ pc[w] = "dead" /\ Msg(w) \notin Invalid => \A a \in 0..Tiers : runs[<<Msg(w), a>>] > 0
    BY <2>1, WorkQueueAssumption DEF LadderInv, HandsClimbed, Owning, WorkQueueAssumption
  <2>3. \A d \in Copies : wait'[d] > 0 => wait[d] > 0 \/ (d = held[w] /\ pc[w] = "retry")
    BY <2>1, <1>types, AcceptFiles
  <2>4. \A d \in Copies : dlq'[d] > 0 => dlq[d] > 0 \/ (d = held[w] /\ pc[w] = "dead")
    BY <2>1, <1>types, AcceptFiles
  <2>5. \A d \in Copies : ready'[d] > 0 => ready[d] > 0 \/ d = held[w]
    BY <1>16, <2>1, <1>types DEF PublishFails, More
  <2> QED
    BY <2>1, <2>2, <2>3, <2>4, <2>5, <1>runs, <1>types, <1>ran DEF CopiesClimbed, LadderInv
<1>17. ASSUME NEW w \in Workers, ConnectionLost(w) PROVE CopiesClimbed'
  <2>1. \A d \in Copies : ready'[d] > 0 => ready[d] > 0 \/ (pc[w] # "idle" /\ d = held[w])
    BY <1>17, RedeliverReturns, <1>types DEF ConnectionLost
  <2>2. wait' = wait /\ dlq' = dlq
    BY <1>17 DEF ConnectionLost
  <2>3. pc[w] # "idle" /\ Msg(w) \notin Malformed => \A a \in 0..Tiers : a < held[w][2] => runs[<<Msg(w), a>>] > 0
    BY DEF LadderInv, HandsClimbed
  <2> QED
    BY <2>1, <2>2, <2>3, <1>runs, <1>types, <1>ran DEF CopiesClimbed, LadderInv, Msg
<1>18. ASSUME NEW w \in Workers, Crash(w) PROVE CopiesClimbed'
  <2>1. \A d \in Copies : ready'[d] > 0 => ready[d] > 0 \/ (pc[w] # "idle" /\ d = held[w])
    BY <1>18, RedeliverReturns, <1>types DEF Crash, Restart
  <2>2. wait' = wait /\ dlq' = dlq
    BY <1>18 DEF Crash, Restart
  <2>3. pc[w] # "idle" /\ Msg(w) \notin Malformed => \A a \in 0..Tiers : a < held[w][2] => runs[<<Msg(w), a>>] > 0
    BY DEF LadderInv, HandsClimbed
  <2> QED
    BY <2>1, <2>2, <2>3, <1>runs, <1>types, <1>ran DEF CopiesClimbed, LadderInv, Msg
<1>19. ASSUME NEW w \in Workers, Shutdown(w) PROVE CopiesClimbed'
  <2>1. \A d \in Copies : ready'[d] > 0 => ready[d] > 0 \/ (pc[w] # "idle" /\ d = held[w])
    BY <1>19, RedeliverReturns, <1>types DEF Shutdown, Restart
  <2>2. wait' = wait /\ dlq' = dlq
    BY <1>19 DEF Shutdown, Restart
  <2>3. pc[w] # "idle" /\ Msg(w) \notin Malformed => \A a \in 0..Tiers : a < held[w][2] => runs[<<Msg(w), a>>] > 0
    BY DEF LadderInv, HandsClimbed
  <2> QED
    BY <2>1, <2>2, <2>3, <1>runs, <1>types, <1>ran DEF CopiesClimbed, LadderInv, Msg
<1>20. CASE UNCHANGED vars
  <2>1. ready' = ready /\ wait' = wait /\ dlq' = dlq
    BY <1>20 DEF vars, queueVars
  <2> QED
    BY <2>1, <1>runs, <1>types, <1>ran DEF CopiesClimbed, LadderInv
<1> QED
  BY <1>1, <1>2, <1>3, <1>4, <1>5, <1>6, <1>7, <1>8, <1>9, <1>10, <1>11, <1>12,
     <1>13, <1>14, <1>15, <1>16, <1>17, <1>18, <1>19, <1>20
     DEF Next, Handle, Break

\* A worker's copy comes from the queue, and is handed on only after a run.
LEMMA HandsClimbedStep == TypeOK /\ RejectInv /\ LadderInv /\ [Next]_vars => HandsClimbed'
<1> SUFFICES ASSUME TypeOK, RejectInv, LadderInv, [Next]_vars PROVE HandsClimbed'
  OBVIOUS
<1> USE DEF TypeOK, LadderInv, HandsClimbed, Owning, Msg, Goto, Finish, AfterBurial
<1>runs. \A c \in Copies : runs[c] > 0 => runs'[c] > 0
  BY RunsGrow
<1>types. \A w \in Workers : pc[w] # "idle" =>
              held[w] \in Copies /\ \A a \in 0..Tiers : <<held[w][1], a>> \in Copies
  BY BusyHoldsCopy, CopyParts DEF Copies
<1>1. ASSUME Topology, UNCHANGED <<guard, workerVars, historyVars>> PROVE HandsClimbed'
  BY <1>1, <1>runs, <1>types DEF workerVars
<1>2. ASSUME NEW w \in Workers, NEW c \in Copies, Receive(w, c) PROVE HandsClimbed'
  <2>1. c[1] \notin Malformed => \A a \in 0..Tiers : a < c[2] => runs'[<<c[1], a>>] > 0
    <3>1. ready[c] > 0 /\ \A a \in 0..Tiers : <<c[1], a>> \in Copies
      BY <1>2, CopyParts DEF Receive, Copies
    <3> QED
      BY <3>1, <1>runs DEF CopiesClimbed
  <2>2. /\ pc' = [pc EXCEPT ![w] = "begin"] /\ held' = [held EXCEPT ![w] = c]
    BY <1>2 DEF Receive
  <2> QED
    BY <2>1, <2>2, <1>runs, <1>types DEF Publishing, Statuses
<1>3. ASSUME NEW w \in Workers, ParseError(w) PROVE HandsClimbed'
  BY <1>3, <1>runs, <1>types DEF ParseError, Publishing, Statuses
<1>4. ASSUME NEW w \in Workers, Claim(w) PROVE HandsClimbed'
  <2>1. held[w] \in Copies /\ held' = held /\ runs'[held[w]] > 0
    <3>1. held[w] \in Copies
      BY <1>4, BusyHoldsCopy DEF Claim
    <3> QED
      BY <1>4, <3>1, MoreBag DEF Claim
  <2>2. pc' = [pc EXCEPT ![w] = "handler"] /\ pc[w] # "idle"
    BY <1>4 DEF Claim
  <2> QED
    BY <2>1, <2>2, <1>runs, <1>types
<1>5. ASSUME NEW w \in Workers, SkipDuplicate(w) PROVE HandsClimbed'
  BY <1>5, <1>runs, <1>types DEF SkipDuplicate, Publishing, Statuses
<1>6. ASSUME NEW w \in Workers, ValidationFails(w) PROVE HandsClimbed'
  BY <1>6, <1>runs, <1>types DEF ValidationFails, Publishing, Statuses
<1>7. ASSUME NEW w \in Workers, ProcessRaises(w) PROVE HandsClimbed'
  <2>1. held[w][2] \in 0..Tiers /\ Attempt(held[w]) = held[w][2]
    BY <1>7, BusyHoldsCopy DEF ProcessRaises, Attempt
  <2>2. /\ pc[w] = "handler" /\ held' = held
        /\ pc' = [pc EXCEPT ![w] = IF held[w][2] < Tiers THEN "retry" ELSE "dead"]
    BY <1>7, <2>1 DEF ProcessRaises, select_tier
  <2>3. /\ pc'[w] = "retry" \/ (pc'[w] = "dead" /\ held[w][2] = Tiers)
        /\ \A v \in Workers : v # w => pc'[v] = pc[v]
    BY <2>1, <2>2, WorkQueueAssumption DEF WorkQueueAssumption
  <2> QED
    BY <2>2, <2>3, <1>runs, <1>types
<1>8. ASSUME NEW w \in Workers, NEW status \in Statuses, ProcessReturns(w, status) PROVE HandsClimbed'
  BY <1>8, <1>runs, <1>types DEF ProcessReturns, Publishing, Statuses
<1>9. ASSUME NEW w \in Workers, PublishRetry(w) PROVE HandsClimbed'
  BY <1>9, <1>runs, <1>types DEF PublishRetry, Publishing, Statuses
<1>10. ASSUME NEW w \in Workers, DeadLetter(w) PROVE HandsClimbed'
  BY <1>10, <1>runs, <1>types DEF DeadLetter, Publishing, Statuses
<1>11. ASSUME NEW w \in Workers, PublishResult(w) PROVE HandsClimbed'
  BY <1>11, <1>runs, <1>types DEF PublishResult, Publishing, Statuses
<1>12. ASSUME NEW w \in Workers, PublishFailsOffline(w) PROVE HandsClimbed'
  BY <1>12, <1>runs, <1>types DEF PublishFailsOffline, Publishing, Statuses
<1>13. ASSUME NEW w \in Workers, Ack(w) PROVE HandsClimbed'
  BY <1>13, <1>runs, <1>types DEF Ack, Publishing, Statuses
<1>14. ASSUME NEW w \in Workers, Reconnect(w) PROVE HandsClimbed'
  BY <1>14, <1>runs, <1>types DEF Reconnect, Publishing, Statuses
<1>15. ASSUME NEW w \in Workers, GuardError(w) PROVE HandsClimbed'
  <2>1. held[w] \in Copies /\ held' = held /\ runs'[held[w]] > 0
    <3>1. held[w] \in Copies
      BY <1>15, BusyHoldsCopy DEF GuardError
    <3> QED
      BY <1>15, <3>1, MoreBag DEF GuardError
  <2>2. pc' = [pc EXCEPT ![w] = "handler"] /\ pc[w] # "idle"
    BY <1>15 DEF GuardError
  <2> QED
    BY <2>1, <2>2, <1>runs, <1>types
<1>16. ASSUME NEW w \in Workers, PublishFails(w) PROVE HandsClimbed'
  BY <1>16, <1>runs, <1>types DEF PublishFails, Publishing, Statuses
<1>17. ASSUME NEW w \in Workers, ConnectionLost(w) PROVE HandsClimbed'
  BY <1>17, <1>runs, <1>types DEF ConnectionLost, Publishing, Statuses
<1>18. ASSUME NEW w \in Workers, Crash(w) PROVE HandsClimbed'
  BY <1>18, <1>runs, <1>types DEF Crash, Restart, Publishing, Statuses
<1>19. ASSUME NEW w \in Workers, Shutdown(w) PROVE HandsClimbed'
  BY <1>19, <1>runs, <1>types DEF Shutdown, Restart, Publishing, Statuses
<1>20. CASE UNCHANGED vars
  BY <1>20, <1>runs, <1>types DEF vars, workerVars
<1> QED
  BY <1>1, <1>2, <1>3, <1>4, <1>5, <1>6, <1>7, <1>8, <1>9, <1>10, <1>11, <1>12,
     <1>13, <1>14, <1>15, <1>16, <1>17, <1>18, <1>19, <1>20
     DEF Next, Handle, Break
-----------------------------------------------------------------------------
(* What stays, whether results are true, and lost connections *)

\* What is buried, reported, returned or cut off stays so.
LEMMA HistoryGrows ==
    ASSUME TypeOK, [Next]_vars
    PROVE  /\ \A c \in Copies : dlq[c] > 0 => dlq'[c] > 0
           /\ results \subseteq results' /\ returned \subseteq returned'
           /\ severed \subseteq severed' /\ requeued \subseteq requeued' /\ cancelled \subseteq cancelled'
<1> DEFINE Goal ==
       /\ \A c \in Copies : dlq[c] > 0 => dlq'[c] > 0
       /\ results \subseteq results' /\ returned \subseteq returned'
       /\ severed \subseteq severed' /\ requeued \subseteq requeued' /\ cancelled \subseteq cancelled'
<1>0. QueueTypeOK /\ \A c \in Copies : dlq[c] \in Nat
  BY QueuesAreBags DEF TypeOK
<1>bags. \A c \in Copies : dlq'[c] \in Nat
  <2>1. QueueTypeOK'
    BY TypeStep DEF TypeOK
  <2> QED
    BY <2>1 DEF QueueTypeOK
<1>1. ASSUME Topology, UNCHANGED <<guard, workerVars, historyVars>> PROVE Goal
  <2>1. dlq' = dlq /\ results' = results
    BY <1>1, <1>0, TopologyAddsNothing
  <2> QED
    BY <1>1, <2>1 DEF historyVars, cutVars
<1>2. ASSUME NEW w \in Workers, NEW c \in Copies, Receive(w, c) PROVE Goal
  BY <1>2 DEF Receive, historyVars, cutVars
<1>3. ASSUME NEW w \in Workers, ParseError(w) PROVE Goal
  BY <1>3 DEF ParseError, queueVars, historyVars, cutVars
<1>4. ASSUME NEW w \in Workers, Claim(w) PROVE Goal
  BY <1>4 DEF Claim, queueVars, historyVars, cutVars
<1>5. ASSUME NEW w \in Workers, SkipDuplicate(w) PROVE Goal
  BY <1>5 DEF SkipDuplicate, queueVars, historyVars, cutVars
<1>6. ASSUME NEW w \in Workers, ValidationFails(w) PROVE Goal
  BY <1>6 DEF ValidationFails, queueVars, historyVars, cutVars
<1>7. ASSUME NEW w \in Workers, ProcessRaises(w) PROVE Goal
  BY <1>7 DEF ProcessRaises, queueVars, historyVars, cutVars
<1>8. ASSUME NEW w \in Workers, NEW status \in Statuses, ProcessReturns(w, status) PROVE Goal
  BY <1>8 DEF ProcessReturns, queueVars, historyVars, cutVars
<1>9. ASSUME NEW w \in Workers, PublishRetry(w) PROVE Goal
  <2>1. pc[w] \in Publishing /\ held[w] \in Copies /\ (Accept(pc[w], held[w]) \/ Lose)
    BY <1>9, PublishMeans
  <2>2. \A c \in Copies : dlq'[c] >= dlq[c]
    BY <1>0, <2>1, AcceptFiles
  <2>3. results \subseteq results'
    BY <2>1 DEF Accept, Lose
  <2>4. returned' = returned /\ severed' = severed /\ requeued \subseteq requeued' /\ cancelled' = cancelled
    BY <1>9 DEF PublishRetry, historyVars, cutVars
  <2> QED
    BY <1>0, <1>bags, <2>2, <2>3, <2>4
<1>10. ASSUME NEW w \in Workers, DeadLetter(w) PROVE Goal
  <2>1. pc[w] \in Publishing /\ held[w] \in Copies /\ (Accept(pc[w], held[w]) \/ Lose)
    BY <1>10, PublishMeans
  <2>2. \A c \in Copies : dlq'[c] >= dlq[c]
    BY <1>0, <2>1, AcceptFiles
  <2>3. results \subseteq results'
    BY <2>1 DEF Accept, Lose
  <2>4. returned' = returned /\ severed' = severed /\ requeued \subseteq requeued' /\ cancelled' = cancelled
    BY <1>10 DEF DeadLetter, historyVars, cutVars
  <2> QED
    BY <1>0, <1>bags, <2>2, <2>3, <2>4
<1>11. ASSUME NEW w \in Workers, PublishResult(w) PROVE Goal
  <2>1. pc[w] \in Publishing /\ held[w] \in Copies /\ (Accept(pc[w], held[w]) \/ Lose)
    BY <1>11, PublishMeans
  <2>2. \A c \in Copies : dlq'[c] >= dlq[c]
    BY <1>0, <2>1, AcceptFiles
  <2>3. results \subseteq results'
    BY <2>1 DEF Accept, Lose
  <2>4. returned' = returned /\ severed' = severed /\ requeued \subseteq requeued' /\ cancelled' = cancelled
    BY <1>11 DEF PublishResult, historyVars, cutVars
  <2> QED
    BY <1>0, <1>bags, <2>2, <2>3, <2>4
<1>12. ASSUME NEW w \in Workers, PublishFailsOffline(w) PROVE Goal
  <2>1. pc[w] \in Publishing /\ held[w] \in Copies /\ (Accept(pc[w], held[w]) \/ Lose)
    BY <1>12, PublishMeans
  <2>2. \A c \in Copies : dlq'[c] >= dlq[c]
    BY <1>0, <2>1, AcceptFiles
  <2>3. results \subseteq results'
    BY <2>1 DEF Accept, Lose
  <2>4. returned' = returned /\ severed' = severed /\ requeued \subseteq requeued' /\ cancelled' = cancelled
    BY <1>12 DEF PublishFailsOffline, historyVars, cutVars
  <2> QED
    BY <1>0, <1>bags, <2>2, <2>3, <2>4
<1>13. ASSUME NEW w \in Workers, Ack(w) PROVE Goal
  BY <1>13 DEF Ack, queueVars, historyVars, cutVars
<1>14. ASSUME NEW w \in Workers, Reconnect(w) PROVE Goal
  BY <1>14 DEF Reconnect, queueVars, historyVars, cutVars
<1>15. ASSUME NEW w \in Workers, GuardError(w) PROVE Goal
  BY <1>15 DEF GuardError, queueVars, historyVars, cutVars
<1>16. ASSUME NEW w \in Workers, PublishFails(w) PROVE Goal
  <2>1. pc[w] \in Publishing /\ held[w] \in Copies /\ (Accept(pc[w], held[w]) \/ Lose)
    BY <1>16, PublishMeans
  <2>2. \A c \in Copies : dlq'[c] >= dlq[c]
    BY <1>0, <2>1, AcceptFiles
  <2>3. results \subseteq results'
    BY <2>1 DEF Accept, Lose
  <2>4. returned' = returned /\ severed' = severed /\ requeued \subseteq requeued' /\ cancelled' = cancelled
    BY <1>16 DEF PublishFails, historyVars, cutVars
  <2> QED
    BY <1>0, <1>bags, <2>2, <2>3, <2>4
<1>17. ASSUME NEW w \in Workers, ConnectionLost(w) PROVE Goal
  BY <1>17 DEF ConnectionLost, queueVars, historyVars, cutVars
<1>18. ASSUME NEW w \in Workers, Crash(w) PROVE Goal
  BY <1>18 DEF Crash, Restart, queueVars, historyVars, cutVars
<1>19. ASSUME NEW w \in Workers, Shutdown(w) PROVE Goal
  BY <1>19 DEF Shutdown, Restart, queueVars, historyVars, cutVars
<1>20. CASE UNCHANGED vars
  BY <1>20 DEF vars, queueVars, historyVars, cutVars
<1> QED
  BY <1>1, <1>2, <1>3, <1>4, <1>5, <1>6, <1>7, <1>8, <1>9, <1>10, <1>11, <1>12,
     <1>13, <1>14, <1>15, <1>16, <1>17, <1>18, <1>19, <1>20
     DEF Next, Handle, Break

\* What is over for a message stays over.
LEMMA OverStays ==
    ASSUME TypeOK, [Next]_vars, NEW m \in Msgs
    PROVE  /\ Buried(m) => Buried(m)'
           /\ Over(m) => Over(m)'
  <1>1. \A a \in 0..Tiers : <<m, a>> \in Copies
    BY DEF Copies
  <1>2. Buried(m) => Buried(m)'
    BY <1>1, HistoryGrows DEF Buried
  <1>3. Settled(m) => Settled(m)'
    BY <1>2, HistoryGrows DEF Settled, Reported
  <1> QED
    BY <1>2, <1>3, HistoryGrows DEF Over

\* A worker gets to a result past the handler's return or the dead letter.
LEMMA TruthStep == TypeOK /\ TruthInv /\ [Next]_vars => TruthInv'
<1> SUFFICES ASSUME TypeOK, TruthInv, [Next]_vars PROVE TruthInv'
  OBVIOUS
<1> USE DEF TypeOK, TruthInv, ResultsAreTrue, Reported, Goto, Finish, Msg, AfterBurial
<1>stays. /\ \A m \in Msgs : Buried(m) => Buried(m)'
          /\ returned \subseteq returned'
  BY OverStays, HistoryGrows
<1>hands. \A w \in Workers : pc[w] # "idle" => held[w] \in Copies /\ Msg(w) \in Msgs
  BY BusyHoldsCopy
<1>1. ASSUME Topology, UNCHANGED <<guard, workerVars, historyVars>> PROVE TruthInv'
  <2>1. results' = results
    BY <1>1, TopologyAddsNothing
  <2> QED
    BY <1>1, <2>1, <1>stays, <1>hands DEF workerVars
<1>2. ASSUME NEW w \in Workers, NEW c \in Copies, Receive(w, c) PROVE TruthInv'
  BY <1>2, <1>stays, <1>hands DEF Receive
<1>3. ASSUME NEW w \in Workers, ParseError(w) PROVE TruthInv'
  BY <1>3, <1>stays, <1>hands DEF ParseError, queueVars, Publishing, Statuses
<1>4. ASSUME NEW w \in Workers, Claim(w) PROVE TruthInv'
  BY <1>4, <1>stays, <1>hands DEF Claim, queueVars, Publishing, Statuses
<1>5. ASSUME NEW w \in Workers, SkipDuplicate(w) PROVE TruthInv'
  BY <1>5, <1>stays, <1>hands DEF SkipDuplicate, queueVars, Publishing, Statuses
<1>6. ASSUME NEW w \in Workers, ValidationFails(w) PROVE TruthInv'
  BY <1>6, <1>stays, <1>hands DEF ValidationFails, queueVars, Publishing, Statuses
<1>7. ASSUME NEW w \in Workers, ProcessRaises(w) PROVE TruthInv'
  BY <1>7, <1>stays, <1>hands DEF ProcessRaises, queueVars, Publishing, Statuses
<1>8. ASSUME NEW w \in Workers, NEW status \in Statuses, ProcessReturns(w, status) PROVE TruthInv'
  BY <1>8, <1>stays, <1>hands DEF ProcessReturns, queueVars, Publishing, Statuses
<1>9. ASSUME NEW w \in Workers, PublishRetry(w) PROVE TruthInv'
  <2>1. pc[w] \in Publishing /\ held[w] \in Copies /\ QueueTypeOK /\ (Accept(pc[w], held[w]) \/ Lose)
    BY <1>9, PublishMeans
  <2>2. \A m \in Msgs, s \in Statuses : <<m, s>> \in results' => <<m, s>> \in results \/ (m = Msg(w) /\ pc[w] = s)
    BY <2>1, AcceptFiles
  <2>3. \A m \in Msgs : <<m, "completed">> \in results' => <<m, "completed">> \in returned'
    BY <2>1, <2>2, <1>stays, <1>hands DEF Statuses
  <2>4. \A m \in Msgs : <<m, "failed">> \in results' => <<m, "failed">> \in returned' \/ Buried(m)'
    BY <2>1, <2>2, <1>stays, <1>hands DEF Statuses
  <2> QED
    BY <1>9, <2>1, <2>3, <2>4, <1>stays, <1>hands DEF PublishRetry, Statuses
<1>10. ASSUME NEW w \in Workers, DeadLetter(w) PROVE TruthInv'
  <2>1. pc[w] \in Publishing /\ held[w] \in Copies /\ QueueTypeOK /\ (Accept(pc[w], held[w]) \/ Lose)
    BY <1>10, PublishMeans
  <2>2. \A m \in Msgs, s \in Statuses : <<m, s>> \in results' => <<m, s>> \in results \/ (m = Msg(w) /\ pc[w] = s)
    BY <2>1, AcceptFiles
  <2>3. \A m \in Msgs : <<m, "completed">> \in results' => <<m, "completed">> \in returned'
    BY <2>1, <2>2, <1>stays, <1>hands DEF Statuses
  <2>4. \A m \in Msgs : <<m, "failed">> \in results' => <<m, "failed">> \in returned' \/ Buried(m)'
    BY <2>1, <2>2, <1>stays, <1>hands DEF Statuses
  <2>5. dlq'[held[w]] > 0
    BY <1>10, <2>1, QueuesAreBags DEF DeadLetter, More
  <2>6. Buried(Msg(w))'
    BY <1>10, <2>1, <2>5, CopyParts DEF DeadLetter, Buried
  <2> QED
    BY <1>10, <2>1, <2>6, <2>3, <2>4, <1>stays, <1>hands DEF DeadLetter, Statuses
<1>11. ASSUME NEW w \in Workers, PublishResult(w) PROVE TruthInv'
  <2>1. pc[w] \in Publishing /\ held[w] \in Copies /\ QueueTypeOK /\ (Accept(pc[w], held[w]) \/ Lose)
    BY <1>11, PublishMeans
  <2>2. \A m \in Msgs, s \in Statuses : <<m, s>> \in results' => <<m, s>> \in results \/ (m = Msg(w) /\ pc[w] = s)
    BY <2>1, AcceptFiles
  <2>3. \A m \in Msgs : <<m, "completed">> \in results' => <<m, "completed">> \in returned'
    BY <2>1, <2>2, <1>stays, <1>hands DEF Statuses
  <2>4. \A m \in Msgs : <<m, "failed">> \in results' => <<m, "failed">> \in returned' \/ Buried(m)'
    BY <2>1, <2>2, <1>stays, <1>hands DEF Statuses
  <2> QED
    BY <1>11, <2>1, <2>3, <2>4, <1>stays, <1>hands DEF PublishResult, Statuses
<1>12. ASSUME NEW w \in Workers, PublishFailsOffline(w) PROVE TruthInv'
  <2>1. pc[w] \in Publishing /\ held[w] \in Copies /\ QueueTypeOK /\ (Accept(pc[w], held[w]) \/ Lose)
    BY <1>12, PublishMeans
  <2>2. \A m \in Msgs, s \in Statuses : <<m, s>> \in results' => <<m, s>> \in results \/ (m = Msg(w) /\ pc[w] = s)
    BY <2>1, AcceptFiles
  <2>3. \A m \in Msgs : <<m, "completed">> \in results' => <<m, "completed">> \in returned'
    BY <2>1, <2>2, <1>stays, <1>hands DEF Statuses
  <2>4. \A m \in Msgs : <<m, "failed">> \in results' => <<m, "failed">> \in returned' \/ Buried(m)'
    BY <2>1, <2>2, <1>stays, <1>hands DEF Statuses
  <2> QED
    BY <1>12, <2>1, <2>3, <2>4, <1>stays, <1>hands DEF PublishFailsOffline, Statuses
<1>13. ASSUME NEW w \in Workers, Ack(w) PROVE TruthInv'
  BY <1>13, <1>stays, <1>hands DEF Ack, queueVars, Publishing, Statuses
<1>14. ASSUME NEW w \in Workers, Reconnect(w) PROVE TruthInv'
  BY <1>14, <1>stays, <1>hands DEF Reconnect, queueVars, Publishing, Statuses
<1>15. ASSUME NEW w \in Workers, GuardError(w) PROVE TruthInv'
  BY <1>15, <1>stays, <1>hands DEF GuardError, queueVars, Publishing, Statuses
<1>16. ASSUME NEW w \in Workers, PublishFails(w) PROVE TruthInv'
  <2>1. pc[w] \in Publishing /\ held[w] \in Copies /\ QueueTypeOK /\ (Accept(pc[w], held[w]) \/ Lose)
    BY <1>16, PublishMeans
  <2>2. \A m \in Msgs, s \in Statuses : <<m, s>> \in results' => <<m, s>> \in results \/ (m = Msg(w) /\ pc[w] = s)
    BY <2>1, AcceptFiles
  <2>3. \A m \in Msgs : <<m, "completed">> \in results' => <<m, "completed">> \in returned'
    BY <2>1, <2>2, <1>stays, <1>hands DEF Statuses
  <2>4. \A m \in Msgs : <<m, "failed">> \in results' => <<m, "failed">> \in returned' \/ Buried(m)'
    BY <2>1, <2>2, <1>stays, <1>hands DEF Statuses
  <2> QED
    BY <1>16, <2>1, <2>3, <2>4, <1>stays, <1>hands DEF PublishFails, Statuses
<1>17. ASSUME NEW w \in Workers, ConnectionLost(w) PROVE TruthInv'
  BY <1>17, <1>stays, <1>hands DEF ConnectionLost, queueVars, Publishing, Statuses
<1>18. ASSUME NEW w \in Workers, Crash(w) PROVE TruthInv'
  BY <1>18, <1>stays, <1>hands DEF Crash, Restart, queueVars, Publishing, Statuses
<1>19. ASSUME NEW w \in Workers, Shutdown(w) PROVE TruthInv'
  BY <1>19, <1>stays, <1>hands DEF Shutdown, Restart, queueVars, Publishing, Statuses
<1>20. CASE UNCHANGED vars
  BY <1>20, <1>stays, <1>hands DEF vars, queueVars, workerVars
<1> QED
  BY <1>1, <1>2, <1>3, <1>4, <1>5, <1>6, <1>7, <1>8, <1>9, <1>10, <1>11, <1>12,
     <1>13, <1>14, <1>15, <1>16, <1>17, <1>18, <1>19, <1>20
     DEF Next, Handle, Break

\* A channel closed before the hand-over cuts the message off.
LEMMA OfflineStep == TypeOK /\ OfflineInv /\ [Next]_vars => OfflineInv'
<1> SUFFICES ASSUME TypeOK, OfflineInv, [Next]_vars PROVE OfflineInv'
  OBVIOUS
<1> USE DEF TypeOK, OfflineInv, Owning, Goto, Finish, Msg, AfterBurial
<1>stays. severed \subseteq severed'
  BY HistoryGrows
<1>1. ASSUME Topology, UNCHANGED <<guard, workerVars, historyVars>> PROVE OfflineInv'
  BY <1>1, <1>stays DEF workerVars
<1>2. ASSUME NEW w \in Workers, NEW c \in Copies, Receive(w, c) PROVE OfflineInv'
  BY <1>2, <1>stays DEF Receive, Publishing, Statuses
<1>3. ASSUME NEW w \in Workers, ParseError(w) PROVE OfflineInv'
  BY <1>3, <1>stays DEF ParseError, Publishing, Statuses, historyVars, cutVars
<1>4. ASSUME NEW w \in Workers, Claim(w) PROVE OfflineInv'
  BY <1>4, <1>stays DEF Claim, Publishing, Statuses, historyVars, cutVars
<1>5. ASSUME NEW w \in Workers, SkipDuplicate(w) PROVE OfflineInv'
  BY <1>5, <1>stays DEF SkipDuplicate, Publishing, Statuses, historyVars, cutVars
<1>6. ASSUME NEW w \in Workers, ValidationFails(w) PROVE OfflineInv'
  BY <1>6, <1>stays DEF ValidationFails, Publishing, Statuses, historyVars, cutVars
<1>7. ASSUME NEW w \in Workers, ProcessRaises(w) PROVE OfflineInv'
  BY <1>7, <1>stays DEF ProcessRaises, Publishing, Statuses, historyVars, cutVars
<1>8. ASSUME NEW w \in Workers, NEW status \in Statuses, ProcessReturns(w, status) PROVE OfflineInv'
  BY <1>8, <1>stays DEF ProcessReturns, Publishing, Statuses, historyVars, cutVars
<1>9. ASSUME NEW w \in Workers, PublishRetry(w) PROVE OfflineInv'
  BY <1>9, <1>stays DEF PublishRetry, Publishing, Statuses, historyVars, cutVars
<1>10. ASSUME NEW w \in Workers, DeadLetter(w) PROVE OfflineInv'
  BY <1>10, <1>stays DEF DeadLetter, Publishing, Statuses, historyVars, cutVars
<1>11. ASSUME NEW w \in Workers, PublishResult(w) PROVE OfflineInv'
  BY <1>11, <1>stays DEF PublishResult, Publishing, Statuses, historyVars, cutVars
<1>12. ASSUME NEW w \in Workers, PublishFailsOffline(w) PROVE OfflineInv'
  BY <1>12, <1>stays DEF PublishFailsOffline, Publishing, Statuses, historyVars, cutVars
<1>13. ASSUME NEW w \in Workers, Ack(w) PROVE OfflineInv'
  BY <1>13, <1>stays DEF Ack, Publishing, Statuses, historyVars, cutVars
<1>14. ASSUME NEW w \in Workers, Reconnect(w) PROVE OfflineInv'
  BY <1>14, <1>stays DEF Reconnect, Publishing, Statuses, historyVars, cutVars
<1>15. ASSUME NEW w \in Workers, GuardError(w) PROVE OfflineInv'
  BY <1>15, <1>stays DEF GuardError, Publishing, Statuses, historyVars, cutVars
<1>16. ASSUME NEW w \in Workers, PublishFails(w) PROVE OfflineInv'
  BY <1>16, <1>stays DEF PublishFails, Publishing, Statuses, historyVars, cutVars
<1>17. ASSUME NEW w \in Workers, ConnectionLost(w) PROVE OfflineInv'
  <2>1. pc[w] \in {"begin"} \cup Owning /\ Msg(w) \notin Malformed => Msg(w) \in severed'
    BY <1>17 DEF ConnectionLost, ClaimedMsgs, Claimed
  <2>2. pc' = pc /\ held' = held /\ live' = [live EXCEPT ![w] = FALSE]
    BY <1>17 DEF ConnectionLost
  <2> QED
    BY <2>1, <2>2, <1>stays
<1>18. ASSUME NEW w \in Workers, Crash(w) PROVE OfflineInv'
  BY <1>18, <1>stays DEF Crash, Restart, Publishing, Statuses, historyVars, cutVars
<1>19. ASSUME NEW w \in Workers, Shutdown(w) PROVE OfflineInv'
  BY <1>19, <1>stays DEF Shutdown, Restart, Publishing, Statuses, historyVars, cutVars
<1>20. CASE UNCHANGED vars
  BY <1>20, <1>stays DEF vars, workerVars
<1> QED
  BY <1>1, <1>2, <1>3, <1>4, <1>5, <1>6, <1>7, <1>8, <1>9, <1>10, <1>11, <1>12,
     <1>13, <1>14, <1>15, <1>16, <1>17, <1>18, <1>19, <1>20
     DEF Next, Handle, Break
-----------------------------------------------------------------------------
(* Nothing is lost on the way *)

\* The highest attempt run is the old one, or the one run now.
LEMMA TopStep == TypeOK /\ TopInv /\ [Next]_vars => TopInv'
<1> SUFFICES ASSUME TypeOK, TopInv, [Next]_vars PROVE TopInv'
  OBVIOUS
<1>1. CASE runs' = runs
  BY <1>1 DEF TopInv
<1>2. ASSUME NEW b \in Copies, runs' = More(runs, b) PROVE TopInv'
  <2>1. /\ \A c \in Copies : runs[c] \in Nat /\ c[2] \in Nat
        /\ \A c \in Copies : runs'[c] = IF c = b THEN runs[c] + 1 ELSE runs[c]
    BY <1>2, CopyParts DEF TypeOK, More
  <2> SUFFICES ASSUME NEW c \in Copies, runs'[c] > 0
               PROVE  \E t \in Copies :
                          /\ t[1] = c[1] /\ runs'[t] > 0
                          /\ \A d \in Copies : d[1] = c[1] /\ runs'[d] > 0 => d[2] <= t[2]
    BY DEF TopInv
  <2>2. CASE \E e \in Copies : e[1] = c[1] /\ runs[e] > 0
    <3>1. PICK t \in Copies : /\ t[1] = c[1] /\ runs[t] > 0
                              /\ \A d \in Copies : d[1] = c[1] /\ runs[d] > 0 => d[2] <= t[2]
      BY <2>2 DEF TopInv
    <3>2. CASE b[1] = c[1] /\ b[2] > t[2]
      BY <2>1, <3>1, <3>2
    <3>3. CASE ~(b[1] = c[1] /\ b[2] > t[2])
      BY <2>1, <3>1, <3>3
    <3> QED
      BY <3>2, <3>3
  <2>3. CASE ~\E e \in Copies : e[1] = c[1] /\ runs[e] > 0
    BY <2>1, <2>3
  <2> QED
    BY <2>2, <2>3
<1> QED
  BY <1>1, <1>2, RunsStep

\* A copy yet to be run stays so until it is run, found unparseable or over.
LEMMA PendingStep ==
    ASSUME TypeOK, GuardInv, NEW b \in Copies, Pending(b), [Next]_vars
    PROVE  \/ Pending(b)' \/ Over(b[1])'
           \/ IF b[1] \in Malformed THEN Owned(b)' ELSE runs'[b] > 0
<1> DEFINE Goal ==
       \/ Pending(b)' \/ Over(b[1])'
       \/ IF b[1] \in Malformed THEN Owned(b)' ELSE runs'[b] > 0
<1> USE DEF Goal, Pending, Goto, Finish, Msg, AfterBurial
<1>types. /\ QueueTypeOK /\ ready \in [Copies -> Nat]
          /\ \A c \in Copies : ready[c] \in Nat /\ ready'[c] \in Nat /\ runs[c] \in Nat
  <2>1. QueueTypeOK /\ QueueTypeOK'
    BY TypeStep DEF TypeOK
  <2>2. \A c \in Copies : ready'[c] \in Nat
    BY <2>1 DEF QueueTypeOK
  <2> QED
    BY <2>1, <2>2, QueuesAreBags DEF TypeOK
<1>1. ASSUME Topology, UNCHANGED <<guard, workerVars, historyVars>> PROVE Goal
  <2>1. ready[b] > 0 => ready'[b] > 0
    BY <1>1, <1>types, TopologyKeeps, GraphragWorkerAssumption DEF GraphragWorkerAssumption
  <2> QED
    BY <1>1, <2>1 DEF workerVars
<1>2. ASSUME NEW w \in Workers, NEW c \in Copies, Receive(w, c) PROVE Goal
  <2>1. ready[b] > 0 /\ b # c => ready'[b] > 0
    BY <1>2, <1>types, LessBag DEF Receive
  <2>2. b = c => held'[w] = b /\ pc'[w] = "begin" /\ live'[w]
    BY <1>2 DEF Receive, TypeOK
  <2>3. \A v \in Workers : held[v] = b /\ pc[v] = "begin" /\ live[v] => held'[v] = b /\ pc'[v] = "begin" /\ live'[v]
    BY <1>2 DEF Receive, TypeOK
  <2> QED
    BY <2>1, <2>2, <2>3
<1>3. ASSUME NEW w \in Workers, ParseError(w) PROVE Goal
  <2>1. ready' = ready /\ live' = live /\ held' = held /\ pc' = [pc EXCEPT ![w] = "dead"]
    BY <1>3 DEF ParseError, queueVars
  <2>2. held[w] = b /\ live[w] => b[1] \in Malformed /\ Owned(b)'
    BY <1>3, <2>1 DEF ParseError, Owned, Owning, Publishing, TypeOK
  <2> QED
    BY <2>1, <2>2 DEF TypeOK
<1>4. ASSUME NEW w \in Workers, Claim(w) PROVE Goal
  <2>1. ready' = ready /\ live' = live /\ held' = held /\ pc' = [pc EXCEPT ![w] = "handler"]
    BY <1>4 DEF Claim, queueVars
  <2>2. held[w] = b => b[1] \notin Malformed /\ runs'[b] > 0
    BY <1>4, <1>types, MoreBag DEF Claim, TypeOK
  <2> QED
    BY <2>1, <2>2 DEF TypeOK
<1>5. ASSUME NEW w \in Workers, SkipDuplicate(w) PROVE Goal
  <2>1. ready' = ready /\ live' = live /\ held' = held /\ pc' = [pc EXCEPT ![w] = "ack"] /\ runs' = runs
    BY <1>5 DEF SkipDuplicate, queueVars, historyVars
  <2>2. held[w] = b => b[1] \notin Malformed /\ runs'[b] > 0
    BY <1>5, <2>1 DEF SkipDuplicate, GuardInv
  <2> QED
    BY <2>1, <2>2 DEF TypeOK
<1>6. ASSUME NEW w \in Workers, ValidationFails(w) PROVE Goal
  <2>1. ready[b] > 0 => ready'[b] > 0
    BY <1>6, <1>types DEF ValidationFails, queueVars
  <2>2. \A v \in Workers : held[v] = b /\ pc[v] = "begin" /\ live[v] => held'[v] = b /\ pc'[v] = "begin" /\ live'[v]
    BY <1>6 DEF ValidationFails, TypeOK, Publishing, Statuses
  <2> QED
    BY <2>1, <2>2
<1>7. ASSUME NEW w \in Workers, ProcessRaises(w) PROVE Goal
  <2>1. ready[b] > 0 => ready'[b] > 0
    BY <1>7, <1>types DEF ProcessRaises, queueVars
  <2>2. \A v \in Workers : held[v] = b /\ pc[v] = "begin" /\ live[v] => held'[v] = b /\ pc'[v] = "begin" /\ live'[v]
    BY <1>7 DEF ProcessRaises, TypeOK, Publishing, Statuses
  <2> QED
    BY <2>1, <2>2
<1>8. ASSUME NEW w \in Workers, NEW status \in Statuses, ProcessReturns(w, status) PROVE Goal
  <2>1. ready[b] > 0 => ready'[b] > 0
    BY <1>8, <1>types DEF ProcessReturns, queueVars
  <2>2. \A v \in Workers : held[v] = b /\ pc[v] = "begin" /\ live[v] => held'[v] = b /\ pc'[v] = "begin" /\ live'[v]
    BY <1>8 DEF ProcessReturns, TypeOK, Publishing, Statuses
  <2> QED
    BY <2>1, <2>2
<1>9. ASSUME NEW w \in Workers, PublishRetry(w) PROVE Goal
  <2>1. ready[b] > 0 => ready'[b] > 0
    BY <1>9, <1>types DEF PublishRetry, queueVars
  <2>2. \A v \in Workers : held[v] = b /\ pc[v] = "begin" /\ live[v] => held'[v] = b /\ pc'[v] = "begin" /\ live'[v]
    BY <1>9 DEF PublishRetry, TypeOK, Publishing, Statuses
  <2> QED
    BY <2>1, <2>2
<1>10. ASSUME NEW w \in Workers, DeadLetter(w) PROVE Goal
  <2>1. ready[b] > 0 => ready'[b] > 0
    BY <1>10, <1>types DEF DeadLetter, queueVars
  <2>2. \A v \in Workers : held[v] = b /\ pc[v] = "begin" /\ live[v] => held'[v] = b /\ pc'[v] = "begin" /\ live'[v]
    BY <1>10 DEF DeadLetter, TypeOK, Publishing, Statuses
  <2> QED
    BY <2>1, <2>2
<1>11. ASSUME NEW w \in Workers, PublishResult(w) PROVE Goal
  <2>1. ready[b] > 0 => ready'[b] > 0
    BY <1>11, <1>types DEF PublishResult, queueVars
  <2>2. \A v \in Workers : held[v] = b /\ pc[v] = "begin" /\ live[v] => held'[v] = b /\ pc'[v] = "begin" /\ live'[v]
    BY <1>11 DEF PublishResult, TypeOK, Publishing, Statuses
  <2> QED
    BY <2>1, <2>2
<1>12. ASSUME NEW w \in Workers, PublishFailsOffline(w) PROVE Goal
  <2>1. ready[b] > 0 => ready'[b] > 0
    BY <1>12, <1>types DEF PublishFailsOffline, queueVars
  <2>2. \A v \in Workers : held[v] = b /\ pc[v] = "begin" /\ live[v] => held'[v] = b /\ pc'[v] = "begin" /\ live'[v]
    BY <1>12 DEF PublishFailsOffline, TypeOK, Publishing, Statuses
  <2> QED
    BY <2>1, <2>2
<1>13. ASSUME NEW w \in Workers, Ack(w) PROVE Goal
  <2>1. ready[b] > 0 => ready'[b] > 0
    BY <1>13, <1>types DEF Ack, queueVars
  <2>2. \A v \in Workers : held[v] = b /\ pc[v] = "begin" /\ live[v] => held'[v] = b /\ pc'[v] = "begin" /\ live'[v]
    BY <1>13 DEF Ack, TypeOK, Publishing, Statuses
  <2> QED
    BY <2>1, <2>2
<1>14. ASSUME NEW w \in Workers, Reconnect(w) PROVE Goal
  <2>1. ready[b] > 0 => ready'[b] > 0
    BY <1>14, <1>types DEF Reconnect, queueVars
  <2>2. \A v \in Workers : held[v] = b /\ pc[v] = "begin" /\ live[v] => held'[v] = b /\ pc'[v] = "begin" /\ live'[v]
    BY <1>14 DEF Reconnect, TypeOK, Publishing, Statuses
  <2> QED
    BY <2>1, <2>2
<1>15. ASSUME NEW w \in Workers, GuardError(w) PROVE Goal
  <2>1. ready' = ready /\ live' = live /\ held' = held /\ pc' = [pc EXCEPT ![w] = "handler"]
    BY <1>15 DEF GuardError, queueVars
  <2>2. held[w] = b => b[1] \notin Malformed /\ runs'[b] > 0
    BY <1>15, <1>types, MoreBag DEF GuardError, TypeOK
  <2> QED
    BY <2>1, <2>2 DEF TypeOK
<1>16. ASSUME NEW w \in Workers, PublishFails(w) PROVE Goal
  <2>1. ready[b] > 0 => ready'[b] > 0
    <3>1. held[w] \in Copies
      BY <1>16, PublishMeans
    <3> QED
      BY <1>16, <3>1, <1>types, MoreBag DEF PublishFails
  <2>2. \A v \in Workers : held[v] = b /\ pc[v] = "begin" /\ live[v] => held'[v] = b /\ pc'[v] = "begin" /\ live'[v]
    BY <1>16 DEF PublishFails, TypeOK, Publishing, Statuses
  <2> QED
    BY <2>1, <2>2
<1>17. ASSUME NEW w \in Workers, ConnectionLost(w) PROVE Goal
  <2>1. (ready[b] > 0 => ready'[b] > 0) /\ (live[w] /\ pc[w] # "idle" => ready'[held[w]] > 0)
    BY <1>17, <1>types, RedeliverReturns DEF ConnectionLost
  <2>2. held[w] = b /\ pc[w] = "begin" /\ live[w] => ready'[b] > 0
    BY <1>17, <2>1
  <2>3. \A v \in Workers : v # w /\ held[v] = b /\ pc[v] = "begin" /\ live[v] =>
             held'[v] = b /\ pc'[v] = "begin" /\ live'[v]
    BY <1>17 DEF ConnectionLost, TypeOK
  <2> QED
    BY <2>1, <2>2, <2>3
<1>18. ASSUME NEW w \in Workers, Crash(w) PROVE Goal
  <2>1. (ready[b] > 0 => ready'[b] > 0) /\ (live[w] /\ pc[w] # "idle" => ready'[held[w]] > 0)
    BY <1>18, <1>types, RedeliverReturns DEF Crash, Restart
  <2>2. held[w] = b /\ pc[w] = "begin" /\ live[w] => ready'[b] > 0
    BY <1>18, <2>1
  <2>3. \A v \in Workers : v # w /\ held[v] = b /\ pc[v] = "begin" /\ live[v] =>
             held'[v] = b /\ pc'[v] = "begin" /\ live'[v]
    BY <1>18 DEF Crash, Restart, TypeOK
  <2> QED
    BY <2>1, <2>2, <2>3
<1>19. ASSUME NEW w \in Workers, Shutdown(w) PROVE Goal
  <2>1. (ready[b] > 0 => ready'[b] > 0) /\ (live[w] /\ pc[w] # "idle" => ready'[held[w]] > 0)
    BY <1>19, <1>types, RedeliverReturns DEF Shutdown, Restart
  <2>2. held[w] = b /\ pc[w] = "begin" /\ live[w] => ready'[b] > 0
    BY <1>19, <2>1
  <2>3. \A v \in Workers : v # w /\ held[v] = b /\ pc[v] = "begin" /\ live[v] =>
             held'[v] = b /\ pc'[v] = "begin" /\ live'[v]
    BY <1>19 DEF Shutdown, Restart, TypeOK
  <2> QED
    BY <2>1, <2>2, <2>3
<1>20. CASE UNCHANGED vars
  BY <1>20 DEF vars, queueVars, workerVars
<1> QED
  BY <1>1, <1>2, <1>3, <1>4, <1>5, <1>6, <1>7, <1>8, <1>9, <1>10, <1>11, <1>12,
     <1>13, <1>14, <1>15, <1>16, <1>17, <1>18, <1>19, <1>20
     DEF Next, Handle, Break

\* A run attempt in hand is handed on, or cut off, or goes back to the queue.
LEMMA OwnedStep ==
    ASSUME TypeOK, RejectInv, NEW b \in Copies, Owned(b), [Next]_vars
    PROVE  \/ Owned(b)' \/ Over(b[1])'
           \/ IF b[1] \in Malformed THEN ready'[b] > 0 ELSE wait'[b] > 0
<1> DEFINE Goal ==
       \/ Owned(b)' \/ Over(b[1])'
       \/ IF b[1] \in Malformed THEN ready'[b] > 0 ELSE wait'[b] > 0
<1> USE DEF Goal, Owning, Goto, Finish, Msg, AfterBurial
<1>types. QueueTypeOK /\ ready \in [Copies -> Nat] /\ \A c \in Copies : ready[c] \in Nat
  BY QueuesAreBags DEF TypeOK
<1>b. b[1] \in Msgs /\ b[2] \in 0..Tiers /\ b = <<b[1], b[2]>>
  BY CopyParts
<1>v. PICK v \in Workers : held[v] = b /\ pc[v] \in Owning /\ live[v]
  BY DEF Owned
<1>same. held'[v] = b /\ pc'[v] \in Owning /\ live'[v] => Goal
  BY DEF Owned
<1>1. ASSUME Topology, UNCHANGED <<guard, workerVars, historyVars>> PROVE Goal
  BY <1>1, <1>v, <1>same DEF workerVars
<1>2. ASSUME NEW w \in Workers, NEW c \in Copies, Receive(w, c) PROVE Goal
  BY <1>2, <1>v, <1>same DEF Receive, TypeOK, Publishing, Statuses
<1>3. ASSUME NEW w \in Workers, ParseError(w) PROVE Goal
  BY <1>3, <1>v, <1>same DEF ParseError, TypeOK, Publishing, Statuses, workerVars
<1>4. ASSUME NEW w \in Workers, Claim(w) PROVE Goal
  BY <1>4, <1>v, <1>same DEF Claim, TypeOK, Publishing, Statuses, workerVars
<1>5. ASSUME NEW w \in Workers, SkipDuplicate(w) PROVE Goal
  BY <1>5, <1>v, <1>same DEF SkipDuplicate, TypeOK, Publishing, Statuses, workerVars
<1>6. ASSUME NEW w \in Workers, ValidationFails(w) PROVE Goal
  BY <1>6, <1>v, <1>same DEF ValidationFails, TypeOK, Publishing, Statuses, workerVars
<1>7. ASSUME NEW w \in Workers, ProcessRaises(w) PROVE Goal
  BY <1>7, <1>v, <1>same DEF ProcessRaises, TypeOK, Publishing, Statuses, workerVars
<1>8. ASSUME NEW w \in Workers, NEW status \in Statuses, ProcessReturns(w, status) PROVE Goal
  BY <1>8, <1>v, <1>same DEF ProcessReturns, TypeOK, Publishing, Statuses, workerVars
<1>9. ASSUME NEW w \in Workers, PublishRetry(w) PROVE Goal
  <2>1. CASE w # v
    BY <1>9, <2>1, <1>v, <1>same DEF PublishRetry, TypeOK
  <2>2. CASE w = v
    <3>1. pc[v] = "retry" /\ b[1] \notin Malformed
      BY <1>9, <2>2, <1>v DEF PublishRetry, RejectInv
    <3>2. wait'[b] > 0
      BY <1>9, <2>2, <1>v, <1>types, QueuesAreBags DEF PublishRetry, More
    <3> QED
      BY <3>1, <3>2
  <2> QED
    BY <2>1, <2>2
<1>10. ASSUME NEW w \in Workers, DeadLetter(w) PROVE Goal
  <2>1. CASE w # v
    BY <1>10, <2>1, <1>v, <1>same DEF DeadLetter, TypeOK
  <2>2. CASE w = v
    <3>1. CASE b[1] \in Malformed
      <4>1. dlq'[b] > 0
        BY <1>10, <2>2, <1>v, <1>types, QueuesAreBags DEF DeadLetter, More
      <4> QED
        BY <4>1, <3>1, <1>b DEF Over, Settled, Buried
    <3>2. CASE b[1] \notin Malformed
      BY <1>10, <2>2, <3>2, <1>v, <1>same DEF DeadLetter, TypeOK, Publishing, Statuses
    <3> QED
      BY <3>1, <3>2
  <2> QED
    BY <2>1, <2>2
<1>11. ASSUME NEW w \in Workers, PublishResult(w) PROVE Goal
  <2>1. CASE w # v
    BY <1>11, <2>1, <1>v, <1>same DEF PublishResult, TypeOK
  <2>2. CASE w = v
    <3>1. b[1] \notin Malformed /\ pc[v] \in Statuses
      BY <1>11, <2>2, <1>v DEF PublishResult, RejectInv
    <3>2. <<b[1], pc[v]>> \in results'
      BY <1>11, <2>2, <1>v DEF PublishResult
    <3> QED
      BY <3>1, <3>2 DEF Over, Settled, Reported
  <2> QED
    BY <2>1, <2>2
<1>12. ASSUME NEW w \in Workers, PublishFailsOffline(w) PROVE Goal
  BY <1>12, <1>v, <1>same DEF PublishFailsOffline, TypeOK, Publishing, Statuses, workerVars
<1>13. ASSUME NEW w \in Workers, Ack(w) PROVE Goal
  BY <1>13, <1>v, <1>same DEF Ack, TypeOK, Publishing, Statuses, workerVars
<1>14. ASSUME NEW w \in Workers, Reconnect(w) PROVE Goal
  BY <1>14, <1>v, <1>same DEF Reconnect, TypeOK, Publishing, Statuses, workerVars
<1>15. ASSUME NEW w \in Workers, GuardError(w) PROVE Goal
  BY <1>15, <1>v, <1>same DEF GuardError, TypeOK, Publishing, Statuses, workerVars
<1>16. ASSUME NEW w \in Workers, PublishFails(w) PROVE Goal
  <2>1. CASE w # v
    BY <1>16, <2>1, <1>v, <1>same DEF PublishFails, TypeOK
  <2>2. CASE w = v
    <3>1. b[1] \notin Malformed => b[1] \in requeued'
      BY <1>16, <2>2, <1>v DEF PublishFails
    <3>2. ready'[b] > 0
      BY <1>16, <2>2, <1>v, <1>types, QueuesAreBags DEF PublishFails, More
    <3> QED
      BY <3>1, <3>2 DEF Over
  <2> QED
    BY <2>1, <2>2
<1>17. ASSUME NEW w \in Workers, ConnectionLost(w) PROVE Goal
  <2>1. CASE w # v
    BY <1>17, <2>1, <1>v, <1>same DEF ConnectionLost, TypeOK
  <2>2. CASE w = v
    <3>1. b[1] \notin Malformed => b[1] \in severed'
      BY <1>17, <2>2, <1>v DEF ConnectionLost, ClaimedMsgs, Claimed
    <3>2. ready'[b] > 0
      BY <1>17, <2>2, <1>v, <1>types, RedeliverReturns DEF ConnectionLost, Publishing, Statuses
    <3> QED
      BY <3>1, <3>2 DEF Over
  <2> QED
    BY <2>1, <2>2
<1>18. ASSUME NEW w \in Workers, Crash(w) PROVE Goal
  <2>1. CASE w # v
    BY <1>18, <2>1, <1>v, <1>same DEF Crash, Restart, TypeOK
  <2>2. CASE w = v
    <3>1. b[1] \notin Malformed => b[1] \in severed'
      BY <1>18, <2>2, <1>v DEF Crash, Restart, ClaimedMsgs, Claimed
    <3>2. ready'[b] > 0
      BY <1>18, <2>2, <1>v, <1>types, RedeliverReturns DEF Crash, Restart, Publishing, Statuses
    <3> QED
      BY <3>1, <3>2 DEF Over
  <2> QED
    BY <2>1, <2>2
<1>19. ASSUME NEW w \in Workers, Shutdown(w) PROVE Goal
  <2>1. CASE w # v
    BY <1>19, <2>1, <1>v, <1>same DEF Shutdown, Restart, TypeOK
  <2>2. CASE w = v
    <3>1. b[1] \notin Malformed => b[1] \in cancelled'
      BY <1>19, <2>2, <1>v DEF Shutdown, Restart, ClaimedMsgs, Claimed
    <3>2. ready'[b] > 0
      BY <1>19, <2>2, <1>v, <1>types, RedeliverReturns DEF Shutdown, Restart, Publishing, Statuses
    <3> QED
      BY <3>1, <3>2 DEF Over
  <2> QED
    BY <2>1, <2>2
<1>20. CASE UNCHANGED vars
  BY <1>20, <1>v, <1>same DEF vars, workerVars
<1> QED
  BY <1>1, <1>2, <1>3, <1>4, <1>5, <1>6, <1>7, <1>8, <1>9, <1>10, <1>11, <1>12,
     <1>13, <1>14, <1>15, <1>16, <1>17, <1>18, <1>19, <1>20
     DEF Next, Handle, Break

\* What waits in its tier stays there until it is queued for the next attempt.
LEMMA WaitStep ==
    ASSUME TypeOK, [Next]_vars, NEW c \in Copies, wait[c] > 0
    PROVE  wait'[c] > 0 \/ \E d \in Copies : d = <<c[1], c[2] + 1>> /\ ready'[d] > 0
  <1> DEFINE Goal == wait'[c] > 0 \/ \E d \in Copies : d = <<c[1], c[2] + 1>> /\ ready'[d] > 0
  <1>types. QueueTypeOK /\ QueueTypeOK' /\ wait[c] \in Nat /\ wait'[c] \in Nat
    <2>1. QueueTypeOK /\ QueueTypeOK'
      BY TypeStep DEF TypeOK
    <2> QED
      BY <2>1 DEF QueueTypeOK
  <1>1. CASE Topology
    BY <1>1, <1>types, TopologyKeeps, NextCopy
  <1>2. ASSUME NEW w \in Workers, Handle(w) \/ Break(w) PROVE Goal
    <2>1. ASSUME \/ PublishRetry(w) \/ DeadLetter(w) \/ PublishResult(w)
                 \/ PublishFails(w) \/ PublishFailsOffline(w)
          PROVE  Goal
      <3>1. pc[w] \in Publishing /\ held[w] \in Copies /\ (Accept(pc[w], held[w]) \/ Lose)
        BY <2>1, PublishMeans
      <3> QED
        BY <3>1, <1>types, AcceptFiles
    <2>2. ASSUME ~PublishRetry(w), ~DeadLetter(w), ~PublishResult(w), ~PublishFails(w), ~PublishFailsOffline(w)
          PROVE  wait' = wait
      BY <1>2, <2>2 DEF Handle, Break, ParseError, Claim, SkipDuplicate, ValidationFails, ProcessRaises,
                        ProcessReturns, Ack, Reconnect, GuardError, ConnectionLost, Crash, Shutdown,
                        Restart, queueVars
    <2> QED
      BY <2>1, <2>2
  <1>3. ASSUME NEW w \in Workers, NEW d \in Copies, Receive(w, d) PROVE Goal
    BY <1>3 DEF Receive
  <1>4. CASE UNCHANGED vars
    BY <1>4 DEF vars, queueVars
  <1> QED
    BY <1>1, <1>2, <1>3, <1>4 DEF Next

\* Only the relay publishes a message, and it does so by queueing its first attempt.
LEMMA SentStep ==
    ASSUME TypeOK, [Next]_vars
    PROVE  \A m \in sent' : m \in sent \/ ready'[<<m, 0>>] > 0
  <1>1. CASE Topology
    BY <1>1, TopologyKeeps DEF TypeOK
  <1>2. ASSUME NEW w \in Workers, Handle(w) \/ Break(w) PROVE sent' = sent
    BY <1>2 DEF Handle, Break, ParseError, Claim, SkipDuplicate, ValidationFails, ProcessRaises,
                ProcessReturns, PublishRetry, DeadLetter, PublishResult, PublishFailsOffline, Ack,
                Reconnect, GuardError, PublishFails, ConnectionLost, Crash, Shutdown, Restart, queueVars
  <1>3. ASSUME NEW w \in Workers, NEW d \in Copies, Receive(w, d) PROVE sent' = sent
    BY <1>3 DEF Receive
  <1>4. CASE UNCHANGED vars
    BY <1>4 DEF vars, queueVars
  <1> QED
    BY <1>1, <1>2, <1>3, <1>4 DEF Next

\* A run is handed on for good, and a new one is in hand or was cut off before it.
LEMMA HandedOnStep ==
    ASSUME TypeOK, GuardInv, RejectInv, OfflineInv, ProgressInv, [Next]_vars,
           NEW c \in Copies, runs'[c] > 0
    PROVE  HandedOn(c)'
  <1>0. c[1] \in Msgs /\ runs[c] \in Nat
    BY CopyParts DEF TypeOK
  <1>1. CASE runs[c] > 0
    <2>1. c[1] \notin Malformed
      BY <1>1 DEF GuardInv
    <2>2. CASE Over(c[1])
      BY <2>2, <1>0, OverStays DEF HandedOn
    <2>3. CASE Owned(c)
      BY <2>1, <2>3, OwnedStep DEF HandedOn
    <2>4. CASE wait[c] > 0
      BY <2>4, WaitStep DEF HandedOn, Pending
    <2>5. ASSUME NEW d \in Copies, d = <<c[1], c[2] + 1>>, Pending(d) \/ runs[d] > 0
          PROVE  HandedOn(c)'
      <3>1. d[1] = c[1]
        BY <2>5
      <3>2. Pending(d)' \/ Over(c[1])' \/ runs'[d] > 0
        BY <2>1, <2>5, <3>1, PendingStep, RunsGrow
      <3> QED
        BY <2>5, <3>2 DEF HandedOn
    <2> QED
      BY <1>1, <2>2, <2>3, <2>4, <2>5 DEF ProgressInv, HandedOn
  <1>2. CASE ~(runs[c] > 0)
    <2>1. PICK w \in Workers : /\ Claim(w) \/ GuardError(w)
                               /\ held[w] \in Copies /\ runs' = More(runs, held[w])
      BY <1>2, RunsStep
    <2>2. held[w] = c
      BY <1>0, <1>2, <2>1, MoreBag DEF TypeOK
    <2>3. /\ pc[w] = "begin" /\ Msg(w) = c[1] /\ c[1] \notin Malformed
          /\ held' = held /\ live' = live /\ severed \subseteq severed' /\ pc' = [pc EXCEPT ![w] = "handler"]
      BY <2>1, <2>2 DEF Claim, GuardError, Goto, Msg, cutVars
    <2>4. CASE live[w]
      BY <2>2, <2>3, <2>4 DEF HandedOn, Owned, Owning, TypeOK
    <2>5. CASE ~live[w]
      BY <2>2, <2>3, <2>5 DEF HandedOn, Over, OfflineInv
    <2> QED
      BY <2>4, <2>5
  <1> QED
    BY <1>1, <1>2

\* A published message stays accounted for.
LEMMA ProgressStep ==
    TypeOK /\ GuardInv /\ RejectInv /\ OfflineInv /\ ProgressInv /\ [Next]_vars => ProgressInv'
  <1> SUFFICES ASSUME TypeOK, GuardInv, RejectInv, OfflineInv, ProgressInv, [Next]_vars
               PROVE  ProgressInv'
    OBVIOUS
  <1>1. ASSUME NEW m \in sent' PROVE Accounted(m)'
    <2>1. m \in Msgs /\ <<m, 0>> \in Copies /\ <<m, 0>>[1] = m
      BY TypeStep, WorkQueueAssumption DEF TypeOK, QueueTypeOK, Copies, WorkQueueAssumption
    <2> DEFINE c == <<m, 0>>
    <2>2. CASE ready'[c] > 0
      BY <2>1, <2>2 DEF Accounted, Pending
    <2>3. CASE m \in sent
      <3>1. Over(m) \/ Pending(c) \/ IF m \in Malformed THEN Owned(c) ELSE runs[c] > 0
        BY <2>3 DEF ProgressInv, Accounted
      <3> HIDE DEF c
      <3>2. c \in Copies /\ c[1] = m /\ c = <<m, 0>>
        BY <2>1 DEF c
      <3>3. Over(m) => Over(m)'
        BY <2>1, OverStays
      <3>4. Pending(c) => Pending(c)' \/ Over(m)' \/ IF m \in Malformed THEN Owned(c)' ELSE runs'[c] > 0
        BY <3>2, PendingStep
      <3>5. m \in Malformed /\ Owned(c) => Owned(c)' \/ Over(m)' \/ ready'[c] > 0
        BY <3>2, OwnedStep
      <3>6. runs[c] > 0 => runs'[c] > 0
        BY <3>2, RunsGrow
      <3>7. Over(m)' \/ Pending(c)' \/ IF m \in Malformed THEN Owned(c)' ELSE runs'[c] > 0
        BY <3>1, <3>3, <3>4, <3>5, <3>6 DEF Pending
      <3> QED
        BY <3>2, <3>7 DEF Accounted
    <2> QED
      BY <2>2, <2>3, SentStep
  <1> QED
    BY <1>1, HandedOnStep DEF ProgressInv
-----------------------------------------------------------------------------
(* One verdict *)

\* Only a claim, or a guard error, makes a worker run an attempt.
LEMMA ActiveStep ==
    ASSUME TypeOK, NEW b \in Copies, b[1] \notin Malformed, NEW u \in Workers, Active(u, b)', [Next]_vars
    PROVE  Active(u, b) \/ (held[u] = b /\ pc[u] = "begin" /\ (Claim(u) \/ GuardError(u)))
<1> DEFINE Goal ==
       Active(u, b) \/ (held[u] = b /\ pc[u] = "begin" /\ (Claim(u) \/ GuardError(u)))
<1> USE DEF Goal, Active, Owning, TypeOK, Goto, Finish, Msg, AfterBurial
<1>1. ASSUME Topology, UNCHANGED <<guard, workerVars, historyVars>> PROVE Goal
  BY <1>1 DEF workerVars
<1>2. ASSUME NEW w \in Workers, NEW c \in Copies, Receive(w, c) PROVE Goal
  BY <1>2 DEF Receive, Publishing, Statuses
<1>3. ASSUME NEW w \in Workers, ParseError(w) PROVE Goal
  BY <1>3 DEF ParseError, Publishing, Statuses
<1>4. ASSUME NEW w \in Workers, Claim(w) PROVE Goal
  BY <1>4 DEF Claim, Publishing, Statuses
<1>5. ASSUME NEW w \in Workers, SkipDuplicate(w) PROVE Goal
  BY <1>5 DEF SkipDuplicate, Publishing, Statuses
<1>6. ASSUME NEW w \in Workers, ValidationFails(w) PROVE Goal
  BY <1>6 DEF ValidationFails, Publishing, Statuses
<1>7. ASSUME NEW w \in Workers, ProcessRaises(w) PROVE Goal
  BY <1>7 DEF ProcessRaises, Publishing, Statuses
<1>8. ASSUME NEW w \in Workers, NEW status \in Statuses, ProcessReturns(w, status) PROVE Goal
  BY <1>8 DEF ProcessReturns, Publishing, Statuses
<1>9. ASSUME NEW w \in Workers, PublishRetry(w) PROVE Goal
  BY <1>9 DEF PublishRetry, Publishing, Statuses
<1>10. ASSUME NEW w \in Workers, DeadLetter(w) PROVE Goal
  BY <1>10 DEF DeadLetter, Publishing, Statuses
<1>11. ASSUME NEW w \in Workers, PublishResult(w) PROVE Goal
  BY <1>11 DEF PublishResult, Publishing, Statuses
<1>12. ASSUME NEW w \in Workers, PublishFailsOffline(w) PROVE Goal
  BY <1>12 DEF PublishFailsOffline, Publishing, Statuses
<1>13. ASSUME NEW w \in Workers, Ack(w) PROVE Goal
  BY <1>13 DEF Ack, Publishing, Statuses
<1>14. ASSUME NEW w \in Workers, Reconnect(w) PROVE Goal
  BY <1>14 DEF Reconnect, Publishing, Statuses
<1>15. ASSUME NEW w \in Workers, GuardError(w) PROVE Goal
  BY <1>15 DEF GuardError, Publishing, Statuses
<1>16. ASSUME NEW w \in Workers, PublishFails(w) PROVE Goal
  BY <1>16 DEF PublishFails, Publishing, Statuses
<1>17. ASSUME NEW w \in Workers, ConnectionLost(w) PROVE Goal
  BY <1>17 DEF ConnectionLost, Publishing, Statuses
<1>18. ASSUME NEW w \in Workers, Crash(w) PROVE Goal
  BY <1>18 DEF Crash, Restart, Publishing, Statuses
<1>19. ASSUME NEW w \in Workers, Shutdown(w) PROVE Goal
  BY <1>19 DEF Shutdown, Restart, Publishing, Statuses
<1>20. CASE UNCHANGED vars
  BY <1>20 DEF vars, workerVars
<1> QED
  BY <1>1, <1>2, <1>3, <1>4, <1>5, <1>6, <1>7, <1>8, <1>9, <1>10, <1>11, <1>12,
     <1>13, <1>14, <1>15, <1>16, <1>17, <1>18, <1>19, <1>20
     DEF Next, Handle, Break

\* The latest attempt stays the latest until the worker that runs it sends it to its
\* retry tier and is finished with it.
LEMMA LatestStep ==
    ASSUME TypeOK, NEW b \in Copies, Latest(b), [Next]_vars
    PROVE  \/ Latest(b)'
           \/ \E u \in Workers : held[u] = b /\ pc[u] = "retry" /\ pc'[u] \notin Owning
<1> DEFINE Goal ==
       \/ Latest(b)'
       \/ \E u \in Workers : held[u] = b /\ pc[u] = "retry" /\ pc'[u] \notin Owning
<1>nat. /\ QueueTypeOK /\ b[2] \in 0..Tiers /\ b[2] \in Nat
        /\ \A d \in Copies : /\ ready[d] \in Nat /\ wait[d] \in Nat /\ runs[d] \in Nat
                             /\ ready'[d] \in Nat /\ wait'[d] \in Nat /\ runs'[d] \in Nat /\ d[2] \in Nat
  <2>1. QueueTypeOK' /\ QueueTypeOK /\ runs' \in [Copies -> Nat]
    BY TypeStep DEF TypeOK
  <2>2. \A d \in Copies : ready'[d] \in Nat /\ wait'[d] \in Nat
    BY <2>1 DEF QueueTypeOK
  <2>3. \A d \in Copies : runs[d] \in Nat /\ runs'[d] \in Nat
    BY <2>1 DEF TypeOK
  <2> QED
    BY <2>1, <2>2, <2>3, QueuesAreBags, CopyParts
<1> DEFINE Later(d) == d[1] = b[1] /\ d[2] > b[2]
<1>b. /\ wait[b] = 0
      /\ \A d \in Copies : Later(d) => /\ ready[d] = 0 /\ wait[d] = 0 /\ runs[d] = 0
                                       /\ \A w \in Workers : held[w] # d
  BY DEF Latest
<1>goal. ASSUME /\ wait'[b] = 0
                /\ \A d \in Copies : Later(d) => /\ ready'[d] = 0 /\ wait'[d] = 0 /\ runs'[d] = 0
                                                 /\ \A w \in Workers : held'[w] # d
         PROVE  Goal
  BY <1>goal DEF Latest
<1>none. \A d \in Copies : d # NoCopy
  BY NoCopyIsNone
<1> HIDE DEF Goal
<1>1. ASSUME Topology, UNCHANGED <<guard, workerVars, historyVars>> PROVE Goal
  <2>1. /\ \A c \in Copies : wait'[c] <= wait[c] /\ wait'[c] \in Nat
        /\ \A c \in Copies : ready'[c] > 0 =>
               \/ ready[c] > 0 \/ c[2] = 0
               \/ c[2] > 0 /\ <<c[1], c[2] - 1>> \in Copies /\ wait[<<c[1], c[2] - 1>>] > 0
    BY <1>1, <1>nat, TopologyAddsNothing
  <2>2. runs' = runs /\ held' = held
    BY <1>1 DEF workerVars, historyVars
  <2>3. ASSUME NEW e \in Copies, Later(e), ready'[e] > 0 PROVE FALSE
    <3>1. ready[e] = 0 /\ e[2] > 0 /\ e[2] \in Nat
      BY <2>3, <1>b, <1>nat
    <3> DEFINE p == <<e[1], e[2] - 1>>
    <3>2. p \in Copies /\ wait[p] > 0 /\ p[1] = b[1] /\ p[2] = e[2] - 1
      BY <2>1, <2>3, <3>1
    <3>3. CASE p[2] > b[2]
      BY <3>2, <3>3, <1>b
    <3>4. CASE ~(p[2] > b[2])
      <4>1. p[2] = b[2]
        BY <2>3, <3>1, <3>2, <3>4, <1>nat
      <4>2. p = b
        BY <3>2, <4>1, CopyParts
      <4> QED
        BY <3>2, <4>2, <1>b
    <3> QED
      BY <3>3, <3>4
  <2>4. wait'[b] = 0 /\ \A e \in Copies : Later(e) => wait'[e] = 0
    BY <2>1, <1>b, <1>nat
  <2>5. \A e \in Copies : Later(e) => ready'[e] = 0
    BY <2>3, <1>nat
  <2> QED
    BY <2>2, <2>4, <2>5, <1>b, <1>goal
<1>2. ASSUME NEW w \in Workers, NEW c \in Copies, Receive(w, c) PROVE Goal
  <2>1. wait' = wait /\ runs' = runs /\ ready[c] > 0
    BY <1>2 DEF Receive, historyVars
  <2>2. \A v \in Workers : held'[v] = held[v] \/ held'[v] = c
    BY <1>2 DEF Receive, TypeOK
  <2>3. \A e \in Copies : ready'[e] <= ready[e]
    BY <1>2, <1>nat, QueuesAreBags, LessBag DEF Receive
  <2>4. \A e \in Copies : Later(e) => ready'[e] = 0 /\ e # c
    BY <2>1, <2>3, <1>nat, <1>b
  <2> QED
    BY <2>1, <2>2, <2>4, <1>b, <1>goal
<1>3. ASSUME NEW w \in Workers, ParseError(w) PROVE Goal
  <2>1. ready' = ready /\ wait' = wait /\ runs' = runs
    BY <1>3 DEF ParseError, queueVars, historyVars
  <2>2. \A v \in Workers : held'[v] = held[v] \/ held'[v] = NoCopy
    BY <1>3 DEF ParseError, Finish, TypeOK
  <2> QED
    BY <2>1, <2>2, <1>b, <1>goal, <1>none
<1>4. ASSUME NEW w \in Workers, Claim(w) PROVE Goal
  <2>1. ready' = ready /\ wait' = wait /\ held' = held /\ held[w] \in Copies
    BY <1>4, BusyHoldsCopy DEF Claim, queueVars
  <2>2. \A d \in Copies : d # held[w] => runs'[d] = runs[d]
    BY <1>4, <2>1, MoreBag DEF Claim, TypeOK
  <2> QED
    BY <2>1, <2>2, <1>b, <1>goal
<1>5. ASSUME NEW w \in Workers, SkipDuplicate(w) PROVE Goal
  <2>1. ready' = ready /\ wait' = wait /\ runs' = runs
    BY <1>5 DEF SkipDuplicate, queueVars, historyVars
  <2>2. \A v \in Workers : held'[v] = held[v] \/ held'[v] = NoCopy
    BY <1>5 DEF SkipDuplicate, Finish, TypeOK
  <2> QED
    BY <2>1, <2>2, <1>b, <1>goal, <1>none
<1>6. ASSUME NEW w \in Workers, ValidationFails(w) PROVE Goal
  <2>1. ready' = ready /\ wait' = wait /\ runs' = runs
    BY <1>6 DEF ValidationFails, queueVars, historyVars
  <2>2. \A v \in Workers : held'[v] = held[v] \/ held'[v] = NoCopy
    BY <1>6 DEF ValidationFails, Finish, TypeOK
  <2> QED
    BY <2>1, <2>2, <1>b, <1>goal, <1>none
<1>7. ASSUME NEW w \in Workers, ProcessRaises(w) PROVE Goal
  <2>1. ready' = ready /\ wait' = wait /\ runs' = runs
    BY <1>7 DEF ProcessRaises, queueVars, historyVars
  <2>2. \A v \in Workers : held'[v] = held[v] \/ held'[v] = NoCopy
    BY <1>7 DEF ProcessRaises, Finish, TypeOK
  <2> QED
    BY <2>1, <2>2, <1>b, <1>goal, <1>none
<1>8. ASSUME NEW w \in Workers, NEW status \in Statuses, ProcessReturns(w, status) PROVE Goal
  <2>1. ready' = ready /\ wait' = wait /\ runs' = runs
    BY <1>8 DEF ProcessReturns, queueVars, historyVars
  <2>2. \A v \in Workers : held'[v] = held[v] \/ held'[v] = NoCopy
    BY <1>8 DEF ProcessReturns, Finish, TypeOK
  <2> QED
    BY <2>1, <2>2, <1>b, <1>goal, <1>none
<1>9. ASSUME NEW w \in Workers, PublishRetry(w) PROVE Goal
  <2>1. pc[w] \in Publishing /\ held[w] \in Copies /\ (Accept(pc[w], held[w]) \/ Lose)
    BY <1>9, PublishMeans
  <2>2. \A d \in Copies : wait'[d] > wait[d] => pc[w] = "retry" /\ d = held[w]
    BY <2>1, <1>nat, AcceptFiles
  <2>3. \A d \in Copies : wait'[d] >= wait[d]
    BY <2>1, <1>nat, AcceptFiles
  <2>4. runs' = runs /\ \A v \in Workers : held'[v] = held[v] \/ held'[v] = NoCopy
    BY <1>9 DEF PublishRetry, historyVars, Finish, TypeOK
  <2>5. \A d \in Copies : ready'[d] > ready[d] => d = held[w]
    BY <1>9, <2>1, <1>nat, QueuesAreBags DEF PublishRetry, More
  <2>6. pc'[w] \notin Owning \/ pc[w] # "retry"
    BY <1>9 DEF PublishRetry, Goto, Finish, AfterBurial, TypeOK, Owning, Publishing, Statuses
  <2>7. CASE held[w] = b /\ pc[w] = "retry"
    BY <2>6, <2>7 DEF Goal
  <2>8. CASE ~(held[w] = b /\ pc[w] = "retry")
    <3>1. wait'[b] = 0
      BY <2>2, <2>3, <2>8, <1>nat, <1>b
    <3>2. ASSUME NEW e \in Copies, Later(e) PROVE ready'[e] = 0 /\ wait'[e] = 0 /\ runs'[e] = 0
      <4>1. e # held[w] /\ ready[e] = 0 /\ wait[e] = 0 /\ runs[e] = 0
        BY <3>2, <1>b
      <4>2. ready'[e] >= 0 /\ wait'[e] >= 0
        BY <1>nat
      <4>3. ~(ready'[e] > 0) /\ ~(wait'[e] > 0)
        BY <4>1, <2>2, <2>5
      <4> QED
        BY <4>1, <4>2, <4>3, <2>4, <1>nat
    <3>3. \A e \in Copies : Later(e) => \A v \in Workers : held'[v] # e
      BY <2>4, <1>b, <1>none
    <3> QED
      BY <3>1, <3>2, <3>3, <1>goal
  <2> QED
    BY <2>7, <2>8
<1>10. ASSUME NEW w \in Workers, DeadLetter(w) PROVE Goal
  <2>1. pc[w] \in Publishing /\ held[w] \in Copies /\ (Accept(pc[w], held[w]) \/ Lose)
    BY <1>10, PublishMeans
  <2>2. \A d \in Copies : wait'[d] > wait[d] => pc[w] = "retry" /\ d = held[w]
    BY <2>1, <1>nat, AcceptFiles
  <2>3. \A d \in Copies : wait'[d] >= wait[d]
    BY <2>1, <1>nat, AcceptFiles
  <2>4. runs' = runs /\ \A v \in Workers : held'[v] = held[v] \/ held'[v] = NoCopy
    BY <1>10 DEF DeadLetter, historyVars, Finish, TypeOK
  <2>5. \A d \in Copies : ready'[d] > ready[d] => d = held[w]
    BY <1>10, <2>1, <1>nat, QueuesAreBags DEF DeadLetter, More
  <2>6. pc'[w] \notin Owning \/ pc[w] # "retry"
    BY <1>10 DEF DeadLetter, Goto, Finish, AfterBurial, TypeOK, Owning, Publishing, Statuses
  <2>7. CASE held[w] = b /\ pc[w] = "retry"
    BY <2>6, <2>7 DEF Goal
  <2>8. CASE ~(held[w] = b /\ pc[w] = "retry")
    <3>1. wait'[b] = 0
      BY <2>2, <2>3, <2>8, <1>nat, <1>b
    <3>2. ASSUME NEW e \in Copies, Later(e) PROVE ready'[e] = 0 /\ wait'[e] = 0 /\ runs'[e] = 0
      <4>1. e # held[w] /\ ready[e] = 0 /\ wait[e] = 0 /\ runs[e] = 0
        BY <3>2, <1>b
      <4>2. ready'[e] >= 0 /\ wait'[e] >= 0
        BY <1>nat
      <4>3. ~(ready'[e] > 0) /\ ~(wait'[e] > 0)
        BY <4>1, <2>2, <2>5
      <4> QED
        BY <4>1, <4>2, <4>3, <2>4, <1>nat
    <3>3. \A e \in Copies : Later(e) => \A v \in Workers : held'[v] # e
      BY <2>4, <1>b, <1>none
    <3> QED
      BY <3>1, <3>2, <3>3, <1>goal
  <2> QED
    BY <2>7, <2>8
<1>11. ASSUME NEW w \in Workers, PublishResult(w) PROVE Goal
  <2>1. pc[w] \in Publishing /\ held[w] \in Copies /\ (Accept(pc[w], held[w]) \/ Lose)
    BY <1>11, PublishMeans
  <2>2. \A d \in Copies : wait'[d] > wait[d] => pc[w] = "retry" /\ d = held[w]
    BY <2>1, <1>nat, AcceptFiles
  <2>3. \A d \in Copies : wait'[d] >= wait[d]
    BY <2>1, <1>nat, AcceptFiles
  <2>4. runs' = runs /\ \A v \in Workers : held'[v] = held[v] \/ held'[v] = NoCopy
    BY <1>11 DEF PublishResult, historyVars, Finish, TypeOK
  <2>5. \A d \in Copies : ready'[d] > ready[d] => d = held[w]
    BY <1>11, <2>1, <1>nat, QueuesAreBags DEF PublishResult, More
  <2>6. pc'[w] \notin Owning \/ pc[w] # "retry"
    BY <1>11 DEF PublishResult, Goto, Finish, AfterBurial, TypeOK, Owning, Publishing, Statuses
  <2>7. CASE held[w] = b /\ pc[w] = "retry"
    BY <2>6, <2>7 DEF Goal
  <2>8. CASE ~(held[w] = b /\ pc[w] = "retry")
    <3>1. wait'[b] = 0
      BY <2>2, <2>3, <2>8, <1>nat, <1>b
    <3>2. ASSUME NEW e \in Copies, Later(e) PROVE ready'[e] = 0 /\ wait'[e] = 0 /\ runs'[e] = 0
      <4>1. e # held[w] /\ ready[e] = 0 /\ wait[e] = 0 /\ runs[e] = 0
        BY <3>2, <1>b
      <4>2. ready'[e] >= 0 /\ wait'[e] >= 0
        BY <1>nat
      <4>3. ~(ready'[e] > 0) /\ ~(wait'[e] > 0)
        BY <4>1, <2>2, <2>5
      <4> QED
        BY <4>1, <4>2, <4>3, <2>4, <1>nat
    <3>3. \A e \in Copies : Later(e) => \A v \in Workers : held'[v] # e
      BY <2>4, <1>b, <1>none
    <3> QED
      BY <3>1, <3>2, <3>3, <1>goal
  <2> QED
    BY <2>7, <2>8
<1>12. ASSUME NEW w \in Workers, PublishFailsOffline(w) PROVE Goal
  <2>1. pc[w] \in Publishing /\ held[w] \in Copies /\ (Accept(pc[w], held[w]) \/ Lose)
    BY <1>12, PublishMeans
  <2>2. \A d \in Copies : wait'[d] > wait[d] => pc[w] = "retry" /\ d = held[w]
    BY <2>1, <1>nat, AcceptFiles
  <2>3. \A d \in Copies : wait'[d] >= wait[d]
    BY <2>1, <1>nat, AcceptFiles
  <2>4. runs' = runs /\ \A v \in Workers : held'[v] = held[v] \/ held'[v] = NoCopy
    BY <1>12 DEF PublishFailsOffline, historyVars, Finish, TypeOK
  <2>5. \A d \in Copies : ready'[d] > ready[d] => d = held[w]
    BY <1>12, <2>1, <1>nat, QueuesAreBags DEF PublishFailsOffline, More
  <2>6. pc'[w] \notin Owning \/ pc[w] # "retry"
    BY <1>12 DEF PublishFailsOffline, Goto, Finish, AfterBurial, TypeOK, Owning, Publishing, Statuses
  <2>7. CASE held[w] = b /\ pc[w] = "retry"
    BY <2>6, <2>7 DEF Goal
  <2>8. CASE ~(held[w] = b /\ pc[w] = "retry")
    <3>1. wait'[b] = 0
      BY <2>2, <2>3, <2>8, <1>nat, <1>b
    <3>2. ASSUME NEW e \in Copies, Later(e) PROVE ready'[e] = 0 /\ wait'[e] = 0 /\ runs'[e] = 0
      <4>1. e # held[w] /\ ready[e] = 0 /\ wait[e] = 0 /\ runs[e] = 0
        BY <3>2, <1>b
      <4>2. ready'[e] >= 0 /\ wait'[e] >= 0
        BY <1>nat
      <4>3. ~(ready'[e] > 0) /\ ~(wait'[e] > 0)
        BY <4>1, <2>2, <2>5
      <4> QED
        BY <4>1, <4>2, <4>3, <2>4, <1>nat
    <3>3. \A e \in Copies : Later(e) => \A v \in Workers : held'[v] # e
      BY <2>4, <1>b, <1>none
    <3> QED
      BY <3>1, <3>2, <3>3, <1>goal
  <2> QED
    BY <2>7, <2>8
<1>13. ASSUME NEW w \in Workers, Ack(w) PROVE Goal
  <2>1. ready' = ready /\ wait' = wait /\ runs' = runs
    BY <1>13 DEF Ack, queueVars, historyVars
  <2>2. \A v \in Workers : held'[v] = held[v] \/ held'[v] = NoCopy
    BY <1>13 DEF Ack, Finish, TypeOK
  <2> QED
    BY <2>1, <2>2, <1>b, <1>goal, <1>none
<1>14. ASSUME NEW w \in Workers, Reconnect(w) PROVE Goal
  <2>1. ready' = ready /\ wait' = wait /\ runs' = runs
    BY <1>14 DEF Reconnect, queueVars, historyVars
  <2>2. \A v \in Workers : held'[v] = held[v] \/ held'[v] = NoCopy
    BY <1>14 DEF Reconnect, Finish, TypeOK
  <2> QED
    BY <2>1, <2>2, <1>b, <1>goal, <1>none
<1>15. ASSUME NEW w \in Workers, GuardError(w) PROVE Goal
  <2>1. ready' = ready /\ wait' = wait /\ held' = held /\ held[w] \in Copies
    BY <1>15, BusyHoldsCopy DEF GuardError, queueVars
  <2>2. \A d \in Copies : d # held[w] => runs'[d] = runs[d]
    BY <1>15, <2>1, MoreBag DEF GuardError, TypeOK
  <2> QED
    BY <2>1, <2>2, <1>b, <1>goal
<1>16. ASSUME NEW w \in Workers, PublishFails(w) PROVE Goal
  <2>1. pc[w] \in Publishing /\ held[w] \in Copies /\ (Accept(pc[w], held[w]) \/ Lose)
    BY <1>16, PublishMeans
  <2>2. \A d \in Copies : wait'[d] > wait[d] => pc[w] = "retry" /\ d = held[w]
    BY <2>1, <1>nat, AcceptFiles
  <2>3. \A d \in Copies : wait'[d] >= wait[d]
    BY <2>1, <1>nat, AcceptFiles
  <2>4. runs' = runs /\ \A v \in Workers : held'[v] = held[v] \/ held'[v] = NoCopy
    BY <1>16 DEF PublishFails, historyVars, Finish, TypeOK
  <2>5. \A d \in Copies : ready'[d] > ready[d] => d = held[w]
    BY <1>16, <2>1, <1>nat, QueuesAreBags DEF PublishFails, More
  <2>6. pc'[w] \notin Owning \/ pc[w] # "retry"
    BY <1>16 DEF PublishFails, Goto, Finish, AfterBurial, TypeOK, Owning, Publishing, Statuses
  <2>7. CASE held[w] = b /\ pc[w] = "retry"
    BY <2>6, <2>7 DEF Goal
  <2>8. CASE ~(held[w] = b /\ pc[w] = "retry")
    <3>1. wait'[b] = 0
      BY <2>2, <2>3, <2>8, <1>nat, <1>b
    <3>2. ASSUME NEW e \in Copies, Later(e) PROVE ready'[e] = 0 /\ wait'[e] = 0 /\ runs'[e] = 0
      <4>1. e # held[w] /\ ready[e] = 0 /\ wait[e] = 0 /\ runs[e] = 0
        BY <3>2, <1>b
      <4>2. ready'[e] >= 0 /\ wait'[e] >= 0
        BY <1>nat
      <4>3. ~(ready'[e] > 0) /\ ~(wait'[e] > 0)
        BY <4>1, <2>2, <2>5
      <4> QED
        BY <4>1, <4>2, <4>3, <2>4, <1>nat
    <3>3. \A e \in Copies : Later(e) => \A v \in Workers : held'[v] # e
      BY <2>4, <1>b, <1>none
    <3> QED
      BY <3>1, <3>2, <3>3, <1>goal
  <2> QED
    BY <2>7, <2>8
<1>17. ASSUME NEW w \in Workers, ConnectionLost(w) PROVE Goal
  <2>1. \A d \in Copies : ready'[d] > ready[d] => pc[w] # "idle" /\ d = held[w]
    BY <1>17, RedeliverReturns DEF ConnectionLost
  <2>2. wait' = wait /\ runs' = runs
    BY <1>17 DEF ConnectionLost
  <2>3. \A v \in Workers : held'[v] = held[v] \/ held'[v] = NoCopy
    BY <1>17 DEF ConnectionLost, Finish, TypeOK
  <2>4. \A e \in Copies : Later(e) => ready'[e] = 0
    BY <2>1, <1>nat, <1>b
  <2> QED
    BY <2>2, <2>3, <2>4, <1>b, <1>goal, <1>none
<1>18. ASSUME NEW w \in Workers, Crash(w) PROVE Goal
  <2>1. \A d \in Copies : ready'[d] > ready[d] => pc[w] # "idle" /\ d = held[w]
    BY <1>18, RedeliverReturns DEF Crash, Restart
  <2>2. wait' = wait /\ runs' = runs
    BY <1>18 DEF Crash, Restart
  <2>3. \A v \in Workers : held'[v] = held[v] \/ held'[v] = NoCopy
    BY <1>18 DEF Crash, Restart, Finish, TypeOK
  <2>4. \A e \in Copies : Later(e) => ready'[e] = 0
    BY <2>1, <1>nat, <1>b
  <2> QED
    BY <2>2, <2>3, <2>4, <1>b, <1>goal, <1>none
<1>19. ASSUME NEW w \in Workers, Shutdown(w) PROVE Goal
  <2>1. \A d \in Copies : ready'[d] > ready[d] => pc[w] # "idle" /\ d = held[w]
    BY <1>19, RedeliverReturns DEF Shutdown, Restart
  <2>2. wait' = wait /\ runs' = runs
    BY <1>19 DEF Shutdown, Restart
  <2>3. \A v \in Workers : held'[v] = held[v] \/ held'[v] = NoCopy
    BY <1>19 DEF Shutdown, Restart, Finish, TypeOK
  <2>4. \A e \in Copies : Later(e) => ready'[e] = 0
    BY <2>1, <1>nat, <1>b
  <2> QED
    BY <2>2, <2>3, <2>4, <1>b, <1>goal, <1>none
<1>20. CASE UNCHANGED vars
  <2>1. ready' = ready /\ wait' = wait /\ runs' = runs /\ held' = held
    BY <1>20 DEF vars, queueVars, workerVars, historyVars
  <2> QED
    BY <2>1, <1>b, <1>goal DEF Goal
<1> QED
  BY <1>1, <1>2, <1>3, <1>4, <1>5, <1>6, <1>7, <1>8, <1>9, <1>10, <1>11, <1>12,
     <1>13, <1>14, <1>15, <1>16, <1>17, <1>18, <1>19, <1>20
     DEF Next, Handle, Break, Goal

\* A step publishes one result at most.
LEMMA ResultStep ==
    ASSUME TypeOK, [Next]_vars
    PROVE  results' = results \/ \E c \in Copies, q \in Statuses : results' = results \cup {<<c[1], q>>}
  <1> DEFINE Goal == results' = results \/ \E c \in Copies, q \in Statuses : results' = results \cup {<<c[1], q>>}
  <1>1. CASE Topology
    BY <1>1, TopologyAddsNothing DEF TypeOK
  <1>2. ASSUME NEW w \in Workers, Handle(w) \/ Break(w) PROVE Goal
    <2>1. ASSUME \/ PublishRetry(w) \/ DeadLetter(w) \/ PublishResult(w)
                 \/ PublishFails(w) \/ PublishFailsOffline(w)
          PROVE  Goal
      <3>1. held[w] \in Copies /\ (Accept(pc[w], held[w]) \/ Lose)
        BY <2>1, PublishMeans
      <3> QED
        BY <3>1 DEF Accept, Lose
    <2>2. ASSUME ~PublishRetry(w), ~DeadLetter(w), ~PublishResult(w), ~PublishFails(w), ~PublishFailsOffline(w)
          PROVE  results' = results
      BY <1>2, <2>2 DEF Handle, Break, ParseError, Claim, SkipDuplicate, ValidationFails, ProcessRaises,
                        ProcessReturns, Ack, Reconnect, GuardError, ConnectionLost, Crash, Shutdown,
                        Restart, queueVars
    <2> QED
      BY <2>1, <2>2
  <1>3. ASSUME NEW w \in Workers, NEW d \in Copies, Receive(w, d) PROVE results' = results
    BY <1>3 DEF Receive
  <1>4. CASE UNCHANGED vars
    BY <1>4 DEF vars, queueVars
  <1> QED
    BY <1>1, <1>2, <1>3, <1>4 DEF Next

\* Every report is a worker's, at the end of the attempt in its hand.
LEMMA ReportStep ==
    ASSUME TypeOK, RejectInv, [Next]_vars, NEW m \in Msgs, NEW s \in Statuses,
           Reported(m, s)', ~Reported(m, s)
    PROVE  /\ m \notin Malformed
           /\ \E w \in Workers : /\ pc[w] = s /\ pc'[w] \notin Owning
                                 /\ held[w] \in Copies /\ held[w][1] = m
  <1> DEFINE Goal == /\ m \notin Malformed
                     /\ \E w \in Workers : /\ pc[w] = s /\ pc'[w] \notin Owning
                                           /\ held[w] \in Copies /\ held[w][1] = m
  <1>1. CASE Topology
    BY <1>1, TopologyAddsNothing DEF TypeOK, Reported
  <1>2. ASSUME NEW w \in Workers, Handle(w) \/ Break(w) PROVE Goal
    <2>1. ASSUME \/ PublishRetry(w) \/ DeadLetter(w) \/ PublishResult(w)
                 \/ PublishFails(w) \/ PublishFailsOffline(w)
          PROVE  Goal
      <3>1. pc[w] \in Publishing /\ held[w] \in Copies /\ (Accept(pc[w], held[w]) \/ Lose) /\ QueueTypeOK
        BY <2>1, PublishMeans DEF TypeOK
      <3>2. m = held[w][1] /\ s = pc[w]
        BY <3>1, AcceptFiles DEF Reported
      <3>3. PublishResult(w) \/ PublishFails(w) \/ PublishFailsOffline(w)
        BY <2>1, <3>2 DEF PublishRetry, DeadLetter, Statuses
      <3>4. pc'[w] \notin Owning
        BY <3>3 DEF PublishResult, PublishFails, PublishFailsOffline, Goto, Finish, TypeOK,
                    Owning, Publishing, Statuses
      <3>5. m \notin Malformed
        BY <3>2 DEF RejectInv, Msg
      <3> QED
        BY <3>1, <3>2, <3>4, <3>5
    <2>2. ASSUME ~PublishRetry(w), ~DeadLetter(w), ~PublishResult(w), ~PublishFails(w), ~PublishFailsOffline(w)
          PROVE  results' = results
      BY <1>2, <2>2 DEF Handle, Break, ParseError, Claim, SkipDuplicate, ValidationFails, ProcessRaises,
                        ProcessReturns, Ack, Reconnect, GuardError, ConnectionLost, Crash, Shutdown,
                        Restart, queueVars
    <2> QED
      BY <2>1, <2>2 DEF Reported
  <1>3. ASSUME NEW w \in Workers, NEW d \in Copies, Receive(w, d) PROVE results' = results
    BY <1>3 DEF Receive
  <1>4. CASE UNCHANGED vars
    BY <1>4 DEF vars, queueVars, Reported
  <1> QED
    BY <1>1, <1>2, <1>3, <1>4 DEF Next, Reported

\* Once the latest attempt of a guarded message is over, nobody runs any.
LEMMA OverIsIdle ==
    ASSUME TypeOK, LadderInv, SerialInv, NEW c \in Copies, Guarded(c[1]),
           runs[c] > 0, Latest(c), \A w \in Workers : ~Active(w, c),
           NEW b \in Copies, b[1] = c[1], NEW v \in Workers
    PROVE  ~Active(v, b)
  <1> SUFFICES ASSUME Active(v, b) PROVE FALSE
    OBVIOUS
  <1>1. b[2] \in Nat /\ c[2] \in Nat /\ b = <<b[1], b[2]>> /\ c = <<c[1], c[2]>>
    BY CopyParts
  <1>2. CASE b[2] = c[2]
    BY <1>1, <1>2
  <1>3. CASE b[2] > c[2]
    BY <1>3 DEF Latest, Active
  <1>4. CASE b[2] < c[2]
    <2>1. Latest(b)
      BY DEF SerialInv
    <2> QED
      BY <1>1, <1>4, <2>1 DEF Latest
  <1> QED
    BY <1>1, <1>2, <1>3, <1>4

\* A guarded message was guarded before; its runs are those that took the key.
LEMMA GuardedStep ==
    ASSUME TypeOK, GuardInv, [Next]_vars, NEW m \in Msgs, Guarded(m)'
    PROVE  /\ Guarded(m)
           /\ \A c \in Copies : c[1] = m /\ runs[c] > 0 => c \in guard
           /\ \A w \in Workers : pc[w] # "idle" /\ Msg(w) = m => ~GuardError(w)
  <1>1. \A a \in 0..Tiers : <<m, a>> \in Copies /\ failOpen[<<m, a>>] \in Nat
    BY DEF Copies, TypeOK
  <1>2. \A a \in 0..Tiers : failOpen'[<<m, a>>] = 0
    BY DEF Guarded
  <1>3. \A a \in 0..Tiers : failOpen[<<m, a>>] = 0
    BY <1>1, <1>2, RunsGrow
  <1>4. ASSUME NEW c \in Copies, c[1] = m, runs[c] > 0 PROVE c \in guard
    <2>1. failOpen[c] = 0 /\ runs[c] \in Nat
      BY <1>3, <1>4, CopyParts DEF TypeOK
    <2> QED
      BY <1>4, <2>1 DEF GuardInv
  <1>5. ASSUME NEW w \in Workers, pc[w] # "idle", Msg(w) = m, GuardError(w) PROVE FALSE
    <2>1. held[w] \in Copies /\ held[w] = <<m, held[w][2]>> /\ held[w][2] \in 0..Tiers
      BY <1>5, BusyHoldsCopy
    <2>2. PICK a \in 0..Tiers : held[w] = <<m, a>>
      BY <2>1
    <2>3. failOpen'[<<m, a>>] = failOpen[<<m, a>>] + 1
      BY <1>5, <2>1, <2>2 DEF GuardError, More, TypeOK
    <2> QED
      BY <1>2, <1>3, <2>3
  <1>6. m \notin Malformed
    BY DEF Guarded
  <1> QED
    BY <1>3, <1>4, <1>5, <1>6 DEF Guarded

\* A guarded message is claimed at an attempt that is the latest and that nobody runs.
LEMMA ClaimIsLatest ==
    ASSUME TypeOK, GuardInv, LadderInv, [Next]_vars, NEW w \in Workers, NEW b \in Copies, held[w] = b,
           Guarded(b[1])', Claim(w)
    PROVE  runs[b] = 0 /\ Latest(b) /\ \A v \in Workers : ~Active(v, b)
  <1>1. b[1] \in Msgs /\ b[2] \in 0..Tiers /\ b = <<b[1], b[2]>> /\ b[1] \notin Malformed
    BY CopyParts DEF Guarded
  <1>2. b \notin guard /\ runs[b] \in Nat
    BY DEF Claim, TypeOK
  <1>3. runs[b] = 0
    BY <1>1, <1>2, GuardedStep
  <1>4. \A v \in Workers : ~Active(v, b)
    BY <1>1, <1>3 DEF LadderInv, HandsClimbed, Active, Owning, Publishing, Statuses, Msg
  <1>5. wait[b] = 0
    <2>1. wait[b] \in Nat
      BY QueuesAreBags DEF TypeOK
    <2> QED
      BY <1>1, <1>3, <2>1 DEF LadderInv, CopiesClimbed
  <1>6. ASSUME NEW d \in Copies, d[1] = b[1], d[2] > b[2]
        PROVE  ready[d] = 0 /\ wait[d] = 0 /\ runs[d] = 0
    <2>1. ready[d] \in Nat /\ wait[d] \in Nat /\ runs[d] \in Nat
      BY QueuesAreBags DEF TypeOK
    <2>2. ~(ready[d] > 0 \/ wait[d] > 0 \/ runs[d] > 0)
      BY <1>1, <1>3, <1>6 DEF LadderInv, CopiesClimbed
    <2> QED
      BY <2>1, <2>2
  <1>7. ASSUME NEW d \in Copies, d[1] = b[1], d[2] > b[2], NEW v \in Workers, held[v] = d PROVE FALSE
    <2>1. pc[v] # "idle"
      BY <1>7, NoCopyIsNone DEF TypeOK
    <2> QED
      BY <1>1, <1>3, <1>7, <2>1 DEF LadderInv, HandsClimbed, Msg
  <1> QED
    BY <1>3, <1>4, <1>5, <1>6, <1>7 DEF Latest

\* A run in hand is the only one and the latest.
LEMMA ActiveIsLatestStep ==
    ASSUME TypeOK, GuardInv, RejectInv, LadderInv, SerialInv, [Next]_vars,
           NEW b \in Copies, Guarded(b[1])', NEW u \in Workers, Active(u, b)'
    PROVE  Latest(b)' /\ \A v \in Workers : Active(v, b)' => v = u
  <1>1. b[1] \in Msgs /\ b[1] \notin Malformed
    BY CopyParts DEF Guarded
  <1>2. Guarded(b[1])
    BY <1>1, GuardedStep
  <1>3. ASSUME NEW v \in Workers, Active(v, b)'
        PROVE  Active(v, b) \/ (held[v] = b /\ pc[v] = "begin" /\ Claim(v))
    <2>1. Active(v, b) \/ (held[v] = b /\ pc[v] = "begin" /\ (Claim(v) \/ GuardError(v)))
      BY <1>1, <1>3, ActiveStep
    <2> QED
      BY <1>1, <2>1, GuardedStep DEF Msg
  <1>4. CASE Active(u, b)
    <2>1. Latest(b) /\ \A v \in Workers : Active(v, b) => v = u
      BY <1>2, <1>4 DEF SerialInv
    <2>2. Latest(b)'
      <3>1. \A v \in Workers : held[v] = b /\ pc[v] = "retry" => v = u
        BY <2>1 DEF Active, Owning, Publishing
      <3>2. pc'[u] \in Owning
        BY DEF Active
      <3> QED
        BY <2>1, <3>1, <3>2, LatestStep
    <2>3. \A v \in Workers : Active(v, b)' => v = u
      BY <1>3, <1>4, <2>1, ClaimIsLatest
    <2> QED
      BY <2>2, <2>3
  <1>5. CASE ~Active(u, b)
    <2>1. held[u] = b /\ pc[u] = "begin" /\ Claim(u)
      BY <1>3, <1>5
    <2>2. Latest(b) /\ \A v \in Workers : ~Active(v, b)
      BY <2>1, ClaimIsLatest
    <2>3. Latest(b)'
      BY <2>2, LatestStep DEF Active, Owning, Publishing
    <2>4. ASSUME NEW v \in Workers, Active(v, b)', v # u PROVE FALSE
      <3>1. held[v] = b /\ pc[v] = "begin" /\ Claim(v)
        BY <1>3, <2>2, <2>4
      <3>2. pc' = [pc EXCEPT ![v] = "handler"] /\ pc' = [pc EXCEPT ![u] = "handler"]
        BY <2>1, <3>1 DEF Claim, Goto
      <3> QED
        BY <2>1, <2>4, <3>1, <3>2 DEF TypeOK
    <2> QED
      BY <2>3, <2>4
  <1> QED
    BY <1>4, <1>5

\* What was reported was the end of the latest attempt, and stays so.
LEMMA VerdictStep ==
    ASSUME TypeOK, GuardInv, RejectInv, LadderInv, SerialInv, [Next]_vars,
           NEW m \in Msgs, NEW s \in Statuses, Reported(m, s)', Guarded(m)'
    PROVE  \E c \in Copies :
               c[1] = m /\ runs'[c] > 0 /\ Latest(c)' /\ \A w \in Workers : ~Active(w, c)'
  <1>0. Guarded(m) /\ m \notin Malformed
    BY GuardedStep DEF Guarded
  <1>1. CASE Reported(m, s)
    <2>1. PICK c \in Copies : c[1] = m /\ runs[c] > 0 /\ Latest(c) /\ \A w \in Workers : ~Active(w, c)
      BY <1>0, <1>1 DEF SerialInv
    <2>2. runs'[c] > 0
      BY <2>1, RunsGrow
    <2>3. Latest(c)'
      BY <2>1, LatestStep DEF Active, Owning, Publishing
    <2>4. ASSUME NEW w \in Workers, Active(w, c)' PROVE FALSE
      <3>1. held[w] = c /\ pc[w] = "begin" /\ (Claim(w) \/ GuardError(w))
        BY <1>0, <2>1, <2>4, ActiveStep
      <3>2. Claim(w)
        BY <2>1, <3>1, GuardedStep DEF Msg
      <3>3. runs[c] = 0
        BY <2>1, <3>1, <3>2, ClaimIsLatest
      <3> QED
        BY <2>1, <3>3
    <2> QED
      BY <2>1, <2>2, <2>3, <2>4
  <1>2. CASE ~Reported(m, s)
    <2>1. PICK w \in Workers : pc[w] = s /\ pc'[w] \notin Owning /\ held[w] \in Copies /\ held[w][1] = m
      BY <1>2, ReportStep
    <2>2. PICK c \in Copies : c = held[w] /\ c[1] = m
      BY <2>1
    <2>3. Active(w, c) /\ pc[w] # "idle" /\ pc[w] # "begin" /\ pc[w] # "retry"
      BY <2>1, <2>2 DEF Active, Owning, Publishing, Statuses
    <2>4. Latest(c) /\ \A v \in Workers : Active(v, c) => v = w
      BY <1>0, <2>2, <2>3 DEF SerialInv
    <2>5. runs[c] > 0
      BY <1>0, <2>2, <2>3 DEF LadderInv, HandsClimbed, Active, Msg
    <2>6. Latest(c)'
      BY <2>2, <2>3, <2>4, LatestStep DEF Active, Owning, Publishing
    <2>7. ASSUME NEW v \in Workers, Active(v, c)' PROVE FALSE
      <3>1. Active(v, c) \/ (held[v] = c /\ pc[v] = "begin" /\ (Claim(v) \/ GuardError(v)))
        BY <1>0, <2>2, <2>7, ActiveStep
      <3>2. CASE Active(v, c)
        BY <2>1, <2>4, <2>7, <3>2 DEF Active
      <3>3. CASE held[v] = c /\ pc[v] = "begin" /\ (Claim(v) \/ GuardError(v))
        <4>1. Claim(v)
          BY <2>2, <3>3, GuardedStep DEF Msg
        <4>2. runs[c] = 0
          BY <2>2, <3>3, <4>1, ClaimIsLatest
        <4> QED
          BY <2>5, <4>2
      <3> QED
        BY <3>1, <3>2, <3>3
    <2> QED
      BY <2>2, <2>4, <2>5, <2>6, <2>7, RunsGrow
  <1> QED
    BY <1>1, <1>2

\* Nobody contradicts what was reported.
LEMMA OneVerdictStep ==
    ASSUME TypeOK, GuardInv, RejectInv, LadderInv, SerialInv, [Next]_vars
    PROVE  OneVerdict'
  <1> SUFFICES ASSUME NEW m \in Msgs, \A status \in Statuses : Reported(m, status)',
                      ~\E a \in 0..Tiers : failOpen'[<<m, a>>] > 0
               PROVE  FALSE
    BY DEF OneVerdict
  <1>0. m \notin Malformed
    <2>1. CASE Reported(m, "failed")
      BY <2>1 DEF SerialInv, Statuses
    <2>2. CASE ~Reported(m, "failed")
      BY <2>2, ReportStep DEF Statuses
    <2> QED
      BY <2>1, <2>2
  <1>1. Guarded(m)'
    <2>1. \A a \in 0..Tiers : <<m, a>> \in Copies
      BY DEF Copies
    <2>2. failOpen' \in [Copies -> Nat]
      BY TypeStep DEF TypeOK
    <2>3. \A a \in 0..Tiers : failOpen'[<<m, a>>] \in Nat
      BY <2>1, <2>2
    <2> QED
      BY <1>0, <2>3 DEF Guarded
  <1>2. Guarded(m)
    BY <1>1, GuardedStep
  <1>3. ~\A status \in Statuses : Reported(m, status)
    BY <1>2 DEF SerialInv, OneVerdict, Guarded
  <1>4. PICK s \in Statuses : ~Reported(m, s)
    BY <1>3
  <1>5. PICK w \in Workers : pc[w] = s /\ held[w] \in Copies /\ held[w][1] = m
    BY <1>4, ReportStep
  <1>6. Active(w, held[w])
    BY <1>5 DEF Active, Owning, Publishing
  <1>7. ASSUME NEW r \in Statuses, Reported(m, r) PROVE FALSE
    <2>1. PICK c \in Copies : c[1] = m /\ runs[c] > 0 /\ Latest(c) /\ \A v \in Workers : ~Active(v, c)
      BY <1>2, <1>7 DEF SerialInv
    <2> QED
      BY <1>2, <1>5, <1>6, <2>1, OverIsIdle
  <1>8. ASSUME NEW r \in Statuses, ~Reported(m, r) PROVE r = s
    <2>1. PICK v \in Workers : pc[v] = r /\ held[v] \in Copies /\ held[v][1] = m /\ pc'[v] \notin Owning
      BY <1>8, ReportStep
    <2>2. results' = results \/ \E c \in Copies, q \in Statuses : results' = results \cup {<<c[1], q>>}
      BY ResultStep
    <2> QED
      BY <1>4, <1>8, <2>2 DEF Reported, Statuses
  <1> QED
    BY <1>7, <1>8 DEF Statuses

\* Verdicts come one at a time, at the end of the latest attempt.
LEMMA SerialStep ==
    TypeOK /\ GuardInv /\ RejectInv /\ LadderInv /\ SerialInv /\ [Next]_vars => SerialInv'
  <1> SUFFICES ASSUME TypeOK, GuardInv, RejectInv, LadderInv, SerialInv, [Next]_vars
               PROVE  SerialInv'
    OBVIOUS
  <1>1. \A c \in Copies : Guarded(c[1])' => \A w \in Workers : Active(w, c)' =>
            Latest(c)' /\ \A v \in Workers : Active(v, c)' => v = w
    BY ActiveIsLatestStep
  <1>2. ASSUME NEW m \in Msgs, NEW s \in Statuses, Reported(m, s)' PROVE m \notin Malformed
    BY <1>2, ReportStep DEF SerialInv
  <1>3. \A m \in Msgs, s \in Statuses : Reported(m, s)' /\ Guarded(m)' =>
            \E c \in Copies : c[1] = m /\ runs'[c] > 0 /\ Latest(c)' /\ \A w \in Workers : ~Active(w, c)'
    BY VerdictStep
  <1> QED
    BY <1>1, <1>2, <1>3, OneVerdictStep DEF SerialInv
-----------------------------------------------------------------------------
(* The theorems *)

\* Nothing is queued, run or sent at first.
LEMMA InitInv == Init => IInv
  <1> SUFFICES ASSUME Init PROVE IInv
    OBVIOUS
  <1>1. /\ \A c \in Copies : ready[c] = 0 /\ wait[c] = 0 /\ dlq[c] = 0 /\ runs[c] = 0 /\ failOpen[c] = 0
        /\ guard = {} /\ sent = {} /\ results = {}
        /\ \A w \in Workers : pc[w] = "idle"
    BY DEF Init, QueueInit
  <1>2. GuardInv /\ RejectInv /\ LadderInv
    BY <1>1 DEF GuardInv, RejectInv, LadderInv, CopiesClimbed, HandsClimbed, Statuses
  <1>3. TruthInv /\ OfflineInv
    BY <1>1 DEF TruthInv, ResultsAreTrue, Reported, OfflineInv, Owning, Publishing, Statuses
  <1>4. ProgressInv /\ TopInv
    BY <1>1 DEF ProgressInv, TopInv
  <1>5. SerialInv
    BY <1>1 DEF SerialInv, OneVerdict, Reported, Active, Owning, Publishing, Statuses
  <1> QED
    BY <1>2, <1>3, <1>4, <1>5, InitType DEF IInv

\* The parts of IInv are inductive together.
THEOREM Invariance == Spec => []IInv
  <1>1. IInv /\ [Next]_vars => IInv'
    <2> SUFFICES ASSUME IInv, [Next]_vars PROVE IInv'
      OBVIOUS
    <2>1. TypeOK' /\ GuardInv' /\ RejectInv'
      BY TypeStep, GuardStep, RejectStep DEF IInv
    <2>2. LadderInv'
      BY CopiesClimbedStep, HandsClimbedStep DEF IInv, LadderInv
    <2>3. TruthInv' /\ OfflineInv'
      BY TruthStep, OfflineStep DEF IInv
    <2>4. ProgressInv' /\ TopInv'
      BY ProgressStep, TopStep DEF IInv
    <2>5. SerialInv'
      BY SerialStep DEF IInv
    <2> QED
      BY <2>1, <2>2, <2>3, <2>4, <2>5 DEF IInv
  <1> QED
    BY InitInv, <1>1, PTL DEF Spec

\* Every variable has its type; who is idle holds nothing.
THEOREM TypeCorrect == Spec => []TypeOK
  <1>1. IInv => TypeOK
    BY DEF IInv
  <1> QED
    BY <1>1, Invariance, PTL

\* The guard dedupes across replicas, crashes, requeues and relay duplicates: the
\* handler runs once per attempt, and once more per guard error that failed open.
THEOREM RunsOnce == Spec => []AttemptRunsOnce
  <1>1. IInv => AttemptRunsOnce
    BY DEF IInv, TypeOK, GuardInv, AttemptRunsOnce
  <1> QED
    BY <1>1, Invariance, PTL

\* select_tier sends a valid message to the dead-letter queue only after a try at
\* every rung of the ladder.
THEOREM BurialEarned == Spec => []DeadLetterEarned
  <1>1. IInv => DeadLetterEarned
    BY DEF IInv, LadderInv, CopiesClimbed, DeadLetterEarned
  <1> QED
    BY <1>1, Invariance, PTL

\* A task.result of _handle_delivery says what the handler returned, or that the
\* message is in the dead-letter queue.
THEOREM ResultsTellTruth == Spec => []ResultsAreTrue
  <1>1. IInv => ResultsAreTrue
    BY DEF IInv, TruthInv
  <1> QED
    BY <1>1, Invariance, PTL

\* However many copies the relay makes, api-service is not told both "completed"
\* and "failed", unless the guard failed open.
THEOREM VerdictsAgree == Spec => []OneVerdict
  <1>1. IInv => OneVerdict
    BY DEF IInv, SerialInv
  <1> QED
    BY <1>1, Invariance, PTL

\* What was handed on and is not over still circulates: at the highest attempt run
\* it is in hand, waits in its tier, or is queued for the attempt after it.
LEMMA TopCirculates ==
    ASSUME IInv, NEW c \in Copies, runs[c] > 0
    PROVE  Over(c[1]) \/ Circulates(c[1])
  <1>0. /\ QueueTypeOK
        /\ \A d \in Copies : ready[d] \in Nat /\ wait[d] \in Nat /\ d[2] \in Nat
    BY QueuesAreBags, CopyParts DEF IInv, TypeOK
  <1>1. PICK t \in Copies : /\ t[1] = c[1] /\ runs[t] > 0
                            /\ \A d \in Copies : d[1] = c[1] /\ runs[d] > 0 => d[2] <= t[2]
    BY DEF IInv, TopInv
  <1>2. HandedOn(t)
    BY <1>1 DEF IInv, ProgressInv
  <1>3. Owned(t) => Circulates(c[1])
    BY <1>1 DEF Owned, Owning, Circulates, Msg, Publishing, Statuses
  <1>4. wait[t] > 0 => Circulates(c[1])
    BY <1>0, <1>1 DEF Circulates, Queued
  <1>5. ASSUME NEW d \in Copies, d = <<t[1], t[2] + 1>>, Pending(d) \/ runs[d] > 0
        PROVE  Circulates(c[1])
    <2>1. d[1] = c[1] /\ d[2] = t[2] + 1
      BY <1>1, <1>5
    <2>2. Pending(d)
      BY <1>0, <1>1, <1>5, <2>1
    <2>3. ready[d] > 0 => Circulates(c[1])
      BY <1>0, <2>1 DEF Circulates, Queued
    <2> QED
      BY <2>1, <2>2, <2>3 DEF Pending, Circulates, Msg, Statuses
  <1> QED
    BY <1>1, <1>2, <1>3, <1>4, <1>5 DEF HandedOn

\* Only a crash, a lost channel, a failed publish or SIGTERM between the key and the
\* result leaves a published message without its result or its burial.
THEOREM OnlyCutOffIsUnsettled == Spec => []UnsettledOnlyIfCutOff
  <1>1. IInv => UnsettledOnlyIfCutOff
    <2> SUFFICES ASSUME IInv, NEW m \in sent PROVE Over(m) \/ Circulates(m)
      BY DEF UnsettledOnlyIfCutOff, Over
    <2>1. PICK c \in Copies :
            /\ c = <<m, 0>>
            /\ Over(m) \/ Pending(c) \/ IF m \in Malformed THEN Owned(c) ELSE runs[c] > 0
      BY DEF IInv, ProgressInv, Accounted
    <2>2. c[1] = m
      BY <2>1
    <2>3. ready[c] \in Nat /\ wait[c] \in Nat
      BY QueuesAreBags DEF IInv, TypeOK
    <2>4. Pending(c) => Circulates(m)
      BY <2>2, <2>3 DEF Pending, Circulates, Queued, Msg
    <2>5. Owned(c) => Circulates(m)
      BY <2>2 DEF Owned, Owning, Circulates, Msg, Publishing, Statuses
    <2>6. runs[c] > 0 => Over(m) \/ Circulates(m)
      BY <2>2, TopCirculates
    <2> QED
      BY <2>1, <2>4, <2>5, <2>6
  <1> QED
    BY <1>1, Invariance, PTL
=============================================================================
