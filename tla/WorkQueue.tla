----------------------------- MODULE WorkQueue -----------------------------
(***************************************************************************)
(* One pipeline of the RabbitMQ topology that generate-definitions.py      *)
(* builds: a work queue, its retry wait-queues, its dead-letter queue, the *)
(* parking queue of expired messages, and the task.result messages its     *)
(* workers publish.  The worker modules extend this one.                   *)
(*                                                                         *)
(* The outbox relay publishes a message at least once, so several copies   *)
(* of one envelope may circulate.  A copy is <<message, attempt>>, attempt *)
(* being the x-death count its headers carry.  A queue is a bag of copies: *)
(* replicas, prefetch and requeues leave no order to rely on, and what is  *)
(* prefetched but not yet handled is as good as still queued.              *)
(***************************************************************************)
EXTENDS Naturals

CONSTANTS
    Msgs,       \* envelope ids
    Tiers,      \* number of retry wait-queues
    Stales,     \* the work queue has a message TTL (email-processing only)
    MaxPublishes \* bound: publishes of the relay, repeats included

ASSUME WorkQueueAssumption ==
    /\ {Tiers, MaxPublishes} \subseteq Nat
    /\ Stales \in BOOLEAN

VARIABLES
    sent,       \* messages the relay has published
    publishes,  \* history: publishes of the relay so far
    ready,      \* the work queue
    wait,       \* the retry wait-queues; attempt a waits in tier a
    dlq,        \* the dead-letter queue
    expired,    \* parked by the work queue's own dead-letter path
    results     \* task.result messages: <<message, status>>

queueVars == <<sent, publishes, ready, wait, dlq, expired, results>>

Copies == Msgs \X (0..Tiers)

\* What no worker holds.
NoCopy == <<>>

Statuses == {"completed", "failed"}

\* What a worker publishes: a retry, a dead letter, a task.result.
Publishing == {"retry", "dead"} \cup Statuses

Attempt(c) == c[2]

\* One more, one fewer of copy c.
More(bag, c) == [bag EXCEPT ![c] = @ + 1]
Less(bag, c) == [bag EXCEPT ![c] = @ - 1]

QueueInit ==
    /\ sent = {}
    /\ publishes = 0
    /\ ready = [c \in Copies |-> 0]
    /\ wait = [c \in Copies |-> 0]
    /\ dlq = [c \in Copies |-> 0]
    /\ expired = [c \in Copies |-> 0]
    /\ results = {}

\* The relay, which after a crash or an unconfirmed publish repeats itself.
RelayPublish(m) ==
    /\ publishes < MaxPublishes
    /\ publishes' = publishes + 1
    /\ sent' = sent \cup {m}
    /\ ready' = More(ready, <<m, 0>>)
    /\ UNCHANGED <<wait, dlq, expired, results>>

\* A wait-queue's TTL dead-letters the copy back to the work queue, which adds
\* one to the x-death counts that DeathCount sums.
RetryDue(c) ==
    /\ wait[c] > 0
    /\ wait' = Less(wait, c)
    /\ ready' = More(ready, <<c[1], Attempt(c) + 1>>)
    /\ UNCHANGED <<sent, publishes, dlq, expired, results>>

\* The work queue's own TTL (email.expired).
Expire(c) ==
    /\ Stales /\ ready[c] > 0
    /\ ready' = Less(ready, c)
    /\ expired' = More(expired, c)
    /\ UNCHANGED <<sent, publishes, wait, dlq, results>>

\* The broker accepts what a worker publishes: a copy for the wait-queue of its
\* tier or for the dead-letter queue, or a task.result with the given status.
Accept(what, c) ==
    /\ wait' = IF what = "retry" THEN More(wait, c) ELSE wait
    /\ dlq' = IF what = "dead" THEN More(dlq, c) ELSE dlq
    /\ results' = IF what \in Statuses THEN results \cup {<<c[1], what>>} ELSE results

Lose == UNCHANGED <<wait, dlq, results>>

WaitingCopies == Msgs \X (0..(Tiers - 1))

Topology ==
    \/ \E m \in Msgs : RelayPublish(m)
    \/ \E c \in WaitingCopies : RetryDue(c)
    \/ \E c \in Copies : Expire(c)

-----------------------------------------------------------------------------
QueueTypeOK ==
    /\ sent \subseteq Msgs
    /\ publishes \in 0..MaxPublishes
    /\ {ready, wait, dlq, expired} \subseteq [Copies -> Nat]
    /\ results \subseteq Msgs \X Statuses

\* Copies of m waiting at the broker.
Queued(m) == \E c \in Copies : c[1] = m /\ ready[c] + wait[c] > 0

Buried(m) == \E a \in 0..Tiers : dlq[<<m, a>>] > 0
Parked(m) == \E a \in 0..Tiers : expired[<<m, a>>] > 0
Reported(m, status) == <<m, status>> \in results
=============================================================================
