--------------------------- MODULE WorkQueueProofs ---------------------------
(***************************************************************************)
(* What the proofs about the workers need to know of the broker, for any   *)
(* messages and any number of retry tiers: bags of copies stay bags, and a *)
(* step of the topology only moves a copy forward.                         *)
(***************************************************************************)
EXTENDS WorkQueue, TLAPS

\* Pairs of Copies are what their parts say, and an attempt is a number up to Tiers.
LEMMA CopyParts ==
    ASSUME NEW c \in Copies
    PROVE  /\ c = <<c[1], c[2]>>
           /\ c[1] \in Msgs /\ c[2] \in 0..Tiers /\ c[2] \in Nat
           /\ Attempt(c) = c[2]
  BY WorkQueueAssumption DEF Copies, Attempt, WorkQueueAssumption

\* The next attempt of a copy below the top tier is a copy.
LEMMA NextCopy ==
    ASSUME NEW c \in Copies, c[2] < Tiers
    PROVE  <<c[1], c[2] + 1>> \in Copies
  BY WorkQueueAssumption DEF Copies, WorkQueueAssumption

\* A copy more makes a bag of a bag, and counts at that copy only.
LEMMA MoreBag ==
    ASSUME NEW bag \in [Copies -> Nat], NEW c \in Copies
    PROVE  /\ More(bag, c) \in [Copies -> Nat]
           /\ More(bag, c)[c] = bag[c] + 1
           /\ \A d \in Copies : d # c => More(bag, c)[d] = bag[d]
           /\ \A d \in Copies : More(bag, c)[d] >= bag[d]
  BY DEF More

\* So does a copy fewer of what the bag has.
LEMMA LessBag ==
    ASSUME NEW bag \in [Copies -> Nat], NEW c \in Copies, bag[c] > 0
    PROVE  /\ Less(bag, c) \in [Copies -> Nat]
           /\ Less(bag, c)[c] = bag[c] - 1
           /\ \A d \in Copies : d # c => Less(bag, c)[d] = bag[d]
           /\ \A d \in Copies : Less(bag, c)[d] <= bag[d]
  BY DEF Less

\* The queues are bags of copies.
LEMMA QueuesAreBags ==
    ASSUME QueueTypeOK
    PROVE  /\ ready \in [Copies -> Nat] /\ wait \in [Copies -> Nat]
           /\ dlq \in [Copies -> Nat] /\ expired \in [Copies -> Nat]
           /\ \A c \in Copies : ready[c] \in Nat /\ wait[c] \in Nat /\ dlq[c] \in Nat /\ expired[c] \in Nat
  BY DEF QueueTypeOK

\* The queues start empty.
LEMMA QueueInitType == QueueInit => QueueTypeOK
  <1> SUFFICES ASSUME QueueInit PROVE QueueTypeOK
    OBVIOUS
  <1>1. {ready, wait, dlq, expired} \subseteq [Copies -> Nat]
    BY DEF QueueInit
  <1> QED
    BY <1>1, WorkQueueAssumption DEF QueueInit, QueueTypeOK, WorkQueueAssumption

\* A waiting copy is a copy, and so is the next attempt it becomes.
LEMMA WaitingIsCopy ==
    ASSUME NEW c \in WaitingCopies
    PROVE  c \in Copies /\ c[2] < Tiers /\ <<c[1], c[2] + 1>> \in Copies
  BY WorkQueueAssumption DEF WaitingCopies, Copies, WorkQueueAssumption

\* Relay, retry tiers and the queue's own TTL keep every variable's type.
LEMMA TopologyType == QueueTypeOK /\ Topology => QueueTypeOK'
  <1> SUFFICES ASSUME QueueTypeOK, Topology PROVE QueueTypeOK'
    OBVIOUS
  <1> USE DEF QueueTypeOK
  <1>1. ASSUME NEW m \in Msgs, RelayPublish(m) PROVE QueueTypeOK'
    <2>1. <<m, 0>> \in Copies
      BY WorkQueueAssumption DEF Copies, WorkQueueAssumption
    <2>2. ready' \in [Copies -> Nat]
      BY <1>1, <2>1, MoreBag DEF RelayPublish
    <2>3. publishes' \in 0..MaxPublishes
      BY <1>1, WorkQueueAssumption DEF RelayPublish, WorkQueueAssumption
    <2> QED
      BY <1>1, <2>2, <2>3 DEF RelayPublish
  <1>2. ASSUME NEW c \in WaitingCopies, RetryDue(c) PROVE QueueTypeOK'
    <2>1. wait' \in [Copies -> Nat]
      BY <1>2, WaitingIsCopy, LessBag DEF RetryDue
    <2>2. ready' \in [Copies -> Nat]
      BY <1>2, WaitingIsCopy, MoreBag DEF RetryDue, Attempt
    <2> QED
      BY <1>2, <2>1, <2>2 DEF RetryDue
  <1>3. ASSUME NEW c \in Copies, Expire(c) PROVE QueueTypeOK'
    <2>1. ready' \in [Copies -> Nat] /\ expired' \in [Copies -> Nat]
      BY <1>3, LessBag, MoreBag DEF Expire
    <2> QED
      BY <1>3, <2>1 DEF Expire
  <1> QED
    BY <1>1, <1>2, <1>3 DEF Topology

\* Nothing enters a queue but the relay's first attempts and what a tier held: a
\* step of the topology publishes no result, buries nothing and fills no tier.
LEMMA TopologyAddsNothing ==
    ASSUME QueueTypeOK, Topology
    PROVE  /\ dlq' = dlq /\ results' = results
           /\ \A c \in Copies : wait'[c] <= wait[c] /\ wait'[c] \in Nat
           /\ \A c \in Copies : ready'[c] > 0 =>
                  \/ ready[c] > 0
                  \/ c[2] = 0
                  \/ /\ c[2] > 0 /\ <<c[1], c[2] - 1>> \in Copies
                     /\ wait[<<c[1], c[2] - 1>>] > 0
  <1> DEFINE Goal ==
           /\ dlq' = dlq /\ results' = results
           /\ \A c \in Copies : wait'[c] <= wait[c] /\ wait'[c] \in Nat
           /\ \A c \in Copies : ready'[c] > 0 =>
                  \/ ready[c] > 0
                  \/ c[2] = 0
                  \/ /\ c[2] > 0 /\ <<c[1], c[2] - 1>> \in Copies
                     /\ wait[<<c[1], c[2] - 1>>] > 0
  <1>1. ASSUME NEW m \in Msgs, RelayPublish(m) PROVE Goal
    <2>1. <<m, 0>> \in Copies
      BY WorkQueueAssumption DEF Copies, WorkQueueAssumption
    <2>2. \A c \in Copies : ready'[c] > 0 => ready[c] > 0 \/ c[2] = 0
      BY <1>1, <2>1, QueuesAreBags DEF More, RelayPublish
    <2> QED
      BY <1>1, <2>2, QueuesAreBags DEF RelayPublish
  <1>2. ASSUME NEW b \in WaitingCopies, RetryDue(b) PROVE Goal
    <2>1. \A c \in Copies : wait'[c] <= wait[c] /\ wait'[c] \in Nat
      BY <1>2, WaitingIsCopy, QueuesAreBags, LessBag DEF RetryDue
    <2>2. b \in Copies /\ <<b[1], b[2] + 1>> \in Copies /\ b[2] \in Nat
      BY WaitingIsCopy, CopyParts
    <2>3. \A c \in Copies : ready'[c] > 0 => ready[c] > 0 \/ c = <<b[1], b[2] + 1>>
      BY <1>2, <2>2, QueuesAreBags DEF More, RetryDue, Attempt
    <2>4. ASSUME NEW c \in Copies, c = <<b[1], b[2] + 1>>
          PROVE  c[2] > 0 /\ <<c[1], c[2] - 1>> = b
      BY <2>2, <2>4, CopyParts
    <2>5. wait[b] > 0
      BY <1>2 DEF RetryDue
    <2> QED
      BY <1>2, <2>1, <2>2, <2>3, <2>4, <2>5, QueuesAreBags DEF RetryDue
  <1>3. ASSUME NEW b \in Copies, Expire(b) PROVE Goal
    <2>1. \A c \in Copies : ready'[c] > 0 => ready[c] > 0
      BY <1>3, QueuesAreBags, LessBag DEF Expire
    <2> QED
      BY <1>3, <2>1, QueuesAreBags DEF Expire
  <1> QED
    BY <1>1, <1>2, <1>3 DEF Topology

\* Nothing falls out either: what is published is queued, what a tier lets go is
\* queued for its next attempt, and what the queue lets go is parked.
LEMMA TopologyKeeps ==
    ASSUME QueueTypeOK, Topology
    PROVE  /\ \A m \in sent' : m \in sent \/ ready'[<<m, 0>>] > 0
           /\ \A c \in Copies : wait[c] > 0 =>
                  wait'[c] > 0 \/ (c[2] < Tiers /\ ready'[<<c[1], c[2] + 1>>] > 0)
           /\ \A c \in Copies : ready[c] > 0 => ready'[c] > 0 \/ (Stales /\ expired'[c] > 0)
           /\ \A c \in Copies : expired[c] > 0 => expired'[c] > 0
  <1> DEFINE Goal ==
           /\ \A m \in sent' : m \in sent \/ ready'[<<m, 0>>] > 0
           /\ \A c \in Copies : wait[c] > 0 =>
                  wait'[c] > 0 \/ (c[2] < Tiers /\ ready'[<<c[1], c[2] + 1>>] > 0)
           /\ \A c \in Copies : ready[c] > 0 => ready'[c] > 0 \/ (Stales /\ expired'[c] > 0)
           /\ \A c \in Copies : expired[c] > 0 => expired'[c] > 0
  <1>1. ASSUME NEW m \in Msgs, RelayPublish(m) PROVE Goal
    <2>1. <<m, 0>> \in Copies
      BY WorkQueueAssumption DEF Copies, WorkQueueAssumption
    <2>2. ready'[<<m, 0>>] > 0 /\ \A c \in Copies : ready[c] > 0 => ready'[c] > 0
      BY <1>1, <2>1, QueuesAreBags DEF More, RelayPublish
    <2>3. \A n \in sent' : n \in sent \/ ready'[<<n, 0>>] > 0
      BY <1>1, <2>2 DEF RelayPublish
    <2>4. wait' = wait /\ expired' = expired
      BY <1>1 DEF RelayPublish
    <2> QED
      BY <2>2, <2>3, <2>4
  <1>2. ASSUME NEW b \in WaitingCopies, RetryDue(b) PROVE Goal
    <2>1. b \in Copies /\ b[2] < Tiers /\ <<b[1], b[2] + 1>> \in Copies
      BY WaitingIsCopy
    <2>2. \A c \in Copies : c # b => wait'[c] = wait[c]
      BY <1>2, <2>1, QueuesAreBags, LessBag DEF RetryDue
    <2>3. ready'[<<b[1], b[2] + 1>>] > 0 /\ \A c \in Copies : ready[c] > 0 => ready'[c] > 0
      BY <1>2, <2>1, QueuesAreBags DEF More, RetryDue, Attempt
    <2>4. sent' = sent /\ expired' = expired
      BY <1>2 DEF RetryDue
    <2> QED
      BY <2>1, <2>2, <2>3, <2>4
  <1>3. ASSUME NEW b \in Copies, Expire(b) PROVE Goal
    <2>1. \A c \in Copies : ready[c] > 0 => ready'[c] > 0 \/ c = b
      BY <1>3, QueuesAreBags, LessBag DEF Expire
    <2>2. expired'[b] > 0 /\ \A c \in Copies : expired[c] > 0 => expired'[c] > 0
      BY <1>3, QueuesAreBags DEF More, Expire
    <2>3. Stales /\ sent' = sent /\ wait' = wait
      BY <1>3 DEF Expire
    <2> QED
      BY <2>1, <2>2, <2>3
  <1> QED
    BY <1>1, <1>2, <1>3 DEF Topology

\* The empty hand is not a copy.
LEMMA NoCopyIsNone == \A c \in Copies : c # NoCopy
  BY DEF Copies, NoCopy

\* The broker files what it accepts: a retry in its tier, a dead letter in the
\* dead-letter queue, a result among the results; and nothing else.
LEMMA AcceptFiles ==
    ASSUME QueueTypeOK, NEW what \in Publishing, NEW c \in Copies, Accept(what, c) \/ Lose
    PROVE  /\ wait' \in [Copies -> Nat] /\ dlq' \in [Copies -> Nat]
           /\ results' \subseteq Msgs \X Statuses
           /\ \A d \in Copies : wait'[d] >= wait[d] /\ dlq'[d] >= dlq[d]
           /\ \A d \in Copies : wait'[d] > wait[d] => what = "retry" /\ d = c
           /\ \A d \in Copies : dlq'[d] > dlq[d] => what = "dead" /\ d = c
           /\ \A m \in Msgs, s \in Statuses :
                  <<m, s>> \in results' => <<m, s>> \in results \/ (m = c[1] /\ s = what)
           /\ Accept(what, c) /\ what = "retry" => wait'[c] > 0
           /\ Accept(what, c) /\ what = "dead" => dlq'[c] > 0
  <1>1. /\ wait' \in {wait, More(wait, c)} /\ (what # "retry" => wait' = wait)
        /\ dlq' \in {dlq, More(dlq, c)} /\ (what # "dead" => dlq' = dlq)
        /\ Accept(what, c) /\ what = "retry" => wait' = More(wait, c)
        /\ Accept(what, c) /\ what = "dead" => dlq' = More(dlq, c)
    BY DEF Accept, Lose
  <1>2. /\ wait' \in [Copies -> Nat] /\ dlq' \in [Copies -> Nat]
        /\ \A d \in Copies : wait'[d] >= wait[d] /\ dlq'[d] >= dlq[d]
        /\ \A d \in Copies : wait'[d] > wait[d] => what = "retry" /\ d = c
        /\ \A d \in Copies : dlq'[d] > dlq[d] => what = "dead" /\ d = c
        /\ Accept(what, c) /\ what = "retry" => wait'[c] > 0
        /\ Accept(what, c) /\ what = "dead" => dlq'[c] > 0
    BY <1>1, QueuesAreBags DEF More
  <1>3. results' = results \/ (what \in Statuses /\ results' = results \cup {<<c[1], what>>})
    BY DEF Accept, Lose
  <1>4. results \subseteq Msgs \X Statuses /\ c[1] \in Msgs
    BY CopyParts DEF QueueTypeOK
  <1> QED
    BY <1>2, <1>3, <1>4
=============================================================================
