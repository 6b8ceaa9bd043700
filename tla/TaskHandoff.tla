---------------------------- MODULE TaskHandoff ----------------------------
(***************************************************************************)
(* What the transactional outbox promises its callers, with no relay, no   *)
(* broker connection and no transaction in sight: a task the domain write  *)
(* accepted is handed to the work queue at least once, and it is settled   *)
(* (never looked at again) only once it has been handed over.              *)
(***************************************************************************)
CONSTANT Tasks

VARIABLES accepted,   \* tasks whose domain transaction committed
          delivered,  \* tasks the work queue has held at least once
          settled     \* tasks the outbox is finished with

vars == <<accepted, delivered, settled>>

TypeOK ==
    /\ accepted \subseteq Tasks
    /\ delivered \subseteq Tasks
    /\ settled \subseteq Tasks

Init ==
    /\ accepted = {}
    /\ delivered = {}
    /\ settled = {}

Accept(t) ==
    /\ t \notin accepted
    /\ accepted' = accepted \cup {t}
    /\ UNCHANGED <<delivered, settled>>

Deliver(t) ==
    /\ t \in accepted
    /\ delivered' = delivered \cup {t}
    /\ UNCHANGED <<accepted, settled>>

\* A whole batch is settled by one transaction.
Settle(T) ==
    /\ T \subseteq delivered
    /\ settled' = settled \cup T
    /\ UNCHANGED <<accepted, delivered>>

Next ==
    \/ \E t \in Tasks : Accept(t) \/ Deliver(t)
    \/ \E T \in SUBSET Tasks : Settle(T)

Spec == Init /\ [][Next]_vars
=============================================================================
