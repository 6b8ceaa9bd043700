--------------------------- MODULE ExecutionProofs ---------------------------
(***************************************************************************)
(* Proofs about PipelineExecution for any executions, plans and bounds:    *)
(* type correctness, that a cancel stops all but the stage at hand, and    *)
(* that the rows tell the outcome.                                         *)
(***************************************************************************)
EXTENDS PipelineExecution, TLAPS

USE PipelineExecutionAssumption DEF PipelineExecutionAssumption

-----------------------------------------------------------------------------
(* The invariant *)

\* A sync is of an execution in memory; a thread writes its own row, and the server
\* writes whole states.
SyncInv ==
    \A w \in Actors : Syncing(w) =>
        /\ sync[w].of \in Executions /\ memory[sync[w].of] # "none"
        /\ w # "api" => sync[w].of = w /\ sync[w].at # "copy"
        /\ w = "api" => sync[w].whole /\ (sync[w].at # "copy" => sync[w].status # "none")

\* A stage at hand is one of the plan; a thread is that of an execution in memory,
\* and a process that has not recovered has none.
ThreadInv ==
    \A e \in Executions :
        /\ thread[e] \in {"enter", "stage"} => done[e] < StagesOf[e]
        /\ thread[e] # "none" => memory[e] # "none"
        /\ memory[e] # "none" => recovered
        /\ memory[e] = "starting" => thread[e] \in {"born", "start"}

\* A cancel that the thread did not overtake stays until the thread is over, and
\* the one stage it may enter is the one it has checked for.
CancelInv ==
    \A e \in Executions :
        /\ e \in asked => memory[e] # "none" \/ row[e] # "none" \/ e \in hurt
        /\ e \notin asked => since[e] = 0
        /\ e \in asked \ early =>
              /\ thread[e] \notin {"born", "start"}
              /\ thread[e] \in {"create", "check", "enter", "stage"} => memory[e] = "cancelled"
              /\ thread[e] = "enter" => since[e] = 0
              /\ since[e] <= 1

\* w has a status to write into e's row.
Pending(w, e) == Syncing(w) /\ sync[w].of = e /\ (w = "api" \/ sync[w].status # "none")

\* What a pending write will say is what the memory says, as no status is set while
\* one is pending; and a row that it will not find it creates whole.
RowInv ==
    \A e \in Executions \ (crossed \cup hurt) :
        /\ memory[e] # "none" /\ ~Pending(e, e) /\ ~Pending("api", e) => row[e] = memory[e]
        /\ ~(Pending(e, e) /\ Pending("api", e))
        /\ memory[e] = "none" /\ recovered => row[e] # "running"
        /\ \A w \in {e, "api"} : Pending(w, e) =>
              /\ sync[w].at = "copy" \/ sync[w].status = memory[e]
              /\ sync[w].at = "create" => row[e] = "none"
              /\ ~sync[w].whole => row[e] # "none"

IInv == TypeOK /\ SyncInv /\ ThreadInv /\ CancelInv /\ RowInv

-----------------------------------------------------------------------------
(* Each part is kept by every step *)

\* Where a thread is that comes to its end.
Finishing(e) == ~Syncing(e) /\ thread[e] \in {"create", "check", "stage"}

\* The three ways to the end are one.
LEMMA FinishSteps ==
    \A e \in Executions : CreateObjectFails(e) \/ StageFails(e) \/ Complete(e) =>
        Finishing(e) /\ \E s \in Final : Finish(e, s)
  BY DEF CreateObjectFails, StageFails, Complete, At, Final, Finishing

\* Every action keeps every variable in its type.
LEMMA TypeStep == TypeOK /\ SyncInv /\ ThreadInv /\ [Next]_vars => TypeOK'
<1> SUFFICES ASSUME TypeOK, SyncInv, ThreadInv, [Next]_vars PROVE TypeOK'
  OBVIOUS
<1> USE DEF TypeOK, SyncInv, ThreadInv, Syncing, Statuses, Final, Syncs, NoSync, Actors, Finishing
<1>1. ASSUME NEW w \in Actors, Copy(w) PROVE TypeOK'
  BY <1>1 DEF Copy, historyVars
<1>2. ASSUME NEW w \in Actors, Find(w) PROVE TypeOK'
  BY <1>2 DEF Find, historyVars
<1>3. ASSUME NEW w \in Actors, Write(w) PROVE TypeOK'
  BY <1>3 DEF Write, Leave, historyVars
<1>4. ASSUME NEW w \in Actors, SyncFails(w) PROVE TypeOK'
  <2>1. sync' \in [Actors -> Syncs]
    <3>1. CASE sync[w].at = "find"
      <4>1. sync' = [sync EXCEPT ![w].at = "create"]
        BY <1>4, <3>1 DEF SyncFails
      <4> QED
        BY <4>1
    <3>2. CASE sync[w].at # "find"
      <4>1. sync' = [sync EXCEPT ![w] = NoSync]
        BY <1>4, <3>2 DEF SyncFails, Leave
      <4>2. NoSync \in Syncs
        OBVIOUS
      <4> QED
        BY <4>1, <4>2
    <3> QED
      BY <3>1, <3>2
  <2>2. lock' \in Actors \cup {"free"}
    BY <1>4 DEF SyncFails, Leave
  <2>3. hurt' \subseteq Executions /\ upsets' \in 0..MaxUpsets
    BY <1>4 DEF SyncFails
  <2>4. UNCHANGED <<memory, thread, done, recovered, row, asked, early, since, crossed>>
    BY <1>4 DEF SyncFails
  <2> QED
    BY <2>1, <2>2, <2>3, <2>4
<1>5. ASSUME Recover PROVE TypeOK'
  BY <1>5 DEF Recover
<1>6. ASSUME NEW e \in Executions, Execute(e) PROVE TypeOK'
  BY <1>6 DEF Execute, Begin, historyVars
<1>7. ASSUME NEW e \in Executions, Cancel(e) PROVE TypeOK'
  BY <1>7 DEF Cancel, Begin, Contended
<1>8. ASSUME NEW e \in Executions, ThreadStarts(e) PROVE TypeOK'
  BY <1>8 DEF ThreadStarts, At, Go, historyVars
<1>9. ASSUME NEW e \in Executions, SetRunning(e) PROVE TypeOK'
  BY <1>9 DEF SetRunning, At, Go, Begin, Contended
<1>10. ASSUME NEW e \in Executions, CreateObject(e) PROVE TypeOK'
  BY <1>10 DEF CreateObject, At, Go, historyVars
<1>11. ASSUME NEW e \in Executions, CheckCancelled(e) PROVE TypeOK'
  BY <1>11 DEF CheckCancelled, At, Go, historyVars
<1>12. ASSUME NEW e \in Executions, EnterStage(e) PROVE TypeOK'
  BY <1>12 DEF EnterStage, At, Go, Begin
<1>13. ASSUME NEW e \in Executions, StageCompletes(e) PROVE TypeOK'
  BY <1>13 DEF StageCompletes, At, Go, Begin, historyVars
<1>14. ASSUME NEW e \in Executions, NEW s \in Final, Finish(e, s), Finishing(e) PROVE TypeOK'
  BY <1>14 DEF Finish, Go, Begin, Contended
<1>15. ASSUME Crash PROVE TypeOK'
  <2>1. sync' \in [Actors -> Syncs]
    BY <1>15 DEF Crash
  <2>2. /\ memory' \in [Executions -> Statuses \ {"interrupted"}]
        /\ thread' \in [Executions -> {"none", "born", "start", "create", "check", "enter", "stage", "over"}]
        /\ \A e \in Executions : done'[e] \in 0..StagesOf[e]
    BY <1>15 DEF Crash
  <2>3. hurt' \subseteq Executions /\ upsets' \in 0..MaxUpsets
    BY <1>15 DEF Crash
  <2>4. lock' = "free" /\ recovered' = FALSE /\ UNCHANGED <<row, asked, early, since, crossed>>
    BY <1>15 DEF Crash
  <2>5. \A h \in {asked', early', crossed', hurt'} : h \subseteq Executions
    BY <2>3, <2>4
  <2> QED
    BY <2>1, <2>2, <2>3, <2>4, <2>5
<1>16. CASE UNCHANGED vars
  BY <1>16 DEF vars, processVars, historyVars
<1> QED
  BY FinishSteps, <1>1, <1>2, <1>3, <1>4, <1>5, <1>6, <1>7, <1>8, <1>9, <1>10, <1>11, <1>12, <1>13, <1>14, <1>15, <1>16 DEF Next, Thread

\* Syncs begin in their actor's name and for an execution in memory.
LEMMA SyncStep == TypeOK /\ SyncInv /\ ThreadInv /\ [Next]_vars => SyncInv'
<1> SUFFICES ASSUME TypeOK, SyncInv, ThreadInv, [Next]_vars PROVE SyncInv'
  OBVIOUS
<1> USE DEF TypeOK, SyncInv, ThreadInv, Syncing, ApiFree, Statuses, Final, Syncs, NoSync, Actors, Finishing
<1>1. ASSUME NEW w \in Actors, Copy(w) PROVE SyncInv'
  BY <1>1 DEF Copy, historyVars
<1>2. ASSUME NEW w \in Actors, Find(w) PROVE SyncInv'
  BY <1>2 DEF Find, historyVars
<1>3. ASSUME NEW w \in Actors, Write(w) PROVE SyncInv'
  BY <1>3 DEF Write, Leave, historyVars
<1>4. ASSUME NEW w \in Actors, SyncFails(w) PROVE SyncInv'
  BY <1>4 DEF SyncFails, Leave
<1>5. ASSUME Recover PROVE SyncInv'
  BY <1>5 DEF Recover
<1>6. ASSUME NEW e \in Executions, Execute(e) PROVE SyncInv'
  <2>1. /\ sync' = [sync EXCEPT !["api"] = [at |-> "copy", of |-> e, status |-> "none", whole |-> TRUE]]
        /\ memory' = [memory EXCEPT ![e] = "starting"]
    BY <1>6 DEF Execute, Begin
  <2> QED
    BY <2>1
<1>7. ASSUME NEW e \in Executions, Cancel(e) PROVE SyncInv'
  BY <1>7 DEF Cancel, Begin, Contended
<1>8. ASSUME NEW e \in Executions, ThreadStarts(e) PROVE SyncInv'
  BY <1>8 DEF ThreadStarts, At, Go, historyVars
<1>9. ASSUME NEW e \in Executions, SetRunning(e) PROVE SyncInv'
  BY <1>9 DEF SetRunning, At, Go, Begin, Contended
<1>10. ASSUME NEW e \in Executions, CreateObject(e) PROVE SyncInv'
  BY <1>10 DEF CreateObject, At, Go, historyVars
<1>11. ASSUME NEW e \in Executions, CheckCancelled(e) PROVE SyncInv'
  BY <1>11 DEF CheckCancelled, At, Go, historyVars
<1>12. ASSUME NEW e \in Executions, EnterStage(e) PROVE SyncInv'
  BY <1>12 DEF EnterStage, At, Go, Begin
<1>13. ASSUME NEW e \in Executions, StageCompletes(e) PROVE SyncInv'
  BY <1>13 DEF StageCompletes, At, Go, Begin, historyVars
<1>14. ASSUME NEW e \in Executions, NEW s \in Final, Finish(e, s), Finishing(e) PROVE SyncInv'
  BY <1>14 DEF Finish, Go, Begin, Contended
<1>15. ASSUME Crash PROVE SyncInv'
  BY <1>15 DEF Crash
<1>16. CASE UNCHANGED vars
  BY <1>16 DEF vars, processVars, historyVars
<1> QED
  BY FinishSteps, <1>1, <1>2, <1>3, <1>4, <1>5, <1>6, <1>7, <1>8, <1>9, <1>10, <1>11, <1>12, <1>13, <1>14, <1>15, <1>16 DEF Next, Thread

\* Threads keep to their plan and live with their execution.
LEMMA ThreadStep == TypeOK /\ SyncInv /\ ThreadInv /\ [Next]_vars => ThreadInv'
<1> SUFFICES ASSUME TypeOK, SyncInv, ThreadInv, [Next]_vars PROVE ThreadInv'
  OBVIOUS
<1> USE DEF TypeOK, SyncInv, ThreadInv, Syncing, ApiFree, Statuses, Final, Syncs, NoSync, Actors, Finishing
<1>1. ASSUME NEW w \in Actors, Copy(w) PROVE ThreadInv'
  BY <1>1 DEF Copy, historyVars
<1>2. ASSUME NEW w \in Actors, Find(w) PROVE ThreadInv'
  BY <1>2 DEF Find, historyVars
<1>3. ASSUME NEW w \in Actors, Write(w) PROVE ThreadInv'
  BY <1>3 DEF Write, Leave, historyVars
<1>4. ASSUME NEW w \in Actors, SyncFails(w) PROVE ThreadInv'
  BY <1>4 DEF SyncFails, Leave
<1>5. ASSUME Recover PROVE ThreadInv'
  BY <1>5 DEF Recover
<1>6. ASSUME NEW e \in Executions, Execute(e) PROVE ThreadInv'
  BY <1>6 DEF Execute, Begin, historyVars
<1>7. ASSUME NEW e \in Executions, Cancel(e) PROVE ThreadInv'
  BY <1>7 DEF Cancel, Begin, Contended
<1>8. ASSUME NEW e \in Executions, ThreadStarts(e) PROVE ThreadInv'
  BY <1>8 DEF ThreadStarts, At, Go, historyVars
<1>9. ASSUME NEW e \in Executions, SetRunning(e) PROVE ThreadInv'
  BY <1>9 DEF SetRunning, At, Go, Begin, Contended
<1>10. ASSUME NEW e \in Executions, CreateObject(e) PROVE ThreadInv'
  BY <1>10 DEF CreateObject, At, Go, historyVars
<1>11. ASSUME NEW e \in Executions, CheckCancelled(e) PROVE ThreadInv'
  BY <1>11 DEF CheckCancelled, At, Go, historyVars
<1>12. ASSUME NEW e \in Executions, EnterStage(e) PROVE ThreadInv'
  BY <1>12 DEF EnterStage, At, Go, Begin
<1>13. ASSUME NEW e \in Executions, StageCompletes(e) PROVE ThreadInv'
  BY <1>13 DEF StageCompletes, At, Go, Begin, historyVars
<1>14. ASSUME NEW e \in Executions, NEW s \in Final, Finish(e, s), Finishing(e) PROVE ThreadInv'
  BY <1>14 DEF Finish, Go, Begin, Contended
<1>15. ASSUME Crash PROVE ThreadInv'
  BY <1>15 DEF Crash
<1>16. CASE UNCHANGED vars
  BY <1>16 DEF vars, processVars, historyVars
<1> QED
  BY FinishSteps, <1>1, <1>2, <1>3, <1>4, <1>5, <1>6, <1>7, <1>8, <1>9, <1>10, <1>11, <1>12, <1>13, <1>14, <1>15, <1>16 DEF Next, Thread

\* A cancel is found at the next check.
LEMMA CancelStep == TypeOK /\ SyncInv /\ ThreadInv /\ CancelInv /\ [Next]_vars => CancelInv'
<1> SUFFICES ASSUME TypeOK, SyncInv, ThreadInv, CancelInv, [Next]_vars PROVE CancelInv'
  OBVIOUS
<1> USE DEF TypeOK, SyncInv, ThreadInv, CancelInv, Syncing, ApiFree, Statuses, Final, Syncs, NoSync, Actors, Finishing
<1>1. ASSUME NEW w \in Actors, Copy(w) PROVE CancelInv'
  BY <1>1 DEF Copy, historyVars
<1>2. ASSUME NEW w \in Actors, Find(w) PROVE CancelInv'
  BY <1>2 DEF Find, historyVars
<1>3. ASSUME NEW w \in Actors, Write(w) PROVE CancelInv'
  BY <1>3 DEF Write, Leave, historyVars
<1>4. ASSUME NEW w \in Actors, SyncFails(w) PROVE CancelInv'
  BY <1>4 DEF SyncFails, Leave
<1>5. ASSUME Recover PROVE CancelInv'
  BY <1>5 DEF Recover
<1>6. ASSUME NEW e \in Executions, Execute(e) PROVE CancelInv'
  BY <1>6 DEF Execute, Begin, historyVars
<1>7. ASSUME NEW e \in Executions, Cancel(e) PROVE CancelInv'
  BY <1>7 DEF Cancel, Begin, Contended
<1>8. ASSUME NEW e \in Executions, ThreadStarts(e) PROVE CancelInv'
  BY <1>8 DEF ThreadStarts, At, Go, historyVars
<1>9. ASSUME NEW e \in Executions, SetRunning(e) PROVE CancelInv'
  BY <1>9 DEF SetRunning, At, Go, Begin, Contended
<1>10. ASSUME NEW e \in Executions, CreateObject(e) PROVE CancelInv'
  BY <1>10 DEF CreateObject, At, Go, historyVars
<1>11. ASSUME NEW e \in Executions, CheckCancelled(e) PROVE CancelInv'
  BY <1>11 DEF CheckCancelled, At, Go, historyVars
<1>12. ASSUME NEW e \in Executions, EnterStage(e) PROVE CancelInv'
  BY <1>12 DEF EnterStage, At, Go, Begin
<1>13. ASSUME NEW e \in Executions, StageCompletes(e) PROVE CancelInv'
  BY <1>13 DEF StageCompletes, At, Go, Begin, historyVars
<1>14. ASSUME NEW e \in Executions, NEW s \in Final, Finish(e, s), Finishing(e) PROVE CancelInv'
  BY <1>14 DEF Finish, Go, Begin, Contended
<1>15. ASSUME Crash PROVE CancelInv'
  BY <1>15 DEF Crash
<1>16. CASE UNCHANGED vars
  BY <1>16 DEF vars, processVars, historyVars
<1> QED
  BY FinishSteps, <1>1, <1>2, <1>3, <1>4, <1>5, <1>6, <1>7, <1>8, <1>9, <1>10, <1>11, <1>12, <1>13, <1>14, <1>15, <1>16 DEF Next, Thread

\* A write that nothing crosses or hurts makes row and memory agree.
LEMMA RowStep == TypeOK /\ SyncInv /\ ThreadInv /\ RowInv /\ [Next]_vars => RowInv'
<1> SUFFICES ASSUME TypeOK, SyncInv, ThreadInv, RowInv, [Next]_vars PROVE RowInv'
  OBVIOUS
<1> USE DEF TypeOK, SyncInv, ThreadInv, RowInv, Pending, Syncing, ApiFree, Statuses, Final, Syncs, NoSync, Actors, Finishing
<1>1. ASSUME NEW w \in Actors, Copy(w) PROVE RowInv'
  BY <1>1 DEF Copy, historyVars
<1>2. ASSUME NEW w \in Actors, Find(w) PROVE RowInv'
  BY <1>2 DEF Find, historyVars
<1>3. ASSUME NEW w \in Actors, Write(w) PROVE RowInv'
  BY <1>3 DEF Write, Leave, historyVars
<1>4. ASSUME NEW w \in Actors, SyncFails(w) PROVE RowInv'
  BY <1>4 DEF SyncFails, Leave
<1>5. ASSUME Recover PROVE RowInv'
  BY <1>5 DEF Recover
<1>6. ASSUME NEW e \in Executions, Execute(e) PROVE RowInv'
  <2>1. /\ sync' = [sync EXCEPT !["api"] = [at |-> "copy", of |-> e, status |-> "none", whole |-> TRUE]]
        /\ memory' = [memory EXCEPT ![e] = "starting"]
        /\ memory[e] = "none"
        /\ UNCHANGED <<row, recovered, crossed, hurt>>
    BY <1>6 DEF Execute, Begin, historyVars
  <2>2. ~Syncing(e)
    BY <2>1
  <2> QED
    BY <1>6, <2>1, <2>2 DEF Execute
<1>7. ASSUME NEW e \in Executions, Cancel(e) PROVE RowInv'
  BY <1>7 DEF Cancel, Begin, Contended
<1>8. ASSUME NEW e \in Executions, ThreadStarts(e) PROVE RowInv'
  BY <1>8 DEF ThreadStarts, At, Go, historyVars
<1>9. ASSUME NEW e \in Executions, SetRunning(e) PROVE RowInv'
  BY <1>9 DEF SetRunning, At, Go, Begin, Contended
<1>10. ASSUME NEW e \in Executions, CreateObject(e) PROVE RowInv'
  BY <1>10 DEF CreateObject, At, Go, historyVars
<1>11. ASSUME NEW e \in Executions, CheckCancelled(e) PROVE RowInv'
  BY <1>11 DEF CheckCancelled, At, Go, historyVars
<1>12. ASSUME NEW e \in Executions, EnterStage(e) PROVE RowInv'
  BY <1>12 DEF EnterStage, At, Go, Begin
<1>13. ASSUME NEW e \in Executions, StageCompletes(e) PROVE RowInv'
  BY <1>13 DEF StageCompletes, At, Go, Begin, historyVars
<1>14. ASSUME NEW e \in Executions, NEW s \in Final, Finish(e, s), Finishing(e) PROVE RowInv'
  BY <1>14 DEF Finish, Go, Begin, Contended
<1>15. ASSUME Crash PROVE RowInv'
  BY <1>15 DEF Crash
<1>16. CASE UNCHANGED vars
  BY <1>16 DEF vars, processVars, historyVars
<1> QED
  BY FinishSteps, <1>1, <1>2, <1>3, <1>4, <1>5, <1>6, <1>7, <1>8, <1>9, <1>10, <1>11, <1>12, <1>13, <1>14, <1>15, <1>16 DEF Next, Thread

-----------------------------------------------------------------------------
(* Theorems *)

\* The invariant holds in every state.
THEOREM Invariance == Spec => []IInv
<1>1. Init => IInv
  <2> SUFFICES ASSUME Init PROVE IInv
    OBVIOUS
  <2>1. TypeOK
    <3>1. sync \in [Actors -> Syncs]
      BY DEF Init, NoSync, Syncs, Statuses, Actors
    <3>2. \A e \in Executions : done[e] \in 0..StagesOf[e]
      BY DEF Init
    <3>3. /\ memory \in [Executions -> Statuses \ {"interrupted"}]
          /\ row \in [Executions -> Statuses]
          /\ since \in [Executions -> Nat] /\ upsets \in 0..MaxUpsets
      BY DEF Init, Statuses
    <3> QED
      BY <3>1, <3>2, <3>3 DEF Init, TypeOK
  <2>2. \A w \in Actors : ~Syncing(w)
    BY DEF Init, Syncing, NoSync
  <2>3. SyncInv /\ ThreadInv /\ CancelInv
    BY <2>2 DEF Init, SyncInv, ThreadInv, CancelInv
  <2>4. RowInv
    BY <2>2 DEF Init, RowInv, Pending, Actors
  <2> QED
    BY <2>1, <2>3, <2>4 DEF IInv
<1>2. IInv /\ [Next]_vars => IInv'
  BY TypeStep, SyncStep, ThreadStep, CancelStep, RowStep DEF IInv
<1> QED
  BY <1>1, <1>2, PTL DEF Spec

\* Memory, rows, lock, threads and syncs have the values the code gives them.
THEOREM TypeCorrect == Spec => []TypeOK
<1>1. IInv => TypeOK
  BY DEF IInv
<1> QED
  BY <1>1, Invariance, PTL

\* After a cancel the thread enters at most the stage it had checked for, unless the
\* cancel came before the thread had set its status (cancel_pipeline).
THEOREM CancelStopsAll == Spec => []CancelStops
<1>1. IInv => CancelStops
  BY DEF IInv, TypeOK, CancelInv, CancelStops
<1> QED
  BY <1>1, Invariance, PTL

\* The row of an execution that is over says how it ended, and none is left at
\* running by a recovered process, unless a call failed or a cancel crossed a status
\* write (_sync_to_db, recover_state_from_db).
THEOREM RowsTellOutcome == Spec => []RowTellsOutcome
<1>1. IInv => RowTellsOutcome
  BY DEF IInv, TypeOK, SyncInv, ThreadInv, RowInv, RowTellsOutcome, Pending, Contended, Syncing, Actors
<1> QED
  BY <1>1, Invariance, PTL

=============================================================================
