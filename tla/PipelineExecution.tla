-------------------------- MODULE PipelineExecution --------------------------
(***************************************************************************)
(* graphrag-service, app/api/stages/execution.py: pipelines started over   *)
(* HTTP run in a thread each.  Their state is kept in the memory of the    *)
(* process, under one lock, and copied to a database row, mostly outside   *)
(* it.  A request may cancel an execution at any time; a restarted process *)
(* marks as interrupted what its predecessor left running.                 *)
(*                                                                         *)
(* The server answers one request at a time, so "api" is one actor; the    *)
(* other actors are the executions' threads.  Requests that only read are  *)
(* left out, save for the recovery that the first of them performs.        *)
(***************************************************************************)
EXTENDS Naturals, FiniteSets

CONSTANTS
    Executions,   \* pipeline ids
    StagesOf,     \* execution -> number of stages in its plan
    MaxUpsets     \* bound: failed database calls and crashes

Actors == Executions \cup {"api"}

ASSUME PipelineExecutionAssumption ==
    /\ "api" \notin Executions
    /\ StagesOf \in [Executions -> Nat \ {0}]
    /\ MaxUpsets \in Nat

VARIABLES
    memory,     \* _active_pipelines: execution -> status
    row,        \* the status in the execution's database row
    lock,       \* who holds _pipeline_lock between two steps
    thread,     \* execution -> where its thread is
    done,       \* execution -> stages completed
    sync,       \* actor -> the _sync_to_db it is in
    recovered,  \* _recovery_done
    asked,      \* history: a cancel was answered with "cancelled"
    early,      \* history: before the thread had set its status
    since,      \* history: stages entered since the first cancel
    crossed,    \* history: a cancel and a status write of the thread overlapped
    hurt,       \* history: a database call for the execution failed or was cut off
    upsets

processVars == <<memory, lock, thread, done, sync, recovered>>
historyVars == <<asked, early, since, crossed, hurt>>
vars == <<processVars, row, historyVars, upsets>>

Final    == {"completed", "cancelled", "error"}
Statuses == {"none", "starting", "running", "interrupted"} \cup Final

\* A partial update has the status "none": it leaves the row's as it is.
NoSync == [at |-> "none", of |-> "api", status |-> "none", whole |-> FALSE]
Syncs  == [at : {"none", "copy", "find", "update", "create"}, of : Actors, status : Statuses, whole : BOOLEAN]

Init ==
    /\ memory = [e \in Executions |-> "none"]
    /\ row = [e \in Executions |-> "none"]
    /\ lock = "free"
    /\ thread = [e \in Executions |-> "none"]
    /\ done = [e \in Executions |-> 0]
    /\ sync = [w \in Actors |-> NoSync]
    /\ recovered = FALSE
    /\ asked = {} /\ early = {} /\ crossed = {} /\ hurt = {}
    /\ since = [e \in Executions |-> 0]
    /\ upsets = 0

-----------------------------------------------------------------------------
(* Writing a row: _sync_to_db *)

Syncing(w) == sync[w].at # "none"

\* w begins to write e's status; "copy": not before it has copied the state.
Begin(w, e, at, s) ==
    sync' = [sync EXCEPT ![w] = [at |-> at, of |-> e, status |-> s, whole |-> at = "copy" \/ s \in Final]]

\* Does the thread have a status to write, or the server one of a cancel?
Contended(e) == \/ Syncing(e) /\ sync[e].status # "none"
                \/ Syncing("api") /\ sync["api"].of = e

\* state.copy(), outside the lock: what the state says by now.
Copy(w) ==
    /\ sync[w].at = "copy"
    /\ sync' = [sync EXCEPT ![w].at = "find", ![w].status = memory[sync[w].of]]
    /\ UNCHANGED <<memory, lock, thread, done, recovered, row, historyVars, upsets>>

Find(w) ==
    /\ sync[w].at = "find"
    /\ sync' = [sync EXCEPT ![w].at = IF row[sync[w].of] = "none" THEN "create" ELSE "update"]
    /\ UNCHANGED <<memory, lock, thread, done, recovered, row, historyVars, upsets>>

\* The sync is over, and with it the lock section of one that was called in it.
Leave(w) ==
    /\ sync' = [sync EXCEPT ![w] = NoSync]
    /\ lock' = IF lock = w THEN "free" ELSE lock

\* A row made of a partial update has no id, so nothing finds it; a second row
\* with the same id is refused.
Write(w) ==
    LET e == sync[w].of
        s == sync[w].status
    IN
    /\ sync[w].at \in {"update", "create"}
    /\ row' = IF s = "none" \/ (sync[w].at = "create" /\ (row[e] # "none" \/ ~sync[w].whole))
              THEN row ELSE [row EXCEPT ![e] = s]
    /\ Leave(w)
    /\ UNCHANGED <<memory, thread, done, recovered, historyVars, upsets>>

\* The search fails (and exists answers no) or the write does (and is swallowed).
SyncFails(w) ==
    /\ sync[w].at \in {"find", "update", "create"} /\ upsets < MaxUpsets
    /\ upsets' = upsets + 1
    /\ hurt' = hurt \cup {sync[w].of}
    /\ IF sync[w].at = "find" THEN sync' = [sync EXCEPT ![w].at = "create"] /\ UNCHANGED lock
                              ELSE Leave(w)
    /\ UNCHANGED <<memory, thread, done, recovered, row, asked, early, since, crossed>>

-----------------------------------------------------------------------------
(* Requests *)

ApiFree == ~Syncing("api")

\* recover_state_from_db: with the first request, once per process.  A failed
\* search or update is not tried again.
Recover ==
    /\ ApiFree /\ ~recovered
    /\ recovered' = TRUE
    /\ \E lost \in SUBSET {e \in Executions : row[e] = "running"} :
          /\ lost # {} => upsets < MaxUpsets
          /\ upsets' = IF lost = {} THEN upsets ELSE upsets + 1
          /\ hurt' = hurt \cup lost
          /\ row' = [e \in Executions |-> IF row[e] = "running" /\ e \notin lost THEN "interrupted" ELSE row[e]]
    /\ UNCHANGED <<memory, lock, thread, done, sync, asked, early, since, crossed>>

\* execute_pipeline, up to the copy to the database; a new id every time.
Execute(e) ==
    /\ ApiFree /\ recovered /\ lock = "free"
    /\ memory[e] = "none" /\ row[e] = "none" /\ e \notin hurt
    /\ memory' = [memory EXCEPT ![e] = "starting"]
    /\ Begin("api", e, "copy", "none")
    /\ thread' = [thread EXCEPT ![e] = "born"]
    /\ UNCHANGED <<lock, done, recovered, row, historyVars, upsets>>

\* cancel_pipeline: an execution that is not in memory is only looked up.  The
\* request that started the thread has been answered.
Cancel(e) ==
    /\ ApiFree /\ lock = "free" /\ thread[e] # "born"
    /\ memory[e] \in {"starting", "running"}
    /\ memory' = [memory EXCEPT ![e] = "cancelled"]
    /\ Begin("api", e, "copy", "none")
    /\ early' = IF thread[e] = "start" THEN early \cup {e} ELSE early
    /\ asked' = asked \cup {e}
    /\ crossed' = IF Contended(e) THEN crossed \cup {e} ELSE crossed
    /\ UNCHANGED <<lock, thread, done, recovered, row, since, hurt, upsets>>

-----------------------------------------------------------------------------
(* The thread: _run_pipeline_background *)

At(e, pc) == thread[e] = pc /\ ~Syncing(e)

Go(e, pc) == thread' = [thread EXCEPT ![e] = pc]

\* The request that created the execution starts the thread when the row is written.
ThreadStarts(e) ==
    /\ At(e, "born") /\ ApiFree
    /\ Go(e, "start")
    /\ UNCHANGED <<memory, lock, done, sync, recovered, row, historyVars, upsets>>

\* _update_pipeline_status: the status is set whatever it was; only the row is
\* written outside the lock.
SetRunning(e) ==
    /\ At(e, "start") /\ lock = "free"
    /\ memory' = [memory EXCEPT ![e] = "running"]
    /\ Begin(e, e, "find", "running")
    /\ Go(e, "create")
    /\ crossed' = IF Contended(e) THEN crossed \cup {e} ELSE crossed
    /\ UNCHANGED <<lock, done, recovered, row, asked, early, since, hurt, upsets>>

\* Broken: the state is copied before its status is set.
Finish_StaleCopy(e, s) ==
    /\ lock = "free" /\ lock' = e
    /\ memory' = [memory EXCEPT ![e] = s]
    /\ Begin(e, e, "find", memory[e])
    /\ Go(e, "over")
    /\ crossed' = IF Contended(e) THEN crossed \cup {e} ELSE crossed
    /\ UNCHANGED <<done, recovered, row, asked, early, since, hurt, upsets>>

\* _update_pipeline_completion and _update_pipeline_error: the row is written
\* before the lock is released.
Finish(e, s) ==
    /\ lock = "free" /\ lock' = e
    /\ memory' = [memory EXCEPT ![e] = s]
    /\ Begin(e, e, "find", s)
    /\ Go(e, "over")
    /\ crossed' = IF Contended(e) THEN crossed \cup {e} ELSE crossed
    /\ UNCHANGED <<done, recovered, row, asked, early, since, hurt, upsets>>

CreateObject(e) ==
    /\ At(e, "create")
    /\ Go(e, "check")
    /\ UNCHANGED <<memory, lock, done, sync, recovered, row, historyVars, upsets>>

CreateObjectFails(e) == At(e, "create") /\ Finish(e, "error")

\* Broken: a cancelled execution is not recognised.
CheckCancelled_Never(e) ==
    /\ At(e, "check") /\ lock = "free" /\ done[e] < StagesOf[e]
    /\ Go(e, "enter")
    /\ UNCHANGED <<memory, lock, done, sync, recovered, row, historyVars, upsets>>

\* Broken: one stage too many.
CheckCancelled_OneMore(e) ==
    /\ At(e, "check") /\ lock = "free" /\ done[e] <= StagesOf[e]
    /\ Go(e, IF memory[e] = "cancelled" THEN "over" ELSE "enter")
    /\ UNCHANGED <<memory, lock, done, sync, recovered, row, historyVars, upsets>>

\* Before each stage: a cancelled execution ends here.
CheckCancelled(e) ==
    /\ At(e, "check") /\ lock = "free" /\ done[e] < StagesOf[e]
    /\ Go(e, IF memory[e] = "cancelled" THEN "over" ELSE "enter")
    /\ UNCHANGED <<memory, lock, done, sync, recovered, row, historyVars, upsets>>

\* _update_pipeline_progress with the stage that begins.
EnterStage(e) ==
    /\ At(e, "enter") /\ lock = "free"
    /\ Begin(e, e, "find", "none")
    /\ Go(e, "stage")
    /\ since' = IF e \in asked THEN [since EXCEPT ![e] = @ + 1] ELSE since
    /\ UNCHANGED <<memory, lock, done, recovered, row, asked, early, crossed, hurt, upsets>>

\* run_stage returns 0, and _update_pipeline_progress counts the stage.
StageCompletes(e) ==
    /\ At(e, "stage") /\ lock = "free"
    /\ done' = [done EXCEPT ![e] = @ + 1]
    /\ Begin(e, e, "find", "none")
    /\ Go(e, "check")
    /\ UNCHANGED <<memory, lock, recovered, row, historyVars, upsets>>

\* run_stage returns another code or raises.
StageFails(e) == At(e, "stage") /\ Finish(e, "error")

\* After the last stage no cancel is looked for.
Complete(e) == At(e, "check") /\ done[e] = StagesOf[e] /\ Finish(e, "completed")

-----------------------------------------------------------------------------

\* The process dies and is started again: the threads are daemons, and only the
\* rows stay.
Crash ==
    /\ upsets < MaxUpsets
    /\ \E e \in Executions : memory[e] # "none"
    /\ upsets' = upsets + 1
    /\ memory' = [e \in Executions |-> "none"]
    /\ lock' = "free"
    /\ thread' = [e \in Executions |-> "none"]
    /\ done' = [e \in Executions |-> 0]
    /\ sync' = [w \in Actors |-> NoSync]
    /\ recovered' = FALSE
    /\ hurt' = hurt \cup {e \in Executions : memory[e] # "none" /\ row[e] = "none"}
    /\ UNCHANGED <<row, asked, early, since, crossed>>

Thread(e) ==
    \/ ThreadStarts(e) \/ SetRunning(e) \/ CreateObject(e) \/ CreateObjectFails(e)
    \/ CheckCancelled(e) \/ EnterStage(e) \/ StageCompletes(e) \/ StageFails(e) \/ Complete(e)

Next ==
    \/ \E w \in Actors : Copy(w) \/ Find(w) \/ Write(w) \/ SyncFails(w)
    \/ Recover
    \/ \E e \in Executions : Execute(e) \/ Cancel(e) \/ Thread(e)
    \/ Crash

Spec == Init /\ [][Next]_vars

-----------------------------------------------------------------------------

TypeOK ==
    /\ memory \in [Executions -> Statuses \ {"interrupted"}]
    /\ row \in [Executions -> Statuses]
    /\ lock \in Actors \cup {"free"}
    /\ thread \in [Executions -> {"none", "born", "start", "create", "check", "enter", "stage", "over"}]
    /\ \A e \in Executions : done[e] \in 0..StagesOf[e]
    /\ sync \in [Actors -> Syncs]
    /\ recovered \in BOOLEAN
    /\ \A h \in {asked, early, crossed, hurt} : h \subseteq Executions
    /\ since \in [Executions -> Nat]
    /\ upsets \in 0..MaxUpsets

\* When nothing is under way for an execution its row says what the memory says,
\* and when it is not in memory, because a process has died, no recovered process
\* leaves its row at running; unless a database call failed or a cancel and a
\* status write of the thread overlapped.  (Only the last write of a thread holds the lock.)
RowTellsOutcome ==
    \A e \in Executions \ (crossed \cup hurt) :
        /\ thread[e] = "over" /\ ~Contended(e) /\ ~Syncing(e) => row[e] = memory[e]
        /\ memory[e] = "none" /\ recovered => row[e] # "running"

\* A cancel keeps all but the stage at hand from running: the thread enters at most
\* the one stage it had already passed the check for, unless the cancel came before
\* the thread had set its status, which forgets it.  ("The running thread should
\* check this status and stop gracefully", cancel_pipeline.)
CancelStops == \A e \in Executions \ early : since[e] <= 1

=============================================================================
