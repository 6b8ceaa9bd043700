------------------------- MODULE DocumentLifecycle -------------------------
(***************************************************************************)
(* The document domain of api-service: Upload and Delete move a blob in    *)
(* MinIO and a row in PostgreSQL, one after the other and without a common *)
(* transaction; the results consumer of every replica turns task.result    *)
(* messages into the status of the row.                                    *)
(*                                                                         *)
(* CreateWithTask is one step here; Outbox shows that it is atomic.  What  *)
(* the workers report is the environment: a document whose task was        *)
(* committed gets results, repeated at will and in any order.  Both        *)
(* verdicts may come, as OneVerdict of GraphragWorker allows when its      *)
(* idempotency guard fails open.                                           *)
(***************************************************************************)
EXTENDS Naturals

CONSTANTS
    Docs,       \* ids uuid.New() hands out, one Upload each
    Strays,     \* results that name no document: malformed, or of another task type
    Requests,   \* DELETE requests
    Replicas,   \* one ResultsConsumer per api-service replica
    MaxReports, \* bound: results published
    MaxFaults   \* bound: failed calls, crashes, lost connections

Verdicts == {"completed", "failed"}
Results == (Docs \X Verdicts) \cup Strays
NoResult == <<>>

ASSUME DocumentAssumption ==
    /\ Strays \cap (Docs \X Verdicts) = {}
    /\ NoResult \notin Results
    /\ {MaxReports, MaxFaults} \subseteq Nat

VARIABLES
    upload,     \* where Upload is, per document
    blobs,      \* objects in the bucket
    status,     \* the row's status; "none" if there is no row
    tasks,      \* documents whose task is committed to the outbox
    del,        \* where Delete is, per request
    target,     \* the row Delete read: a set of at most one document
    queue,      \* the task-results queue, a bag
    reported,   \* results published so far
    reports,    \* history: how many
    pc,         \* where each consumer is in handleDelivery
    held,       \* the result it handles
    live,       \* the channel it came on is open
    writes,     \* history: status updates per replica and document
    leaked,     \* history: blobs a failure or a profile's deletion left behind
    bare,       \* history: documents whose blob goes before, or without, the row
    faults      \* history: faults so far

storeVars    == <<upload, blobs, status, tasks, leaked, bare>>
deleteVars   == <<del, target>>
envVars      == <<reported, reports>>
consumerVars == <<queue, pc, held, live, writes>>
vars == <<storeVars, deleteVars, envVars, consumerVars, faults>>

Init ==
    /\ upload = [d \in Docs |-> "new"]
    /\ blobs = {} /\ tasks = {}
    /\ status = [d \in Docs |-> "none"]
    /\ del = [q \in Requests |-> "idle"]
    /\ target = [q \in Requests |-> {}]
    /\ queue = [r \in Results |-> 0]
    /\ reported = {} /\ reports = 0
    /\ pc = [c \in Replicas |-> "idle"]
    /\ held = [c \in Replicas |-> NoResult]
    /\ live = [c \in Replicas |-> TRUE]
    /\ writes = [x \in Replicas \X Docs |-> 0]
    /\ leaked = {} /\ bare = {}
    /\ faults = 0

Fault == faults < MaxFaults /\ faults' = faults + 1

Exists(d) == status[d] # "none"

-----------------------------------------------------------------------------
(* Upload *)

UploadStep(d, from, to) == upload[d] = from /\ upload' = [upload EXCEPT ![d] = to]

PutObject(d) ==
    /\ UploadStep(d, "new", "stored")
    /\ blobs' = blobs \cup {d}
    /\ UNCHANGED <<status, tasks, leaked, bare, faults>>

\* minio.Upload errs, the object stored or not; Upload returns at once.
PutFails(d) ==
    /\ UploadStep(d, "new", "over")
    /\ Fault
    /\ blobs' \in {blobs, blobs \cup {d}}
    /\ leaked' = leaked \cup {d}
    /\ UNCHANGED <<status, tasks, bare>>

\* Broken: the compensation is deferred and runs after a success, too.
CreateWithTask_Undone(d) ==
    /\ UploadStep(d, "stored", "undo")
    /\ status' = [status EXCEPT ![d] = "processing"]
    /\ tasks' = tasks \cup {d}
    /\ UNCHANGED <<blobs, leaked, bare, faults>>

\* Row (pending, then processing) and outbox row commit together.
CreateWithTask(d) ==
    /\ UploadStep(d, "stored", "over")
    /\ status' = [status EXCEPT ![d] = "processing"]
    /\ tasks' = tasks \cup {d}
    /\ UNCHANGED <<blobs, leaked, bare, faults>>

\* Rolled back: a profile that does not exist, or no database.
CreateFails(d) ==
    /\ UploadStep(d, "stored", "undo")
    /\ UNCHANGED <<blobs, status, tasks, leaked, bare, faults>>

\* The answer to COMMIT is lost: an error to Upload, a document to the database.
CommitUnknown(d) ==
    /\ UploadStep(d, "stored", "undo")
    /\ Fault
    /\ status' = [status EXCEPT ![d] = "processing"]
    /\ tasks' = tasks \cup {d}
    /\ bare' = bare \cup {d}
    /\ UNCHANGED <<blobs, leaked>>

\* Broken: Upload returns the error and leaves the blob.
RemoveUpload_Forgotten(d) ==
    /\ UploadStep(d, "undo", "over")
    /\ UNCHANGED <<blobs, status, tasks, leaked, bare, faults>>

RemoveUpload(d) ==
    /\ UploadStep(d, "undo", "over")
    /\ blobs' = blobs \ {d}
    /\ UNCHANGED <<status, tasks, leaked, bare, faults>>

\* The error of the compensating minio.Delete is discarded; the request's context,
\* cancelled when the client goes away, is also the compensation's.
RemoveUploadFails(d) ==
    /\ UploadStep(d, "undo", "over")
    /\ Fault
    /\ leaked' = leaked \cup {d}
    /\ UNCHANGED <<blobs, status, tasks, bare>>

UploadCrash(d) ==
    /\ UploadStep(d, "stored", "over") \/ UploadStep(d, "undo", "over")
    /\ Fault
    /\ leaked' = leaked \cup {d}
    /\ UNCHANGED <<blobs, status, tasks, bare>>

Upload(d) ==
    /\ \/ PutObject(d) \/ PutFails(d)
       \/ CreateWithTask(d) \/ CreateFails(d) \/ CommitUnknown(d)
       \/ RemoveUpload(d) \/ RemoveUploadFails(d) \/ UploadCrash(d)
    /\ UNCHANGED <<deleteVars, envVars, consumerVars>>

-----------------------------------------------------------------------------
(* Delete, and the cascade from profiles *)

DeleteStep(q, from, to) == del[q] = from /\ del' = [del EXCEPT ![q] = to]

\* Broken: the row is deleted, the blob is forgotten.
StartDelete_RowOnly(q, d) ==
    /\ DeleteStep(q, "idle", "row")
    /\ Exists(d)
    /\ target' = [target EXCEPT ![q] = {d}]
    /\ UNCHANGED <<upload, blobs, status, tasks, leaked, bare, faults>>

\* GetByID finds the row.
StartDelete(q, d) ==
    /\ DeleteStep(q, "idle", "blob")
    /\ Exists(d)
    /\ target' = [target EXCEPT ![q] = {d}]
    /\ UNCHANGED <<upload, blobs, status, tasks, leaked, bare, faults>>

RemoveBlob(q) ==
    /\ DeleteStep(q, "blob", "row")
    /\ blobs' = blobs \ target[q]
    /\ bare' = bare \cup target[q]
    /\ UNCHANGED <<upload, status, tasks, target, leaked, faults>>

\* minio.Delete errs, done or not: "continuing with DB deletion".
RemoveBlobFails(q) ==
    /\ DeleteStep(q, "blob", "row")
    /\ Fault
    /\ blobs' \in {blobs, blobs \ target[q]}
    /\ bare' = bare \cup target[q]
    /\ leaked' = leaked \cup target[q]
    /\ UNCHANGED <<upload, status, tasks, target>>

RowsGone(gone) == [d \in Docs |-> IF d \in gone THEN "none" ELSE status[d]]

RemoveRow(q) ==
    /\ DeleteStep(q, "row", "over")
    /\ status' = RowsGone(target[q])
    /\ UNCHANGED <<upload, blobs, tasks, target, leaked, bare, faults>>

\* The DELETE errs, done or not; or the process dies here or before.
DeleteCutOff(q) ==
    /\ DeleteStep(q, "row", "over") \/ DeleteStep(q, "blob", "over")
    /\ Fault
    /\ \/ status' = status
       \/ del[q] = "row" /\ status' = RowsGone(target[q])
    /\ UNCHANGED <<upload, blobs, tasks, target, leaked, bare>>

\* DELETE FROM profiles takes the document rows along (ON DELETE CASCADE).
Cascade(d) ==
    /\ Exists(d)
    /\ status' = RowsGone({d})
    /\ leaked' = leaked \cup {d}
    /\ UNCHANGED <<upload, blobs, tasks, deleteVars, bare, faults>>

Delete(q) ==
    /\ \/ \E d \in Docs : StartDelete(q, d)
       \/ RemoveBlob(q) \/ RemoveBlobFails(q) \/ RemoveRow(q) \/ DeleteCutOff(q)
    /\ UNCHANGED <<envVars, consumerVars>>

-----------------------------------------------------------------------------
(* The workers *)

More(bag, r) == [bag EXCEPT ![r] = @ + 1]
Less(bag, r) == [bag EXCEPT ![r] = @ - 1]

Report(r) ==
    /\ r \in Strays \cup (tasks \X Verdicts)
    /\ reports < MaxReports
    /\ reports' = reports + 1
    /\ reported' = reported \cup {r}
    /\ queue' = More(queue, r)
    /\ UNCHANGED <<storeVars, deleteVars, pc, held, live, writes, faults>>

-----------------------------------------------------------------------------
(* ResultsConsumer, ResultHandler and ApplyTaskResult *)

Goto(c, step) == pc' = [pc EXCEPT ![c] = step]

Finish(c) ==
    /\ Goto(c, "idle")
    /\ held' = [held EXCEPT ![c] = NoResult]

\* Back to the queue, unless the broker has put it there already.
Redeliver(c) == queue' = IF live[c] /\ pc[c] # "idle" THEN More(queue, held[c]) ELSE queue

Receive(c, r) ==
    /\ pc[c] = "idle" /\ live[c] /\ queue[r] > 0
    /\ queue' = Less(queue, r)
    /\ held' = [held EXCEPT ![c] = r]
    /\ Goto(c, "get")
    /\ UNCHANGED <<status, live, writes, faults>>

\* Handle returns nil for what is malformed and for results of other tasks.
DropStray(c) ==
    /\ pc[c] = "get" /\ held[c] \in Strays
    /\ Goto(c, "ack")
    /\ UNCHANGED <<status, queue, held, live, writes, faults>>

\* Broken: a result for a document that is gone is an error.
SkipSettled_Requeues(c, d) ==
    /\ pc[c] = "get" /\ held[c] \in {d} \X Verdicts /\ status[d] # "processing"
    /\ Redeliver(c)
    /\ Finish(c)
    /\ UNCHANGED <<status, live, writes, faults>>

\* GetByID: an unknown document, or one with a terminal status.
SkipSettled(c, d) ==
    /\ pc[c] = "get" /\ held[c] \in {d} \X Verdicts /\ status[d] # "processing"
    /\ Goto(c, "ack")
    /\ UNCHANGED <<status, queue, held, live, writes, faults>>

\* Broken: no look at the current status.
FindProcessing_Blind(c, d) ==
    /\ pc[c] = "get" /\ held[c] \in {d} \X Verdicts
    /\ Goto(c, "update")
    /\ UNCHANGED <<status, queue, held, live, writes, faults>>

\* GetByID: the document is processing.
FindProcessing(c, d) ==
    /\ pc[c] = "get" /\ held[c] \in {d} \X Verdicts /\ status[d] = "processing"
    /\ Goto(c, "update")
    /\ UNCHANGED <<status, queue, held, live, writes, faults>>

Write(c, d) ==
    /\ status' = [status EXCEPT ![d] = held[c][2]]
    /\ writes' = [writes EXCEPT ![<<c, d>>] = @ + 1]

\* The UPDATE has no condition on the status it replaces.
UpdateStatus(c, d) ==
    /\ pc[c] = "update" /\ held[c] \in {d} \X Verdicts /\ Exists(d)
    /\ Write(c, d)
    /\ Goto(c, "ack")
    /\ UNCHANGED <<queue, held, live, faults>>

\* No row affected: ErrDocumentNotFound, and the result is requeued.
UpdateFindsNothing(c, d) ==
    /\ pc[c] = "update" /\ held[c] \in {d} \X Verdicts /\ ~Exists(d)
    /\ Redeliver(c)
    /\ Finish(c)
    /\ UNCHANGED <<status, live, writes, faults>>

\* Broken: the error is logged and the result acknowledged.
DatabaseError_Acks(c, d) ==
    /\ pc[c] \in {"get", "update"} /\ held[c] \in {d} \X Verdicts
    /\ Fault
    /\ Goto(c, "ack")
    /\ UNCHANGED <<status, queue, held, live, writes>>

\* The SELECT or the UPDATE errs, the latter done or not: nack with requeue.
DatabaseError(c, d) ==
    /\ pc[c] \in {"get", "update"} /\ held[c] \in {d} \X Verdicts
    /\ Fault
    /\ \/ UNCHANGED <<status, writes>>
       \/ pc[c] = "update" /\ Exists(d) /\ Write(c, d)
    /\ Redeliver(c)
    /\ Finish(c)
    /\ UNCHANGED live

\* Broken: the delivery stays in hand.
Ack_KeepsHeld(c) ==
    /\ pc[c] = "ack"
    /\ Goto(c, "idle")
    /\ UNCHANGED <<status, queue, held, live, writes, faults>>

\* Without effect on a channel that is gone.
Ack(c) ==
    /\ pc[c] = "ack"
    /\ Finish(c)
    /\ UNCHANGED <<status, queue, live, writes, faults>>

\* The handler runs on; its delivery goes to another consumer.
ConnectionLost(c) ==
    /\ live[c] /\ Fault
    /\ Redeliver(c)
    /\ live' = [live EXCEPT ![c] = FALSE]
    /\ UNCHANGED <<status, pc, held, writes>>

\* consumeOnce returns once the handler has, and Start calls it again.
Resubscribe(c) ==
    /\ pc[c] = "idle" /\ ~live[c]
    /\ live' = [live EXCEPT ![c] = TRUE]
    /\ UNCHANGED <<status, queue, pc, held, writes, faults>>

ConsumerCrash(c) ==
    /\ pc[c] # "idle" /\ Fault
    /\ Redeliver(c)
    /\ Finish(c)
    /\ live' = [live EXCEPT ![c] = TRUE]
    /\ UNCHANGED <<status, writes>>

outsideVars == <<upload, blobs, tasks, leaked, bare, deleteVars, envVars>>

Handle(c) ==
    /\ \/ DropStray(c) \/ Ack(c) \/ Resubscribe(c)
       \/ \E d \in Docs : SkipSettled(c, d) \/ FindProcessing(c, d)
                          \/ UpdateStatus(c, d) \/ UpdateFindsNothing(c, d)
    /\ UNCHANGED outsideVars

Break(c) ==
    /\ \/ ConnectionLost(c) \/ ConsumerCrash(c)
       \/ \E d \in Docs : DatabaseError(c, d)
    /\ UNCHANGED outsideVars

Take(c, r) == Receive(c, r) /\ UNCHANGED outsideVars

Next ==
    \/ \E d \in Docs : Upload(d)
    \/ \E q \in Requests : Delete(q)
    \/ \E d \in Docs : Cascade(d) /\ UNCHANGED <<envVars, consumerVars>>
    \/ \E r \in Results : Report(r)
    \/ \E c \in Replicas : Handle(c) \/ Break(c) \/ \E r \in Results : Take(c, r)

Spec == Init /\ [][Next]_vars

\* A handler goes on, a consumer resubscribes, and the broker delivers something to
\* a subscribed consumer as long as there is something.
Fairness ==
    /\ \A c \in Replicas : WF_vars(Handle(c))
    /\ WF_vars(\E c \in Replicas, r \in Results : Take(c, r))

FairSpec == Spec /\ Fairness

-----------------------------------------------------------------------------
\* Every variable has its type; who is idle holds nothing.
TypeOK ==
    /\ upload \in [Docs -> {"new", "stored", "undo", "over"}]
    /\ status \in [Docs -> {"none", "processing"} \cup Verdicts]
    /\ {blobs, tasks, leaked, bare} \subseteq SUBSET Docs
    /\ del \in [Requests -> {"idle", "blob", "row", "over"}]
    /\ target \in [Requests -> SUBSET Docs]
    /\ queue \in [Results -> Nat]
    /\ reported \subseteq Results
    /\ reports \in 0..MaxReports
    /\ pc \in [Replicas -> {"idle", "get", "update", "ack"}]
    /\ held \in [Replicas -> Results \cup {NoResult}]
    /\ \A c \in Replicas : held[c] = NoResult <=> pc[c] = "idle"
    /\ live \in [Replicas -> BOOLEAN]
    /\ writes \in [Replicas \X Docs -> Nat]
    /\ faults \in 0..MaxFaults

\* The check in ApplyTaskResult and the UPDATE are two statements, so replicas that
\* read "processing" together overwrite each other; but however results are
\* repeated, reordered, contradictory or redelivered, no replica ever writes a
\* document's status twice.  With one replica a terminal status is final.
WrittenOncePerReplica == \A x \in Replicas \X Docs : writes[x] <= 1

\* A document that can be read can be downloaded: its blob is in the bucket, unless
\* a Delete has removed it first or an Upload misjudged its COMMIT and compensates.
BlobBehindRow == \A d \in Docs : Exists(d) => d \in blobs \cup bare

\* A blob without a row belongs to an upload under way, or a failed call, a crash or
\* a deleted profile left it behind; refused uploads and deletes leave none.
OrphansAccounted ==
    \A d \in blobs : Exists(d) \/ upload[d] \in {"stored", "undo"} \/ d \in leaked

\* A document for which a worker reported does not stay in processing, whatever
\* fails on the way: no result is dropped that its row has yet to see.
EveryResultApplied ==
    <>[](\A d \in Docs, v \in Verdicts : <<d, v>> \in reported => status[d] # "processing")

\* task-results has no dead-letter queue: poison, results of deleted documents and
\* those the database refused must all leave it.
ResultsDrain == <>[](\A r \in Results : queue[r] = 0)

-----------------------------------------------------------------------------
(* What makes the safety properties inductive *)

(* The store: blobs and rows, upload and delete. *)

\* A row exists only once its Upload has tried to commit it.
RowAfterCommit == \A d \in Docs : Exists(d) => upload[d] \in {"undo", "over"}

\* Between PutObject and the transaction the blob is there.
StoredHasBlob == \A d \in Docs : upload[d] = "stored" => d \in blobs

\* A row whose Upload is about to compensate is a misjudged COMMIT.
UndoneIsBare == \A d \in Docs : Exists(d) /\ upload[d] = "undo" => d \in bare

\* Delete works on documents that existed.
TargetsExisted ==
    \A q \in Requests : \A d \in target[q] : upload[d] \in {"undo", "over"}

\* Before Delete removes the row it has removed the blob, or failed to.
BlobGoesFirst == \A q \in Requests : del[q] = "row" => target[q] \cap blobs \subseteq leaked

StoreInv ==
    /\ RowAfterCommit
    /\ StoredHasBlob
    /\ UndoneIsBare
    /\ TargetsExisted
    /\ BlobGoesFirst
    /\ BlobBehindRow
    /\ OrphansAccounted

(* The consumers. *)

Applying(c, d) == pc[c] = "update" /\ held[c] \in {d} \X Verdicts

\* Once replica c has written the status of d, nothing will make it do so again: the
\* status is terminal or the row gone, and c has no update of d in hand.
WrittenIsSettled ==
    \A c \in Replicas, d \in Docs : writes[<<c, d>>] > 0 =>
        /\ status[d] # "processing"
        /\ upload[d] \in {"undo", "over"}
        /\ ~Applying(c, d)

WriteInv == WrittenOncePerReplica /\ WrittenIsSettled

\* The inductive invariant DocumentProofs rests on.
IInv == TypeOK /\ StoreInv /\ WriteInv
=============================================================================
