--------------------------- MODULE DocumentProofs ---------------------------
(***************************************************************************)
(* Proofs about DocumentLifecycle for any documents, requests, replicas,   *)
(* stray results and bounds: type correctness, that blobs and rows part    *)
(* only where a failure parts them, and that no replica writes a status    *)
(* twice.                                                                  *)
(***************************************************************************)
EXTENDS DocumentLifecycle, TLAPS

USE DocumentAssumption DEF DocumentAssumption

-----------------------------------------------------------------------------
(* Type correctness *)

\* Every action keeps every variable in its type.
LEMMA TypeStep == TypeOK /\ [Next]_vars => TypeOK'
<1> SUFFICES ASSUME TypeOK, [Next]_vars PROVE TypeOK'
  OBVIOUS
<1> USE DEF TypeOK, Fault
<1>1. ASSUME NEW d \in Docs, Upload(d) PROVE TypeOK'
  <2>1. upload' \in [Docs -> {"new", "stored", "undo", "over"}]
    BY <1>1 DEF Upload, UploadStep, PutObject, PutFails, CreateWithTask, CreateFails,
           CommitUnknown, RemoveUpload, RemoveUploadFails, UploadCrash
  <2>2. status' \in [Docs -> {"none", "processing"} \cup Verdicts]
    BY <1>1 DEF Upload, PutObject, PutFails, CreateWithTask, CreateFails,
           CommitUnknown, RemoveUpload, RemoveUploadFails, UploadCrash
  <2>3. {blobs', tasks', leaked', bare'} \subseteq SUBSET Docs
    BY <1>1 DEF Upload, PutObject, PutFails, CreateWithTask, CreateFails,
           CommitUnknown, RemoveUpload, RemoveUploadFails, UploadCrash
  <2>4. faults' \in 0..MaxFaults
    BY <1>1 DEF Upload, PutObject, PutFails, CreateWithTask, CreateFails,
           CommitUnknown, RemoveUpload, RemoveUploadFails, UploadCrash
  <2>5. UNCHANGED <<deleteVars, envVars, consumerVars>>
    BY <1>1 DEF Upload
  <2> QED
    BY <2>1, <2>2, <2>3, <2>4, <2>5 DEF deleteVars, envVars, consumerVars
<1>2. ASSUME NEW gone PROVE RowsGone(gone) \in [Docs -> {"none", "processing"} \cup Verdicts]
  BY DEF RowsGone
<1>3. ASSUME NEW q \in Requests, Delete(q) PROVE TypeOK'
  <2>1. del' \in [Requests -> {"idle", "blob", "row", "over"}]
    BY <1>3 DEF Delete, DeleteStep, StartDelete, RemoveBlob, RemoveBlobFails, RemoveRow, DeleteCutOff
  <2>2. target' \in [Requests -> SUBSET Docs]
    BY <1>3 DEF Delete, StartDelete, RemoveBlob, RemoveBlobFails, RemoveRow, DeleteCutOff
  <2>3. status' \in [Docs -> {"none", "processing"} \cup Verdicts]
    BY <1>2, <1>3 DEF Delete, StartDelete, RemoveBlob, RemoveBlobFails, RemoveRow, DeleteCutOff
  <2>4. {blobs', tasks', leaked', bare'} \subseteq SUBSET Docs
    BY <1>3 DEF Delete, StartDelete, RemoveBlob, RemoveBlobFails, RemoveRow, DeleteCutOff
  <2>5. faults' \in 0..MaxFaults
    BY <1>3 DEF Delete, StartDelete, RemoveBlob, RemoveBlobFails, RemoveRow, DeleteCutOff
  <2>6. UNCHANGED <<upload, envVars, consumerVars>>
    BY <1>3 DEF Delete, StartDelete, RemoveBlob, RemoveBlobFails, RemoveRow, DeleteCutOff
  <2> QED
    BY <2>1, <2>2, <2>3, <2>4, <2>5, <2>6 DEF envVars, consumerVars
<1>4. ASSUME NEW d \in Docs, Cascade(d), UNCHANGED <<envVars, consumerVars>> PROVE TypeOK'
  BY <1>2, <1>4 DEF Cascade, deleteVars, envVars, consumerVars
<1>5. ASSUME NEW r \in Results, Report(r) PROVE TypeOK'
  <2>1. queue' \in [Results -> Nat]
    BY <1>5 DEF Report, More
  <2> QED
    BY <1>5, <2>1 DEF Report, storeVars, deleteVars
<1>6. ASSUME NEW c \in Replicas PROVE
      /\ pc[c] # "idle" => held[c] \in Results
      /\ Redeliver(c) => queue' \in [Results -> Nat]
  BY DEF Redeliver, More
<1>8. ASSUME NEW c \in Replicas, NEW d \in Docs, Write(c, d), held[c] \in {d} \X Verdicts
      PROVE /\ status' \in [Docs -> {"none", "processing"} \cup Verdicts]
            /\ writes' \in [Replicas \X Docs -> Nat]
  BY <1>8 DEF Write
<1>9. ASSUME NEW c \in Replicas, Handle(c) PROVE TypeOK'
  <2>1. status' \in [Docs -> {"none", "processing"} \cup Verdicts]
    BY <1>8, <1>9 DEF Handle, DropStray, Ack, Resubscribe, SkipSettled, FindProcessing,
           UpdateStatus, UpdateFindsNothing
  <2>2. writes' \in [Replicas \X Docs -> Nat]
    BY <1>8, <1>9 DEF Handle, DropStray, Ack, Resubscribe, SkipSettled, FindProcessing,
           UpdateStatus, UpdateFindsNothing
  <2>3. queue' \in [Results -> Nat]
    BY <1>6, <1>9 DEF Handle, DropStray, Ack, Resubscribe, SkipSettled, FindProcessing,
           UpdateStatus, UpdateFindsNothing
  <2>4. /\ pc' \in [Replicas -> {"idle", "get", "update", "ack"}]
        /\ held' \in [Replicas -> Results \cup {NoResult}]
        /\ \A x \in Replicas : held'[x] = NoResult <=> pc'[x] = "idle"
    BY <1>9 DEF Handle, DropStray, Ack, Resubscribe, SkipSettled, FindProcessing,
           UpdateStatus, UpdateFindsNothing, Goto, Finish
  <2>5. live' \in [Replicas -> BOOLEAN] /\ faults' = faults
    BY <1>9 DEF Handle, DropStray, Ack, Resubscribe, SkipSettled, FindProcessing,
           UpdateStatus, UpdateFindsNothing
  <2>6. UNCHANGED outsideVars
    BY <1>9 DEF Handle
  <2> QED
    BY <2>1, <2>2, <2>3, <2>4, <2>5, <2>6 DEF outsideVars, deleteVars, envVars
<1>10. ASSUME NEW c \in Replicas, Break(c) PROVE TypeOK'
  <2>1. status' \in [Docs -> {"none", "processing"} \cup Verdicts]
    BY <1>8, <1>10 DEF Break, ConnectionLost, ConsumerCrash, DatabaseError
  <2>2. writes' \in [Replicas \X Docs -> Nat]
    BY <1>8, <1>10 DEF Break, ConnectionLost, ConsumerCrash, DatabaseError
  <2>3. queue' \in [Results -> Nat]
    BY <1>6, <1>10 DEF Break, ConnectionLost, ConsumerCrash, DatabaseError
  <2>4. /\ pc' \in [Replicas -> {"idle", "get", "update", "ack"}]
        /\ held' \in [Replicas -> Results \cup {NoResult}]
        /\ \A x \in Replicas : held'[x] = NoResult <=> pc'[x] = "idle"
    BY <1>10 DEF Break, ConnectionLost, ConsumerCrash, DatabaseError, Goto, Finish
  <2>5. live' \in [Replicas -> BOOLEAN]
    BY <1>10 DEF Break, ConnectionLost, ConsumerCrash, DatabaseError
  <2>6. faults' \in 0..MaxFaults
    <3>1. Fault
      BY <1>10 DEF Break, ConnectionLost, ConsumerCrash, DatabaseError
    <3> QED
      BY <3>1
  <2>7. UNCHANGED outsideVars
    BY <1>10 DEF Break
  <2> QED
    BY <2>1, <2>2, <2>3, <2>4, <2>5, <2>6, <2>7 DEF outsideVars, deleteVars, envVars
<1>11. ASSUME NEW c \in Replicas, NEW r \in Results, Take(c, r) PROVE TypeOK'
  <2>1. queue' \in [Results -> Nat]
    BY <1>11 DEF Take, Receive, Less
  <2>2. /\ pc' = [pc EXCEPT ![c] = "get"]
        /\ held' = [held EXCEPT ![c] = r]
    BY <1>11 DEF Take, Receive, Goto
  <2>3. /\ pc' \in [Replicas -> {"idle", "get", "update", "ack"}]
        /\ held' \in [Replicas -> Results \cup {NoResult}]
    BY <2>2
  <2>4. \A x \in Replicas : held'[x] = NoResult <=> pc'[x] = "idle"
    BY <2>2, r # NoResult
  <2> QED
    BY <1>11, <2>1, <2>3, <2>4 DEF Take, Receive, outsideVars, deleteVars, envVars
<1>12. CASE UNCHANGED vars
  BY <1>12 DEF vars, storeVars, deleteVars, envVars, consumerVars
<1> QED
  BY <1>1, <1>3, <1>4, <1>5, <1>9, <1>10, <1>11, <1>12 DEF Next

\* Every variable keeps its type.
THEOREM TypeCorrect == Spec => []TypeOK
<1>1. Init => TypeOK
  BY DEF Init, TypeOK
<1> QED
  BY <1>1, TypeStep, PTL DEF Spec

-----------------------------------------------------------------------------
(* Blobs and rows *)

\* Upload of d is the only action that moves d out of "new" or "stored".
LEMMA StoreStepUpload ==
    ASSUME TypeOK, StoreInv, NEW d \in Docs, Upload(d)
    PROVE  StoreInv'
<1> USE DEF TypeOK, StoreInv, RowAfterCommit, StoredHasBlob, UndoneIsBare, TargetsExisted,
            BlobGoesFirst, BlobBehindRow, OrphansAccounted, Exists, UploadStep, deleteVars
<1>1. UNCHANGED <<del, target>>
  BY DEF Upload
<1>2. CASE PutObject(d)
  BY <1>1, <1>2 DEF PutObject
<1>3. CASE PutFails(d)
  BY <1>1, <1>3 DEF PutFails
<1>4. CASE CreateWithTask(d)
  BY <1>1, <1>4 DEF CreateWithTask
<1>5. CASE CreateFails(d)
  BY <1>1, <1>5 DEF CreateFails
<1>6. CASE CommitUnknown(d)
  BY <1>1, <1>6 DEF CommitUnknown
<1>7. CASE RemoveUpload(d)
  BY <1>1, <1>7 DEF RemoveUpload
<1>8. CASE RemoveUploadFails(d)
  BY <1>1, <1>8 DEF RemoveUploadFails
<1>9. CASE UploadCrash(d)
  BY <1>1, <1>9 DEF UploadCrash
<1> QED
  BY <1>2, <1>3, <1>4, <1>5, <1>6, <1>7, <1>8, <1>9 DEF Upload

\* Delete takes the blob first, then the row.
LEMMA StoreStepDelete ==
    ASSUME TypeOK, StoreInv, NEW q \in Requests, Delete(q)
    PROVE  StoreInv'
<1> USE DEF TypeOK, StoreInv, RowAfterCommit, StoredHasBlob, UndoneIsBare, TargetsExisted,
            BlobGoesFirst, BlobBehindRow, OrphansAccounted, Exists, DeleteStep, RowsGone
<1>1. ASSUME NEW d \in Docs, StartDelete(q, d) PROVE StoreInv'
  BY <1>1 DEF StartDelete
<1>2. CASE RemoveBlob(q)
  BY <1>2 DEF RemoveBlob
<1>3. CASE RemoveBlobFails(q)
  BY <1>3 DEF RemoveBlobFails
<1>4. CASE RemoveRow(q)
  BY <1>4 DEF RemoveRow
<1>5. CASE DeleteCutOff(q)
  BY <1>5 DEF DeleteCutOff
<1> QED
  BY <1>1, <1>2, <1>3, <1>4, <1>5 DEF Delete

\* A consumer only writes the status of rows that exist, and a verdict is a status.
LEMMA ConsumersKeepRows ==
    ASSUME TypeOK, NEW c \in Replicas, Handle(c) \/ Break(c)
    PROVE  /\ UNCHANGED <<storeVars, deleteVars>>
           \/ /\ UNCHANGED <<upload, blobs, tasks, leaked, bare, deleteVars>>
              /\ \E d \in Docs : Exists(d) /\ held[c] \in {d} \X Verdicts /\ Write(c, d)
<1>1. UNCHANGED <<upload, blobs, tasks, leaked, bare, deleteVars>>
  BY DEF Handle, Break, outsideVars
<1>2. \/ UNCHANGED status
      \/ \E d \in Docs : Exists(d) /\ held[c] \in {d} \X Verdicts /\ Write(c, d)
  BY DEF Handle, DropStray, Ack, Resubscribe, SkipSettled, FindProcessing, UpdateStatus,
         UpdateFindsNothing, Break, ConnectionLost, ConsumerCrash, DatabaseError
<1> QED
  BY <1>1, <1>2 DEF storeVars

\* Every step keeps the invariant of blobs and rows.
LEMMA StoreStep == TypeOK /\ StoreInv /\ [Next]_vars => StoreInv'
<1> SUFFICES ASSUME TypeOK, StoreInv, [Next]_vars PROVE StoreInv'
  OBVIOUS
<1>1. ASSUME NEW d \in Docs, Upload(d) PROVE StoreInv'
  BY <1>1, StoreStepUpload
<1>2. ASSUME NEW q \in Requests, Delete(q) PROVE StoreInv'
  BY <1>2, StoreStepDelete
<1> USE DEF StoreInv, RowAfterCommit, StoredHasBlob, UndoneIsBare, TargetsExisted,
            BlobGoesFirst, BlobBehindRow, OrphansAccounted, Exists
<1>3. ASSUME NEW d \in Docs, Cascade(d) PROVE StoreInv'
  BY <1>3 DEF Cascade, RowsGone, deleteVars, TypeOK
<1>4. CASE UNCHANGED <<storeVars, deleteVars>>
  BY <1>4 DEF storeVars, deleteVars
<1>5. ASSUME NEW c \in Replicas, Handle(c) \/ Break(c) PROVE StoreInv'
  <2>1. ASSUME UNCHANGED <<upload, blobs, tasks, leaked, bare, deleteVars>>,
               NEW d \in Docs, Exists(d), held[c] \in {d} \X Verdicts, Write(c, d)
        PROVE  StoreInv'
    <3>1. status' = [status EXCEPT ![d] = held[c][2]] /\ held[c][2] # "none"
      BY <2>1 DEF Write, Verdicts
    <3>2. \A x \in Docs : Exists(x)' <=> Exists(x)
      BY <2>1, <3>1 DEF TypeOK
    <3>3. UNCHANGED <<upload, blobs, leaked, bare, del, target>>
      BY <2>1 DEF deleteVars
    <3>4. blobs \subseteq Docs
      BY DEF TypeOK
    <3> QED
      BY <3>2, <3>3, <3>4
  <2> QED
    BY <1>4, <1>5, <2>1, ConsumersKeepRows
<1>6. ASSUME NEW c \in Replicas, NEW r \in Results, Take(c, r) PROVE StoreInv'
  BY <1>4, <1>6 DEF Take, Receive, outsideVars, storeVars
<1>7. ASSUME NEW r \in Results, Report(r) PROVE StoreInv'
  BY <1>4, <1>7 DEF Report
<1>8. CASE UNCHANGED vars
  BY <1>4, <1>8 DEF vars
<1> QED
  BY <1>1, <1>2, <1>3, <1>5, <1>6, <1>7, <1>8 DEF Next

-----------------------------------------------------------------------------
(* Status writes *)

\* What a step must do to endanger the counts: write, put an update in a consumer's
\* hand, or make a row processing.
LEMMA WriteFrame ==
    ASSUME TypeOK, WriteInv, TypeOK', writes' = writes,
           \A c \in Replicas, d \in Docs : writes[<<c, d>>] > 0 =>
               /\ status'[d] \in {status[d], "none"}
               /\ upload[d] \in {"undo", "over"} => upload'[d] \in {"undo", "over"}
               /\ Applying(c, d)' => Applying(c, d)
    PROVE  WriteInv'
<1>1. WrittenOncePerReplica'
  BY DEF WriteInv, WrittenOncePerReplica
<1>2. WrittenIsSettled'
  BY DEF WriteInv, WrittenIsSettled
<1> QED
  BY <1>1, <1>2 DEF WriteInv

\* No replica has written d if d is processing, or not committed yet.
LEMMA Unwritten ==
    ASSUME TypeOK, WriteInv, NEW d \in Docs,
           status[d] = "processing" \/ upload[d] \in {"new", "stored"}
    PROVE  \A c \in Replicas : writes[<<c, d>>] = 0
<1> SUFFICES ASSUME NEW c \in Replicas PROVE writes[<<c, d>>] = 0
  OBVIOUS
<1>1. writes[<<c, d>>] \in Nat
  BY DEF TypeOK
<1>2. ~(writes[<<c, d>>] > 0)
  BY DEF WriteInv, WrittenIsSettled
<1> QED
  BY <1>1, <1>2

\* A consumer holds a result of one document.
LEMMA OneDocumentInHand ==
    ASSUME NEW c, NEW d, NEW e, held[c] \in {d} \X Verdicts, held[c] \in {e} \X Verdicts
    PROVE  d = e
<1>1. held[c][1] = d /\ held[c][1] = e
  OBVIOUS
<1> QED
  BY <1>1

\* A write is the replica's first of this document, and its last.
LEMMA WriteStep ==
    ASSUME TypeOK, WriteInv, RowAfterCommit, TypeOK',
           NEW c \in Replicas, NEW d \in Docs, Applying(c, d), Exists(d), Write(c, d),
           upload' = upload,
           pc'[c] # "update",
           \A x \in Replicas \ {c} : pc'[x] = pc[x] /\ held'[x] = held[x]
    PROVE  WriteInv'
<1>1. writes[<<c, d>>] = 0
  <2>1. writes[<<c, d>>] \in Nat
    BY DEF TypeOK
  <2>2. ~(writes[<<c, d>>] > 0)
    BY DEF WriteInv, WrittenIsSettled
  <2> QED
    BY <2>1, <2>2
<1>2. /\ writes'[<<c, d>>] = 1
      /\ \A x \in Replicas, e \in Docs : <<x, e>> # <<c, d>> => writes'[<<x, e>>] = writes[<<x, e>>]
  BY <1>1 DEF Write, TypeOK
<1>3. /\ status'[d] # "processing"
      /\ \A e \in Docs \ {d} : status'[e] = status[e]
  BY DEF Write, Applying, Verdicts, TypeOK
<1>4. upload[d] \in {"undo", "over"}
  BY DEF RowAfterCommit
<1>5. WrittenOncePerReplica'
  <2> SUFFICES ASSUME NEW x \in Replicas, NEW e \in Docs PROVE writes'[<<x, e>>] <= 1
    BY DEF WrittenOncePerReplica
  <2>1. writes[<<x, e>>] <= 1
    BY DEF WriteInv, WrittenOncePerReplica
  <2> QED
    BY <1>2, <2>1
<1>6. WrittenIsSettled'
  <2> SUFFICES ASSUME NEW x \in Replicas, NEW e \in Docs, writes'[<<x, e>>] > 0
               PROVE  /\ status'[e] # "processing"
                      /\ upload'[e] \in {"undo", "over"}
                      /\ ~Applying(x, e)'
    BY DEF WrittenIsSettled
  <2>1. CASE x = c
    <3>1. ~Applying(x, e)'
      BY <2>1 DEF Applying
    <3>2. CASE e = d
      BY <1>3, <1>4, <3>1, <3>2
    <3>3. CASE e # d
      BY <1>2, <1>3, <2>1, <3>1, <3>3 DEF WriteInv, WrittenIsSettled
    <3> QED
      BY <3>2, <3>3
  <2>2. CASE x # c
    <3>1. writes[<<x, e>>] > 0
      BY <1>2, <2>2
    <3>2. ~Applying(x, e)'
      BY <2>2, <3>1 DEF Applying, WriteInv, WrittenIsSettled
    <3> QED
      BY <1>3, <1>4, <3>1, <3>2 DEF WriteInv, WrittenIsSettled
  <2> QED
    BY <2>1, <2>2
<1> QED
  BY <1>5, <1>6 DEF WriteInv

\* Every step keeps the invariant of the writes.
LEMMA WritesStep ==
    TypeOK /\ TypeOK' /\ StoreInv /\ WriteInv /\ [Next]_vars => WriteInv'
<1> SUFFICES ASSUME TypeOK, TypeOK', StoreInv, WriteInv, [Next]_vars PROVE WriteInv'
  OBVIOUS
<1>1. ASSUME UNCHANGED <<status, upload, writes, pc, held>> PROVE WriteInv'
  BY <1>1 DEF WriteInv, WrittenOncePerReplica, WrittenIsSettled, Applying
<1>2. ASSUME NEW d \in Docs, Upload(d) PROVE WriteInv'
  <2>1. UNCHANGED <<writes, pc, held>>
    BY <1>2 DEF Upload, consumerVars
  <2>2. \/ upload[d] \in {"new", "stored"} /\ status' = [status EXCEPT ![d] = "processing"]
        \/ status' = status
    BY <1>2 DEF Upload, UploadStep, PutObject, PutFails, CreateWithTask, CreateFails,
           CommitUnknown, RemoveUpload, RemoveUploadFails, UploadCrash
  <2>3. \A e \in Docs : upload[e] \in {"undo", "over"} => upload'[e] \in {"undo", "over"}
    BY <1>2 DEF Upload, UploadStep, PutObject, PutFails, CreateWithTask, CreateFails,
           CommitUnknown, RemoveUpload, RemoveUploadFails, UploadCrash, TypeOK
  <2>4. ASSUME NEW c \in Replicas, NEW e \in Docs, writes[<<c, e>>] > 0
        PROVE  status'[e] \in {status[e], "none"}
    <3>1. CASE upload[d] \in {"new", "stored"} /\ status' = [status EXCEPT ![d] = "processing"]
      <4>1. writes[<<c, d>>] = 0
        BY <3>1, Unwritten
      <4>2. e # d
        BY <2>4, <4>1
      <4> QED
        BY <3>1, <4>2 DEF TypeOK
    <3> QED
      BY <2>2, <3>1
  <2> QED
    BY <2>1, <2>3, <2>4, WriteFrame DEF Applying
<1>3. ASSUME UNCHANGED <<upload, writes, pc, held>>,
             status' = status \/ \E gone : status' = RowsGone(gone)
      PROVE  WriteInv'
  <2>1. \A d \in Docs : status'[d] \in {status[d], "none"}
    BY <1>3 DEF RowsGone
  <2> QED
    BY <1>3, <2>1, WriteFrame DEF Applying
<1>4. ASSUME NEW q \in Requests, Delete(q) PROVE WriteInv'
  BY <1>3, <1>4 DEF Delete, StartDelete, RemoveBlob, RemoveBlobFails, RemoveRow,
         DeleteCutOff, consumerVars
<1>5. ASSUME NEW d \in Docs, Cascade(d), UNCHANGED <<envVars, consumerVars>> PROVE WriteInv'
  BY <1>3, <1>5 DEF Cascade, consumerVars
<1>6. ASSUME NEW r \in Results, Report(r) PROVE WriteInv'
  BY <1>1, <1>6 DEF Report, storeVars
<1>7. ASSUME NEW c \in Replicas, UNCHANGED <<status, upload, writes>>,
             \A x \in Replicas \ {c} : pc'[x] = pc[x] /\ held'[x] = held[x],
             pc'[c] # "update"
      PROVE  WriteInv'
  <2>1. \A x \in Replicas, d \in Docs : Applying(x, d)' => Applying(x, d)
    BY <1>7 DEF Applying
  <2> QED
    BY <1>7, <2>1, WriteFrame
<1>8. ASSUME NEW c \in Replicas, NEW r \in Results, Take(c, r) PROVE WriteInv'
  BY <1>7, <1>8 DEF Take, Receive, Goto, outsideVars, TypeOK
<1>9. ASSUME NEW c \in Replicas, Handle(c) PROVE WriteInv'
  <2>0. UNCHANGED upload
    BY <1>9 DEF Handle, outsideVars
  <2>1. CASE DropStray(c) \/ Ack(c)
    BY <1>7, <2>0, <2>1 DEF DropStray, Ack, Goto, Finish, TypeOK
  <2>2. CASE Resubscribe(c)
    BY <1>1, <2>0, <2>2 DEF Resubscribe
  <2>3. ASSUME NEW d \in Docs, SkipSettled(c, d) \/ UpdateFindsNothing(c, d) PROVE WriteInv'
    BY <1>7, <2>0, <2>3 DEF SkipSettled, UpdateFindsNothing, Goto, Finish, TypeOK
  <2>4. ASSUME NEW d \in Docs, FindProcessing(c, d) PROVE WriteInv'
    <3>1. /\ UNCHANGED <<status, writes, held>>
          /\ \A x \in Replicas \ {c} : pc'[x] = pc[x]
          /\ held[c] \in {d} \X Verdicts /\ status[d] = "processing"
      BY <2>4 DEF FindProcessing, Goto, TypeOK
    <3>2. ASSUME NEW x \in Replicas, NEW e \in Docs, writes[<<x, e>>] > 0, Applying(x, e)'
          PROVE  Applying(x, e)
      <4>1. CASE x = c
        <5>1. held[c] \in {e} \X Verdicts
          BY <3>1, <3>2, <4>1 DEF Applying
        <5>2. e = d
          BY <3>1, <5>1, OneDocumentInHand
        <5>3. writes[<<x, e>>] = 0
          BY <3>1, <5>2, Unwritten
        <5> QED
          BY <3>2, <5>3
      <4>2. CASE x # c
        BY <3>1, <3>2, <4>2 DEF Applying
      <4> QED
        BY <4>1, <4>2
    <3> QED
      BY <2>0, <3>1, <3>2, WriteFrame
  <2>5. ASSUME NEW d \in Docs, UpdateStatus(c, d) PROVE WriteInv'
    BY <2>0, <2>5, WriteStep DEF UpdateStatus, Applying, Goto, StoreInv, TypeOK
  <2> QED
    BY <1>9, <2>1, <2>2, <2>3, <2>4, <2>5 DEF Handle
<1>10. ASSUME NEW c \in Replicas, Break(c) PROVE WriteInv'
  <2>0. UNCHANGED upload
    BY <1>10 DEF Break, outsideVars
  <2>1. CASE ConnectionLost(c)
    BY <1>1, <2>0, <2>1 DEF ConnectionLost
  <2>2. CASE ConsumerCrash(c)
    BY <1>7, <2>0, <2>2 DEF ConsumerCrash, Goto, Finish, TypeOK
  <2>3. ASSUME NEW d \in Docs, DatabaseError(c, d) PROVE WriteInv'
    <3>1. /\ pc'[c] # "update"
          /\ \A x \in Replicas \ {c} : pc'[x] = pc[x] /\ held'[x] = held[x]
      BY <2>3 DEF DatabaseError, Goto, Finish, TypeOK
    <3>2. CASE UNCHANGED <<status, writes>>
      BY <1>7, <2>0, <3>1, <3>2
    <3>3. CASE pc[c] = "update" /\ Exists(d) /\ Write(c, d)
      BY <2>0, <2>3, <3>1, <3>3, WriteStep DEF DatabaseError, Applying, StoreInv
    <3> QED
      BY <2>3, <3>2, <3>3 DEF DatabaseError
  <2> QED
    BY <1>10, <2>1, <2>2, <2>3 DEF Break
<1>11. CASE UNCHANGED vars
  BY <1>1, <1>11 DEF vars, storeVars, consumerVars
<1> QED
  BY <1>2, <1>4, <1>5, <1>6, <1>8, <1>9, <1>10, <1>11 DEF Next

-----------------------------------------------------------------------------
\* The inductive invariant holds initially and is kept by every step.
THEOREM Invariance == Spec => []IInv
<1>1. Init => IInv
  BY DEF Init, IInv, TypeOK, StoreInv, RowAfterCommit, StoredHasBlob, UndoneIsBare,
         TargetsExisted, BlobGoesFirst, BlobBehindRow, OrphansAccounted, Exists,
         WriteInv, WrittenOncePerReplica, WrittenIsSettled
<1>2. IInv /\ [Next]_vars => IInv'
  BY TypeStep, StoreStep, WritesStep DEF IInv
<1> QED
  BY <1>1, <1>2, PTL DEF Spec

\* However results are repeated, reordered or contradictory, and whatever fails, no
\* replica writes the status of a document twice.
THEOREM StatusWrittenOnce == Spec => []WrittenOncePerReplica
<1>1. IInv => WrittenOncePerReplica
  BY DEF IInv, WriteInv
<1> QED
  BY <1>1, Invariance, PTL

\* A readable document has its blob, unless a Delete or a misjudged COMMIT took it.
THEOREM RowHasBlob == Spec => []BlobBehindRow
<1>1. IInv => BlobBehindRow
  BY DEF IInv, StoreInv
<1> QED
  BY <1>1, Invariance, PTL

\* A blob without a row is an upload under way or what a failure left behind.
THEOREM NoOtherOrphans == Spec => []OrphansAccounted
<1>1. IInv => OrphansAccounted
  BY DEF IInv, StoreInv
<1> QED
  BY <1>1, Invariance, PTL
=============================================================================
