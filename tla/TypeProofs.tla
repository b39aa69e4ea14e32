----------------------------- MODULE TypeProofs -----------------------------
(***************************************************************************)
(* The type invariant of UploadServer, proved component by component: every *)
(* operator of the store and of the storage keeps the type of its own       *)
(* variables, so an action of a handler or a task does.                    *)
(***************************************************************************)
EXTENDS ServerProperties, TLAPS

-----------------------------------------------------------------------------
\* The metadata store.

LEMMA PartNat == Part \subseteq Nat /\ 0 \in Part /\ TotalParts \in Nat
  BY PartsAssumption DEF Part

\* Every statement on `uploads' or `parts' keeps the types of the tables.
LEMMA RepoUnchanged == RepoTypeOK /\ UNCHANGED repoVars => RepoTypeOK'
  BY DEF RepoTypeOK, repoVars

\* A row keeps its type under each of the assignments that the code makes.
LEMMA RowTyped ==
  ASSUME NEW r \in UploadRow, NEW percent \in Progress
  PROVE  /\ [r EXCEPT !.status = "pending"] \in UploadRow
         /\ [r EXCEPT !.status = "deleted"] \in UploadRow
         /\ [r EXCEPT !.status = "finalizing", !.progress = 0, !.stale = FALSE] \in UploadRow
         /\ [r EXCEPT !.progress = percent, !.stale = FALSE] \in UploadRow
         /\ [r EXCEPT !.status = "complete", !.hasFinalPath = TRUE,
                       !.progress = 100, !.stale = FALSE] \in UploadRow
         /\ [r EXCEPT !.status = "failed", !.stale = FALSE] \in UploadRow
         /\ [r EXCEPT !.stale = TRUE] \in UploadRow
         /\ [r EXCEPT !.life = IF @ = "live" THEN "leeway" ELSE "expired"] \in UploadRow
<1> USE DEF UploadRow, Status, InRow, Progress
<1>1. [r EXCEPT !.status = "pending"] \in UploadRow
  OBVIOUS
<1>2. [r EXCEPT !.status = "deleted"] \in UploadRow
  OBVIOUS
<1>3. [r EXCEPT !.status = "finalizing", !.progress = 0, !.stale = FALSE] \in UploadRow
  OBVIOUS
<1>4. [r EXCEPT !.progress = percent, !.stale = FALSE] \in UploadRow
  OBVIOUS
<1>5. [r EXCEPT !.status = "complete", !.hasFinalPath = TRUE,
                       !.progress = 100, !.stale = FALSE] \in UploadRow
  OBVIOUS
<1>6. [r EXCEPT !.status = "failed", !.stale = FALSE] \in UploadRow
  OBVIOUS
<1>7. [r EXCEPT !.stale = TRUE] \in UploadRow
  OBVIOUS
<1>8. [r EXCEPT !.life = IF @ = "live" THEN "leeway" ELSE "expired"] \in UploadRow
  OBVIOUS
<1> QED BY <1>1, <1>2, <1>3, <1>4, <1>5, <1>6, <1>7, <1>8

LEMMA UploadStatementsTyped ==
  ASSUME RepoTypeOK, NEW u \in Upload, NEW percent \in Progress,
         \/ CreateUpload(u) \/ TryStartFinalization(u) \/ RestartStaleFinalization(u)
         \/ UpdateFinalizingProgress(u, percent)
         \/ MarkFinalizationComplete(u) \/ MarkFinalizationFailed(u)
         \/ DeleteUploadRow(u)
  PROVE  RepoTypeOK'
<1>1. uploads[u] \in UploadRow
  BY DEF RepoTypeOK
<1>2. {"pending", "deleted"} \subseteq Status /\ 0 \in Progress
  BY DEF Status, InRow, Progress
<1>3. uploads' \in [Upload -> UploadRow]
  <2>1. CASE CreateUpload(u) \/ DeleteUploadRow(u)
    BY <1>1, <1>2, <2>1, RowTyped DEF RepoTypeOK, CreateUpload, DeleteUploadRow
  <2>2. CASE TryStartFinalization(u)
    BY <1>1, <1>2, <2>2, RowTyped DEF RepoTypeOK, TryStartFinalization
  <2>3. CASE RestartStaleFinalization(u)
    BY <1>1, <1>2, <2>3, RowTyped DEF RepoTypeOK, RestartStaleFinalization
  <2>4. CASE UpdateFinalizingProgress(u, percent)
    BY <1>1, <2>4, RowTyped DEF RepoTypeOK, UpdateFinalizingProgress
  <2>5. CASE MarkFinalizationComplete(u)
    BY <1>1, <1>2, <2>5, RowTyped DEF RepoTypeOK, MarkFinalizationComplete
  <2>6. CASE MarkFinalizationFailed(u)
    BY <1>1, <1>2, <2>6, RowTyped DEF RepoTypeOK, MarkFinalizationFailed
  <2> QED BY <2>1, <2>2, <2>3, <2>4, <2>5, <2>6
<1>4. UNCHANGED parts
  BY DEF CreateUpload, TryStartFinalization, RestartStaleFinalization,
         UpdateFinalizingProgress, MarkFinalizationComplete, MarkFinalizationFailed,
         DeleteUploadRow
<1> QED BY <1>3, <1>4 DEF RepoTypeOK

LEMMA PartStatementsTyped ==
  ASSUME RepoTypeOK, NEW u \in Upload, NEW p \in Part, NEW c \in Content, NEW n,
         \/ CreateParts(u, n) \/ DeletePartRows(u) \/ UpdatePartStatus(u, p, c)
  PROVE  RepoTypeOK'
<1> USE DEF RepoTypeOK
<1>1. CASE CreateParts(u, n)
  BY <1>1 DEF CreateParts
<1>2. CASE DeletePartRows(u)
  BY <1>2 DEF DeletePartRows
<1>3. CASE UpdatePartStatus(u, p, c)
  BY <1>3 DEF UpdatePartStatus
<1> QED BY <1>1, <1>2, <1>3

-----------------------------------------------------------------------------
\* The local storage.

LEMMA StorageUnchanged == StorageTypeOK /\ UNCHANGED storageVars => StorageTypeOK'
  BY DEF StorageTypeOK, storageVars

\* What store_part does keeps the types of the file system.
LEMMA PartFileTyped ==
  ASSUME StorageTypeOK, NEW u \in Upload, NEW p \in Part, NEW w \in Writer,
         NEW c \in Content, NEW openers \in SUBSET Writer,
         \/ CreatePartsDir(u) \/ CreatePartFile(u, p, openers)
         \/ WritePartFile(w, u, p, c) \/ BreakOffWrite(w, u, p)
         \/ AbandonWrite(w, u, p, c) \/ WriteAbandoned(u, p, c)
  PROVE  StorageTypeOK'
<1> USE DEF StorageTypeOK, Data
<1>1. CASE CreatePartsDir(u)
  BY <1>1 DEF CreatePartsDir
<1>2. CASE CreatePartFile(u, p, openers)
  BY <1>2 DEF CreatePartFile
<1>3. CASE WritePartFile(w, u, p, c)
  <2>1. partFile' \in [Upload -> [Part -> Data \cup {NoFile}]]
    <3>1. \A data \in WriteOutcomes(u, p, c) : data \in Data \cup {NoFile}
      BY DEF WriteOutcomes
    <3>2. CASE UNCHANGED partFile
      BY <3>2
    <3>3. CASE \E data \in Data \cup {NoFile} : partFile' = [partFile EXCEPT ![u][p] = data]
      BY <3>3
    <3> QED BY <1>3, <3>1, <3>2, <3>3 DEF WritePartFile
  <2>2. partOpen' \in [Upload -> [Part -> SUBSET (Writer \cup Content)]]
    BY <1>3 DEF WritePartFile
  <2> QED BY <1>3, <2>1, <2>2 DEF WritePartFile
<1>4. CASE BreakOffWrite(w, u, p)
  <2>1. partFile' \in [Upload -> [Part -> Data \cup {NoFile}]]
    <3>1. CASE UNCHANGED partFile
      BY <3>1
    <3>2. CASE partFile' = [partFile EXCEPT ![u][p] = Torn]
      BY <3>2
    <3> QED BY <1>4, <3>1, <3>2 DEF BreakOffWrite
  <2>2. partOpen' \in [Upload -> [Part -> SUBSET (Writer \cup Content)]]
    BY <1>4 DEF BreakOffWrite
  <2> QED BY <1>4, <2>1, <2>2 DEF BreakOffWrite
<1>5. CASE AbandonWrite(w, u, p, c)
  <2>1. partOpen' \in [Upload -> [Part -> SUBSET (Writer \cup Content)]]
    BY <1>5 DEF AbandonWrite
  <2> QED BY <1>5, <2>1 DEF AbandonWrite
<1>6. CASE WriteAbandoned(u, p, c)
  <2>1. partFile' \in [Upload -> [Part -> Data \cup {NoFile}]]
    BY <1>6 DEF WriteAbandoned
  <2>2. partOpen' \in [Upload -> [Part -> SUBSET (Writer \cup Content)]]
    BY <1>6 DEF WriteAbandoned
  <2> QED BY <1>6, <2>1, <2>2 DEF WriteAbandoned
<1> QED BY <1>1, <1>2, <1>3, <1>4, <1>5, <1>6

\* So does what deletes files.
LEMMA DeletionTyped ==
  ASSUME StorageTypeOK, NEW u \in Upload,
         DeleteParts(u) \/ DeletePartsPartly(u) \/ DeleteFile(u)
  PROVE  StorageTypeOK'
<1> USE DEF StorageTypeOK, Data, NoPartFiles, NobodyOpen
<1>1. CASE DeleteParts(u)
  BY <1>1 DEF DeleteParts
<1>2. CASE DeletePartsPartly(u)
  <2>1. PICK gone \in SUBSET Part :
          /\ partFile' = [partFile EXCEPT
                            ![u] = [p \in Part |-> IF p \in gone THEN NoFile ELSE @[p]]]
          /\ partOpen' = [partOpen EXCEPT
                            ![u] = [p \in Part |-> IF p \in gone THEN {} ELSE @[p]]]
          /\ UNCHANGED <<partsDir, staging, finalFile, stagingOpen, finalOpen>>
    BY <1>2 DEF DeletePartsPartly
  <2> QED BY <2>1
<1>3. CASE DeleteFile(u)
  BY <1>3 DEF DeleteFile
<1> QED BY <1>1, <1>2, <1>3

\* And what assemble_parts does.  A rename needs a staging file that is there,
\* an append a part file that is there.
LEMMA EmptyFileTyped == EmptyFile \in [Part -> Data] /\ EmptyFile # NoFile
  BY ValuesAssumption DEF EmptyFile, Data

LEMMA AssemblyTyped ==
  ASSUME StorageTypeOK, NEW u \in Upload, NEW t \in Task,
         \/ RemoveStaleStaging(u) \/ CreateStaging(t, u) \/ CloseStaging(t, u)
         \/ staging[u] # NoFile /\ RenameStaging(t, u)
  PROVE  StorageTypeOK'
<1> USE DEF StorageTypeOK
<1>1. CASE RemoveStaleStaging(u)
  BY <1>1 DEF RemoveStaleStaging
<1>2. CASE CreateStaging(t, u)
  BY <1>2, EmptyFileTyped DEF CreateStaging
<1>3. CASE CloseStaging(t, u)
  BY <1>3 DEF CloseStaging
<1>4. CASE staging[u] # NoFile /\ RenameStaging(t, u)
  BY <1>4 DEF RenameStaging
<1> QED BY <1>1, <1>2, <1>3, <1>4

LEMMA AppendTyped ==
  ASSUME StorageTypeOK, NEW u \in Upload, NEW t \in Task, NEW p \in Part,
         partFile[u][p] # NoFile, AppendPart(t, u, p)
  PROVE  StorageTypeOK'
<1>1. partFile[u][p] \in Data
  BY DEF StorageTypeOK
<1>2. \A f \in [Part -> Data] : /\ [f EXCEPT ![p] = partFile[u][p]] \in [Part -> Data]
                                /\ [f EXCEPT ![p] = partFile[u][p]] # NoFile
  BY <1>1, ValuesAssumption
<1>3. /\ staging' \in [Upload -> [Part -> Data] \cup {NoFile}]
      /\ \A v \in Upload : stagingOpen'[v] # {} => staging'[v] # NoFile
  <2>1. CASE t \in stagingOpen[u]
    <3>1. staging[u] \in [Part -> Data]
      BY <2>1 DEF StorageTypeOK
    <3> QED BY <1>2, <2>1, <3>1 DEF StorageTypeOK, AppendPart
  <2>2. CASE t \notin stagingOpen[u]
    BY <2>2 DEF StorageTypeOK, AppendPart
  <2> QED BY <2>1, <2>2
<1>4. /\ finalFile' \in [Upload -> [Part -> Data] \cup {NoFile}]
      /\ \A v \in Upload : finalOpen'[v] # {} => finalFile'[v] # NoFile
  <2>1. CASE t \in finalOpen[u]
    <3>1. finalFile[u] \in [Part -> Data]
      BY <2>1 DEF StorageTypeOK
    <3> QED BY <1>2, <2>1, <3>1 DEF StorageTypeOK, AppendPart
  <2>2. CASE t \notin finalOpen[u]
    BY <2>2 DEF StorageTypeOK, AppendPart
  <2> QED BY <2>1, <2>2
<1> QED BY <1>3, <1>4 DEF StorageTypeOK, AppendPart

-----------------------------------------------------------------------------
\* The handlers of init and PUT.

LEMMA IngestUnchanged == IngestTypeOK /\ UNCHANGED ingestVars => IngestTypeOK'
  BY DEF IngestTypeOK, ingestVars

\* What happens to `put': a request starts, goes on, or is forgotten.
LEMMA PutTyped ==
  ASSUME IngestTypeOK, NEW w \in Writer, UNCHANGED <<client, late>>,
         \/ PutReturn(w)
         \/ put[w].pc # "idle" /\ \E pc \in PutPc : PutGoto(w, pc)
         \/ \E u \in Upload, p \in Part, c \in Content :
              put' = [put EXCEPT ![w] = [pc |-> "mkdir", u |-> u, p |-> p, body |-> c]]
  PROVE  IngestTypeOK'
<1> USE PartNat DEF IngestTypeOK, Data
<1>1. CASE PutReturn(w)
  BY <1>1 DEF PutReturn, NoPut, PutPc
<1>2. CASE put[w].pc # "idle" /\ \E pc \in PutPc : PutGoto(w, pc)
  BY <1>2 DEF PutGoto
<1>3. ASSUME NEW u \in Upload, NEW p \in Part, NEW c \in Content,
             put' = [put EXCEPT ![w] = [pc |-> "mkdir", u |-> u, p |-> p, body |-> c]]
      PROVE  IngestTypeOK'
  BY <1>3 DEF PutPc
<1> QED BY <1>1, <1>2, <1>3

LEMMA IngestNextTyped ==
  ASSUME RepoTypeOK, StorageTypeOK, IngestTypeOK, IngestNext
  PROVE  RepoTypeOK' /\ StorageTypeOK' /\ IngestTypeOK'
<1> USE RepoUnchanged, StorageUnchanged, PartNat
<1>1. ASSUME NEW u \in Upload, InitCreate(u) \/ InitParts(u) \/ InitPartsError(u)
      PROVE  RepoTypeOK' /\ StorageTypeOK' /\ IngestTypeOK'
  <2>1. RepoTypeOK'
    <3>1. CASE InitCreate(u)
      BY <3>1, UploadStatementsTyped, 0 \in Progress DEF InitCreate, Progress
    <3>2. CASE InitParts(u) \/ InitPartsError(u)
      BY <3>2 DEF InitParts, InitPartsError, CreateParts, RepoTypeOK
    <3> QED BY <1>1, <3>1, <3>2
  <2>2. IngestTypeOK'
    BY <1>1 DEF IngestTypeOK, ClientState, InitCreate, InitParts, InitPartsError
  <2> QED BY <1>1, <2>1, <2>2 DEF InitCreate, InitParts, InitPartsError
<1>2. ASSUME NEW w \in Writer, NEW u \in Upload, NEW p \in Part, NEW body \in Content,
             PutStart(w, u, p, body)
      PROVE  RepoTypeOK' /\ StorageTypeOK' /\ IngestTypeOK'
  BY <1>2, PutTyped DEF PutStart
<1>3. ASSUME NEW w \in Writer, put[w].pc # "idle",
             PutStep(w) \/ PutIoError(w) \/ PutDbError(w) \/ PutAbort(w)
      PROVE  RepoTypeOK' /\ StorageTypeOK' /\ IngestTypeOK'
  <2> DEFINE u == put[w].u
             p == put[w].p
             c == put[w].body
  <2>1. u \in Upload /\ p \in Part /\ c \in Content
    BY <1>3 DEF IngestTypeOK
  <2>2. /\ CreatePartsDir(u) => StorageTypeOK'
        /\ CreatePartFile(u, p, {w}) => StorageTypeOK'
        /\ WritePartFile(w, u, p, c) => StorageTypeOK'
        /\ BreakOffWrite(w, u, p) => StorageTypeOK'
        /\ AbandonWrite(w, u, p, c) => StorageTypeOK'
    BY <2>1, PartFileTyped
  <2>3. UpdatePartStatus(u, p, c) => RepoTypeOK'
    BY <2>1, PartStatementsTyped
  <2> HIDE DEF u, p, c
  <2>4. CASE PutMkdir(w)
    BY <1>3, <2>2, <2>4, PutTyped DEF PutMkdir, PutPc, u
  <2>5. CASE PutCreate(w)
    BY <1>3, <2>2, <2>5, PutTyped DEF PutCreate, PutPc, u, p
  <2>6. CASE PutWrite(w)
    BY <1>3, <2>2, <2>6, PutTyped DEF PutWrite, PutPc, u, p, c
  <2>7. CASE PutMark(w)
    BY <1>3, <2>3, <2>7, PutTyped DEF PutMark, u, p, c
  <2>8. CASE PutIoError(w)
    BY <1>3, <2>2, <2>8, PutTyped DEF PutIoError, u, p
  <2>9. CASE PutDbError(w)
    BY <1>3, <2>9, PutTyped DEF PutDbError
  <2>10. CASE PutAbort(w)
    <3>1. StorageTypeOK'
      BY <2>2, <2>10 DEF PutAbort, u, p, c
    <3>2. late' \in SUBSET (Upload \X Part \X {"mkdir", "create"})
      BY <2>1, <2>10 DEF PutAbort, IngestTypeOK, u, p
    <3>3. IngestTypeOK'
      BY <2>10, <3>2 DEF PutAbort, PutReturn, NoPut, PutPc, Data, IngestTypeOK
    <3> QED BY <2>10, <3>1, <3>3 DEF PutAbort
  <2> QED BY <1>3, <2>4, <2>5, <2>6, <2>7, <2>8, <2>9, <2>10 DEF PutStep
<1>4. ASSUME NEW u \in Upload, NEW p \in Part, LateStep(u, p)
      PROVE  RepoTypeOK' /\ StorageTypeOK' /\ IngestTypeOK'
  <2>1. CASE LateMkdir(u, p)
    <3>1. StorageTypeOK'
      BY <2>1 DEF LateMkdir, CreatePartsDir, StorageTypeOK
    <3> QED BY <2>1, <3>1 DEF LateMkdir, IngestTypeOK
  <2>2. CASE LateCreate(u, p)
    <3>1. CreatePartFile(u, p, {}) => StorageTypeOK'
      BY DEF CreatePartFile, StorageTypeOK, Data
    <3> QED BY <2>2, <3>1 DEF LateCreate, IngestTypeOK
  <2>3. ASSUME NEW body \in Content, WriteAbandoned(u, p, body), UNCHANGED <<ingestVars, repoVars>>
        PROVE  RepoTypeOK' /\ StorageTypeOK' /\ IngestTypeOK'
    <3>1. partFile' \in [Upload -> [Part -> Data \cup {NoFile}]]
      BY <2>3 DEF WriteAbandoned, StorageTypeOK, Data
    <3>2. partOpen' \in [Upload -> [Part -> SUBSET (Writer \cup Content)]]
      BY <2>3 DEF WriteAbandoned, StorageTypeOK
    <3>3. StorageTypeOK'
      BY <2>3, <3>1, <3>2 DEF WriteAbandoned, StorageTypeOK
    <3> QED BY <2>3, <3>3, IngestUnchanged
  <2> QED BY <1>4, <2>1, <2>2, <2>3 DEF LateStep, LateWrite
<1>5. ASSUME NEW w \in Writer, PutStep(w) \/ PutIoError(w) \/ PutDbError(w) \/ PutAbort(w)
      PROVE  put[w].pc # "idle"
  BY <1>5 DEF PutStep, PutMkdir, PutCreate, PutWrite, PutMark, PutIoError, PutDbError, PutAbort
<1> QED BY <1>1, <1>2, <1>3, <1>4, <1>5 DEF IngestNext

-----------------------------------------------------------------------------
\* Finalization.

LEMMA FinalizerUnchanged == FinalizerTypeOK /\ UNCHANGED finalizerVars => FinalizerTypeOK'
  BY DEF FinalizerTypeOK, CompleterTypeOK, TaskTypeOK, finalizerVars

\* `task' keeps its type when a task is spawned, goes on or ends.
LEMMA TaskTyped ==
  ASSUME TaskTypeOK, NEW t \in Task,
         \/ UNCHANGED task
         \/ TaskReturn(t)
         \/ \E u \in Upload : Spawn(t, u)
         \/ task[t].pc # "idle" /\ \E pc \in TaskPc \ {"append"} : TaskGoto(t, pc)
  PROVE  TaskTypeOK'
<1> USE PartNat DEF TaskTypeOK
<1>1. CASE UNCHANGED task
  BY <1>1
<1>2. CASE TaskReturn(t)
  BY <1>2 DEF TaskReturn, NoTask, TaskState, TaskPc, Running, Storing
<1>3. CASE \E u \in Upload : Spawn(t, u)
  BY <1>3 DEF Spawn, TaskState, TaskPc, Running, Storing
<1>4. CASE task[t].pc # "idle" /\ \E pc \in TaskPc \ {"append"} : TaskGoto(t, pc)
  BY <1>4 DEF TaskGoto, TaskState
<1> QED BY <1>1, <1>2, <1>3, <1>4

\* Completers go on or forget their request.
LEMMA CompleterTyped ==
  ASSUME CompleterTypeOK, NEW c \in Completer, completer[c].pc # "idle",
         \/ CompleterReturn(c)
         \/ completer' = [completer EXCEPT ![c].pc = "start"]
  PROVE  CompleterTypeOK'
  BY DEF CompleterTypeOK, CompleterReturn, NoRequest, CompleterPc

LEMMA CompleterNextTyped ==
  ASSUME RepoTypeOK, StorageTypeOK, FinalizerTypeOK, NEW c \in Completer,
         \/ \E u \in Upload : CompleteStart(c, u)
         \/ CompleterStep(c) \/ CompleteDbError(c)
  PROVE  RepoTypeOK' /\ StorageTypeOK' /\ FinalizerTypeOK'
<1> USE RepoUnchanged, StorageUnchanged DEF FinalizerTypeOK
<1>1. ASSUME NEW u \in Upload, CompleteStart(c, u)
      PROVE  RepoTypeOK' /\ StorageTypeOK' /\ FinalizerTypeOK'
  <2>1. CompleterTypeOK'
    BY <1>1 DEF CompleteStart, CompleterTypeOK, CompleterPc
  <2>2. TaskTypeOK'
    BY <1>1 DEF CompleteStart, TaskTypeOK
  <2> QED BY <1>1, <2>1, <2>2 DEF CompleteStart
<1>2. ASSUME CompleteRestart(c)
      PROVE  RepoTypeOK' /\ StorageTypeOK' /\ FinalizerTypeOK'
  <2>1. completer[c].u \in Upload
    BY <1>2 DEF CompleteRestart, CompleterTypeOK
  <2>2. RepoTypeOK'
    BY <1>2, <2>1, UploadStatementsTyped, 0 \in Progress DEF CompleteRestart, Progress
  <2>3. CompleterTypeOK'
    BY <1>2, CompleterTyped DEF CompleteRestart
  <2>4. TaskTypeOK'
    <3>1. ASSUME NEW t \in Task, Spawn(t, completer[c].u)
          PROVE  TaskTypeOK'
      BY <2>1, <3>1, TaskTyped
    <3>2. CASE UNCHANGED task
      BY <3>2 DEF TaskTypeOK
    <3> QED BY <1>2, <3>1, <3>2 DEF CompleteRestart
  <2>5. contested' \in [Upload -> BOOLEAN]
    BY <1>2, <2>1 DEF CompleteRestart
  <2> QED BY <1>2, <2>2, <2>3, <2>4, <2>5 DEF CompleteRestart
<1>3. ASSUME CompleteCount(c)
      PROVE  RepoTypeOK' /\ StorageTypeOK' /\ FinalizerTypeOK'
  <2>1. CompleterTypeOK'
    BY <1>3, CompleterTyped DEF CompleteCount
  <2>2. TaskTypeOK'
    BY <1>3 DEF CompleteCount, TaskTypeOK
  <2> QED BY <1>3, <2>1, <2>2 DEF CompleteCount
<1>4. ASSUME CompleteTryStart(c)
      PROVE  RepoTypeOK' /\ StorageTypeOK' /\ FinalizerTypeOK'
  <2>1. completer[c].u \in Upload
    BY <1>4 DEF CompleteTryStart, CompleterTypeOK
  <2>2. RepoTypeOK'
    BY <1>4, <2>1, UploadStatementsTyped, 0 \in Progress DEF CompleteTryStart, Progress
  <2>3. CompleterTypeOK'
    BY <1>4, CompleterTyped DEF CompleteTryStart
  <2>4. TaskTypeOK'
    <3>1. ASSUME NEW t \in Task, Spawn(t, completer[c].u)
          PROVE  TaskTypeOK'
      BY <2>1, <3>1, TaskTyped
    <3>2. CASE UNCHANGED task
      BY <3>2 DEF TaskTypeOK
    <3> QED BY <1>4, <3>1, <3>2 DEF CompleteTryStart
  <2> QED BY <1>4, <2>2, <2>3, <2>4 DEF CompleteTryStart
<1>5. ASSUME CompleteDbError(c)
      PROVE  RepoTypeOK' /\ StorageTypeOK' /\ FinalizerTypeOK'
  <2>1. CompleterTypeOK'
    BY <1>5, CompleterTyped DEF CompleteDbError
  <2>2. TaskTypeOK'
    BY <1>5 DEF CompleteDbError, TaskTypeOK
  <2> QED BY <1>5, <2>1, <2>2 DEF CompleteDbError
<1> QED BY <1>1, <1>2, <1>3, <1>4, <1>5 DEF CompleterStep

\* The append loop: at the first part, at the next one, or past the last.
LEMMA TaskAtPart ==
  ASSUME FinalizerTypeOK, NEW t \in Task, task[t].pc # "idle",
         NEW pc \in {"append", "close", "rename"}, NEW n \in 0 .. TotalParts,
         pc = "append" => n \in Part,
         task' = [task EXCEPT ![t] = [task[t] EXCEPT !.pc = pc, !.next = n]]
  PROVE  TaskTypeOK'
<1> DEFINE r == [task[t] EXCEPT !.pc = pc, !.next = n]
<1>1. pc \in TaskPc
  BY DEF TaskPc, Running, Storing
<1>2. task[t] \in TaskState /\ task[t].u \in Upload
  BY DEF FinalizerTypeOK, TaskTypeOK
<1>3. r \in TaskState /\ r.u \in Upload /\ r.pc = pc /\ r.next = n
  BY <1>1, <1>2 DEF TaskState
<1> HIDE DEF r
<1>4. \A s \in Task : task'[s] = IF s = t THEN r ELSE task[s]
  BY DEF FinalizerTypeOK, TaskTypeOK, r
<1>5. task' \in [Task -> TaskState]
  BY <1>3 DEF FinalizerTypeOK, TaskTypeOK, r
<1> QED BY <1>3, <1>4, <1>5 DEF FinalizerTypeOK, TaskTypeOK

LEMMA TaskNextTyped ==
  ASSUME RepoTypeOK, StorageTypeOK, FinalizerTypeOK, NEW t \in Task,
         TaskBegin(t) \/ TaskStep(t) \/ TaskFault(t) \/ Heartbeat(t)
  PROVE  RepoTypeOK' /\ StorageTypeOK' /\ FinalizerTypeOK'
<1> USE RepoUnchanged, StorageUnchanged, PartNat
<1> DEFINE u == task[t].u
           p == task[t].next
<1>1. task[t].pc # "idle" /\ u \in Upload
  BY DEF TaskBegin, TaskStep, TaskFault, Heartbeat, TaskCheck, TaskUnlink, TaskCreate, TaskAppend,
         TaskRename, TaskPurge, TaskMarkComplete, TaskMarkFailed, TaskNotify,
         TaskBeginDbError, TaskCheckDbError, TaskIoError, TaskMarkDbError,
         FinalizerTypeOK, TaskTypeOK, Storing
<1>2. RepoTypeOK'
  <2>1. /\ \A n \in Progress : UpdateFinalizingProgress(u, n) => RepoTypeOK'
        /\ MarkFinalizationComplete(u) => RepoTypeOK'
        /\ MarkFinalizationFailed(u) => RepoTypeOK'
    BY <1>1, UploadStatementsTyped, 0 \in Progress DEF Progress
  <2>2. {1, 10, 98} \subseteq Progress
    BY DEF Progress
  <2> HIDE DEF u
  <2>3. \/ \E n \in {1, 10, 98} : UpdateFinalizingProgress(u, n)
        \/ MarkFinalizationComplete(u) \/ MarkFinalizationFailed(u)
        \/ UNCHANGED repoVars
    BY DEF TaskBegin, TaskStep, TaskFault, Heartbeat, TaskCheck, TaskUnlink, TaskCreate,
           TaskAppend, TaskRename, TaskPurge, TaskMarkComplete, TaskMarkFailed, TaskNotify,
           TaskBeginDbError, TaskCheckDbError, TaskIoError, TaskMarkDbError, u
  <2> QED BY <2>1, <2>2, <2>3
<1>3. StorageTypeOK'
  <2>1. /\ RemoveStaleStaging(u) => StorageTypeOK'
        /\ CreateStaging(t, u) => StorageTypeOK'
        /\ CloseStaging(t, u) => StorageTypeOK'
        /\ staging[u] # NoFile /\ RenameStaging(t, u) => StorageTypeOK'
        /\ DeleteParts(u) \/ DeletePartsPartly(u) => StorageTypeOK'
    BY <1>1, AssemblyTyped, DeletionTyped
  <2>2. TaskAppend(t) => StorageTypeOK'
    <3>1. ASSUME TaskAppend(t), p \in Part, partFile[u][p] # NoFile, AppendPart(t, u, p)
          PROVE  StorageTypeOK'
      BY <1>1, <3>1, AppendTyped
    <3>2. TaskAppend(t) => p \in Part
      BY DEF TaskAppend, FinalizerTypeOK, TaskTypeOK
    <3> QED BY <2>1, <3>1, <3>2 DEF TaskAppend, Abandon
  <2> HIDE DEF u
  <2>3. \/ RemoveStaleStaging(u) \/ CreateStaging(t, u) \/ CloseStaging(t, u)
        \/ staging[u] # NoFile /\ RenameStaging(t, u)
        \/ DeleteParts(u) \/ DeletePartsPartly(u)
        \/ TaskAppend(t)
        \/ UNCHANGED storageVars
    BY DEF TaskBegin, TaskStep, TaskFault, Heartbeat, TaskCheck, TaskUnlink, TaskCreate,
           TaskRename, TaskPurge, TaskMarkComplete, TaskMarkFailed, TaskNotify, Abandon,
           TaskBeginDbError, TaskCheckDbError, TaskIoError, TaskMarkDbError, u
  <2> QED BY <2>1, <2>2, <2>3
<1>4. TaskTypeOK'
  <2>1. CASE TaskCreate(t)
    <3>1. task' = [task EXCEPT ![t] = [task[t] EXCEPT !.pc = "append", !.next = 0]]
      BY <2>1 DEF TaskCreate
    <3>2. 0 \in Part /\ 0 \in 0 .. TotalParts
      BY PartNat
    <3> QED BY <1>1, <3>1, <3>2, TaskAtPart
  <2>2. CASE TaskAppend(t)
    <3>1. p \in Part /\ p + 1 \in 0 .. TotalParts /\ (p + 1 # TotalParts => p + 1 \in Part)
      BY <2>2, PartsAssumption DEF TaskAppend, FinalizerTypeOK, TaskTypeOK, Part
    <3>2. CASE Abandon(t)
      BY <1>1, <3>2, TaskTyped DEF Abandon, FinalizerTypeOK, TaskPc, Running
    <3>3. CASE task' = [task EXCEPT ![t] =
                        [@ EXCEPT !.pc = IF p + 1 = TotalParts THEN "rename" ELSE "append",
                                  !.next = p + 1]]
      <4>1. CASE p + 1 = TotalParts
        <5>1. task' = [task EXCEPT ![t] = [task[t] EXCEPT !.pc = "rename", !.next = p + 1]]
          BY <3>3, <4>1
        <5>2. "rename" \in {"append", "rename"} /\ "rename" # "append"
          OBVIOUS
        <5> QED BY <1>1, <3>1, <5>1, <5>2, TaskAtPart
      <4>2. CASE p + 1 # TotalParts
        <5>1. task' = [task EXCEPT ![t] = [task[t] EXCEPT !.pc = "append", !.next = p + 1]]
          BY <3>3, <4>2
        <5> QED BY <1>1, <3>1, <4>2, <5>1, TaskAtPart
      <4> QED BY <4>1, <4>2
    <3> QED BY <2>2, <3>2, <3>3 DEF TaskAppend
  <2>3. CASE ~TaskCreate(t) /\ ~TaskAppend(t)
    <3>1. \/ UNCHANGED task
          \/ TaskReturn(t)
          \/ \E pc \in {"check", "mark_fail", "enter", "create", "purge", "mark_ok", "notify"} :
                TaskGoto(t, pc)
      BY <2>3 DEF TaskBegin, TaskStep, TaskFault, Heartbeat, TaskCheck, TaskUnlink,
           TaskRename, TaskPurge, TaskMarkComplete, TaskMarkFailed, TaskNotify, Abandon,
           TaskBeginDbError, TaskCheckDbError, TaskIoError, TaskMarkDbError, finalizerVars
    <3> QED BY <1>1, <3>1, TaskTyped DEF FinalizerTypeOK, TaskPc, Running, Storing
  <2> QED BY <2>1, <2>2, <2>3
<1>5. lateBeat' \in SUBSET Upload
  <2>1. UNCHANGED lateBeat \/ lateBeat' = lateBeat \cup {u}
    BY DEF TaskBegin, TaskStep, TaskFault, Heartbeat, TaskCheck, TaskUnlink, TaskCreate,
           TaskAppend, TaskRename, TaskPurge, TaskMarkComplete, TaskMarkFailed, TaskNotify,
           TaskBeginDbError, TaskCheckDbError, TaskIoError, TaskMarkDbError, Abandon,
           StopHeartbeat, finalizerVars
  <2> QED BY <1>1, <2>1 DEF FinalizerTypeOK
<1>6. notified' \in [Upload -> 0 .. 2] /\ UNCHANGED <<completer, contested>>
  <2>1. CASE TaskNotify(t)
    <3>1. notified[u] \in 0 .. 2
      BY <1>1 DEF FinalizerTypeOK
    <3>2. (IF notified[u] < 2 THEN notified[u] + 1 ELSE 2) \in 0 .. 2
      BY <3>1
    <3> QED BY <1>1, <2>1, <3>2 DEF TaskNotify, FinalizerTypeOK
  <2>2. CASE ~TaskNotify(t)
    BY <2>2 DEF TaskBegin, TaskStep, TaskFault, Heartbeat, TaskCheck, TaskUnlink, TaskCreate,
           TaskAppend, TaskRename, TaskPurge, TaskMarkComplete, TaskMarkFailed,
           TaskBeginDbError, TaskCheckDbError, TaskIoError, TaskMarkDbError,
           finalizerVars, FinalizerTypeOK
  <2> QED BY <2>1, <2>2
<1> QED BY <1>2, <1>3, <1>4, <1>5, <1>6 DEF FinalizerTypeOK, CompleterTypeOK

LEMMA FinalizerNextTyped ==
  ASSUME RepoTypeOK, StorageTypeOK, FinalizerTypeOK, FinalizerNext
  PROVE  RepoTypeOK' /\ StorageTypeOK' /\ FinalizerTypeOK'
<1>1. ASSUME NEW u \in Upload, LateBeat(u)
      PROVE  RepoTypeOK' /\ StorageTypeOK' /\ FinalizerTypeOK'
  <2>1. RepoTypeOK'
    BY <1>1, UploadStatementsTyped, 98 \in Progress DEF LateBeat, Progress
  <2>2. FinalizerTypeOK'
    BY <1>1 DEF LateBeat, FinalizerTypeOK, CompleterTypeOK, TaskTypeOK
  <2> QED BY <1>1, <2>1, <2>2, StorageUnchanged DEF LateBeat
<1>2. ASSUME NEW u \in Upload, GoStale(u)
      PROVE  RepoTypeOK' /\ StorageTypeOK' /\ FinalizerTypeOK'
  <2>1. RepoTypeOK'
    BY <1>2, RowTyped, 0 \in Progress DEF GoStale, RepoTypeOK, Progress
  <2> QED BY <1>2, <2>1, StorageUnchanged, FinalizerUnchanged DEF GoStale
<1> QED BY <1>1, <1>2, CompleterNextTyped, TaskNextTyped DEF FinalizerNext

-----------------------------------------------------------------------------
\* Removal.

LEMMA RemovalUnchanged == RemovalTypeOK /\ UNCHANGED removalVars => RemovalTypeOK'
  BY DEF RemovalTypeOK, removalVars

LEMMA CancelNextTyped ==
  ASSUME RepoTypeOK, StorageTypeOK, RemovalTypeOK, NEW d \in Canceller,
         \/ \E u \in Upload : CancelStart(d, u)
         \/ CancelStep(d) \/ CancelDbError(d) \/ CancelAbort(d)
  PROVE  RepoTypeOK' /\ StorageTypeOK' /\ RemovalTypeOK'
<1> USE RepoUnchanged, StorageUnchanged
<1>1. ASSUME NEW u \in Upload, CancelStart(d, u)
      PROVE  RepoTypeOK' /\ StorageTypeOK' /\ RemovalTypeOK'
  BY <1>1 DEF CancelStart, RemovalTypeOK, CancelPc
<1>2. ASSUME CancelStep(d) \/ CancelDbError(d) \/ CancelAbort(d)
      PROVE  RepoTypeOK' /\ StorageTypeOK' /\ RemovalTypeOK'
  <2> DEFINE u == canceller[d].u
  <2> USE <1>2 DEF CancelStep, CancelPurge, CancelUnlink, CancelRows, CancelRow,
                   CancelDbError, CancelAbort
  <2>1. canceller[d].pc # "idle" /\ u \in Upload
    BY DEF RemovalTypeOK
  <2>2. RepoTypeOK'
    <3>1. DeletePartRows(u) \/ DeleteUploadRow(u) => RepoTypeOK'
      BY <2>1, UploadStatementsTyped, 0 \in Progress
         DEF DeletePartRows, RepoTypeOK, Progress
    <3> QED BY <3>1
  <2>3. StorageTypeOK'
    BY <2>1, DeletionTyped
  <2>4. RemovalTypeOK'
    BY <2>1 DEF RemovalTypeOK, CancelPc, CancelGoto, CancelReturn, NoCancel
  <2> QED BY <2>2, <2>3, <2>4
<1> QED BY <1>1, <1>2

LEMMA CleanNextTyped ==
  ASSUME RepoTypeOK, StorageTypeOK, RemovalTypeOK, CleanStep \/ CleanDbError
  PROVE  RepoTypeOK' /\ StorageTypeOK' /\ RemovalTypeOK'
<1> USE RepoUnchanged, StorageUnchanged
<1>1. CASE CleanList
  BY <1>1 DEF CleanList, RemovalTypeOK, CleanerPc, ExpiredPendingUploads
<1>2. CASE CleanPurge
  <2>1. PICK u \in cleaner.todo :
            /\ DeleteParts(u) \/ DeletePartsPartly(u)
            /\ cleaner' = [pc |-> "rows", u |-> u, todo |-> cleaner.todo \ {u}]
    BY <1>2 DEF CleanPurge
  <2>2. u \in Upload
    BY DEF RemovalTypeOK
  <2>3. StorageTypeOK'
    BY <2>1, <2>2, DeletionTyped
  <2>4. RemovalTypeOK'
    BY <1>2, <2>1, <2>2 DEF CleanPurge, RemovalTypeOK, CleanerPc
  <2> QED BY <1>2, <2>3, <2>4 DEF CleanPurge
<1>3. CASE CleanRows
  <2>1. RepoTypeOK'
    BY <1>3 DEF CleanRows, DeletePartRows, RepoTypeOK, RemovalTypeOK
  <2>2. RemovalTypeOK'
    BY <1>3 DEF CleanRows, RemovalTypeOK, CleanerPc
  <2> QED BY <1>3, <2>1, <2>2 DEF CleanRows
<1>4. CASE CleanRow \/ CleanDbError
  <2>1. cleaner.u \in Upload
    BY <1>4 DEF CleanRow, CleanDbError, RemovalTypeOK
  <2>2. RepoTypeOK'
    BY <1>4, <2>1, UploadStatementsTyped, 0 \in Progress DEF CleanRow, CleanDbError, Progress
  <2>3. RemovalTypeOK'
    <3>1. CleanNext /\ UNCHANGED <<canceller, doomed>>
      BY <1>4 DEF CleanRow, CleanDbError
    <3>2. CASE cleaner' = Sleeping
      BY <3>1, <3>2 DEF Sleeping, RemovalTypeOK, CleanerPc
    <3>3. CASE cleaner' = [cleaner EXCEPT !.pc = "purge", !.u = None]
      BY <3>1, <3>3 DEF RemovalTypeOK, CleanerPc
    <3> QED BY <3>1, <3>2, <3>3 DEF CleanNext
  <2> QED BY <1>4, <2>2, <2>3 DEF CleanRow, CleanDbError
<1> QED BY <1>1, <1>2, <1>3, <1>4 DEF CleanStep

-----------------------------------------------------------------------------
\* The server.

LEMMA RemovalNextTyped ==
  ASSUME RepoTypeOK, StorageTypeOK, RemovalTypeOK, RemovalNext
  PROVE  RepoTypeOK' /\ StorageTypeOK' /\ RemovalTypeOK'
  BY CancelNextTyped, CleanNextTyped DEF RemovalNext

LEMMA CrashRestartTyped == TypeOK /\ CrashRestart => TypeOK'
<1> SUFFICES ASSUME TypeOK, CrashRestart PROVE TypeOK'
  OBVIOUS
<1>1. RepoTypeOK'
  <2>1. PICK again \in SUBSET FinalizingUploads :
          uploads' = [u \in Upload |-> IF u \in again
                                       THEN [uploads[u] EXCEPT !.progress = 0, !.stale = FALSE]
                                       ELSE uploads[u]]
    BY DEF CrashRestart
  <2>2. uploads \in [Upload -> UploadRow]
    BY DEF TypeOK, RepoTypeOK
  <2>3. \A u \in Upload : [uploads[u] EXCEPT !.progress = 0, !.stale = FALSE] \in UploadRow
    BY <2>2, RowTyped, 0 \in Progress DEF Progress
  <2>4. uploads' \in [Upload -> UploadRow]
    BY <2>1, <2>2, <2>3
  <2>5. UNCHANGED parts /\ RepoTypeOK
    BY DEF CrashRestart, TypeOK
  <2> QED BY <2>4, <2>5 DEF RepoTypeOK
<1>2. StorageTypeOK'
  <2>1. PICK gone \in [Upload -> SUBSET Part] :
          partFile' = [u \in Upload |->
                         [p \in Part |-> IF p \in gone[u] THEN NoFile ELSE partFile[u][p]]]
    BY DEF CrashRestart
  <2>2. partFile' \in [Upload -> [Part -> Data \cup {NoFile}]]
    BY <2>1 DEF StorageTypeOK, TypeOK
  <2> QED BY <2>2 DEF StorageTypeOK, NobodyOpen, CrashRestart, TypeOK
<1>3. IngestTypeOK'
  BY PartNat DEF IngestTypeOK, ClientState, NoPut, PutPc, Data, CrashRestart, TypeOK
<1>4. TaskTypeOK'
  <2>1. PICK again \in SUBSET FinalizingUploads : \E owner \in [again -> Task] :
          task' = [t \in Task |->
                     IF \E u \in again : owner[u] = t
                     THEN [pc |-> "queued", u |-> CHOOSE u \in again : owner[u] = t, next |-> 0]
                     ELSE NoTask]
    BY DEF CrashRestart
  <2>2. PICK owner \in [again -> Task] :
          task' = [t \in Task |->
                     IF \E u \in again : owner[u] = t
                     THEN [pc |-> "queued", u |-> CHOOSE u \in again : owner[u] = t, next |-> 0]
                     ELSE NoTask]
    BY <2>1
  <2>3. again \subseteq Upload
    BY DEF FinalizingUploads
  <2>4. \A u \in Upload : [pc |-> "queued", u |-> u, next |-> 0] \in TaskState
    BY PartNat DEF TaskState, TaskPc, Running, Storing
  <2>5. NoTask \in TaskState
    BY PartNat DEF TaskState, NoTask, TaskPc
  <2>6. ASSUME NEW t \in Task
        PROVE  \/ task'[t] = NoTask
               \/ \E u \in Upload : task'[t] = [pc |-> "queued", u |-> u, next |-> 0]
    <3>1. CASE \E u \in again : owner[u] = t
      <4>1. (CHOOSE u \in again : owner[u] = t) \in Upload
        BY <3>1, <2>3
      <4>2. task'[t] = [pc |-> "queued", u |-> CHOOSE u \in again : owner[u] = t, next |-> 0]
        BY <3>1, <2>2
      <4> QED BY <4>1, <4>2
    <3>2. CASE ~ \E u \in again : owner[u] = t
      BY <3>2, <2>2
    <3> QED BY <3>1, <3>2
  <2>7. task' \in [Task -> TaskState]
    <3>1. task' = [t \in Task |-> task'[t]]
      BY <2>2
    <3>2. \A t \in Task : task'[t] \in TaskState
      BY <2>4, <2>5, <2>6
    <3> QED BY <3>1, <3>2
  <2>8. \A t \in Task : /\ task'[t].pc # "idle" => task'[t].u \in Upload
                        /\ task'[t].pc # "append"
    <3> TAKE t \in Task
    <3>1. CASE task'[t] = NoTask
      BY <3>1 DEF NoTask
    <3>2. CASE \E u \in Upload : task'[t] = [pc |-> "queued", u |-> u, next |-> 0]
      BY <3>2
    <3> QED BY <2>6, <3>1, <3>2
  <2> QED BY <2>7, <2>8 DEF TaskTypeOK
<1>5. CompleterTypeOK'
  BY DEF CompleterTypeOK, NoRequest, CompleterPc, CrashRestart
<1>6. FinalizerTypeOK'
  BY <1>4, <1>5 DEF FinalizerTypeOK, CrashRestart, TypeOK
<1>7. RemovalTypeOK'
  <2>1. /\ canceller' = [d \in Canceller |-> NoCancel]
        /\ cleaner' = Sleeping
        /\ doomed' \in SUBSET Upload
    BY DEF RemovalTypeOK, CrashRestart, TypeOK
  <2>2. NoCancel \in [pc : CancelPc, u : Upload \cup {None}]
    BY DEF NoCancel, CancelPc
  <2>3. Sleeping \in [pc : CleanerPc, u : Upload \cup {None}, todo : SUBSET Upload]
    BY DEF Sleeping, CleanerPc
  <2>4. NoCancel.pc = "idle" /\ Sleeping.pc = "idle"
    BY DEF NoCancel, Sleeping
  <2> QED BY <2>1, <2>2, <2>3, <2>4 DEF RemovalTypeOK
<1>8. crashes' \in 0 .. MaxCrashes
  <2>1. crashes \in 0 .. MaxCrashes /\ crashes < MaxCrashes /\ crashes' = crashes + 1
    BY DEF CrashRestart, TypeOK
  <2> QED BY <2>1, MaxCrashesAssumption
<1> QED BY <1>1, <1>2, <1>3, <1>6, <1>7, <1>8 DEF TypeOK

LEMMA InitTyped == Init => TypeOK
<1> SUFFICES ASSUME Init PROVE TypeOK
  OBVIOUS
<1> USE DEF Init
<1>1. NoRow \in UploadRow
  BY DEF NoRow, UploadRow, Status, InRow, Progress
<1>2. RepoTypeOK
  BY <1>1 DEF RepoInit, RepoTypeOK
<1>3. StorageTypeOK
  BY DEF StorageInit, StorageTypeOK, NoPartFiles, NobodyOpen
<1>4. IngestTypeOK
  BY PartNat DEF IngestInit, IngestTypeOK, ClientState, NoPut, PutPc, Data
<1>5. TaskTypeOK
  BY PartNat DEF FinalizerInit, TaskTypeOK, TaskState, NoTask, TaskPc, Running, Storing
<1>6. FinalizerTypeOK
  BY <1>5 DEF FinalizerInit, FinalizerTypeOK, CompleterTypeOK, NoRequest, CompleterPc
<1>7. RemovalTypeOK
  BY DEF RemovalInit, RemovalTypeOK, NoCancel, Sleeping, CancelPc, CleanerPc
<1> QED BY <1>2, <1>3, <1>4, <1>6, <1>7, MaxCrashesAssumption DEF TypeOK

\* One step for each way the composed server moves.
LEMMA NextTyped == TypeOK /\ [Next]_vars => TypeOK'
<1> SUFFICES ASSUME TypeOK, [Next]_vars PROVE TypeOK'
  OBVIOUS
<1> USE RepoUnchanged, StorageUnchanged, IngestUnchanged, FinalizerUnchanged, RemovalUnchanged
<1>1. CASE IngestNext /\ UNCHANGED <<finalizerVars, removalVars, crashes>>
  BY <1>1, IngestNextTyped DEF TypeOK
<1>2. CASE FinalizerNext /\ UNCHANGED <<ingestVars, removalVars, crashes>>
  BY <1>2, FinalizerNextTyped DEF TypeOK
<1>3. CASE RemovalNext /\ UNCHANGED <<ingestVars, finalizerVars, crashes>>
  BY <1>3, RemovalNextTyped DEF TypeOK
<1>4. ASSUME NEW u \in Upload, Expire(u)
      PROVE  TypeOK'
  <2>1. uploads \in [Upload -> UploadRow]
    BY DEF TypeOK, RepoTypeOK
  <2>2. \A l \in {"live", "leeway", "expired"} : [uploads[u] EXCEPT !.life = l] \in UploadRow
    BY <2>1 DEF UploadRow
  <2>3. uploads' \in [Upload -> UploadRow]
    <3>1. \E l \in {"live", "leeway", "expired"} :
             uploads' = [uploads EXCEPT ![u] = [@ EXCEPT !.life = l]]
      BY <1>4 DEF Expire
    <3> QED BY <2>1, <2>2, <3>1
  <2>4. RepoTypeOK'
    BY <1>4, <2>3 DEF Expire, TypeOK, RepoTypeOK
  <2> QED BY <1>4, <2>4 DEF Expire, TypeOK
<1>5. CASE CrashRestart
  BY <1>5, CrashRestartTyped
<1>6. CASE UNCHANGED vars
  BY <1>6 DEF vars, TypeOK
<1> QED BY <1>1, <1>2, <1>3, <1>4, <1>5, <1>6 DEF Next

\* Every variable keeps its type in every behaviour of the server, for any
\* number of uploads, parts, requests, tasks and permits and under all faults;
\* in particular a file that is held open under a name is there.
THEOREM TypeCorrect == Spec => []TypeOK
<1>1. Init => TypeOK
  BY InitTyped
<1>2. TypeOK /\ [Next]_vars => TypeOK'
  BY NextTyped
<1> QED BY <1>1, <1>2, PTL DEF Spec
=============================================================================
