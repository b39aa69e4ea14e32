------------------------------ MODULE S3Proofs ------------------------------
(***************************************************************************)
(* The server with the S3 backend, for every instance.  A step of S3Server *)
(* is a step of UploadServer, or one of five that replace the assembly, or *)
(* an unlink that fails; what is proved of UploadServer is reused for the  *)
(* first, and the rest are quiet for all but the files.  Then S3FileInv    *)
(* says what the parts, the temp file and the object of an upload hold.    *)
(***************************************************************************)
EXTENDS S3Properties, FileProofs

S3OwnStep(t) == S3Create(t) \/ S3Put(t) \/ S3PutFail(t) \/ S3PutRefused(t) \/ S3RemoveTemp(t)

\* Whoever is about to remove the temp file has put the object.
SentInv == sent \in SUBSET Task /\ \A t \in sent : task[t].pc = "purge"

S3Inv == ServerInv /\ SentInv

LEMMA S3Steps ==
  ASSUME [S3Next]_s3Vars
  PROVE  \/ [Next]_vars
         \/ \E t \in Task : S3OwnStep(t)
         \/ \E d \in Canceller : S3UnlinkFail(d)
<1>1. \A t \in Task : S3Append(t) \/ S3Purge(t) \/ S3IoError(t) =>
          FinalizerNext /\ UNCHANGED <<ingestVars, removalVars, crashes>>
  BY DEF S3Append, S3Purge, S3IoError, FinalizerNext, TaskStep, TaskFault
<1> QED BY <1>1 DEF S3Next, s3Vars, S3Request, RequestNext, FinalizerOutside, S3Removal, Next,
                    S3TaskStep, S3OwnStep

\* The steps that keep `sent' do not move a task that is in it.
LEMMA SentNext == TypeOK /\ SentInv /\ [S3Next]_s3Vars => SentInv'
<1> SUFFICES ASSUME TypeOK, SentInv, [S3Next]_s3Vars PROVE SentInv'
  OBVIOUS
<1>a. TaskTypeOK /\ \A t \in sent : task[t].pc = "purge" /\ task[t].pc \in Storing
  BY DEF TypeOK, FinalizerTypeOK, SentInv, Storing
<1>1. CASE UNCHANGED sent /\ \A t \in sent : task'[t] = task[t]
  BY <1>1 DEF SentInv
<1>2. ASSUME NEW t \in Task, S3Append(t) \/ S3Purge(t) \/ S3IoError(t) PROVE SentInv'
  <2>1. FileStep(t) /\ t \notin sent /\ UNCHANGED sent
    BY <1>2, <1>a DEF S3Append, S3Purge, S3IoError, FileStep, TaskAppend
  <2>2. \A s \in sent : task'[s] = task[s]
    BY <1>a, <2>1, FileStepMoves DEF SentInv
  <2> QED BY <1>1, <2>1, <2>2
<1>3. ASSUME NEW t \in Task, S3Create(t) \/ S3Put(t) \/ S3PutFail(t) \/ S3PutRefused(t)
      PROVE  SentInv'
  <2>1. t \notin sent
    BY <1>3, <1>a DEF S3Create, S3Put, S3PutFail, S3PutRefused
  <2>2. CASE S3Create(t)
    BY <1>1, <1>a, <2>1, <2>2 DEF S3Create, SentInv, TaskTypeOK
  <2>3. CASE (S3Put(t) /\ Abandon(t) /\ UNCHANGED sent) \/ S3PutFail(t) \/ S3PutRefused(t)
    <3>1. TaskGoto(t, "mark_fail") /\ UNCHANGED sent
      BY <2>3 DEF S3PutFail, S3PutRefused, Abandon
    <3> QED BY <1>1, <1>a, <2>1, <3>1, TaskMoves DEF SentInv
  <2>4. CASE S3Put(t) /\ TaskGoto(t, "purge") /\ sent' = sent \cup {t}
    BY <1>a, <2>4, TaskMoves DEF SentInv
  <2> QED BY <1>3, <2>2, <2>3, <2>4 DEF S3Put
<1>4. ASSUME NEW t \in Task, S3RemoveTemp(t) PROVE SentInv'
  BY <1>4 DEF S3RemoveTemp, SentInv
<1>5. CASE CrashRestart /\ sent' = {}
  BY <1>5 DEF SentInv
<1>6. CASE FinalizerOutside(Storing) /\ UNCHANGED sent
  BY <1>1, <1>6, <1>a DEF FinalizerOutside, SentInv
<1>7. CASE S3Request \/ S3Removal \/ (\E d \in Canceller : S3UnlinkFail(d)) \/ UNCHANGED s3Vars
  BY <1>1, <1>7 DEF S3Request, RequestNext, Expire, S3Removal, S3UnlinkFail, finalizerVars,
                    s3Vars, vars, SentInv
<1> QED BY <1>2, <1>3, <1>4, <1>5, <1>6, <1>7 DEF S3Next, S3TaskStep

-----------------------------------------------------------------------------
\* The five steps that replace the assembly.

LEMMA S3TaskQuiet ==
  ASSUME TypeOK, SentInv, NEW t \in Task, S3OwnStep(t)
  PROVE  /\ QuietTask(t)
         /\ task[t].pc \in Storing /\ task[t].u \in Upload
         /\ UNCHANGED <<completer, contested, notified, repoVars, ingestVars, removalVars, crashes>>
<1>a. TaskTypeOK
  BY DEF TypeOK, FinalizerTypeOK
<1>1. UNCHANGED <<completer, contested, notified, repoVars, ingestVars, removalVars, crashes>>
  BY DEF S3OwnStep, S3Create, S3Put, S3PutFail, S3PutRefused, S3RemoveTemp, S3Frame
<1>2. task[t].pc \in {"enter", "rename", "purge"}
  BY DEF S3OwnStep, S3Create, S3Put, S3PutFail, S3PutRefused, S3RemoveTemp, SentInv
<1>3. /\ \A s \in Task \ {t} : task'[s] = task[s]
      /\ task'[t].u = task[t].u /\ task'[t].pc \in {"append", "mark_fail", "purge"}
  <2>1. CASE S3Create(t)
    BY <1>a, <2>1 DEF S3Create, TaskTypeOK, TaskState
  <2>2. CASE S3Put(t) \/ S3PutFail(t) \/ S3PutRefused(t)
    BY <1>a, <2>2, TaskMoves DEF S3Put, S3PutFail, S3PutRefused, Abandon
  <2>3. CASE S3RemoveTemp(t)
    BY <2>3 DEF S3RemoveTemp, SentInv
  <2> QED BY <2>1, <2>2, <2>3 DEF S3OwnStep
<1>4. SameStatus /\ FinalizersFrame
  BY <1>1 DEF SameStatus, FinalizersFrame, repoVars, ingestVars
<1>5. QuietTask(t)
  BY <1>1, <1>2, <1>3, <1>4 DEF QuietTask, Working, Running, Storing
<1> QED BY <1>a, <1>1, <1>2, <1>5 DEF Storing, TaskTypeOK

\* What the bucket gets is a file's worth of data, whoever writes meanwhile.
LEMMA PutObjectTyped ==
  ASSUME StorageTypeOK, NEW u \in Upload, NEW t \in Task, staging[u] # NoFile, PutObject(t, u)
  PROVE  StorageTypeOK'
<1>1. PICK object \in ObjectSent(t, u) : finalFile' = [finalFile EXCEPT ![u] = object]
  BY DEF PutObject
<1>2. object \in [Part -> Data]
  BY <1>1 DEF ObjectSent, StorageTypeOK
<1>3. object # NoFile
  BY <1>2, ValuesAssumption
<1>4. /\ stagingOpen' = [stagingOpen EXCEPT ![u] = @ \ {t}]
      /\ UNCHANGED <<partsDir, partFile, staging, partOpen, finalOpen>>
  BY DEF PutObject
<1>5. finalFile' \in [Upload -> [Part -> Data] \cup {NoFile}]
  BY <1>1, <1>2 DEF StorageTypeOK
<1>6. stagingOpen' \in [Upload -> SUBSET Task]
  BY <1>4 DEF StorageTypeOK
<1>7. \A v \in Upload : /\ stagingOpen'[v] # {} => staging'[v] # NoFile
                        /\ finalOpen'[v] # {} => finalFile'[v] # NoFile
  BY <1>1, <1>3, <1>4 DEF StorageTypeOK
<1> QED BY <1>4, <1>5, <1>6, <1>7 DEF StorageTypeOK

LEMMA S3OwnTyped ==
  ASSUME TypeOK, SentInv, NEW t \in Task, S3OwnStep(t)
  PROVE  TypeOK'
<1>a. RepoTypeOK /\ StorageTypeOK /\ IngestTypeOK /\ FinalizerTypeOK /\ RemovalTypeOK /\ TaskTypeOK
  BY DEF TypeOK, FinalizerTypeOK
<1>b. /\ task[t].pc \in Storing /\ task[t].u \in Upload
      /\ UNCHANGED <<completer, contested, notified, repoVars, ingestVars, removalVars, crashes>>
  BY S3TaskQuiet
<1>1. RepoTypeOK' /\ IngestTypeOK' /\ RemovalTypeOK' /\ crashes' \in 0 .. MaxCrashes
  BY <1>a, <1>b, RepoUnchanged, IngestUnchanged, RemovalUnchanged DEF TypeOK
<1>2. StorageTypeOK'
  BY <1>a, <1>b, AssemblyTyped, PutObjectTyped, StorageUnchanged
     DEF S3OwnStep, S3Create, S3Put, S3PutFail, S3PutRefused, S3RemoveTemp, Abandon
<1>3. TaskTypeOK'
  <2>1. CASE S3Create(t)
    <3>1. task' = [task EXCEPT ![t] = [task[t] EXCEPT !.pc = "append", !.next = 0]]
      BY <2>1 DEF S3Create
    <3>2. task[t].pc # "idle" /\ 0 \in 0 .. TotalParts
      BY <1>b, PartNat DEF Storing
    <3> QED BY <1>a, <3>1, <3>2, PartNat, TaskAtPart
  <2>2. CASE UNCHANGED task \/ \E pc \in {"purge", "mark_fail"} : TaskGoto(t, pc)
    <3>1. task[t].pc # "idle" /\ {"purge", "mark_fail"} \subseteq TaskPc \ {"append"}
      BY <1>b DEF Storing, TaskPc, Running
    <3> QED BY <1>a, <2>2, <3>1, TaskTyped
  <2> QED BY <2>1, <2>2 DEF S3OwnStep, S3Put, S3PutFail, S3PutRefused, S3RemoveTemp, Abandon
<1>4. lateBeat' \in SUBSET Upload
  BY <1>a, <1>b DEF S3OwnStep, S3Create, S3Put, S3PutFail, S3PutRefused, S3RemoveTemp, Abandon,
                    StopHeartbeat, FinalizerTypeOK
<1>5. FinalizerTypeOK'
  BY <1>a, <1>b, <1>3, <1>4 DEF FinalizerTypeOK, CompleterTypeOK
<1> QED BY <1>1, <1>2, <1>5 DEF TypeOK

LEMMA S3OwnServer ==
  ASSUME ServerInv, SentInv, NEW t \in Task, S3OwnStep(t)
  PROVE  ServerInv' /\ AbstractStep
  BY S3OwnTyped, S3TaskQuiet, TaskGoesOn DEF ServerInv

LEMMA S3UnlinkServer ==
  ASSUME ServerInv, NEW d \in Canceller, S3UnlinkFail(d)
  PROVE  ServerInv' /\ AbstractStep
  BY CancelGoesOn DEF S3UnlinkFail

LEMMA S3InvNext == S3Inv /\ [S3Next]_s3Vars => S3Inv'
  BY S3Steps, SentNext, ServerInvNext, S3OwnServer, S3UnlinkServer DEF S3Inv, ServerInv

LEMMA S3Invariant == S3Spec => []S3Inv
<1>1. S3Init => S3Inv
  BY InitTyped, StartInvInit, ServerInit DEF S3Init, S3Inv, ServerInv, SentInv
<1> QED BY <1>1, S3InvNext, PTL DEF S3Spec

\* The variables of the server with the S3 backend keep their types.
THEOREM S3TypeCorrect == S3Spec => []S3TypeOK
<1>1. S3Inv => S3TypeOK
  BY DEF S3Inv, ServerInv, SentInv, S3TypeOK
<1> QED BY <1>1, S3Invariant, PTL

\* What a client sees of an upload does not depend on the backend: the server
\* with the S3 one implements UploadLifecycle too.
THEOREM S3ImplementsLifecycle == S3Spec => ImplementsLifecycle
<1>1. S3Init => Lifecycle!Init
  BY InitImplements DEF S3Init
<1>2. S3Inv /\ [S3Next]_s3Vars => [Lifecycle!Next]_(Lifecycle!lifecycleVars)
  BY S3Steps, StepImplements, S3OwnServer, S3UnlinkServer DEF S3Inv, AbstractStep
<1> QED BY <1>1, <1>2, S3Invariant, PTL DEF S3Spec, ImplementsLifecycle, Lifecycle!Spec

-----------------------------------------------------------------------------
\* What the files and the object of an upload hold.

\* The temp file has the parts that were appended, and it is put whole before
\* the part files go.
S3TaskIntact(t, u) == /\ Copied(t, u)
                      /\ task[t].pc \in {"purge", "mark_ok"} => finalFile[u] = parts[u]

S3Intact(u) ==
    /\ PutsIntact(u) /\ PartsIntact(u) /\ OpenIntact(u)
    /\ \A t \in Task : Busy(t, u) => S3TaskIntact(t, u)
    /\ finalFile[u] # NoFile => AllUploaded(u) /\ finalFile[u] = parts[u]
    /\ uploads[u].status = "complete" => finalFile[u] = parts[u]

S3FileInv == \A u \in Upload : Undisturbed(u) => S3Intact(u)

LEMMA S3FileInvImplies == S3FileInv => NoDataLoss /\ ObjectWhole /\ CompleteInBucket
  BY DEF S3FileInv, Undisturbed, S3Intact, PartsIntact, AllUploaded, NoDataLoss, ObjectWhole,
         CompleteInBucket

LEMMA S3FileInvInit == S3Init => S3FileInv
  BY ValuesAssumption
     DEF S3Init, Init, RepoInit, StorageInit, IngestInit, FinalizerInit, NoRow, NoPut, NoTask,
         S3FileInv, S3Intact, PutsIntact, PartsIntact, OpenIntact, Uploaded, Sending, Busy

LEMMA S3IntactFrame ==
  ASSUME NEW u \in Upload, S3Intact(u), Untouched(u),
         uploads'[u].status = "complete" =>
            uploads[u].status = "complete" \/ finalFile[u] = parts[u]
  PROVE  S3Intact(u)'
<1>1. PutsIntact(u)' /\ PartsIntact(u)' /\ OpenIntact(u)'
  BY PutsFrame, PartsFrame, OpenFrame DEF S3Intact
<1>2. ASSUME NEW t \in Task, Busy(t, u)' PROVE S3TaskIntact(t, u)'
  <2>1. Copied(t, u)'
    BY <1>2, CopiedFrame DEF S3Intact, S3TaskIntact
  <2>2. CASE task'[t].pc \in Calm
    BY <2>1, <2>2 DEF S3TaskIntact, Calm
  <2>3. CASE task'[t] = task[t]
    BY <1>2, <2>1, <2>3 DEF S3Intact, S3TaskIntact, Busy, Untouched, SameFiles
  <2> QED BY <1>2, <2>2, <2>3 DEF Untouched, CalmTasks
<1>3. /\ finalFile'[u] # NoFile => AllUploaded(u)' /\ finalFile'[u] = parts'[u]
      /\ uploads'[u].status = "complete" => finalFile'[u] = parts'[u]
  BY DEF S3Intact, Untouched, SameFiles, AllUploaded, Uploaded
<1> QED BY <1>1, <1>2, <1>3 DEF S3Intact

LEMMA S3ReceivedIntact ==
  ASSUME NEW u \in Upload, S3Intact(u), Receives(u)
  PROVE  S3Intact(u)'
<1>1. PartsIntact(u)' /\ PutsIntact(u)'
  BY DEF PartsIntact, Receives
<1>2. OpenIntact(u)' /\ \A t \in Task : ~Busy(t, u)'
  BY DEF Receives, S3Intact, OpenIntact, Busy
<1>3. finalFile'[u] = NoFile /\ uploads'[u].status # "complete"
  BY DEF Receives, S3Intact, Started
<1> QED BY <1>1, <1>2, <1>3 DEF S3Intact

-----------------------------------------------------------------------------
\* The steps inside the backend.

S3FileStep(t) ==
    \/ S3OwnStep(t)
    \/ /\ TaskAppend(t) \/ TaskPurge(t) \/ TaskIoError(t)
       /\ UNCHANGED <<ingestVars, removalVars, crashes>>

LEMMA S3FileStepQuiet ==
  ASSUME TypeOK, SentInv, NEW t \in Task, S3FileStep(t)
  PROVE  /\ QuietTask(t)
         /\ task[t].pc \in Storing /\ task[t].u \in Upload
         /\ UNCHANGED <<repoVars, ingestVars, contested, doomed>>
<1>1. CASE S3OwnStep(t)
  BY <1>1, S3TaskQuiet DEF removalVars
<1>2. CASE /\ TaskAppend(t) \/ TaskPurge(t) \/ TaskIoError(t)
           /\ UNCHANGED <<ingestVars, removalVars, crashes>>
  BY <1>2, TaskQuiet DEF TaskFault, TaskAppend, TaskPurge, TaskIoError, Storing, removalVars,
                         TypeOK, FinalizerTypeOK, TaskTypeOK
<1> QED BY <1>1, <1>2 DEF S3FileStep

\* The task of an undisturbed upload assembles its file and puts it.
LEMMA S3OwnFileStep ==
  ASSUME S3Inv, OnePut, NEW u \in Upload, NEW t \in Task, S3FileStep(t), task[t].u = u,
         Undisturbed(u), S3Intact(u)
  PROVE  S3Intact(u)'
<1>a. /\ task[t].pc \in Storing /\ Busy(t, u) /\ QuietTask(t)
      /\ UNCHANGED <<repoVars, ingestVars>>
      /\ StorageTypeOK /\ TaskTypeOK /\ ServerInv
  BY S3FileStepQuiet DEF S3Inv, ServerInv, TypeOK, FinalizerTypeOK, Storing, Busy
<1>b. AllUploaded(u) /\ \A w \in Writer : Sending(w) => put[w].u # u
  BY <1>a, WhenStarted
<1>c. (\A s \in Task : Busy(s, u) => s = t) /\ uploads[u].status = "finalizing"
  BY <1>a, WhenBusy DEF Working, Running
<1>d. UNCHANGED <<put, parts, uploads>>
  BY <1>a DEF ingestVars, repoVars
<1>e. /\ finalOpen[u] = {} /\ stagingOpen[u] \subseteq {t}
      /\ task[t].pc \notin {"append", "rename"} => stagingOpen[u] = {}
  BY <1>a, <1>c DEF S3Intact, OpenIntact, StorageTypeOK
<1>f. S3TaskIntact(t, u)
  BY <1>a DEF S3Intact
<1>g. /\ \A p \in Part : partFile[u][p] \in {parts[u][p], NoFile}
      /\ (\A p \in Part : partFile[u][p] = parts[u][p]) \/ finalFile[u] = parts[u]
      /\ finalFile[u] \in {NoFile, parts[u]}
  BY <1>b DEF S3Intact, PartsIntact, AllUploaded
\* It is enough to look at the files and at t.
<1>1. ASSUME \A p \in Part : partFile'[u][p] \in {parts[u][p], NoFile},
             (\A p \in Part : partFile'[u][p] = parts[u][p]) \/ finalFile'[u] = parts[u],
             finalFile'[u] \in {NoFile, parts[u]},
             finalOpen'[u] = {}, stagingOpen'[u] \subseteq {t},
             stagingOpen'[u] # {} => task'[t].pc \in {"append", "rename"},
             S3TaskIntact(t, u)'
      PROVE  S3Intact(u)'
  <2>1. PartsIntact(u)' /\ AllUploaded(u)'
    BY <1>1, <1>b, <1>d DEF PartsIntact, AllUploaded, Uploaded
  <2>2. OpenIntact(u)'
    BY <1>1, <1>a DEF OpenIntact, Busy, QuietTask
  <2>3. PutsIntact(u)'
    BY <1>b, <1>d DEF PutsIntact, Sending
  <2>4. \A s \in Task : Busy(s, u)' => S3TaskIntact(s, u)'
    BY <1>1, <1>a, <1>c DEF QuietTask, Busy
  <2> QED BY <1>1, <1>c, <1>d, <2>1, <2>2, <2>3, <2>4 DEF S3Intact
\* It fails, and closes the file.
<1>2. ASSUME task'[t].pc = "mark_fail",
             \A p \in Part : partFile'[u][p] \in {parts[u][p], NoFile},
             (\A p \in Part : partFile'[u][p] = parts[u][p]) \/ finalFile'[u] = parts[u],
             finalFile'[u] \in {NoFile, parts[u]},
             stagingOpen'[u] = {}, finalOpen'[u] = {}
      PROVE  S3Intact(u)'
  BY <1>1, <1>2 DEF S3TaskIntact, Copied
<1>3. ASSUME Abandon(t) PROVE S3Intact(u)'
  <2>1. task'[t].pc = "mark_fail"
    BY <1>3, <1>a, TaskMoves DEF Abandon
  <2>2. UNCHANGED <<partFile, finalFile>> /\ stagingOpen'[u] = {} /\ finalOpen'[u] = {}
    BY <1>3, <1>a, <1>e DEF Abandon, CloseStaging, StorageTypeOK
  <2> QED BY <1>2, <1>g, <2>1, <2>2
<1>4. CASE S3Create(t)
  <2>1. task'[t].pc = "append" /\ task'[t].next = 0
    BY <1>4, <1>a DEF S3Create, TaskTypeOK, TaskState
  <2>2. UNCHANGED <<partFile, finalFile, finalOpen>> /\ stagingOpen'[u] = {t}
    BY <1>4, <1>a, <1>e DEF S3Create, CreateStaging, StorageTypeOK
  <2>3. \A q \in Part : ~(q < task'[t].next)
    BY <2>1, PartsAssumption DEF Part
  <2>4. S3TaskIntact(t, u)'
    BY <2>1, <2>2, <2>3 DEF S3TaskIntact, Copied
  <2> QED BY <1>1, <1>e, <1>g, <2>1, <2>2, <2>4
<1>5. CASE TaskAppend(t) /\ ~Abandon(t)
  <2>1. /\ Copied(t, u)' /\ task'[t].pc \in {"append", "rename"}
        /\ UNCHANGED <<partFile, finalFile, finalOpen, stagingOpen>>
    BY <1>5, <1>a, <1>b, <1>e, <1>f, <1>g, AppendCopies DEF S3TaskIntact
  <2>2. S3TaskIntact(t, u)'
    BY <2>1 DEF S3TaskIntact
  <2> QED BY <1>1, <1>e, <1>g, <2>1, <2>2
<1>6. ASSUME task[t].pc = "rename", PutObject(t, u), task'[t].pc \in {"purge", "mark_fail"}
      PROVE  S3Intact(u)'
  <2>1. ObjectSent(t, u) = {parts[u]}
    BY <1>6, <1>e, <1>f DEF ObjectSent, S3TaskIntact, Copied
  <2>2. /\ UNCHANGED partFile /\ finalFile'[u] = parts[u]
        /\ stagingOpen'[u] = {} /\ finalOpen'[u] = {}
    BY <1>6, <1>a, <1>e, <2>1 DEF PutObject, StorageTypeOK
  <2>3. S3TaskIntact(t, u)'
    BY <1>6, <1>d, <2>2 DEF S3TaskIntact, Copied
  <2> QED BY <1>1, <1>g, <2>2, <2>3
<1>7. CASE (S3Put(t) /\ ~Abandon(t)) \/ S3PutFail(t)
  <2>1. /\ task[t].pc = "rename" /\ PutObject(t, u)
        /\ TaskGoto(t, "purge") \/ TaskGoto(t, "mark_fail")
    BY <1>7 DEF S3Put, S3PutFail
  <2> QED BY <1>6, <1>a, <2>1, TaskMoves
<1>8. CASE S3RemoveTemp(t)
  <2>1. task[t].pc = "purge" /\ UNCHANGED task
    BY <1>8 DEF S3RemoveTemp, S3Inv, SentInv
  <2>2. UNCHANGED <<partFile, finalFile, finalOpen>> /\ stagingOpen'[u] = {}
    BY <1>8, <1>a, <1>e, <2>1 DEF S3RemoveTemp, RemoveStaleStaging, StorageTypeOK, storageVars
  <2>3. S3TaskIntact(t, u)'
    BY <1>d, <1>f, <2>1, <2>2 DEF S3TaskIntact, Copied
  <2> QED BY <1>1, <1>e, <1>g, <2>2, <2>3
<1>9. CASE TaskPurge(t)
  <2>1. task[t].pc = "purge" /\ task'[t].pc = "mark_ok" /\ DeleteParts(u)
    BY <1>9, <1>a, TaskMoves DEF TaskPurge
  <2>2. finalFile[u] = parts[u]
    BY <1>f, <2>1 DEF S3TaskIntact
  <2>3. /\ UNCHANGED <<finalFile, stagingOpen, finalOpen>>
        /\ \A q \in Part : partFile'[u][q] = NoFile
    BY <1>a, <2>1 DEF DeleteParts, StorageTypeOK, NoPartFiles
  <2>4. S3TaskIntact(t, u)'
    BY <1>d, <2>1, <2>2, <2>3 DEF S3TaskIntact, Copied
  <2> QED BY <1>1, <1>e, <1>g, <2>1, <2>2, <2>3, <2>4
<1>10. CASE TaskIoError(t) /\ ~Abandon(t)
  <2>1. task[t].pc = "purge" /\ task'[t].pc = "mark_fail" /\ DeletePartsPartly(u)
    BY <1>10, <1>a, TaskMoves DEF TaskIoError
  <2>2. /\ UNCHANGED <<finalFile, stagingOpen, finalOpen>>
        /\ \A q \in Part : partFile'[u][q] \in {partFile[u][q], NoFile}
    BY <1>a, <2>1 DEF DeletePartsPartly, StorageTypeOK
  <2>3. finalFile[u] = parts[u]
    BY <1>f, <2>1 DEF S3TaskIntact
  <2> QED BY <1>2, <1>e, <1>g, <2>1, <2>2, <2>3
<1> QED BY <1>3, <1>4, <1>5, <1>7, <1>8, <1>9, <1>10 DEF S3FileStep, S3OwnStep, S3PutRefused

LEMMA OtherPut ==
  ASSUME StorageTypeOK, NEW v \in Upload, NEW u \in Upload \ {v}, NEW t \in Task, PutObject(t, v)
  PROVE  SameFiles(u)
  BY DEF SameFiles, StorageTypeOK, PutObject

LEMMA S3OtherFileStep ==
  ASSUME S3Inv, NEW u \in Upload, NEW t \in Task, S3FileStep(t), task[t].u # u, OpenIntact(u)
  PROVE  Untouched(u) /\ UNCHANGED uploads
<1> ServerInv /\ SentInv /\ TypeOK /\ StorageTypeOK
  BY DEF S3Inv, ServerInv, TypeOK
<1>1. CASE /\ TaskAppend(t) \/ TaskPurge(t) \/ TaskIoError(t)
           /\ UNCHANGED <<ingestVars, removalVars, crashes>>
  <2>1. task[t].pc \in Storing /\ FileStep(t)
    BY <1>1, S3FileStepQuiet DEF FileStep
  <2> QED BY <1>1, <2>1, OtherFileStep
<1>2. CASE S3OwnStep(t)
  <2> DEFINE v == task[t].u
  <2>1. /\ QuietTask(t) /\ v \in Upload
        /\ UNCHANGED <<repoVars, ingestVars>>
    BY <1>2, S3FileStepQuiet DEF S3FileStep
  <2>2. CalmTasks(u)
    BY <2>1 DEF CalmTasks, QuietTask, Busy, OpenIntact, StorageTypeOK
  <2>3. CalmPuts(u) /\ parts'[u] = parts[u] /\ UNCHANGED uploads
    BY <2>1 DEF CalmPuts, Sending, repoVars, ingestVars
  <2>4. \/ UNCHANGED storageVars
        \/ RemoveStaleStaging(v) \/ CreateStaging(t, v) \/ CloseStaging(t, v) \/ PutObject(t, v)
    BY <1>2 DEF S3OwnStep, S3Create, S3Put, S3PutFail, S3PutRefused, S3RemoveTemp, Abandon
  <2> HIDE DEF v
  <2>5. u \in Upload \ {v}
    BY DEF v
  <2>6. SameFiles(u)
    <3>1. CASE UNCHANGED storageVars
      BY <3>1 DEF SameFiles, storageVars
    <3>2. CASE RemoveStaleStaging(v) \/ CreateStaging(t, v) \/ CloseStaging(t, v)
      BY <2>1, <2>5, <3>2, PartNat, OtherAssembly
    <3>3. CASE PutObject(t, v)
      BY <2>1, <2>5, <3>3, OtherPut
    <3> QED BY <2>4, <3>1, <3>2, <3>3
  <2> QED BY <2>2, <2>3, <2>6 DEF Untouched
<1> QED BY <1>1, <1>2 DEF S3FileStep

-----------------------------------------------------------------------------
\* Every step keeps what S3FileInv says.

LEMMA S3IntactNext ==
  ASSUME S3Inv, OnePut, LateApart, LateUnrecorded, S3FileInv, [S3Next]_s3Vars,
         NEW u \in Upload, Undisturbed(u)'
  PROVE  S3Intact(u)'
<1>a. ServerInv /\ SentInv /\ TypeOK /\ TaskTypeOK
  BY DEF S3Inv, ServerInv, TypeOK, FinalizerTypeOK
<1>b. Undisturbed(u) => S3Intact(u) /\ PutsIntact(u) /\ PartsIntact(u) /\ OpenIntact(u)
  BY DEF S3FileInv, S3Intact
<1>1. CASE IngestNext /\ UNCHANGED <<finalizerVars, removalVars, crashes>>
  <2>1. Undisturbed(u)
    BY <1>1 DEF Undisturbed, finalizerVars, removalVars
  <2>2. PartsHere(u)
    BY <1>b, <2>1 DEF PartsIntact, PartsHere
  <2> QED BY <1>a, <1>b, <1>1, <2>1, <2>2, IngestFiles, S3IntactFrame, S3ReceivedIntact
<1>2. CASE (\E v \in Upload : Expire(v)) \/ UNCHANGED vars
  <2>1. Untouched(u) /\ SameStatus /\ Undisturbed(u)
    BY <1>a, <1>2, QuietFiles DEF Undisturbed
  <2> QED BY <1>b, <2>1, S3IntactFrame DEF SameStatus
<1>3. CASE FinalizerOutside(Storing)
  <2>1. /\ FinalizerNext /\ UNCHANGED <<ingestVars, removalVars, crashes>>
        /\ ~\E t \in Task : FileStep(t)
    BY <1>a, <1>3, FileStepMoves DEF FinalizerOutside
  <2>2. Undisturbed(u)
    BY <1>a, <2>1, FinalizerUndisturbed
  <2>3. \A t \in Task : Busy(t, u) /\ task[t].pc = "mark_ok" => finalFile[u] = parts[u]
    BY <1>b, <2>2 DEF S3Intact, S3TaskIntact
  <2> QED BY <1>a, <1>b, <2>1, <2>2, <2>3, RowsFiles, S3IntactFrame
<1>4. CASE S3Removal
  BY <1>a, <1>b, <1>4, RemovalFiles, S3IntactFrame DEF S3Removal
<1>5. ASSUME NEW t \in Task, S3FileStep(t) PROVE S3Intact(u)'
  <2>1. UNCHANGED <<contested, doomed>>
    BY <1>a, <1>5, S3FileStepQuiet
  <2>2. Undisturbed(u)
    BY <2>1 DEF Undisturbed
  <2>3. CASE task[t].u = u
    BY <1>b, <1>5, <2>2, <2>3, S3OwnFileStep
  <2>4. CASE task[t].u # u
    BY <1>b, <1>5, <2>2, <2>4, S3OtherFileStep, S3IntactFrame
  <2> QED BY <2>3, <2>4
<1>6. ASSUME NEW d \in Canceller, S3UnlinkFail(d) PROVE S3Intact(u)'
  <2>1. UNCHANGED <<doomed, contested, uploads, parts, storageVars, put, task>>
    BY <1>6 DEF S3UnlinkFail, repoVars, ingestVars, finalizerVars
  <2>2. Untouched(u) /\ Undisturbed(u)
    BY <2>1 DEF Untouched, SameFiles, CalmTasks, CalmPuts, Sending, storageVars, Undisturbed
  <2> QED BY <1>b, <2>1, <2>2, S3IntactFrame
<1>7. CASE CrashRestart
  <2>1. Undisturbed(u)
    BY <1>7 DEF CrashRestart, Undisturbed
  <2>2. \A t \in Task : Busy(t, u) /\ task[t].pc = "purge" => finalFile[u] = parts[u]
    BY <1>b, <2>1 DEF S3Intact, S3TaskIntact
  <2>3. /\ PutsIntact(u)' /\ PartsIntact(u)' /\ OpenIntact(u)'
        /\ UNCHANGED <<parts, finalFile>>
        /\ SameStatus /\ \A t \in Task : task'[t].pc \in {"idle", "queued"}
    BY <1>a, <1>b, <1>7, <2>1, <2>2, CrashFiles
  <2>4. \A t \in Task : S3TaskIntact(t, u)'
    BY <2>3 DEF S3TaskIntact, Copied
  <2>5. /\ finalFile'[u] # NoFile => AllUploaded(u)' /\ finalFile'[u] = parts'[u]
        /\ uploads'[u].status = "complete" => finalFile'[u] = parts'[u]
    BY <1>b, <2>1, <2>3 DEF S3Intact, SameStatus, AllUploaded, Uploaded
  <2> QED BY <2>3, <2>4, <2>5 DEF S3Intact
<1>8. ASSUME NEW t \in Task,
             S3TaskStep(t) \/ S3PutFail(t) \/ S3PutRefused(t) \/ S3IoError(t)
      PROVE  S3FileStep(t)
  BY <1>8 DEF S3TaskStep, S3FileStep, S3OwnStep, S3Append, S3Purge, S3IoError
<1> QED BY <1>1, <1>2, <1>3, <1>4, <1>5, <1>6, <1>7, <1>8
        DEF S3Next, S3Request, RequestNext, s3Vars

\* The client, its requests and the part rows see no other steps than those of
\* UploadServer, nor does what a dropped PUT left under way.
LEMMA S3ClientSteps ==
  ASSUME TypeOK, SentInv, [S3Next]_s3Vars
  PROVE  [Next]_vars \/ UNCHANGED <<parts, client, put, late, partOpen>>
<1>1. ASSUME NEW t \in Task, S3OwnStep(t)
      PROVE  UNCHANGED <<parts, client, put, late, partOpen>>
  BY <1>1, S3TaskQuiet
     DEF repoVars, ingestVars, S3OwnStep, S3Create, S3Put, S3PutFail, S3PutRefused, S3RemoveTemp,
         Abandon, CreateStaging, CloseStaging, PutObject, RemoveStaleStaging, storageVars
<1>2. ASSUME NEW d \in Canceller, S3UnlinkFail(d)
      PROVE  UNCHANGED <<parts, client, put, late, partOpen>>
  BY <1>2 DEF S3UnlinkFail, repoVars, ingestVars, storageVars
<1> QED BY <1>1, <1>2, S3Steps

LEMMA S3OnePut == ASSUME Discipline PROVE S3Spec => []OnePut
<1>1. S3Inv /\ OnePut /\ [S3Next]_s3Vars => OnePut'
  BY S3ClientSteps, OnePutNext DEF S3Inv, ServerInv, OnePut, Known, Sending
<1>2. S3Init => OnePut
  BY OnePutInit DEF S3Init
<1> QED BY <1>1, <1>2, S3Invariant, PTL DEF S3Spec

LEMMA S3FileInvariant == ASSUME Discipline PROVE S3Spec /\ []LateApart => []S3FileInv
<1>1. S3Init => LateUnrecorded /\ S3FileInv
  BY LateUnrecordedInit, S3FileInvInit DEF S3Init
<1>2. S3Inv /\ OnePut /\ LateApart /\ LateUnrecorded /\ [S3Next]_s3Vars => LateUnrecorded'
  BY S3ClientSteps, LateUnrecordedNext DEF S3Inv, ServerInv, LateUnrecorded, LateOn, Bodies
<1>3. S3Inv /\ OnePut /\ LateApart /\ LateUnrecorded /\ S3FileInv /\ [S3Next]_s3Vars
        => S3FileInv'
  BY S3IntactNext DEF S3FileInv
<1> QED BY <1>1, <1>2, <1>3, S3OnePut, S3Invariant, PTL DEF S3Spec

\* Readers of the bucket find the whole object or none, through puts that fail
\* or go unanswered, retries, crashes and cancelled uploads, for the clients of
\* NoDataLossSafe.
THEOREM ObjectWholeSafe ==
  ASSUME Discipline PROVE S3Spec /\ []LateApart => []ObjectWhole
  BY S3FileInvariant, S3FileInvImplies, PTL

\* What the server calls complete is in the bucket, whole, for these clients.
THEOREM CompleteInBucketSafe ==
  ASSUME Discipline PROVE S3Spec /\ []LateApart => []CompleteInBucket
  BY S3FileInvariant, S3FileInvImplies, PTL

\* A recorded part stays recoverable with the S3 backend too, for these clients.
THEOREM S3NoDataLossSafe ==
  ASSUME Discipline PROVE S3Spec /\ []LateApart => []NoDataLoss
  BY S3FileInvariant, S3FileInvImplies, PTL

\* Where no request is dropped, the condition LateApart is void for S3Server
\* as well: the three hold of S3Spec itself.
THEOREM S3Undropped ==
  ASSUME Discipline, "abort" \notin Faults
  PROVE  S3Spec => [](NoDataLoss /\ ObjectWhole /\ CompleteInBucket)
<1>1. S3Init => NothingLate
  BY NothingLateInit DEF S3Init
<1>2. S3Inv /\ NothingLate => LateApart
  BY NothingLateApart DEF S3Inv, ServerInv
<1>3. S3Inv /\ NothingLate /\ [S3Next]_s3Vars => NothingLate'
  BY S3ClientSteps, NothingLateNext DEF S3Inv, ServerInv, NothingLate, Bodies
<1> QED BY <1>1, <1>2, <1>3, S3Invariant, S3FileInvariant, S3FileInvImplies, PTL DEF S3Spec

-----------------------------------------------------------------------------
\* The promises about finalization are kept with this backend.

\* Finalization starts with every part recorded, one task has an upload, and
\* one webhook is sent, also when the bucket is what fails.
THEOREM S3FinalizationSafe ==
  S3Spec => [](StartedOnlyWhenAllUploaded /\ SoleFinalizer /\ NotifiedOnce)
<1>1. S3Inv => StartedOnlyWhenAllUploaded /\ SoleFinalizer /\ NotifiedOnce
  BY ServerPromises DEF S3Inv
<1> QED BY <1>1, S3Invariant, PTL

\* An upload in the bucket leaves `complete' by its deletion only.
THEOREM S3CompleteFinal == S3Spec => CompleteIsFinal
<1>1. S3Inv /\ [S3Next]_s3Vars => [KeepsComplete]_vars
  <2> SUFFICES ASSUME S3Inv, [S3Next]_s3Vars PROVE KeepsComplete
    OBVIOUS
  <2>1. ASSUME NEW t \in Task, S3OwnStep(t) PROVE SameStatus
    BY <2>1, S3TaskQuiet DEF S3Inv, ServerInv, QuietTask
  <2>2. ASSUME NEW d \in Canceller, S3UnlinkFail(d) PROVE UNCHANGED uploads
    BY <2>2 DEF S3UnlinkFail, repoVars
  <2> QED BY <2>1, <2>2, S3Steps, ServerKeepsComplete DEF S3Inv, SameStatus, KeepsComplete
<1>2. S3Spec => [][KeepsComplete]_vars
  BY <1>1, S3Invariant, PTL DEF S3Spec
<1> QED BY <1>2 DEF CompleteIsFinal, KeepsComplete
=============================================================================
