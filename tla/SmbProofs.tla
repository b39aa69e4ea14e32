----------------------------- MODULE SmbProofs -----------------------------
(***************************************************************************)
(* The server with the SMB backend, for every instance.  A step of         *)
(* SmbServer is a step of UploadServer, or a step inside finalize_upload,  *)
(* or a delete_file on the share; what is proved of UploadServer is reused *)
(* for the first, and the others are quiet for all but the files.          *)
(***************************************************************************)
EXTENDS SmbProperties, ObserverProofs

-----------------------------------------------------------------------------
\* The steps that UploadServer does not have.

\* verify_upload_ready refuses, or the part rows cannot be read.
SmbRefused(t) ==
    /\ task[t].pc = "check"
    /\ TaskGoto(t, "mark_fail")
    /\ UNCHANGED <<completer, lateBeat, contested, notified, repoVars, storageVars, ingestVars,
                   removalVars, crashes, remoteVars>>

SmbCall(t) == \/ SmbRefused(t) \/ SmbConnectFail(t) \/ SmbAttempt(t) \/ SmbOpen(t)
              \/ SmbStream(t) \/ SmbStreamFail(t) \/ SmbClose(t)
              \/ SmbRename(t) \/ SmbRenameFail(t) \/ SmbPurge(t) \/ SmbGiveUp(t)

LEMMA SmbSteps ==
  ASSUME [SmbNext]_smbServerVars
  PROVE  \/ [Next]_vars
         \/ \E t \in Task : SmbCall(t)
         \/ \E d \in Canceller : SmbCancelUnlink(d)
<1>1. ASSUME NEW t \in Task, SmbTaskStep(t) \/ SmbStreamSome(t) PROVE [Next]_vars \/ SmbCall(t)
  <2>1. CASE SmbCheck(t)
    BY <2>1 DEF SmbCheck, SmbCall, SmbRefused, Next, FinalizerNext, TaskStep
  <2>2. CASE SmbEnter(t) \/ SmbStreamSome(t)
    BY <2>2 DEF SmbEnter, SmbStreamSome, FinalizeFrame, vars, finalizerVars
  <2> QED BY <1>1, <2>1, <2>2 DEF SmbTaskStep, SmbCall
<1>2. ASSUME NEW w \in Writer, StorePart(w) PROVE [Next]_vars
  BY <1>2 DEF StorePart, Next, IngestNext, PutStep
<1>3. ASSUME NEW d \in Canceller, CancelErase(d) \/ SmbCancelPurge(d) \/ SmbCancelAbort(d)
      PROVE  [Next]_vars
  <2>1. CASE CancelErase(d)
    BY <2>1 DEF CancelErase, RemovalFrame, vars
  <2>2. CASE SmbCancelPurge(d)
    BY <2>2 DEF SmbCancelPurge, RemovalFrame, Next, RemovalNext, CancelStep
  <2>3. CASE SmbCancelAbort(d)
    BY <2>3 DEF SmbCancelAbort, RemovalFrame, Next, RemovalNext, CancelAbort
  <2> QED BY <1>3, <2>1, <2>2, <2>3
<1>4. ASSUME CleanErase \/ SmbCleanPurge PROVE [Next]_vars
  BY <1>4 DEF CleanErase, SmbCleanPurge, RemovalFrame, vars, Next, RemovalNext, CleanStep
<1>5. ASSUME NEW s \in Syncer, SyncStep(s) \/ SyncSome(s) \/ SyncFail(s) PROVE UNCHANGED vars
  BY <1>5 DEF SyncStep, SyncOpen, SyncEnd, SyncSome, SyncFail
<1>6. ASSUME CommonNext PROVE [Next]_vars
  BY <1>6 DEF CommonNext, RequestNext, FinalizerOutside, RemovalOutside, Next
<1> QED BY <1>1, <1>2, <1>3, <1>4, <1>5, <1>6
        DEF SmbNext, smbServerVars, SmbCall, SmbCrashRestart, Next

\* What a step inside finalize_upload does to the rest of the server.
Calls(t) ==
    /\ UNCHANGED <<completer, contested, notified, repoVars, ingestVars, removalVars, crashes>>
    /\ UNCHANGED lateBeat \/ lateBeat' = lateBeat \cup {task[t].u}
    /\ \/ UNCHANGED storageVars
       \/ task[t].pc = "purge" /\ (DeleteParts(task[t].u) \/ DeletePartsPartly(task[t].u))
    /\ task[t].pc \in Storing \cup {"check"} /\ task'[t].pc \in Storing \cup {"mark_fail", "mark_ok"}
    /\ task'[t].u = task[t].u
    /\ \A s \in Task \ {t} : task'[s] = task[s]

\* The attempts of a task inside finalize_upload, which outside has none.
TriesInv ==
    \A t \in Task :
        /\ task[t].pc \notin Storing => smb[t] = NoAttempt
        /\ task[t].pc = "create" => task[t].next \in Part

SyncInv == \A s \in Syncer : sync[s].pc # "idle" => sync[s].u \in Upload

SmbInv == ServerInv /\ SmbTypeOK /\ TriesInv /\ SyncInv

\* The size of a partial counts parts.
LEMMA SizeTyped ==
  ASSUME ShareTypeOK, NEW u \in Upload
  PROVE  PartialSize(u) \in 0 .. TotalParts
  BY PartsAssumption DEF ShareTypeOK, ShareFile, PartialSize

LEMMA CallSummary ==
  ASSUME SmbInv, NEW t \in Task, SmbCall(t)
  PROVE  Calls(t) /\ TaskTypeOK'
<1>a. TaskTypeOK /\ FinalizerTypeOK /\ ShareTypeOK
  BY DEF SmbInv, ServerInv, TypeOK, FinalizerTypeOK, SmbTypeOK
<1>1. ASSUME NEW pc \in TaskPc \ {"append"}, task[t].pc \in Storing \cup {"check"}, TaskGoto(t, pc),
             pc \in Storing \cup {"mark_fail", "mark_ok"}
      PROVE  /\ task'[t].pc \in Storing \cup {"mark_fail", "mark_ok"} /\ task'[t].u = task[t].u
             /\ \A s \in Task \ {t} : task'[s] = task[s]
             /\ TaskTypeOK'
  <2>1. task[t].pc # "idle"
    BY <1>1 DEF Storing
  <2> QED BY <1>1, <1>a, <2>1, TaskMoves, TaskTyped
<1>2. ASSUME NEW pc \in {"append", "close"}, NEW n \in 0 .. TotalParts, pc = "append" => n \in Part,
             task[t].pc \in Storing, task' = [task EXCEPT ![t] = [@ EXCEPT !.pc = pc, !.next = n]]
      PROVE  /\ task'[t].pc = pc /\ task'[t].u = task[t].u
             /\ \A s \in Task \ {t} : task'[s] = task[s]
             /\ TaskTypeOK'
  <2>1. task[t].pc # "idle"
    BY <1>2 DEF Storing
  <2>2. task' = [task EXCEPT ![t] = [task[t] EXCEPT !.pc = pc, !.next = n]]
    BY <1>2
  <2>3. TaskTypeOK'
    BY <1>2, <1>a, <2>1, <2>2, TaskAtPart
  <2> QED BY <1>a, <2>2, <2>3 DEF TaskTypeOK, TaskState
<1>p. {"enter", "create", "close", "rename", "purge", "mark_ok", "mark_fail"} \subseteq TaskPc \ {"append"}
  BY DEF TaskPc, Running, Storing
<1>3. CASE SmbRefused(t)
  BY <1>1, <1>3, <1>p DEF SmbRefused, Calls
<1>4. ASSUME task[t].pc \in Storing, \E n : AttemptFailed(t, n), UNCHANGED storageVars, FinalizeFrame
      PROVE  Calls(t) /\ TaskTypeOK'
  BY <1>1, <1>4, <1>p DEF AttemptFailed, Calls, FinalizeFrame, Storing
<1>g. ASSUME task[t].pc \in Storing, GiveUp(t), UNCHANGED storageVars, FinalizeFrame
      PROVE  Calls(t) /\ TaskTypeOK'
  <2>1. UNCHANGED lateBeat \/ lateBeat' = lateBeat \cup {task[t].u}
    BY <1>g DEF GiveUp, StopHeartbeat
  <2> QED BY <1>1, <1>g, <1>p, <2>1 DEF GiveUp, Calls, FinalizeFrame, Storing
<1>5. CASE SmbConnectFail(t) \/ SmbStreamFail(t) \/ SmbGiveUp(t)
  BY <1>4, <1>g, <1>5 DEF SmbConnectFail, SmbStreamFail, SmbGiveUp, Attempts, Storing
<1>6. CASE SmbAttempt(t)
  <2>1. PICK size \in {PartialSize(task[t].u), 0} :
           task' = [task EXCEPT ![t] =
                      [@ EXCEPT !.pc = IF size = TotalParts THEN "rename" ELSE "create",
                                !.next = size]]
    BY <1>6 DEF SmbAttempt
  <2>2. task[t].pc = "enter" /\ task[t].u \in Upload
    BY <1>6, <1>a DEF SmbAttempt, Attempts, TaskTypeOK
  <2>3. size \in 0 .. TotalParts
    BY <1>a, <2>2, SizeTyped, PartsAssumption
  <2>4. /\ task'[t].pc \in {"rename", "create"} /\ task'[t].u = task[t].u
        /\ \A s \in Task \ {t} : task'[s] = task[s]
    BY <1>a, <2>1 DEF TaskTypeOK, TaskState
  <2>5. TaskTypeOK'
    <3>1. task'[t] \in TaskState
      BY <1>a, <1>p, <2>1, <2>3 DEF TaskTypeOK, TaskState
    <3>2. task' \in [Task -> TaskState]
      BY <1>a, <2>1, <2>4, <3>1 DEF TaskTypeOK
    <3> QED BY <1>a, <2>2, <2>4, <3>2 DEF TaskTypeOK
  <2> QED BY <1>6, <2>2, <2>4, <2>5 DEF SmbAttempt, Calls, FinalizeFrame, Storing
<1>7. CASE SmbOpen(t)
  <2>1. task[t].pc = "create" /\ task[t].next \in Part /\ task[t].next \in 0 .. TotalParts
    BY <1>7, <1>a DEF SmbOpen, SmbInv, TriesInv, TaskTypeOK, TaskState
  <2>2. task' = [task EXCEPT ![t] = [@ EXCEPT !.pc = "append", !.next = task[t].next]]
    BY <1>7, <1>a DEF SmbOpen, TaskGoto, TaskTypeOK, TaskState
  <2> QED BY <1>2, <1>7, <2>1, <2>2 DEF SmbOpen, Calls, FinalizeFrame, Storing
<1>8. CASE SmbStream(t) /\ partFile[task[t].u][task[t].next] = NoFile
  BY <1>4, <1>8 DEF SmbStream, Storing
<1>9. CASE SmbStream(t) /\ partFile[task[t].u][task[t].next] # NoFile
  <2> DEFINE p == task[t].next
  <2>1. /\ task[t].pc = "append" /\ p \in Part
        /\ task' = [task EXCEPT ![t] =
                      [@ EXCEPT !.pc = IF LastPart(p) THEN "close" ELSE "append", !.next = p + 1]]
        /\ UNCHANGED <<lateBeat, storageVars>> /\ FinalizeFrame
    BY <1>9, <1>a DEF SmbStream, TaskTypeOK
  <2>2. p + 1 \in 0 .. TotalParts /\ (~LastPart(p) => p + 1 \in Part)
    BY <2>1, PartsAssumption DEF Part, LastPart
  <2> QED BY <1>2, <2>1, <2>2 DEF Calls, FinalizeFrame, Storing
<1>10. CASE SmbRename(t) \/ SmbRenameFail(t) \/ SmbClose(t)
  <2>1. TaskGoto(t, "purge") \/ TaskGoto(t, "enter") \/ TaskGoto(t, "rename")
    BY <1>10 DEF SmbRename, SmbRenameFail, SmbClose, AttemptFailed
  <2>2. UNCHANGED lateBeat
    BY <1>10 DEF SmbRename, SmbRenameFail, SmbClose, AttemptFailed
  <2>3. task[t].pc \in {"rename", "close"} /\ UNCHANGED storageVars /\ FinalizeFrame
    BY <1>10 DEF SmbRename, SmbRenameFail, SmbClose
  <2> QED BY <1>1, <1>p, <2>1, <2>2, <2>3 DEF Calls, FinalizeFrame, Storing
<1>11. CASE SmbPurge(t)
  <2>1. task[t].pc = "purge" /\ TaskGoto(t, "mark_ok") /\ FinalizeFrame
    BY <1>11 DEF SmbPurge
  <2>2. UNCHANGED lateBeat \/ lateBeat' = lateBeat \cup {task[t].u}
    BY <1>11 DEF SmbPurge, StopHeartbeat
  <2>3. DeleteParts(task[t].u) \/ DeletePartsPartly(task[t].u)
    BY <1>11 DEF SmbPurge
  <2> QED BY <1>1, <1>p, <2>1, <2>2, <2>3 DEF Calls, FinalizeFrame, Storing
<1> QED BY <1>3, <1>5, <1>6, <1>7, <1>8, <1>9, <1>10, <1>11 DEF SmbCall

LEMMA CallServer ==
  ASSUME SmbInv, NEW t \in Task, SmbCall(t)
  PROVE  ServerInv' /\ AbstractStep
<1>1. Calls(t) /\ TaskTypeOK' /\ ServerInv
  BY CallSummary DEF SmbInv
<1>2. RepoTypeOK /\ StorageTypeOK /\ IngestTypeOK /\ FinalizerTypeOK /\ RemovalTypeOK /\ TaskTypeOK
      /\ task[t].u \in Upload
  BY <1>1 DEF ServerInv, TypeOK, FinalizerTypeOK, TaskTypeOK, Calls, Storing
<1>3. RepoTypeOK' /\ IngestTypeOK' /\ RemovalTypeOK' /\ crashes' \in 0 .. MaxCrashes
  BY <1>1, <1>2, RepoUnchanged, IngestUnchanged, RemovalUnchanged DEF Calls, ServerInv, TypeOK
<1>4. StorageTypeOK'
  BY <1>1, <1>2, StorageUnchanged, DeletionTyped DEF Calls
<1>5. FinalizerTypeOK'
  BY <1>1, <1>2 DEF Calls, FinalizerTypeOK, CompleterTypeOK
<1>6. TypeOK'
  BY <1>3, <1>4, <1>5 DEF TypeOK
<1>7. QuietTask(t)
  BY <1>1 DEF Calls, QuietTask, SameStatus, FinalizersFrame, repoVars, ingestVars, Working,
              Running, Storing
<1> QED BY <1>1, <1>6, <1>7, TaskGoesOn DEF Calls

LEMMA UnlinkServer ==
  ASSUME ServerInv, NEW d \in Canceller, SmbCancelUnlink(d)
  PROVE  ServerInv' /\ AbstractStep
  BY CancelGoesOn DEF SmbCancelUnlink, RemovalFrame

LEMMA SmbServerNext == SmbInv /\ [SmbNext]_smbServerVars => ServerInv'
  BY SmbSteps, ServerInvNext, CallServer, UnlinkServer DEF SmbInv

-----------------------------------------------------------------------------
\* Types: the share.

\* Operations on the files of the share, with the handles they close.
LEMMA WriteTyped ==
  ASSUME ShareTypeOK, NEW u \in Upload, NEW h, NEW p \in Part, NEW size \in 0 .. TotalParts,
         NEW content \in Data, WriteTo(h, u, p, size, content),
         UNCHANGED <<partialOpen, sharedOpen>> \/ CloseHandle(h, u)
  PROVE  ShareTypeOK'
<1>1. /\ partial \in [Upload -> ShareFile \cup {NoFile}]
      /\ shareFile \in [Upload -> ShareFile \cup {NoFile}]
      /\ partialOpen \in [Upload -> SUBSET (Task \cup Syncer)]
      /\ sharedOpen \in [Upload -> SUBSET (Task \cup Syncer)]
  BY DEF ShareTypeOK
<1> DEFINE written(f) == [size |-> IF f.size < size THEN size ELSE f.size,
                          data |-> [f.data EXCEPT ![p] = content]]
<1>2. ASSUME NEW f \in ShareFile PROVE written(f) \in ShareFile
  BY PartsAssumption DEF ShareFile
<1>3. h \in partialOpen[u] => partial[u] \in ShareFile
  BY <1>1 DEF ShareTypeOK
<1>4. h \in sharedOpen[u] => shareFile[u] \in ShareFile
  BY <1>1 DEF ShareTypeOK
<1>5. /\ partial' = IF h \in partialOpen[u]
                    THEN [partial EXCEPT ![u] = written(partial[u])] ELSE partial
      /\ shareFile' = IF h \in sharedOpen[u]
                      THEN [shareFile EXCEPT ![u] = written(shareFile[u])] ELSE shareFile
  BY DEF WriteTo
<1>6. /\ h \in partialOpen[u] => written(partial[u]) \in ShareFile
      /\ h \in sharedOpen[u] => written(shareFile[u]) \in ShareFile
  BY <1>2, <1>3, <1>4
<1> HIDE DEF written
<1>7. /\ partial' \in [Upload -> ShareFile \cup {NoFile}]
      /\ \A v \in Upload : partial[v] # NoFile => partial'[v] # NoFile
  BY <1>1, <1>5, <1>6, ShareAssumption
<1>8. /\ shareFile' \in [Upload -> ShareFile \cup {NoFile}]
      /\ \A v \in Upload : shareFile[v] # NoFile => shareFile'[v] # NoFile
  BY <1>1, <1>5, <1>6, ShareAssumption
<1>9. /\ partialOpen' \in [Upload -> SUBSET (Task \cup Syncer)]
      /\ sharedOpen' \in [Upload -> SUBSET (Task \cup Syncer)]
      /\ \A v \in Upload : /\ partialOpen'[v] \subseteq partialOpen[v]
                           /\ sharedOpen'[v] \subseteq sharedOpen[v]
  BY <1>1 DEF CloseHandle
<1> QED BY <1>7, <1>8, <1>9 DEF ShareTypeOK

LEMMA ShareTyped ==
  ASSUME ShareTypeOK, NEW u \in Upload, NEW h \in Task \cup Syncer,
         \/ OpenPartial(h, u) \/ (CloseHandle(h, u) /\ UNCHANGED <<partial, shareFile>>)
         \/ (RenamePartial(u) /\ partial[u] # NoFile) \/ DeletePartial(u) \/ DeleteShared(u)
         \/ UNCHANGED shareVars
  PROVE  ShareTypeOK'
<1> USE ShareAssumption DEF ShareTypeOK
<1>1. EmptyShareFile \in ShareFile /\ EmptyShareFile # NoFile
  BY PartsAssumption DEF EmptyShareFile, ShareFile, Data
<1>2. CASE OpenPartial(h, u)
  BY <1>1, <1>2 DEF OpenPartial
<1>3. CASE CloseHandle(h, u) /\ UNCHANGED <<partial, shareFile>>
  BY <1>3 DEF CloseHandle
<1>4. CASE RenamePartial(u) /\ partial[u] # NoFile
  BY <1>4 DEF RenamePartial
<1>5. CASE DeletePartial(u) \/ DeleteShared(u)
  BY <1>5 DEF DeletePartial, DeleteShared
<1>6. CASE UNCHANGED shareVars
  BY <1>6 DEF shareVars
<1> QED BY <1>2, <1>3, <1>4, <1>5, <1>6

LEMMA RangeTyped ==
  ASSUME ShareTypeOK, NEW u \in Upload, NEW h, NEW p \in Part, NEW body \in Data,
         \/ WriteSome(h, u, p, body)
         \/ /\ WriteRange(h, u, p, body)
            /\ UNCHANGED <<partialOpen, sharedOpen>> \/ CloseHandle(h, u)
  PROVE  ShareTypeOK'
<1> Torn \in Data /\ p \in 0 .. TotalParts /\ p + 1 \in 0 .. TotalParts
  BY PartsAssumption DEF Data, Part
<1>1. CASE WriteSome(h, u, p, body)
  <2>1. PICK content \in Data : WriteTo(h, u, p, p, content)
    BY <1>1 DEF WriteSome
  <2> QED BY <1>1, <2>1, WriteTyped DEF WriteSome
<1>2. CASE WriteRange(h, u, p, body)
  <2>1. PICK content \in Data : WriteTo(h, u, p, p + 1, content)
    BY <1>2 DEF WriteRange
  <2> QED BY <1>2, <2>1, WriteTyped DEF WriteSome
<1> QED BY <1>1, <1>2

-----------------------------------------------------------------------------
\* Types: the attempts.

AttemptState == [lock : Lock \cup {0}, tries : 0 .. MaxAttempts]

AttemptInv == /\ smb \in [Task -> AttemptState]
              /\ \A t \in Task : task[t].pc \in Storing \ {"enter"} => smb[t].tries > 0
              /\ TriesInv

\* A task goes on, with attempts that fit where it gets.
LEMMA AttemptGoesOn ==
  ASSUME AttemptInv, NEW t \in Task, NEW a \in AttemptState, smb' = [smb EXCEPT ![t] = a],
         \A s \in Task \ {t} : task'[s] = task[s],
         task'[t].pc \in Storing \ {"enter"} => a.tries > 0,
         task'[t].pc \notin Storing => a = NoAttempt,
         task'[t].pc = "create" => task'[t].next \in Part
  PROVE  AttemptInv'
<1>1. /\ smb' \in [Task -> AttemptState] /\ smb'[t] = a
      /\ \A s \in Task \ {t} : smb'[s] = smb[s]
  BY DEF AttemptInv
<1>2. ASSUME NEW s \in Task
      PROVE  /\ task'[s].pc \in Storing \ {"enter"} => smb'[s].tries > 0
             /\ task'[s].pc \notin Storing => smb'[s] = NoAttempt
             /\ task'[s].pc = "create" => task'[s].next \in Part
  <2>1. CASE s = t
    BY <1>1, <2>1
  <2>2. CASE s # t
    BY <1>1, <2>2 DEF AttemptInv, TriesInv
  <2> QED BY <2>1, <2>2
<1> QED BY <1>1, <1>2 DEF AttemptInv, TriesInv

\* Outside finalize_upload, from wherever to wherever, a task has no attempts.
LEMMA OutsideAttempts ==
  ASSUME AttemptInv, UNCHANGED smb,
         \A t \in Task : \/ task'[t] = task[t]
                         \/ task[t].pc \notin Storing /\ task'[t].pc \notin Storing \ {"enter"}
  PROVE  AttemptInv'
<1>1. ASSUME NEW t \in Task
      PROVE  /\ task'[t].pc \in Storing \ {"enter"} => smb'[t].tries > 0
             /\ task'[t].pc \notin Storing => smb'[t] = NoAttempt
             /\ task'[t].pc = "create" => task'[t].next \in Part
  <2>1. CASE task'[t] = task[t]
    BY <2>1 DEF AttemptInv, TriesInv
  <2>2. CASE task[t].pc \notin Storing /\ task'[t].pc \notin Storing \ {"enter"}
    BY <2>2 DEF AttemptInv, TriesInv, NoAttempt, MaxAttempts, Storing
  <2> QED BY <2>1, <2>2
<1> QED BY <1>1 DEF AttemptInv, TriesInv

\* What the steps of UploadServer, outside the calls of the backend, do to tasks.
LEMMA OutsideTasks ==
  ASSUME TypeOK, FinalizerOutside(Storing \cup {"check"}), NEW t \in Task
  PROVE  \/ task'[t] = task[t]
         \/ /\ task[t].pc \notin Storing \cup {"check"}
            /\ task'[t].pc \in {"idle", "queued", "check", "notify"}
<1>a. TaskTypeOK
  BY DEF TypeOK, FinalizerTypeOK
<1>b. /\ UNCHANGED <<ingestVars, removalVars, crashes>> /\ FinalizerNext
      /\ \A s \in Task : task[s].pc \in Storing \cup {"check"} => task'[s] = task[s]
  BY DEF FinalizerOutside
<1>1. ASSUME NEW c \in Completer,
             (\E u \in Upload : CompleteStart(c, u)) \/ CompleterStep(c) \/ CompleteDbError(c)
      PROVE  \/ UNCHANGED task
             \/ \E s \in Task : \E u : Spawned(s, u)
  BY <1>1, <1>b, CompleterSummary
<1>2. ASSUME NEW s \in Task, NEW u, Spawned(s, u)
      PROVE  \/ task'[t] = task[t]
             \/ task[t].pc = "idle" /\ task'[t].pc = "queued"
  BY <1>2 DEF Spawned
<1>3. ASSUME NEW s \in Task, TaskBegin(s) \/ TaskStep(s) \/ TaskFault(s)
      PROVE  \/ task'[t] = task[t]
             \/ task[t].pc \notin Storing \cup {"check"} /\ task'[t].pc \in {"idle", "check", "notify"}
  <2>1. CASE FileStep(s) \/ TaskCheck(s) \/ TaskCheckDbError(s)
    <3>1. task[s].pc \in Storing \cup {"check"} /\ task'[s] # task[s]
      BY <1>a, <2>1, TaskMoves, FileStepMoves DEF TaskCheck, TaskCheckDbError
    <3> QED BY <1>b, <3>1
  <2>2. CASE TaskBegin(s) \/ TaskMarkComplete(s) \/ TaskMarkFailed(s) \/ TaskNotify(s)
             \/ TaskBeginDbError(s) \/ TaskMarkDbError(s)
    <3>1. /\ task[s].pc \in {"queued", "mark_ok", "mark_fail", "notify"}
          /\ TaskReturn(s) \/ TaskGoto(s, "check") \/ TaskGoto(s, "notify")
      BY <2>2 DEF TaskBegin, TaskMarkComplete, TaskMarkFailed, TaskNotify, TaskBeginDbError,
                  TaskMarkDbError
    <3> QED BY <1>a, <3>1, TaskMoves DEF Storing
  <2> QED BY <1>3, <2>1, <2>2 DEF TaskStep, TaskFault, FileStep
<1>4. CASE \/ \E s \in Task : Heartbeat(s)
           \/ \E u \in Upload : LateBeat(u) \/ GoStale(u)
  BY <1>4 DEF Heartbeat, LateBeat, GoStale, finalizerVars
<1> QED BY <1>1, <1>2, <1>3, <1>4, <1>b DEF FinalizerNext, Storing

\* get_upload_lock finds or makes a lock.
LEMMA FreeLock ==
  ASSUME smb \in [Task -> AttemptState], NEW t \in Task, smb[t].lock = 0
  PROVE  \E l \in Lock : \A s \in Task : smb[s].lock # 0 => smb[s].lock # l
<1> DEFINE users == {s \in Task : smb[s].lock # 0}
           taken == [s \in users |-> smb[s].lock]
           Taken == {smb[s].lock : s \in users}
<1>1. IsFiniteSet(Task) /\ users \subseteq Task \ {t}
  BY TaskAssumption
<1>2. /\ IsFiniteSet(Task \ {t}) /\ Cardinality(Task \ {t}) = Cardinality(Task) - 1
      /\ Cardinality(Task) \in Nat
  BY <1>1, FS_RemoveElement, FS_CardinalityType
<1>3. IsFiniteSet(users) /\ Cardinality(users) <= Cardinality(Task) - 1
  BY <1>1, <1>2, FS_Subset
<1>4. taken \in Surjection(users, Taken)
  BY DEF Surjection
<1>5. IsFiniteSet(Taken) /\ Cardinality(Taken) <= Cardinality(users)
  BY <1>3, <1>4, FS_Surjection
<1>6. Cardinality(Lock) = Cardinality(Task) /\ IsFiniteSet(Lock)
  BY <1>2, FS_Interval DEF Lock
<1>7. ~(Lock \subseteq Taken)
  <2>1. ASSUME Lock \subseteq Taken PROVE Cardinality(Lock) <= Cardinality(Taken)
    BY <1>5, <2>1, FS_Subset
  <2>2. /\ Cardinality(Taken) \in Nat /\ Cardinality(users) \in Nat
    BY <1>3, <1>5, FS_CardinalityType
  <2> QED BY <1>2, <1>3, <1>5, <1>6, <2>1, <2>2
<1> QED BY <1>7

LEMMA EnterAttempt ==
  ASSUME AttemptInv, lockEntry \in [Upload -> Lock \cup {0}], TaskTypeOK,
         NEW t \in Task, SmbEnter(t)
  PROVE  AttemptInv' /\ lockEntry' \in [Upload -> Lock \cup {0}]
<1> DEFINE u == task[t].u
           users == {s \in Task : smb[s].lock # 0}
           alive == \E s \in users : task[s].u = u /\ smb[s].lock = lockEntry[u]
           lock == IF alive THEN lockEntry[u]
                   ELSE CHOOSE l \in Lock : \A s \in users : smb[s].lock # l
<1>1. /\ task[t].pc = "enter" /\ smb[t].lock = 0 /\ UNCHANGED task
      /\ smb' = [smb EXCEPT ![t].lock = lock] /\ lockEntry' = [lockEntry EXCEPT ![u] = lock]
  BY DEF SmbEnter
<1>2. u \in Upload
  BY <1>1 DEF TaskTypeOK
<1>3. smb \in [Task -> AttemptState]
  BY DEF AttemptInv
<1>4. lock \in Lock
  <2>1. CASE alive
    BY <1>2, <1>3, <2>1
  <2>2. CASE ~alive
    <3>1. \E l \in Lock : \A s \in users : smb[s].lock # l
      BY <1>1, <1>3, FreeLock
    <3> QED BY <2>2, <3>1
  <2> QED BY <2>1, <2>2
<1> HIDE DEF lock
<1>5. [smb[t] EXCEPT !.lock = lock] \in AttemptState /\ [smb[t] EXCEPT !.lock = lock].tries = smb[t].tries
  BY <1>3, <1>4 DEF AttemptState
<1>6. smb' = [smb EXCEPT ![t] = [smb[t] EXCEPT !.lock = lock]]
  BY <1>1
<1>7. AttemptInv'
  BY <1>1, <1>5, <1>6, AttemptGoesOn DEF AttemptInv, TriesInv, Storing
<1> QED BY <1>1, <1>2, <1>4, <1>7

LEMMA FailedAttempt ==
  ASSUME AttemptInv, TaskTypeOK, NEW t \in Task, NEW n \in 0 .. MaxAttempts,
         AttemptFailed(t, n) \/ GiveUp(t)
  PROVE  AttemptInv'
<1>1. smb \in [Task -> AttemptState]
  BY DEF AttemptInv
<1>2. CASE GiveUp(t)
  <2>1. NoAttempt \in AttemptState
    BY DEF NoAttempt, AttemptState, MaxAttempts
  <2>2. task'[t].pc = "mark_fail" /\ \A s \in Task \ {t} : task'[s] = task[s]
    BY <1>2, TaskMoves DEF GiveUp
  <2> QED BY <1>2, <2>1, <2>2, AttemptGoesOn DEF GiveUp, Storing
<1>3. CASE AttemptFailed(t, n)
  <2>1. smb' = [smb EXCEPT ![t] = [smb[t] EXCEPT !.tries = n]]
    BY <1>3 DEF AttemptFailed
  <2>2. [smb[t] EXCEPT !.tries = n] \in AttemptState /\ [smb[t] EXCEPT !.tries = n].tries = n
    BY <1>1 DEF AttemptState
  <2>3. task'[t].pc = "enter" /\ \A s \in Task \ {t} : task'[s] = task[s]
    BY <1>3, TaskMoves DEF AttemptFailed
  <2> QED BY <2>1, <2>2, <2>3, AttemptGoesOn DEF Storing
<1> QED BY <1>2, <1>3

LEMMA CallAttempts ==
  ASSUME SmbInv, AttemptInv, NEW t \in Task, SmbCall(t)
  PROVE  AttemptInv'
<1>a. TaskTypeOK /\ ShareTypeOK
  BY DEF SmbInv, ServerInv, TypeOK, FinalizerTypeOK, SmbTypeOK
<1>b. smb \in [Task -> AttemptState] /\ smb[t] \in AttemptState
  BY DEF AttemptInv
<1>c. task[t].pc # "idle" => task[t].u \in Upload
  BY <1>a DEF TaskTypeOK
<1>d. smb[t] = [smb[t] EXCEPT !.tries = smb[t].tries] /\ smb = [smb EXCEPT ![t] = smb[t]]
  BY <1>b DEF AttemptState
<1>1. CASE SmbRefused(t)
  BY <1>1, <1>a, TaskMoves, OutsideAttempts DEF SmbRefused, remoteVars, attemptVars, Storing
<1>2. CASE SmbConnectFail(t)
  <2>1. smb[t].tries + 1 \in 0 .. MaxAttempts
    BY <1>2, <1>b DEF SmbConnectFail, Attempts, AttemptState, MaxAttempts
  <2> QED BY <1>2, <1>a, <2>1, FailedAttempt DEF SmbConnectFail
<1>3. CASE SmbAttempt(t)
  <2>1. PICK size \in {PartialSize(task[t].u), 0} :
           task' = [task EXCEPT ![t] =
                      [@ EXCEPT !.pc = IF size = TotalParts THEN "rename" ELSE "create",
                                !.next = size]]
    BY <1>3 DEF SmbAttempt
  <2>2. task[t].pc = "enter" /\ task[t].u \in Upload /\ smb[t].tries < MaxAttempts
    BY <1>3, <1>a DEF SmbAttempt, Attempts, TaskTypeOK
  <2>3. size \in 0 .. TotalParts
    BY <1>a, <2>2, SizeTyped, PartsAssumption
  <2>4. smb' = [smb EXCEPT ![t] = [smb[t] EXCEPT !.tries = smb[t].tries + 1]]
    BY <1>3 DEF SmbAttempt
  <2>5. /\ [smb[t] EXCEPT !.tries = smb[t].tries + 1] \in AttemptState
        /\ [smb[t] EXCEPT !.tries = smb[t].tries + 1].tries > 0
    BY <1>b, <2>2 DEF AttemptState, MaxAttempts
  <2>6. /\ \A s \in Task \ {t} : task'[s] = task[s]
        /\ task'[t].pc = IF size = TotalParts THEN "rename" ELSE "create"
        /\ task'[t].next = size
    BY <1>a, <2>1 DEF TaskTypeOK, TaskState
  <2>7. size # TotalParts => size \in Part
    BY <2>3, PartsAssumption DEF Part
  <2> QED BY <2>4, <2>5, <2>6, <2>7, AttemptGoesOn DEF Storing
<1>4. ASSUME task[t].pc \in Storing \ {"enter"}, UNCHANGED smb,
             task'[t].pc \in {"append", "close", "rename", "purge"}, \A s \in Task \ {t} : task'[s] = task[s]
      PROVE  AttemptInv'
  <2>1. smb[t].tries > 0
    BY <1>4 DEF AttemptInv
  <2> QED BY <1>4, <1>b, <1>d, <2>1, AttemptGoesOn DEF Storing
<1>5. CASE SmbOpen(t) \/ SmbClose(t)
  BY <1>4, <1>5, <1>a, TaskMoves DEF SmbOpen, SmbClose, attemptVars, Storing
<1>6. CASE SmbStream(t) /\ partFile[task[t].u][task[t].next] # NoFile
  <2>1. /\ task[t].pc = "append" /\ UNCHANGED smb
        /\ task' = [task EXCEPT ![t] =
                      [@ EXCEPT !.pc = IF LastPart(task[t].next) THEN "close" ELSE "append",
                                !.next = task[t].next + 1]]
    BY <1>6 DEF SmbStream
  <2> QED BY <1>4, <1>a, <2>1 DEF TaskTypeOK, TaskState, Storing
<1>7. CASE SmbStreamFail(t) \/ (SmbStream(t) /\ partFile[task[t].u][task[t].next] = NoFile)
  <2>1. smb[t].tries \in 0 .. MaxAttempts /\ AttemptFailed(t, smb[t].tries)
    BY <1>7, <1>b DEF SmbStreamFail, SmbStream, AttemptState
  <2> QED BY <1>a, <2>1, FailedAttempt
<1>8. CASE SmbRename(t) \/ SmbRenameFail(t)
  <2>1. /\ task[t].pc = "rename"
        /\ AttemptFailed(t, MaxAttempts) \/ (UNCHANGED smb /\ TaskGoto(t, "purge"))
    BY <1>8 DEF SmbRename, SmbRenameFail
  <2>2. MaxAttempts \in 0 .. MaxAttempts
    BY DEF MaxAttempts
  <2> QED BY <1>4, <1>a, <2>1, <2>2, TaskMoves, FailedAttempt DEF Storing
<1>9. CASE SmbPurge(t)
  <2>1. smb' = [smb EXCEPT ![t] = NoAttempt] /\ NoAttempt \in AttemptState
    BY <1>9 DEF SmbPurge, NoAttempt, AttemptState, MaxAttempts
  <2>2. task'[t].pc = "mark_ok" /\ \A s \in Task \ {t} : task'[s] = task[s]
    BY <1>9, <1>a, TaskMoves DEF SmbPurge
  <2> QED BY <2>1, <2>2, AttemptGoesOn DEF Storing
<1>10. CASE SmbGiveUp(t)
  <2>1. 0 \in 0 .. MaxAttempts
    BY DEF MaxAttempts
  <2> QED BY <1>10, <1>a, <2>1, FailedAttempt DEF SmbGiveUp
<1> QED BY <1>1, <1>2, <1>3, <1>5, <1>6, <1>7, <1>8, <1>9, <1>10 DEF SmbCall

LEMMA AttemptNext == SmbInv /\ [SmbNext]_smbServerVars => AttemptInv'
<1> SUFFICES ASSUME SmbInv, [SmbNext]_smbServerVars PROVE AttemptInv'
  OBVIOUS
<1>a. /\ AttemptInv /\ TypeOK /\ TaskTypeOK /\ lockEntry \in [Upload -> Lock \cup {0}]
  BY DEF SmbInv, SmbTypeOK, AttemptInv, AttemptState, ServerInv, TypeOK, FinalizerTypeOK
<1>1. CASE UNCHANGED <<task, smb>>
  BY <1>1, <1>a, OutsideAttempts
<1>2. CASE CommonNext
  <2>1. UNCHANGED smb
    BY <1>2 DEF CommonNext, remoteVars, attemptVars
  <2>2. CASE FinalizerOutside(Storing \cup {"check"})
    BY <1>a, <2>1, <2>2, OutsideTasks, OutsideAttempts DEF Storing
  <2>3. CASE RequestNext \/ RemovalOutside
    BY <1>1, <2>1, <2>3 DEF RequestNext, RemovalOutside, Expire, finalizerVars
  <2> QED BY <1>2, <2>2, <2>3 DEF CommonNext
<1>3. ASSUME NEW t \in Task, SmbTaskStep(t) \/ SmbConnectFail(t) \/ SmbStreamFail(t) \/ SmbRenameFail(t)
      PROVE  AttemptInv'
  <2>1. CASE SmbCheck(t)
    <3>1. /\ task[t].pc = "check" /\ UNCHANGED smb
          /\ TaskGoto(t, "mark_fail") \/ TaskGoto(t, "enter")
      BY <2>1 DEF SmbCheck, TaskCheck, remoteVars, attemptVars
    <3> QED BY <1>a, <3>1, TaskMoves, OutsideAttempts DEF Storing
  <2>2. CASE SmbEnter(t)
    BY <1>a, <2>2, EnterAttempt
  <2>3. CASE SmbCall(t)
    BY <1>a, <2>3, CallAttempts
  <2> QED BY <1>3, <2>1, <2>2, <2>3 DEF SmbTaskStep, SmbCall
<1>4. ASSUME NEW t \in Task, SmbStreamSome(t) PROVE UNCHANGED <<task, smb>>
  BY <1>4 DEF SmbStreamSome, attemptVars
<1>5. ASSUME NEW w \in Writer, StorePart(w) PROVE UNCHANGED <<task, smb>>
  BY <1>5 DEF StorePart, finalizerVars, attemptVars
<1>6. ASSUME NEW s \in Syncer, SyncStep(s) \/ SyncSome(s) \/ SyncFail(s) PROVE UNCHANGED <<task, smb>>
  BY <1>6 DEF SyncStep, SyncOpen, SyncEnd, SyncSome, SyncFail, vars, finalizerVars, attemptVars
<1>7. ASSUME NEW d \in Canceller,
             CancelErase(d) \/ SmbCancelPurge(d) \/ SmbCancelUnlink(d) \/ SmbCancelAbort(d)
      PROVE  UNCHANGED <<task, smb>>
  BY <1>7 DEF CancelErase, SmbCancelPurge, SmbCancelUnlink, SmbCancelAbort, RemovalFrame, finalizerVars
<1>8. ASSUME CleanErase \/ SmbCleanPurge PROVE UNCHANGED <<task, smb>>
  BY <1>8 DEF CleanErase, SmbCleanPurge, RemovalFrame, finalizerVars
<1>9. CASE SmbCrashRestart
  <2>1. \A t \in Task : task'[t].pc \in {"idle", "queued"}
    BY <1>9, CrashSummary DEF SmbCrashRestart, SmbInv, ServerInv
  <2>2. smb' = [t \in Task |-> NoAttempt]
    BY <1>9 DEF SmbCrashRestart
  <2>3. NoAttempt \in AttemptState
    BY DEF NoAttempt, AttemptState, MaxAttempts
  <2> QED BY <2>1, <2>2, <2>3 DEF AttemptInv, TriesInv, Storing
<1>10. CASE UNCHANGED smbServerVars
  BY <1>1, <1>10 DEF smbServerVars, vars, finalizerVars, remoteVars, attemptVars
<1> QED BY <1>1, <1>2, <1>3, <1>4, <1>5, <1>6, <1>7, <1>8, <1>9, <1>10 DEF SmbNext

-----------------------------------------------------------------------------
\* Types: the rest.

SyncState == [pc : {"idle", "queued", "open", "half"}, u : Upload \cup {None}, p : Part, body : Data]

SyncTypeOK == sync \in [Syncer -> SyncState] /\ SyncInv

LEMMA CallShare ==
  ASSUME SmbInv, NEW t \in Task, SmbCall(t) \/ SmbStreamSome(t) \/ SmbEnter(t)
  PROVE  ShareTypeOK'
<1> DEFINE u == task[t].u
<1>a. TaskTypeOK /\ StorageTypeOK /\ ShareTypeOK
  BY DEF SmbInv, ServerInv, TypeOK, FinalizerTypeOK, SmbTypeOK
<1>b. task[t].pc # "idle" => u \in Upload
  BY <1>a DEF TaskTypeOK
<1>c. task[t].pc = "append" => task[t].next \in Part
  BY <1>a DEF TaskTypeOK
<1>d. \A p \in Part : u \in Upload /\ partFile[u][p] # NoFile => partFile[u][p] \in Data
  BY <1>a DEF StorageTypeOK
<1>1. CASE UNCHANGED shareVars
  BY <1>1, <1>a DEF ShareTypeOK, shareVars
<1>2. CASE SmbOpen(t)
  BY <1>2, <1>a, <1>b, ShareTyped DEF SmbOpen
<1>3. CASE SmbStreamSome(t)
  BY <1>3, <1>a, <1>b, <1>c, <1>d, RangeTyped DEF SmbStreamSome
<1>4. CASE SmbStream(t) /\ partFile[u][task[t].next] # NoFile
  BY <1>4, <1>a, <1>b, <1>c, <1>d, RangeTyped DEF SmbStream
<1>5. CASE SmbStreamFail(t) \/ (SmbStream(t) /\ partFile[u][task[t].next] = NoFile)
  BY <1>5, <1>a, <1>b, ShareTyped DEF SmbStreamFail, SmbStream
<1>6. CASE SmbRename(t) \/ SmbRenameFail(t)
  <2>1. /\ task[t].pc = "rename"
        /\ UNCHANGED shareVars \/ (RenamePartial(u) /\ partial[u] # NoFile)
    BY <1>6 DEF SmbRename, SmbRenameFail
  <2> QED BY <1>a, <1>b, <2>1, ShareTyped
<1>7. CASE SmbClose(t)
  BY <1>7, <1>a, <1>b, ShareTyped DEF SmbClose
<1> QED BY <1>1, <1>2, <1>3, <1>4, <1>5, <1>6, <1>7
        DEF SmbCall, SmbRefused, remoteVars, SmbConnectFail, SmbAttempt, SmbEnter, SmbPurge,
            SmbGiveUp

\* Removals delete files of the share.
LEMMA RemovalShare ==
  ASSUME RemovalTypeOK,
         \/ \E d \in Canceller : \/ CancelErase(d) \/ SmbCancelPurge(d)
                                 \/ SmbCancelUnlink(d) \/ SmbCancelAbort(d)
         \/ CleanErase \/ SmbCleanPurge
  PROVE  \/ UNCHANGED shareVars
         \/ \E d \in Canceller : /\ canceller[d].pc \in {"purge", "unlink"}
                                 /\ DeletePartial(canceller[d].u) \/ DeleteShared(canceller[d].u)
         \/ \E u \in cleaner.todo : DeletePartial(u)
<1>1. ASSUME NEW d \in Canceller, CancelErase(d) \/ SmbCancelUnlink(d) \/ SmbCancelAbort(d)
      PROVE  \/ UNCHANGED shareVars
             \/ /\ canceller[d].pc \in {"purge", "unlink"}
                /\ DeletePartial(canceller[d].u) \/ DeleteShared(canceller[d].u)
  BY <1>1 DEF CancelErase, ErasePartial, SmbCancelUnlink, SmbCancelAbort
<1>2. ASSUME CleanErase PROVE UNCHANGED shareVars \/ \E u \in cleaner.todo : DeletePartial(u)
  BY <1>2 DEF CleanErase, ErasePartial
<1> QED BY <1>1, <1>2 DEF SmbCancelPurge, SmbCleanPurge

LEMMA ShareNext == SmbInv /\ [SmbNext]_smbServerVars => ShareTypeOK'
<1> SUFFICES ASSUME SmbInv, [SmbNext]_smbServerVars PROVE ShareTypeOK'
  OBVIOUS
<1>a. /\ ShareTypeOK /\ RemovalTypeOK /\ sync \in [Syncer -> SyncState] /\ SyncInv
  BY DEF SmbInv, SmbTypeOK, ServerInv, TypeOK, SyncState
<1>1. CASE UNCHANGED shareVars
  BY <1>1, <1>a DEF ShareTypeOK, shareVars
<1>2. ASSUME NEW t \in Task, SmbTaskStep(t) \/ SmbConnectFail(t) \/ SmbStreamSome(t)
                              \/ SmbStreamFail(t) \/ SmbRenameFail(t)
      PROVE  ShareTypeOK'
  <2>1. CASE SmbCheck(t)
    BY <1>1, <2>1 DEF SmbCheck, remoteVars
  <2> QED BY <1>2, <2>1, CallShare DEF SmbTaskStep, SmbCall
<1>3. ASSUME NEW s \in Syncer, SyncStep(s) \/ SyncSome(s) \/ SyncFail(s) PROVE ShareTypeOK'
  <2>1. sync[s].p \in Part /\ sync[s].body \in Data
    BY <1>a DEF SyncState
  <2>2. sync[s].u \in Upload
    BY <1>3, <1>a DEF SyncStep, SyncOpen, SyncEnd, SyncSome, SyncFail, SyncInv
  <2>3. CASE SyncOpen(s) \/ SyncFail(s)
    BY <1>a, <2>2, <2>3, ShareTyped DEF SyncOpen, SyncFail
  <2>4. CASE SyncEnd(s) \/ SyncSome(s)
    BY <1>a, <2>1, <2>2, <2>4, RangeTyped DEF SyncEnd, SyncSome
  <2> QED BY <1>3, <2>3, <2>4 DEF SyncStep
<1>4. CASE \/ \E d \in Canceller : \/ CancelErase(d) \/ SmbCancelPurge(d)
                                  \/ SmbCancelUnlink(d) \/ SmbCancelAbort(d)
          \/ CleanErase \/ SmbCleanPurge
  <2>1. \/ UNCHANGED shareVars
        \/ \E u \in Upload : DeletePartial(u) \/ DeleteShared(u)
    BY <1>4, <1>a, RemovalShare DEF RemovalTypeOK
  <2>2. ASSUME NEW u \in Upload, DeletePartial(u) \/ DeleteShared(u) PROVE ShareTypeOK'
    BY <2>2, <1>a DEF DeletePartial, DeleteShared, ShareTypeOK
  <2> QED BY <1>1, <2>1, <2>2
<1>5. CASE SmbCrashRestart
  BY <1>5, <1>a DEF SmbCrashRestart, ShareTypeOK
<1>6. CASE CommonNext \/ (\E w \in Writer : StorePart(w)) \/ UNCHANGED smbServerVars
  BY <1>1, <1>6 DEF CommonNext, StorePart, smbServerVars, remoteVars
<1> QED BY <1>2, <1>3, <1>4, <1>5, <1>6 DEF SmbNext

LEMMA SyncNext == SmbInv /\ [SmbNext]_smbServerVars => SyncTypeOK'
<1> SUFFICES ASSUME SmbInv, [SmbNext]_smbServerVars PROVE SyncTypeOK'
  OBVIOUS
<1>a. SyncTypeOK /\ TypeOK
  BY DEF SmbInv, SmbTypeOK, SyncState, SyncTypeOK, ServerInv
<1>b. NoSync \in SyncState
  BY PartNat DEF NoSync, SyncState, Data
<1>1. CASE UNCHANGED sync
  BY <1>1, <1>a DEF SyncTypeOK, SyncInv
<1>2. ASSUME NEW w \in Writer, StorePart(w) PROVE SyncTypeOK'
  <2>1. put[w].u \in Upload /\ put[w].p \in Part /\ put[w].body \in Data
    BY <1>2, <1>a, SendingTyped DEF StorePart, PutWrite, Sending, Data
  <2>2. PICK s \in Syncer :
          sync' = [sync EXCEPT ![s] = [pc |-> "queued", u |-> put[w].u,
                                       p |-> put[w].p, body |-> put[w].body]]
    BY <1>2 DEF StorePart
  <2> QED BY <1>a, <2>1, <2>2 DEF SyncTypeOK, SyncState, SyncInv
<1>3. ASSUME NEW s \in Syncer, SyncStep(s) \/ SyncSome(s) \/ SyncFail(s) PROVE SyncTypeOK'
  <2>1. /\ sync[s].pc # "idle"
        /\ \/ sync' = [sync EXCEPT ![s].pc = "open"] \/ sync' = [sync EXCEPT ![s].pc = "half"]
           \/ sync' = [sync EXCEPT ![s] = NoSync]
    BY <1>3 DEF SyncStep, SyncOpen, SyncEnd, SyncSome, SyncFail
  <2> QED BY <1>a, <1>b, <2>1 DEF SyncTypeOK, SyncState, SyncInv, NoSync
<1>4. ASSUME NEW t \in Task, SmbTaskStep(t) \/ SmbConnectFail(t) \/ SmbStreamSome(t)
                              \/ SmbStreamFail(t) \/ SmbRenameFail(t)
      PROVE  UNCHANGED sync
  BY <1>4 DEF SmbTaskStep, SmbCheck, SmbEnter, SmbAttempt, SmbOpen, SmbStream, SmbClose, SmbRename,
              SmbPurge, SmbGiveUp, SmbConnectFail, SmbStreamSome, SmbStreamFail, SmbRenameFail,
              FinalizeFrame, remoteVars
<1>5. ASSUME \/ \E d \in Canceller : \/ CancelErase(d) \/ SmbCancelPurge(d)
                                     \/ SmbCancelUnlink(d) \/ SmbCancelAbort(d)
             \/ CleanErase \/ SmbCleanPurge
      PROVE  UNCHANGED sync
  BY <1>5 DEF CancelErase, SmbCancelPurge, SmbCancelUnlink, SmbCancelAbort, CleanErase,
              SmbCleanPurge, RemovalFrame
<1>6. CASE SmbCrashRestart
  BY <1>6, <1>b DEF SmbCrashRestart, SyncTypeOK, SyncInv, NoSync
<1>7. CASE CommonNext \/ UNCHANGED smbServerVars
  BY <1>1, <1>7 DEF CommonNext, smbServerVars, remoteVars
<1> QED BY <1>1, <1>2, <1>3, <1>4, <1>5, <1>6, <1>7 DEF SmbNext

HistoryTypeOK == /\ lockEntry \in [Upload -> Lock \cup {0}]
                 /\ erased \in SUBSET Canceller
                 /\ erasing \in Upload \cup {None}
                 /\ gapped \in [Upload -> BOOLEAN]

LEMMA HistoryNext == SmbInv /\ [SmbNext]_smbServerVars => HistoryTypeOK'
<1> SUFFICES ASSUME SmbInv, [SmbNext]_smbServerVars PROVE HistoryTypeOK'
  OBVIOUS
<1>a. HistoryTypeOK /\ AttemptInv /\ TaskTypeOK /\ RemovalTypeOK
  BY DEF SmbInv, SmbTypeOK, AttemptInv, AttemptState, HistoryTypeOK, ServerInv, TypeOK, FinalizerTypeOK
<1> USE DEF HistoryTypeOK
<1>1. CASE UNCHANGED <<lockEntry, erased, erasing, gapped>>
  BY <1>1, <1>a
<1>2. ASSUME NEW t \in Task, SmbTaskStep(t) \/ SmbConnectFail(t) \/ SmbStreamSome(t)
                              \/ SmbStreamFail(t) \/ SmbRenameFail(t)
      PROVE  HistoryTypeOK'
  <2>1. UNCHANGED <<erased, erasing>>
    BY <1>2 DEF SmbTaskStep, SmbCheck, SmbEnter, SmbAttempt, SmbOpen, SmbStream, SmbClose, SmbRename,
                SmbPurge, SmbGiveUp, SmbConnectFail, SmbStreamSome, SmbStreamFail, SmbRenameFail,
                FinalizeFrame, remoteVars, eraseVars
  <2>2. CASE SmbEnter(t)
    BY <1>a, <2>1, <2>2, EnterAttempt DEF SmbEnter
  <2>3. CASE SmbAttempt(t)
    <3>1. UNCHANGED lockEntry
          /\ \E b \in BOOLEAN : gapped' = [gapped EXCEPT ![task[t].u] = b]
      BY <1>a, <2>3 DEF SmbAttempt
    <3> QED BY <1>a, <2>1, <3>1
  <2>4. CASE SmbPurge(t)
    BY <1>a, <2>1, <2>4 DEF SmbPurge
  <2> QED BY <1>1, <1>2, <2>1, <2>2, <2>3, <2>4
          DEF SmbTaskStep, SmbCheck, SmbOpen, SmbStream, SmbClose, SmbRename, SmbGiveUp,
              SmbConnectFail, SmbStreamSome, SmbStreamFail, SmbRenameFail, attemptVars, remoteVars
<1>3. CASE \/ \E d \in Canceller : \/ CancelErase(d) \/ SmbCancelPurge(d)
                                  \/ SmbCancelUnlink(d) \/ SmbCancelAbort(d)
          \/ CleanErase \/ SmbCleanPurge
  <2>1. UNCHANGED gapped
    BY <1>3 DEF CancelErase, SmbCancelPurge, SmbCancelUnlink, SmbCancelAbort, CleanErase,
                SmbCleanPurge, RemovalFrame
  <2>2. ASSUME NEW d \in Canceller,
               CancelErase(d) \/ SmbCancelPurge(d) \/ SmbCancelUnlink(d) \/ SmbCancelAbort(d)
        PROVE  HistoryTypeOK'
    <3>1. /\ erased' \in {erased, erased \cup {d}, erased \ {d}} /\ UNCHANGED erasing
          /\ UNCHANGED lockEntry \/ DropLockEntry(canceller[d].u)
      BY <2>2 DEF CancelErase, SmbCancelPurge, SmbCancelUnlink, SmbCancelAbort, eraseVars
    <3> QED BY <1>a, <2>1, <3>1 DEF DropLockEntry
  <2>3. ASSUME CleanErase \/ SmbCleanPurge PROVE HistoryTypeOK'
    <3>1. /\ erasing' \in Upload \cup {None} /\ UNCHANGED erased
          /\ UNCHANGED lockEntry \/ DropLockEntry(erasing)
      BY <1>a, <2>3 DEF CleanErase, SmbCleanPurge, RemovalTypeOK
    <3> QED BY <1>a, <2>1, <3>1 DEF DropLockEntry
  <2> QED BY <1>3, <2>2, <2>3
<1>4. CASE SmbCrashRestart
  BY <1>4, <1>a DEF SmbCrashRestart
<1>5. CASE CommonNext \/ (\E w \in Writer : StorePart(w)) \/ (\E s \in Syncer : SyncStep(s) \/ SyncSome(s) \/ SyncFail(s))
          \/ UNCHANGED smbServerVars
  BY <1>1, <1>5 DEF CommonNext, StorePart, SyncStep, SyncOpen, SyncEnd, SyncSome, SyncFail,
                    smbServerVars, remoteVars, attemptVars, eraseVars
<1> QED BY <1>2, <1>3, <1>4, <1>5 DEF SmbNext

LEMMA SmbInvNext == SmbInv /\ [SmbNext]_smbServerVars => SmbInv'
<1> SUFFICES ASSUME SmbInv, [SmbNext]_smbServerVars PROVE SmbInv'
  OBVIOUS
<1>1. ServerInv' /\ ShareTypeOK' /\ SyncTypeOK' /\ AttemptInv' /\ HistoryTypeOK'
  BY SmbServerNext, ShareNext, SyncNext, AttemptNext, HistoryNext
<1>2. TypeOK'
  BY <1>1 DEF ServerInv
<1> QED BY <1>1, <1>2
        DEF SmbInv, SmbTypeOK, SyncTypeOK, SyncState, AttemptInv, AttemptState, HistoryTypeOK

LEMMA SmbInvInit == SmbInit => SmbInv
<1> SUFFICES ASSUME SmbInit PROVE SmbInv
  OBVIOUS
<1>1. ServerInv
  BY InitTyped, StartInvInit, ServerInit DEF SmbInit, ServerInv
<1>2. \A t \in Task : task[t] = NoTask
  BY DEF SmbInit, Init, FinalizerInit
<1>3. ShareTypeOK
  BY DEF SmbInit, ShareInit, ShareTypeOK
<1>4. /\ sync \in [Syncer -> SyncState] /\ SyncInv
  BY PartNat DEF SmbInit, NoSync, SyncState, SyncInv, Data
<1>5. smb \in [Task -> AttemptState] /\ \A t \in Task : smb[t] = NoAttempt
  BY DEF SmbInit, NoAttempt, AttemptState, MaxAttempts
<1>6. /\ \A t \in Task : task[t].pc \in Storing \ {"enter"} => smb[t].tries > 0
      /\ TriesInv
  BY <1>2, <1>5 DEF NoTask, TriesInv, Storing
<1>7. HistoryTypeOK
  BY DEF SmbInit, HistoryTypeOK
<1> QED BY <1>1, <1>3, <1>4, <1>5, <1>6, <1>7
        DEF SmbInv, SmbTypeOK, ServerInv, SyncState, AttemptState, HistoryTypeOK

LEMMA SmbInvariant == SmbSpec => []SmbInv
  BY SmbInvInit, SmbInvNext, PTL DEF SmbSpec

\* The variables of the server with the SMB backend keep their types: a task
\* that streams has begun an attempt, no handle outlives its file, and there is
\* a lock for every finalization.
THEOREM SmbTypeCorrect == SmbSpec => []SmbTypeOK
<1>1. SmbInv => SmbTypeOK
  BY DEF SmbInv
<1> QED BY <1>1, SmbInvariant, PTL

\* With the share as with the local disk, what a client sees of an upload goes
\* through the phases of UploadLifecycle, whatever the share does.
THEOREM SmbImplementsLifecycle == SmbSpec => ImplementsLifecycle
<1>1. SmbInit => Lifecycle!Init
  BY InitImplements DEF SmbInit
<1>2. SmbInv /\ [SmbNext]_smbServerVars => [Lifecycle!Next]_(Lifecycle!lifecycleVars)
  BY SmbSteps, StepImplements, CallServer, UnlinkServer DEF SmbInv, AbstractStep
<1> QED BY <1>1, <1>2, SmbInvariant, PTL DEF SmbSpec, ImplementsLifecycle, Lifecycle!Spec

-----------------------------------------------------------------------------
(* What the files on the share hold.  A client sends `file': the bytes of  *)
(* each part of each upload are the same however often it is sent.  A sync *)
(* can run on long after its PUT, behind the rename of the finalization;   *)
(* with other bytes in it the final file would change under its checksums. *)

Sends(file) == \A w \in Writer : Sending(w) => put[w].body = file[put[w].u][put[w].p]

\* What is stored anywhere is of that file, or torn.
ShareFromFile(file) ==
    \A u \in Upload, p \in Part :
        /\ partial[u] # NoFile => partial[u].data[p] \in {file[u][p], Torn}
        /\ shareFile[u] # NoFile => shareFile[u].data[p] \in {file[u][p], Torn}

FromFile(file) ==
    /\ \A u \in Upload, p \in Part : Uploaded(u, p) => parts[u][p] = file[u][p]
    /\ \A u \in Upload, p \in Part : partFile[u][p] \in {file[u][p], Torn, NoFile}
    /\ \A u \in Upload, p \in Part : Bodies(u, p) \subseteq {file[u][p]}
    /\ \A s \in Syncer : sync[s].pc # "idle" => sync[s].body = file[sync[s].u][sync[s].p]
    /\ ShareFromFile(file)

\* Who has a file of the share open: a sync that writes, a task that streams
\* or closes.  No handle denotes two files.
Holds(h, u) == \/ h \in Task /\ task[h].pc \in {"append", "close"} /\ task[h].u = u
               \/ h \in Syncer /\ sync[h].pc \in {"open", "half"} /\ sync[h].u = u

HandleInv ==
    \A u \in Upload : /\ \A h \in partialOpen[u] \cup sharedOpen[u] : Holds(h, u)
                      /\ partialOpen[u] \cap sharedOpen[u] = {}

\* The first n parts are on the share; the final file is.
Prefix(file, u, n) == \A p \in Part : p < n =>
                          partial[u] # NoFile /\ partial[u].data[p] = file[u][p]

FileOnShare(file, u) == /\ shareFile[u] # NoFile
                        /\ \A p \in Part : shareFile[u].data[p] = file[u][p]

\* The parts are kept until the final file has them.
Stored(file, u) ==
    /\ \A p \in Part : Uploaded(u, p) => partFile[u][p] \in {parts[u][p], NoFile}
    /\ \/ \A p \in Part : Uploaded(u, p) => partFile[u][p] = parts[u][p]
       \/ AllUploaded(u) /\ FileOnShare(file, u)

\* A task streams behind a prefix that stays, renames a whole file, and only
\* then removes the parts.
Streams(file, t, u) ==
    /\ task[t].pc \in {"create", "append"} => Prefix(file, u, task[t].next)
    /\ task[t].pc = "append" => t \in partialOpen[u]
    /\ task[t].pc \in {"close", "rename"} => Prefix(file, u, TotalParts)
    /\ task[t].pc \in {"purge", "mark_ok"} => FileOnShare(file, u)

\* The local staging and final files are not used.
NoneOpen(u) == stagingOpen[u] = {} /\ finalOpen[u] = {}

ShareIntact(file, u) ==
    /\ PutsIntact(u) /\ NoneOpen(u) /\ Stored(file, u)
    /\ \A t \in Task : Busy(t, u) => Streams(file, t, u)
    /\ uploads[u].status = "complete" => FileOnShare(file, u)

ShareInv(file) == \A u \in Upload : Undisturbed(u) /\ ~gapped[u] => ShareIntact(file, u)

File == [Upload -> [Part -> Content]]

\* What is recorded or stored is what the client sent.
LEMMA RecordedFrom ==
  ASSUME NEW file \in File, Sends(file), TypeOK, [Next]_vars, NEW u \in Upload, NEW p \in Part,
         Uploaded(u, p)'
  PROVE  parts'[u][p] \in {parts[u][p], file[u][p]}
<1> RepoTypeOK
  BY DEF TypeOK
<1>1. CASE IngestNext
  <2>1. ASSUME NEW v \in Upload, InitParts(v) \/ InitPartsError(v) PROVE parts'[u][p] = parts[u][p]
    BY <2>1, CreatedRows, ValuesAssumption DEF InitParts, InitPartsError, Uploaded
  <2>2. ASSUME NEW w \in Writer, PutMark(w) PROVE parts'[u][p] \in {parts[u][p], file[u][p]}
    <3>1. Sending(w) /\ UpdatePartStatus(put[w].u, put[w].p, put[w].body)
      BY <2>2 DEF PutMark, Sending
    <3>2. put[w].u \in Upload /\ put[w].p \in Part /\ put[w].body = file[put[w].u][put[w].p]
      BY <3>1, SendingTyped DEF Sends
    <3> QED BY <3>1, <3>2 DEF UpdatePartStatus, RepoTypeOK
  <2>3. CASE UNCHANGED parts
    BY <2>3
  <2> QED
    BY <1>1, <2>1, <2>2, <2>3
       DEF IngestNext, InitCreate, CreateUpload, PutStart, PutStep, PutMkdir, PutCreate,
           PutWrite, PutIoError, PutDbError, PutAbort, LateStep, LateMkdir, LateCreate, LateWrite, ingestVars, repoVars
<1>2. CASE RemovalNext
  BY <1>2, RemovalParts, ValuesAssumption DEF Uploaded
<1>3. CASE UNCHANGED parts
  BY <1>3
<1>4. CASE CrashRestart
  BY <1>4 DEF CrashRestart
<1> QED BY <1>1, <1>2, <1>3, <1>4, FinalizerParts DEF Next, Expire, vars, repoVars

\* Operations on part files.
LEMMA PartsDeleted ==
  ASSUME StorageTypeOK, NEW v \in Upload, DeleteParts(v) \/ DeletePartsPartly(v),
         NEW u \in Upload, NEW p \in Part
  PROVE  partFile'[u][p] \in {partFile[u][p], NoFile}
<1>1. partFile \in [Upload -> [Part -> Data \cup {NoFile}]]
  BY DEF StorageTypeOK
<1>2. CASE DeleteParts(v)
  BY <1>1, <1>2 DEF DeleteParts, NoPartFiles
<1>3. CASE DeletePartsPartly(v)
  <2>1. PICK gone \in SUBSET Part :
          partFile' = [partFile EXCEPT
                         ![v] = [q \in Part |-> IF q \in gone THEN NoFile ELSE partFile[v][q]]]
    BY <1>3 DEF DeletePartsPartly
  <2> QED BY <1>1, <2>1
<1> QED BY <1>2, <1>3

\* A dropped write is one of the file.
LEMMA AbandonedFrom ==
  ASSUME NEW file \in File, Sends(file), TypeOK, [Next]_vars, NEW u \in Upload, NEW p \in Part,
         Bodies(u, p) \subseteq {file[u][p]}
  PROVE  Bodies(u, p)' \subseteq {file[u][p]}
<1>1. CASE NoneLater
  BY <1>1 DEF NoneLater
<1>2. ASSUME NEW w \in Writer, PutAbort(w) PROVE Bodies(u, p)' \subseteq {file[u][p]}
  <2>1. Sending(w)
    BY <1>2 DEF PutAbort, Sending
  <2>2. /\ put[w].u \in Upload /\ put[w].p \in Part /\ put[w].body = file[put[w].u][put[w].p]
        /\ put[w].body \in Content
    BY <2>1, SendingTyped DEF Sends
  <2>3. CASE UNCHANGED partOpen
    BY <2>3 DEF Bodies
  <2>4. CASE AbandonWrite(w, put[w].u, put[w].p, put[w].body)
    <3>1. partOpen'[u][p] \subseteq partOpen[u][p] \cup
                                   (IF u = put[w].u /\ p = put[w].p THEN {put[w].body} ELSE {})
      BY <2>2, <2>4 DEF AbandonWrite, TypeOK, StorageTypeOK
    <3> QED BY <2>2, <3>1 DEF Bodies
  <2> QED BY <1>2, <2>3, <2>4 DEF PutAbort, storageVars
<1> QED BY <1>1, <1>2, OnlyDropsLate

LEMMA StoredFrom ==
  ASSUME NEW file \in File, Sends(file), TypeOK, [Next]_vars, NEW u \in Upload, NEW p \in Part,
         \A v \in Upload, q \in Part : Bodies(v, q) \subseteq {file[v][q]}
  PROVE  partFile'[u][p] \in {partFile[u][p], file[u][p], Torn, NoFile}
<1> StorageTypeOK /\ TaskTypeOK /\ RemovalTypeOK
  BY DEF TypeOK, FinalizerTypeOK
<1>1. CASE UNCHANGED partFile
  BY <1>1
<1>2. CASE \E v \in Upload : DeleteParts(v) \/ DeletePartsPartly(v)
  BY <1>2, PartsDeleted
<1>3. CASE IngestNext
  <2>1. ASSUME NEW v \in Upload, NEW q \in Part, NEW openers, CreatePartFile(v, q, openers)
        PROVE  partFile'[u][p] \in {partFile[u][p], Torn}
    BY <2>1 DEF CreatePartFile, StorageTypeOK
  <2>2. ASSUME NEW w \in Writer, Sending(w), WritePartFile(w, put[w].u, put[w].p, put[w].body)
        PROVE  partFile'[u][p] \in {partFile[u][p], file[u][p], Torn}
    <3>1. put[w].u \in Upload /\ put[w].p \in Part /\ put[w].body = file[put[w].u][put[w].p]
      BY <2>2, SendingTyped DEF Sends
    <3>2. \/ UNCHANGED partFile
          \/ \E data \in {put[w].body, Torn} :
                partFile' = [partFile EXCEPT ![put[w].u][put[w].p] = data]
      BY <2>2 DEF WritePartFile, WriteOutcomes
    <3>3. CASE UNCHANGED partFile
      BY <3>3
    <3>4. ASSUME NEW data \in {put[w].body, Torn},
                 partFile' = [partFile EXCEPT ![put[w].u][put[w].p] = data]
          PROVE  partFile'[u][p] \in {partFile[u][p], file[u][p], Torn}
      BY <3>1, <3>4 DEF StorageTypeOK
    <3> QED BY <3>2, <3>3, <3>4
  <2>3. ASSUME NEW w \in Writer, PutStep(w) \/ PutIoError(w) \/ PutDbError(w) \/ PutAbort(w)
        PROVE  \/ UNCHANGED partFile
               \/ Sending(w) /\ CreatePartFile(put[w].u, put[w].p, {w})
               \/ Sending(w) /\ WritePartFile(w, put[w].u, put[w].p, put[w].body)
               \/ Sending(w) /\ BreakOffWrite(w, put[w].u, put[w].p)
    BY <2>3 DEF PutStep, PutMkdir, PutCreate, PutWrite, PutMark, PutIoError, PutDbError, PutAbort,
                Sending, CreatePartsDir, AbandonWrite, storageVars
  <2>4. ASSUME NEW w \in Writer, PutStep(w) \/ PutIoError(w) \/ PutDbError(w) \/ PutAbort(w)
        PROVE  partFile'[u][p] \in {partFile[u][p], file[u][p], Torn}
    <3>1. Sending(w) /\ BreakOffWrite(w, put[w].u, put[w].p)
          => partFile'[u][p] \in {partFile[u][p], Torn}
      <4> SUFFICES ASSUME Sending(w), BreakOffWrite(w, put[w].u, put[w].p)
                   PROVE  partFile'[u][p] \in {partFile[u][p], Torn}
        OBVIOUS
      <4>1. \/ UNCHANGED partFile
            \/ partFile' = [partFile EXCEPT ![put[w].u][put[w].p] = Torn]
        BY DEF BreakOffWrite
      <4>2. put[w].u \in Upload /\ put[w].p \in Part
        BY SendingTyped
      <4>3. CASE UNCHANGED partFile
        BY <4>3
      <4>4. CASE partFile' = [partFile EXCEPT ![put[w].u][put[w].p] = Torn]
        BY <4>2, <4>4 DEF StorageTypeOK
      <4> QED BY <4>1, <4>3, <4>4
    <3> QED BY <2>1, <2>2, <2>3, <2>4, <3>1, SendingTyped
  <2>5. ASSUME NEW v \in Upload, NEW q \in Part, LateStep(v, q)
        PROVE  partFile'[u][p] \in {partFile[u][p], file[u][p], Torn}
    <3>1. ASSUME NEW c \in Content, WriteAbandoned(v, q, c)
          PROVE  partFile'[u][p] \in {partFile[u][p], file[u][p], Torn}
      <4>1. c = file[v][q]
        BY <3>1 DEF WriteAbandoned, Bodies
      <4>2. PICK data \in {c, Torn} : partFile' = [partFile EXCEPT ![v][q] = data]
        BY <3>1 DEF WriteAbandoned
      <4> QED BY <4>1, <4>2 DEF StorageTypeOK
    <3> QED BY <2>1, <2>5, <3>1
            DEF LateStep, LateMkdir, LateCreate, LateWrite, CreatePartsDir, storageVars
  <2> QED BY <1>1, <1>3, <2>4, <2>5
          DEF IngestNext, InitCreate, InitParts, InitPartsError, PutStart, storageVars
<1>4. CASE FinalizerNext
  <2>1. ASSUME NEW t \in Task, FileStep(t)
        PROVE  \/ UNCHANGED partFile
               \/ \E v \in Upload : DeleteParts(v) \/ DeletePartsPartly(v)
    BY <2>1 DEF FileStep, TaskUnlink, TaskCreate, TaskAppend, TaskRename, TaskPurge, TaskIoError,
                Abandon, RemoveStaleStaging, CreateStaging, AppendPart, RenameStaging, CloseStaging,
                TaskTypeOK, Storing
  <2>2. CASE ~\E t \in Task : FileStep(t)
    BY <1>4, <2>2 DEF FinalizerNext, FileStep, CompleteStart, CompleterStep, CompleteRestart,
       CompleteCount, CompleteTryStart, CompleteDbError, TaskBegin, TaskStep, TaskCheck,
       TaskMarkComplete, TaskMarkFailed, TaskNotify, TaskFault, TaskBeginDbError, TaskCheckDbError,
       TaskMarkDbError, Heartbeat, LateBeat, GoStale, storageVars
  <2> QED BY <1>1, <1>2, <2>1, <2>2
<1>5. CASE RemovalNext
  <2>1. \/ UNCHANGED partFile
        \/ \E v \in Upload : DeleteParts(v) \/ DeletePartsPartly(v)
    BY <1>5 DEF RemovalNext, CancelStart, CancelStep, CancelPurge, CancelUnlink, CancelRows,
         CancelRow, CancelDbError, CancelAbort, CleanStep, CleanList, CleanPurge, CleanRows, CleanRow,
         CleanDbError, DeleteFile, RemovalTypeOK, storageVars
  <2> QED BY <1>1, <1>2, <2>1
<1>6. CASE CrashRestart
  <2>1. PICK gone \in [Upload -> SUBSET Part] :
          partFile' = [v \in Upload |->
                         [q \in Part |-> IF q \in gone[v] THEN NoFile ELSE partFile[v][q]]]
    BY <1>6 DEF CrashRestart
  <2> QED BY <2>1
<1> QED BY <1>1, <1>3, <1>4, <1>5, <1>6 DEF Next, Expire, vars, storageVars

\* What a write puts on the share, where its handle leads.
Wrote(h, u, p, content) ==
    \A v \in Upload :
        /\ partial'[v] = NoFile <=> partial[v] = NoFile
        /\ shareFile'[v] = NoFile <=> shareFile[v] = NoFile
        /\ \A q \in Part :
            /\ partial[v] # NoFile =>
                partial'[v].data[q] = IF v = u /\ q = p /\ h \in partialOpen[u]
                                      THEN content ELSE partial[v].data[q]
            /\ shareFile[v] # NoFile =>
                shareFile'[v].data[q] = IF v = u /\ q = p /\ h \in sharedOpen[u]
                                        THEN content ELSE shareFile[v].data[q]

LEMMA WrittenTo ==
  ASSUME ShareTypeOK, NEW u \in Upload, NEW h, NEW p \in Part, NEW size \in 0 .. TotalParts,
         NEW content \in Data, WriteTo(h, u, p, size, content)
  PROVE  Wrote(h, u, p, content)
<1>1. /\ partial \in [Upload -> ShareFile \cup {NoFile}]
      /\ shareFile \in [Upload -> ShareFile \cup {NoFile}]
  BY DEF ShareTypeOK
<1> DEFINE written(f) == [size |-> IF f.size < size THEN size ELSE f.size,
                          data |-> [f.data EXCEPT ![p] = content]]
<1>2. ASSUME NEW f \in ShareFile
      PROVE  /\ written(f) # NoFile
             /\ \A q \in Part : written(f).data[q] = IF q = p THEN content ELSE f.data[q]
  BY PartsAssumption, ShareAssumption DEF ShareFile
<1>3. /\ h \in partialOpen[u] => partial[u] \in ShareFile
      /\ h \in sharedOpen[u] => shareFile[u] \in ShareFile
  BY <1>1 DEF ShareTypeOK
<1>4. /\ partial' = IF h \in partialOpen[u]
                    THEN [partial EXCEPT ![u] = written(partial[u])] ELSE partial
      /\ shareFile' = IF h \in sharedOpen[u]
                      THEN [shareFile EXCEPT ![u] = written(shareFile[u])] ELSE shareFile
  BY DEF WriteTo
<1> HIDE DEF written
<1> SUFFICES ASSUME NEW v \in Upload
             PROVE  /\ partial'[v] = NoFile <=> partial[v] = NoFile
                    /\ shareFile'[v] = NoFile <=> shareFile[v] = NoFile
                    /\ \A q \in Part :
                        /\ partial[v] # NoFile =>
                            partial'[v].data[q] = IF v = u /\ q = p /\ h \in partialOpen[u]
                                                  THEN content ELSE partial[v].data[q]
                        /\ shareFile[v] # NoFile =>
                            shareFile'[v].data[q] = IF v = u /\ q = p /\ h \in sharedOpen[u]
                                                    THEN content ELSE shareFile[v].data[q]
  BY DEF Wrote
<1>5. partial'[v] = IF v = u /\ h \in partialOpen[u] THEN written(partial[u]) ELSE partial[v]
  BY <1>1, <1>4
<1>6. shareFile'[v] = IF v = u /\ h \in sharedOpen[u] THEN written(shareFile[u]) ELSE shareFile[v]
  BY <1>1, <1>4
<1> QED BY <1>2, <1>3, <1>5, <1>6, ShareAssumption

\* A range ends up with the body, or mixed if something else was there.
LEMMA RangeWritten ==
  ASSUME ShareTypeOK, NEW u \in Upload, NEW h, NEW p \in Part, NEW body \in Data,
         WriteSome(h, u, p, body) \/ WriteRange(h, u, p, body)
  PROVE  \E content \in {body, Torn} :
            /\ Wrote(h, u, p, content)
            /\ Held(h, u, p) = body => content = body
            /\ WriteRange(h, u, p, body) /\ Held(h, u, p) \in {body, Torn} => content = body
<1> Torn \in Data /\ p \in 0 .. TotalParts /\ p + 1 \in 0 .. TotalParts
  BY PartsAssumption DEF Data, Part
<1>1. ASSUME WriteRange(h, u, p, body)
      PROVE  \E content \in {body, Torn} :
                /\ Wrote(h, u, p, content)
                /\ Held(h, u, p) \in {body, Torn} => content = body
  <2>1. PICK content \in {body} \cup (IF Held(h, u, p) \in Content \ {body} THEN {Torn} ELSE {}) :
          WriteTo(h, u, p, p + 1, content)
    BY <1>1 DEF WriteRange
  <2>2. content \in {body, Torn} /\ (Held(h, u, p) \in {body, Torn} => content = body)
    BY <2>1, ValuesAssumption
  <2>3. Wrote(h, u, p, content)
    BY <2>1, <2>2, WrittenTo
  <2> QED BY <2>2, <2>3
<1>2. ASSUME WriteSome(h, u, p, body), ~WriteRange(h, u, p, body)
      PROVE  \E content \in {body, Torn} :
                Wrote(h, u, p, content) /\ (Held(h, u, p) = body => content = body)
  <2>1. WriteTo(h, u, p, p, IF Held(h, u, p) = body THEN body ELSE Torn)
    BY <1>2 DEF WriteSome
  <2>2. Wrote(h, u, p, IF Held(h, u, p) = body THEN body ELSE Torn)
    BY <2>1, WrittenTo
  <2> QED BY <2>2
<1> QED BY <1>1, <1>2

\* What is written is of the file, or torn.
LEMMA WriteFrom ==
  ASSUME NEW file \in File, ShareTypeOK, ShareFromFile(file),
         NEW u \in Upload, NEW h, NEW p \in Part, NEW body \in {file[u][p], Torn},
         WriteSome(h, u, p, body) \/ WriteRange(h, u, p, body)
  PROVE  ShareFromFile(file)'
<1>1. body \in Data
  BY DEF File, Data
<1>2. PICK content \in {body, Torn} : Wrote(h, u, p, content)
  BY <1>1, RangeWritten
<1> QED BY <1>2 DEF Wrote, ShareFromFile

LEMMA MoveFrom ==
  ASSUME NEW file \in File, ShareTypeOK, ShareFromFile(file), NEW u \in Upload, NEW h,
         \/ UNCHANGED <<partial, shareFile>> \/ OpenPartial(h, u) \/ RenamePartial(u)
         \/ DeletePartial(u) \/ DeleteShared(u)
  PROVE  ShareFromFile(file)'
<1> USE DEF ShareFromFile, ShareTypeOK
<1>1. CASE OpenPartial(h, u)
  BY <1>1 DEF OpenPartial, EmptyShareFile
<1>2. CASE RenamePartial(u)
  BY <1>2 DEF RenamePartial
<1>3. CASE DeletePartial(u) \/ DeleteShared(u)
  BY <1>3 DEF DeletePartial, DeleteShared
<1> QED BY <1>1, <1>2, <1>3

\* The steps of a task on the share, and those of a sync.
TaskCall(t) == SmbTaskStep(t) \/ SmbConnectFail(t) \/ SmbStreamSome(t) \/ SmbStreamFail(t) \/ SmbRenameFail(t)
SyncCall(s) == SyncStep(s) \/ SyncSome(s) \/ SyncFail(s)
RemovalCall == \/ \E d \in Canceller : \/ CancelErase(d) \/ SmbCancelPurge(d)
                                       \/ SmbCancelUnlink(d) \/ SmbCancelAbort(d)
               \/ CleanErase \/ SmbCleanPurge

LEMMA SmbKinds ==
  ASSUME [SmbNext]_smbServerVars
  PROVE  \/ CommonNext \/ (\E w \in Writer : StorePart(w)) \/ (\E s \in Syncer : SyncCall(s))
         \/ (\E t \in Task : TaskCall(t)) \/ RemovalCall \/ SmbCrashRestart
         \/ UNCHANGED smbServerVars
  BY DEF SmbNext, TaskCall, SyncCall, RemovalCall

\* What a step of a task does to the share.
LEMMA TaskOnShare ==
  ASSUME SmbInv, NEW t \in Task, TaskCall(t)
  PROVE  LET u == task[t].u
             p == task[t].next
         IN  \/ UNCHANGED shareVars
             \/ u \in Upload /\ OpenPartial(t, u) /\ task[t].pc = "create"
             \/ /\ u \in Upload /\ p \in Part /\ partFile[u][p] \in Data /\ task[t].pc = "append"
                /\ \/ WriteSome(t, u, p, partFile[u][p])
                   \/ /\ WriteRange(t, u, p, partFile[u][p])
                      /\ UNCHANGED <<partialOpen, sharedOpen>>
             \/ u \in Upload /\ CloseHandle(t, u) /\ UNCHANGED <<partial, shareFile>>
             \/ /\ u \in Upload /\ RenamePartial(u) /\ partial[u] # NoFile
                /\ task[t].pc = "rename"
<1>a. TaskTypeOK /\ StorageTypeOK
  BY DEF SmbInv, ServerInv, TypeOK, FinalizerTypeOK, SmbTypeOK
<1>b. task[t].pc # "idle" => task[t].u \in Upload
  BY <1>a DEF TaskTypeOK
<1>c. task[t].pc = "append" => task[t].next \in Part
  BY <1>a DEF TaskTypeOK
<1>d. \A p \in Part : task[t].u \in Upload /\ partFile[task[t].u][p] # NoFile
                      => partFile[task[t].u][p] \in Data
  BY <1>a DEF StorageTypeOK
<1>1. CASE SmbStream(t) \/ SmbStreamSome(t) \/ SmbStreamFail(t) \/ SmbOpen(t) \/ SmbClose(t)
  BY <1>1, <1>b, <1>c, <1>d DEF SmbStream, SmbStreamSome, SmbStreamFail, SmbOpen, SmbClose
<1>2. CASE SmbRename(t) \/ SmbRenameFail(t)
  BY <1>2, <1>b DEF SmbRename, SmbRenameFail
<1>3. CASE SmbCheck(t) \/ SmbEnter(t) \/ SmbAttempt(t) \/ SmbPurge(t) \/ SmbConnectFail(t)
         \/ SmbGiveUp(t)
  BY <1>3 DEF SmbCheck, SmbEnter, SmbAttempt, SmbPurge, SmbConnectFail, SmbGiveUp, remoteVars
<1> QED BY <1>1, <1>2, <1>3 DEF TaskCall, SmbTaskStep

LEMMA FromFileNext ==
  ASSUME NEW file \in File, SmbInv, FromFile(file), Sends(file), [SmbNext]_smbServerVars
  PROVE  FromFile(file)'
<1>o. \A u \in Upload, p \in Part : Bodies(u, p) \subseteq {file[u][p]}
  BY DEF FromFile
<1>a. /\ ShareTypeOK /\ TypeOK /\ StorageTypeOK /\ RemovalTypeOK
      /\ sync \in [Syncer -> SyncState] /\ SyncInv
  BY DEF SmbInv, SmbTypeOK, ServerInv, TypeOK, SyncState
<1>b. \A s \in Syncer : sync[s].pc # "idle" =>
         sync[s].u \in Upload /\ sync[s].p \in Part /\ sync[s].body = file[sync[s].u][sync[s].p]
  BY <1>a DEF FromFile, SyncInv, SyncState
<1>c. ShareFromFile(file) /\ \A u \in Upload, p \in Part : partFile[u][p] \in {file[u][p], Torn, NoFile}
  BY DEF FromFile
<1>1. ASSUME NEW u \in Upload, NEW p \in Part
      PROVE  /\ Uploaded(u, p)' => parts'[u][p] \in {parts[u][p], file[u][p]}
             /\ partFile'[u][p] \in {partFile[u][p], file[u][p], Torn, NoFile}
             /\ Bodies(u, p)' \subseteq {file[u][p]}
  <2>1. CASE [Next]_vars
    BY <2>1, <1>a, <1>o, RecordedFrom, StoredFrom, AbandonedFrom
  <2>2. ASSUME NEW t \in Task, SmbCall(t)
        PROVE  /\ UNCHANGED parts /\ partFile'[u][p] \in {partFile[u][p], NoFile}
               /\ Bodies(u, p)' \subseteq Bodies(u, p)
    <3>1. Calls(t) /\ task[t].pc # "idle" /\ UNCHANGED parts
      BY <2>2, CallSummary DEF Calls, repoVars, Storing
    <3>2. task[t].u \in Upload
      BY <3>1 DEF SmbInv, ServerInv, TypeOK, FinalizerTypeOK, TaskTypeOK
    <3>3. Bodies(u, p)' \subseteq Bodies(u, p)
      BY <1>a, <3>1, <3>2, BodiesOfDeletions DEF Calls, Bodies, storageVars
    <3> QED BY <1>a, <3>1, <3>2, <3>3, PartsDeleted DEF Calls, storageVars
  <2>3. ASSUME NEW d \in Canceller, SmbCancelUnlink(d) PROVE UNCHANGED <<parts, partFile, partOpen>>
    BY <2>3 DEF SmbCancelUnlink, repoVars, storageVars
  <2> QED BY <1>o, <2>1, <2>2, <2>3, SmbSteps DEF Bodies
<1>2. \A u \in Upload, p \in Part : Uploaded(u, p)' => parts'[u][p] = file[u][p]
  BY <1>1 DEF FromFile, Uploaded
<1>3. \A u \in Upload, p \in Part : partFile'[u][p] \in {file[u][p], Torn, NoFile}
  BY <1>1, <1>c
<1>4. \A s \in Syncer : sync'[s].pc # "idle" => sync'[s].body = file[sync'[s].u][sync'[s].p]
  <2>1. ASSUME NEW w \in Writer, StorePart(w)
        PROVE  \A s \in Syncer : sync'[s].pc # "idle" => sync'[s].body = file[sync'[s].u][sync'[s].p]
    <3>1. put[w].body = file[put[w].u][put[w].p]
      BY <2>1 DEF Sends, Sending, StorePart, PutWrite
    <3>2. PICK s \in Syncer :
            sync' = [sync EXCEPT ![s] = [pc |-> "queued", u |-> put[w].u,
                                         p |-> put[w].p, body |-> put[w].body]]
      BY <2>1 DEF StorePart
    <3> QED BY <1>a, <1>b, <3>1, <3>2
  <2>2. ASSUME NEW s \in Syncer, SyncCall(s)
        PROVE  \A r \in Syncer : sync'[r].pc # "idle" => sync'[r].body = file[sync'[r].u][sync'[r].p]
    <3>1. /\ sync[s].pc # "idle"
          /\ \/ sync' = [sync EXCEPT ![s].pc = "open"] \/ sync' = [sync EXCEPT ![s].pc = "half"]
             \/ sync' = [sync EXCEPT ![s] = NoSync]
      BY <2>2 DEF SyncCall, SyncStep, SyncOpen, SyncEnd, SyncSome, SyncFail
    <3> QED BY <1>a, <1>b, <3>1 DEF NoSync, SyncState
  <2>3. CASE UNCHANGED sync
    BY <2>3, <1>b
  <2>4. CASE SmbCrashRestart
    BY <2>4 DEF SmbCrashRestart, NoSync
  <2>5. (\E t \in Task : TaskCall(t)) \/ RemovalCall => UNCHANGED sync
    BY DEF TaskCall, SmbTaskStep, SmbCheck, SmbEnter, SmbAttempt, SmbOpen, SmbStream, SmbClose,
           SmbRename, SmbPurge, SmbGiveUp, SmbConnectFail, SmbStreamSome, SmbStreamFail, SmbRenameFail, FinalizeFrame,
           remoteVars, RemovalCall, CancelErase, SmbCancelPurge, SmbCancelUnlink, SmbCancelAbort,
           CleanErase, SmbCleanPurge, RemovalFrame
  <2>6. CommonNext \/ UNCHANGED smbServerVars => UNCHANGED sync
    BY DEF CommonNext, smbServerVars, remoteVars
  <2> QED BY <2>1, <2>2, <2>3, <2>4, <2>5, <2>6, SmbKinds
<1>5. ShareFromFile(file)'
  <2>1. CASE UNCHANGED <<partial, shareFile>>
    BY <2>1, <1>c DEF ShareFromFile
  <2>2. ASSUME NEW t \in Task, TaskCall(t) PROVE ShareFromFile(file)'
    <3>1. \A u \in Upload, p \in Part : partFile[u][p] \in Data => partFile[u][p] \in {file[u][p], Torn}
      BY <1>c, ValuesAssumption DEF Data
    <3> QED BY <1>a, <1>c, <2>1, <2>2, <3>1, TaskOnShare, WriteFrom, MoveFrom DEF shareVars
  <2>3. ASSUME NEW s \in Syncer, SyncCall(s) PROVE ShareFromFile(file)'
    <3>1. sync[s].pc # "idle"
      BY <2>3 DEF SyncCall, SyncStep, SyncOpen, SyncEnd, SyncSome, SyncFail
    <3>2. \/ OpenPartial(s, sync[s].u) \/ UNCHANGED <<partial, shareFile>>
          \/ WriteSome(s, sync[s].u, sync[s].p, sync[s].body)
          \/ WriteRange(s, sync[s].u, sync[s].p, sync[s].body)
      BY <2>3 DEF SyncCall, SyncStep, SyncOpen, SyncEnd, SyncSome, SyncFail
    <3> QED BY <1>a, <1>b, <1>c, <3>1, <3>2, WriteFrom, MoveFrom
  <2>4. CASE RemovalCall
    <3>1. UNCHANGED shareVars \/ \E u \in Upload : DeletePartial(u) \/ DeleteShared(u)
      BY <1>a, <2>4, RemovalShare DEF RemovalCall, RemovalTypeOK
    <3> QED BY <1>a, <1>c, <2>1, <3>1, MoveFrom DEF shareVars
  <2>5. CommonNext \/ (\E w \in Writer : StorePart(w)) \/ SmbCrashRestart \/ UNCHANGED smbServerVars
        => UNCHANGED <<partial, shareFile>>
    BY DEF CommonNext, StorePart, SmbCrashRestart, smbServerVars, remoteVars, shareVars
  <2> QED BY <2>1, <2>2, <2>3, <2>4, <2>5, SmbKinds
<1> QED BY <1>1, <1>2, <1>3, <1>4, <1>5 DEF FromFile

LEMMA FromFileInit == ASSUME NEW file \in File, SmbInit PROVE FromFile(file)
  BY ValuesAssumption
     DEF SmbInit, Init, RepoInit, StorageInit, ShareInit, NoSync, NoRow, NoPartFiles, NobodyOpen,
         FromFile, Bodies, ShareFromFile, Uploaded

-----------------------------------------------------------------------------
\* Handles.

LEMMA TaskCallMoves ==
  ASSUME SmbInv, NEW t \in Task, TaskCall(t)
  PROVE  /\ task[t].pc \in Storing \cup {"check"} /\ task[t].u \in Upload
         /\ task'[t].pc \in Storing \cup {"mark_fail", "mark_ok"} /\ task'[t].u = task[t].u
         /\ \A s \in Task \ {t} : task'[s] = task[s]
         /\ UNCHANGED <<contested, parts, ingestVars, removalVars, sync>> /\ SameStatus
<1>a. TaskTypeOK /\ RepoTypeOK
  BY DEF SmbInv, ServerInv, TypeOK, FinalizerTypeOK
<1>1. CASE SmbEnter(t) \/ SmbStreamSome(t)
  <2>1. /\ UNCHANGED <<task, contested, repoVars, ingestVars, removalVars, sync>>
        /\ task[t].pc \in Storing
    BY <1>1 DEF SmbEnter, SmbStreamSome, FinalizeFrame, Storing
  <2> QED BY <1>a, <2>1 DEF TaskTypeOK, Storing, SameStatus, repoVars
<1>2. CASE SmbCheck(t) /\ TaskCheck(t)
  <2>1. TaskGoto(t, "mark_fail") \/ TaskGoto(t, "enter")
    BY <1>2 DEF TaskCheck
  <2>2. /\ UNCHANGED <<contested, ingestVars, removalVars, sync>> /\ task[t].pc = "check"
        /\ UNCHANGED repoVars \/ UpdateFinalizingProgress(task[t].u, 10)
    BY <1>2 DEF SmbCheck, TaskCheck, remoteVars
  <2>3. task[t].u \in Upload
    BY <1>a, <2>2 DEF TaskTypeOK
  <2>4. UpdateFinalizingProgress(task[t].u, 10) => SameStatus /\ UNCHANGED parts
    BY <1>a, <2>3, StatusOfStatement DEF UpdateFinalizingProgress
  <2>5. UNCHANGED parts /\ SameStatus
    BY <2>2, <2>4 DEF SameStatus, repoVars
  <2> QED BY <1>a, <2>1, <2>2, <2>3, <2>5, TaskMoves DEF TaskTypeOK, Storing
<1>3. CASE SmbCall(t)
  <2>1. Calls(t) /\ task[t].pc # "idle"
    BY <1>3, CallSummary DEF Calls, Storing
  <2>2. UNCHANGED sync
    BY <1>3 DEF SmbCall, SmbRefused, SmbAttempt, SmbOpen, SmbStream, SmbClose, SmbRename, SmbPurge,
                SmbGiveUp, SmbConnectFail, SmbStreamFail, SmbRenameFail, FinalizeFrame, remoteVars
  <2> QED BY <1>a, <2>1, <2>2 DEF Calls, TaskTypeOK, SameStatus, repoVars
<1> QED BY <1>1, <1>2, <1>3 DEF TaskCall, SmbTaskStep, SmbCheck, SmbCall, SmbRefused

\* A handle of its holder is open for one upload only, so a step that closes
\* handles, or leaves them, keeps the rest.
LEMMA HandlesClosed ==
  ASSUME HandleInv,
         \A u \in Upload : /\ partialOpen'[u] \cup sharedOpen'[u] \subseteq partialOpen[u] \cup sharedOpen[u]
                           /\ partialOpen'[u] \cap sharedOpen'[u] = {},
         \A u \in Upload : \A h \in partialOpen'[u] \cup sharedOpen'[u] : Holds(h, u) => Holds(h, u)'
  PROVE  HandleInv'
  BY DEF HandleInv

LEMMA HandlesOpened ==
  ASSUME SmbInv, HandleInv, NEW v \in Upload, NEW h, OpenPartial(h, v), \A u \in Upload : ~Holds(h, u),
         Holds(h, v)', \A u \in Upload : \A g : g # h /\ Holds(g, u) => Holds(g, u)'
  PROVE  HandleInv'
<1>1. \A u \in Upload : /\ partialOpen'[u] = IF u = v THEN partialOpen[v] \cup {h} ELSE partialOpen[u]
                        /\ sharedOpen'[u] = sharedOpen[u]
  BY DEF OpenPartial, SmbInv, SmbTypeOK, ShareTypeOK
<1>2. \A u \in Upload : h \notin partialOpen[u] \cup sharedOpen[u]
  BY DEF HandleInv
<1> QED BY <1>1, <1>2 DEF HandleInv

LEMMA HandleNext ==
  ASSUME SmbInv, HandleInv, [SmbNext]_smbServerVars
  PROVE  HandleInv'
<1>a. /\ ShareTypeOK /\ TypeOK /\ TaskTypeOK /\ RemovalTypeOK
      /\ sync \in [Syncer -> SyncState] /\ SyncInv
  BY DEF SmbInv, SmbTypeOK, ServerInv, TypeOK, FinalizerTypeOK, SyncState
<1>b. /\ partialOpen \in [Upload -> SUBSET (Task \cup Syncer)]
      /\ sharedOpen \in [Upload -> SUBSET (Task \cup Syncer)]
  BY <1>a DEF ShareTypeOK
<1>c. \A u \in Upload : partialOpen[u] \cap sharedOpen[u] = {}
  BY DEF HandleInv
<1>1. ASSUME UNCHANGED <<partialOpen, sharedOpen>>,
             \A t \in Task : task[t].pc \in {"append", "close"} => task'[t] = task[t],
             \A s \in Syncer : sync[s].pc \in {"open", "half"} => sync'[s] = sync[s]
      PROVE  HandleInv'
  BY <1>1, <1>c, HandlesClosed DEF Holds
<1>2. CASE CommonNext
  <2>1. UNCHANGED <<partialOpen, sharedOpen, sync>>
    BY <1>2 DEF CommonNext, remoteVars, shareVars
  <2>2. \A t \in Task : task[t].pc \in {"append", "close"} => task'[t] = task[t]
    BY <1>2, <1>a, OutsideTasks
       DEF CommonNext, RequestNext, RemovalOutside, Expire, finalizerVars, Storing
  <2> QED BY <1>1, <2>1, <2>2
<1>3. ASSUME NEW w \in Writer, StorePart(w) PROVE HandleInv'
  <2>1. UNCHANGED <<task, partialOpen, sharedOpen>>
    BY <1>3 DEF StorePart, finalizerVars, shareVars
  <2>2. \A s \in Syncer : sync[s].pc \in {"open", "half"} => sync'[s] = sync[s]
    BY <1>3, <1>a DEF StorePart
  <2> QED BY <1>1, <2>1, <2>2
<1>4. ASSUME NEW s \in Syncer, SyncCall(s) PROVE HandleInv'
  <2> DEFINE v == sync[s].u
  <2>1. UNCHANGED task /\ sync[s].pc # "idle" /\ v \in Upload
    BY <1>4, <1>a DEF SyncCall, SyncStep, SyncOpen, SyncEnd, SyncSome, SyncFail, vars,
                      finalizerVars, SyncInv
  <2>2. CASE SyncOpen(s)
    <3>1. sync[s].pc = "queued" /\ OpenPartial(s, v) /\ sync' = [sync EXCEPT ![s].pc = "open"]
      BY <2>2 DEF SyncOpen
    <3>2. sync'[s].pc = "open" /\ sync'[s].u = v /\ \A r \in Syncer \ {s} : sync'[r] = sync[r]
      BY <1>a, <3>1 DEF SyncState
    <3>3. s \notin Task
      BY ShareAssumption
    <3>4. (\A u \in Upload : ~Holds(s, u)) /\ Holds(s, v)'
      BY <3>1, <3>2, <3>3 DEF Holds
    <3>5. \A u \in Upload : \A g : g # s /\ Holds(g, u) => Holds(g, u)'
      BY <2>1, <3>2 DEF Holds
    <3> QED BY <2>1, <3>1, <3>4, <3>5, HandlesOpened
  <2>3. CASE SyncSome(s)
    <3>1. /\ sync[s].pc = "open" /\ sync' = [sync EXCEPT ![s].pc = "half"]
          /\ UNCHANGED <<partialOpen, sharedOpen>>
      BY <2>3 DEF SyncSome, WriteSome
    <3>2. sync'[s].pc = "half" /\ sync'[s].u = v /\ \A r \in Syncer \ {s} : sync'[r] = sync[r]
      BY <1>a, <3>1 DEF SyncState
    <3> QED BY <1>c, <2>1, <3>1, <3>2, HandlesClosed DEF Holds
  <2>4. CASE SyncEnd(s) \/ SyncFail(s)
    <3>1. CloseHandle(s, v) /\ sync' = [sync EXCEPT ![s] = NoSync]
      BY <2>4 DEF SyncEnd, SyncFail
    <3>2. \A u \in Upload :
            /\ partialOpen'[u] = IF u = v THEN partialOpen[u] \ {s} ELSE partialOpen[u]
            /\ sharedOpen'[u] = IF u = v THEN sharedOpen[u] \ {s} ELSE sharedOpen[u]
      BY <1>b, <3>1 DEF CloseHandle
    <3>3. \A r \in Syncer \ {s} : sync'[r] = sync[r]
      BY <1>a, <3>1
    <3>4. s \notin Task
      BY ShareAssumption
    <3>5. \A u \in Upload : s \notin partialOpen'[u] \cup sharedOpen'[u]
      BY <3>2, <3>4 DEF HandleInv, Holds
    <3>6. \A u \in Upload : \A h \in partialOpen'[u] \cup sharedOpen'[u] : Holds(h, u) => Holds(h, u)'
      BY <2>1, <3>3, <3>5 DEF Holds
    <3> QED BY <1>c, <3>2, <3>6, HandlesClosed
  <2> QED BY <1>4, <2>2, <2>3, <2>4 DEF SyncCall, SyncStep
<1>5. ASSUME NEW t \in Task, TaskCall(t) PROVE HandleInv'
  <2> DEFINE v == task[t].u
  <2>1. /\ v \in Upload /\ task'[t].u = v /\ UNCHANGED sync
        /\ \A s \in Task \ {t} : task'[s] = task[s]
    BY <1>5, TaskCallMoves
  <2>2. t \notin Syncer
    BY ShareAssumption
  <2>3. ASSUME task[t].pc \notin {"append", "close"}, UNCHANGED <<partialOpen, sharedOpen>>
        PROVE  HandleInv'
    BY <1>1, <2>1, <2>3
  <2>4. ASSUME task'[t].pc \in {"append", "close"}, UNCHANGED <<partialOpen, sharedOpen>> PROVE HandleInv'
    BY <1>c, <2>1, <2>4, HandlesClosed DEF Holds
  <2>5. ASSUME CloseHandle(t, v) PROVE HandleInv'
    <3>1. \A u \in Upload :
            /\ partialOpen'[u] = IF u = v THEN partialOpen[u] \ {t} ELSE partialOpen[u]
            /\ sharedOpen'[u] = IF u = v THEN sharedOpen[u] \ {t} ELSE sharedOpen[u]
      BY <1>b, <2>5 DEF CloseHandle
    <3>2. \A u \in Upload : t \notin partialOpen'[u] \cup sharedOpen'[u]
      BY <2>2, <3>1 DEF HandleInv, Holds
    <3>3. \A u \in Upload : \A h \in partialOpen'[u] \cup sharedOpen'[u] : Holds(h, u) => Holds(h, u)'
      BY <2>1, <3>2 DEF Holds
    <3> QED BY <1>c, <3>1, <3>3, HandlesClosed
  <2>6. CASE SmbOpen(t)
    <3>1. task[t].pc = "create" /\ OpenPartial(t, v) /\ task'[t].pc = "append"
      BY <1>a, <2>6, TaskMoves DEF SmbOpen
    <3>2. (\A u \in Upload : ~Holds(t, u)) /\ Holds(t, v)'
      BY <2>1, <2>2, <3>1 DEF Holds
    <3>3. \A u \in Upload : \A g : g # t /\ Holds(g, u) => Holds(g, u)'
      BY <2>1 DEF Holds
    <3> QED BY <2>1, <3>1, <3>2, <3>3, HandlesOpened
  <2>7. CASE SmbStreamSome(t)
    <3>1. task[t].pc = "append" /\ UNCHANGED <<task, partialOpen, sharedOpen>>
      BY <2>7 DEF SmbStreamSome, WriteSome
    <3> QED BY <2>4, <3>1
  <2>8. CASE SmbStream(t)
    <3>1. \/ CloseHandle(t, v)
          \/ UNCHANGED <<partialOpen, sharedOpen>> /\ task'[t].pc \in {"append", "close"}
      BY <1>a, <2>8 DEF SmbStream, TaskTypeOK, TaskState
    <3> QED BY <2>4, <2>5, <3>1
  <2>9. CASE SmbStreamFail(t) \/ SmbClose(t)
    BY <2>5, <2>9 DEF SmbStreamFail, SmbClose
  <2>10. CASE SmbRename(t) \/ SmbRenameFail(t)
    <3>1. task[t].pc = "rename" /\ (UNCHANGED shareVars \/ RenamePartial(v))
      BY <2>10 DEF SmbRename, SmbRenameFail
    <3>2. CASE RenamePartial(v)
      <4>1. \A u \in Upload :
              /\ partialOpen'[u] = IF u = v THEN {} ELSE partialOpen[u]
              /\ sharedOpen'[u] = IF u = v THEN partialOpen[u] ELSE sharedOpen[u]
        BY <1>b, <2>1, <3>2 DEF RenamePartial
      <4>2. \A u \in Upload : \A h : Holds(h, u) => Holds(h, u)'
        BY <2>1, <3>1 DEF Holds
      <4> QED BY <1>c, <4>1, <4>2, HandlesClosed
    <3> QED BY <2>3, <3>1, <3>2 DEF shareVars
  <2>11. CASE \/ SmbCheck(t) \/ SmbEnter(t) \/ SmbAttempt(t) \/ SmbPurge(t) \/ SmbConnectFail(t)
              \/ SmbGiveUp(t)
    <3>1. task[t].pc \notin {"append", "close"} /\ UNCHANGED shareVars
      BY <2>11 DEF SmbCheck, SmbEnter, SmbAttempt, SmbPurge, SmbConnectFail, SmbGiveUp, Attempts,
                   remoteVars
    <3> QED BY <2>3, <3>1 DEF shareVars
  <2> QED BY <1>5, <2>6, <2>7, <2>8, <2>9, <2>10, <2>11 DEF TaskCall, SmbTaskStep
<1>6. CASE RemovalCall
  <2>1. UNCHANGED <<task, sync>>
    BY <1>6 DEF RemovalCall, CancelErase, SmbCancelPurge, SmbCancelUnlink, SmbCancelAbort,
                CleanErase, SmbCleanPurge, RemovalFrame, finalizerVars
  <2>2. UNCHANGED shareVars \/ \E u \in Upload : DeletePartial(u) \/ DeleteShared(u)
    BY <1>6, <1>a, RemovalShare DEF RemovalCall, RemovalTypeOK
  <2>3. \A u \in Upload : partialOpen'[u] \subseteq partialOpen[u] /\ sharedOpen'[u] \subseteq sharedOpen[u]
    BY <1>b, <2>2 DEF DeletePartial, DeleteShared, shareVars
  <2> QED BY <1>c, <2>1, <2>3, HandlesClosed DEF Holds
<1>7. CASE SmbCrashRestart
  BY <1>7 DEF SmbCrashRestart, HandleInv
<1>8. CASE UNCHANGED smbServerVars
  BY <1>1, <1>8 DEF smbServerVars, vars, finalizerVars, remoteVars, shareVars
<1> QED BY <1>2, <1>3, <1>4, <1>5, <1>6, <1>7, <1>8, SmbKinds

LEMMA HandleInit == SmbInit => HandleInv
  BY DEF SmbInit, ShareInit, HandleInv

-----------------------------------------------------------------------------
\* Frames: what a step must leave on the share.

ShareKept(file, u) ==
    /\ \A p \in Part : partial[u] # NoFile /\ partial[u].data[p] = file[u][p] =>
                           partial'[u] # NoFile /\ partial'[u].data[p] = file[u][p]
    /\ FileOnShare(file, u) => FileOnShare(file, u)'
    /\ \A t \in Task : t \in partialOpen[u] /\ task'[t] = task[t] => t \in partialOpen'[u]

LEMMA SmbFrame ==
  ASSUME NEW file \in File, NEW u \in Upload, ShareIntact(file, u), Untouched(u), ShareKept(file, u),
         \A t \in Task : Busy(t, u)' /\ task'[t].pc = "create" => task'[t] = task[t],
         uploads'[u].status = "complete" => uploads[u].status = "complete" \/ FileOnShare(file, u)
  PROVE  ShareIntact(file, u)'
<1>1. PutsIntact(u)' /\ NoneOpen(u)'
  BY PutsFrame DEF ShareIntact, NoneOpen, Untouched, SameFiles
<1>2. Stored(file, u)'
  BY DEF ShareIntact, Stored, Untouched, SameFiles, ShareKept, AllUploaded, Uploaded
<1>3. ASSUME NEW t \in Task, Busy(t, u)' PROVE Streams(file, t, u)'
  <2>1. CASE task'[t] = task[t]
    <3>1. Busy(t, u) /\ Streams(file, t, u)
      BY <1>3, <2>1 DEF Busy, ShareIntact
    <3> QED BY <2>1, <3>1 DEF Streams, Prefix, ShareKept
  <2>2. CASE task'[t].pc \in Calm \ {"create"}
    BY <2>2 DEF Streams, Calm
  <2> QED BY <1>3, <2>1, <2>2 DEF Untouched, CalmTasks
<1>4. uploads'[u].status = "complete" => FileOnShare(file, u)'
  BY DEF ShareIntact, ShareKept
<1> QED BY <1>1, <1>2, <1>3, <1>4 DEF ShareIntact

LEMMA SmbReceived ==
  ASSUME NEW file \in File, NEW u \in Upload, ShareIntact(file, u), Receives(u),
         UNCHANGED <<partial, shareFile>>
  PROVE  ShareIntact(file, u)'
<1>1. Stored(file, u)' /\ NoneOpen(u)'
  BY DEF Stored, Receives, ShareIntact, NoneOpen
<1>2. FileOnShare(file, u) => FileOnShare(file, u)'
  BY DEF FileOnShare
<1> QED BY <1>1, <1>2 DEF Receives, ShareIntact, Busy

\* A step of the only task of an upload.
LEMMA SmbSole ==
  ASSUME NEW file \in File, NEW u \in Upload, NEW t \in Task,
         \A s \in Task : Busy(s, u) => s = t, \A s \in Task \ {t} : task'[s] = task[s],
         \A w \in Writer : Sending(w) => put[w].u # u, UNCHANGED <<put, parts>>,
         uploads'[u].status # "complete",
         AllUploaded(u), \A p \in Part : partFile'[u][p] \in {parts[u][p], NoFile},
         (\A p \in Part : partFile'[u][p] = parts[u][p]) \/ FileOnShare(file, u)',
         NoneOpen(u)', Streams(file, t, u)'
  PROVE  ShareIntact(file, u)'
<1>1. PutsIntact(u)'
  BY DEF PutsIntact, Sending
<1>2. Stored(file, u)'
  BY DEF Stored, AllUploaded, Uploaded
<1>3. ASSUME NEW s \in Task, Busy(s, u)' PROVE s = t
  BY <1>3 DEF Busy
<1> QED BY <1>1, <1>2, <1>3 DEF ShareIntact

\* Uploads share no file on the share either.
LEMMA OtherShare ==
  ASSUME ShareTypeOK, NEW file \in File, NEW u \in Upload, NEW v \in Upload \ {u}, NEW h,
         \/ OpenPartial(h, v) \/ RenamePartial(v) \/ DeletePartial(v) \/ DeleteShared(v)
         \/ CloseHandle(h, v) /\ UNCHANGED <<partial, shareFile>>
         \/ UNCHANGED shareVars
  PROVE  ShareKept(file, u)
<1>1. /\ partial'[u] = partial[u] /\ shareFile'[u] = shareFile[u]
      /\ partialOpen'[u] = partialOpen[u]
  BY DEF ShareTypeOK, OpenPartial, RenamePartial, DeletePartial, DeleteShared, CloseHandle, shareVars
<1> QED BY <1>1 DEF ShareKept, FileOnShare

\* A write keeps what is right: in the range of another part, or with the
\* bytes that are there.
LEMMA WriteKeeps ==
  ASSUME ShareTypeOK, HandleInv, NEW file \in File, NEW u \in Upload, NEW v \in Upload,
         NEW h, NEW p \in Part, NEW body \in Data, u = v => body = file[u][p],
         \/ WriteSome(h, v, p, body)
         \/ /\ WriteRange(h, v, p, body)
            /\ UNCHANGED <<partialOpen, sharedOpen>> \/ CloseHandle(h, v),
         h \in Task => task'[h] # task[h] \/ UNCHANGED partialOpen
  PROVE  ShareKept(file, u)
<1>1. PICK content \in {body, Torn} :
        Wrote(h, v, p, content) /\ (Held(h, v, p) = body => content = body)
  BY RangeWritten
<1>2. /\ h \in partialOpen[v] => partial[v] # NoFile /\ Held(h, v, p) = partial[v].data[p]
      /\ h \in sharedOpen[v] => shareFile[v] # NoFile /\ Held(h, v, p) = shareFile[v].data[p]
  BY DEF HandleInv, Held, ShareTypeOK
<1>3. \A q \in Part : partial[u] # NoFile /\ partial[u].data[q] = file[u][q] =>
                          partial'[u] # NoFile /\ partial'[u].data[q] = file[u][q]
  BY <1>1, <1>2 DEF Wrote
<1>4. FileOnShare(file, u) => FileOnShare(file, u)'
  BY <1>1, <1>2 DEF Wrote, FileOnShare
<1>5. \A t \in Task : t \in partialOpen[u] /\ task'[t] = task[t] => t \in partialOpen'[u]
  BY DEF WriteSome, CloseHandle, ShareTypeOK
<1> QED BY <1>3, <1>4, <1>5 DEF ShareKept

-----------------------------------------------------------------------------
\* The task of an undisturbed upload on the share.

LEMMA OwnCallIntact ==
  ASSUME NEW file \in File, SmbInv, OnePut, FromFile(file), HandleInv,
         NEW u \in Upload, NEW t \in Task, TaskCall(t), task[t].u = u,
         Undisturbed(u), ShareIntact(file, u), ~gapped'[u]
  PROVE  ShareIntact(file, u)'
<1>a. /\ ServerInv /\ TaskTypeOK /\ StorageTypeOK /\ RepoTypeOK /\ ShareTypeOK
      /\ gapped \in [Upload -> BOOLEAN]
  BY DEF SmbInv, ServerInv, TypeOK, FinalizerTypeOK, SmbTypeOK
<1>b. /\ task[t].pc \in Storing \cup {"check"} /\ \A s \in Task \ {t} : task'[s] = task[s]
      /\ task'[t].u = u /\ UNCHANGED <<put, parts>> /\ uploads'[u].status = uploads[u].status
  BY TaskCallMoves DEF SameStatus, ingestVars
<1>c. Busy(t, u) /\ Working(t)
  BY <1>b DEF Busy, Working, Running, Storing
<1>d. AllUploaded(u) /\ \A w \in Writer : Sending(w) => put[w].u # u
  BY <1>a, <1>c, WhenStarted
<1>e. (\A s \in Task : Busy(s, u) => s = t) /\ uploads[u].status # "complete"
  BY <1>a, <1>c, WhenBusy
<1>f. \A p \in Part : parts[u][p] = file[u][p] /\ file[u][p] \in Data
  BY <1>d DEF AllUploaded, FromFile, File, Data
<1>g. /\ \A p \in Part : partFile[u][p] \in {parts[u][p], NoFile}
      /\ (\A p \in Part : partFile[u][p] = parts[u][p]) \/ FileOnShare(file, u)
      /\ NoneOpen(u) /\ Streams(file, t, u)
  BY <1>c, <1>d DEF ShareIntact, Stored, AllUploaded
<1>h. t \in partialOpen[u] => t \notin sharedOpen[u] /\ partial[u] # NoFile
  BY <1>a DEF HandleInv, ShareTypeOK
\* All but the last step leave the local files.
<1>1. ASSUME UNCHANGED storageVars, FileOnShare(file, u) => FileOnShare(file, u)', Streams(file, t, u)'
      PROVE  ShareIntact(file, u)'
  <2>1. UNCHANGED <<partFile, stagingOpen, finalOpen>>
    BY <1>1 DEF storageVars
  <2> QED BY <1>1, <1>b, <1>d, <1>e, <1>g, <2>1, SmbSole DEF NoneOpen
<1>2. ASSUME UNCHANGED <<storageVars, shareFile>>, Streams(file, t, u)' PROVE ShareIntact(file, u)'
  BY <1>1, <1>2 DEF FileOnShare
<1>3. ASSUME UNCHANGED <<storageVars, shareFile>>, TaskGoto(t, "enter") \/ TaskGoto(t, "mark_fail")
      PROVE  ShareIntact(file, u)'
  <2>1. task'[t].pc \in {"enter", "mark_fail"}
    BY <1>3, <1>a, TaskMoves
  <2> QED BY <1>2, <1>3, <2>1 DEF Streams
<1>4. CASE SmbCheck(t)
  BY <1>3, <1>4 DEF SmbCheck, TaskCheck, remoteVars, shareVars
<1>5. CASE SmbEnter(t)
  <2>1. UNCHANGED <<task, storageVars, shareFile>> /\ task[t].pc = "enter"
    BY <1>5 DEF SmbEnter, shareVars
  <2> QED BY <1>2, <2>1 DEF Streams
<1>6. ASSUME \E n : AttemptFailed(t, n), UNCHANGED <<storageVars, shareFile>>
      PROVE  ShareIntact(file, u)'
  BY <1>3, <1>6 DEF AttemptFailed
<1>7. CASE SmbConnectFail(t) \/ SmbStreamFail(t) \/ SmbGiveUp(t)
  BY <1>3, <1>6, <1>7 DEF SmbConnectFail, SmbStreamFail, SmbGiveUp, GiveUp, shareVars
<1>8. CASE SmbAttempt(t)
  <2>1. PICK size \in {PartialSize(u), 0} :
          /\ task' = [task EXCEPT ![t] =
                        [@ EXCEPT !.pc = IF size = TotalParts THEN "rename" ELSE "create",
                                  !.next = size]]
          /\ gapped' = [gapped EXCEPT ![u] = @ \/ \E p \in 0 .. size - 1 :
                                                    partial[u].data[p] # parts[u][p]]
    BY <1>8 DEF SmbAttempt
  <2>2. UNCHANGED <<storageVars, shareVars>>
    BY <1>8 DEF SmbAttempt
  <2>3. /\ task'[t].pc = (IF size = TotalParts THEN "rename" ELSE "create")
        /\ task'[t].next = size
    BY <1>a, <2>1 DEF TaskTypeOK, TaskState
  <2>4. size \in 0 .. TotalParts
    BY <1>a, <2>1, SizeTyped, PartsAssumption
  <2>5. \A p \in Part : p < size => partial[u].data[p] = parts[u][p]
    <3>1. ~\E p \in 0 .. size - 1 : partial[u].data[p] # parts[u][p]
      BY <1>a, <2>1
    <3>2. \A p \in Part : p < size => p \in 0 .. size - 1
      BY <2>4, PartsAssumption DEF Part
    <3> QED BY <3>1, <3>2
  <2>6. \A p \in Part : p < size => partial[u] # NoFile
    BY <2>1, PartsAssumption DEF PartialSize, Part
  <2>7. Prefix(file, u, size)'
    BY <1>f, <2>2, <2>5, <2>6 DEF Prefix, shareVars
  <2>8. Streams(file, t, u)'
    <3>1. CASE size = TotalParts
      BY <2>3, <2>7, <3>1 DEF Streams, Prefix
    <3>2. CASE size # TotalParts
      BY <2>3, <2>7, <3>2 DEF Streams, Prefix
    <3> QED BY <3>1, <3>2
  <2> QED BY <1>2, <2>2, <2>8 DEF shareVars
<1>9. CASE SmbOpen(t)
  <2>1. /\ task[t].pc = "create" /\ OpenPartial(t, u) /\ UNCHANGED storageVars
        /\ task' = [task EXCEPT ![t].pc = "append"]
    BY <1>9 DEF SmbOpen, TaskGoto
  <2>2. task'[t].pc = "append" /\ task'[t].next = task[t].next
    BY <1>a, <2>1 DEF TaskTypeOK, TaskState
  <2>3. UNCHANGED shareFile /\ t \in partialOpen'[u] /\ (partial[u] # NoFile => partial'[u] = partial[u])
    BY <1>a, <2>1 DEF OpenPartial, ShareTypeOK
  <2>4. Streams(file, t, u)'
    BY <1>g, <2>1, <2>2, <2>3 DEF Streams, Prefix
  <2> QED BY <1>2, <2>1, <2>3, <2>4
<1>10. ASSUME task[t].pc = "append", partFile[u][task[t].next] # NoFile, UNCHANGED storageVars,
              \/ SmbStreamSome(t)
              \/ SmbStream(t)
       PROVE  ShareIntact(file, u)'
  <2> DEFINE p == task[t].next
  <2>1. p \in Part /\ partFile[u][p] = file[u][p] /\ t \in partialOpen[u] /\ Prefix(file, u, p)
    BY <1>10, <1>a, <1>f, <1>g DEF TaskTypeOK, Streams
  <2>2. WriteSome(t, u, p, file[u][p]) \/ WriteRange(t, u, p, file[u][p])
    BY <1>10, <2>1 DEF SmbStreamSome, SmbStream
  <2>3. Held(t, u, p) = partial[u].data[p] /\ partial[u].data[p] \in {file[u][p], Torn}
    BY <1>h, <2>1 DEF Held, FromFile, ShareFromFile
  <2>4. PICK content \in {file[u][p], Torn} :
          /\ Wrote(t, u, p, content)
          /\ WriteRange(t, u, p, file[u][p]) => content = file[u][p]
    <3> HIDE DEF p
    <3> QED BY <1>a, <1>f, <2>1, <2>2, <2>3, RangeWritten
  <2> HIDE DEF p
  <2>5. /\ partial'[u] # NoFile
        /\ \A q \in Part : partial'[u].data[q] = IF q = p THEN content ELSE partial[u].data[q]
    BY <1>h, <2>1, <2>4 DEF Wrote
  <2>6. FileOnShare(file, u) => FileOnShare(file, u)'
    BY <1>h, <2>1, <2>4 DEF Wrote, FileOnShare
  <2>7. CASE SmbStreamSome(t)
    <3>1. UNCHANGED <<task, partialOpen>>
      BY <2>7 DEF SmbStreamSome, WriteSome
    <3>2. \A q \in Part : q < p => partial'[u].data[q] = file[u][q]
      BY <2>1, <2>5, PartNat DEF Prefix
    <3>3. Streams(file, t, u)'
      BY <1>10, <2>1, <2>5, <3>1, <3>2 DEF Streams, Prefix, p
    <3> QED BY <1>1, <1>10, <2>6, <3>3
  <2>8. CASE SmbStream(t)
    <3>1. /\ WriteRange(t, u, p, file[u][p]) /\ UNCHANGED <<partialOpen, sharedOpen>>
          /\ task' = [task EXCEPT ![t] =
                        [@ EXCEPT !.pc = IF p + 1 = TotalParts THEN "close" ELSE "append",
                                  !.next = p + 1]]
      BY <1>10, <2>1, <2>8 DEF SmbStream, LastPart, p
    <3>2. task'[t].pc = (IF p + 1 = TotalParts THEN "close" ELSE "append") /\ task'[t].next = p + 1
      BY <1>a, <3>1 DEF TaskTypeOK, TaskState
    <3>3. \A q \in Part : q < p + 1 => partial'[u].data[q] = file[u][q]
      <4>1. \A q \in Part : q < p + 1 => q < p \/ q = p
        BY <2>1, PartNat
      <4> QED BY <2>1, <2>4, <2>5, <3>1, <4>1 DEF Prefix
    <3>4. Streams(file, t, u)'
      <4>1. CASE p + 1 = TotalParts
        BY <2>5, <3>2, <3>3, <4>1 DEF Streams, Prefix
      <4>2. CASE p + 1 # TotalParts
        BY <2>1, <2>5, <3>1, <3>2, <3>3, <4>2 DEF Streams, Prefix
      <4> QED BY <4>1, <4>2
    <3> QED BY <1>1, <1>10, <2>6, <3>4
  <2> QED BY <1>10, <2>7, <2>8
<1>11. CASE SmbStreamSome(t) \/ (SmbStream(t) /\ partFile[u][task[t].next] # NoFile)
  BY <1>10, <1>11 DEF SmbStreamSome, SmbStream
<1>12. CASE SmbStream(t) /\ partFile[u][task[t].next] = NoFile
  BY <1>6, <1>12 DEF SmbStream
<1>13. CASE SmbRename(t) \/ SmbRenameFail(t)
  <2>1. /\ task[t].pc = "rename" /\ UNCHANGED storageVars
        /\ \/ TaskGoto(t, "enter") /\ UNCHANGED shareVars
           \/ (TaskGoto(t, "purge") \/ TaskGoto(t, "enter")) /\ RenamePartial(u) /\ partial[u] # NoFile
    BY <1>13 DEF SmbRename, SmbRenameFail, AttemptFailed
  <2>2. CASE TaskGoto(t, "enter") /\ UNCHANGED shareVars
    BY <1>3, <2>1, <2>2 DEF shareVars
  <2>3. CASE RenamePartial(u) /\ (TaskGoto(t, "purge") \/ TaskGoto(t, "enter")) /\ partial[u] # NoFile
    <3>1. \A p \in Part : partial[u].data[p] = file[u][p]
      BY <1>g, <2>1, PartsAssumption DEF Streams, Prefix, Part
    <3>2. FileOnShare(file, u)'
      BY <1>a, <2>3, <3>1 DEF RenamePartial, ShareTypeOK, FileOnShare
    <3>3. task'[t].pc \in {"purge", "enter"}
      BY <1>a, <2>3, TaskMoves
    <3>4. Streams(file, t, u)'
      BY <3>2, <3>3 DEF Streams, FileOnShare
    <3> QED BY <1>1, <2>1, <3>2, <3>4
  <2> QED BY <2>1, <2>2, <2>3
<1>14. CASE SmbPurge(t)
  <2>1. /\ task[t].pc = "purge" /\ TaskGoto(t, "mark_ok") /\ UNCHANGED shareVars
        /\ DeleteParts(u) \/ DeletePartsPartly(u)
    BY <1>14 DEF SmbPurge
  <2>2. task'[t].pc = "mark_ok" /\ FileOnShare(file, u) /\ FileOnShare(file, u)'
    BY <1>a, <1>g, <2>1, TaskMoves DEF Streams, FileOnShare, shareVars
  <2>3. \A p \in Part : partFile'[u][p] \in {parts[u][p], NoFile}
    BY <1>a, <1>g, <2>1, PartsDeleted
  <2>4. NoneOpen(u)'
    BY <1>g, <2>1 DEF NoneOpen, DeleteParts, DeletePartsPartly
  <2>5. Streams(file, t, u)'
    BY <2>2 DEF Streams, FileOnShare
  <2> QED BY <1>b, <1>d, <1>e, <2>2, <2>3, <2>4, <2>5, SmbSole
<1>15. CASE SmbClose(t)
  <2>1. /\ task[t].pc = "close" /\ TaskGoto(t, "rename")
        /\ UNCHANGED <<storageVars, partial, shareFile>>
    BY <1>15 DEF SmbClose
  <2>2. task'[t].pc = "rename"
    BY <1>a, <2>1, TaskMoves
  <2>3. Streams(file, t, u)'
    BY <1>g, <2>1, <2>2 DEF Streams, Prefix
  <2> QED BY <1>2, <2>1, <2>3
<1> QED BY <1>4, <1>5, <1>7, <1>8, <1>9, <1>11, <1>12, <1>13, <1>14, <1>15
        DEF TaskCall, SmbTaskStep

LEMMA OtherCallIntact ==
  ASSUME NEW file \in File, SmbInv, HandleInv,
         NEW u \in Upload, NEW t \in Task, TaskCall(t), task[t].u # u, ShareIntact(file, u)
  PROVE  ShareIntact(file, u)'
<1> DEFINE v == task[t].u
<1>a. StorageTypeOK /\ ShareTypeOK
  BY DEF SmbInv, ServerInv, TypeOK, SmbTypeOK
<1>b. /\ v \in Upload \ {u} /\ task'[t].u # u /\ \A s \in Task \ {t} : task'[s] = task[s]
      /\ UNCHANGED <<put, parts>> /\ uploads'[u].status = uploads[u].status
  BY TaskCallMoves DEF SameStatus, ingestVars
<1>1. SameFiles(u)
  <2>1. UNCHANGED storageVars \/ DeleteParts(v) \/ DeletePartsPartly(v)
    <3>1. CASE SmbCheck(t) \/ SmbEnter(t) \/ SmbStreamSome(t)
      BY <3>1 DEF SmbCheck, TaskCheck, SmbEnter, SmbStreamSome
    <3>2. CASE SmbCall(t)
      BY <3>2, CallSummary DEF Calls
    <3> QED BY <3>1, <3>2 DEF TaskCall, SmbTaskStep, SmbCall
  <2> HIDE DEF v
  <2>2. u \in Upload \ {v}
    BY <1>b
  <2> QED BY <1>a, <1>b, <2>1, <2>2, OtherDeleted DEF SameFiles, storageVars
<1>2. CalmTasks(u)
  BY <1>b DEF CalmTasks, Busy, ShareIntact, NoneOpen
<1>3. ShareKept(file, u)
  <2>1. CASE task[t].pc = "append" /\ task[t].next \in Part /\ partFile[v][task[t].next] \in Data
             /\ \/ WriteSome(t, v, task[t].next, partFile[v][task[t].next])
                \/ /\ WriteRange(t, v, task[t].next, partFile[v][task[t].next])
                   /\ UNCHANGED <<partialOpen, sharedOpen>>
    <3>1. PICK content \in {partFile[v][task[t].next], Torn} : Wrote(t, v, task[t].next, content)
      BY <1>a, <1>b, <2>1, RangeWritten
    <3>2. partialOpen'[u] = partialOpen[u]
      BY <1>a, <1>b, <2>1 DEF WriteSome, CloseHandle, ShareTypeOK
    <3> QED BY <1>b, <3>1, <3>2 DEF Wrote, ShareKept, FileOnShare
  <2> QED BY <1>a, <1>b, <2>1, TaskOnShare, OtherShare
<1>4. \A s \in Task : Busy(s, u)' => task'[s] = task[s]
  BY <1>b DEF Busy
<1>5. Untouched(u)
  BY <1>1, <1>2, <1>b DEF Untouched, CalmPuts, Sending
<1> QED BY <1>3, <1>4, <1>5, <1>b, SmbFrame

\* Syncs go on writing what the files have.
LEMMA SyncIntact ==
  ASSUME NEW file \in File, SmbInv, FromFile(file), HandleInv,
         NEW u \in Upload, NEW s \in Syncer, SyncCall(s), ShareIntact(file, u)
  PROVE  ShareIntact(file, u)'
<1> DEFINE v == sync[s].u
           p == sync[s].p
           body == sync[s].body
<1>a. ShareTypeOK /\ sync \in [Syncer -> SyncState] /\ s \notin Task
  BY ShareAssumption DEF SmbInv, SmbTypeOK, SyncState
<1>b. sync[s].pc # "idle" /\ UNCHANGED vars
  BY DEF SyncCall, SyncStep, SyncOpen, SyncEnd, SyncSome, SyncFail
<1>c. v \in Upload /\ p \in Part /\ body \in Data /\ body = file[v][p]
  BY <1>a, <1>b DEF SmbInv, SyncInv, FromFile, SyncState
<1>1. Untouched(u) /\ SameStatus
  BY <1>b, QuietFiles DEF SmbInv
<1>2. ShareKept(file, u)
  <2>1. CASE SyncOpen(s)
    <3>1. OpenPartial(s, v)
      BY <2>1 DEF SyncOpen
    <3>2. /\ partial[u] # NoFile => partial'[u] = partial[u]
          /\ partialOpen[u] \subseteq partialOpen'[u] /\ UNCHANGED shareFile
      BY <1>a, <1>c, <3>1 DEF OpenPartial, ShareTypeOK
    <3> QED BY <3>2 DEF ShareKept, FileOnShare
  <2>2. CASE SyncSome(s) \/ SyncEnd(s)
    <3>1. \/ WriteSome(s, v, p, body)
          \/ WriteRange(s, v, p, body) /\ CloseHandle(s, v)
      BY <2>2 DEF SyncSome, SyncEnd
    <3> HIDE DEF v, p, body
    <3> QED BY <1>a, <1>c, <3>1, WriteKeeps
  <2>3. CASE SyncFail(s)
    <3>1. UNCHANGED <<partial, shareFile>> /\ partialOpen[u] \ {s} \subseteq partialOpen'[u]
      BY <1>a, <1>c, <2>3 DEF SyncFail, CloseHandle, ShareTypeOK
    <3> QED BY <1>a, <3>1 DEF ShareKept, FileOnShare
  <2> QED BY <2>1, <2>2, <2>3 DEF SyncCall, SyncStep
<1>3. UNCHANGED task
  BY <1>b DEF vars, finalizerVars
<1> QED BY <1>1, <1>2, <1>3, SmbFrame DEF SameStatus

\* A removal only deletes files of uploads that are to be deleted.
LEMMA RemovalCallIntact ==
  ASSUME NEW file \in File, SmbInv, NEW u \in Upload, RemovalCall, Undisturbed(u)',
         ShareIntact(file, u)
  PROVE  ShareIntact(file, u)'
<1>a. ShareTypeOK /\ RemovalTypeOK /\ ServerInv
  BY DEF SmbInv, SmbTypeOK, ServerInv, TypeOK
<1>b. /\ \A d \in Canceller : canceller[d].pc # "idle" => canceller[d].u \in Upload \cap doomed
      /\ cleaner.todo \subseteq Upload \cap doomed
  BY <1>a DEF ServerInv, RowInv, GoneInv, RemovalTypeOK
<1>c. UNCHANGED <<ingestVars, finalizerVars, crashes, doomed>>
  BY DEF RemovalCall, CancelErase, SmbCancelPurge, SmbCancelUnlink, SmbCancelAbort, CleanErase,
         SmbCleanPurge, RemovalFrame, CancelPurge, CleanPurge, removalVars
<1>d. u \notin doomed
  BY <1>c DEF Undisturbed
<1>1. /\ Untouched(u)
      /\ uploads'[u].status = "complete" => uploads[u].status = "complete"
  <2>1. CASE RemovalNext
    BY <1>a, <1>c, <2>1, RemovalFiles
  <2>2. CASE UNCHANGED <<repoVars, storageVars>>
    BY <1>c, <2>2 DEF Untouched, SameFiles, CalmTasks, CalmPuts, Sending, repoVars, storageVars,
                      ingestVars, finalizerVars
  <2> QED BY <2>1, <2>2 DEF RemovalCall, CancelErase, SmbCancelPurge, SmbCancelUnlink,
             SmbCancelAbort, CleanErase, SmbCleanPurge, RemovalNext, CancelStep, CleanStep, CancelAbort
<1>2. ShareKept(file, u)
  <2>1. \/ UNCHANGED shareVars
        \/ \E v \in Upload \cap doomed : DeletePartial(v) \/ DeleteShared(v)
    BY <1>a, <1>b, RemovalShare DEF RemovalCall
  <2>2. CASE UNCHANGED shareVars
    BY <2>2 DEF shareVars, ShareKept, FileOnShare
  <2> QED BY <1>a, <1>d, <2>1, <2>2, OtherShare
<1>3. UNCHANGED task
  BY <1>c DEF finalizerVars
<1> QED BY <1>1, <1>2, <1>3, SmbFrame

LEMMA RequestIntact ==
  ASSUME NEW file \in File, SmbInv, OnePut, LateApart, LateUnrecorded, NEW u \in Upload,
         \/ IngestNext /\ UNCHANGED finalizerVars
         \/ (\E v \in Upload : Expire(v)) \/ UNCHANGED vars,
         UNCHANGED shareVars, Undisturbed(u), ShareIntact(file, u)
  PROVE  ShareIntact(file, u)'
<1>a. ServerInv /\ PutsIntact(u) /\ PartsHere(u)
  BY DEF SmbInv, ShareIntact, Stored, PartsHere
<1>b. UNCHANGED task /\ ShareKept(file, u)
  BY DEF finalizerVars, vars, Expire, shareVars, ShareKept, FileOnShare
<1>1. CASE IngestNext /\ UNCHANGED finalizerVars
  BY <1>1, <1>a, <1>b, IngestFiles, SmbFrame, SmbReceived DEF shareVars
<1>2. CASE (\E v \in Upload : Expire(v)) \/ UNCHANGED vars
  BY <1>2, <1>a, <1>b, QuietFiles, SmbFrame DEF SameStatus
<1> QED BY <1>1, <1>2

LEMMA OutsideIntact ==
  ASSUME NEW file \in File, SmbInv, OnePut, NEW u \in Upload,
         FinalizerOutside(Storing \cup {"check"}), UNCHANGED shareVars, ShareIntact(file, u)
  PROVE  ShareIntact(file, u)'
<1>a. ServerInv /\ TypeOK /\ TaskTypeOK /\ OpenIntact(u)
  BY DEF SmbInv, ServerInv, TypeOK, FinalizerTypeOK, ShareIntact, NoneOpen, OpenIntact
<1>b. /\ FinalizerNext /\ UNCHANGED <<ingestVars, removalVars, crashes>>
      /\ \A t \in Task : task[t].pc \in Storing \cup {"check"} => task'[t] = task[t]
  BY DEF FinalizerOutside
<1>1. ~\E t \in Task : FileStep(t)
  BY <1>a, <1>b, FileStepMoves
<1>2. /\ Untouched(u)
      /\ \/ uploads'[u].status = "complete" => uploads[u].status = "complete"
         \/ \E t \in Task : Busy(t, u) /\ task[t].pc = "mark_ok"
  BY <1>a, <1>b, <1>1, RowsFiles
<1>3. \A t \in Task : Busy(t, u) /\ task[t].pc = "mark_ok" => FileOnShare(file, u)
  BY DEF ShareIntact, Streams
<1>4. \A t \in Task : task'[t].pc = "create" => task'[t] = task[t]
  BY <1>a, OutsideTasks
<1>5. ShareKept(file, u)
  BY DEF shareVars, ShareKept, FileOnShare
<1> QED BY <1>2, <1>3, <1>4, <1>5, SmbFrame

LEMMA SmbCrashIntact ==
  ASSUME NEW file \in File, SmbInv, OnePut, NEW u \in Upload, SmbCrashRestart, Undisturbed(u)',
         ShareIntact(file, u)
  PROVE  ShareIntact(file, u)'
<1>a. ServerInv /\ CrashRestart /\ UNCHANGED <<partial, shareFile>>
  BY DEF SmbInv, SmbCrashRestart
<1>b. FileOnShare(file, u) => FileOnShare(file, u)'
  BY <1>a DEF FileOnShare
<1>1. /\ PutsIntact(u)' /\ UNCHANGED parts /\ SameStatus
      /\ \A t \in Task : task'[t].pc \in {"idle", "queued"}
      /\ \A p \in Part : partFile'[u][p] \in {partFile[u][p], NoFile}
      /\ \/ \A p \in Part : partFile'[u][p] = partFile[u][p]
         \/ AllUploaded(u) /\ \E t \in Task : Busy(t, u) /\ task[t].pc = "purge"
  BY <1>a, CrashPartFiles
<1>2. NoneOpen(u)'
  BY <1>a DEF CrashRestart, NoneOpen
<1>3. Stored(file, u)'
  <2>1. \/ \A p \in Part : partFile'[u][p] = partFile[u][p]
        \/ AllUploaded(u) /\ FileOnShare(file, u)
    BY <1>1 DEF ShareIntact, Streams
  <2> QED BY <1>1, <1>b, <2>1 DEF ShareIntact, Stored, AllUploaded, Uploaded
<1>4. \A t \in Task : Streams(file, t, u)'
  BY <1>1 DEF Streams
<1> QED BY <1>1, <1>2, <1>3, <1>4, <1>b DEF ShareIntact, SameStatus

-----------------------------------------------------------------------------
\* The invariants of the client hold with the share as with the local disk.

LEMMA SmbClientSteps ==
  ASSUME SmbInv, [SmbNext]_smbServerVars
  PROVE  [Next]_vars \/ (UNCHANGED <<repoVars, ingestVars>> /\ NoneLater)
<1>a. StorageTypeOK
  BY DEF SmbInv, ServerInv, TypeOK
<1>1. ASSUME NEW t \in Task, SmbCall(t) PROVE UNCHANGED <<repoVars, ingestVars>> /\ NoneLater
  <2>1. Calls(t) /\ task[t].pc # "idle"
    BY <1>1, CallSummary DEF Calls, Storing
  <2>2. task[t].u \in Upload
    BY <2>1 DEF SmbInv, ServerInv, TypeOK, FinalizerTypeOK, TaskTypeOK
  <2>3. UNCHANGED storageVars \/ DeleteParts(task[t].u) \/ DeletePartsPartly(task[t].u)
    BY <2>1 DEF Calls
  <2>4. \A v \in Upload, q \in Part : Bodies(v, q)' \subseteq Bodies(v, q)
    BY <1>a, <2>2, <2>3, BodiesOfDeletions DEF Bodies, storageVars
  <2> QED BY <2>1, <2>4 DEF Calls, NoneLater, ingestVars
<1>2. ASSUME NEW d \in Canceller, SmbCancelUnlink(d)
      PROVE  UNCHANGED <<repoVars, ingestVars>> /\ NoneLater
  BY <1>2 DEF SmbCancelUnlink, RemovalFrame, NoneLater, Bodies, ingestVars, storageVars
<1> QED BY <1>1, <1>2, SmbSteps

LEMMA SmbOnePut ==
  ASSUME Discipline, SmbInv, OnePut, LateApart, LateUnrecorded, [SmbNext]_smbServerVars
  PROVE  OnePut' /\ LateUnrecorded'
<1>1. CASE [Next]_vars
  BY <1>1, OnePutNext, LateUnrecordedNext DEF SmbInv, ServerInv
<1>2. CASE UNCHANGED <<repoVars, ingestVars>> /\ NoneLater
  <2>1. OnePut'
    BY <1>2 DEF OnePut, Known, Sending, repoVars, ingestVars
  <2>2. LateUnrecorded'
    BY <1>2, ApartUnrecorded DEF SmbInv, ServerInv, repoVars
  <2> QED BY <2>1, <2>2
<1> QED BY <1>1, <1>2, SmbClientSteps

\* An upload of which the share is looked at was so before the step.
LEMMA SmbUndisturbed ==
  ASSUME SmbInv, [SmbNext]_smbServerVars, NEW u \in Upload, Undisturbed(u)', ~gapped'[u]
  PROVE  Undisturbed(u) /\ ~gapped[u]
<1>a. gapped \in [Upload -> BOOLEAN]
  BY DEF SmbInv, SmbTypeOK
<1>1. CASE CommonNext
  <2>1. UNCHANGED gapped
    BY <1>1 DEF CommonNext, remoteVars, attemptVars
  <2>2. CASE RequestNext
    BY <2>1, <2>2 DEF RequestNext, Expire, Undisturbed, finalizerVars, removalVars
  <2>3. CASE FinalizerOutside(Storing \cup {"check"})
    BY <2>1, <2>3, FinalizerUndisturbed DEF FinalizerOutside, SmbInv
  <2>4. CASE RemovalOutside
    BY <2>1, <2>4, RemovalFiles DEF RemovalOutside, SmbInv
  <2> QED BY <1>1, <2>2, <2>3, <2>4 DEF CommonNext
<1>2. CASE (\E w \in Writer : StorePart(w)) \/ (\E s \in Syncer : SyncCall(s)) \/ UNCHANGED smbServerVars
  BY <1>2 DEF StorePart, SyncCall, SyncStep, SyncOpen, SyncEnd, SyncSome, SyncFail, smbServerVars,
              vars, finalizerVars, removalVars, remoteVars, attemptVars, Undisturbed
<1>3. ASSUME NEW t \in Task, TaskCall(t) PROVE Undisturbed(u) /\ ~gapped[u]
  <2>1. Undisturbed(u) /\ task[t].u \in Upload
    BY <1>3, TaskCallMoves DEF removalVars, Undisturbed
  <2>2. UNCHANGED gapped \/ \E b : gapped' = [gapped EXCEPT ![task[t].u] = @ \/ b]
    <3>1. CASE SmbAttempt(t)
      BY <3>1 DEF SmbAttempt
    <3>2. CASE ~SmbAttempt(t)
      BY <1>3, <3>2 DEF TaskCall, SmbTaskStep, SmbCheck, SmbEnter, SmbOpen, SmbStream, SmbClose,
           SmbRename, SmbPurge, SmbGiveUp, SmbConnectFail, SmbStreamSome, SmbStreamFail, SmbRenameFail, remoteVars,
           attemptVars
    <3> QED BY <3>1, <3>2
  <2> QED BY <1>a, <2>1, <2>2
<1>4. CASE RemovalCall
  BY <1>4 DEF RemovalCall, CancelErase, SmbCancelPurge, SmbCancelUnlink, SmbCancelAbort, CleanErase,
              SmbCleanPurge, RemovalFrame, CancelPurge, CleanPurge, removalVars, finalizerVars,
              Undisturbed
<1>5. CASE SmbCrashRestart
  BY <1>5 DEF SmbCrashRestart, CrashRestart, Undisturbed
<1> QED BY <1>1, <1>2, <1>3, <1>4, <1>5, SmbKinds

LEMMA ShareInvNext ==
  ASSUME NEW file \in File, SmbInv, OnePut, LateApart, LateUnrecorded, FromFile(file), HandleInv,
         ShareInv(file), [SmbNext]_smbServerVars
  PROVE  ShareInv(file)'
<1> SUFFICES ASSUME NEW u \in Upload, Undisturbed(u)', ~gapped'[u] PROVE ShareIntact(file, u)'
  BY DEF ShareInv
<1>1. Undisturbed(u) /\ ShareIntact(file, u)
  BY SmbUndisturbed DEF ShareInv
<1>2. CASE CommonNext
  <2>1. CASE RequestNext
    BY <1>1, <1>2, <2>1, RequestIntact DEF CommonNext, RequestNext, remoteVars
  <2>2. CASE FinalizerOutside(Storing \cup {"check"})
    BY <1>1, <1>2, <2>2, OutsideIntact DEF CommonNext, remoteVars
  <2>3. CASE RemovalOutside
    <3>1. /\ Untouched(u) /\ UNCHANGED task
          /\ uploads'[u].status = "complete" => uploads[u].status = "complete"
      BY <2>3, RemovalFiles DEF RemovalOutside, SmbInv, finalizerVars
    <3>2. ShareKept(file, u)
      BY <1>2, <3>1 DEF CommonNext, remoteVars, shareVars, ShareKept, FileOnShare
    <3> QED BY <1>1, <3>1, <3>2, SmbFrame
  <2> QED BY <1>2, <2>1, <2>2, <2>3 DEF CommonNext
<1>3. CASE (\E w \in Writer : StorePart(w)) \/ UNCHANGED smbServerVars
  <2>1. /\ (IngestNext /\ UNCHANGED finalizerVars) \/ UNCHANGED vars
        /\ UNCHANGED shareVars
    BY <1>3 DEF StorePart, smbServerVars, remoteVars, IngestNext, PutStep
  <2> QED BY <1>1, <2>1, RequestIntact
<1>4. CASE \E t \in Task : TaskCall(t)
  BY <1>1, <1>4, OwnCallIntact, OtherCallIntact
<1>5. CASE \E s \in Syncer : SyncCall(s)
  BY <1>1, <1>5, SyncIntact
<1>6. CASE RemovalCall \/ SmbCrashRestart
  BY <1>1, <1>6, RemovalCallIntact, SmbCrashIntact
<1> QED BY <1>2, <1>3, <1>4, <1>5, <1>6, SmbKinds

LEMMA ShareInvInit == ASSUME NEW file \in File, SmbInit PROVE ShareInv(file)
<1>1. \A u \in Upload : NoneOpen(u) /\ uploads[u].status # "complete"
  BY DEF SmbInit, Init, StorageInit, RepoInit, NoRow, NoneOpen
<1>2. \A w \in Writer : ~Sending(w)
  BY DEF SmbInit, Init, IngestInit, NoPut, Sending
<1>3. \A t \in Task, u \in Upload : ~Busy(t, u)
  BY DEF SmbInit, Init, FinalizerInit, NoTask, Busy
<1>4. \A u \in Upload, p \in Part : ~Uploaded(u, p)
  BY ValuesAssumption DEF SmbInit, Init, RepoInit, Uploaded
<1> QED BY <1>1, <1>2, <1>3, <1>4 DEF ShareInv, ShareIntact, PutsIntact, Stored

\* The final file on the share is the one the checksums describe.
LEMMA ShareInvImplies ==
  ASSUME NEW file \in File, SmbInv, OnePut, FromFile(file), ShareInv(file)
  PROVE  SmbNoDataLoss /\ SmbCompletionIntact
<1>1. ASSUME NEW u \in Upload, AllUploaded(u), FileOnShare(file, u) PROVE OnShare(u)
  <2>1. /\ shareFile[u] # NoFile /\ shareFile[u].data \in [Part -> Data]
        /\ parts[u] \in [Part -> Content]
    BY <1>1 DEF SmbInv, SmbTypeOK, ShareTypeOK, ShareFile, ServerInv, TypeOK, RepoTypeOK,
                AllUploaded, Uploaded, FileOnShare
  <2>2. \A p \in Part : shareFile[u].data[p] = parts[u][p]
    BY <1>1 DEF AllUploaded, FromFile, FileOnShare
  <2> QED BY <2>1, <2>2 DEF OnShare
<1>2. ASSUME NEW u \in Upload, Undisturbed(u), ~gapped[u], uploads[u].status = "complete"
      PROVE  OnShare(u)
  <2>1. AllUploaded(u) /\ FileOnShare(file, u)
    BY <1>2, WhenStarted DEF SmbInv, Started, ShareInv, ShareIntact
  <2> QED BY <1>1, <2>1
<1>3. ASSUME NEW u \in Upload, Undisturbed(u), ~gapped[u], NEW p \in Part, Uploaded(u, p)
      PROVE  partFile[u][p] = parts[u][p] \/ OnShare(u)
  BY <1>1, <1>3 DEF ShareInv, ShareIntact, Stored
<1> QED BY <1>2, <1>3 DEF SmbNoDataLoss, SmbCompletionIntact, Undisturbed

LEMMA ShareInvariant ==
  ASSUME Discipline, NEW file \in File
  PROVE  SmbSpec /\ []LateApart /\ []Sends(file)
         => [](SmbInv /\ OnePut /\ FromFile(file) /\ ShareInv(file))
<1>1. SmbInit => /\ OnePut /\ LateUnrecorded /\ FromFile(file) /\ HandleInv /\ ShareInv(file)
  BY OnePutInit, LateUnrecordedInit, FromFileInit, HandleInit, ShareInvInit DEF SmbInit
<1>2. SmbInv /\ OnePut /\ LateApart /\ LateUnrecorded /\ [SmbNext]_smbServerVars
      => OnePut' /\ LateUnrecorded'
  BY SmbOnePut
<1>3. SmbInv /\ FromFile(file) /\ Sends(file) /\ [SmbNext]_smbServerVars => FromFile(file)'
  BY FromFileNext
<1>4. SmbInv /\ HandleInv /\ [SmbNext]_smbServerVars => HandleInv'
  BY HandleNext
<1>5. SmbInv /\ OnePut /\ LateApart /\ LateUnrecorded /\ FromFile(file) /\ HandleInv
      /\ ShareInv(file) /\ [SmbNext]_smbServerVars => ShareInv(file)'
  BY ShareInvNext
<1> QED BY <1>1, <1>2, <1>3, <1>4, <1>5, SmbInvariant, PTL DEF SmbSpec

\* A recorded part stays recoverable through failing operations on the share,
\* retried attempts, a rename of unknown outcome, syncs that go on writing
\* behind the rename and restarts, for clients as for NoDataLossSafe that send
\* one file: a part sent again has the same bytes (a sync of an earlier body
\* may be under way still).  It is about finalizations that found on the share
\* what the size of the partial says, as SmbNoDataLoss is.
THEOREM SmbNoDataLossSafe ==
  ASSUME Discipline, NEW file \in File
  PROVE  SmbSpec /\ []LateApart /\ []Sends(file) => []SmbNoDataLoss
<1>1. SmbInv /\ OnePut /\ FromFile(file) /\ ShareInv(file) => SmbNoDataLoss
  BY ShareInvImplies
<1> QED BY <1>1, ShareInvariant, PTL

\* What the server calls complete has the final file of its checksums on the
\* share, and keeps it, for such clients and finalizations.
THEOREM SmbCompletionIntactSafe ==
  ASSUME Discipline, NEW file \in File
  PROVE  SmbSpec /\ []LateApart /\ []Sends(file) => []SmbCompletionIntact
<1>1. SmbInv /\ OnePut /\ FromFile(file) /\ ShareInv(file) => SmbCompletionIntact
  BY ShareInvImplies
<1> QED BY <1>1, ShareInvariant, PTL

\* Where no request is dropped, the condition on what they leave is void as well,
\* and what is asked of the client is one file, a part at a time.
THEOREM SmbUndropped ==
  ASSUME Discipline, "abort" \notin Faults, NEW file \in File
  PROVE  SmbSpec /\ []Sends(file) => [](SmbNoDataLoss /\ SmbCompletionIntact)
<1>1. SmbInit => NothingLate
  BY NothingLateInit DEF SmbInit
<1>2. SmbInv /\ NothingLate => LateApart
  BY NothingLateApart DEF SmbInv, ServerInv
<1>3. SmbInv /\ NothingLate /\ [SmbNext]_smbServerVars => NothingLate'
  BY SmbClientSteps, NothingLateNext, NothingLateKept DEF SmbInv, ServerInv
<1> QED BY <1>1, <1>2, <1>3, SmbInvariant, SmbNoDataLossSafe, SmbCompletionIntactSafe, PTL
           DEF SmbSpec

-----------------------------------------------------------------------------
\* What is left on the disk: the invariants of ObserverProofs.

LEMMA OverlapWrites == ASSUME NEW u, ~SmbOverlap(u) PROVE ~Overlap(u)
  BY DEF SmbOverlap

LEMMA StatusKept ==
  ASSUME SmbInv, NEW t \in Task, SmbCall(t)
  PROVE  SameStatus /\ UNCHANGED <<parts, put, canceller, cleaner>>
  BY CallSummary DEF Calls, SameStatus, repoVars, ingestVars, removalVars

\* How a task gets past the rename, and past the deletion of the parts.
LEMMA PastCalls ==
  ASSUME SmbInv, NEW t \in Task, TaskCall(t) \/ SmbCall(t)
  PROVE  /\ task'[t].pc = "purge" => SmbRename(t) /\ RenamePartial(task[t].u)
         /\ task'[t].pc = "mark_ok" => SmbPurge(t)
<1>a. TaskTypeOK
  BY DEF SmbInv, ServerInv, TypeOK, FinalizerTypeOK
<1>1. CASE SmbPurge(t)
  BY <1>1, <1>a, TaskMoves DEF SmbPurge
<1>2. CASE SmbRename(t)
  <2>1. CASE TaskGoto(t, "enter")
    BY <1>a, <2>1, TaskMoves
  <2>2. CASE ~TaskGoto(t, "enter")
    BY <1>2, <1>a, <2>2, TaskMoves DEF SmbRename, AttemptFailed
  <2> QED BY <2>1, <2>2
<1>3. CASE SmbEnter(t) \/ SmbStreamSome(t)
  BY <1>3 DEF SmbEnter, SmbStreamSome
<1>4. CASE SmbAttempt(t) \/ (SmbStream(t) /\ partFile[task[t].u][task[t].next] # NoFile)
  <2>1. PICK pc \in {"rename", "create", "append", "close"} : \E n :
           task' = [task EXCEPT ![t] = [@ EXCEPT !.pc = pc, !.next = n]]
    BY <1>4 DEF SmbAttempt, SmbStream
  <2> QED BY <1>a, <2>1 DEF TaskTypeOK, TaskState
<1>5. CASE \/ SmbCheck(t) \/ SmbOpen(t) \/ SmbConnectFail(t) \/ SmbStreamFail(t) \/ SmbRenameFail(t)
           \/ SmbStream(t) /\ partFile[task[t].u][task[t].next] = NoFile
           \/ SmbRefused(t) \/ SmbClose(t) \/ SmbGiveUp(t)
  <2>1. \E pc \in {"enter", "append", "rename", "mark_fail"} : TaskGoto(t, pc)
    BY <1>5 DEF SmbCheck, TaskCheck, SmbOpen, SmbConnectFail, SmbStreamFail, SmbRenameFail,
                SmbStream, SmbRefused, SmbClose, SmbGiveUp, GiveUp, AttemptFailed
  <2> QED BY <1>a, <2>1, TaskMoves
<1> QED BY <1>1, <1>2, <1>3, <1>4, <1>5 DEF TaskCall, SmbTaskStep, SmbCall

LEMMA SmbDirNext ==
  ASSUME SmbInv, DirInv, [SmbNext]_smbServerVars
  PROVE  DirInv'
<1>a. TypeOK /\ StorageTypeOK /\ TaskTypeOK
  BY DEF SmbInv, ServerInv, TypeOK, FinalizerTypeOK
<1>1. CASE [Next]_vars
  BY <1>1, <1>a, DirNext
<1>2. ASSUME NEW t \in Task, SmbCall(t) PROVE DirInv'
  <2>1. Calls(t) /\ task[t].pc # "idle"
    BY <1>2, CallSummary DEF Calls, Storing
  <2>2. task[t].u \in Upload
    BY <1>a, <2>1 DEF TaskTypeOK
  <2>3. CASE UNCHANGED storageVars
    BY <2>3 DEF storageVars, DirInv
  <2>4. CASE DeleteParts(task[t].u)
    BY <1>a, <2>2, <2>4 DEF DeleteParts, DirInv, StorageTypeOK, NoPartFiles, NobodyOpen
  <2>5. CASE DeletePartsPartly(task[t].u)
    BY <1>a, <2>2, <2>5 DEF DeletePartsPartly, DirInv, StorageTypeOK, NoPartFiles, NobodyOpen
  <2> QED BY <2>1, <2>3, <2>4, <2>5 DEF Calls
<1>3. ASSUME NEW d \in Canceller, SmbCancelUnlink(d) PROVE DirInv'
  BY <1>3 DEF SmbCancelUnlink, storageVars, DirInv
<1> QED BY <1>1, <1>2, <1>3, SmbSteps

LEMMA SmbSweptNext ==
  ASSUME SmbInv, "io" \notin Faults, [SmbNext]_smbServerVars,
         NEW u \in Upload, ~SmbOverlap(u), SweptInv(u)
  PROVE  SweptInv(u)'
<1>a. TypeOK /\ StorageTypeOK /\ TaskTypeOK /\ RemovalTypeOK
  BY DEF SmbInv, ServerInv, TypeOK, FinalizerTypeOK
<1>1. CASE [Next]_vars
  BY <1>1, <1>a, SweptNext, OverlapWrites
<1>2. ASSUME NEW t \in Task, SmbCall(t) PROVE SweptInv(u)'
  <2>1. /\ SameStatus /\ UNCHANGED <<parts, put, canceller, cleaner>>
        /\ Calls(t) /\ task[t].pc # "idle"
    BY <1>2, CallSummary, StatusKept DEF Calls, Storing
  <2>2. task[t].u \in Upload
    BY <1>a, <2>1 DEF TaskTypeOK
  <2>3. Unsent(u)'
    BY <2>1 DEF SweptInv, Unsent, Sending, SameStatus
  <2>4. partsDir'[u] => partsDir[u]
    BY <1>a, <2>1, <2>2 DEF Calls, storageVars, DeleteParts, DeletePartsPartly, StorageTypeOK
  <2>5. ASSUME Swept(u)', ~Swept(u) PROVE ~partsDir'[u] /\ ~MkdirLate(u)
    <3>1. task'[t].pc = "mark_ok" /\ task[t].u = u
      BY <2>1, <2>5 DEF Swept, SameStatus, Calls
    <3>2. DeleteParts(u) /\ task[t].pc = "purge"
      BY <1>2, <3>1, PastCalls DEF SmbPurge
    <3>3. t \in FinalizersOf(u)
      BY <3>1, <3>2 DEF FinalizersOf, Running, Storing
    <3>4. ~MkdirLate(u)
      BY <3>3, OverlapWrites DEF Overlap, MkdirBehind, MkdirLate
    <3> QED BY <1>a, <3>2, <3>4 DEF DeleteParts, StorageTypeOK
  <2>6. MkdirLate(u)' <=> MkdirLate(u)
    BY <2>1 DEF Calls, ingestVars, MkdirLate
  <2> QED BY <2>3, <2>4, <2>5, <2>6 DEF SweptInv
<1>3. ASSUME NEW d \in Canceller, SmbCancelUnlink(d) PROVE SweptInv(u)'
  <2>1. /\ UNCHANGED <<uploads, parts, put, late, task, cleaner, partsDir>>
        /\ canceller[d].pc = "unlink" /\ canceller' = [canceller EXCEPT ![d].pc = "rows"]
    BY <1>3 DEF SmbCancelUnlink, RemovalFrame, CancelGoto, repoVars, storageVars, ingestVars, finalizerVars
  <2>2. Swept(u)' => Swept(u)
    BY <1>a, <2>1 DEF Swept, RemovalTypeOK
  <2> QED BY <2>1, <2>2 DEF SweptInv, Unsent, MkdirLate, Sending
<1> QED BY <1>1, <1>2, <1>3, SmbSteps

-----------------------------------------------------------------------------
\* Nobody finalizes an upload that is gone.
GoneIdle(u) == uploads[u].status = "deleted" => ~HasTask(u)

LEMMA GoneFrame ==
  ASSUME NEW u \in Upload, GoneIdle(u),
         uploads'[u].status = "deleted" => uploads[u].status = "deleted",
         \A t \in Task : Working(t)' /\ task'[t].u = u => Working(t) /\ task[t].u = u
  PROVE  GoneIdle(u)'
  BY DEF GoneIdle, HasTask

LEMMA GoneIdleNext ==
  ASSUME ServerInv, [Next]_vars, NEW u \in Upload, ~Overlap(u), GoneIdle(u)
  PROVE  GoneIdle(u)'
<1>a. TypeOK /\ RepoTypeOK
  BY DEF ServerInv, TypeOK
<1>1. CASE IngestNext /\ UNCHANGED <<finalizerVars, removalVars, crashes>>
  <2>1. UNCHANGED uploads \/ \E v \in Upload : InitCreate(v)
    BY <1>1 DEF IngestNext, InitParts, InitPartsError, CreateParts, PutStart, PutStep, PutMkdir, PutCreate,
         PutWrite, PutMark, UpdatePartStatus, PutIoError, PutDbError, PutAbort, LateStep, LateMkdir, LateCreate, LateWrite, ingestVars, repoVars
  <2>2. ASSUME NEW v \in Upload, InitCreate(v) PROVE SetsStatus(v, "pending")
    BY <1>a, <2>2, StatusOfStatement DEF InitCreate
  <2>3. uploads'[u].status = "deleted" => uploads[u].status = "deleted"
    BY <2>1, <2>2 DEF SetsStatus
  <2> QED BY <1>1, <2>3, GoneFrame DEF finalizerVars, Working
<1>2. CASE FinalizerNext /\ UNCHANGED <<ingestVars, removalVars, crashes>>
  <2>1. ASSUME NEW t \in Task, QuietTask(t) \/ OutcomeTask(t) PROVE GoneIdle(u)'
    <3>1. /\ \A s \in Task \ {t} : task'[s] = task[s]
          /\ Working(t)' => Working(t) /\ task'[t].u = task[t].u
      BY <2>1 DEF QuietTask, OutcomeTask, Working, Running, Storing
    <3>2. uploads'[u].status = "deleted" => uploads[u].status = "deleted"
      BY <2>1 DEF QuietTask, OutcomeTask, SameStatus, SetsStatus
    <3> QED BY <3>1, <3>2, GoneFrame DEF Working
  <2>2. ASSUME NEW c \in Completer,
               (\E v \in Upload : CompleteStart(c, v)) \/ CompleterStep(c) \/ CompleteDbError(c)
        PROVE  GoneIdle(u)'
    <3>1. CASE SameStatus /\ UNCHANGED task
      BY <3>1, GoneFrame DEF SameStatus, Working
    <3>2. ASSUME NEW v, NEW t \in Task, Spawned(t, v),
                 \/ uploads[v].status = "finalizing" /\ SameStatus
                 \/ SetsStatus(v, "finalizing")
          PROVE  GoneIdle(u)'
      <4>1. CASE u = v
        BY <3>2, <4>1 DEF SameStatus, SetsStatus, GoneIdle
      <4>2. CASE u # v
        BY <3>2, <4>2, GoneFrame DEF SameStatus, SetsStatus, Spawned, Working
      <4> QED BY <4>1, <4>2
    <3> QED BY <1>2, <1>a, <2>2, <3>1, <3>2, CompleterSummary
  <2>3. CASE QuietRow
    BY <2>3, GoneFrame DEF QuietRow, SameStatus, Working
  <2> QED BY <1>2, <1>a, <2>1, <2>2, <2>3, FinalizerSummary
<1>3. CASE RemovalNext /\ UNCHANGED <<ingestVars, finalizerVars, crashes>>
  <2>1. CASE BeingRemoved(u)
    <3>1. ~HasTask(u)
      BY <1>a, <2>1, WritersWrite DEF Overlap, HasTask
    <3> QED BY <1>3, <3>1 DEF GoneIdle, HasTask, Working, finalizerVars
  <2>2. CASE ~BeingRemoved(u)
    <3>1. uploads'[u].status = uploads[u].status
      BY <1>3, <1>a, <2>2, RemovalElsewhere
    <3> QED BY <1>3, <3>1, GoneFrame DEF Working, finalizerVars
  <2> QED BY <2>1, <2>2
<1>4. CASE (\E v \in Upload : Expire(v)) \/ UNCHANGED vars
  <2>1. QuietRow
    BY <1>4, <1>a, RowQuiet
  <2> QED BY <2>1, GoneFrame DEF QuietRow, SameStatus, Working
<1>5. CASE CrashRestart
  <2>1. /\ SameStatus
        /\ \A t \in Task : task'[t].pc # "idle" => uploads[task'[t].u].status = "finalizing"
    BY <1>5, <1>a, CrashSummary
  <2> QED BY <2>1 DEF GoneIdle, HasTask, SameStatus, Working, Running, Storing
<1> QED BY <1>1, <1>2, <1>3, <1>4, <1>5 DEF Next

LEMMA SmbGoneIdleNext ==
  ASSUME SmbInv, [SmbNext]_smbServerVars, NEW u \in Upload, ~SmbOverlap(u), GoneIdle(u)
  PROVE  GoneIdle(u)'
<1>a. ServerInv
  BY DEF SmbInv
<1>1. CASE [Next]_vars
  BY <1>1, <1>a, GoneIdleNext, OverlapWrites
<1>2. ASSUME NEW t \in Task, SmbCall(t) PROVE GoneIdle(u)'
  <2>1. Calls(t) /\ SameStatus
    BY <1>2, CallSummary, StatusKept
  <2>2. Working(t) /\ task'[t].u = task[t].u /\ \A s \in Task \ {t} : task'[s] = task[s]
    BY <2>1 DEF Calls, Working, Running, Storing
  <2> QED BY <2>1, <2>2, GoneFrame DEF SameStatus, Working
<1>3. ASSUME NEW d \in Canceller, SmbCancelUnlink(d) PROVE GoneIdle(u)'
  <2>1. UNCHANGED <<uploads, task>>
    BY <1>3 DEF SmbCancelUnlink, RemovalFrame, repoVars, finalizerVars
  <2> QED BY <2>1, GoneFrame DEF Working
<1> QED BY <1>1, <1>2, <1>3, SmbSteps

\* Only a removal that is cleaning the storage has erased the partial.
EraseInv == /\ \A d \in erased : canceller[d].pc = "purge"
            /\ erasing # None => cleaner.pc = "purge" /\ erasing \in cleaner.todo

LEMMA EraseInvNext ==
  ASSUME SmbInv, EraseInv, [SmbNext]_smbServerVars
  PROVE  EraseInv'
<1>a. RemovalTypeOK /\ erased \in SUBSET Canceller
  BY DEF SmbInv, ServerInv, TypeOK, SmbTypeOK
<1>1. CASE CommonNext
  <2>1. UNCHANGED <<erased, erasing>>
    BY <1>1 DEF CommonNext, remoteVars, eraseVars
  <2>2. /\ \A d \in Canceller : canceller[d].pc = "purge" => canceller'[d] = canceller[d]
        /\ cleaner.pc = "purge" => cleaner' = cleaner
    BY <1>1 DEF CommonNext, RequestNext, FinalizerOutside, RemovalOutside, Expire, removalVars
  <2> QED BY <1>a, <2>1, <2>2 DEF EraseInv
<1>2. CASE (\E w \in Writer : StorePart(w)) \/ (\E s \in Syncer : SyncCall(s)) \/ UNCHANGED smbServerVars
  <2>1. UNCHANGED <<canceller, cleaner, erased, erasing>>
    BY <1>2 DEF StorePart, SyncCall, SyncStep, SyncOpen, SyncEnd, SyncSome, SyncFail, smbServerVars,
                vars, removalVars, remoteVars, eraseVars
  <2> QED BY <2>1 DEF EraseInv
<1>3. ASSUME NEW t \in Task, TaskCall(t) PROVE EraseInv'
  <2>1. UNCHANGED removalVars
    BY <1>3, TaskCallMoves
  <2>2. UNCHANGED eraseVars
    BY <1>3 DEF TaskCall, SmbTaskStep, SmbCheck, SmbEnter, SmbAttempt, SmbOpen, SmbStream, SmbClose,
           SmbRename, SmbPurge, SmbGiveUp, SmbConnectFail, SmbStreamSome, SmbStreamFail,
           SmbRenameFail, FinalizeFrame, remoteVars
  <2> QED BY <2>1, <2>2 DEF EraseInv, removalVars, eraseVars
<1>4. ASSUME NEW d \in Canceller,
             CancelErase(d) \/ SmbCancelPurge(d) \/ SmbCancelUnlink(d) \/ SmbCancelAbort(d)
      PROVE  EraseInv'
  <2>1. /\ erased' \subseteq erased \cup {d} /\ UNCHANGED <<erasing, cleaner>>
        /\ \A e \in Canceller \ {d} : canceller'[e] = canceller[e]
    BY <1>4, <1>a DEF CancelErase, SmbCancelPurge, SmbCancelUnlink, SmbCancelAbort, CancelPurge,
       CancelGoto, CancelReturn, removalVars, eraseVars, RemovalTypeOK
  <2>2. d \in erased' => canceller'[d].pc = "purge"
    BY <1>4, <1>a DEF CancelErase, SmbCancelPurge, SmbCancelUnlink, SmbCancelAbort, removalVars, eraseVars,
       EraseInv
  <2> QED BY <1>a, <2>1, <2>2 DEF EraseInv
<1>5. CASE CleanErase
  BY <1>5 DEF CleanErase, removalVars, EraseInv
<1>6. CASE SmbCleanPurge
  BY <1>6 DEF SmbCleanPurge, CleanPurge, EraseInv
<1>7. CASE SmbCrashRestart
  BY <1>7 DEF SmbCrashRestart, EraseInv
<1> QED BY <1>1, <1>2, <1>3, <1>4, <1>5, <1>6, <1>7, SmbKinds DEF RemovalCall

-----------------------------------------------------------------------------
\* What is left on the share.

\* The partial of the upload has been renamed or deleted.
PartialGone(u) ==
    \/ uploads[u].status \in {"complete", "deleted"}
    \/ \E t \in Task : task[t].pc \in {"purge", "mark_ok"} /\ task[t].u = u
    \/ \E d \in Canceller : /\ canceller[d].u = u
                            /\ canceller[d].pc \in {"unlink", "rows", "row"} \/ d \in erased
    \/ cleaner.u = u
    \/ erasing = u

NonePartial(u) == partial[u] = NoFile /\ ~Syncing(u)

PartialInv(u) == PartialGone(u) => NonePartial(u)

\* An upload whose partial is gone is being removed, or has an outcome, and
\* then neither a request nor a task adds anything to it.
LEMMA GoneMeans ==
  ASSUME SmbInv, EraseInv, NEW u \in Upload, PartialGone(u)
  PROVE  \/ BeingRemoved(u)
         \/ uploads[u].status \in {"complete", "deleted"}
         \/ \E t \in Task : task[t].pc \in {"purge", "mark_ok"} /\ task[t].u = u
<1>1. ASSUME NEW d \in Canceller, canceller[d].u = u,
             canceller[d].pc \in {"unlink", "rows", "row"} \/ d \in erased
      PROVE  BeingRemoved(u)
  BY <1>1 DEF SmbInv, SmbTypeOK, EraseInv, BeingRemoved
<1>2. ASSUME cleaner.u = u \/ erasing = u PROVE BeingRemoved(u)
  BY <1>2, ValuesAssumption DEF EraseInv, BeingRemoved
<1> QED BY <1>1, <1>2 DEF PartialGone

\* No part of it is being sent.
LEMMA NobodySyncs ==
  ASSUME SmbInv, EraseInv, NEW u \in Upload, ~SmbOverlap(u), Unsent(u), PartialGone(u),
         NEW w \in Writer, Sending(w)
  PROVE  put[w].u # u
<1> SUFFICES ASSUME put[w].u = u PROVE FALSE
  OBVIOUS
<1>a. TypeOK
  BY DEF SmbInv, ServerInv
<1>1. ~BeingRemoved(u)
  BY <1>a, WritersWrite DEF SmbOverlap, Overlap
<1>2. FinalizersOf(u) = {}
  BY <1>a, SendingTyped DEF SmbOverlap, Overlap, MkdirBehind, PutsOf, Sending
<1>3. \A t \in Task : ~(task[t].pc \in {"purge", "mark_ok"} /\ task[t].u = u)
  BY <1>2 DEF FinalizersOf, Running, Storing
<1> QED BY <1>1, <1>3, GoneMeans DEF Unsent

\* No task opens its partial.
LEMMA NobodyOpens ==
  ASSUME SmbInv, EraseInv, NEW u \in Upload, ~SmbOverlap(u), ~contested[u], GoneIdle(u),
         PartialGone(u), NEW t \in Task, task[t].pc = "create"
  PROVE  task[t].u # u
<1> SUFFICES ASSUME task[t].u = u PROVE FALSE
  OBVIOUS
<1>1. Working(t) /\ Busy(t, u)
  BY DEF Working, Running, Storing, Busy
<1>2. BeingWritten(u) /\ HasTask(u)
  BY <1>1, WritersWrite DEF SmbInv, ServerInv, HasTask
<1>3. ~BeingRemoved(u) /\ uploads[u].status # "deleted"
  BY <1>2 DEF SmbOverlap, Overlap, GoneIdle
<1>4. Tells(u)
  BY DEF SmbInv, ServerInv, TellInv
<1>5. uploads[u].status # "complete"
  BY <1>1, <1>4 DEF Tells
<1>6. \A s \in Task : Busy(s, u) => s = t
  BY <1>1, <1>4 DEF Tells
<1>7. \A s \in Task : ~(task[s].pc \in {"purge", "mark_ok"} /\ task[s].u = u)
  BY <1>6 DEF Busy
<1> QED BY <1>3, <1>5, <1>7, GoneMeans

\* Files that are not there are not written either.
LEMMA NoneWritten ==
  ASSUME ShareTypeOK, NEW u \in Upload, partial[u] = NoFile, NEW v \in Upload, NEW h,
         \/ v # u /\ OpenPartial(h, v)
         \/ \E p, n, content : WriteTo(h, v, p, n, content)
         \/ UNCHANGED partial
         \/ DeletePartial(v) \/ RenamePartial(v)
  PROVE  partial'[u] = NoFile
<1>a. partial \in [Upload -> ShareFile \cup {NoFile}] /\ partialOpen[u] = {}
  BY DEF ShareTypeOK
<1>1. CASE \E p, n, content : WriteTo(h, v, p, n, content)
  <2>1. partial' = partial \/ (h \in partialOpen[v] /\ \E f : partial' = [partial EXCEPT ![v] = f])
    BY <1>1 DEF WriteTo
  <2> QED BY <1>a, <2>1
<1> QED BY <1>a, <1>1 DEF OpenPartial, DeletePartial, RenamePartial

\* Requests, and what goes on outside the calls of the backend, do not get an
\* upload there.

\* Outside the calls of the backend no upload gets there that was not there.
LEMMA OutsideGone ==
  ASSUME SmbInv, EraseInv, CommonNext, NEW u \in Upload, PartialGone(u)'
  PROVE  PartialGone(u)
<1>a. ServerInv /\ TypeOK /\ RepoTypeOK /\ RemovalTypeOK /\ TaskTypeOK /\ erased \in SUBSET Canceller
  BY DEF SmbInv, ServerInv, TypeOK, FinalizerTypeOK, SmbTypeOK
<1>b. UNCHANGED <<erased, erasing>>
  BY DEF CommonNext, remoteVars, eraseVars
<1> SUFFICES ASSUME ~PartialGone(u) PROVE FALSE
  OBVIOUS
<1>c. /\ uploads[u].status \notin {"complete", "deleted"}
      /\ \A t \in Task : task[t].pc \in {"purge", "mark_ok"} => task[t].u # u
      /\ \A d \in Canceller : canceller[d].pc \in {"unlink", "rows", "row"} \/ d \in erased
                                  => canceller[d].u # u
      /\ cleaner.u # u /\ erasing # u
  BY DEF PartialGone
<1>1. CASE RequestNext
  <2>1. UNCHANGED <<task, canceller, cleaner>>
    BY <1>1 DEF RequestNext, Expire, finalizerVars, removalVars
  <2>2. uploads'[u].status \notin {"complete", "deleted"}
    <3>1. ASSUME NEW v \in Upload, InitCreate(v) PROVE SetsStatus(v, "pending")
      BY <1>a, <3>1, StatusOfStatement DEF InitCreate
    <3>2. ASSUME NEW v \in Upload, Expire(v) PROVE SameStatus
      BY <1>a, <3>2, RowQuiet DEF QuietRow
    <3>3. \/ UNCHANGED uploads \/ (\E v \in Upload : InitCreate(v)) \/ (\E v \in Upload : Expire(v))
      BY <1>1 DEF RequestNext, IngestNext, InitParts, InitPartsError, CreateParts, PutStart, PutStep,
           PutMkdir, PutCreate, PutWrite, PutMark, UpdatePartStatus, PutIoError, PutDbError, PutAbort,
           LateStep, LateMkdir, LateCreate, LateWrite, ingestVars, repoVars
    <3> QED BY <1>c, <3>1, <3>2, <3>3 DEF SetsStatus, SameStatus
  <2> QED BY <1>b, <1>c, <2>1, <2>2 DEF PartialGone
<1>2. CASE FinalizerOutside(Storing \cup {"check"})
  <2>1. UNCHANGED <<ingestVars, removalVars, crashes>> /\ FinalizerNext
    BY <1>2 DEF FinalizerOutside
  <2>2. uploads'[u].status \notin {"complete", "deleted"}
    <3>1. ASSUME NEW t \in Task, OutcomeTask(t)
          PROVE  uploads'[u].status \notin {"complete", "deleted"}
      BY <1>c, <3>1 DEF OutcomeTask, SameStatus, SetsStatus
    <3>2. ASSUME NEW c \in Completer,
                 (\E v \in Upload : CompleteStart(c, v)) \/ CompleterStep(c) \/ CompleteDbError(c)
          PROVE  SameStatus \/ SetsStatus(completer[c].u, "finalizing")
      BY <1>a, <2>1, <3>2, CompleterSummary
    <3> QED BY <1>a, <1>c, <2>1, <3>1, <3>2, FinalizerSummary
            DEF QuietRow, QuietTask, SameStatus, SetsStatus
  <2>3. \A t \in Task : task'[t].pc \in {"purge", "mark_ok"} => task'[t] = task[t]
    BY <1>2, <1>a, OutsideTasks
  <2> QED BY <1>b, <1>c, <2>1, <2>2, <2>3 DEF PartialGone, removalVars
<1>3. CASE RemovalOutside
  <2>1. /\ UNCHANGED <<ingestVars, finalizerVars, crashes>> /\ RemovalNext
        /\ \A d \in Canceller : canceller[d].pc \in {"purge", "unlink"} => canceller'[d] = canceller[d]
        /\ cleaner.pc = "purge" => cleaner' = cleaner
    BY <1>3 DEF RemovalOutside
  <2>2. ASSUME NEW d \in Canceller,
               \/ \E v \in Upload : CancelStart(d, v)
               \/ CancelStep(d) \/ CancelDbError(d) \/ CancelAbort(d)
        PROVE  FALSE
    <3>1. UNCHANGED <<task, cleaner>> /\ \A e \in Canceller \ {d} : canceller'[e] = canceller[e]
      BY <1>a, <2>1, <2>2 DEF finalizerVars, CancelStart, CancelStep, CancelPurge, CancelUnlink, CancelRows,
           CancelRow, CancelDbError, CancelAbort, CancelReturn, CancelGoto, RemovalTypeOK
    <3>2. uploads'[u].status \notin {"complete", "deleted"}
      <4>1. CASE CancelRow(d)
        BY <1>a, <1>c, <4>1, StatusOfStatement DEF CancelRow, RemovalTypeOK, SetsStatus
      <4>2. CASE ~CancelRow(d)
        BY <1>c, <2>2, <4>2 DEF CancelStart, CancelStep, CancelPurge, CancelUnlink, CancelRows,
           CancelDbError, CancelAbort, DeletePartRows, repoVars
      <4> QED BY <4>1, <4>2
    <3>3. /\ canceller'[d].u = u
          /\ canceller'[d].pc \in {"unlink", "rows", "row"} \/ d \in erased
      BY <1>b, <1>c, <3>1, <3>2 DEF PartialGone
    <3>4. canceller[d].pc \notin {"purge", "unlink"} /\ d \notin erased
      BY <1>c, <2>1, <3>3 DEF EraseInv
    <3>5. ASSUME NEW v \in Upload, CancelStart(d, v) PROVE FALSE
      BY <1>a, <1>c, <3>3, <3>4, <3>5 DEF CancelStart, RemovalTypeOK
    <3>6. ASSUME CancelRows(d) PROVE FALSE
      BY <1>a, <1>c, <3>3, <3>6 DEF CancelRows, CancelGoto, RemovalTypeOK
    <3>7. ASSUME CancelRow(d) \/ CancelDbError(d) \/ CancelAbort(d) PROVE FALSE
      BY <1>a, <3>3, <3>4, <3>7 DEF CancelRow, CancelDbError, CancelAbort, CancelReturn, NoCancel, RemovalTypeOK
    <3>8. ~CancelPurge(d) /\ ~CancelUnlink(d)
      BY <3>4 DEF CancelPurge, CancelUnlink
    <3> QED BY <2>2, <3>5, <3>6, <3>7, <3>8 DEF CancelStep
  <2>3. ASSUME CleanStep \/ CleanDbError PROVE FALSE
    <3>1. UNCHANGED <<task, canceller>>
      BY <2>1, <2>3 DEF finalizerVars, CleanStep, CleanList, CleanPurge, CleanRows, CleanRow, CleanDbError
    <3>2. uploads'[u].status \notin {"complete", "deleted"}
      <4>1. CASE CleanRow
        BY <1>a, <1>c, <4>1, StatusOfStatement DEF CleanRow, RemovalTypeOK, SetsStatus
      <4>2. CASE ~CleanRow
        BY <1>c, <2>3, <4>2 DEF CleanStep, CleanList, CleanPurge, CleanRows, CleanDbError,
           DeletePartRows, repoVars
      <4> QED BY <4>1, <4>2
    <3>3. cleaner'.u = u
      BY <1>b, <1>c, <3>1, <3>2 DEF PartialGone
    <3>4. cleaner'.u \in {cleaner.u, None}
      <4>1. CASE CleanPurge
        BY <2>1, <4>1 DEF CleanPurge
      <4>2. CASE CleanList \/ CleanRows
        BY <1>a, <4>2 DEF CleanList, CleanRows, RemovalTypeOK
      <4>3. CASE CleanNext
        BY <1>a, <4>3 DEF CleanNext, Sleeping, RemovalTypeOK
      <4> QED BY <2>3, <4>1, <4>2, <4>3 DEF CleanStep, CleanRow, CleanDbError
    <3> QED BY <1>c, <3>3, <3>4, ValuesAssumption
  <2> QED BY <2>1, <2>2, <2>3 DEF RemovalNext
<1> QED BY <1>1, <1>2, <1>3 DEF CommonNext

\* The operations of a removal on the share: each leaves the partial as it is
\* or deletes it, and only a deletion counts as one.
LEMMA RemovalGone ==
  ASSUME SmbInv, EraseInv, "remote" \notin Faults, RemovalCall,
         NEW u \in Upload, ~SmbOverlap(u), PartialInv(u)
  PROVE  PartialInv(u)'
<1>a. /\ RemovalTypeOK /\ ShareTypeOK /\ erased \in SUBSET Canceller
      /\ partial \in [Upload -> ShareFile \cup {NoFile}]
  BY DEF SmbInv, ServerInv, TypeOK, SmbTypeOK, ShareTypeOK
<1>b. UNCHANGED <<uploads, task, sync>>
  BY DEF RemovalCall, CancelErase, SmbCancelPurge, SmbCancelUnlink, SmbCancelAbort, CancelPurge,
         CleanErase, SmbCleanPurge, CleanPurge, RemovalFrame, repoVars, finalizerVars
<1>c. partial[u] = NoFile => partial'[u] = NoFile
  BY <1>a DEF RemovalCall, CancelErase, SmbCancelPurge, SmbCancelUnlink, SmbCancelAbort, CleanErase,
         SmbCleanPurge, ErasePartial, DeletePartial, DeleteShared, shareVars
<1>d. Syncing(u)' <=> Syncing(u)
  BY <1>b DEF Syncing
<1>e. ASSUME DeletePartial(u), BeingRemoved(u) PROVE NonePartial(u)'
  BY <1>a, <1>d, <1>e DEF DeletePartial, NonePartial, SmbOverlap
<1>f. CASE PartialGone(u)
  BY <1>c, <1>d, <1>f DEF PartialInv, NonePartial
<1>1. ASSUME NEW d \in Canceller, CancelErase(d), ~PartialGone(u), PartialGone(u)'
      PROVE  NonePartial(u)'
  <2>1. /\ UNCHANGED <<canceller, cleaner, erasing>> /\ erased' = erased \cup {d}
        /\ canceller[d].pc = "purge" /\ DeletePartial(canceller[d].u)
    BY <1>1 DEF CancelErase, ErasePartial, removalVars
  <2>2. canceller[d].u = u
    BY <1>1, <1>b, <2>1 DEF PartialGone
  <2> QED BY <1>e, <2>1, <2>2 DEF BeingRemoved
<1>2. ASSUME NEW d \in Canceller, SmbCancelPurge(d) \/ SmbCancelUnlink(d) \/ SmbCancelAbort(d),
             PartialGone(u)'
      PROVE  PartialGone(u)
  <2>1. /\ UNCHANGED <<cleaner, erasing>> /\ erased' \subseteq erased
        /\ \A e \in Canceller \ {d} : canceller'[e] = canceller[e]
        /\ canceller'[d].u \in {canceller[d].u, None}
    BY <1>2, <1>a DEF SmbCancelPurge, SmbCancelUnlink, SmbCancelAbort, CancelPurge, CancelGoto,
       CancelReturn, NoCancel, eraseVars, RemovalTypeOK
  <2>2. \/ canceller[d].pc = "unlink" \/ d \in erased
        \/ canceller'[d].u = None
    BY <1>2, <1>a DEF SmbCancelPurge, SmbCancelUnlink, SmbCancelAbort, CancelReturn, NoCancel, RemovalTypeOK
  <2> QED BY <1>2, <1>b, <2>1, <2>2, ValuesAssumption DEF PartialGone
<1>3. ASSUME CleanErase, ~PartialGone(u), PartialGone(u)' PROVE NonePartial(u)'
  <2>1. /\ UNCHANGED <<canceller, cleaner, erased>>
        /\ erasing' \in cleaner.todo /\ DeletePartial(erasing')
    BY <1>3 DEF CleanErase, ErasePartial, removalVars
  <2>2. erasing' = u
    BY <1>3, <1>b, <2>1 DEF PartialGone
  <2> QED BY <1>e, <2>1, <2>2 DEF BeingRemoved
<1>4. ASSUME SmbCleanPurge, PartialGone(u)' PROVE PartialGone(u)
  <2>1. UNCHANGED <<canceller, erased>> /\ cleaner'.u = erasing /\ erasing' = None
    BY <1>4 DEF SmbCleanPurge, CleanPurge
  <2> QED BY <1>4, <1>b, <2>1, ValuesAssumption DEF PartialGone
<1> QED BY <1>f, <1>1, <1>2, <1>3, <1>4 DEF RemovalCall, PartialInv

\* A sync only begins with a part that is being sent, and writes on the file
\* that it created.
LEMMA StorePartGone ==
  ASSUME SmbInv, EraseInv, NEW w \in Writer, StorePart(w),
         NEW u \in Upload, ~SmbOverlap(u), Unsent(u), PartialInv(u)
  PROVE  PartialInv(u)'
<1>a. sync \in [Syncer -> SyncState]
  BY DEF SmbInv, SmbTypeOK, SyncState
<1>1. /\ UNCHANGED <<uploads, task, canceller, cleaner, erased, erasing, partial>> /\ Sending(w)
      /\ \E s \in Syncer : sync' = [sync EXCEPT ![s] = [pc |-> "queued", u |-> put[w].u,
                                                        p |-> put[w].p, body |-> put[w].body]]
  BY DEF StorePart, PutWrite, repoVars, finalizerVars, removalVars, shareVars, eraseVars, Sending
<1> SUFFICES ASSUME PartialGone(u)' PROVE NonePartial(u)'
  BY DEF PartialInv
<1>2. PartialGone(u)
  BY <1>1 DEF PartialGone
<1>3. put[w].u # u /\ NonePartial(u)
  BY <1>1, <1>2, NobodySyncs DEF PartialInv
<1> QED BY <1>a, <1>1, <1>3 DEF NonePartial, Syncing

LEMMA SyncGone ==
  ASSUME SmbInv, NEW s \in Syncer, SyncCall(s), NEW u \in Upload, PartialInv(u)
  PROVE  PartialInv(u)'
<1>a. sync \in [Syncer -> SyncState] /\ SyncInv /\ ShareTypeOK
  BY DEF SmbInv, SmbTypeOK, SyncState
<1> DEFINE v == sync[s].u
<1>1. /\ UNCHANGED <<uploads, task, canceller, cleaner, erased, erasing>> /\ sync[s].pc # "idle"
      /\ \/ sync' = [sync EXCEPT ![s].pc = "open"] \/ sync' = [sync EXCEPT ![s].pc = "half"]
         \/ sync' = [sync EXCEPT ![s] = NoSync]
      /\ \/ OpenPartial(s, v) \/ (\E p, n, content : WriteTo(s, v, p, n, content)) \/ UNCHANGED partial
  BY DEF SyncCall, SyncStep, SyncOpen, SyncEnd, SyncSome, SyncFail, WriteSome, WriteRange,
         vars, repoVars, finalizerVars, removalVars, eraseVars
<1>2. v \in Upload
  BY <1>a, <1>1 DEF SyncInv
<1> SUFFICES ASSUME PartialGone(u)' PROVE NonePartial(u)'
  BY DEF PartialInv
<1>3. NonePartial(u)
  BY <1>1 DEF PartialGone, PartialInv
<1>4. v # u
  BY <1>1, <1>3 DEF NonePartial, Syncing
<1>5. partial'[u] = NoFile
  BY <1>a, <1>1, <1>2, <1>3, <1>4, NoneWritten DEF NonePartial
<1>6. ~Syncing(u)'
  BY <1>a, <1>1, <1>3 DEF NonePartial, Syncing, NoSync, SyncState
<1> QED BY <1>5, <1>6 DEF NonePartial

LEMMA TaskCallGone ==
  ASSUME SmbInv, EraseInv, NEW t \in Task, TaskCall(t),
         NEW u \in Upload, ~SmbOverlap(u), ~contested[u], GoneIdle(u), PartialInv(u)
  PROVE  PartialInv(u)'
<1>a. ShareTypeOK /\ partial \in [Upload -> ShareFile \cup {NoFile}]
  BY DEF SmbInv, SmbTypeOK, ShareTypeOK
<1>1. /\ task[t].u \in Upload /\ task'[t].u = task[t].u /\ \A s \in Task \ {t} : task'[s] = task[s]
      /\ UNCHANGED <<canceller, cleaner, sync>> /\ SameStatus
  BY TaskCallMoves DEF removalVars
<1>2. UNCHANGED <<erased, erasing>>
  BY DEF TaskCall, SmbTaskStep, SmbCheck, SmbEnter, SmbAttempt, SmbOpen, SmbStream, SmbClose, SmbRename,
         SmbPurge, SmbGiveUp, SmbConnectFail, SmbStreamSome, SmbStreamFail, SmbRenameFail, FinalizeFrame,
         remoteVars, eraseVars
<1>3. Syncing(u)' <=> Syncing(u)
  BY <1>1 DEF Syncing
<1> SUFFICES ASSUME PartialGone(u)' PROVE NonePartial(u)'
  BY DEF PartialInv
<1>4. CASE PartialGone(u)
  <2>1. NonePartial(u) /\ (task[t].pc = "create" => task[t].u # u)
    BY <1>4, NobodyOpens DEF PartialInv
  <2>2. \/ task[t].u # u /\ OpenPartial(t, task[t].u)
        \/ \E p, n, content : WriteTo(t, task[t].u, p, n, content)
        \/ UNCHANGED partial
        \/ RenamePartial(task[t].u)
    BY <2>1, TaskOnShare DEF WriteSome, WriteRange, shareVars
  <2> QED BY <1>a, <1>1, <1>3, <2>1, <2>2, NoneWritten DEF NonePartial
<1>5. CASE ~PartialGone(u)
  <2>1. task[t].u = u /\ task'[t].pc \in {"purge", "mark_ok"}
    BY <1>1, <1>2, <1>5 DEF PartialGone, SameStatus
  <2>2. task[t].pc # "purge"
    BY <1>5, <2>1 DEF PartialGone
  <2>3. SmbRename(t) /\ RenamePartial(u)
    BY <2>1, <2>2, PastCalls DEF SmbPurge
  <2>4. Renaming(u)
    BY <2>1, <2>3 DEF SmbRename, Renaming, Storing
  <2> QED BY <1>a, <1>3, <2>3, <2>4 DEF RenamePartial, NonePartial, SmbOverlap
<1> QED BY <1>4, <1>5

LEMMA PartialNext ==
  ASSUME SmbInv, EraseInv, "remote" \notin Faults, [SmbNext]_smbServerVars,
         NEW u \in Upload, ~SmbOverlap(u), ~contested[u], Unsent(u), GoneIdle(u), PartialInv(u)
  PROVE  PartialInv(u)'
<1>1. CASE CommonNext
  <2>1. UNCHANGED <<partial, sync>>
    BY <1>1 DEF CommonNext, remoteVars, shareVars
  <2> QED BY <1>1, <2>1, OutsideGone DEF PartialInv, NonePartial, Syncing
<1>2. CASE SmbCrashRestart
  <2>1. /\ SameStatus /\ UNCHANGED partial
        /\ \A t \in Task : task'[t].pc \notin {"purge", "mark_ok"}
        /\ \A d \in Canceller : canceller'[d] = NoCancel
        /\ cleaner'.u = None /\ erased' = {} /\ erasing' = None
        /\ \A s \in Syncer : sync'[s].pc = "idle"
    BY <1>2, CrashSummary DEF SmbCrashRestart, CrashRestart, Sleeping, NoSync, SmbInv, ServerInv
  <2>2. PartialGone(u)' => PartialGone(u)
    BY <2>1, ValuesAssumption DEF PartialGone, SameStatus, NoCancel
  <2> QED BY <2>1, <2>2 DEF PartialInv, NonePartial, Syncing
<1>3. CASE UNCHANGED smbServerVars
  BY <1>3 DEF smbServerVars, vars, repoVars, finalizerVars, removalVars, remoteVars, shareVars,
              eraseVars, PartialInv, PartialGone, NonePartial, Syncing
<1> QED BY <1>1, <1>2, <1>3, StorePartGone, SyncGone, TaskCallGone, RemovalGone, SmbKinds

-----------------------------------------------------------------------------
\* Neither a removal nor a completion leaves anything, with the history.
SmbHistoryNext == SmbNext /\ Remember(SmbOverlap)

\* Remembering disturbs nothing here either.
THEOREM SmbRememberingHarmless == SmbHistorySpec => SmbSpec
<1>1. [SmbHistoryNext]_<<smbServerVars, raced>> => [SmbNext]_smbServerVars
  BY DEF SmbHistoryNext
<1> QED BY <1>1, PTL DEF SmbHistorySpec, SmbHistoryInit, SmbSpec, SmbHistoryNext

LEMMA SmbNotRaced ==
  ASSUME [SmbHistoryNext]_<<smbServerVars, raced>>, NEW u \in Upload \ raced'
  PROVE  u \notin raced /\ (UNCHANGED smbServerVars \/ ~SmbOverlap(u))
  BY DEF SmbHistoryNext, Remember

LEMMA SmbUncontested ==
  ASSUME SmbInv, [SmbNext]_smbServerVars, NEW u \in Upload, ~contested'[u]
  PROVE  ~contested[u]
<1>1. ASSUME NEW t \in Task, SmbCall(t) PROVE UNCHANGED contested
  BY <1>1, CallSummary DEF Calls
<1>2. ASSUME NEW d \in Canceller, SmbCancelUnlink(d) PROVE UNCHANGED contested
  BY <1>2 DEF SmbCancelUnlink, RemovalFrame, finalizerVars
<1> QED BY <1>1, <1>2, UncontestedBefore, SmbSteps DEF SmbInv

\* What holds of the uploads that the history does not except.
StrayInv == \A u \in Upload \ raced : /\ Unsent(u) /\ GoneIdle(u)
                                      /\ ~contested[u] => PartialInv(u)

LEMMA StrayFrame ==
  ASSUME NEW u \in Upload, UNCHANGED smbServerVars
  PROVE  /\ Unsent(u)' <=> Unsent(u)
         /\ GoneIdle(u)' <=> GoneIdle(u)
         /\ PartialInv(u)' <=> PartialInv(u)
         /\ SweptInv(u)' <=> SweptInv(u)
         /\ contested'[u] = contested[u]
<1>1. /\ UNCHANGED <<put, late, parts, uploads, partsDir, task, canceller, cleaner, contested>>
      /\ UNCHANGED <<sync, partial, erased, erasing>>
  BY DEF smbServerVars, vars, repoVars, storageVars, ingestVars, finalizerVars, removalVars, remoteVars,
         shareVars, eraseVars
<1>2. Unsent(u)' <=> Unsent(u)
  BY <1>1 DEF Unsent, Sending
<1>3. Swept(u)' <=> Swept(u)
  BY <1>1 DEF Swept
<1>4. PartialGone(u)' <=> PartialGone(u)
  BY <1>1 DEF PartialGone
<1> QED BY <1>1, <1>2, <1>3, <1>4
        DEF GoneIdle, HasTask, Working, PartialInv, NonePartial, Syncing, SweptInv, MkdirLate

LEMMA SmbUnsentNext ==
  ASSUME SmbInv, [SmbNext]_smbServerVars, NEW u \in Upload, ~SmbOverlap(u), Unsent(u)
  PROVE  Unsent(u)'
<1>1. CASE [Next]_vars
  BY <1>1, UnsentNext, OverlapWrites DEF SmbInv, ServerInv
<1>2. CASE UNCHANGED <<repoVars, ingestVars>>
  BY <1>2 DEF repoVars, ingestVars, Unsent, Sending
<1> QED BY <1>1, <1>2, SmbClientSteps

LEMMA StrayNext ==
  ASSUME SmbInv, EraseInv, "remote" \notin Faults, StrayInv,
         [SmbHistoryNext]_<<smbServerVars, raced>>
  PROVE  StrayInv'
<1>1. [SmbNext]_smbServerVars
  BY DEF SmbHistoryNext
<1> SUFFICES ASSUME NEW u \in Upload \ raced'
             PROVE  Unsent(u)' /\ GoneIdle(u)' /\ (~contested'[u] => PartialInv(u)')
  BY DEF StrayInv
<1>2. /\ UNCHANGED smbServerVars \/ ~SmbOverlap(u)
      /\ Unsent(u) /\ GoneIdle(u) /\ (~contested[u] => PartialInv(u))
  BY SmbNotRaced DEF StrayInv
<1>3. CASE UNCHANGED smbServerVars
  BY <1>2, <1>3, StrayFrame
<1>4. CASE ~SmbOverlap(u)
  BY <1>1, <1>2, <1>4, SmbUnsentNext, SmbGoneIdleNext, PartialNext, SmbUncontested
<1> QED BY <1>2, <1>3, <1>4

LEMMA SmbPartsNext ==
  ASSUME SmbInv, "io" \notin Faults, PartsInv, [SmbHistoryNext]_<<smbServerVars, raced>>
  PROVE  PartsInv'
<1>1. [SmbNext]_smbServerVars
  BY DEF SmbHistoryNext
<1> SUFFICES ASSUME NEW u \in Upload \ raced' PROVE SweptInv(u)'
  BY DEF PartsInv
<1>2. (UNCHANGED smbServerVars \/ ~SmbOverlap(u)) /\ SweptInv(u)
  BY SmbNotRaced DEF PartsInv
<1> QED BY <1>1, <1>2, StrayFrame, SmbSweptNext

LEMMA StrayInit == SmbInit => EraseInv /\ StrayInv /\ PartsInv /\ DirInv
<1> SUFFICES ASSUME SmbInit PROVE EraseInv /\ StrayInv
  BY PartsInvInit DEF SmbInit
<1>1. EraseInv
  BY DEF SmbInit, EraseInv
<1>2. ASSUME NEW u \in Upload PROVE Unsent(u) /\ GoneIdle(u) /\ ~PartialGone(u)
  BY ValuesAssumption
     DEF SmbInit, Init, RepoInit, IngestInit, FinalizerInit, RemovalInit, NoRow, NoPut, NoTask, NoCancel,
         Sleeping, Unsent, Sending, GoneIdle, HasTask, Working, Running, Storing, PartialGone
<1> QED BY <1>1, <1>2 DEF StrayInv, PartialInv

LEMMA StrayInvariant ==
  ASSUME "remote" \notin Faults
  PROVE  SmbHistorySpec => [](SmbInv /\ StrayInv)
<1>1. SmbInv /\ EraseInv /\ [SmbNext]_smbServerVars => EraseInv'
  BY EraseInvNext
<1>2. SmbInv /\ EraseInv /\ StrayInv /\ [SmbHistoryNext]_<<smbServerVars, raced>> => StrayInv'
  BY StrayNext
<1>3. [SmbHistoryNext]_<<smbServerVars, raced>> => [SmbNext]_smbServerVars
  BY DEF SmbHistoryNext
<1> QED BY <1>1, <1>2, <1>3, StrayInit, SmbInvariant, SmbRememberingHarmless, PTL
        DEF SmbHistorySpec, SmbHistoryInit, SmbHistoryNext

LEMMA SmbPartsInvariant ==
  ASSUME "io" \notin Faults
  PROVE  SmbHistorySpec => [](SmbInv /\ PartsInv /\ DirInv)
<1>1. SmbInv /\ DirInv /\ [SmbNext]_smbServerVars => DirInv'
  BY SmbDirNext
<1>2. SmbInv /\ PartsInv /\ [SmbHistoryNext]_<<smbServerVars, raced>> => PartsInv'
  BY SmbPartsNext
<1>3. [SmbHistoryNext]_<<smbServerVars, raced>> => [SmbNext]_smbServerVars
  BY DEF SmbHistoryNext
<1> QED BY <1>1, <1>2, <1>3, StrayInit, SmbInvariant, SmbRememberingHarmless, PTL
        DEF SmbHistorySpec, SmbHistoryInit, SmbHistoryNext

\* A removal leaves no local parts, whatever the share does meanwhile.
THEOREM SmbRemovedWithoutParts ==
  ASSUME "io" \notin Faults PROVE SmbHistorySpec => []PartsGone
<1>1. SmbInv /\ PartsInv /\ DirInv => PartsGone
  BY EmptyDir DEF SmbInv, ServerInv, PartsInv, SweptInv, Swept, PartsGone
<1>2. SmbHistorySpec => [](SmbInv /\ PartsInv /\ DirInv)
  BY SmbPartsInvariant
<1> QED BY <1>1, <1>2, PTL

PartialsGone == \A u \in Upload \ raced :
    uploads[u].status \in {"complete", "deleted"} => contested[u] \/ partial[u] = NoFile

\* Neither a removal nor a completion leaves a partial on the share, whatever
\* fails on the local disk.
THEOREM NoPartialLeft ==
  ASSUME "remote" \notin Faults PROVE SmbHistorySpec => []PartialsGone
<1>1. StrayInv => PartialsGone
  BY DEF StrayInv, PartialInv, PartialGone, NonePartial, PartialsGone
<1>2. SmbHistorySpec => [](SmbInv /\ StrayInv)
  BY StrayInvariant
<1> QED BY <1>1, <1>2, PTL

\* Both, through failing statements, dropped requests and restarts.  The faults
\* that are excluded do leave files behind: that the share was not erased, or
\* the parts were not deleted, is only logged, and the rows go all the same.
THEOREM NoStrayPartialSafe ==
  ASSUME Faults \cap {"remote", "io"} = {}
  PROVE  SmbHistorySpec => []NoStrayPartial
<1>1. PartsGone /\ PartialsGone => NoStrayPartial
  BY DEF PartsGone, PartialsGone, NoStrayPartial
<1>2. SmbHistorySpec => []PartsGone
  BY SmbRemovedWithoutParts
<1>3. SmbHistorySpec => []PartialsGone
  BY NoPartialLeft
<1> QED BY <1>1, <1>2, <1>3, PTL

-----------------------------------------------------------------------------
\* The promises about finalization are kept with this backend.

\* Finalization starts with every part recorded, one task has an upload, and
\* one webhook is sent, also when attempts on the share are repeated.
THEOREM SmbFinalizationSafe ==
  SmbSpec => [](StartedOnlyWhenAllUploaded /\ SoleFinalizer /\ NotifiedOnce)
<1>1. SmbInv => StartedOnlyWhenAllUploaded /\ SoleFinalizer /\ NotifiedOnce
  BY ServerPromises DEF SmbInv
<1> QED BY <1>1, SmbInvariant, PTL

\* An upload on the share leaves `complete' by its deletion only.
THEOREM SmbCompleteFinal == SmbSpec => CompleteIsFinal
<1>1. SmbInv /\ [SmbNext]_smbServerVars => [KeepsComplete]_vars
  <2> SUFFICES ASSUME SmbInv, [SmbNext]_smbServerVars PROVE KeepsComplete
    OBVIOUS
  <2>1. CASE [Next]_vars
    BY <2>1, ServerKeepsComplete DEF SmbInv
  <2>2. CASE UNCHANGED <<repoVars, ingestVars>>
    BY <2>2 DEF repoVars, KeepsComplete
  <2> QED BY <2>1, <2>2, SmbClientSteps
<1>2. SmbSpec => [][KeepsComplete]_vars
  BY <1>1, SmbInvariant, PTL DEF SmbSpec
<1> QED BY <1>2 DEF CompleteIsFinal, KeepsComplete
=============================================================================
