---------------------------- MODULE SafetyProofs ----------------------------
(***************************************************************************)
(* The safety of finalization, for every instance and under every fault:   *)
(* it starts with all parts recorded, one task has it, and `complete' is   *)
(* final.  The argument has two levels.  First, what a step does to the    *)
(* statuses, to the recorded parts and to the tasks is summarised (a quiet *)
(* step, an outcome, a removal ...).  Then the invariants are shown on the *)
(* summaries alone.                                                        *)
(***************************************************************************)
EXTENDS TypeProofs, FiniteSetTheorems

Known(u) == client[u] = "known"

\* All parts are recorded, or a deletion has removed the part rows.
Settled(u) == \/ \A p \in Part : Uploaded(u, p)
              \/ \A p \in Part : parts[u][p] = "norow"

Started(u) == uploads[u].status \in {"finalizing", "complete", "failed"}

(* The inductive strengthening of StartedOnlyWhenAllUploaded: whoever is    *)
(* about to set a status that means `started' has an upload whose parts are *)
(* settled, and whose init request is over, so that no part row is added.   *)
StartInv ==
    /\ \A u \in Upload : Started(u) => Known(u) /\ Settled(u)
    /\ \A c \in Completer : completer[c].pc # "idle" =>
            /\ Known(completer[c].u)
            /\ completer[c].pc = "start" => Settled(completer[c].u)
    /\ \A t \in Task : task[t].pc # "idle" => Known(task[t].u) /\ Settled(task[t].u)

Working(t) == task[t].pc \in Running \cup {"queued"}

-----------------------------------------------------------------------------
\* Summaries of steps.

SameStatus == \A v \in Upload : uploads'[v].status = uploads[v].status

SetsStatus(u, s) ==
    \A v \in Upload : uploads'[v].status = IF v = u THEN s ELSE uploads[v].status

\* What no step of a request on an existing upload, or of a task, touches.
FinalizersFrame == UNCHANGED <<parts, client, contested>>

\* A step of a task that sets no status.
QuietTask(t) ==
    /\ SameStatus
    /\ FinalizersFrame /\ UNCHANGED completer
    /\ \A s \in Task \ {t} : task'[s] = task[s]
    /\ task'[t].pc # "idle" => task[t].pc # "idle" /\ task'[t].u = task[t].u
    /\ task'[t].pc # "notify"
    /\ task'[t].pc \in Running \cup {"queued"} => Working(t)

\* The step of a task that sets the outcome of its upload.
OutcomeTask(t) ==
    /\ Working(t)
    /\ \/ /\ task[t].pc = "mark_ok" /\ task'[t].pc = "notify"
          /\ IF RowExists(task[t].u) THEN SetsStatus(task[t].u, "complete") ELSE SameStatus
       \/ /\ task[t].pc = "mark_fail" /\ task'[t].pc = "idle"
          /\ IF RowExists(task[t].u) THEN SetsStatus(task[t].u, "failed") ELSE SameStatus
    /\ FinalizersFrame /\ UNCHANGED completer
    /\ \A s \in Task \ {t} : task'[s] = task[s]
    /\ task'[t].pc # "idle" => task'[t].u = task[t].u

\* A statement on a row that leaves the statuses alone.
QuietRow == SameStatus /\ FinalizersFrame /\ UNCHANGED <<completer, task>>

\* Either of the two statements of delete_upload, or a step towards them.
RemovalStep ==
    /\ UNCHANGED <<client, contested, completer, task>>
    /\ \/ SameStatus /\ UNCHANGED parts
       \/ \E u \in Upload :
            \/ SameStatus /\ parts' = [parts EXCEPT ![u] = [p \in Part |-> "norow"]]
            \/ SetsStatus(u, "deleted") /\ UNCHANGED parts

-----------------------------------------------------------------------------
\* What the statements do to the status.

LEMMA StatusOfRow ==
  ASSUME NEW r \in UploadRow, NEW percent
  PROVE  /\ [r EXCEPT !.status = "pending"].status = "pending"
         /\ [r EXCEPT !.status = "deleted"].status = "deleted"
         /\ [r EXCEPT !.status = "finalizing", !.progress = 0, !.stale = FALSE].status = "finalizing"
         /\ [r EXCEPT !.progress = percent, !.stale = FALSE].status = r.status
         /\ [r EXCEPT !.status = "complete", !.hasFinalPath = TRUE,
                       !.progress = 100, !.stale = FALSE].status = "complete"
         /\ [r EXCEPT !.status = "failed", !.stale = FALSE].status = "failed"
         /\ [r EXCEPT !.stale = TRUE].status = r.status
         /\ [r EXCEPT !.life = IF @ = "live" THEN "leeway" ELSE "expired"].status = r.status
  BY DEF UploadRow

LEMMA StatusOfStatement ==
  ASSUME RepoTypeOK, NEW u \in Upload, NEW percent
  PROVE  /\ CreateUpload(u) => SetsStatus(u, "pending")
         /\ TryStartFinalization(u) => SetsStatus(u, "finalizing")
         /\ RestartStaleFinalization(u) => SameStatus
         /\ UpdateFinalizingProgress(u, percent) => SameStatus
         /\ MarkFinalizationComplete(u) =>
                IF RowExists(u) THEN SetsStatus(u, "complete") ELSE SameStatus
         /\ MarkFinalizationFailed(u) =>
                IF RowExists(u) THEN SetsStatus(u, "failed") ELSE SameStatus
         /\ DeleteUploadRow(u) => SetsStatus(u, "deleted")
<1> USE DEF RepoTypeOK, SetsStatus, SameStatus
<1>1. uploads[u] \in UploadRow
  OBVIOUS
<1>2. CreateUpload(u) => SetsStatus(u, "pending")
  BY <1>1, StatusOfRow DEF CreateUpload
<1>3. TryStartFinalization(u) => SetsStatus(u, "finalizing")
  BY <1>1, StatusOfRow DEF TryStartFinalization
<1>4. RestartStaleFinalization(u) => SameStatus
  BY <1>1, StatusOfRow DEF RestartStaleFinalization
<1>5. UpdateFinalizingProgress(u, percent) => SameStatus
  BY <1>1, StatusOfRow DEF UpdateFinalizingProgress
<1>6. MarkFinalizationComplete(u) =>
          IF RowExists(u) THEN SetsStatus(u, "complete") ELSE SameStatus
  BY <1>1, StatusOfRow DEF MarkFinalizationComplete
<1>7. MarkFinalizationFailed(u) =>
          IF RowExists(u) THEN SetsStatus(u, "failed") ELSE SameStatus
  BY <1>1, StatusOfRow DEF MarkFinalizationFailed
<1>8. DeleteUploadRow(u) => SetsStatus(u, "deleted")
  BY <1>1, StatusOfRow DEF DeleteUploadRow
<1> QED BY <1>2, <1>3, <1>4, <1>5, <1>6, <1>7, <1>8

\* all_parts_uploaded compares two numbers; that they are equal means that
\* every part is recorded.
LEMMA AllCounted ==
  ASSUME NEW u \in Upload, AllPartsUploaded(u)
  PROVE  Settled(u)
<1>1. UploadedParts(u) \in SUBSET Part
  BY DEF UploadedParts
<1>2. IsFiniteSet(Part) /\ Cardinality(Part) = TotalParts
  BY PartsAssumption, FS_Interval DEF Part
<1>3. UploadedParts(u) = Part
  BY <1>1, <1>2, FS_Subset DEF AllPartsUploaded
<1> QED BY <1>3 DEF Settled, UploadedParts

-----------------------------------------------------------------------------
\* Every step has a summary.

LEMMA TaskMoves ==
  ASSUME TaskTypeOK, NEW t \in Task, NEW pc
  PROVE  /\ TaskGoto(t, pc) => /\ \A s \in Task \ {t} : task'[s] = task[s]
                               /\ task'[t].pc = pc /\ task'[t].u = task[t].u
         /\ TaskReturn(t) => /\ \A s \in Task \ {t} : task'[s] = task[s]
                             /\ task'[t].pc = "idle"
  BY DEF TaskTypeOK, TaskState, TaskGoto, TaskReturn, NoTask

LEMMA TaskQuiet ==
  ASSUME TypeOK, NEW t \in Task, UNCHANGED <<ingestVars, removalVars, crashes>>,
         \/ TaskBegin(t) \/ TaskCheck(t) \/ TaskUnlink(t) \/ TaskCreate(t)
         \/ TaskAppend(t) \/ TaskRename(t) \/ TaskPurge(t) \/ TaskNotify(t)
         \/ TaskFault(t)
  PROVE  QuietTask(t)
<1> RepoTypeOK /\ TaskTypeOK /\ task[t].u \in Upload \cup {None}
  BY DEF TypeOK, FinalizerTypeOK, TaskTypeOK, TaskState
<1>a. task[t].pc # "idle" => task[t].u \in Upload
  BY DEF TaskTypeOK
<1>b. UNCHANGED repoVars => SameStatus /\ UNCHANGED parts
  BY DEF repoVars, SameStatus
<1>c. UNCHANGED client
  BY DEF ingestVars
<1> USE <1>c DEF QuietTask, FinalizersFrame, Working, Running, Storing
<1>1. CASE TaskBegin(t)
  <2>1. SameStatus /\ UNCHANGED <<parts, completer, contested>>
    BY <1>1, <1>a, StatusOfStatement DEF TaskBegin, UpdateFinalizingProgress
  <2>2. task[t].pc = "queued" /\ (TaskGoto(t, "check") \/ TaskReturn(t))
    BY <1>1 DEF TaskBegin
  <2> QED BY <2>1, <2>2, TaskMoves
<1>2. CASE TaskCheck(t)
  BY <1>2, <1>a, <1>b, TaskMoves, StatusOfStatement DEF TaskCheck, UpdateFinalizingProgress
<1>3. CASE TaskUnlink(t)
  BY <1>3, <1>b, TaskMoves DEF TaskUnlink
<1>4. CASE TaskCreate(t)
  <2>1. /\ \A s \in Task \ {t} : task'[s] = task[s]
        /\ task'[t].pc = "append" /\ task'[t].u = task[t].u
    BY <1>4 DEF TaskCreate, TaskTypeOK, TaskState
  <2> QED BY <1>4, <1>b, <2>1 DEF TaskCreate
<1>5. CASE TaskAppend(t)
  <2>1. /\ \A s \in Task \ {t} : task'[s] = task[s]
        /\ task'[t].pc \in {"append", "rename", "mark_fail"} /\ task'[t].u = task[t].u
    BY <1>5, TaskMoves DEF TaskAppend, Abandon, TaskTypeOK, TaskState
  <2> QED BY <1>5, <1>b, <2>1 DEF TaskAppend
<1>6. CASE TaskRename(t)
  <2>1. TaskGoto(t, "mark_fail") \/ TaskGoto(t, "purge")
    BY <1>6 DEF TaskRename, Abandon
  <2> QED BY <1>6, <1>b, <2>1, TaskMoves DEF TaskRename
<1>7. CASE TaskPurge(t)
  BY <1>7, <1>b, TaskMoves DEF TaskPurge
<1>8. CASE TaskNotify(t)
  BY <1>8, <1>b, TaskMoves DEF TaskNotify
<1>9. CASE TaskBeginDbError(t)
  BY <1>9, <1>b, TaskMoves DEF TaskBeginDbError
<1>10. CASE TaskCheckDbError(t)
  BY <1>10, <1>b, TaskMoves DEF TaskCheckDbError
<1>11. CASE TaskIoError(t)
  <2>1. TaskGoto(t, "mark_fail") /\ task[t].pc \in Storing
    BY <1>11 DEF TaskIoError, Abandon
  <2> QED BY <1>11, <1>b, <2>1, TaskMoves DEF TaskIoError
<1>12. CASE TaskMarkDbError(t)
  BY <1>12, <1>b, TaskMoves DEF TaskMarkDbError
<1> QED BY <1>1, <1>2, <1>3, <1>4, <1>5, <1>6, <1>7, <1>8, <1>9, <1>10, <1>11, <1>12
        DEF TaskFault

LEMMA TaskOutcome ==
  ASSUME TypeOK, NEW t \in Task, UNCHANGED <<ingestVars, removalVars, crashes>>,
         TaskMarkComplete(t) \/ TaskMarkFailed(t)
  PROVE  OutcomeTask(t)
<1> RepoTypeOK /\ TaskTypeOK
  BY DEF TypeOK, FinalizerTypeOK
<1>a. task[t].u \in Upload
  BY DEF TaskTypeOK, TaskMarkComplete, TaskMarkFailed
<1>b. UNCHANGED client
  BY DEF ingestVars
<1> USE DEF OutcomeTask, FinalizersFrame, Working, Running, Storing
<1>1. CASE TaskMarkComplete(t)
  <2>1. IF RowExists(task[t].u) THEN SetsStatus(task[t].u, "complete") ELSE SameStatus
    BY <1>1, <1>a, StatusOfStatement DEF TaskMarkComplete
  <2>2. task[t].pc = "mark_ok" /\ TaskGoto(t, "notify")
        /\ UNCHANGED <<parts, completer, contested>>
    BY <1>1 DEF TaskMarkComplete, MarkFinalizationComplete
  <2> QED BY <1>b, <2>1, <2>2, TaskMoves
<1>2. CASE TaskMarkFailed(t)
  <2>1. IF RowExists(task[t].u) THEN SetsStatus(task[t].u, "failed") ELSE SameStatus
    BY <1>2, <1>a, StatusOfStatement DEF TaskMarkFailed
  <2>2. task[t].pc = "mark_fail" /\ TaskReturn(t) /\ UNCHANGED <<parts, completer, contested>>
    BY <1>2 DEF TaskMarkFailed, MarkFinalizationFailed
  <2> QED BY <1>b, <2>1, <2>2, TaskMoves
<1> QED BY <1>1, <1>2

LEMMA RowQuiet ==
  ASSUME TypeOK,
         \/ /\ \/ \E t \in Task : Heartbeat(t)
               \/ \E u \in Upload : LateBeat(u) \/ GoStale(u)
            /\ UNCHANGED <<ingestVars, removalVars, crashes>>
         \/ \E u \in Upload : Expire(u)
         \/ UNCHANGED vars
  PROVE  QuietRow
<1> RepoTypeOK /\ TaskTypeOK /\ uploads \in [Upload -> UploadRow]
  BY DEF TypeOK, FinalizerTypeOK, RepoTypeOK
<1> USE DEF QuietRow, FinalizersFrame, ingestVars, finalizerVars
<1>1. ASSUME NEW t \in Task, Heartbeat(t), UNCHANGED ingestVars PROVE QuietRow
  <2>1. task[t].u \in Upload
    BY <1>1 DEF Heartbeat, Storing, TaskTypeOK
  <2> QED BY <1>1, <2>1, StatusOfStatement DEF Heartbeat, UpdateFinalizingProgress
<1>2. ASSUME NEW u \in Upload, LateBeat(u), UNCHANGED ingestVars PROVE QuietRow
  BY <1>2, StatusOfStatement DEF LateBeat, UpdateFinalizingProgress
<1>3. ASSUME NEW u \in Upload, GoStale(u), UNCHANGED ingestVars PROVE QuietRow
  BY <1>3, StatusOfRow DEF GoStale, SameStatus
<1>4. ASSUME NEW u \in Upload, Expire(u) PROVE QuietRow
  BY <1>4, StatusOfRow DEF Expire, SameStatus
<1>5. CASE UNCHANGED vars
  BY <1>5 DEF vars, repoVars, SameStatus
<1> QED BY <1>1, <1>2, <1>3, <1>4, <1>5

LEMMA RemovalSummary ==
  ASSUME TypeOK, RemovalNext, UNCHANGED <<ingestVars, finalizerVars, crashes>>
  PROVE  RemovalStep
<1> RepoTypeOK /\ RemovalTypeOK
  BY DEF TypeOK
<1>1. \/ UNCHANGED repoVars
      \/ \E u \in Upload : DeletePartRows(u) \/ DeleteUploadRow(u)
  BY DEF RemovalNext, CancelStart, CancelStep, CancelPurge, CancelUnlink, CancelRows,
         CancelRow, CancelDbError, CancelAbort, CleanStep, CleanList, CleanPurge,
         CleanRows, CleanRow, CleanDbError, RemovalTypeOK
<1>2. UNCHANGED <<client, contested, completer, task>>
  BY DEF ingestVars, finalizerVars
<1>3. CASE UNCHANGED repoVars
  BY <1>2, <1>3 DEF RemovalStep, SameStatus, repoVars
<1>4. ASSUME NEW u \in Upload, DeletePartRows(u) PROVE RemovalStep
  BY <1>2, <1>4 DEF RemovalStep, SameStatus, DeletePartRows
<1>5. ASSUME NEW u \in Upload, DeleteUploadRow(u) PROVE RemovalStep
  BY <1>2, <1>5, StatusOfStatement DEF RemovalStep, DeleteUploadRow
<1> QED BY <1>1, <1>3, <1>4, <1>5

-----------------------------------------------------------------------------
\* The first invariant, on the summaries.

\* What a step must leave true to preserve StartInv: every predicate on the
\* right is one of the state before the step.
LEMMA StartInvFrom ==
  ASSUME \A u \in Upload : Known(u) => client'[u] = "known",
         \A u \in Upload : Known(u) /\ Settled(u) => Settled(u)',
         \A u \in Upload : Started(u)' => Known(u) /\ Settled(u),
         \A c \in Completer : completer'[c].pc # "idle" =>
            /\ completer'[c].u \in Upload /\ Known(completer'[c].u)
            /\ completer'[c].pc = "start" => Settled(completer'[c].u),
         \A t \in Task : task'[t].pc # "idle" =>
            task'[t].u \in Upload /\ Known(task'[t].u) /\ Settled(task'[t].u)
  PROVE  StartInv'
<1>1. \A u \in Upload : Started(u)' => Known(u)' /\ Settled(u)'
  BY DEF Known
<1>2. ASSUME NEW c \in Completer, completer'[c].pc # "idle"
      PROVE  /\ Known(completer[c].u)'
             /\ completer'[c].pc = "start" => Settled(completer[c].u)'
  BY <1>2 DEF Known, Settled, Uploaded
<1>3. ASSUME NEW t \in Task, task'[t].pc # "idle"
      PROVE  Known(task[t].u)' /\ Settled(task[t].u)'
  BY <1>3 DEF Known, Settled, Uploaded
<1> QED BY <1>1, <1>2, <1>3 DEF StartInv

\* What StartInv says of the requests and the tasks that are under way.
LEMMA UnderWay ==
  ASSUME TypeOK, StartInv
  PROVE  /\ \A c \in Completer : completer[c].pc # "idle" =>
              /\ completer[c].u \in Upload /\ Known(completer[c].u)
              /\ completer[c].pc = "start" => Settled(completer[c].u)
         /\ \A t \in Task : task[t].pc # "idle" =>
              task[t].u \in Upload /\ Known(task[t].u) /\ Settled(task[t].u)
  BY DEF StartInv, TypeOK, FinalizerTypeOK, CompleterTypeOK, TaskTypeOK

LEMMA SettledStable ==
  ASSUME RepoTypeOK, NEW u \in Upload, NEW p \in Part, NEW checksum \in Content,
         UpdatePartStatus(u, p, checksum)
  PROVE  \A v \in Upload : Settled(v) => Settled(v)'
<1> SUFFICES ASSUME NEW v \in Upload, Settled(v) PROVE Settled(v)'
  OBVIOUS
<1>1. parts \in [Upload -> [Part -> {"norow", "pending"} \cup Content]]
  BY DEF RepoTypeOK
<1>2. CASE \A q \in Part : Uploaded(v, q)
  <2>1. ASSUME NEW q \in Part PROVE parts'[v][q] \in Content
    BY <1>1, <1>2 DEF UpdatePartStatus, Uploaded
  <2> QED BY <2>1 DEF Settled, Uploaded
<1>3. CASE \A q \in Part : parts[v][q] = "norow"
  <2>1. ASSUME NEW q \in Part PROVE parts'[v][q] = "norow"
    BY <1>1, <1>3 DEF UpdatePartStatus
  <2> QED BY <2>1 DEF Settled
<1> QED BY <1>2, <1>3 DEF Settled

LEMMA IngestStarts ==
  ASSUME TypeOK, StartInv, IngestNext, UNCHANGED <<finalizerVars, removalVars, crashes>>
  PROVE  StartInv'
<1> RepoTypeOK /\ client \in [Upload -> ClientState]
  BY DEF TypeOK, IngestTypeOK
<1>a. UNCHANGED <<completer, task>>
  BY DEF finalizerVars
<1>b. \A u \in Upload : Started(u) => Known(u) /\ Settled(u)
  BY DEF StartInv
<1>1. ASSUME NEW u \in Upload, InitCreate(u) PROVE StartInv'
  <2>1. /\ \A v \in Upload \ {u} : client'[v] = client[v]
        /\ client[u] = "new" /\ UNCHANGED parts /\ SetsStatus(u, "pending")
    BY <1>1, StatusOfStatement DEF InitCreate, CreateUpload
  <2>2. \A v \in Upload : Started(v)' => Known(v) /\ Settled(v)
    BY <1>b, <2>1 DEF Started, SetsStatus
  <2>3. \A v \in Upload : Known(v) => client'[v] = "known"
    BY <2>1 DEF Known
  <2>4. \A v \in Upload : Settled(v) => Settled(v)'
    BY <2>1 DEF Settled, Uploaded
  <2> QED BY <1>a, <2>2, <2>3, <2>4, UnderWay, StartInvFrom
<1>2. ASSUME NEW u \in Upload, InitParts(u) \/ InitPartsError(u) PROVE StartInv'
  <2>1. /\ \A v \in Upload \ {u} : client'[v] = client[v]
        /\ client[u] = "creating" /\ UNCHANGED uploads
        /\ \A v \in Upload \ {u} : parts'[v] = parts[v]
    BY <1>2 DEF InitParts, InitPartsError, CreateParts, RepoTypeOK
  <2>2. \A v \in Upload : Started(v)' => Known(v) /\ Settled(v)
    BY <1>b, <2>1 DEF Started
  <2>3. \A v \in Upload : Known(v) => client'[v] = "known"
    BY <2>1 DEF Known
  <2>4. \A v \in Upload : Known(v) /\ Settled(v) => Settled(v)'
    BY <2>1 DEF Settled, Uploaded, Known
  <2> QED BY <1>a, <2>2, <2>3, <2>4, UnderWay, StartInvFrom
<1>3. ASSUME NEW w \in Writer, PutMark(w) PROVE StartInv'
  <2>1. /\ put[w].u \in Upload /\ put[w].p \in Part /\ put[w].body \in Content
        /\ UpdatePartStatus(put[w].u, put[w].p, put[w].body)
        /\ UNCHANGED <<uploads, client>>
    BY <1>3 DEF PutMark, UpdatePartStatus, TypeOK, IngestTypeOK
  <2>2. \A v \in Upload : Settled(v) => Settled(v)'
    BY <2>1, SettledStable
  <2> QED BY <1>a, <1>b, <2>1, <2>2, UnderWay, StartInvFrom DEF Started, Known
<1>4. CASE UNCHANGED <<client, repoVars>>
  BY <1>a, <1>4 DEF StartInv, Started, Known, Settled, Uploaded, repoVars
<1> QED
  BY <1>1, <1>2, <1>3, <1>4
     DEF IngestNext, PutStart, PutStep, PutMkdir, PutCreate, PutWrite, PutIoError, PutDbError,
         PutAbort, LateStep, LateMkdir, LateCreate, LateWrite, ingestVars

LEMMA QuietStarts ==
  ASSUME TypeOK, StartInv,
         \/ QuietRow \/ RemovalStep
         \/ \E t \in Task : QuietTask(t) \/ OutcomeTask(t)
  PROVE  StartInv'
<1>a. \A u \in Upload : Started(u) => Known(u) /\ Settled(u)
  BY DEF StartInv
<1>1. CASE QuietRow
  BY <1>1, <1>a, UnderWay, StartInvFrom
     DEF QuietRow, FinalizersFrame, SameStatus, Started, Known, Settled, Uploaded
<1>2. CASE RemovalStep
  <2>1. UNCHANGED <<client, completer, task>>
    BY <1>2 DEF RemovalStep
  <2>2. \A u \in Upload : Started(u)' => Started(u)
    BY <1>2 DEF RemovalStep, SameStatus, SetsStatus, Started
  <2>3. \A v \in Upload : Settled(v) => Settled(v)'
    <3>1. CASE UNCHANGED parts
      BY <3>1 DEF Settled, Uploaded
    <3>2. ASSUME NEW u \in Upload, parts' = [parts EXCEPT ![u] = [p \in Part |-> "norow"]]
          PROVE  \A v \in Upload : Settled(v) => Settled(v)'
      BY <3>2 DEF Settled, Uploaded, TypeOK, RepoTypeOK
    <3> QED BY <1>2, <3>1, <3>2 DEF RemovalStep
  <2> QED BY <1>a, <2>1, <2>2, <2>3, UnderWay, StartInvFrom DEF Known
<1>3. ASSUME NEW t \in Task, QuietTask(t) \/ OutcomeTask(t) PROVE StartInv'
  <2>1. UNCHANGED <<parts, client, completer>>
    BY <1>3 DEF QuietTask, OutcomeTask, FinalizersFrame
  <2>2. \A s \in Task : task'[s].pc # "idle" => task[s].pc # "idle" /\ task'[s].u = task[s].u
    BY <1>3 DEF QuietTask, OutcomeTask, Working, Running, Storing
  <2>3. \A u \in Upload : Started(u)' => Started(u) \/ (task[t].pc # "idle" /\ u = task[t].u)
    BY <1>3 DEF QuietTask, OutcomeTask, SameStatus, SetsStatus, Started
  <2>4. \A u \in Upload : Started(u)' => Known(u) /\ Settled(u)
    BY <1>a, <2>3, UnderWay
  <2>5. \A u \in Upload : Settled(u) => Settled(u)'
    BY <2>1 DEF Settled, Uploaded
  <2> QED BY <2>1, <2>2, <2>4, <2>5, UnderWay, StartInvFrom DEF Known
<1> QED BY <1>1, <1>2, <1>3

\* The steps of complete_upload, summarised: it moves on, gives up, restarts a
\* finalization, or starts one.
CompleterMoves(c) ==
    /\ \A d \in Completer \ {c} : completer'[d] = completer[d]
    /\ UNCHANGED <<parts, client>>

Spawned(t, u) == /\ task[t].pc = "idle"
                 /\ \A s \in Task \ {t} : task'[s] = task[s]
                 /\ task'[t].pc = "queued" /\ task'[t].u = u

LEMMA SpawnSpawns ==
  ASSUME TaskTypeOK, NEW t \in Task, NEW u, Spawn(t, u)
  PROVE  Spawned(t, u)
  BY DEF TaskTypeOK, Spawn, Spawned

LEMMA CompleterSummary ==
  ASSUME TypeOK, NEW c \in Completer, UNCHANGED <<ingestVars, removalVars, crashes>>,
         (\E u \in Upload : CompleteStart(c, u)) \/ CompleterStep(c) \/ CompleteDbError(c)
  PROVE  /\ CompleterMoves(c)
         /\ \/ /\ completer'[c].pc \in {"idle", "restart", "count"}
               /\ completer'[c].pc # "idle" =>
                    completer'[c].u \in Upload /\ Known(completer'[c].u)
               /\ SameStatus /\ UNCHANGED <<task, contested>>
            \/ /\ completer[c].pc = "count" /\ AllPartsUploaded(completer[c].u)
               /\ completer'[c].pc = "start" /\ completer'[c].u = completer[c].u
               /\ SameStatus /\ UNCHANGED <<task, contested>>
            \/ /\ completer[c].pc = "restart" /\ completer'[c].pc = "idle"
               /\ uploads[completer[c].u].status = "finalizing"
               /\ SameStatus
               /\ contested' = [contested EXCEPT ![completer[c].u] =
                                   @ \/ FinalizersOf(completer[c].u) # {}]
               /\ \E t \in Task : Spawned(t, completer[c].u)
            \/ /\ completer[c].pc = "start" /\ completer'[c].pc = "idle"
               /\ uploads[completer[c].u].status \in {"pending", "failed"}
               /\ SetsStatus(completer[c].u, "finalizing")
               /\ \E t \in Task : Spawned(t, completer[c].u)
               /\ UNCHANGED contested
<1> RepoTypeOK /\ TaskTypeOK /\ CompleterTypeOK
  BY DEF TypeOK, FinalizerTypeOK
<1>a. completer[c].pc # "idle" => completer[c].u \in Upload
  BY DEF CompleterTypeOK
<1>b. UNCHANGED client
  BY DEF ingestVars
<1>c. UNCHANGED repoVars => SameStatus /\ UNCHANGED parts
  BY DEF repoVars, SameStatus
<1>d. CompleterReturn(c) => /\ \A d \in Completer \ {c} : completer'[d] = completer[d]
                            /\ completer'[c].pc = "idle"
  BY DEF CompleterReturn, NoRequest, CompleterTypeOK
<1>1. ASSUME NEW u \in Upload, CompleteStart(c, u)
      PROVE  /\ CompleterMoves(c) /\ completer'[c].pc \in {"restart", "count"}
             /\ completer'[c].u = u /\ Known(u)
             /\ SameStatus /\ UNCHANGED <<task, contested>>
  BY <1>1, <1>b, <1>c DEF CompleteStart, CompleterMoves, CompleterTypeOK, Known
<1>2. CASE CompleteRestart(c)
  <2>1. CASE CanRestartFinalization(completer[c].u)
    BY <1>2, <1>a, <1>b, <1>d, <2>1, SpawnSpawns, StatusOfStatement
       DEF CompleteRestart, CanRestartFinalization, RestartStaleFinalization, CompleterMoves
  <2>2. CASE ~CanRestartFinalization(completer[c].u)
    BY <1>2, <1>b, <1>c, <1>d, <2>2 DEF CompleteRestart, CompleterMoves
  <2> QED BY <2>1, <2>2
<1>3. CASE CompleteCount(c)
  <2>1. CASE AllPartsUploaded(completer[c].u)
    BY <1>3, <1>b, <1>c, <2>1 DEF CompleteCount, CompleterMoves, CompleterTypeOK
  <2>2. CASE ~AllPartsUploaded(completer[c].u)
    BY <1>3, <1>b, <1>c, <1>d, <2>2 DEF CompleteCount, CompleterMoves
  <2> QED BY <2>1, <2>2
<1>4. CASE CompleteTryStart(c)
  <2>1. CASE CanStartFinalization(completer[c].u)
    BY <1>4, <1>a, <1>b, <1>d, <2>1, SpawnSpawns, StatusOfStatement
       DEF CompleteTryStart, CanStartFinalization, TryStartFinalization, CompleterMoves
  <2>2. CASE ~CanStartFinalization(completer[c].u)
    BY <1>4, <1>b, <1>c, <1>d, <2>2 DEF CompleteTryStart, CompleterMoves
  <2> QED BY <2>1, <2>2
<1>5. CASE CompleteDbError(c)
  BY <1>5, <1>b, <1>c, <1>d DEF CompleteDbError, CompleterMoves
<1> QED BY <1>1, <1>2, <1>3, <1>4, <1>5 DEF CompleterStep

LEMMA CompleterStarts ==
  ASSUME TypeOK, StartInv, NEW c \in Completer, UNCHANGED <<ingestVars, removalVars, crashes>>,
         (\E u \in Upload : CompleteStart(c, u)) \/ CompleterStep(c) \/ CompleteDbError(c)
  PROVE  StartInv'
<1>a. CompleterMoves(c)
  BY CompleterSummary
<1>b. \A u \in Upload : Settled(u) => Settled(u)'
  BY <1>a DEF CompleterMoves, Settled, Uploaded
<1>c. \A u \in Upload : Known(u) => client'[u] = "known"
  BY <1>a DEF CompleterMoves, Known
<1>d. \A u \in Upload : Started(u) => Known(u) /\ Settled(u)
  BY DEF StartInv
<1>1. \A u \in Upload : Started(u)' => Known(u) /\ Settled(u)
  BY CompleterSummary, UnderWay, <1>d DEF SameStatus, SetsStatus, Started
<1>2. \A d \in Completer : completer'[d].pc # "idle" =>
         /\ completer'[d].u \in Upload /\ Known(completer'[d].u)
         /\ completer'[d].pc = "start" => Settled(completer'[d].u)
  <2>1. \A d \in Completer \ {c} : completer'[d] = completer[d]
    BY <1>a DEF CompleterMoves
  <2>2. completer'[c].pc # "idle" =>
         /\ completer'[c].u \in Upload /\ Known(completer'[c].u)
         /\ completer'[c].pc = "start" => Settled(completer'[c].u)
    BY CompleterSummary, UnderWay, AllCounted
  <2> QED BY <2>1, <2>2, UnderWay
<1>3. \A t \in Task : task'[t].pc # "idle" =>
         task'[t].u \in Upload /\ Known(task'[t].u) /\ Settled(task'[t].u)
  <2>1. CASE UNCHANGED task
    BY <2>1, UnderWay
  <2>2. ASSUME NEW t \in Task, Spawned(t, completer[c].u),
               \/ completer[c].pc = "start"
               \/ completer[c].pc = "restart" /\ uploads[completer[c].u].status = "finalizing"
        PROVE  \A s \in Task : task'[s].pc # "idle" =>
                  task'[s].u \in Upload /\ Known(task'[s].u) /\ Settled(task'[s].u)
    BY <1>d, <2>2, UnderWay DEF Spawned, Started
  <2> QED BY <2>1, <2>2, CompleterSummary
<1> QED BY <1>b, <1>c, <1>1, <1>2, <1>3, StartInvFrom

\* What a restart keeps: the rows' statuses, and each new task has an upload
\* of its own that says finalizing.
LEMMA CrashSummary ==
  ASSUME TypeOK, CrashRestart
  PROVE  /\ SameStatus
         /\ UNCHANGED <<parts, contested>>
         /\ \A u \in Upload : client[u] # "creating" => client'[u] = client[u]
         /\ \A c \in Completer : completer'[c].pc = "idle"
         /\ \A t \in Task : task'[t].pc # "idle" =>
               /\ task'[t].pc = "queued" /\ task'[t].u \in Upload
               /\ uploads[task'[t].u].status = "finalizing"
         /\ \A s, t \in Task : /\ task'[s].pc # "idle" /\ task'[t].pc # "idle"
                               /\ task'[s].u = task'[t].u
                               => s = t
<1>1. UNCHANGED <<parts, contested>>
  BY DEF CrashRestart
<1>2. \A u \in Upload : client[u] # "creating" => client'[u] = client[u]
  BY DEF CrashRestart
<1>3. \A c \in Completer : completer'[c].pc = "idle"
  BY DEF CrashRestart, NoRequest
<1>4. PICK again \in SUBSET FinalizingUploads :
         /\ uploads' = [u \in Upload |-> IF u \in again
                                         THEN [uploads[u] EXCEPT !.progress = 0, !.stale = FALSE]
                                         ELSE uploads[u]]
         /\ \E owner \in [again -> Task] :
               task' = [t \in Task |->
                          IF \E u \in again : owner[u] = t
                          THEN [pc |-> "queued", u |-> CHOOSE u \in again : owner[u] = t,
                                next |-> 0]
                          ELSE NoTask]
  BY DEF CrashRestart
<1>5. SameStatus
  <2>1. \A u \in Upload : [uploads[u] EXCEPT !.progress = 0, !.stale = FALSE].status
                            = uploads[u].status
    BY StatusOfRow DEF TypeOK, RepoTypeOK
  <2> QED BY <1>4, <2>1 DEF SameStatus
<1>6. PICK owner \in [again -> Task] :
         task' = [t \in Task |->
                    IF \E u \in again : owner[u] = t
                    THEN [pc |-> "queued", u |-> CHOOSE u \in again : owner[u] = t, next |-> 0]
                    ELSE NoTask]
  BY <1>4
<1>7. ASSUME NEW t \in Task, task'[t].pc # "idle"
      PROVE  task'[t].pc = "queued" /\ task'[t].u \in again /\ owner[task'[t].u] = t
  <2>1. \E u \in again : owner[u] = t
    BY <1>6, <1>7 DEF NoTask
  <2>2. /\ (CHOOSE u \in again : owner[u] = t) \in again
        /\ owner[CHOOSE u \in again : owner[u] = t] = t
    BY <2>1
  <2>3. task'[t] = [pc |-> "queued", u |-> CHOOSE u \in again : owner[u] = t, next |-> 0]
    BY <1>6, <2>1
  <2> QED BY <2>2, <2>3
<1>8. \A u \in again : u \in Upload /\ uploads[u].status = "finalizing"
  BY DEF FinalizingUploads
<1> QED BY <1>1, <1>2, <1>3, <1>5, <1>7, <1>8

LEMMA StartInvNext == TypeOK /\ StartInv /\ [Next]_vars => StartInv'
<1> SUFFICES ASSUME TypeOK, StartInv, [Next]_vars PROVE StartInv'
  OBVIOUS
<1>1. CASE IngestNext /\ UNCHANGED <<finalizerVars, removalVars, crashes>>
  BY <1>1, IngestStarts
<1>2. CASE FinalizerNext /\ UNCHANGED <<ingestVars, removalVars, crashes>>
  <2>1. CASE \E c \in Completer : \/ \E u \in Upload : CompleteStart(c, u)
                                  \/ CompleterStep(c) \/ CompleteDbError(c)
    BY <1>2, <2>1, CompleterStarts
  <2>2. CASE \E t \in Task : TaskBegin(t) \/ TaskStep(t) \/ TaskFault(t)
    BY <1>2, <2>2, TaskQuiet, TaskOutcome, QuietStarts DEF TaskStep
  <2>3. CASE \/ \E t \in Task : Heartbeat(t)
             \/ \E u \in Upload : LateBeat(u) \/ GoStale(u)
    BY <1>2, <2>3, RowQuiet, QuietStarts
  <2> QED BY <1>2, <2>1, <2>2, <2>3 DEF FinalizerNext
<1>3. CASE RemovalNext /\ UNCHANGED <<ingestVars, finalizerVars, crashes>>
  BY <1>3, RemovalSummary, QuietStarts
<1>4. CASE (\E u \in Upload : Expire(u)) \/ UNCHANGED vars
  BY <1>4, RowQuiet, QuietStarts
<1>5. CASE CrashRestart
  <2>1. \A u \in Upload : Started(u) => Known(u) /\ Settled(u)
    BY DEF StartInv
  <2>2. \A u \in Upload : Settled(u) => Settled(u)'
    BY <1>5, CrashSummary DEF Settled, Uploaded
  <2>3. \A u \in Upload : Known(u) => client'[u] = "known"
    BY <1>5, CrashSummary DEF Known
  <2>4. \A u \in Upload : Started(u)' => Known(u) /\ Settled(u)
    BY <1>5, <2>1, CrashSummary DEF SameStatus, Started
  <2>5. \A t \in Task : task'[t].pc # "idle" =>
           task'[t].u \in Upload /\ Known(task'[t].u) /\ Settled(task'[t].u)
    BY <1>5, <2>1, CrashSummary DEF Started
  <2>6. \A c \in Completer : completer'[c].pc = "idle"
    BY <1>5, CrashSummary
  <2> QED BY <2>2, <2>3, <2>4, <2>5, <2>6, StartInvFrom
<1> QED BY <1>1, <1>2, <1>3, <1>4, <1>5 DEF Next

LEMMA StartInvInit == Init => StartInv
  BY DEF Init, RepoInit, FinalizerInit, StartInv, NoRow, NoRequest, NoTask, Started

\* Finalization starts only with every part recorded, however complete
\* requests, cancels, the cleanup service, PUTs, faults and restarts interleave.
THEOREM StartedSafe == Spec => []StartedOnlyWhenAllUploaded
<1>1. StartInv => StartedOnlyWhenAllUploaded
  BY DEF StartInv, StartedOnlyWhenAllUploaded, Started, Settled
<1> QED BY <1>1, InitTyped, NextTyped, StartInvInit, StartInvNext, PTL DEF Spec

-----------------------------------------------------------------------------
\* One task at a time.  SoleFinalizer is inductive once StartInv is known.

HasTask(u) == \E t \in Task : Working(t) /\ task[t].u = u

\* SoleFinalizer for one upload, without the set of its tasks.
Sole(u) == RowExists(u) =>
    /\ \A s, t \in Task : /\ Working(s) /\ task[s].u = u
                          /\ Working(t) /\ task[t].u = u
                          => s = t
    /\ HasTask(u) => uploads[u].status = "finalizing"

LEMMA SoleIff == SoleFinalizer <=> \A u \in Upload : ~contested[u] => Sole(u)
  BY DEF SoleFinalizer, Sole, FinalizersOf, Working, HasTask

LEMMA SoleIffNext == SoleFinalizer' <=> \A u \in Upload : ~contested'[u] => Sole(u)'
  BY DEF SoleFinalizer, Sole, FinalizersOf, Working, HasTask

LEMMA StartedExists == ASSUME NEW u PROVE Started(u) => RowExists(u)
  BY DEF Started, RowExists, InRow

\* Steps that neither give a task something to do nor set an outcome.
LEMMA CalmStepSole ==
  ASSUME NEW u \in Upload, Sole(u),
         uploads'[u].status = uploads[u].status,
         \A t \in Task : Working(t)' /\ task'[t].u = u => Working(t) /\ task[t].u = u
  PROVE  Sole(u)'
  BY DEF Sole, HasTask, RowExists

\* Without tasks and without a row before, the two conditions hold after.
LEMMA NoTaskSole ==
  ASSUME NEW u \in Upload, \A t \in Task : ~(Working(t)' /\ task'[t].u = u)
  PROVE  Sole(u)'
  BY DEF Sole, HasTask

LEMMA NewTaskSole ==
  ASSUME NEW u \in Upload, NEW t \in Task, Spawned(t, u), ~HasTask(u),
         uploads'[u].status = "finalizing"
  PROVE  Sole(u)'
  BY DEF Spawned, Sole, HasTask, Working

LEMMA OtherTaskSole ==
  ASSUME NEW u \in Upload, Sole(u), NEW t \in Task, NEW v, v # u, Spawned(t, v),
         uploads'[u].status = uploads[u].status
  PROVE  Sole(u)'
<1>1. \A s \in Task : Working(s)' /\ task'[s].u = u => Working(s) /\ task[s].u = u
  BY DEF Spawned, Working
<1> QED BY <1>1, CalmStepSole

LEMMA IngestSole ==
  ASSUME TypeOK, StartInv, SoleFinalizer, IngestNext,
         UNCHANGED <<finalizerVars, removalVars, crashes>>
  PROVE  SoleFinalizer'
<1> SUFFICES ASSUME NEW u \in Upload, ~contested'[u] PROVE Sole(u)'
  BY SoleIffNext
<1>a. UNCHANGED <<task, contested>>
  BY DEF finalizerVars
<1>b. Sole(u)
  BY <1>a, SoleIff
<1>c. \A t \in Task : Working(t)' => Working(t) /\ task'[t] = task[t]
  BY <1>a DEF Working
<1>1. ASSUME NEW v \in Upload, InitCreate(v) PROVE Sole(u)'
  <2>1. client[v] = "new" /\ SetsStatus(v, "pending")
    BY <1>1, StatusOfStatement DEF InitCreate, TypeOK
  <2>2. CASE u = v
    <3>1. \A t \in Task : Working(t) => task[t].u # v
      BY <2>1, UnderWay DEF Known, Working, Running, Storing
    <3> QED BY <1>c, <2>2, <3>1, NoTaskSole
  <2>3. CASE u # v
    BY <1>b, <1>c, <2>1, <2>3, CalmStepSole DEF SetsStatus
  <2> QED BY <2>2, <2>3
<1>2. CASE UNCHANGED uploads
  BY <1>b, <1>c, <1>2, CalmStepSole
<1> QED
  BY <1>1, <1>2
     DEF IngestNext, InitParts, InitPartsError, CreateParts, PutStart, PutStep, PutMkdir,
         PutCreate, PutWrite, PutMark, UpdatePartStatus, PutIoError, PutDbError, PutAbort,
         LateStep, LateMkdir, LateCreate, LateWrite, ingestVars, repoVars

LEMMA QuietSole ==
  ASSUME SoleFinalizer,
         QuietRow \/ RemovalStep \/ \E t \in Task : QuietTask(t) \/ OutcomeTask(t)
  PROVE  SoleFinalizer'
<1> SUFFICES ASSUME NEW u \in Upload, ~contested'[u] PROVE Sole(u)'
  BY SoleIffNext
<1>a. UNCHANGED contested
  BY DEF QuietRow, RemovalStep, QuietTask, OutcomeTask, FinalizersFrame
<1>b. Sole(u)
  BY <1>a, SoleIff
<1>1. CASE QuietRow
  BY <1>1, <1>b, CalmStepSole DEF QuietRow, SameStatus, Working
<1>2. CASE RemovalStep
  <2>1. CASE uploads'[u].status = uploads[u].status
    BY <1>2, <1>b, <2>1, CalmStepSole DEF RemovalStep, Working
  <2>2. CASE uploads'[u].status = "deleted"
    BY <2>2 DEF Sole, RowExists, InRow
  <2> QED BY <1>2, <2>1, <2>2 DEF RemovalStep, SameStatus, SetsStatus
<1>3. ASSUME NEW t \in Task, QuietTask(t) PROVE Sole(u)'
  <2>1. \A s \in Task : Working(s)' /\ task'[s].u = u => Working(s) /\ task[s].u = u
    BY <1>3 DEF QuietTask, Working, Running, Storing
  <2> QED BY <1>3, <1>b, <2>1, CalmStepSole DEF QuietTask, SameStatus
<1>4. ASSUME NEW t \in Task, OutcomeTask(t) PROVE Sole(u)'
  <2>1. /\ Working(t) /\ ~Working(t)'
        /\ \A s \in Task \ {t} : task'[s] = task[s]
    BY <1>4 DEF OutcomeTask, Working, Running, Storing
  <2>2. \A s \in Task : Working(s)' => s # t /\ Working(s) /\ task'[s].u = task[s].u
    BY <2>1 DEF Working
  <2>3. CASE u = task[t].u /\ RowExists(u)
    BY <1>b, <2>1, <2>2, <2>3, NoTaskSole DEF Sole
  <2>4. CASE u # task[t].u \/ ~RowExists(u)
    <3>1. uploads'[u].status = uploads[u].status
      BY <1>4, <2>4 DEF OutcomeTask, SameStatus, SetsStatus
    <3> QED BY <1>b, <2>2, <3>1, CalmStepSole
  <2> QED BY <2>3, <2>4
<1> QED BY <1>1, <1>2, <1>3, <1>4

LEMMA CompleterSole ==
  ASSUME TypeOK, SoleFinalizer, NEW c \in Completer,
         UNCHANGED <<ingestVars, removalVars, crashes>>,
         (\E u \in Upload : CompleteStart(c, u)) \/ CompleterStep(c) \/ CompleteDbError(c)
  PROVE  SoleFinalizer'
<1> SUFFICES ASSUME NEW u \in Upload, ~contested'[u] PROVE Sole(u)'
  BY SoleIffNext
<1> DEFINE v == completer[c].u
<1>a. completer[c].pc # "idle" => v \in Upload
  BY DEF TypeOK, FinalizerTypeOK, CompleterTypeOK
<1>b. contested \in [Upload -> BOOLEAN]
  BY DEF TypeOK, FinalizerTypeOK
<1>c. HasTask(u) <=> FinalizersOf(u) # {}
  BY DEF HasTask, FinalizersOf, Working
<1>1. CASE SameStatus /\ UNCHANGED <<task, contested>>
  BY <1>1, SoleIff, CalmStepSole DEF SameStatus, Working
<1>2. ASSUME NEW t \in Task, Spawned(t, v), completer[c].pc = "restart",
             uploads[v].status = "finalizing", SameStatus,
             contested' = [contested EXCEPT ![v] = @ \/ FinalizersOf(v) # {}]
      PROVE  Sole(u)'
  <2>1. CASE u = v
    <3>1. ~HasTask(u)
      BY <1>a, <1>b, <1>c, <1>2, <2>1
    <3> QED BY <1>2, <2>1, <3>1, NewTaskSole DEF SameStatus
  <2>2. CASE u # v
    <3>1. Sole(u)
      BY <1>a, <1>b, <1>2, <2>2, SoleIff
    <3> QED BY <1>2, <2>2, <3>1, OtherTaskSole DEF SameStatus
  <2> QED BY <2>1, <2>2
<1>3. ASSUME NEW t \in Task, Spawned(t, v), completer[c].pc = "start",
             uploads[v].status \in {"pending", "failed"}, SetsStatus(v, "finalizing"),
             UNCHANGED contested
      PROVE  Sole(u)'
  <2>0. Sole(u)
    BY <1>3, SoleIff
  <2>1. CASE u = v
    <3>1. ~HasTask(u)
      BY <1>3, <2>0, <2>1 DEF Sole, RowExists, InRow
    <3> QED BY <1>3, <2>1, <3>1, NewTaskSole DEF SetsStatus
  <2>2. CASE u # v
    BY <1>3, <2>0, <2>2, OtherTaskSole DEF SetsStatus
  <2> QED BY <2>1, <2>2
<1> QED BY <1>1, <1>2, <1>3, CompleterSummary

LEMMA CrashSole ==
  ASSUME TypeOK, SoleFinalizer, CrashRestart
  PROVE  SoleFinalizer'
<1> SUFFICES ASSUME NEW u \in Upload, ~contested'[u] PROVE Sole(u)'
  BY SoleIffNext
<1>1. \A t \in Task : Working(t)' => task'[t].pc # "idle"
  BY DEF Working, Running, Storing
<1> QED BY <1>1, CrashSummary DEF Sole, HasTask, SameStatus

LEMMA SoleNext == TypeOK /\ StartInv /\ SoleFinalizer /\ [Next]_vars => SoleFinalizer'
<1> SUFFICES ASSUME TypeOK, StartInv, SoleFinalizer, [Next]_vars PROVE SoleFinalizer'
  OBVIOUS
<1>1. CASE IngestNext /\ UNCHANGED <<finalizerVars, removalVars, crashes>>
  BY <1>1, IngestSole
<1>2. CASE FinalizerNext /\ UNCHANGED <<ingestVars, removalVars, crashes>>
  <2>1. CASE \E c \in Completer : \/ \E u \in Upload : CompleteStart(c, u)
                                  \/ CompleterStep(c) \/ CompleteDbError(c)
    BY <1>2, <2>1, CompleterSole
  <2>2. CASE \E t \in Task : TaskBegin(t) \/ TaskStep(t) \/ TaskFault(t)
    BY <1>2, <2>2, TaskQuiet, TaskOutcome, QuietSole DEF TaskStep
  <2>3. CASE \/ \E t \in Task : Heartbeat(t)
             \/ \E u \in Upload : LateBeat(u) \/ GoStale(u)
    BY <1>2, <2>3, RowQuiet, QuietSole
  <2> QED BY <1>2, <2>1, <2>2, <2>3 DEF FinalizerNext
<1>3. CASE RemovalNext /\ UNCHANGED <<ingestVars, finalizerVars, crashes>>
  BY <1>3, RemovalSummary, QuietSole
<1>4. CASE (\E u \in Upload : Expire(u)) \/ UNCHANGED vars
  BY <1>4, RowQuiet, QuietSole
<1>5. CASE CrashRestart
  BY <1>5, CrashSole
<1> QED BY <1>1, <1>2, <1>3, <1>4, <1>5 DEF Next

LEMMA SoleInit == Init => SoleFinalizer
<1> SUFFICES ASSUME Init PROVE SoleFinalizer
  OBVIOUS
<1>1. \A t \in Task : ~Working(t)
  BY DEF Init, FinalizerInit, NoTask, Working, Running, Storing
<1> QED BY <1>1, SoleIff DEF Sole, HasTask

\* One task at a time works on an upload, and only while the row says
\* finalizing, unless a restart hit a live task.
THEOREM SoleFinalizerSafe == Spec => []SoleFinalizer
  BY InitTyped, NextTyped, StartInvInit, StartInvNext, SoleInit, SoleNext, PTL DEF Spec

-----------------------------------------------------------------------------
\* Complete is final: a consequence of the two invariants for every step.

KeepsComplete == \A u \in Upload : uploads[u].status = "complete" /\ ~contested[u] =>
                    uploads'[u].status \in {"complete", "deleted"}

LEMMA CompleteKept == TypeOK /\ StartInv /\ SoleFinalizer /\ [Next]_vars => KeepsComplete
<1> SUFFICES ASSUME TypeOK, StartInv, SoleFinalizer, [Next]_vars,
                    NEW u \in Upload, uploads[u].status = "complete", ~contested[u]
             PROVE  uploads'[u].status \in {"complete", "deleted"}
  BY DEF KeepsComplete
<1>a. Known(u) /\ ~HasTask(u)
  BY SoleIff DEF StartInv, Started, Sole, RowExists, InRow
<1>1. CASE IngestNext /\ UNCHANGED <<finalizerVars, removalVars, crashes>>
  <2>1. ASSUME NEW v \in Upload, InitCreate(v) PROVE uploads'[u].status = "complete"
    BY <1>a, <2>1, StatusOfStatement DEF InitCreate, TypeOK, Known, SetsStatus
  <2> QED
    BY <1>1, <2>1
       DEF IngestNext, InitParts, InitPartsError, CreateParts, PutStart, PutStep, PutMkdir,
           PutCreate, PutWrite, PutMark, UpdatePartStatus, PutIoError, PutDbError, PutAbort,
           LateStep, LateMkdir, LateCreate, LateWrite, ingestVars, repoVars
<1>2. CASE FinalizerNext /\ UNCHANGED <<ingestVars, removalVars, crashes>>
  <2>1. ASSUME NEW c \in Completer,
               \/ \E v \in Upload : CompleteStart(c, v)
               \/ CompleterStep(c) \/ CompleteDbError(c)
        PROVE  uploads'[u].status = "complete"
    <3>1. \/ SameStatus
          \/ /\ uploads[completer[c].u].status \in {"pending", "failed"}
             /\ SetsStatus(completer[c].u, "finalizing")
      BY <1>2, <2>1, CompleterSummary
    <3> QED BY <3>1 DEF SameStatus, SetsStatus
  <2>2. ASSUME NEW t \in Task, TaskBegin(t) \/ TaskStep(t) \/ TaskFault(t)
        PROVE  uploads'[u].status = "complete"
    <3>1. QuietTask(t) \/ OutcomeTask(t)
      BY <1>2, <2>2, TaskQuiet, TaskOutcome DEF TaskStep
    <3>2. OutcomeTask(t) => task[t].u # u
      BY <1>a DEF HasTask, OutcomeTask
    <3> QED BY <3>1, <3>2 DEF QuietTask, OutcomeTask, SameStatus, SetsStatus
  <2>3. CASE \/ \E t \in Task : Heartbeat(t)
             \/ \E v \in Upload : LateBeat(v) \/ GoStale(v)
    BY <1>2, <2>3, RowQuiet DEF QuietRow, SameStatus
  <2> QED BY <1>2, <2>1, <2>2, <2>3 DEF FinalizerNext
<1>3. CASE RemovalNext /\ UNCHANGED <<ingestVars, finalizerVars, crashes>>
  BY <1>3, RemovalSummary DEF RemovalStep, SameStatus, SetsStatus
<1>4. CASE (\E v \in Upload : Expire(v)) \/ UNCHANGED vars
  BY <1>4, RowQuiet DEF QuietRow, SameStatus
<1>5. CASE CrashRestart
  BY <1>5, CrashSummary DEF SameStatus
<1> QED BY <1>1, <1>2, <1>3, <1>4, <1>5 DEF Next

\* No late task, heartbeat, complete request or boot takes an upload out of
\* `complete', other than by deleting it, unless a restart hit a live task.
THEOREM CompleteFinal == Spec => CompleteIsFinal
<1>1. TypeOK /\ StartInv /\ SoleFinalizer /\ [Next]_vars => [KeepsComplete]_vars
  BY CompleteKept
<1>2. Spec => [][KeepsComplete]_vars
  BY <1>1, InitTyped, NextTyped, StartInvInit, StartInvNext, SoleInit, SoleNext, PTL DEF Spec
<1> QED BY <1>2 DEF CompleteIsFinal, KeepsComplete
=============================================================================
