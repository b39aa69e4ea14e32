-------------------------- MODULE LifecycleProofs --------------------------
(***************************************************************************)
(* UploadServer implements UploadLifecycle, for every instance and under   *)
(* every fault.  Beyond the invariants of SafetyProofs the argument needs  *)
(* to know which uploads can have part rows (RowInv), and that a task      *)
(* about to send the webhook is the last one of its upload (TellInv).      *)
(***************************************************************************)
EXTENDS SafetyProofs

NoPartRows(u) == \A p \in Part : parts[u][p] = "norow"

\* An upload whose init request has not inserted the part rows yet.
Fresh(u) == client[u] \in {"new", "creating"}

FreshInv ==
    /\ \A u \in Upload : uploads[u].status = "none" <=> client[u] = "new"
    /\ \A u \in Upload : Fresh(u) =>
            /\ NoPartRows(u) /\ u \notin doomed
            /\ uploads[u].life = "live" /\ uploads[u].status \in {"none", "pending"}

\* Part rows disappear only from doomed uploads, all of them, before the row.
GoneInv ==
    /\ \A d \in Canceller : canceller[d].pc # "idle" =>
            /\ canceller[d].u \in doomed
            /\ canceller[d].pc = "row" => NoPartRows(canceller[d].u)
    /\ cleaner.todo \subseteq doomed
    /\ cleaner.pc \in {"rows", "row"} => cleaner.u \in doomed
    /\ cleaner.pc = "row" => NoPartRows(cleaner.u)
    /\ \A u \in Upload : uploads[u].status = "deleted" => u \in doomed /\ NoPartRows(u)
    /\ \A u \in Upload : Known(u) /\ u \notin doomed => \A p \in Part : parts[u][p] # "norow"

RowInv == FreshInv /\ GoneInv

\* Whoever has a task was once started.
TaskInv == \A t \in Task : task[t].pc # "idle" =>
               uploads[task[t].u].status \in {"finalizing", "complete", "failed", "deleted"}

Busy(t, u) == task[t].pc # "idle" /\ task[t].u = u

\* One upload: it has one task at most, which has not told anybody yet.
Tells(u) ==
    /\ \A s, t \in Task : Busy(s, u) /\ Busy(t, u) => s = t
    /\ \A t \in Task : Busy(t, u) =>
            /\ notified[u] = 0
            /\ uploads[u].status \in {IF Working(t) THEN "finalizing" ELSE "complete", "deleted"}
    /\ notified[u] # 0 => notified[u] = 1 /\ uploads[u].status \in {"complete", "deleted"}

TellInv == \A u \in Upload : ~contested[u] => Tells(u)

ServerInv == TypeOK /\ StartInv /\ RowInv /\ TaskInv /\ TellInv

-----------------------------------------------------------------------------
\* Init and the frames of steps.

LEMMA ServerInit == Init => RowInv /\ TaskInv /\ TellInv
  BY DEF Init, RepoInit, IngestInit, FinalizerInit, RemovalInit, NoRow, NoTask, NoCancel,
         Sleeping, RowInv, FreshInv, GoneInv, Fresh, Known, NoPartRows, TaskInv, TellInv,
         Tells, Busy

SameLife == \A v \in Upload : uploads'[v].life = uploads[v].life

LEMMA LifeOfRow ==
  ASSUME NEW r \in UploadRow, NEW percent
  PROVE  /\ [r EXCEPT !.status = "pending"].life = r.life
         /\ [r EXCEPT !.status = "deleted"].life = r.life
         /\ [r EXCEPT !.status = "finalizing", !.progress = 0, !.stale = FALSE].life = r.life
         /\ [r EXCEPT !.progress = percent, !.stale = FALSE].life = r.life
         /\ [r EXCEPT !.status = "complete", !.hasFinalPath = TRUE,
                       !.progress = 100, !.stale = FALSE].life = r.life
         /\ [r EXCEPT !.status = "failed", !.stale = FALSE].life = r.life
         /\ [r EXCEPT !.stale = TRUE].life = r.life
  BY DEF UploadRow

\* No statement of the finalizer, or of a removal, changes expires_at.
LEMMA LifeOfStatement ==
  ASSUME RepoTypeOK, NEW u \in Upload, NEW percent,
         \/ CreateUpload(u) \/ TryStartFinalization(u) \/ RestartStaleFinalization(u)
         \/ UpdateFinalizingProgress(u, percent)
         \/ MarkFinalizationComplete(u) \/ MarkFinalizationFailed(u) \/ DeleteUploadRow(u)
  PROVE  SameLife
<1>1. uploads[u] \in UploadRow
  BY DEF RepoTypeOK
<1> USE DEF RepoTypeOK, SameLife
<1>2. CASE CreateUpload(u) \/ DeleteUploadRow(u)
  BY <1>1, <1>2, LifeOfRow DEF CreateUpload, DeleteUploadRow
<1>3. CASE TryStartFinalization(u)
  BY <1>1, <1>3, LifeOfRow DEF TryStartFinalization
<1>6. CASE RestartStaleFinalization(u)
  BY <1>1, <1>6, LifeOfRow DEF RestartStaleFinalization
<1>4. CASE UpdateFinalizingProgress(u, percent)
  BY <1>1, <1>4, LifeOfRow DEF UpdateFinalizingProgress
<1>5. CASE MarkFinalizationComplete(u) \/ MarkFinalizationFailed(u)
  BY <1>1, <1>5, LifeOfRow DEF MarkFinalizationComplete, MarkFinalizationFailed
<1> QED BY <1>2, <1>3, <1>4, <1>5, <1>6

LEMMA FinalizerLife ==
  ASSUME TypeOK, FinalizerNext
  PROVE  SameLife
<1> RepoTypeOK /\ CompleterTypeOK /\ TaskTypeOK
  BY DEF TypeOK, FinalizerTypeOK
<1>1. CASE UNCHANGED uploads
  BY <1>1 DEF SameLife
<1>2. ASSUME NEW c \in Completer, CompleterStep(c) PROVE SameLife
  <2>1. completer[c].u \in Upload
    BY <1>2 DEF CompleterStep, CompleteRestart, CompleteCount, CompleteTryStart, CompleterTypeOK
  <2> QED
    BY <1>1, <1>2, <2>1, LifeOfStatement
       DEF CompleterStep, CompleteRestart, CompleteCount, CompleteTryStart, repoVars
<1>3. ASSUME NEW t \in Task, task[t].pc # "idle",
             TaskBegin(t) \/ TaskStep(t) \/ TaskFault(t) \/ Heartbeat(t)
      PROVE  SameLife
  <2>1. task[t].u \in Upload
    BY <1>3 DEF TaskTypeOK
  <2>2. \/ UNCHANGED uploads
        \/ \E percent \in Progress : UpdateFinalizingProgress(task[t].u, percent)
        \/ MarkFinalizationComplete(task[t].u)
        \/ MarkFinalizationFailed(task[t].u)
    BY <1>3 DEF TaskBegin, TaskStep, TaskCheck, TaskUnlink, TaskCreate, TaskAppend, TaskRename,
                TaskPurge, TaskMarkComplete, TaskMarkFailed, TaskNotify, TaskFault,
                TaskBeginDbError, TaskCheckDbError, TaskIoError, TaskMarkDbError, Heartbeat,
                repoVars, Progress
  <2> QED BY <1>1, <2>1, <2>2, LifeOfStatement
<1>4. ASSUME NEW t \in Task, TaskBegin(t) \/ TaskStep(t) \/ TaskFault(t) \/ Heartbeat(t)
      PROVE  task[t].pc # "idle"
  BY <1>4 DEF TaskBegin, TaskStep, TaskCheck, TaskUnlink, TaskCreate, TaskAppend, TaskRename,
              TaskPurge, TaskMarkComplete, TaskMarkFailed, TaskNotify, TaskFault,
              TaskBeginDbError, TaskCheckDbError, TaskIoError, TaskMarkDbError, Heartbeat,
              Running, Storing
<1>5. ASSUME NEW u \in Upload, LateBeat(u) PROVE SameLife
  BY <1>5, LifeOfStatement DEF LateBeat
<1>6. ASSUME NEW u \in Upload, GoStale(u) PROVE SameLife
  BY <1>6, LifeOfRow DEF GoStale, SameLife, RepoTypeOK
<1>7. ASSUME NEW c \in Completer,
             (\E u \in Upload : CompleteStart(c, u)) \/ CompleteDbError(c)
      PROVE  SameLife
  BY <1>1, <1>7 DEF CompleteStart, CompleteDbError, repoVars
<1> QED BY <1>2, <1>3, <1>4, <1>5, <1>6, <1>7 DEF FinalizerNext

\* The summaries of SafetyProofs cover every step of the finalizer.
LEMMA FinalizerSummary ==
  ASSUME TypeOK, FinalizerNext, UNCHANGED <<ingestVars, removalVars, crashes>>
  PROVE  \/ QuietRow
         \/ \E t \in Task : QuietTask(t) \/ OutcomeTask(t)
         \/ \E c \in Completer : \/ \E u \in Upload : CompleteStart(c, u)
                                 \/ CompleterStep(c) \/ CompleteDbError(c)
<1>1. CASE \E t \in Task : TaskBegin(t) \/ TaskStep(t) \/ TaskFault(t)
  BY <1>1, TaskQuiet, TaskOutcome DEF TaskStep
<1>2. CASE \/ \E t \in Task : Heartbeat(t)
           \/ \E u \in Upload : LateBeat(u) \/ GoStale(u)
  BY <1>2, RowQuiet
<1> QED BY <1>1, <1>2 DEF FinalizerNext

-----------------------------------------------------------------------------
\* RowInv.

\* A step that leaves the part rows and the removals alone, and sets no status
\* but that of an upload whose client knows it.
LEMMA RowFrame ==
  ASSUME RowInv, UNCHANGED <<client, parts, removalVars>>, SameLife,
         \A u \in Upload : \/ uploads'[u].status = uploads[u].status
                           \/ Known(u) /\ uploads'[u].status \notin {"none", "deleted"}
  PROVE  RowInv'
<1>1. UNCHANGED <<canceller, cleaner, doomed>>
  BY DEF removalVars
<1>2. FreshInv'
  <2>1. \A u \in Upload : Known(u) => client[u] \notin {"new", "creating"}
    BY DEF Known
  <2> QED BY <1>1, <2>1 DEF RowInv, FreshInv, Fresh, NoPartRows, SameLife
<1>3. GoneInv'
  BY <1>1 DEF RowInv, GoneInv, Known, NoPartRows
<1> QED BY <1>2, <1>3 DEF RowInv

LEMMA FinalizerRows ==
  ASSUME TypeOK, StartInv, RowInv, FinalizerNext, UNCHANGED <<ingestVars, removalVars, crashes>>
  PROVE  RowInv'
<1>1. SameLife /\ UNCHANGED client
  BY FinalizerLife DEF ingestVars
<1>2. CASE QuietRow \/ \E t \in Task : QuietTask(t)
  BY <1>1, <1>2, RowFrame DEF QuietRow, QuietTask, FinalizersFrame, SameStatus
<1>3. ASSUME NEW t \in Task, OutcomeTask(t) PROVE RowInv'
  <2>1. task[t].u \in Upload /\ Known(task[t].u)
    BY <1>3, UnderWay DEF OutcomeTask, Working, Running, Storing
  <2> QED BY <1>1, <1>3, <2>1, RowFrame DEF OutcomeTask, FinalizersFrame, SameStatus, SetsStatus
<1>4. ASSUME NEW c \in Completer,
             (\E u \in Upload : CompleteStart(c, u)) \/ CompleterStep(c) \/ CompleteDbError(c)
      PROVE  RowInv'
  <2>1. UNCHANGED parts
    BY <1>4, CompleterSummary DEF CompleterMoves
  <2>2. \/ SameStatus
        \/ completer[c].pc = "start" /\ SetsStatus(completer[c].u, "finalizing")
    BY <1>4, CompleterSummary
  <2>3. completer[c].pc = "start" => Known(completer[c].u)
    BY UnderWay
  <2> QED BY <1>1, <2>1, <2>2, <2>3, RowFrame DEF SameStatus, SetsStatus
<1> QED BY <1>2, <1>3, <1>4, FinalizerSummary

LEMMA IngestRows ==
  ASSUME TypeOK, StartInv, RowInv, IngestNext, UNCHANGED <<finalizerVars, removalVars, crashes>>
  PROVE  RowInv'
<1> RepoTypeOK /\ client \in [Upload -> ClientState]
  BY DEF TypeOK, IngestTypeOK
<1>a. UNCHANGED <<canceller, cleaner, doomed>>
  BY DEF removalVars
<1> USE DEF RowInv, FreshInv, GoneInv, Fresh, Known, NoPartRows
<1>1. ASSUME NEW u \in Upload, InitCreate(u) PROVE RowInv'
  <2>1. /\ client[u] = "new" /\ client' = [client EXCEPT ![u] = "creating"]
        /\ UNCHANGED parts /\ SetsStatus(u, "pending") /\ SameLife
    BY <1>1, StatusOfStatement, LifeOfStatement DEF InitCreate, CreateUpload
  <2>2. FreshInv'
    BY <1>a, <2>1 DEF SetsStatus, SameLife
  <2>3. GoneInv'
    BY <1>a, <2>1 DEF SetsStatus
  <2> QED BY <2>2, <2>3
<1>2. ASSUME NEW u \in Upload, InitParts(u) \/ InitPartsError(u) PROVE RowInv'
  <2>1. /\ client[u] = "creating" /\ UNCHANGED uploads
        /\ client' = [client EXCEPT ![u] = client'[u]] /\ client'[u] \in {"known", "lost"}
        /\ \A v \in Upload \ {u} : parts'[v] = parts[v]
    BY <1>2 DEF InitParts, InitPartsError, CreateParts, RepoTypeOK
  <2>2. client'[u] = "known" => \A p \in Part : parts'[u][p] # "norow"
    BY <1>2, PartsAssumption DEF InitParts, InitPartsError, CreateParts, RepoTypeOK, Part
  <2>3. u \notin doomed /\ uploads[u].status = "pending"
    BY <2>1
  <2>4. FreshInv'
    BY <1>a, <2>1
  <2>5. GoneInv'
    <3>1. \A d \in Canceller : canceller[d].pc # "idle" => canceller[d].u # u
      BY <2>3
    <3>2. cleaner.pc \in {"rows", "row"} => cleaner.u # u
      BY <2>3
    <3>3. \A d \in Canceller : canceller[d].pc = "row" => NoPartRows(canceller[d].u)'
      BY <1>a, <2>1, <3>1 DEF TypeOK, RemovalTypeOK
    <3>4. cleaner.pc = "row" => NoPartRows(cleaner.u)'
      BY <1>a, <2>1, <3>2 DEF TypeOK, RemovalTypeOK
    <3>5. \A v \in Upload : uploads[v].status = "deleted" => v \in doomed /\ NoPartRows(v)'
      BY <2>1, <2>3
    <3>6. \A v \in Upload : client'[v] = "known" /\ v \notin doomed =>
             \A p \in Part : parts'[v][p] # "norow"
      BY <2>1, <2>2
    <3> QED BY <1>a, <2>1, <3>3, <3>4, <3>5, <3>6
  <2> QED BY <2>4, <2>5
<1>3. ASSUME NEW w \in Writer, PutMark(w) PROVE RowInv'
  <2>1. /\ put[w].u \in Upload /\ put[w].p \in Part /\ put[w].body \in Content
        /\ UpdatePartStatus(put[w].u, put[w].p, put[w].body)
        /\ UNCHANGED <<uploads, client>>
    BY <1>3 DEF PutMark, UpdatePartStatus, TypeOK, IngestTypeOK
  <2>2. \A v \in Upload, p \in Part : parts'[v][p] = "norow" <=> parts[v][p] = "norow"
    BY <2>1, ValuesAssumption DEF UpdatePartStatus, RepoTypeOK
  <2>3. FreshInv'
    BY <1>a, <2>1, <2>2
  <2>4. GoneInv'
    <3>1. \A v \in Upload : NoPartRows(v)' <=> NoPartRows(v)
      BY <2>2
    <3>2. \A d \in Canceller : canceller[d].pc = "row" => NoPartRows(canceller[d].u)'
      BY <1>a, <2>2 DEF TypeOK, RemovalTypeOK
    <3>3. cleaner.pc = "row" => NoPartRows(cleaner.u)'
      BY <1>a, <2>2 DEF TypeOK, RemovalTypeOK
    <3> QED BY <1>a, <2>1, <2>2, <3>1, <3>2, <3>3
  <2> QED BY <2>3, <2>4
<1>4. CASE UNCHANGED <<client, repoVars>>
  BY <1>a, <1>4, RowFrame DEF repoVars, removalVars, SameLife
<1> QED
  BY <1>1, <1>2, <1>3, <1>4
     DEF IngestNext, PutStart, PutStep, PutMkdir, PutCreate, PutWrite, PutIoError, PutDbError,
         PutAbort, LateStep, LateMkdir, LateCreate, LateWrite, ingestVars

\* Deleting the part rows of a doomed upload.
LEMMA PartRowsGone ==
  ASSUME TypeOK, RowInv, UNCHANGED client, NEW u \in doomed, DeletePartRows(u), UNCHANGED doomed
  PROVE  /\ NoPartRows(u)'
         /\ \A v \in Upload : NoPartRows(v) => NoPartRows(v)'
         /\ FreshInv'
         /\ \A v \in Upload : uploads'[v].status = "deleted" => v \in doomed' /\ NoPartRows(v)'
         /\ \A v \in Upload : Known(v)' /\ v \notin doomed' => \A p \in Part : parts'[v][p] # "norow"
<1>1. u \in Upload /\ RepoTypeOK
  BY DEF TypeOK, RemovalTypeOK
<1>2. NoPartRows(u)' /\ UNCHANGED uploads /\ \A v \in Upload \ {u} : parts'[v] = parts[v]
  BY <1>1 DEF DeletePartRows, RepoTypeOK, NoPartRows
<1>3. \A v \in Upload : NoPartRows(v) => NoPartRows(v)'
  BY <1>2 DEF NoPartRows
<1> QED BY <1>1, <1>2, <1>3 DEF RowInv, FreshInv, GoneInv, Fresh, Known

\* Deleting the row of a doomed upload without part rows.
LEMMA RowGone ==
  ASSUME TypeOK, RowInv, UNCHANGED client, NEW u \in doomed, DeleteUploadRow(u), NoPartRows(u),
         UNCHANGED doomed
  PROVE  /\ \A v \in Upload : NoPartRows(v) => NoPartRows(v)'
         /\ FreshInv'
         /\ \A v \in Upload : uploads'[v].status = "deleted" => v \in doomed' /\ NoPartRows(v)'
         /\ \A v \in Upload : Known(v)' /\ v \notin doomed' => \A p \in Part : parts'[v][p] # "norow"
<1>1. u \in Upload /\ RepoTypeOK
  BY DEF TypeOK, RemovalTypeOK
<1>2. SetsStatus(u, "deleted") /\ SameLife /\ UNCHANGED parts
  BY <1>1, StatusOfStatement, LifeOfStatement DEF DeleteUploadRow
<1>3. \A v \in Upload : NoPartRows(v) => NoPartRows(v)'
  BY <1>2 DEF NoPartRows
<1>4. ~Fresh(u)
  BY <1>1 DEF RowInv, FreshInv
<1> QED BY <1>1, <1>2, <1>3, <1>4 DEF RowInv, FreshInv, GoneInv, Fresh, Known, SetsStatus, SameLife

\* Steps of a removal that do not touch the tables.
LEMMA RemovalRowsFrame ==
  ASSUME RowInv, UNCHANGED <<client, repoVars>>, doomed \subseteq doomed',
         \A u \in Upload : Fresh(u) => u \notin doomed'
  PROVE  /\ FreshInv'
         /\ \A v \in Upload : uploads'[v].status = "deleted" => v \in doomed' /\ NoPartRows(v)'
         /\ \A v \in Upload : Known(v)' /\ v \notin doomed' => \A p \in Part : parts'[v][p] # "norow"
  BY DEF RowInv, FreshInv, GoneInv, Fresh, Known, NoPartRows, repoVars

\* What GoneInv says of the upload of a removal that is under way.
Removes(pc, u) == /\ u \in doomed
                  /\ pc = "row" => NoPartRows(u)

LEMMA CancelRowsKept ==
  ASSUME TypeOK, RowInv, NEW d \in Canceller, UNCHANGED <<ingestVars, finalizerVars, crashes>>,
         \/ \E u \in Upload : CancelStart(d, u)
         \/ CancelStep(d) \/ CancelDbError(d) \/ CancelAbort(d)
  PROVE  RowInv'
<1> DEFINE u == canceller[d].u
<1>a. UNCHANGED <<client, cleaner>> /\ doomed \subseteq doomed'
  BY DEF ingestVars, CancelStart, CancelStep, CancelPurge, CancelUnlink, CancelRows, CancelRow,
         CancelDbError, CancelAbort
<1>b. /\ canceller \in [Canceller -> [pc : CancelPc, u : Upload \cup {None}]]
      /\ \A e \in Canceller : canceller[e].pc # "idle" => canceller[e].u \in Upload
      /\ cleaner.pc \in {"rows", "row"} => cleaner.u \in Upload
  BY DEF TypeOK, RemovalTypeOK
<1>c. \A e \in Canceller : canceller[e].pc # "idle" => Removes(canceller[e].pc, canceller[e].u)
  BY DEF RowInv, GoneInv, Removes
<1> DEFINE Kept ==
        /\ \A e \in Canceller \ {d} : canceller'[e] = canceller[e]
        /\ canceller'[d].pc # "idle" =>
              canceller'[d].u \in doomed' /\ (canceller'[d].pc = "row" => NoPartRows(canceller[d].u)')
        /\ \A v \in Upload : NoPartRows(v) => NoPartRows(v)'
        /\ FreshInv'
        /\ \A v \in Upload : uploads'[v].status = "deleted" => v \in doomed' /\ NoPartRows(v)'
        /\ \A v \in Upload : Known(v)' /\ v \notin doomed' => \A p \in Part : parts'[v][p] # "norow"
<1>1. SUFFICES Kept
  <2>1. ASSUME NEW e \in Canceller, canceller'[e].pc # "idle"
        PROVE  canceller'[e].u \in doomed' /\ (canceller'[e].pc = "row" => NoPartRows(canceller[e].u)')
    BY <1>1, <1>a, <1>b, <1>c, <2>1 DEF Removes
  <2>2. cleaner'.pc = "row" => NoPartRows(cleaner.u)'
    <3>1. cleaner.pc = "row" => NoPartRows(cleaner.u) /\ cleaner.u \in Upload
      BY <1>b DEF RowInv, GoneInv
    <3>2. cleaner' = cleaner
      BY <1>a
    <3>3. cleaner.pc = "row" => \A p \in Part : parts'[cleaner.u][p] = "norow"
      BY <1>1, <3>1 DEF NoPartRows
    <3> QED BY <3>2, <3>3 DEF NoPartRows
  <2>3. /\ cleaner'.todo \subseteq doomed'
        /\ cleaner'.pc \in {"rows", "row"} => cleaner'.u \in doomed'
    BY <1>a DEF RowInv, GoneInv
  <2> QED BY <1>1, <2>1, <2>2, <2>3 DEF RowInv, GoneInv
<1>2. ASSUME NEW v \in Upload, CancelStart(d, v) PROVE Kept
  <2>1. /\ UNCHANGED repoVars /\ doomed' = doomed \cup {v} /\ client[v] = "known"
        /\ \A e \in Canceller \ {d} : canceller'[e] = canceller[e]
        /\ canceller'[d].u = v /\ canceller'[d].pc \in {"purge", "unlink", "rows"}
    BY <1>2, <1>b DEF CancelStart
  <2>2. \A w \in Upload : Fresh(w) => w \notin doomed'
    BY <2>1 DEF RowInv, FreshInv, Fresh
  <2>3. \A w \in Upload : NoPartRows(w) => NoPartRows(w)'
    BY <2>1 DEF NoPartRows, repoVars
  <2> QED BY <1>a, <2>1, <2>2, <2>3, RemovalRowsFrame
<1>3. CASE UNCHANGED <<doomed, repoVars>> /\ (CancelReturn(d) \/ CancelGoto(d, "rows"))
           /\ canceller[d].pc # "idle"
  <2>1. /\ \A e \in Canceller \ {d} : canceller'[e] = canceller[e]
        /\ canceller'[d].pc # "idle" => canceller'[d].pc = "rows" /\ canceller'[d].u = u
    BY <1>3, <1>b DEF CancelReturn, CancelGoto, NoCancel
  <2>2. \A w \in Upload : Fresh(w) => w \notin doomed'
    BY <1>3 DEF RowInv, FreshInv
  <2>3. \A w \in Upload : NoPartRows(w) => NoPartRows(w)'
    BY <1>3 DEF NoPartRows, repoVars
  <2> QED BY <1>3, <1>a, <1>c, <2>1, <2>2, <2>3, RemovalRowsFrame DEF Removes
<1>4. CASE CancelRows(d)
  <2>1. /\ DeletePartRows(u) /\ UNCHANGED doomed /\ canceller[d].pc = "rows"
        /\ \A e \in Canceller \ {d} : canceller'[e] = canceller[e]
        /\ canceller'[d].pc = "row" /\ canceller'[d].u = u
    BY <1>4, <1>b DEF CancelRows, CancelGoto
  <2>2. u \in doomed
    BY <1>c, <2>1 DEF Removes
  <2>3. NoPartRows(u)'
    BY <1>a, <2>1, <2>2, PartRowsGone
  <2>4. NoPartRows(canceller[d].u)'
    BY <2>1, <2>3 DEF NoPartRows
  <2> QED BY <1>a, <2>1, <2>2, <2>4, PartRowsGone
<1>5. CASE CancelRow(d)
  <2>1. /\ DeleteUploadRow(u) /\ UNCHANGED doomed /\ canceller[d].pc = "row"
        /\ \A e \in Canceller \ {d} : canceller'[e] = canceller[e]
        /\ canceller'[d].pc = "idle"
    BY <1>5, <1>b DEF CancelRow, CancelReturn, NoCancel
  <2>2. u \in doomed /\ NoPartRows(u)
    BY <1>c, <2>1 DEF Removes
  <2> QED BY <1>a, <2>1, <2>2, RowGone
<1> QED
  BY <1>2, <1>3, <1>4, <1>5
     DEF CancelStep, CancelPurge, CancelUnlink, CancelDbError, CancelAbort

LEMMA CleanRowsKept ==
  ASSUME TypeOK, RowInv, UNCHANGED <<ingestVars, finalizerVars, crashes>>,
         CleanStep \/ CleanDbError
  PROVE  RowInv'
<1> DEFINE u == cleaner.u
<1>a. UNCHANGED <<client, canceller>> /\ doomed \subseteq doomed'
  BY DEF ingestVars, CleanStep, CleanList, CleanPurge, CleanRows, CleanRow, CleanDbError
<1>b. /\ cleaner \in [pc : CleanerPc, u : Upload \cup {None}, todo : SUBSET Upload]
      /\ cleaner.pc \in {"rows", "row"} => cleaner.u \in Upload
      /\ \A e \in Canceller : canceller[e].pc # "idle" => canceller[e].u \in Upload
  BY DEF TypeOK, RemovalTypeOK
<1>c. /\ cleaner.todo \subseteq doomed
      /\ cleaner.pc \in {"rows", "row"} => u \in doomed
      /\ cleaner.pc = "row" => NoPartRows(u)
      /\ \A e \in Canceller : canceller[e].pc # "idle" => Removes(canceller[e].pc, canceller[e].u)
  BY DEF RowInv, GoneInv, Removes
<1> DEFINE Kept ==
        /\ cleaner'.todo \subseteq doomed'
        /\ cleaner'.pc \in {"rows", "row"} => cleaner'.u \in doomed'
        /\ cleaner'.pc = "row" => NoPartRows(cleaner.u)'
        /\ \A v \in Upload : NoPartRows(v) => NoPartRows(v)'
        /\ FreshInv'
        /\ \A v \in Upload : uploads'[v].status = "deleted" => v \in doomed' /\ NoPartRows(v)'
        /\ \A v \in Upload : Known(v)' /\ v \notin doomed' => \A p \in Part : parts'[v][p] # "norow"
<1>1. SUFFICES Kept
  <2>1. ASSUME NEW e \in Canceller, canceller'[e].pc # "idle"
        PROVE  canceller'[e].u \in doomed' /\ (canceller'[e].pc = "row" => NoPartRows(canceller[e].u)')
    <3>1. canceller[e] = canceller'[e] /\ Removes(canceller[e].pc, canceller[e].u)
          /\ canceller[e].u \in Upload
      BY <1>a, <1>b, <1>c, <2>1
    <3>2. canceller[e].pc = "row" => \A p \in Part : parts'[canceller[e].u][p] = "norow"
      BY <1>1, <3>1 DEF Removes, NoPartRows
    <3> QED BY <1>a, <3>1, <3>2 DEF Removes, NoPartRows
  <2> QED BY <1>1, <2>1 DEF RowInv, GoneInv
<1>2. CASE CleanList
  <2>1. /\ UNCHANGED repoVars /\ doomed' = doomed \cup ExpiredPendingUploads
        /\ cleaner'.todo = ExpiredPendingUploads /\ cleaner'.pc = "purge"
    BY <1>2, <1>b DEF CleanList
  <2>2. \A w \in Upload : Fresh(w) => w \notin doomed'
    BY <2>1 DEF RowInv, FreshInv, ExpiredPendingUploads
  <2>3. \A w \in Upload : NoPartRows(w) => NoPartRows(w)'
    BY <2>1 DEF NoPartRows, repoVars
  <2> QED BY <1>a, <2>1, <2>2, <2>3, RemovalRowsFrame
<1>3. CASE CleanPurge \/ CleanDbError
  <2>1. UNCHANGED <<doomed, repoVars>>
    BY <1>3 DEF CleanPurge, CleanDbError
  <2>2. /\ cleaner'.todo \subseteq cleaner.todo
        /\ cleaner'.pc \in {"purge", "idle"} \/ (cleaner'.pc = "rows" /\ cleaner'.u \in cleaner.todo)
    <3>1. CASE CleanPurge
      BY <3>1 DEF CleanPurge
    <3>2. CASE CleanDbError
      BY <1>b, <3>2 DEF CleanDbError, CleanNext, Sleeping
    <3> QED BY <1>3, <3>1, <3>2
  <2>3. \A w \in Upload : Fresh(w) => w \notin doomed'
    BY <2>1 DEF RowInv, FreshInv
  <2>4. \A w \in Upload : NoPartRows(w) => NoPartRows(w)'
    BY <2>1 DEF NoPartRows, repoVars
  <2> QED BY <1>a, <1>c, <2>1, <2>2, <2>3, <2>4, RemovalRowsFrame
<1>4. CASE CleanRows
  <2>1. /\ DeletePartRows(u) /\ UNCHANGED doomed /\ cleaner.pc = "rows"
        /\ cleaner'.pc = "row" /\ cleaner'.u = u /\ cleaner'.todo = cleaner.todo
    BY <1>4, <1>b DEF CleanRows
  <2>2. u \in doomed
    BY <1>c, <2>1
  <2>3. NoPartRows(u)'
    BY <1>a, <2>1, <2>2, PartRowsGone
  <2>4. NoPartRows(cleaner.u)'
    BY <2>1, <2>3 DEF NoPartRows
  <2> QED BY <1>a, <1>c, <2>1, <2>2, <2>4, PartRowsGone
<1>5. CASE CleanRow
  <2>1. /\ DeleteUploadRow(u) /\ UNCHANGED doomed /\ cleaner.pc = "row"
        /\ cleaner'.pc \in {"purge", "idle"} /\ cleaner'.todo \subseteq cleaner.todo
    BY <1>5, <1>b DEF CleanRow, CleanNext, Sleeping
  <2>2. u \in doomed /\ NoPartRows(u)
    BY <1>c, <2>1
  <2> QED BY <1>a, <1>c, <2>1, <2>2, RowGone
<1> QED BY <1>2, <1>3, <1>4, <1>5 DEF CleanStep

LEMMA RowInvNext == TypeOK /\ StartInv /\ RowInv /\ [Next]_vars => RowInv'
<1> SUFFICES ASSUME TypeOK, StartInv, RowInv, [Next]_vars PROVE RowInv'
  OBVIOUS
<1>1. CASE IngestNext /\ UNCHANGED <<finalizerVars, removalVars, crashes>>
  BY <1>1, IngestRows
<1>2. CASE FinalizerNext /\ UNCHANGED <<ingestVars, removalVars, crashes>>
  BY <1>2, FinalizerRows
<1>3. CASE RemovalNext /\ UNCHANGED <<ingestVars, finalizerVars, crashes>>
  BY <1>3, CancelRowsKept, CleanRowsKept DEF RemovalNext
<1>4. ASSUME NEW u \in Upload, Expire(u) PROVE RowInv'
  <2>1. /\ UNCHANGED <<client, parts, canceller, cleaner, doomed>> /\ SameStatus
        /\ \A v \in Upload \ {u} : uploads'[v] = uploads[v]
    BY <1>4, RowQuiet DEF Expire, QuietRow, ingestVars, removalVars, TypeOK, RepoTypeOK
  <2>2. ~Fresh(u)
    BY <1>4 DEF Expire, Fresh, RowInv, FreshInv, RowExists, InRow
  <2>3. FreshInv'
    BY <2>1, <2>2 DEF RowInv, FreshInv, Fresh, NoPartRows, SameStatus
  <2>4. GoneInv'
    BY <2>1 DEF RowInv, GoneInv, Known, NoPartRows, SameStatus
  <2> QED BY <2>3, <2>4 DEF RowInv
<1>5. CASE CrashRestart
  <2>1. /\ UNCHANGED <<parts, doomed>> /\ SameStatus
        /\ client' = [v \in Upload |-> IF client[v] = "creating" THEN "lost" ELSE client[v]]
        /\ canceller' = [d \in Canceller |-> NoCancel] /\ cleaner' = Sleeping
    BY <1>5, CrashSummary DEF CrashRestart
  <2>2. SameLife
    <3>1. PICK again \in SUBSET FinalizingUploads :
             uploads' = [v \in Upload |-> IF v \in again
                                         THEN [uploads[v] EXCEPT !.progress = 0, !.stale = FALSE]
                                         ELSE uploads[v]]
      BY <1>5 DEF CrashRestart
    <3>2. \A v \in Upload : [uploads[v] EXCEPT !.progress = 0, !.stale = FALSE].life
                              = uploads[v].life
      BY LifeOfRow DEF TypeOK, RepoTypeOK
    <3> QED BY <3>1, <3>2 DEF SameLife
  <2>3. FreshInv'
    BY <2>1, <2>2 DEF RowInv, FreshInv, Fresh, NoPartRows, SameStatus, SameLife
  <2>4. GoneInv'
    BY <2>1 DEF RowInv, GoneInv, Known, NoPartRows, SameStatus, NoCancel, Sleeping
  <2> QED BY <2>3, <2>4 DEF RowInv
<1>6. CASE UNCHANGED vars
  BY <1>6, RowFrame DEF vars, ingestVars, repoVars, SameLife
<1> QED BY <1>1, <1>2, <1>3, <1>4, <1>5, <1>6 DEF Next

-----------------------------------------------------------------------------
\* TaskInv and TellInv.  What a step does to one upload's tasks.

\* The webhook is the only step that counts it.
LEMMA NotifiedKept ==
  ASSUME [Next]_vars
  PROVE  \/ UNCHANGED notified
         \/ \E t \in Task : TaskNotify(t) /\ UNCHANGED <<ingestVars, removalVars, crashes>>
<1>1. CASE FinalizerNext /\ UNCHANGED <<ingestVars, removalVars, crashes>>
  BY <1>1 DEF FinalizerNext, CompleteStart, CompleterStep, CompleteRestart, CompleteCount,
              CompleteTryStart, CompleteDbError, TaskBegin, TaskStep, TaskCheck, TaskUnlink,
              TaskCreate, TaskAppend, TaskRename, TaskPurge, TaskMarkComplete, TaskMarkFailed,
              TaskFault, TaskBeginDbError, TaskCheckDbError, TaskIoError, TaskMarkDbError,
              Heartbeat, LateBeat, GoStale, finalizerVars
<1> QED BY <1>1 DEF Next, Expire, CrashRestart, finalizerVars, vars

\* Nobody gets the upload u, and its status stays or becomes deleted.
LEMMA TellsFrame ==
  ASSUME NEW u \in Upload, Tells(u), UNCHANGED notified,
         \A t \in Task : Busy(t, u)' => Busy(t, u) /\ (Working(t)' <=> Working(t)),
         uploads'[u].status \in {uploads[u].status, "deleted"}
  PROVE  Tells(u)'
<1>1. \A s, t \in Task : Busy(s, u)' /\ Busy(t, u)' => s = t
  BY DEF Tells
<1>2. ASSUME NEW t \in Task, Busy(t, u)'
      PROVE  /\ notified'[u] = 0
             /\ uploads'[u].status \in {IF Working(t)' THEN "finalizing" ELSE "complete", "deleted"}
  BY <1>2 DEF Tells
<1>3. notified'[u] # 0 => notified'[u] = 1 /\ uploads'[u].status \in {"complete", "deleted"}
  BY DEF Tells
<1> QED BY <1>1, <1>2, <1>3 DEF Tells

LEMMA SpawnTells ==
  ASSUME NEW u \in Upload, Tells(u), UNCHANGED notified, NEW t \in Task, Spawned(t, u),
         uploads[u].status \in {"pending", "finalizing", "failed"},
         ~\E s \in Task : Working(s) /\ Busy(s, u),
         uploads'[u].status = "finalizing"
  PROVE  Tells(u)'
<1>1. \A s \in Task : ~Busy(s, u)
  BY DEF Tells
<1>2. notified'[u] = 0
  BY DEF Tells
<1>3. \A s \in Task : Busy(s, u)' => s = t
  BY <1>1 DEF Spawned, Busy
<1>4. Working(t)'
  BY DEF Spawned, Working
<1> QED BY <1>2, <1>3, <1>4 DEF Tells

LEMMA IngestTells ==
  ASSUME TypeOK, StartInv, RowInv, TaskInv, TellInv, IngestNext,
         UNCHANGED <<finalizerVars, removalVars, crashes>>
  PROVE  TaskInv' /\ TellInv'
<1>a. UNCHANGED <<task, contested, notified>>
  BY DEF finalizerVars
<1>1. ASSUME NEW v \in Upload, InitCreate(v) PROVE TaskInv' /\ TellInv'
  <2>1. SetsStatus(v, "pending") /\ client[v] = "new" /\ uploads[v].status = "none"
    BY <1>1, StatusOfStatement DEF InitCreate, TypeOK, RowInv, FreshInv
  <2>2. \A t \in Task : task[t].pc # "idle" => task[t].u \in Upload /\ task[t].u # v
    BY <2>1, UnderWay DEF Known
  <2>3. TaskInv'
    BY <1>a, <2>1, <2>2 DEF TaskInv, SetsStatus
  <2>4. ASSUME NEW u \in Upload, ~contested'[u] PROVE Tells(u)'
    <3>1. Tells(u)
      BY <1>a, <2>4 DEF TellInv
    <3>2. CASE u = v
      <4>1. notified[u] = 0
        BY <2>1, <3>1, <3>2 DEF Tells
      <4> QED BY <1>a, <2>2, <3>2, <4>1 DEF Tells, Busy
    <3>3. CASE u # v
      BY <1>a, <2>1, <3>1, <3>3, TellsFrame DEF SetsStatus, Busy, Working
    <3> QED BY <3>2, <3>3
  <2> QED BY <2>3, <2>4 DEF TellInv
<1>2. CASE UNCHANGED uploads
  BY <1>a, <1>2 DEF TaskInv, TellInv, Tells, Busy, Working
<1> QED
  BY <1>1, <1>2
     DEF IngestNext, InitParts, InitPartsError, CreateParts, PutStart, PutStep, PutMkdir,
         PutCreate, PutWrite, PutMark, UpdatePartStatus, PutIoError, PutDbError, PutAbort,
         LateStep, LateMkdir, LateCreate, LateWrite, ingestVars, repoVars

LEMMA TaskCases ==
  ASSUME TaskTypeOK, NEW t \in Task
  PROVE  task[t].pc \in {"idle", "notify"} \/ Working(t)
  BY DEF TaskTypeOK, TaskState, TaskPc, Working

LEMMA QuietTells ==
  ASSUME TypeOK, TaskTypeOK', TaskInv, TellInv, UNCHANGED notified, NEW t \in Task, QuietTask(t)
  PROVE  TaskInv' /\ TellInv'
<1>1. \A s \in Task : task'[s].pc # "idle" => task[s].pc # "idle" /\ task'[s].u = task[s].u
  BY DEF QuietTask
<1>2. TaskInv'
  <2>1. \A s \in Task : task[s].pc # "idle" => task[s].u \in Upload
    BY DEF TypeOK, FinalizerTypeOK, TaskTypeOK
  <2> QED BY <1>1, <2>1 DEF TaskInv, QuietTask, SameStatus
<1>3. task'[t].pc # "idle" => Working(t)' /\ Working(t)
  <2>1. task'[t].pc \in TaskPc /\ task'[t].pc # "notify"
    BY DEF TaskTypeOK, TaskState, QuietTask
  <2>2. task'[t].pc # "idle" => Working(t)'
    BY <2>1 DEF TaskPc, Working
  <2> QED BY <2>2 DEF QuietTask, Working
<1>4. ASSUME NEW u \in Upload, ~contested'[u] PROVE Tells(u)'
  <2>1. Tells(u)
    BY <1>4 DEF TellInv, QuietTask, FinalizersFrame
  <2>2. \A s \in Task : Busy(s, u)' => Busy(s, u) /\ (Working(s)' <=> Working(s))
    BY <1>1, <1>3 DEF Busy, QuietTask, Working
  <2> QED BY <2>1, <2>2, TellsFrame DEF QuietTask, SameStatus
<1> QED BY <1>2, <1>4 DEF TellInv

LEMMA OutcomeTells ==
  ASSUME TypeOK, TaskInv, TellInv, UNCHANGED notified, NEW t \in Task, OutcomeTask(t)
  PROVE  TaskInv' /\ TellInv'
<1> DEFINE v == task[t].u
<1>1. v \in Upload /\ task[t].pc # "idle" /\ Working(t) /\ ~Working(t)'
  BY DEF OutcomeTask, Working, Running, Storing, TypeOK, FinalizerTypeOK, TaskTypeOK
<1>2. /\ \A s \in Task \ {t} : task'[s] = task[s]
      /\ task'[t].pc # "idle" => task'[t].u = v
  BY DEF OutcomeTask
<1>3. \A u \in Upload : \/ uploads'[u].status = uploads[u].status
                        \/ u = v /\ uploads'[u].status \in {"complete", "failed"}
  BY DEF OutcomeTask, SameStatus, SetsStatus
<1>4. TaskInv'
  <2>1. \A s \in Task : task[s].pc # "idle" => task[s].u \in Upload
    BY DEF TypeOK, FinalizerTypeOK, TaskTypeOK
  <2> QED BY <1>1, <1>2, <1>3, <2>1 DEF TaskInv
<1>5. ASSUME NEW u \in Upload, ~contested'[u] PROVE Tells(u)'
  <2>1. Tells(u)
    BY <1>5 DEF TellInv, OutcomeTask, FinalizersFrame
  <2>2. CASE u # v
    <3>1. \A s \in Task : Busy(s, u)' => Busy(s, u) /\ (Working(s)' <=> Working(s))
      BY <1>2, <2>2 DEF Busy, Working
    <3> QED BY <1>3, <2>1, <2>2, <3>1, TellsFrame
  <2>3. CASE u = v
    <3>1. /\ notified[u] = 0 /\ uploads[u].status \in {"finalizing", "deleted"}
          /\ \A s \in Task : Busy(s, u) => s = t
      BY <1>1, <2>1, <2>3 DEF Tells, Busy
    <3>2. \A s \in Task : Busy(s, u)' => s = t
      BY <1>2, <3>1 DEF Busy
    <3>3. task'[t].pc # "idle" => uploads'[u].status \in {"complete", "deleted"}
      BY <2>3, <3>1 DEF OutcomeTask, SameStatus, SetsStatus, RowExists, InRow
    <3> QED BY <1>1, <3>1, <3>2, <3>3 DEF Tells, Busy
  <2> QED BY <2>2, <2>3
<1> QED BY <1>4, <1>5 DEF TellInv

LEMMA NotifyTells ==
  ASSUME TypeOK, TaskInv, TellInv, NEW t \in Task, TaskNotify(t)
  PROVE  TaskInv' /\ TellInv'
<1> DEFINE v == task[t].u
<1>1. /\ v \in Upload /\ task[t].pc = "notify" /\ ~Working(t)
      /\ \A s \in Task \ {t} : task'[s] = task[s]
      /\ task'[t].pc = "idle"
      /\ UNCHANGED <<uploads, contested>>
  BY TaskMoves DEF TaskNotify, Working, Running, Storing, TypeOK, FinalizerTypeOK, TaskTypeOK,
                   repoVars
<1>2. notified' = [notified EXCEPT ![v] = IF @ < 2 THEN @ + 1 ELSE 2]
      /\ notified \in [Upload -> 0 .. 2]
  BY DEF TaskNotify, TypeOK, FinalizerTypeOK
<1>3. TaskInv'
  BY <1>1 DEF TaskInv
<1>4. ASSUME NEW u \in Upload, ~contested'[u] PROVE Tells(u)'
  <2>1. Tells(u)
    BY <1>1, <1>4 DEF TellInv
  <2>2. \A s \in Task : Busy(s, u)' => s # t /\ Busy(s, u) /\ (Working(s)' <=> Working(s))
    BY <1>1 DEF Busy, Working
  <2>3. CASE u # v
    <3>1. notified'[u] = notified[u]
      BY <1>2, <2>3
    <3> QED BY <1>1, <2>1, <2>2, <3>1 DEF Tells
  <2>4. CASE u = v
    <3>1. /\ Busy(t, u) /\ notified[u] = 0 /\ uploads[u].status \in {"complete", "deleted"}
          /\ \A s \in Task : Busy(s, u) => s = t
      BY <1>1, <2>1, <2>4 DEF Tells, Busy
    <3>2. notified'[u] = 1
      BY <1>2, <2>4, <3>1
    <3>3. \A s \in Task : ~Busy(s, u)'
      BY <2>2, <3>1
    <3> QED BY <1>1, <3>1, <3>2, <3>3 DEF Tells
  <2> QED BY <2>3, <2>4
<1> QED BY <1>3, <1>4 DEF TellInv

LEMMA CompleterTells ==
  ASSUME TypeOK, TaskInv, TellInv, UNCHANGED notified, NEW c \in Completer,
         UNCHANGED <<ingestVars, removalVars, crashes>>,
         (\E u \in Upload : CompleteStart(c, u)) \/ CompleterStep(c) \/ CompleteDbError(c)
  PROVE  TaskInv' /\ TellInv'
<1> DEFINE v == completer[c].u
<1>a. completer[c].pc # "idle" => v \in Upload
  BY DEF TypeOK, FinalizerTypeOK, CompleterTypeOK
<1>b. contested \in [Upload -> BOOLEAN]
  BY DEF TypeOK, FinalizerTypeOK
<1>c. \A t \in Task : task[t].pc # "idle" => task[t].u \in Upload
  BY DEF TypeOK, FinalizerTypeOK, TaskTypeOK
<1>1. CASE SameStatus /\ UNCHANGED <<task, contested>>
  BY <1>1, <1>c DEF TaskInv, TellInv, Tells, Busy, Working, SameStatus
<1>2. ASSUME NEW t \in Task, Spawned(t, v), v \in Upload, uploads'[v].status = "finalizing",
             uploads[v].status \in {"pending", "finalizing", "failed"},
             \A u \in Upload \ {v} : uploads'[u].status = uploads[u].status
                                     /\ contested'[u] = contested[u],
             ~contested'[v] => ~contested[v] /\ ~\E s \in Task : Working(s) /\ Busy(s, v)
      PROVE  TaskInv' /\ TellInv'
  <2>1. TaskInv'
    BY <1>2, <1>c DEF TaskInv, Spawned
  <2>2. ASSUME NEW u \in Upload, ~contested'[u] PROVE Tells(u)'
    <3>1. Tells(u)
      BY <1>2, <2>2 DEF TellInv
    <3>2. CASE u = v
      BY <1>2, <2>2, <3>1, <3>2, SpawnTells
    <3>3. CASE u # v
      <4>1. \A s \in Task : Busy(s, u)' => Busy(s, u) /\ (Working(s)' <=> Working(s))
        BY <1>2, <3>3 DEF Busy, Spawned, Working
      <4> QED BY <1>2, <3>1, <3>3, <4>1, TellsFrame
    <3> QED BY <3>2, <3>3
  <2> QED BY <2>1, <2>2 DEF TellInv
<1>3. ASSUME completer[c].pc = "restart", uploads[v].status = "finalizing", SameStatus,
             contested' = [contested EXCEPT ![v] = @ \/ FinalizersOf(v) # {}],
             NEW t \in Task, Spawned(t, v)
      PROVE  TaskInv' /\ TellInv'
  <2>1. ~contested'[v] => ~contested[v] /\ FinalizersOf(v) = {}
    BY <1>a, <1>b, <1>3
  <2>2. FinalizersOf(v) = {} => ~\E s \in Task : Working(s) /\ Busy(s, v)
    BY DEF FinalizersOf, Working, Busy
  <2>3. \A u \in Upload \ {v} : contested'[u] = contested[u]
    BY <1>b, <1>3
  <2> QED BY <1>2, <1>3, <1>a, <2>1, <2>2, <2>3 DEF SameStatus
<1>4. ASSUME completer[c].pc = "start", uploads[v].status \in {"pending", "failed"},
             SetsStatus(v, "finalizing"), UNCHANGED contested,
             NEW t \in Task, Spawned(t, v)
      PROVE  TaskInv' /\ TellInv'
  <2>1. ~contested[v] => ~\E s \in Task : Working(s) /\ Busy(s, v)
    BY <1>a, <1>4 DEF TellInv, Tells
  <2> QED BY <1>2, <1>4, <1>a, <2>1 DEF SetsStatus
<1> QED BY <1>1, <1>3, <1>4, CompleterSummary

LEMMA TellInvNext ==
  TypeOK /\ StartInv /\ RowInv /\ TaskInv /\ TellInv /\ [Next]_vars => TaskInv' /\ TellInv'
<1> SUFFICES ASSUME TypeOK, StartInv, RowInv, TaskInv, TellInv, [Next]_vars
             PROVE  TaskInv' /\ TellInv'
  OBVIOUS
<1>a. \A t \in Task : task[t].pc # "idle" => task[t].u \in Upload
  BY DEF TypeOK, FinalizerTypeOK, TaskTypeOK
<1>1. CASE IngestNext /\ UNCHANGED <<finalizerVars, removalVars, crashes>>
  BY <1>1, IngestTells
<1>2. CASE FinalizerNext /\ UNCHANGED <<ingestVars, removalVars, crashes>>
  <2>1. CASE \E t \in Task : TaskNotify(t)
    BY <2>1, NotifyTells
  <2>2. CASE UNCHANGED notified
    <3>1. CASE QuietRow
      BY <1>a, <2>2, <3>1 DEF QuietRow, FinalizersFrame, SameStatus, TaskInv, TellInv, Tells,
                              Busy, Working
    <3>2. TaskTypeOK'
      BY NextTyped DEF TypeOK, FinalizerTypeOK
    <3> QED BY <1>2, <2>2, <3>1, <3>2, FinalizerSummary, QuietTells, OutcomeTells, CompleterTells
  <2> QED BY <2>1, <2>2, NotifiedKept
<1>3. CASE RemovalNext /\ UNCHANGED <<ingestVars, finalizerVars, crashes>>
  <2>1. /\ UNCHANGED <<task, contested, notified>>
        /\ \A u \in Upload : uploads'[u].status \in {uploads[u].status, "deleted"}
    BY <1>3, RemovalSummary DEF RemovalStep, SameStatus, SetsStatus, finalizerVars
  <2>2. TaskInv'
    BY <1>a, <2>1 DEF TaskInv
  <2>3. ASSUME NEW u \in Upload, Tells(u) PROVE Tells(u)'
    BY <2>1, <2>3, TellsFrame DEF Busy, Working
  <2> QED BY <2>1, <2>2, <2>3 DEF TellInv
<1>4. CASE (\E u \in Upload : Expire(u)) \/ UNCHANGED vars
  <2>1. QuietRow /\ UNCHANGED notified
    BY <1>4, RowQuiet DEF Expire, vars, finalizerVars
  <2> QED
    BY <1>a, <2>1 DEF QuietRow, FinalizersFrame, SameStatus, TaskInv, TellInv, Tells, Busy, Working
<1>5. CASE CrashRestart
  <2>1. UNCHANGED <<contested, notified>> /\ SameStatus
    BY <1>5, CrashSummary DEF CrashRestart
  <2>2. \A t \in Task : task'[t].pc # "idle" =>
           Working(t)' /\ task'[t].u \in Upload /\ uploads'[task'[t].u].status = "finalizing"
    BY <1>5, <2>1, CrashSummary DEF SameStatus, Working
  <2>3. TaskInv'
    BY <2>2 DEF TaskInv
  <2>4. ASSUME NEW u \in Upload, Tells(u) PROVE Tells(u)'
    <3>1. \A s, t \in Task : Busy(s, u)' /\ Busy(t, u)' => s = t
      BY <1>5, CrashSummary DEF Busy
    <3>2. ASSUME NEW t \in Task, Busy(t, u)'
          PROVE  Working(t)' /\ notified'[u] = 0 /\ uploads'[u].status = "finalizing"
      BY <2>1, <2>2, <2>4, <3>2 DEF Tells, Busy, SameStatus
    <3>3. notified'[u] # 0 => notified'[u] = 1 /\ uploads'[u].status \in {"complete", "deleted"}
      BY <2>1, <2>4 DEF Tells, SameStatus
    <3> QED BY <3>1, <3>2, <3>3 DEF Tells
  <2> QED BY <2>1, <2>3, <2>4 DEF TellInv
<1> QED BY <1>1, <1>2, <1>3, <1>4, <1>5 DEF Next

LEMMA ServerInvNext == ServerInv /\ [Next]_vars => ServerInv'
  BY NextTyped, StartInvNext, RowInvNext, TellInvNext DEF ServerInv

LEMMA ServerInvariant == Spec => []ServerInv
<1>1. Init => ServerInv
  BY InitTyped, StartInvInit, ServerInit DEF ServerInv
<1> QED BY <1>1, ServerInvNext, PTL DEF Spec

\* What the promises about finalization need of a server, whatever its backend.
LEMMA ServerPromises ==
  ServerInv => StartedOnlyWhenAllUploaded /\ SoleFinalizer /\ NotifiedOnce
<1> SUFFICES ASSUME ServerInv PROVE StartedOnlyWhenAllUploaded /\ SoleFinalizer /\ NotifiedOnce
  OBVIOUS
<1>1. StartedOnlyWhenAllUploaded
  BY DEF ServerInv, StartInv, StartedOnlyWhenAllUploaded, Started, Settled
<1>2. ASSUME NEW u \in Upload, ~contested[u] PROVE Tells(u)
  BY <1>2 DEF ServerInv, TellInv
<1>3. ASSUME NEW u \in Upload, ~contested[u] PROVE Sole(u)
  <2>1. \A t \in Task : Working(t) => task[t].pc # "idle"
    BY DEF Working, Running, Storing
  <2> QED BY <1>2, <1>3, <2>1 DEF Tells, Busy, Sole, HasTask, RowExists, InRow
<1>4. SoleFinalizer
  BY <1>3, SoleIff
<1>5. NotifiedOnce
  BY <1>2 DEF NotifiedOnce, Tells
<1> QED BY <1>1, <1>4, <1>5

LEMMA ServerKeepsComplete == ServerInv /\ [Next]_vars => KeepsComplete
  BY CompleteKept, ServerPromises DEF ServerInv

\* The webhook is sent at most once, of what is then complete or deleted,
\* unless a restart hit a live task: whatever fails, crashes or is cancelled.
THEOREM NotifiedOnceSafe == Spec => []NotifiedOnce
  BY ServerPromises, ServerInvariant, PTL

-----------------------------------------------------------------------------
\* The refinement.  Each kind of step maps to an action of UploadLifecycle.

SameReceived == \A v \in Upload : UploadedParts(v)' = UploadedParts(v)

AbstractStep == Lifecycle!Next \/ UNCHANGED Lifecycle!lifecycleVars

\* The values that the refinement mapping gives to the variables.
Phase    == [v \in Upload |-> uploads[v].status]
Received == [v \in Upload |-> UploadedParts(v)]

LEMMA PhaseBecomes ==
  ASSUME NEW u \in Upload, NEW s, SetsStatus(u, s)
  PROVE  Phase' = [Phase EXCEPT ![u] = s]
  BY DEF Phase, SetsStatus

LEMMA PhaseStays == SameStatus => Phase' = Phase
  BY DEF Phase, SameStatus

LEMMA ReceivedStays == SameReceived => Received' = Received
  BY DEF Received, SameReceived

LEMMA PartsStay == UNCHANGED parts => SameReceived
  BY DEF SameReceived, UploadedParts, Uploaded

LEMMA Stutters ==
  ASSUME SameStatus, SameReceived, UNCHANGED <<doomed, contested, notified>>
  PROVE  AbstractStep
  BY PhaseStays, ReceivedStays DEF AbstractStep, Phase, Received, Lifecycle!lifecycleVars

\* The steps that set a status.
LEMMA Becomes ==
  ASSUME NEW u \in Upload, NEW s, SetsStatus(u, s), SameReceived,
         UNCHANGED <<doomed, contested, notified>>,
         \/ s = "pending" /\ uploads[u].status = "none"
         \/ /\ s = "finalizing" /\ uploads[u].status \in {"pending", "failed"}
            /\ UploadedParts(u) = Part \/ u \in doomed
         \/ /\ s \in {"complete", "failed"}
            /\ \/ uploads[u].status = "finalizing"
               \/ contested[u] /\ uploads[u].status \in {"complete", "failed"}
         \/ s = "deleted" /\ u \in doomed
  PROVE  AbstractStep
<1>1. Lifecycle!Become(u, s)
  BY PhaseBecomes, ReceivedStays DEF Lifecycle!Become, Phase, Received
<1>2. Phase[u] = uploads[u].status /\ Received[u] = UploadedParts(u)
  BY DEF Phase, Received
<1>3. \/ Lifecycle!Create(u) \/ Lifecycle!Start(u) \/ Lifecycle!Finish(u) \/ Lifecycle!Delete(u)
  BY <1>1, <1>2 DEF Lifecycle!Create, Lifecycle!Start, Lifecycle!Finish, Lifecycle!Finished,
                    Lifecycle!Delete, Phase, Received
<1> QED BY <1>3 DEF AbstractStep, Lifecycle!Next

LEMMA IngestImplements ==
  ASSUME ServerInv, IngestNext, UNCHANGED <<finalizerVars, removalVars, crashes>>
  PROVE  AbstractStep
<1> RepoTypeOK
  BY DEF ServerInv, TypeOK
<1>a. UNCHANGED <<doomed, contested, notified>>
  BY DEF finalizerVars, removalVars
<1>1. ASSUME NEW u \in Upload, InitCreate(u) PROVE AbstractStep
  <2>1. SetsStatus(u, "pending") /\ uploads[u].status = "none" /\ UNCHANGED parts
    BY <1>1, StatusOfStatement DEF InitCreate, CreateUpload, ServerInv, RowInv, FreshInv
  <2> QED BY <1>a, <2>1, PartsStay, Becomes
<1>2. ASSUME NEW u \in Upload, InitParts(u) \/ InitPartsError(u) PROVE AbstractStep
  <2>1. /\ client[u] = "creating" /\ UNCHANGED uploads
        /\ \A v \in Upload \ {u} : parts'[v] = parts[v]
        /\ \A p \in Part : parts'[u][p] \in {"norow", "pending"}
    BY <1>2 DEF InitParts, InitPartsError, CreateParts, RepoTypeOK
  <2>2. NoPartRows(u)
    BY <2>1 DEF ServerInv, RowInv, FreshInv, Fresh
  <2>3. UploadedParts(u) = {} /\ UploadedParts(u)' = {}
    BY <2>1, <2>2, ValuesAssumption DEF UploadedParts, Uploaded, NoPartRows
  <2>4. \A v \in Upload \ {u} : UploadedParts(v)' = UploadedParts(v)
    BY <2>1 DEF UploadedParts, Uploaded
  <2> QED BY <1>a, <2>1, <2>3, <2>4, Stutters DEF SameReceived, SameStatus
<1>3. ASSUME NEW w \in Writer, PutMark(w) PROVE AbstractStep
  <2>1. PICK u \in Upload, p \in Part, body \in Content :
              UpdatePartStatus(u, p, body) /\ UNCHANGED uploads
    BY <1>3 DEF PutMark, UpdatePartStatus, ServerInv, TypeOK, IngestTypeOK
  <2>2. \A v \in Upload \ {u} : UploadedParts(v)' = UploadedParts(v)
    BY <2>1 DEF UpdatePartStatus, UploadedParts, Uploaded, RepoTypeOK
  <2>3. CASE parts[u][p] = "norow"
    BY <1>a, <2>1, <2>3, PartsStay, Stutters DEF UpdatePartStatus, SameStatus
  <2>4. CASE parts[u][p] # "norow"
    <3>1. \A q \in Part : parts'[u][q] = IF q = p THEN body ELSE parts[u][q]
      BY <2>1, <2>4 DEF UpdatePartStatus, RepoTypeOK
    <3>2. UploadedParts(u)' = UploadedParts(u) \cup {p}
      BY <2>1, <3>1 DEF UploadedParts, Uploaded
    <3>3. CASE p \in UploadedParts(u)
      <4>1. SameReceived
        BY <2>2, <3>2, <3>3 DEF SameReceived
      <4> QED BY <1>a, <2>1, <4>1, Stutters DEF SameStatus
    <3>4. CASE p \notin UploadedParts(u)
      <4>1. ~Settled(u) /\ ~NoPartRows(u)
        BY <2>1, <2>4, <3>4 DEF Settled, UploadedParts, NoPartRows
      <4>2. uploads[u].status \in Status
        BY <2>1 DEF RepoTypeOK, UploadRow
      <4>3. uploads[u].status = "pending"
        BY <2>1, <4>1, <4>2
           DEF ServerInv, StartInv, Started, RowInv, FreshInv, Fresh, GoneInv, Status, InRow
      <4>4. Received' = [Received EXCEPT ![u] = @ \cup {p}]
        BY <2>1, <2>2, <3>2 DEF Received
      <4>5. Lifecycle!Receive(u, p)
        BY <1>a, <2>1, <4>3, <4>4 DEF Lifecycle!Receive, Phase, Received
      <4> QED BY <2>1, <4>5 DEF AbstractStep, Lifecycle!Next
    <3> QED BY <3>3, <3>4
  <2> QED BY <2>3, <2>4
<1>4. CASE UNCHANGED repoVars
  BY <1>a, <1>4, PartsStay, Stutters DEF repoVars, SameStatus
<1> QED
  BY <1>1, <1>2, <1>3, <1>4
     DEF IngestNext, PutStart, PutStep, PutMkdir, PutCreate, PutWrite, PutIoError, PutDbError,
         PutAbort, LateStep, LateMkdir, LateCreate, LateWrite, ingestVars

LEMMA CompleterImplements ==
  ASSUME ServerInv, NEW c \in Completer, UNCHANGED notified,
         UNCHANGED <<ingestVars, removalVars, crashes>>,
         (\E u \in Upload : CompleteStart(c, u)) \/ CompleterStep(c) \/ CompleteDbError(c)
  PROVE  AbstractStep
<1> DEFINE v == completer[c].u
<1> TypeOK /\ StartInv
  BY DEF ServerInv
<1>a. SameReceived /\ UNCHANGED doomed
  BY CompleterSummary, PartsStay DEF CompleterMoves, removalVars
<1>b. completer[c].pc # "idle" => v \in Upload
  BY UnderWay
<1>1. CASE SameStatus /\ UNCHANGED contested
  BY <1>a, <1>1, Stutters
<1>2. ASSUME completer[c].pc = "restart", uploads[v].status = "finalizing", SameStatus,
             contested' = [contested EXCEPT ![v] = @ \/ FinalizersOf(v) # {}]
      PROVE  AbstractStep
  <2>1. contested \in [Upload -> BOOLEAN]
    BY DEF TypeOK, FinalizerTypeOK
  <2>2. CASE contested'[v] = contested[v]
    <3>1. contested' = contested
      BY <1>b, <1>2, <2>1, <2>2
    <3> QED BY <1>1, <1>2, <3>1
  <2>3. CASE contested'[v] # contested[v]
    <3>1. contested' = [contested EXCEPT ![v] = TRUE]
      BY <1>b, <1>2, <2>1, <2>3
    <3>2. Lifecycle!Overrun(v)
      BY <1>a, <1>b, <1>2, <3>1, PhaseStays, ReceivedStays
         DEF Lifecycle!Overrun, Phase, Received
    <3> QED BY <1>b, <1>2, <3>2 DEF AbstractStep, Lifecycle!Next
  <2> QED BY <2>2, <2>3
<1>3. ASSUME completer[c].pc = "start", uploads[v].status \in {"pending", "failed"},
             SetsStatus(v, "finalizing"), UNCHANGED contested
      PROVE  AbstractStep
  <2>1. v \in Upload /\ Known(v) /\ Settled(v)
    BY <1>3, UnderWay
  <2>2. UploadedParts(v) = Part \/ v \in doomed
    <3>1. CASE \A p \in Part : Uploaded(v, p)
      BY <3>1 DEF UploadedParts
    <3>2. CASE \A p \in Part : parts[v][p] = "norow"
      BY <2>1, <3>2, PartNat DEF ServerInv, RowInv, GoneInv
    <3> QED BY <2>1, <3>1, <3>2 DEF Settled
  <2> QED BY <1>a, <1>3, <2>1, <2>2, Becomes
<1> QED BY <1>1, <1>2, <1>3, CompleterSummary

LEMMA FinalizerImplements ==
  ASSUME ServerInv, [Next]_vars, FinalizerNext, UNCHANGED <<ingestVars, removalVars, crashes>>
  PROVE  AbstractStep
<1> TypeOK /\ StartInv /\ TaskInv
  BY DEF ServerInv
<1>a. UNCHANGED doomed
  BY DEF removalVars
<1>1. ASSUME NEW t \in Task, TaskNotify(t) PROVE AbstractStep
  <2> DEFINE u == task[t].u
  <2>1. /\ u \in Upload /\ task[t].pc = "notify" /\ ~Working(t)
        /\ UNCHANGED <<repoVars, contested>>
        /\ notified' = [notified EXCEPT ![u] = IF @ < 2 THEN @ + 1 ELSE 2]
    BY <1>1 DEF TaskNotify, Working, Running, Storing, TypeOK, FinalizerTypeOK, TaskTypeOK
  <2>2. contested[u] \/ (notified[u] = 0 /\ uploads[u].status \in {"complete", "deleted"})
    BY <2>1 DEF ServerInv, TellInv, Tells, Busy
  <2>3. Phase' = Phase /\ Received' = Received
    BY <2>1 DEF repoVars, Phase, Received, UploadedParts, Uploaded
  <2>4. Lifecycle!Tell(u)
    BY <1>a, <2>1, <2>2, <2>3 DEF Lifecycle!Tell, Phase, Received
  <2> QED BY <2>1, <2>4 DEF AbstractStep, Lifecycle!Next
<1>2. CASE UNCHANGED notified
  <2>1. CASE QuietRow \/ \E t \in Task : QuietTask(t)
    BY <1>a, <1>2, <2>1, PartsStay, Stutters DEF QuietRow, QuietTask, FinalizersFrame
  <2>2. ASSUME NEW t \in Task, OutcomeTask(t) PROVE AbstractStep
    <3> DEFINE u == task[t].u
    <3>1. u \in Upload /\ task[t].pc # "idle" /\ Working(t)
      BY <2>2 DEF OutcomeTask, Working, Running, Storing, TypeOK, FinalizerTypeOK, TaskTypeOK
    <3>2. SameReceived /\ UNCHANGED contested
      BY <2>2, PartsStay DEF OutcomeTask, FinalizersFrame
    <3>3. CASE SameStatus
      BY <1>a, <1>2, <3>2, <3>3, Stutters
    <3>4. ASSUME NEW s \in {"complete", "failed"}, RowExists(u), SetsStatus(u, s)
          PROVE  AbstractStep
      <4>1. uploads[u].status \in {"finalizing", "complete", "failed"}
        BY <3>1, <3>4 DEF TaskInv, RowExists, InRow
      <4>2. contested[u] \/ uploads[u].status = "finalizing"
        BY <3>1, <4>1 DEF ServerInv, TellInv, Tells, Busy
      <4> QED BY <1>a, <1>2, <3>1, <3>2, <3>4, <4>1, <4>2, Becomes
    <3> QED BY <2>2, <3>3, <3>4 DEF OutcomeTask
  <2> QED BY <1>2, <2>1, <2>2, FinalizerSummary, CompleterImplements
<1> QED BY <1>1, <1>2, NotifiedKept

\* A decision to delete the uploads of a set.
LEMMA Leaves ==
  ASSUME NEW taken \in SUBSET Upload, doomed' = doomed \cup taken,
         \A u \in taken : uploads[u].status \in {"pending", "complete", "failed"},
         UNCHANGED <<repoVars, contested, notified>>
  PROVE  AbstractStep
<1>1. Phase' = Phase /\ Received' = Received
  BY DEF repoVars, Phase, Received, UploadedParts, Uploaded
<1>2. Lifecycle!Leave(taken)
  BY <1>1 DEF Lifecycle!Leave, Lifecycle!Finished, Phase, Received
<1> QED BY <1>2 DEF AbstractStep, Lifecycle!Next

LEMMA Forgets ==
  ASSUME RepoTypeOK, NEW u \in Upload, u \in doomed, DeletePartRows(u),
         UNCHANGED <<doomed, contested, notified>>
  PROVE  AbstractStep
<1>1. /\ \A p \in Part : parts'[u][p] = "norow"
      /\ \A v \in Upload \ {u} : parts'[v] = parts[v]
      /\ UNCHANGED uploads
  BY DEF DeletePartRows, RepoTypeOK
<1>2. UploadedParts(u)' = {}
  BY <1>1, ValuesAssumption DEF UploadedParts, Uploaded
<1>3. \A v \in Upload \ {u} : UploadedParts(v)' = UploadedParts(v)
  BY <1>1 DEF UploadedParts, Uploaded
<1>4. Phase' = Phase /\ Received' = [Received EXCEPT ![u] = {}]
  BY <1>1, <1>2, <1>3 DEF Phase, Received
<1>5. Lifecycle!Forget(u)
  BY <1>4 DEF Lifecycle!Forget, Phase, Received
<1> QED BY <1>5 DEF AbstractStep, Lifecycle!Next

LEMMA Deletes ==
  ASSUME RepoTypeOK, NEW u \in Upload, u \in doomed, DeleteUploadRow(u),
         UNCHANGED <<doomed, contested, notified>>
  PROVE  AbstractStep
  BY StatusOfStatement, PartsStay, Becomes DEF DeleteUploadRow

LEMMA RemovalImplements ==
  ASSUME ServerInv, RemovalNext, UNCHANGED <<ingestVars, finalizerVars, crashes>>
  PROVE  AbstractStep
<1> RepoTypeOK
  BY DEF ServerInv, TypeOK
<1>a. UNCHANGED <<contested, notified>>
  BY DEF finalizerVars
<1>b. \A d \in Canceller : canceller[d].pc # "idle" =>
         canceller[d].u \in Upload /\ canceller[d].u \in doomed
  BY DEF ServerInv, TypeOK, RemovalTypeOK, RowInv, GoneInv
<1>c. cleaner.pc \in {"rows", "row"} => cleaner.u \in Upload /\ cleaner.u \in doomed
  BY DEF ServerInv, TypeOK, RemovalTypeOK, RowInv, GoneInv
<1>1. CASE UNCHANGED <<repoVars, doomed>>
  BY <1>a, <1>1, PartsStay, Stutters DEF repoVars, SameStatus
<1>2. ASSUME NEW d \in Canceller, NEW u \in Upload, CancelStart(d, u) PROVE AbstractStep
  <2>1. /\ uploads[u].status \in {"pending", "complete", "failed"}
        /\ doomed' = doomed \cup {u} /\ UNCHANGED repoVars
    BY <1>2 DEF CancelStart, RowExists, InRow
  <2>2. {u} \in SUBSET Upload
    OBVIOUS
  <2>3. \A v \in {u} : uploads[v].status \in {"pending", "complete", "failed"}
    BY <2>1
  <2> QED BY <1>a, <2>1, <2>2, <2>3, Leaves
<1>3. CASE CleanList
  <2>1. /\ ExpiredPendingUploads \in SUBSET Upload
        /\ \A u \in ExpiredPendingUploads : uploads[u].status = "pending"
        /\ doomed' = doomed \cup ExpiredPendingUploads /\ UNCHANGED repoVars
    BY <1>3 DEF CleanList, ExpiredPendingUploads
  <2> QED BY <1>a, <2>1, Leaves
<1>4. ASSUME NEW d \in Canceller, CancelRows(d) PROVE AbstractStep
  BY <1>a, <1>b, <1>4, Forgets DEF CancelRows
<1>5. ASSUME NEW d \in Canceller, CancelRow(d) PROVE AbstractStep
  BY <1>a, <1>b, <1>5, Deletes DEF CancelRow
<1>6. CASE CleanRows
  BY <1>a, <1>c, <1>6, Forgets DEF CleanRows
<1>7. CASE CleanRow
  BY <1>a, <1>c, <1>7, Deletes DEF CleanRow
<1> QED
  BY <1>1, <1>2, <1>3, <1>4, <1>5, <1>6, <1>7
     DEF RemovalNext, CancelStep, CancelPurge, CancelUnlink, CancelDbError, CancelAbort,
         CleanStep, CleanPurge, CleanDbError

LEMMA StepImplements == ServerInv /\ [Next]_vars => [Lifecycle!Next]_(Lifecycle!lifecycleVars)
<1> SUFFICES ASSUME ServerInv, [Next]_vars PROVE AbstractStep
  BY DEF AbstractStep
<1>1. CASE IngestNext /\ UNCHANGED <<finalizerVars, removalVars, crashes>>
  BY <1>1, IngestImplements
<1>2. CASE FinalizerNext /\ UNCHANGED <<ingestVars, removalVars, crashes>>
  BY <1>2, FinalizerImplements
<1>3. CASE RemovalNext /\ UNCHANGED <<ingestVars, finalizerVars, crashes>>
  BY <1>3, RemovalImplements
<1>4. CASE (\E u \in Upload : Expire(u)) \/ UNCHANGED vars
  <2>1. QuietRow /\ UNCHANGED <<doomed, notified>>
    BY <1>4, RowQuiet DEF ServerInv, Expire, vars, finalizerVars, removalVars
  <2> QED BY <2>1, PartsStay, Stutters DEF QuietRow, FinalizersFrame
<1>5. CASE CrashRestart
  <2>1. SameStatus /\ UNCHANGED <<parts, contested, notified, doomed>>
    BY <1>5, CrashSummary DEF ServerInv, CrashRestart
  <2> QED BY <2>1, PartsStay, Stutters
<1> QED BY <1>1, <1>2, <1>3, <1>4, <1>5 DEF Next

\* A delete_file that fails takes a cancel request on to the rows.
LEMMA CancelGoesOn ==
  ASSUME ServerInv, NEW d \in Canceller, canceller[d].pc = "unlink", CancelGoto(d, "rows"),
         UNCHANGED <<cleaner, doomed, repoVars, storageVars, ingestVars, finalizerVars, crashes>>
  PROVE  ServerInv' /\ AbstractStep
<1>1. canceller \in [Canceller -> [pc : CancelPc, u : Upload \cup {None}]]
  BY DEF ServerInv, TypeOK, RemovalTypeOK
<1>2. canceller' = [canceller EXCEPT ![d].pc = "rows"]
  BY DEF CancelGoto
<1>3. /\ \A e \in Canceller \ {d} : canceller'[e] = canceller[e]
      /\ canceller'[d].pc = "rows" /\ canceller'[d].u = canceller[d].u
  BY <1>1, <1>2
<1>4. canceller' \in [Canceller -> [pc : CancelPc, u : Upload \cup {None}]]
  BY <1>1, <1>2 DEF CancelPc
<1>5. RemovalTypeOK'
  BY <1>3, <1>4 DEF ServerInv, TypeOK, RemovalTypeOK
<1>6. TypeOK'
  BY <1>5, RepoUnchanged, StorageUnchanged, IngestUnchanged, FinalizerUnchanged
     DEF ServerInv, TypeOK
<1>7. RemovalStep
  BY DEF RemovalStep, SameStatus, repoVars, ingestVars, finalizerVars
<1>8. StartInv'
  BY <1>7, QuietStarts DEF ServerInv
<1>9. FreshInv'
  BY DEF ServerInv, RowInv, FreshInv, Fresh, NoPartRows, repoVars, ingestVars
<1>10. GoneInv'
  BY <1>3 DEF ServerInv, RowInv, GoneInv, Known, NoPartRows, repoVars, ingestVars
<1>11. TaskInv' /\ TellInv'
  BY DEF ServerInv, TaskInv, TellInv, Tells, Busy, Working, repoVars, finalizerVars
<1>12. SameStatus /\ SameReceived /\ UNCHANGED <<doomed, contested, notified>>
  BY PartsStay DEF SameStatus, repoVars, finalizerVars
<1> QED BY <1>6, <1>8, <1>9, <1>10, <1>11, <1>12, Stutters DEF ServerInv, RowInv

\* A task that goes on, and the rows as they are.
LEMMA TaskGoesOn ==
  ASSUME ServerInv, TypeOK', NEW t \in Task, QuietTask(t),
         UNCHANGED <<repoVars, ingestVars, removalVars, contested, notified>>
  PROVE  ServerInv' /\ AbstractStep
<1>1. StartInv'
  BY QuietStarts DEF ServerInv
<1>2. RowInv'
  BY RowFrame DEF ServerInv, repoVars, ingestVars, SameLife
<1>3. TaskInv' /\ TellInv'
  BY QuietTells DEF ServerInv, TypeOK, FinalizerTypeOK
<1>4. SameStatus /\ SameReceived
  BY PartsStay DEF QuietTask, repoVars
<1> QED BY <1>1, <1>2, <1>3, <1>4, Stutters DEF ServerInv, removalVars

LEMMA InitImplements == Init => Lifecycle!Init
<1> SUFFICES ASSUME Init PROVE Lifecycle!Init
  OBVIOUS
<1>1. Phase = [u \in Upload |-> "none"]
  BY DEF Init, RepoInit, NoRow, Phase
<1>2. Received = [u \in Upload |-> {}]
  BY ValuesAssumption DEF Init, RepoInit, Received, UploadedParts, Uploaded
<1>3. doomed = {} /\ contested = [u \in Upload |-> FALSE] /\ notified = [u \in Upload |-> 0]
  BY DEF Init, RemovalInit, FinalizerInit
<1> QED BY <1>1, <1>2, <1>3 DEF Lifecycle!Init, Phase, Received

\* The server implements UploadLifecycle: what a client sees of an upload goes
\* through its phases in order, each for its reason, whatever is interrupted.
THEOREM ServerImplementsLifecycle == Spec => ImplementsLifecycle
  BY InitImplements, StepImplements, ServerInvariant, PTL
     DEF Spec, ImplementsLifecycle, Lifecycle!Spec
=============================================================================
