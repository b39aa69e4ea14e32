--------------------------- MODULE ObserverProofs ---------------------------
(***************************************************************************)
(* Two observers that disturb nothing, so that what is proved of the       *)
(* server holds of the server that is observed.  A client polls: the two   *)
(* statements behind an answer are two steps, and PollInv carries over     *)
(* what the first one saw.  And `raced' remembers the uploads that were    *)
(* written while being removed: of the others, SweptInv and FinalTrace     *)
(* say what is left at each point of a removal.                            *)
(***************************************************************************)
EXTENDS Status, Leftovers, FileProofs

AnswerTypeOK == poll \in [pc : {"idle", "count", "answered"}, u : Upload \cup {None},
                          status : Status, uploaded : 0 .. TotalParts]

\* Between the two statements an upload that was past `pending' has all its
\* parts recorded, unless it is being deleted.
PollInv ==
    /\ poll.pc = "count" =>
          /\ poll.u \in Upload /\ Known(poll.u)
          /\ poll.status # "pending" /\ poll.u \notin doomed => AllUploaded(poll.u)
    /\ AnswerCoherent

\* A poll only reads.
LEMMA PollingHarmless == StatusSpec => Spec
<1>1. [StatusNext]_<<vars, poll>> => [Next]_vars
  BY DEF StatusNext
<1> QED BY <1>1, PTL DEF StatusSpec, Spec

LEMMA CountOfAll ==
  ASSUME NEW u \in Upload
  PROVE  /\ Cardinality(UploadedParts(u)) \in 0 .. TotalParts
         /\ AllUploaded(u) => Cardinality(UploadedParts(u)) = TotalParts
<1>1. IsFiniteSet(Part) /\ Cardinality(Part) = TotalParts
  BY PartsAssumption, FS_Interval DEF Part
<1>2. UploadedParts(u) \subseteq Part
  BY DEF UploadedParts
<1>3. /\ Cardinality(UploadedParts(u)) \in Nat
      /\ Cardinality(UploadedParts(u)) <= TotalParts
  BY <1>1, <1>2, FS_Subset, FS_CardinalityType
<1>4. AllUploaded(u) => UploadedParts(u) = Part
  BY DEF AllUploaded, UploadedParts
<1> QED BY <1>1, <1>3, <1>4, PartsAssumption

\* A recorded part stays recorded, with another checksum maybe, until the part
\* rows are deleted.
LEMMA RowKeepsContent ==
  ASSUME TypeOK, RowInv, [Next]_vars, NEW u \in Upload, NEW p \in Part, Uploaded(u, p)
  PROVE  parts'[u][p] \in Content \cup {"norow"}
<1> RepoTypeOK
  BY DEF TypeOK
<1>1. CASE IngestNext
  <2>1. ASSUME NEW v \in Upload, InitParts(v) \/ InitPartsError(v)
        PROVE  parts'[u][p] \in Content
    <3>1. ~Uploaded(v, p)
      BY <2>1, ValuesAssumption
         DEF InitParts, InitPartsError, RowInv, FreshInv, Fresh, NoPartRows, Uploaded
    <3>2. parts'[u] = parts[u]
      BY <2>1, <3>1, CreatedRows DEF InitParts, InitPartsError
    <3> QED BY <3>2 DEF Uploaded
  <2>2. ASSUME NEW w \in Writer, PutMark(w) PROVE parts'[u][p] \in Content
    <3>1. Sending(w) /\ UpdatePartStatus(put[w].u, put[w].p, put[w].body)
      BY <2>2 DEF PutMark, Sending
    <3>2. put[w].u \in Upload /\ put[w].p \in Part /\ put[w].body \in Content
      BY <3>1, SendingTyped
    <3> QED BY <3>1, <3>2 DEF UpdatePartStatus, Uploaded, RepoTypeOK
  <2>3. CASE UNCHANGED parts
    BY <2>3 DEF Uploaded
  <2> QED
    BY <1>1, <2>1, <2>2, <2>3
       DEF IngestNext, InitCreate, CreateUpload, PutStart, PutStep, PutMkdir, PutCreate,
           PutWrite, PutIoError, PutDbError, PutAbort, LateStep, LateMkdir, LateCreate, LateWrite, ingestVars, repoVars
<1>2. CASE RemovalNext
  BY <1>2, RemovalParts DEF Uploaded
<1>3. CASE UNCHANGED parts
  BY <1>3 DEF Uploaded
<1> QED BY <1>1, <1>2, <1>3, FinalizerParts DEF Next, Expire, CrashRestart, vars, repoVars

\* Nobody changes their mind about a deletion, and tokens stay with the client.
LEMMA DoomedGrows ==
  ASSUME TypeOK, [Next]_vars
  PROVE  doomed \subseteq doomed' /\ \A u \in Upload : Known(u) => client'[u] = "known"
<1> client \in [Upload -> ClientState]
  BY DEF TypeOK, IngestTypeOK
<1>1. CASE IngestNext /\ UNCHANGED removalVars
  BY <1>1 DEF IngestNext, InitCreate, InitParts, InitPartsError, PutStart, PutStep, PutMkdir,
              PutCreate, PutWrite, PutMark, PutIoError, PutDbError, PutAbort, LateStep, LateMkdir, LateCreate, LateWrite, ingestVars,
              removalVars, Known
<1>2. CASE RemovalNext /\ UNCHANGED ingestVars
  BY <1>2 DEF RemovalNext, CancelStart, CancelStep, CancelPurge, CancelUnlink, CancelRows,
              CancelRow, CancelDbError, CancelAbort, CleanStep, CleanList, CleanPurge,
              CleanRows, CleanRow, CleanDbError, ingestVars, Known
<1>3. CASE UNCHANGED <<ingestVars, removalVars>> \/ CrashRestart
  BY <1>3 DEF ingestVars, removalVars, CrashRestart, Known
<1> QED BY <1>1, <1>2, <1>3 DEF Next, Expire, vars

LEMMA PollInvNext ==
  ServerInv /\ ServerInv' /\ PollInv /\ [StatusNext]_<<vars, poll>> => PollInv'
<1> SUFFICES ASSUME ServerInv, ServerInv', PollInv, [StatusNext]_<<vars, poll>> PROVE PollInv'
  OBVIOUS
<1>a. TypeOK /\ RowInv
  BY DEF ServerInv
<1>1. ASSUME UNCHANGED poll, [Next]_vars PROVE PollInv'
  <2>1. doomed \subseteq doomed' /\ \A u \in Upload : Known(u) => Known(u)'
    BY <1>1, <1>a, DoomedGrows DEF Known
  <2>2. AnswerCoherent'
    BY <1>1, <2>1 DEF PollInv, AnswerCoherent
  <2>3. ASSUME poll.pc = "count", poll.status # "pending", poll.u \notin doomed'
        PROVE  \A p \in Part : parts'[poll.u][p] \in Content
    <3>1. poll.u \in Upload /\ client'[poll.u] = "known" /\ AllUploaded(poll.u)
      BY <2>1, <2>3 DEF PollInv, Known
    <3>2. \A p \in Part : parts'[poll.u][p] \in Content \cup {"norow"}
      BY <1>1, <1>a, <3>1, RowKeepsContent DEF AllUploaded
    <3>3. \A p \in Part : parts'[poll.u][p] # "norow"
      BY <2>3, <3>1 DEF ServerInv, RowInv, GoneInv, Known
    <3> QED BY <3>2, <3>3
  <2> QED BY <1>1, <2>1, <2>2, <2>3 DEF PollInv, Known, AllUploaded, Uploaded
<1>2. ASSUME NEW u \in Upload, PollRow(u), UNCHANGED vars PROVE PollInv'
  <2>1. /\ poll'.pc = "count" /\ poll'.u = u /\ poll'.status = uploads[u].status
        /\ Known(u) /\ RowExists(u)
    BY <1>2 DEF PollRow, Known
  <2>2. ASSUME uploads[u].status # "pending", u \notin doomed PROVE AllUploaded(u)
    <3>1. Settled(u)
      BY <2>1, <2>2 DEF RowExists, InRow, ServerInv, StartInv, Started
    <3> QED BY <2>1, <2>2, <3>1, PartNat DEF Settled, AllUploaded, ServerInv, RowInv, GoneInv
  <2> QED BY <1>2, <2>1, <2>2
          DEF PollInv, AnswerCoherent, Known, AllUploaded, Uploaded, vars, repoVars, ingestVars,
              removalVars
<1>3. ASSUME PollCount, UNCHANGED vars PROVE PollInv'
  <2>1. /\ poll.pc = "count" /\ poll.u \in Upload
        /\ poll' = [poll EXCEPT !.pc = "answered", !.uploaded = Cardinality(UploadedParts(poll.u))]
    BY <1>3 DEF PollCount, PollInv
  <2> QED BY <1>3, <2>1, CountOfAll DEF PollInv, AnswerCoherent, vars, removalVars
<1> QED BY <1>1, <1>2, <1>3 DEF StatusNext, vars

LEMMA AnswerTyped == ServerInv /\ PollInv /\ AnswerTypeOK /\ [StatusNext]_<<vars, poll>> => AnswerTypeOK'
<1> SUFFICES ASSUME ServerInv, PollInv, AnswerTypeOK, [StatusNext]_<<vars, poll>> PROVE AnswerTypeOK'
  OBVIOUS
<1>1. CASE UNCHANGED poll
  BY <1>1 DEF AnswerTypeOK
<1>2. ASSUME NEW u \in Upload, PollRow(u) PROVE AnswerTypeOK'
  <2>1. uploads[u].status \in Status /\ TotalParts \in Nat
    BY PartsAssumption DEF ServerInv, TypeOK, RepoTypeOK, UploadRow
  <2> QED BY <1>2, <2>1 DEF PollRow, AnswerTypeOK
<1>3. CASE PollCount
  <2>1. poll.u \in Upload
    BY <1>3 DEF PollCount, PollInv
  <2> QED BY <1>3, <2>1, CountOfAll DEF PollCount, AnswerTypeOK
<1> QED BY <1>1, <1>2, <1>3 DEF StatusNext

LEMMA PollInit == poll = NoPoll => PollInv /\ AnswerTypeOK
  BY PartsAssumption DEF NoPoll, PollInv, AnswerCoherent, AnswerTypeOK, Status

LEMMA PollInvariant == StatusSpec => [](ServerInv /\ PollInv /\ AnswerTypeOK)
<1>1. StatusSpec => []ServerInv
  BY PollingHarmless, ServerInvariant, PTL
<1> QED BY <1>1, PollInit, PollInvNext, AnswerTyped, PTL DEF StatusSpec

\* An answer that says the upload is past `pending' never shows parts missing:
\* whatever happens between the two statements, a part that is recorded only
\* goes when the upload is being deleted.
THEOREM AnswerCoherentSafe == StatusSpec => []AnswerCoherent
<1>1. PollInv => AnswerCoherent
  BY DEF PollInv
<1> QED BY <1>1, PollInvariant, PTL

-----------------------------------------------------------------------------
\* Removals that nobody disturbs.

LEMMA WritersWrite ==
  ASSUME TypeOK, NEW u \in Upload,
         \/ \E w \in Writer : Sending(w) /\ put[w].u = u
         \/ \E t \in Task : Working(t) /\ task[t].u = u
  PROVE  BeingWritten(u)
<1>1. ASSUME NEW w \in Writer, Sending(w), put[w].u = u PROVE BeingWritten(u)
  BY <1>1, SendingTyped DEF BeingWritten, PutsOf, Sending
<1>2. ASSUME NEW t \in Task, Working(t), task[t].u = u PROVE BeingWritten(u)
  BY <1>2 DEF BeingWritten, FinalizersOf, Working
<1> QED BY <1>1, <1>2

\* A removal leaves the other uploads alone.
LEMMA RemovalElsewhere ==
  ASSUME TypeOK, RemovalNext, NEW u \in Upload, ~BeingRemoved(u)
  PROVE  SameFiles(u) /\ parts'[u] = parts[u] /\ uploads'[u].status = uploads[u].status
<1> RepoTypeOK /\ StorageTypeOK /\ RemovalTypeOK
  BY DEF TypeOK
<1>1. /\ \A d \in Canceller : canceller[d].pc # "idle" => canceller[d].u \in Upload \ {u}
      /\ cleaner.todo \subseteq Upload \ {u}
      /\ cleaner.pc \in {"rows", "row"} => cleaner.u \in Upload \ {u}
  BY DEF BeingRemoved, RemovalTypeOK
<1> DEFINE Storage == \/ UNCHANGED storageVars
                      \/ \E v \in Upload \ {u} :
                            DeleteParts(v) \/ DeletePartsPartly(v) \/ DeleteFile(v)
           Rows == \/ UNCHANGED repoVars
                   \/ \E v \in Upload \ {u} : DeletePartRows(v) \/ DeleteUploadRow(v)
<1>2. ASSUME NEW d \in Canceller, CancelStep(d) \/ CancelAbort(d) PROVE Storage /\ Rows
  <2>1. canceller[d].u \in Upload \ {u}
    BY <1>1, <1>2 DEF CancelStep, CancelPurge, CancelUnlink, CancelRows, CancelRow, CancelAbort
  <2> QED BY <1>2, <2>1 DEF CancelStep, CancelPurge, CancelUnlink, CancelRows, CancelRow, CancelAbort
<1>3. ASSUME CleanStep PROVE Storage /\ Rows
  BY <1>1, <1>3 DEF CleanStep, CleanList, CleanPurge, CleanRows, CleanRow
<1>4. Storage /\ Rows
  BY <1>2, <1>3 DEF RemovalNext, CancelStart, CancelDbError, CleanDbError
<1>5. SameFiles(u)
  BY <1>4, OtherDeleted DEF SameFiles, storageVars
<1>6. parts'[u] = parts[u] /\ uploads'[u] = uploads[u]
  BY <1>4 DEF DeletePartRows, DeleteUploadRow, RepoTypeOK, repoVars
<1> QED BY <1>5, <1>6

-----------------------------------------------------------------------------
\* The parts.

\* Nobody sends a part of an upload that is complete or gone.
Unsent(u) == uploads[u].status \in {"complete", "deleted"} =>
                 ~\E w \in Writer : Sending(w) /\ put[w].u = u

\* The parts of the upload have been deleted: it is complete, or deleted, or
\* about to be.
Swept(u) == \/ uploads[u].status \in {"complete", "deleted"}
            \/ \E t \in Task : task[t].pc = "mark_ok" /\ task[t].u = u
            \/ \E d \in Canceller : /\ canceller[d].pc \in {"unlink", "rows", "row"}
                                    /\ canceller[d].u = u
            \/ cleaner.pc \in {"rows", "row"} /\ cleaner.u = u

\* The mkdir of a dropped PUT is still to come.
MkdirLate(u) == \E p \in Part : <<u, p, "mkdir">> \in late

SweptInv(u) == Unsent(u) /\ (Swept(u) => ~partsDir[u] /\ ~MkdirLate(u))

\* A part file is in the directory.
DirInv == \A u \in Upload : ~partsDir[u] =>
              \A p \in Part : partFile[u][p] = NoFile /\ partOpen[u][p] = {}

\* Nobody sends a part of an upload whose parts have been deleted.
LEMMA NobodySends ==
  ASSUME TypeOK, NEW u \in Upload, ~Overlap(u), Unsent(u), Swept(u),
         NEW w \in Writer, Sending(w)
  PROVE  put[w].u # u
<1> SUFFICES ASSUME put[w].u = u PROVE FALSE
  OBVIOUS
<1>1. BeingWritten(u)
  BY WritersWrite
<1>2. /\ \A d \in Canceller : canceller[d].pc # "idle" => canceller[d].u # u
      /\ cleaner.u # u
  BY <1>1 DEF Overlap, BeingRemoved
<1>3. FinalizersOf(u) = {}
  BY SendingTyped DEF Overlap, MkdirBehind, PutsOf, Sending
<1>4. \A t \in Task : ~(task[t].pc = "mark_ok" /\ task[t].u = u)
  BY <1>3 DEF FinalizersOf, Running, Storing
<1> QED BY <1>2, <1>4 DEF Swept, Unsent

\* An upload is completed by a task and deleted by a removal.
LEMMA OverEntered ==
  ASSUME TypeOK, [Next]_vars, NEW u \in Upload, uploads[u].status \notin {"complete", "deleted"},
         uploads'[u].status \in {"complete", "deleted"}
  PROVE  BeingRemoved(u) \/ FinalizersOf(u) # {}
<1> RepoTypeOK
  BY DEF TypeOK
<1>1. CASE IngestNext
  <2>1. ASSUME NEW v \in Upload, InitCreate(v) PROVE SetsStatus(v, "pending")
    BY <2>1, StatusOfStatement DEF InitCreate
  <2>2. UNCHANGED uploads \/ \E v \in Upload : InitCreate(v)
    BY <1>1 DEF IngestNext, InitParts, InitPartsError, CreateParts, PutStart, PutStep, PutMkdir,
         PutCreate, PutWrite, PutMark, UpdatePartStatus, PutIoError, PutDbError, PutAbort,
         LateStep, LateMkdir, LateCreate, LateWrite, ingestVars, repoVars
  <2> QED BY <2>1, <2>2 DEF SetsStatus
<1>2. CASE FinalizerNext /\ UNCHANGED <<ingestVars, removalVars, crashes>>
  <2>1. ASSUME NEW t \in Task, OutcomeTask(t) PROVE FinalizersOf(u) # {}
    BY <2>1 DEF OutcomeTask, SameStatus, SetsStatus, FinalizersOf, Running
  <2>2. ASSUME NEW c \in Completer,
               (\E v \in Upload : CompleteStart(c, v)) \/ CompleterStep(c) \/ CompleteDbError(c)
        PROVE  SameStatus \/ SetsStatus(completer[c].u, "finalizing")
    BY <1>2, <2>2, CompleterSummary
  <2> QED BY <1>2, <2>1, <2>2, FinalizerSummary DEF QuietRow, QuietTask, SameStatus, SetsStatus
<1>3. CASE RemovalNext
  BY <1>3, RemovalElsewhere
<1>4. CASE (\E v \in Upload : Expire(v)) \/ UNCHANGED vars
  BY <1>4, RowQuiet DEF QuietRow, Expire, vars, SameStatus
<1>5. CASE CrashRestart
  BY <1>5, CrashSummary DEF CrashRestart, SameStatus
<1> QED BY <1>1, <1>2, <1>3, <1>4, <1>5 DEF Next

\* A PUT begins with an upload that is pending.
LEMMA SenderBegins ==
  ASSUME TypeOK, [Next]_vars, NEW w \in Writer, Sending(w)'
  PROVE  \/ Sending(w) /\ put'[w].u = put[w].u
         \/ uploads'[put'[w].u].status = "pending"
<1> put \in [Writer -> [pc : PutPc, u : Upload \cup {None}, p : Part, body : Data]]
  BY DEF TypeOK, IngestTypeOK
<1>1. CASE UNCHANGED put
  BY <1>1 DEF Sending
<1>2. ASSUME NEW x \in Writer, NEW v \in Upload, NEW p \in Part, NEW body \in Content,
             PutStart(x, v, p, body)
      PROVE  \/ Sending(w) /\ put'[w].u = put[w].u
             \/ uploads'[put'[w].u].status = "pending"
  BY <1>2 DEF PutStart, PutAllowed, repoVars, Sending
<1>3. ASSUME NEW x \in Writer, PutStep(x) \/ PutIoError(x) \/ PutDbError(x) \/ PutAbort(x)
      PROVE  Sending(w) /\ put'[w].u = put[w].u
  BY <1>3, PutStepMoves DEF PutMoves, Sending
<1>4. CASE IngestNext
  <2>1. ASSUME NEW v \in Upload, InitCreate(v) \/ InitParts(v) \/ InitPartsError(v) PROVE UNCHANGED put
    BY <2>1 DEF InitCreate, InitParts, InitPartsError
  <2>2. ASSUME NEW v \in Upload, NEW p \in Part, LateStep(v, p) PROVE UNCHANGED put
    BY <2>2, LateStepRows
  <2> QED BY <1>1, <1>2, <1>3, <1>4, <2>1, <2>2 DEF IngestNext
<1>5. CASE CrashRestart
  BY <1>5 DEF CrashRestart, NoPut, Sending
<1> QED BY <1>1, <1>4, <1>5 DEF Next, Expire, vars, ingestVars

LEMMA UnsentNext ==
  ASSUME TypeOK, [Next]_vars, NEW u \in Upload, ~Overlap(u), Unsent(u)
  PROVE  Unsent(u)'
<1> SUFFICES ASSUME uploads'[u].status \in {"complete", "deleted"},
                    NEW w \in Writer, Sending(w)', put'[w].u = u
             PROVE  FALSE
  BY DEF Unsent
<1>1. Sending(w) /\ put[w].u = u
  BY SenderBegins
<1>2. BeingRemoved(u) \/ FinalizersOf(u) # {}
  BY <1>1, OverEntered DEF Unsent
<1>3. BeingWritten(u) /\ \E p \in Part : PutsOf(u, p) # {}
  BY <1>1, WritersWrite, SendingTyped DEF PutsOf, Sending
<1> QED BY <1>2, <1>3 DEF Overlap, MkdirBehind

\* Only a PUT makes the directory, or the mkdir that a dropped one left behind.
LEMMA DirGrows ==
  ASSUME TypeOK, [Next]_vars, NEW u \in Upload, partsDir'[u], ~partsDir[u]
  PROVE  MkdirLate(u) \/ \E w \in Writer : Sending(w) /\ put[w].u = u
<1> StorageTypeOK
  BY DEF TypeOK
<1>0. ASSUME NEW v \in Upload, CreatePartsDir(v) PROVE u = v
  BY <1>0 DEF CreatePartsDir, StorageTypeOK
<1>1. ASSUME NEW w \in Writer, PutMkdir(w) PROVE Sending(w) /\ put[w].u = u
  <2>1. CreatePartsDir(put[w].u) /\ Sending(w)
    BY <1>1 DEF PutMkdir, Sending
  <2> QED BY <1>0, <2>1, SendingTyped
<1>2. CASE IngestNext /\ ~UNCHANGED partsDir
  <2>1. \/ \E w \in Writer : PutMkdir(w)
        \/ \E v \in Upload, p \in Part : LateMkdir(v, p)
    BY <1>2 DEF IngestNext, InitCreate, InitParts, InitPartsError, PutStart, PutStep, PutCreate,
                PutWrite, PutMark, PutIoError, PutDbError, PutAbort, LateStep, LateCreate,
                LateWrite, CreatePartFile, WritePartFile, BreakOffWrite, AbandonWrite,
                WriteAbandoned, storageVars
  <2>2. ASSUME NEW v \in Upload, NEW p \in Part, LateMkdir(v, p) PROVE MkdirLate(u)
    BY <1>0, <2>2 DEF LateMkdir, MkdirLate
  <2> QED BY <1>1, <2>1, <2>2
<1>3. ASSUME UNCHANGED partsDir \/ \E v : DeleteParts(v) PROVE FALSE
  BY <1>3 DEF DeleteParts, StorageTypeOK
<1>4. CASE FinalizerNext \/ RemovalNext
  <2>1. UNCHANGED partsDir \/ \E v : DeleteParts(v)
    <3>1. CASE RemovalNext
      BY <3>1
         DEF RemovalNext, CancelStart, CancelStep, CancelPurge, CancelUnlink, CancelRows, CancelRow,
             CancelDbError, CancelAbort, CleanStep, CleanList, CleanPurge, CleanRows, CleanRow,
             CleanDbError, DeletePartsPartly, DeleteFile, storageVars
    <3>2. CASE FinalizerNext /\ \E t \in Task : FileStep(t)
      BY <3>2 DEF FileStep, TaskUnlink, TaskCreate, TaskAppend, TaskRename, TaskPurge, TaskIoError,
           Abandon, CloseStaging, RemoveStaleStaging, CreateStaging, AppendPart, RenameStaging,
           DeletePartsPartly
    <3>3. CASE FinalizerNext /\ ~\E t \in Task : FileStep(t)
      BY <3>3
         DEF FinalizerNext, FileStep, CompleteStart, CompleterStep, CompleteRestart, CompleteCount,
             CompleteTryStart, CompleteDbError, TaskBegin, TaskStep, TaskCheck, TaskMarkComplete,
             TaskMarkFailed, TaskNotify, TaskFault, TaskBeginDbError, TaskCheckDbError,
             TaskMarkDbError, Heartbeat, LateBeat, GoStale, storageVars
    <3> QED BY <1>4, <3>1, <3>2, <3>3
  <2> QED BY <1>3, <2>1
<1> QED BY <1>2, <1>3, <1>4 DEF Next, Expire, CrashRestart, vars, storageVars

\* Only the deletion of all parts makes an upload swept.
LEMMA SweptEntered ==
  ASSUME TypeOK, "io" \notin Faults, [Next]_vars, NEW u \in Upload, ~Swept(u), Swept(u)'
  PROVE  /\ ~partsDir'[u]
         /\ late' \subseteq late
         /\ BeingRemoved(u) \/ FinalizersOf(u) # {}
<1> DEFINE Enters == /\ ~partsDir'[u]
                     /\ late' \subseteq late
                     /\ BeingRemoved(u) \/ FinalizersOf(u) # {}
<1> RepoTypeOK /\ StorageTypeOK /\ RemovalTypeOK /\ TaskTypeOK
  BY DEF TypeOK, FinalizerTypeOK
<1>a. /\ uploads[u].status \notin {"complete", "deleted"}
      /\ \A t \in Task : task[t].pc = "mark_ok" => task[t].u # u
      /\ \A d \in Canceller : canceller[d].pc \in {"unlink", "rows", "row"} => canceller[d].u # u
      /\ cleaner.pc \in {"rows", "row"} => cleaner.u # u
  BY DEF Swept
<1>b. ASSUME DeleteParts(u) PROVE ~partsDir'[u]
  BY <1>b DEF DeleteParts, StorageTypeOK
<1>c. UNCHANGED ingestVars => late' \subseteq late
  BY DEF ingestVars
<1>1. CASE IngestNext /\ UNCHANGED <<finalizerVars, removalVars, crashes>>
  <2>1. uploads'[u].status \notin {"complete", "deleted"}
    <3>1. ASSUME NEW v \in Upload, InitCreate(v) PROVE SetsStatus(v, "pending")
      BY <3>1, StatusOfStatement DEF InitCreate
    <3>2. UNCHANGED uploads \/ \E v \in Upload : InitCreate(v)
      BY <1>1 DEF IngestNext, InitParts, InitPartsError, CreateParts, PutStart, PutStep, PutMkdir,
           PutCreate, PutWrite, PutMark, UpdatePartStatus, PutIoError, PutDbError, PutAbort,
           LateStep, LateMkdir, LateCreate, LateWrite, ingestVars, repoVars
    <3> QED BY <1>a, <3>1, <3>2 DEF SetsStatus
  <2> QED BY <1>1, <1>a, <2>1 DEF Swept, finalizerVars, removalVars
<1>2. CASE FinalizerNext /\ UNCHANGED <<ingestVars, removalVars, crashes>>
  <2>1. uploads'[u].status \notin {"complete", "deleted"}
    <3>1. ASSUME NEW t \in Task, OutcomeTask(t)
          PROVE  uploads'[u].status \notin {"complete", "deleted"}
      BY <1>a, <3>1 DEF OutcomeTask, SameStatus, SetsStatus
    <3>2. ASSUME NEW c \in Completer,
                 (\E v \in Upload : CompleteStart(c, v)) \/ CompleterStep(c) \/ CompleteDbError(c)
          PROVE  SameStatus \/ SetsStatus(completer[c].u, "finalizing")
      BY <1>2, <3>2, CompleterSummary
    <3> QED BY <1>a, <1>2, <3>1, <3>2, FinalizerSummary DEF QuietRow, QuietTask, SameStatus, SetsStatus
  <2>2. PICK t \in Task : task'[t].pc = "mark_ok" /\ task'[t].u = u
    BY <1>2, <1>a, <2>1 DEF Swept, removalVars
  <2>3. ASSUME NEW s \in Task, TaskPurge(s) PROVE Enters
    <3>1. /\ \A r \in Task \ {s} : task'[r] = task[r]
          /\ task'[s].u = task[s].u /\ DeleteParts(task[s].u)
      BY <2>3, TaskMoves DEF TaskPurge
    <3>2. task[s].pc = "purge" /\ task[s].u = u
      BY <1>a, <2>2, <2>3, <3>1 DEF TaskPurge
    <3>3. s \in FinalizersOf(u)
      BY <3>2 DEF FinalizersOf, Running, Storing
    <3> QED BY <1>2, <1>b, <1>c, <3>1, <3>2, <3>3
  <2>4. ASSUME ~\E s \in Task : TaskPurge(s) PROVE task'[t].pc # "mark_ok" \/ task'[t] = task[t]
    <3>1. ASSUME NEW s \in Task, TaskBegin(s) \/ TaskStep(s) \/ TaskFault(s)
          PROVE  task'[t].pc # "mark_ok" \/ task'[t] = task[t]
      <4>1. CASE TaskCreate(s) \/ TaskAppend(s)
        <5>1. ASSUME TaskAppend(s)
              PROVE  /\ \A r \in Task \ {s} : task'[r] = task[r]
                     /\ task'[s].pc \in {"append", "rename", "mark_fail"}
          <6>1. CASE TaskGoto(s, "mark_fail")
            BY <6>1, TaskMoves
          <6>2. CASE ~TaskGoto(s, "mark_fail")
            BY <5>1, <6>2 DEF TaskAppend, Abandon, TaskTypeOK, TaskState
          <6> QED BY <6>1, <6>2
        <5>2. ASSUME TaskCreate(s)
              PROVE  /\ \A r \in Task \ {s} : task'[r] = task[r]
                     /\ task'[s].pc = "append"
          BY <5>2 DEF TaskCreate, TaskTypeOK, TaskState
        <5> QED BY <4>1, <5>1, <5>2
      <4>2. CASE ~(TaskCreate(s) \/ TaskAppend(s))
        <5>1. \E pc \in TaskPc \ {"mark_ok"} : TaskGoto(s, pc) \/ TaskReturn(s)
          BY <2>4, <3>1, <4>2
             DEF TaskBegin, TaskStep, TaskCheck, TaskUnlink, TaskRename, TaskMarkComplete,
                 TaskMarkFailed, TaskNotify, TaskFault, TaskBeginDbError, TaskCheckDbError,
                 TaskIoError, TaskMarkDbError, Abandon, TaskPc, Running, Storing
        <5> QED BY <5>1, TaskMoves
      <4> QED BY <4>1, <4>2
    <3>2. ASSUME NEW c \in Completer,
                 (\E v \in Upload : CompleteStart(c, v)) \/ CompleterStep(c) \/ CompleteDbError(c)
          PROVE  task'[t].pc # "mark_ok" \/ task'[t] = task[t]
      BY <1>2, <3>2, CompleterSummary DEF Spawned
    <3> QED BY <1>2, <3>1, <3>2 DEF FinalizerNext, Heartbeat, LateBeat, GoStale, finalizerVars
  <2> QED BY <1>a, <2>2, <2>3, <2>4
<1>3. CASE RemovalNext /\ UNCHANGED <<ingestVars, finalizerVars, crashes>>
  <2>1. ASSUME NEW d \in Canceller,
               \/ \E v \in Upload : CancelStart(d, v)
               \/ CancelStep(d) \/ CancelDbError(d) \/ CancelAbort(d)
        PROVE  Enters
    <3>1. UNCHANGED <<task, cleaner>> /\ \A e \in Canceller \ {d} : canceller'[e] = canceller[e]
      BY <1>3, <2>1 DEF finalizerVars, CancelStart, CancelStep, CancelPurge, CancelUnlink, CancelRows,
           CancelRow, CancelDbError, CancelAbort, CancelReturn, CancelGoto, RemovalTypeOK
    <3>2. uploads'[u].status \notin {"complete", "deleted"} 
      <4>1. CASE CancelRow(d)
        BY <1>a, <4>1, StatusOfStatement DEF CancelRow, RemovalTypeOK, SetsStatus
      <4>2. CASE ~CancelRow(d)
        BY <1>a, <2>1, <4>2 DEF CancelStart, CancelStep, CancelPurge, CancelUnlink, CancelRows,
           CancelDbError, CancelAbort, DeletePartRows, repoVars
      <4> QED BY <4>1, <4>2
    <3>3. canceller'[d].pc \in {"unlink", "rows", "row"} /\ canceller'[d].u = u
      BY <1>a, <3>1, <3>2 DEF Swept
    <3>4. ASSUME NEW v \in Upload, CancelStart(d, v) PROVE FALSE
      BY <1>a, <3>3, <3>4 DEF CancelStart, RemovalTypeOK
    <3>5. CASE CancelPurge(d)
      <4>1. canceller[d].u = u /\ DeleteParts(canceller[d].u)
        BY <3>3, <3>5 DEF CancelPurge, CancelGoto, RemovalTypeOK
      <4>2. BeingRemoved(u)
        BY <3>5, <4>1 DEF CancelPurge, BeingRemoved
      <4> QED BY <1>3, <1>b, <1>c, <4>1, <4>2
    <3>6. ASSUME CancelUnlink(d) \/ CancelRows(d) PROVE FALSE
      BY <1>a, <3>3, <3>6 DEF CancelUnlink, CancelRows, CancelGoto, RemovalTypeOK
    <3>7. ASSUME CancelRow(d) \/ CancelDbError(d) \/ CancelAbort(d) PROVE FALSE
      BY <3>3, <3>7 DEF CancelRow, CancelDbError, CancelAbort, CancelReturn, NoCancel, RemovalTypeOK
    <3> QED BY <2>1, <3>4, <3>5, <3>6, <3>7 DEF CancelStep
  <2>2. ASSUME CleanStep \/ CleanDbError PROVE Enters
    <3>1. UNCHANGED <<task, canceller>>
      BY <1>3, <2>2 DEF finalizerVars, CleanStep, CleanList, CleanPurge, CleanRows, CleanRow, CleanDbError
    <3>2. uploads'[u].status \notin {"complete", "deleted"}
      <4>1. CASE CleanRow
        BY <1>a, <4>1, StatusOfStatement DEF CleanRow, RemovalTypeOK, SetsStatus
      <4>2. CASE ~CleanRow
        BY <1>a, <2>2, <4>2 DEF CleanStep, CleanList, CleanPurge, CleanRows, CleanDbError,
           DeletePartRows, repoVars
      <4> QED BY <4>1, <4>2
    <3>3. cleaner'.pc \in {"rows", "row"} /\ cleaner'.u = u
      BY <1>a, <3>1, <3>2 DEF Swept
    <3>4. CASE CleanPurge
      <4>1. DeleteParts(u) /\ u \in cleaner.todo
        BY <3>3, <3>4 DEF CleanPurge
      <4> QED BY <1>3, <1>b, <1>c, <4>1 DEF BeingRemoved
    <3>5. ASSUME CleanList \/ CleanRows PROVE FALSE
      BY <1>a, <3>3, <3>5 DEF CleanList, CleanRows, RemovalTypeOK
    <3>6. ASSUME CleanNext PROVE FALSE
      BY <3>3, <3>6 DEF CleanNext, Sleeping, RemovalTypeOK
    <3> QED BY <2>2, <3>4, <3>5, <3>6 DEF CleanStep, CleanRow, CleanDbError
  <2> QED BY <1>3, <2>1, <2>2 DEF RemovalNext
<1>4. CASE (\E v \in Upload : Expire(v)) \/ UNCHANGED vars
  <2>1. SameStatus /\ UNCHANGED <<task, canceller, cleaner>>
    BY <1>4, RowQuiet DEF QuietRow, Expire, vars, finalizerVars, removalVars
  <2> QED BY <1>a, <2>1 DEF Swept, SameStatus
<1>5. CASE CrashRestart
  <2>1. /\ SameStatus /\ \A t \in Task : task'[t].pc # "mark_ok"
        /\ \A d \in Canceller : canceller'[d].pc = "idle"
        /\ cleaner'.pc = "idle"
    BY <1>5, CrashSummary DEF CrashRestart, NoCancel, Sleeping
  <2> QED BY <1>a, <2>1 DEF Swept, SameStatus
<1> QED BY <1>1, <1>2, <1>3, <1>4, <1>5 DEF Next

\* Only a PUT that is dropped leaves a mkdir behind.
LEMMA MkdirDropped ==
  ASSUME TypeOK, [Next]_vars, NEW u \in Upload, MkdirLate(u)', ~MkdirLate(u)
  PROVE  \E w \in Writer : Sending(w) /\ put[w].u = u
<1>1. PICK p \in Part : <<u, p, "mkdir">> \in late' \ late
  BY DEF MkdirLate
<1>2. ASSUME NEW w \in Writer, PutAbort(w) PROVE Sending(w) /\ put[w].u = u
  BY <1>1, <1>2 DEF PutAbort, Sending
<1>3. \E w \in Writer : PutAbort(w)
  <2>1. CASE IngestNext
    BY <1>1, <2>1
       DEF IngestNext, InitCreate, InitParts, InitPartsError, PutStart, PutStep, PutMkdir,
           PutCreate, PutWrite, PutMark, PutIoError, PutDbError, LateStep, LateMkdir, LateCreate,
           LateWrite, ingestVars
  <2> QED BY <1>1, <2>1 DEF Next, Expire, CrashRestart, vars, ingestVars
<1> QED BY <1>2, <1>3

LEMMA SweptNext ==
  ASSUME TypeOK, "io" \notin Faults, [Next]_vars,
         NEW u \in Upload, ~Overlap(u), SweptInv(u)
  PROVE  SweptInv(u)'
<1>1. Unsent(u)'
  BY UnsentNext DEF SweptInv
<1>2. ASSUME ~Swept(u), Swept(u)' PROVE ~partsDir'[u] /\ ~MkdirLate(u)'
  <2>1. /\ ~partsDir'[u]
        /\ late' \subseteq late
        /\ BeingRemoved(u) \/ FinalizersOf(u) # {}
    BY <1>2, SweptEntered
  <2>2. ~MkdirLate(u)
    BY <2>1 DEF Overlap, MkdirBehind, BeingWritten, MkdirLate
  <2> QED BY <2>1, <2>2 DEF MkdirLate
<1>3. ASSUME Swept(u) PROVE ~partsDir'[u] /\ ~MkdirLate(u)'
  <2>1. ~partsDir[u] /\ ~MkdirLate(u) /\ ~\E w \in Writer : Sending(w) /\ put[w].u = u
    BY <1>3, NobodySends DEF SweptInv
  <2> QED BY <2>1, DirGrows, MkdirDropped
<1> QED BY <1>1, <1>2, <1>3 DEF SweptInv

\* Operations on the part files keep them in the directory.
LEMMA DirOps ==
  ASSUME StorageTypeOK, DirInv, NEW u \in Upload, NEW p \in Part, NEW w \in Writer, NEW content,
         \/ CreatePartsDir(u)
         \/ partsDir[u] /\ \E openers \in SUBSET Writer : CreatePartFile(u, p, openers)
         \/ WritePartFile(w, u, p, content) \/ BreakOffWrite(w, u, p)
         \/ AbandonWrite(w, u, p, content) \/ WriteAbandoned(u, p, content)
  PROVE  DirInv'
<1> SUFFICES ASSUME NEW v \in Upload, ~partsDir'[v], NEW q \in Part
             PROVE  partFile'[v][q] = NoFile /\ partOpen'[v][q] = {}
  BY DEF DirInv
<1> USE DEF StorageTypeOK, DirInv
<1>1. CASE CreatePartsDir(u)
  BY <1>1 DEF CreatePartsDir
<1>2. ASSUME partsDir[u], NEW openers \in SUBSET Writer, CreatePartFile(u, p, openers)
      PROVE  partFile'[v][q] = NoFile /\ partOpen'[v][q] = {}
  BY <1>2 DEF CreatePartFile
<1>3. CASE WritePartFile(w, u, p, content)
  <2>1. partFile[v][q] = NoFile /\ partOpen[v][q] = {}
    BY <1>3 DEF WritePartFile
  <2>2. partOpen'[v][q] = {}
    BY <1>3, <2>1 DEF WritePartFile
  <2>3. partFile'[v][q] = partFile[v][q]
    BY <1>3, <2>1 DEF WritePartFile
  <2> QED BY <2>1, <2>2, <2>3
<1>4. CASE BreakOffWrite(w, u, p)
  BY <1>4 DEF BreakOffWrite
<1>5. CASE AbandonWrite(w, u, p, content)
  BY <1>5 DEF AbandonWrite
<1>6. CASE WriteAbandoned(u, p, content)
  BY <1>6 DEF WriteAbandoned
<1> QED BY <1>1, <1>2, <1>3, <1>4, <1>5, <1>6

\* Those of the assembly concern other files.
LEMMA DirNext == TypeOK /\ DirInv /\ [Next]_vars => DirInv'
<1> SUFFICES ASSUME TypeOK, DirInv, [Next]_vars PROVE DirInv'
  OBVIOUS
<1> StorageTypeOK /\ RemovalTypeOK /\ TaskTypeOK
  BY DEF TypeOK, FinalizerTypeOK
<1>0. CASE UNCHANGED <<partsDir, partFile, partOpen>>
  BY <1>0 DEF DirInv
<1>b. ASSUME NEW u \in Upload, DeleteParts(u) \/ DeletePartsPartly(u) \/ DeleteFile(u) PROVE DirInv'
  <2>1. CASE DeleteFile(u)
    BY <1>0, <2>1 DEF DeleteFile
  <2>2. CASE DeleteParts(u)
    BY <2>2 DEF DeleteParts, DirInv, StorageTypeOK, NoPartFiles, NobodyOpen
  <2>3. CASE DeletePartsPartly(u)
    BY <2>3 DEF DeletePartsPartly, DirInv, StorageTypeOK
  <2> QED BY <1>b, <2>1, <2>2, <2>3
<1>1. CASE IngestNext
  <2>1. ASSUME NEW w \in Writer, Sending(w),
               PutStep(w) \/ PutIoError(w) \/ PutDbError(w) \/ PutAbort(w)
        PROVE  DirInv'
    <3>1. put[w].u \in Upload /\ put[w].p \in Part /\ {w} \in SUBSET Writer
      BY <2>1, SendingTyped
    <3>2. \/ UNCHANGED storageVars
          \/ CreatePartsDir(put[w].u)
          \/ partsDir[put[w].u] /\ CreatePartFile(put[w].u, put[w].p, {w})
          \/ WritePartFile(w, put[w].u, put[w].p, put[w].body)
          \/ BreakOffWrite(w, put[w].u, put[w].p)
          \/ AbandonWrite(w, put[w].u, put[w].p, put[w].body)
      BY <2>1 DEF PutStep, PutMkdir, PutCreate, PutWrite, PutMark, PutIoError, PutDbError, PutAbort
    <3> QED BY <1>0, <3>1, <3>2, DirOps DEF storageVars
  <2>2. ASSUME NEW u \in Upload, NEW p \in Part, LateStep(u, p) PROVE DirInv'
    <3>1. \/ UNCHANGED storageVars
          \/ CreatePartsDir(u)
          \/ partsDir[u] /\ CreatePartFile(u, p, {})
          \/ \E body \in Content : WriteAbandoned(u, p, body)
      BY <2>2 DEF LateStep, LateMkdir, LateCreate, LateWrite
    <3>2. CASE partsDir[u] /\ CreatePartFile(u, p, {})
      BY <3>2 DEF CreatePartFile, DirInv, StorageTypeOK
    <3>3. CASE CreatePartsDir(u)
      BY <3>3 DEF CreatePartsDir, DirInv, StorageTypeOK
    <3>4. ASSUME NEW body, WriteAbandoned(u, p, body) PROVE DirInv'
      BY <3>4 DEF WriteAbandoned, DirInv, StorageTypeOK
    <3> QED BY <1>0, <3>1, <3>2, <3>3, <3>4 DEF storageVars
  <2>3. CASE UNCHANGED storageVars
    BY <1>0, <2>3 DEF storageVars
  <2> QED BY <1>1, <2>1, <2>2, <2>3, PutStepMoves
          DEF IngestNext, InitCreate, InitParts, InitPartsError, PutStart
<1>2. CASE FinalizerNext /\ \E t \in Task : FileStep(t)
  <2>1. PICK t \in Task : FileStep(t)
    BY <1>2
  <2>2. task[t].u \in Upload
    BY <2>1, FileStepMoves DEF TaskTypeOK, Storing
  <2>3. \/ UNCHANGED <<partsDir, partFile, partOpen>>
        \/ DeleteParts(task[t].u) \/ DeletePartsPartly(task[t].u)
    BY <2>1 DEF FileStep, TaskUnlink, TaskCreate, TaskAppend, TaskRename, TaskPurge, TaskIoError,
         Abandon, CloseStaging, RemoveStaleStaging, CreateStaging, AppendPart, RenameStaging
  <2> QED BY <1>0, <1>b, <2>2, <2>3
<1>3. CASE FinalizerNext /\ ~\E t \in Task : FileStep(t)
  BY <1>0, <1>3
     DEF FinalizerNext, FileStep, CompleteStart, CompleterStep, CompleteRestart, CompleteCount,
         CompleteTryStart, CompleteDbError, TaskBegin, TaskStep, TaskCheck, TaskMarkComplete,
         TaskMarkFailed, TaskNotify, TaskFault, TaskBeginDbError, TaskCheckDbError,
         TaskMarkDbError, Heartbeat, LateBeat, GoStale, storageVars
<1>4. CASE RemovalNext
  <2>1. \/ UNCHANGED storageVars
        \/ \E u \in Upload : DeleteParts(u) \/ DeletePartsPartly(u) \/ DeleteFile(u)
    BY <1>4 DEF RemovalNext, CancelStart, CancelStep, CancelPurge, CancelUnlink, CancelRows, CancelRow,
         CancelDbError, CancelAbort, CleanStep, CleanList, CleanPurge, CleanRows, CleanRow,
         CleanDbError, RemovalTypeOK
  <2> QED BY <1>0, <1>b, <2>1 DEF storageVars
<1>5. CASE CrashRestart
  <2>1. UNCHANGED partsDir /\ partOpen' = [u \in Upload |-> NobodyOpen]
    BY <1>5 DEF CrashRestart
  <2>2. PICK gone \in [Upload -> SUBSET Part] :
            partFile' = [u \in Upload |->
                            [p \in Part |-> IF p \in gone[u] THEN NoFile ELSE partFile[u][p]]]
    BY <1>5 DEF CrashRestart
  <2>3. \A u \in Upload, p \in Part : partFile[u][p] = NoFile => partFile'[u][p] = NoFile
    BY <2>2
  <2> QED BY <2>1, <2>3 DEF DirInv, NobodyOpen
<1> QED BY <1>0, <1>1, <1>2, <1>3, <1>4, <1>5 DEF Next, Expire, vars, storageVars

LEMMA EmptyDir ==
  ASSUME TypeOK, DirInv, NEW u \in Upload, ~partsDir[u] PROVE partFile[u] = NoPartFiles
<1>1. partFile[u] \in [Part -> Data \cup {NoFile}] /\ \A p \in Part : partFile[u][p] = NoFile
  BY DEF TypeOK, StorageTypeOK, DirInv
<1> QED BY <1>1 DEF NoPartFiles

-----------------------------------------------------------------------------
\* No parts are left.

PartsInv == \A u \in Upload \ raced : SweptInv(u)

PartsGone == \A u \in Upload \ raced : uploads[u].status = "deleted" =>
                 ~partsDir[u] /\ partFile[u] = NoPartFiles

LeftoverNext == Next /\ Remember(Overlap)

\* Remembering disturbs nothing.
THEOREM RememberingHarmless == LeftoverSpec => Spec
<1>1. [LeftoverNext]_<<vars, raced>> => [Next]_vars
  BY DEF LeftoverNext
<1> QED BY <1>1, PTL DEF LeftoverSpec, LeftoverNext, Spec

LEMMA NotRaced ==
  ASSUME [LeftoverNext]_<<vars, raced>>, NEW u \in Upload \ raced'
  PROVE  u \notin raced /\ (UNCHANGED vars \/ ~Overlap(u))
  BY DEF LeftoverNext, Remember

LEMMA SweptFrame == ASSUME NEW u \in Upload, SweptInv(u), UNCHANGED vars PROVE SweptInv(u)'
  BY DEF vars, repoVars, storageVars, ingestVars, finalizerVars, removalVars, SweptInv, Unsent,
         Swept, MkdirLate, Sending

LEMMA PartsInvNext ==
  ASSUME TypeOK, "io" \notin Faults, PartsInv, [LeftoverNext]_<<vars, raced>>
  PROVE  PartsInv'
<1>1. [Next]_vars
  BY DEF LeftoverNext
<1> SUFFICES ASSUME NEW u \in Upload \ raced' PROVE SweptInv(u)'
  BY DEF PartsInv
<1> QED BY <1>1, NotRaced, SweptNext, SweptFrame DEF PartsInv

LEMMA PartsInvInit == Init => PartsInv /\ DirInv
<1> SUFFICES ASSUME Init PROVE PartsInv /\ DirInv
  OBVIOUS
<1>1. DirInv
  BY DEF Init, StorageInit, NoPartFiles, NobodyOpen, DirInv
<1>2. PartsInv
  BY DEF Init, RepoInit, StorageInit, IngestInit, FinalizerInit, RemovalInit, NoRow, NoPut, NoTask,
         NoCancel, Sleeping, PartsInv, SweptInv, Unsent, Swept, Sending, MkdirLate
<1> QED BY <1>1, <1>2

\* Nobody removes an upload and leaves parts of it behind, through failing
\* statements, dropped requests and restarts, unless a request or a task was
\* writing it while it was being removed.
THEOREM RemovedWithoutParts ==
  ASSUME "io" \notin Faults PROVE LeftoverSpec => []PartsGone
<1>1. DirInv /\ TypeOK /\ [Next]_vars => DirInv'
  BY DirNext
<1>2. TypeOK /\ PartsInv /\ [LeftoverNext]_<<vars, raced>> => PartsInv'
  BY PartsInvNext
<1>3. ServerInv /\ PartsInv /\ DirInv => PartsGone
  BY EmptyDir DEF ServerInv, PartsInv, SweptInv, Swept, PartsGone
<1>4. [LeftoverNext]_<<vars, raced>> => [Next]_vars
  BY DEF LeftoverNext
<1>5. ServerInv => TypeOK
  BY DEF ServerInv
<1> QED BY <1>1, <1>2, <1>3, <1>4, <1>5, RememberingHarmless, ServerInvariant,
           PartsInvInit, PTL DEF LeftoverSpec, LeftoverNext, Spec

-----------------------------------------------------------------------------
\* The final file.

RowPath(r) == r.status = "complete" => r.hasFinalPath

\* A complete upload has a final path, so that a removal finds the file.
PathInv == \A u \in Upload : RowPath(uploads[u])

LEMMA PathOfRow ==
  ASSUME NEW r \in UploadRow, NEW percent, NEW life, RowPath(r)
  PROVE  /\ RowPath([r EXCEPT !.status = "pending"])
         /\ RowPath([r EXCEPT !.status = "deleted"])
         /\ RowPath([r EXCEPT !.status = "finalizing", !.progress = 0, !.stale = FALSE])
         /\ RowPath([r EXCEPT !.progress = percent, !.stale = FALSE])
         /\ RowPath([r EXCEPT !.status = "complete", !.hasFinalPath = TRUE,
                              !.progress = 100, !.stale = FALSE])
         /\ RowPath([r EXCEPT !.status = "failed", !.stale = FALSE])
         /\ RowPath([r EXCEPT !.stale = TRUE])
         /\ RowPath([r EXCEPT !.life = life])
  BY DEF UploadRow, RowPath

\* The statements that change a row.
LEMMA PathOfStatement ==
  ASSUME RepoTypeOK, PathInv, NEW u \in Upload, NEW percent,
         \/ CreateUpload(u) \/ TryStartFinalization(u) \/ RestartStaleFinalization(u)
         \/ UpdateFinalizingProgress(u, percent)
         \/ MarkFinalizationComplete(u) \/ MarkFinalizationFailed(u) \/ DeleteUploadRow(u)
  PROVE  PathInv'
<1>1. uploads \in [Upload -> UploadRow] /\ RowPath(uploads[u])
  BY DEF RepoTypeOK, PathInv
<1>2. ASSUME NEW row, RowPath(row), uploads' = [uploads EXCEPT ![u] = row] PROVE PathInv'
  <2>1. ASSUME NEW v \in Upload PROVE RowPath(uploads'[v])
    BY <1>1, <1>2 DEF PathInv
  <2> QED BY <2>1 DEF PathInv, RowPath
<1>3. ASSUME UNCHANGED uploads PROVE PathInv'
  BY <1>3 DEF PathInv, RowPath
<1>4. CASE CreateUpload(u) \/ DeleteUploadRow(u)
  BY <1>1, <1>2, <1>4, PathOfRow DEF CreateUpload, DeleteUploadRow
<1>5. CASE TryStartFinalization(u) \/ RestartStaleFinalization(u)
  BY <1>1, <1>2, <1>5, PathOfRow DEF TryStartFinalization, RestartStaleFinalization
<1>6. CASE UpdateFinalizingProgress(u, percent)
  BY <1>1, <1>2, <1>3, <1>6, PathOfRow DEF UpdateFinalizingProgress
<1>7. CASE MarkFinalizationComplete(u) \/ MarkFinalizationFailed(u)
  BY <1>1, <1>2, <1>3, <1>7, PathOfRow DEF MarkFinalizationComplete, MarkFinalizationFailed
<1> QED BY <1>4, <1>5, <1>6, <1>7

LEMMA PathNext == TypeOK /\ PathInv /\ [Next]_vars => PathInv'
<1> SUFFICES ASSUME TypeOK, PathInv, [Next]_vars PROVE PathInv'
  OBVIOUS
<1> RepoTypeOK /\ CompleterTypeOK /\ TaskTypeOK /\ RemovalTypeOK
  BY DEF TypeOK, FinalizerTypeOK
<1>0. CASE UNCHANGED uploads
  BY <1>0 DEF PathInv, RowPath
<1>a. uploads \in [Upload -> UploadRow]
  BY DEF RepoTypeOK
<1>1. CASE IngestNext
  <2>1. UNCHANGED uploads \/ \E u \in Upload : CreateUpload(u)
    BY <1>1 DEF IngestNext, InitCreate, InitParts, InitPartsError, CreateParts, PutStart, PutStep,
         PutMkdir, PutCreate, PutWrite, PutMark, UpdatePartStatus, PutIoError, PutDbError, PutAbort,
         LateStep, LateMkdir, LateCreate, LateWrite, ingestVars, repoVars
  <2> QED BY <1>0, <2>1, PathOfStatement
<1>2. ASSUME NEW c \in Completer,
             (\E u \in Upload : CompleteStart(c, u)) \/ CompleterStep(c) \/ CompleteDbError(c)
      PROVE  PathInv'
  <2>1. \/ UNCHANGED uploads
        \/ /\ completer[c].u \in Upload
           /\ RestartStaleFinalization(completer[c].u) \/ TryStartFinalization(completer[c].u)
    BY <1>2 DEF CompleteStart, CompleterStep, CompleteRestart, CompleteCount, CompleteTryStart,
                CompleteDbError, CompleterTypeOK, repoVars
  <2> QED BY <1>0, <2>1, PathOfStatement
<1>3. ASSUME NEW t \in Task, TaskBegin(t) \/ TaskStep(t) \/ TaskFault(t) \/ Heartbeat(t)
      PROVE  PathInv'
  <2>1. task[t].u \in Upload
    BY <1>3 DEF TaskBegin, TaskStep, TaskCheck, TaskUnlink, TaskCreate, TaskAppend, TaskRename,
                TaskPurge, TaskMarkComplete, TaskMarkFailed, TaskNotify, TaskFault,
                TaskBeginDbError, TaskCheckDbError, TaskIoError, TaskMarkDbError, Heartbeat,
                Storing, TaskTypeOK
  <2>2. \/ UNCHANGED uploads
        \/ \E percent \in Progress : UpdateFinalizingProgress(task[t].u, percent)
        \/ MarkFinalizationComplete(task[t].u)
        \/ MarkFinalizationFailed(task[t].u)
    BY <1>3 DEF TaskBegin, TaskStep, TaskCheck, TaskUnlink, TaskCreate, TaskAppend, TaskRename,
                TaskPurge, TaskMarkComplete, TaskMarkFailed, TaskNotify, TaskFault,
                TaskBeginDbError, TaskCheckDbError, TaskIoError, TaskMarkDbError, Heartbeat,
                repoVars, Progress
  <2> QED BY <1>0, <2>1, <2>2, PathOfStatement
<1>4. ASSUME NEW u \in Upload, LateBeat(u) PROVE PathInv'
  BY <1>4, PathOfStatement DEF LateBeat
<1>5. ASSUME NEW u \in Upload, GoStale(u) \/ Expire(u) PROVE PathInv'
  <2>1. PICK row : RowPath(row) /\ uploads' = [uploads EXCEPT ![u] = row]
    BY <1>5, <1>a, PathOfRow DEF GoStale, Expire, PathInv
  <2> QED BY <1>a, <2>1 DEF PathInv, RowPath
<1>6. CASE RemovalNext
  <2>1. UNCHANGED uploads \/ \E u \in Upload : DeleteUploadRow(u)
    BY <1>6 DEF RemovalNext, CancelStart, CancelStep, CancelPurge, CancelUnlink, CancelRows, CancelRow,
         CancelDbError, CancelAbort, CleanStep, CleanList, CleanPurge, CleanRows, CleanRow,
         CleanDbError, DeletePartRows, RemovalTypeOK, repoVars
  <2> QED BY <1>0, <2>1, PathOfStatement
<1>7. CASE CrashRestart
  <2>1. PICK again \in SUBSET FinalizingUploads :
          uploads' = [u \in Upload |-> IF u \in again
                                       THEN [uploads[u] EXCEPT !.progress = 0, !.stale = FALSE]
                                       ELSE uploads[u]]
    BY <1>7 DEF CrashRestart
  <2>2. \A u \in Upload : RowPath([uploads[u] EXCEPT !.progress = 0, !.stale = FALSE])
    BY <1>a DEF PathInv, RowPath, UploadRow
  <2>3. \A u \in Upload : RowPath(uploads'[u])
    BY <2>1, <2>2 DEF PathInv
  <2> QED BY <2>3 DEF PathInv, RowPath
<1> QED BY <1>0, <1>1, <1>2, <1>3, <1>4, <1>5, <1>6, <1>7 DEF Next, FinalizerNext, vars, repoVars

HasFinal(u) == finalFile[u] # NoFile

\* Its task is past the rename, or has said so in the row.
Finalized(u) == \/ uploads[u].status = "complete"
                \/ \E t \in Task : task[t].pc \in {"purge", "mark_ok"} /\ task[t].u = u

\* A removal that will not look for a final file, or has deleted it.
Erasing(u) == \/ \E d \in Canceller : canceller[d].pc \in {"purge", "rows", "row"} /\ canceller[d].u = u
              \/ u \in cleaner.todo
              \/ cleaner.u = u

FinalTrace(u) == /\ HasFinal(u) => Finalized(u)
                 /\ Erasing(u) \/ uploads[u].status = "deleted" => ~HasFinal(u)
                 /\ uploads[u].status = "deleted" => ~HasTask(u)

LEMMA UncontestedBefore ==
  ASSUME ServerInv, [Next]_vars, NEW u \in Upload, ~contested'[u] PROVE ~contested[u]
<1>1. contested \in [Upload -> BOOLEAN] /\ contested' \in [Upload -> BOOLEAN]
  BY NextTyped DEF ServerInv, TypeOK, FinalizerTypeOK
<1>2. CASE FinalizerNext /\ UNCHANGED <<ingestVars, removalVars, crashes>>
  <2>1. ASSUME NEW c \in Completer,
               (\E v \in Upload : CompleteStart(c, v)) \/ CompleterStep(c) \/ CompleteDbError(c)
        PROVE  contested'[u] = FALSE => ~contested[u]
    BY <1>1, <1>2, <2>1, CompleterSummary DEF ServerInv
  <2> QED BY <1>1, <1>2, <2>1, FinalizerSummary
          DEF QuietRow, QuietTask, OutcomeTask, FinalizersFrame, ServerInv
<1> QED BY <1>2 DEF Next, finalizerVars, CrashRestart, Expire, vars

\* A file that an upload has, or a task past its rename, means that the row
\* says finalizing or complete.
LEMMA FileMeansFinalized ==
  ASSUME ServerInv, NEW u \in Upload, ~contested[u], FinalTrace(u), HasFinal(u)
  PROVE  uploads[u].status \in {"finalizing", "complete"}
<1>1. uploads[u].status # "deleted" /\ Finalized(u) /\ Tells(u)
  BY DEF FinalTrace, ServerInv, TellInv
<1> QED BY <1>1 DEF Finalized, Tells, Busy, Working, Running, Storing

\* Steps that leave the file, the removals and the tasks alone.
LEMMA FinalFrame ==
  ASSUME NEW u \in Upload, FinalTrace(u), finalFile'[u] = finalFile[u],
         UNCHANGED <<task, removalVars>>,
         uploads'[u].status = uploads[u].status \/ uploads'[u].status \notin {"complete", "deleted"},
         uploads[u].status = "complete" => uploads'[u].status = "complete"
  PROVE  FinalTrace(u)'
  BY DEF FinalTrace, HasFinal, Finalized, Erasing, HasTask, Working, removalVars

LEMMA IngestFinal ==
  ASSUME ServerInv, IngestNext, UNCHANGED <<finalizerVars, removalVars, crashes>>,
         NEW u \in Upload, FinalTrace(u)
  PROVE  FinalTrace(u)'
<1>a. RepoTypeOK
  BY DEF ServerInv, TypeOK
<1>1. UNCHANGED finalFile
  BY DEF IngestNext, InitCreate, InitParts, InitPartsError, PutStart, PutStep, PutMkdir, PutCreate,
         PutWrite, PutMark, PutIoError, PutDbError, PutAbort, LateStep, LateMkdir, LateCreate, LateWrite, ingestVars, CreatePartsDir,
         CreatePartFile, WritePartFile, BreakOffWrite, AbandonWrite, WriteAbandoned, storageVars
<1>2. UNCHANGED uploads \/ \E v \in Upload : InitCreate(v)
  BY DEF IngestNext, InitParts, InitPartsError, CreateParts, PutStart, PutStep, PutMkdir, PutCreate,
         PutWrite, PutMark, UpdatePartStatus, PutIoError, PutDbError, PutAbort, LateStep, LateMkdir, LateCreate, LateWrite, ingestVars, repoVars
<1>3. ASSUME NEW v \in Upload, InitCreate(v)
      PROVE  SetsStatus(v, "pending") /\ uploads[v].status = "none"
  BY <1>a, <1>3, StatusOfStatement DEF InitCreate, ServerInv, RowInv, FreshInv
<1> QED BY <1>1, <1>2, <1>3, FinalFrame DEF SetsStatus, finalizerVars

\* The file appears by the rename of a task that has the upload.
LEMMA FinalGrows ==
  ASSUME ServerInv, FinalizerNext, NEW u \in Upload
  PROVE  \/ HasFinal(u)' <=> HasFinal(u)
         \/ \E t \in Task : TaskRename(t) /\ TaskGoto(t, "purge") /\ task[t].u = u
<1>a. StorageTypeOK /\ TaskTypeOK
  BY DEF ServerInv, TypeOK, FinalizerTypeOK
<1>1. CASE ~\E t \in Task : FileStep(t)
  BY <1>1
     DEF FinalizerNext, FileStep, CompleteStart, CompleterStep, CompleteRestart, CompleteCount,
         CompleteTryStart, CompleteDbError, TaskBegin, TaskStep, TaskCheck, TaskMarkComplete,
         TaskMarkFailed, TaskNotify, TaskFault, TaskBeginDbError, TaskCheckDbError,
         TaskMarkDbError, Heartbeat, LateBeat, GoStale, storageVars, HasFinal
<1>2. ASSUME NEW t \in Task, FileStep(t)
      PROVE  \/ HasFinal(u)' <=> HasFinal(u)
             \/ TaskRename(t) /\ TaskGoto(t, "purge") /\ task[t].u = u
  <2>1. task[t].u \in Upload
    BY <1>2, <1>a, FileStepMoves DEF TaskTypeOK, Storing
  <2> DEFINE Appends == /\ task[t].next \in Part
                        /\ partFile[task[t].u][task[t].next] # NoFile
                        /\ AppendPart(t, task[t].u, task[t].next)
  <2>2. \/ UNCHANGED finalFile
        \/ Appends
        \/ TaskRename(t) /\ TaskGoto(t, "purge") /\ RenameStaging(t, task[t].u)
    BY <1>2, <1>a
       DEF FileStep, TaskUnlink, TaskCreate, TaskAppend, TaskRename, TaskPurge, TaskIoError,
           Abandon, CloseStaging, RemoveStaleStaging, CreateStaging, DeleteParts,
           DeletePartsPartly, TaskTypeOK
  <2>3. CASE Appends
    <3>1. StorageTypeOK' /\ UNCHANGED finalOpen
      BY <1>a, <2>1, <2>3, AppendTyped DEF AppendPart
    <3>2. CASE t \in finalOpen[u]
      <4>1. finalFile[u] # NoFile
        BY <1>a, <3>2 DEF StorageTypeOK
      <4>2. finalFile'[u] # NoFile
        BY <3>1, <3>2 DEF StorageTypeOK
      <4> QED BY <4>1, <4>2 DEF HasFinal
    <3>3. CASE t \notin finalOpen[u]
      <4>1. finalFile'[u] = finalFile[u]
        BY <1>a, <2>1, <2>3, <3>3 DEF AppendPart, StorageTypeOK
      <4> QED BY <4>1 DEF HasFinal
    <3> QED BY <3>2, <3>3
  <2>4. CASE TaskRename(t) /\ TaskGoto(t, "purge") /\ RenameStaging(t, task[t].u)
    BY <1>a, <2>1, <2>4 DEF RenameStaging, HasFinal, StorageTypeOK
  <2> QED BY <2>2, <2>3, <2>4 DEF HasFinal
<1> QED BY <1>1, <1>2

\* Complete requests give tasks to uploads whose row is there.
LEMMA CompleterFinal ==
  ASSUME ServerInv, NEW c \in Completer, UNCHANGED <<ingestVars, removalVars, crashes>>,
         (\E v \in Upload : CompleteStart(c, v)) \/ CompleterStep(c) \/ CompleteDbError(c),
         NEW u \in Upload, ~contested[u], FinalTrace(u)
  PROVE  FinalTrace(u)'
<1>1. UNCHANGED finalFile
  BY DEF CompleteStart, CompleterStep, CompleteRestart, CompleteCount, CompleteTryStart,
         CompleteDbError, storageVars
<1>2. CASE SameStatus /\ UNCHANGED task
  BY <1>1, <1>2, FinalFrame DEF SameStatus
<1>3. ASSUME NEW v, NEW t \in Task, Spawned(t, v),
             \/ uploads[v].status = "finalizing" /\ SameStatus
             \/ uploads[v].status \in {"pending", "failed"} /\ SetsStatus(v, "finalizing")
      PROVE  FinalTrace(u)'
  <2>1. uploads'[u].status \in {"complete", "deleted"} \/ uploads[u].status \in {"complete", "deleted"}
           => uploads'[u].status = uploads[u].status /\ u # v
    BY <1>3 DEF SameStatus, SetsStatus
  <2>2. Finalized(u) => Finalized(u)'
    BY <1>3, <2>1 DEF Finalized, Spawned
  <2>3. u # v => (HasTask(u)' => HasTask(u))
    BY <1>3 DEF HasTask, Spawned, Working
  <2> QED BY <1>1, <2>1, <2>2, <2>3 DEF FinalTrace, HasFinal, Erasing, removalVars
<1> QED BY <1>2, <1>3, CompleterSummary DEF ServerInv

\* Where a task goes that is past its rename.
LEMMA PastRename ==
  ASSUME ServerInv, Faults \cap {"io", "db"} = {}, NEW t \in Task,
         TaskBegin(t) \/ TaskStep(t) \/ TaskFault(t), task[t].pc \in {"purge", "mark_ok"}
  PROVE  \/ task[t].pc = "purge" /\ task'[t].pc = "mark_ok" /\ task'[t].u = task[t].u
         \/ TaskMarkComplete(t)
<1> TaskTypeOK
  BY DEF ServerInv, TypeOK, FinalizerTypeOK
<1>1. TaskPurge(t) \/ TaskMarkComplete(t)
  BY DEF TaskBegin, TaskStep, TaskCheck, TaskUnlink, TaskCreate, TaskAppend, TaskRename,
         TaskMarkFailed, TaskNotify, TaskFault, TaskBeginDbError, TaskCheckDbError, TaskIoError,
         TaskMarkDbError
<1> QED BY <1>1, TaskMoves DEF TaskPurge

LEMMA TaskFinal ==
  ASSUME ServerInv, Faults \cap {"io", "db"} = {}, FinalizerNext,
         UNCHANGED <<ingestVars, removalVars, crashes>>,
         NEW t \in Task, TaskBegin(t) \/ TaskStep(t) \/ TaskFault(t),
         NEW u \in Upload, ~contested[u], ~Overlap(u), FinalTrace(u)
  PROVE  FinalTrace(u)'
<1>1. QuietTask(t) \/ OutcomeTask(t)
  BY TaskQuiet, TaskOutcome DEF TaskStep, ServerInv
<1>2. Erasing(u)' <=> Erasing(u)
  BY DEF Erasing, removalVars
<1>3. HasTask(u)' => HasTask(u)
  BY <1>1 DEF HasTask, QuietTask, OutcomeTask, Working, Running, Storing
<1>t. Tells(u) /\ \A s \in Task \ {t} : task'[s] = task[s]
  BY <1>1 DEF ServerInv, TellInv, QuietTask, OutcomeTask
<1>s. uploads'[u].status = "deleted" => uploads[u].status = "deleted"
  BY <1>1 DEF QuietTask, OutcomeTask, SameStatus, SetsStatus
<1>4. ASSUME HasFinal(u)' <=> HasFinal(u) PROVE FinalTrace(u)'
  <2>1. ASSUME Finalized(u), HasFinal(u) PROVE Finalized(u)'
    <3>1. uploads[u].status \in {"finalizing", "complete"}
      BY <2>1, FileMeansFinalized
    <3>2. CASE uploads[u].status = "complete"
      <4>1. OutcomeTask(t) => task[t].u # u
        BY <3>2, <1>t DEF OutcomeTask, Tells, Busy, Working, Running, Storing
      <4>2. uploads'[u].status = "complete"
        BY <1>1, <3>2, <4>1 DEF QuietTask, OutcomeTask, SameStatus, SetsStatus
      <4> QED BY <4>2 DEF Finalized
    <3>3. CASE uploads[u].status = "finalizing"
      <4>1. PICK s \in Task : task[s].pc \in {"purge", "mark_ok"} /\ task[s].u = u
        BY <2>1, <3>3 DEF Finalized
      <4>2. CASE s # t
        BY <1>t, <4>1, <4>2 DEF Finalized
      <4>3. CASE s = t
        <5>1. CASE task'[t].pc = "mark_ok" /\ task'[t].u = task[t].u
          BY <4>1, <4>3, <5>1 DEF Finalized
        <5>2. CASE TaskMarkComplete(t)
          <6>1. uploads'[u].status = "complete"
            BY <3>3, <4>1, <4>3, <5>2, StatusOfStatement
               DEF TaskMarkComplete, ServerInv, TypeOK, SetsStatus, RowExists, InRow
          <6> QED BY <6>1 DEF Finalized
        <5> QED BY <4>1, <4>3, <5>1, <5>2, PastRename
      <4> QED BY <4>2, <4>3
    <3> QED BY <3>1, <3>2, <3>3
  <2> QED BY <1>2, <1>3, <1>4, <1>s, <2>1 DEF FinalTrace
<1>5. ASSUME NEW s \in Task, TaskRename(s), TaskGoto(s, "purge"), task[s].u = u PROVE FinalTrace(u)'
  <2>1. /\ task'[s].pc = "purge" /\ task'[s].u = u
        /\ Working(s)
    BY <1>5, TaskMoves DEF ServerInv, TypeOK, FinalizerTypeOK, TaskRename, Working, Running, Storing
  <2>2. HasTask(u) /\ BeingWritten(u)
    BY <1>5, <2>1, WritersWrite DEF HasTask, ServerInv
  <2>3. ~Erasing(u)
    BY <2>2 DEF Overlap, BeingRemoved, Erasing
  <2> QED BY <1>2, <1>3, <1>s, <2>1, <2>2, <2>3 DEF FinalTrace, Finalized
<1> QED BY <1>4, <1>5, FinalGrows

\* Removals: who starts one either finds no file or is going to delete it.
LEMMA RemovalFinal ==
  ASSUME ServerInv, PathInv, Faults \cap {"io", "db"} = {}, RemovalNext,
         UNCHANGED <<ingestVars, finalizerVars, crashes>>,
         NEW u \in Upload, ~contested[u], ~Overlap(u), FinalTrace(u)
  PROVE  FinalTrace(u)'
<1>a. RepoTypeOK /\ StorageTypeOK /\ RemovalTypeOK /\ UNCHANGED task
  BY DEF ServerInv, TypeOK, finalizerVars
<1>1. HasFinal(u)' => HasFinal(u)
  <2>1. UNCHANGED finalFile \/ \E v : DeleteFile(v)
    BY DEF RemovalNext, CancelStart, CancelStep, CancelPurge, CancelUnlink, CancelRows, CancelRow,
         CancelDbError, CancelAbort, CleanStep, CleanList, CleanPurge, CleanRows, CleanRow,
         CleanDbError, DeleteParts, DeletePartsPartly, storageVars
  <2> QED BY <1>a, <2>1 DEF DeleteFile, HasFinal, StorageTypeOK
<1>2. /\ uploads'[u].status \in {uploads[u].status, "deleted"}
      /\ uploads'[u].status = "deleted" /\ uploads[u].status # "deleted" => Erasing(u)
  <2>1. ASSUME NEW v \in Upload, DeleteUploadRow(v), v = u => Erasing(u)
        PROVE  /\ uploads'[u].status \in {uploads[u].status, "deleted"}
               /\ uploads'[u].status = "deleted" /\ uploads[u].status # "deleted" => Erasing(u)
    BY <1>a, <2>1, StatusOfStatement DEF SetsStatus
  <2>2. ASSUME NEW d \in Canceller, CancelRow(d)
        PROVE  \E v \in Upload : DeleteUploadRow(v) /\ (v = u => Erasing(u))
    BY <1>a, <2>2 DEF CancelRow, Erasing, RemovalTypeOK
  <2>3. CASE CleanRow
    <3>1. cleaner.u \in Upload /\ DeleteUploadRow(cleaner.u) /\ (cleaner.u = u => Erasing(u))
      BY <1>a, <2>3 DEF CleanRow, Erasing, RemovalTypeOK
    <3> QED BY <2>1, <3>1
  <2>4. CASE ~CleanRow /\ ~\E d \in Canceller : CancelRow(d)
    <3>1. UNCHANGED uploads
      BY <2>4 DEF RemovalNext, CancelStart, CancelStep, CancelPurge, CancelUnlink, CancelRows,
           CancelDbError, CancelAbort, CleanStep, CleanList, CleanPurge, CleanRows,
           CleanDbError, DeletePartRows, repoVars
    <3> QED BY <3>1
  <2> QED BY <2>1, <2>2, <2>3, <2>4
<1>3. ASSUME Erasing(u)', ~Erasing(u), HasFinal(u) PROVE ~HasFinal(u)'
  <2>1. uploads[u].status \in {"finalizing", "complete"} /\ RowPath(uploads[u])
    BY <1>3, FileMeansFinalized DEF PathInv
  <2>2. ASSUME NEW d \in Canceller, NEW v \in Upload, CancelStart(d, v) PROVE FALSE
    <3>1. v = u /\ canceller'[d].pc \in {"purge", "rows", "row"}
      BY <1>3, <1>a, <2>2 DEF CancelStart, Erasing, RemovalTypeOK
    <3> QED BY <1>a, <2>1, <2>2, <3>1 DEF CancelStart, RowPath, RemovalTypeOK
  <2>3. CASE CleanStep \/ CleanDbError
    <3>1. /\ cleaner'.todo \subseteq cleaner.todo \cup ExpiredPendingUploads
          /\ cleaner'.u = u => cleaner.u = u \/ u \in cleaner.todo
      <4>1. CASE CleanList \/ CleanRows
        BY <1>a, <4>1 DEF CleanList, CleanRows, RemovalTypeOK
      <4>2. CASE CleanPurge
        BY <4>2 DEF CleanPurge
      <4>3. CASE CleanNext
        BY <1>a, <4>3, ValuesAssumption DEF CleanNext, Sleeping, RemovalTypeOK
      <4> QED BY <2>3, <4>1, <4>2, <4>3 DEF CleanStep, CleanRow, CleanDbError
    <3>2. UNCHANGED canceller
      BY <2>3 DEF CleanStep, CleanList, CleanPurge, CleanRows, CleanRow, CleanDbError
    <3>3. u \notin ExpiredPendingUploads
      BY <2>1 DEF ExpiredPendingUploads
    <3> QED BY <1>3, <3>1, <3>2, <3>3 DEF Erasing
  <2>4. ASSUME NEW d \in Canceller, CancelStep(d) \/ CancelAbort(d) \/ CancelDbError(d)
        PROVE  ~HasFinal(u)'
    <3>1. UNCHANGED cleaner /\ \A e \in Canceller \ {d} : canceller'[e] = canceller[e]
      BY <1>a, <2>4 DEF CancelStep, CancelPurge, CancelUnlink, CancelRows, CancelRow, CancelAbort,
                  CancelDbError, CancelGoto, CancelReturn, RemovalTypeOK
    <3>2. canceller'[d].pc \in {"purge", "rows", "row"} /\ canceller'[d].u = u
      BY <1>3, <3>1 DEF Erasing
    <3>3. CancelPurge(d) \/ CancelUnlink(d) \/ CancelRows(d)
      BY <1>a, <2>4, <3>2 DEF CancelStep, CancelRow, CancelAbort, CancelDbError, CancelReturn,
                              NoCancel, RemovalTypeOK
    <3>4. canceller[d].u = u
      BY <1>a, <3>2, <3>3 DEF CancelPurge, CancelUnlink, CancelRows, CancelGoto, RemovalTypeOK
    <3>5. CancelUnlink(d)
      BY <1>3, <3>3, <3>4 DEF Erasing, CancelPurge, CancelRows
    <3>6. DeleteFile(u)
      BY <3>4, <3>5 DEF CancelUnlink
    <3> QED BY <1>a, <3>6 DEF DeleteFile, HasFinal, StorageTypeOK
  <2> QED BY <2>2, <2>3, <2>4 DEF RemovalNext
<1>4. HasTask(u)' <=> HasTask(u)
  BY <1>a DEF HasTask, Working
<1>5. Erasing(u) => ~HasTask(u)
  <2>1. Erasing(u) => BeingRemoved(u)
    BY DEF Erasing, BeingRemoved
  <2> QED BY <2>1, WritersWrite DEF Overlap, HasTask, ServerInv
<1>6. HasFinal(u)' => Finalized(u)'
  <2>1. HasFinal(u) => Finalized(u)' \/ Erasing(u)
    BY <1>a, <1>2 DEF FinalTrace, Finalized
  <2> QED BY <1>1, <2>1 DEF FinalTrace
<1> QED BY <1>1, <1>2, <1>3, <1>4, <1>5, <1>6 DEF FinalTrace

LEMMA FinalTraceNext ==
  ASSUME ServerInv, PathInv, Faults \cap {"io", "db", "crash"} = {}, [Next]_vars,
         NEW u \in Upload, UNCHANGED vars \/ ~Overlap(u), ~contested'[u],
         ~contested[u] => FinalTrace(u)
  PROVE  FinalTrace(u)'
<1>1. ~contested[u] /\ FinalTrace(u)
  BY UncontestedBefore
<1>2. CASE IngestNext /\ UNCHANGED <<finalizerVars, removalVars, crashes>>
  BY <1>1, <1>2, IngestFinal
<1>3. CASE RemovalNext /\ UNCHANGED <<ingestVars, finalizerVars, crashes>> /\ ~Overlap(u)
  BY <1>1, <1>3, RemovalFinal
<1>4. ASSUME QuietRow, UNCHANGED <<finalFile, removalVars>> PROVE FinalTrace(u)'
  BY <1>1, <1>4, FinalFrame DEF QuietRow, SameStatus
<1>5. CASE FinalizerNext /\ UNCHANGED <<ingestVars, removalVars, crashes>> /\ ~Overlap(u)
  <2>1. CASE \/ \E t \in Task : Heartbeat(t)
             \/ \E v \in Upload : LateBeat(v) \/ GoStale(v)
    <3>1. QuietRow
      BY <1>5, <2>1, RowQuiet DEF ServerInv
    <3> QED BY <1>4, <1>5, <2>1, <3>1 DEF Heartbeat, LateBeat, GoStale, storageVars
  <2> QED BY <1>1, <1>5, <2>1, CompleterFinal, TaskFinal DEF FinalizerNext
<1>6. CASE (\E v \in Upload : Expire(v)) \/ UNCHANGED vars
  <2>1. QuietRow
    BY <1>6, RowQuiet DEF ServerInv
  <2> QED BY <1>4, <1>6, <2>1 DEF Expire, vars, storageVars
<1> QED BY <1>2, <1>3, <1>5, <1>6 DEF Next, CrashRestart, vars

FinalInv == \A u \in Upload \ raced : ~contested[u] => FinalTrace(u)

LEMMA FinalInvNext ==
  ASSUME ServerInv, PathInv, Faults \cap {"io", "db", "crash"} = {}, FinalInv,
         [LeftoverNext]_<<vars, raced>>
  PROVE  FinalInv'
<1>1. [Next]_vars
  BY DEF LeftoverNext
<1> SUFFICES ASSUME NEW u \in Upload \ raced', ~contested'[u] PROVE FinalTrace(u)'
  BY DEF FinalInv
<1>2. u \notin raced /\ (UNCHANGED vars \/ ~Overlap(u))
  BY NotRaced
<1> QED BY <1>1, <1>2, FinalTraceNext DEF FinalInv

LEMMA FinalInvInit == Init => FinalInv /\ PathInv
<1> SUFFICES ASSUME Init PROVE FinalInv /\ PathInv
  OBVIOUS
<1>1. PathInv
  BY DEF Init, RepoInit, NoRow, PathInv, RowPath
<1>2. FinalInv
  BY ValuesAssumption
     DEF Init, RepoInit, StorageInit, FinalizerInit, RemovalInit, NoRow, NoTask, NoCancel, Sleeping,
         FinalInv, FinalTrace, HasFinal, Erasing, HasTask, Working, Running, Storing
<1> QED BY <1>1, <1>2

\* A removal that nobody disturbs leaves no trace of the upload, with dropped
\* requests and expiring uploads.  The faults that are excluded leave a final
\* file behind: when the parts cannot be deleted, the outcome cannot be recorded
\* or the process dies after the rename, the upload can end up failed, and a
\* removal of an upload that is not complete deletes its parts only.
THEOREM RemovedWithoutTraceSafe ==
  ASSUME Faults \cap {"io", "db", "crash"} = {}
  PROVE  LeftoverSpec => []RemovedWithoutTrace
<1>0. "io" \notin Faults
  OBVIOUS
<1>1. LeftoverSpec => []PartsGone
  BY <1>0, RemovedWithoutParts
<1>2. PathInv /\ TypeOK /\ [Next]_vars => PathInv'
  BY PathNext
<1>3. ServerInv /\ PathInv /\ FinalInv /\ [LeftoverNext]_<<vars, raced>> => FinalInv'
  BY FinalInvNext
<1>4. PartsGone /\ FinalInv => RemovedWithoutTrace
  BY DEF PartsGone, FinalInv, FinalTrace, HasFinal, RemovedWithoutTrace
<1>5. [LeftoverNext]_<<vars, raced>> => [Next]_vars
  BY DEF LeftoverNext
<1>6. ServerInv => TypeOK
  BY DEF ServerInv
<1> QED BY <1>1, <1>2, <1>3, <1>4, <1>5, <1>6, RememberingHarmless, ServerInvariant, FinalInvInit,
           PTL DEF LeftoverSpec, LeftoverNext, Spec
=============================================================================
