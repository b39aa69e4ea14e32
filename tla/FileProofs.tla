----------------------------- MODULE FileProofs -----------------------------
(***************************************************************************)
(* What is recorded stays recoverable: the files of UploadServer agree     *)
(* with its rows.  OnePut says that nobody else writes a part that is      *)
(* recorded, which needs the discipline of the client.  FileInv says of an *)
(* upload, for each point at which its PUTs and its task can be, what its  *)
(* part files, its staging file and its final file hold.                   *)
(***************************************************************************)
EXTENDS LifecycleProofs

\* One PUT of a part at a time; a set of requests in flight is finite.
Discipline == MaxPerPart = 1 /\ IsFiniteSet(Writer)

Sending(w) == put[w].pc # "idle"

\* A part is being sent by one request at most, and is not recorded meanwhile.
OnePut ==
    /\ \A w, x \in Writer : /\ Sending(w) /\ Sending(x)
                            /\ put[w].u = put[x].u /\ put[w].p = put[x].p
                            => w = x
    /\ \A w \in Writer : Sending(w) =>
            Known(put[w].u) /\ parts[put[w].u][put[w].p] \in {"norow", "pending"}

\* Requests go on or end, and what they send stays unrecorded.
LEMMA OnePutFrame ==
  ASSUME OnePut,
         \A w \in Writer : Sending(w)' =>
            /\ Sending(w) /\ put'[w].u = put[w].u /\ put'[w].p = put[w].p
            /\ client'[put[w].u] = "known"
            /\ parts'[put[w].u][put[w].p] \in {"norow", "pending"}
  PROVE  OnePut'
<1>1. \A w, x \in Writer : /\ Sending(w)' /\ Sending(x)'
                           /\ put'[w].u = put'[x].u /\ put'[w].p = put'[x].p
                           => w = x
  BY DEF OnePut
<1>2. ASSUME NEW w \in Writer, Sending(w)'
      PROVE  client'[put'[w].u] = "known" /\ parts'[put'[w].u][put'[w].p] \in {"norow", "pending"}
  BY <1>2
<1> QED BY <1>1, <1>2 DEF OnePut, Known

\* What a request under way is about.
LEMMA SendingTyped ==
  ASSUME TypeOK, NEW w \in Writer, Sending(w)
  PROVE  /\ put[w].u \in Upload /\ put[w].p \in Part /\ put[w].body \in Content
         /\ put[w].pc \in PutPc
  BY DEF TypeOK, IngestTypeOK, Sending

\* With one PUT of a part allowed, a new one is the only one.
LEMMA NoneUnderWay ==
  ASSUME Discipline, NEW u, NEW p, Cardinality(PutsOf(u, p)) < MaxPerPart
  PROVE  \A w \in Writer : Sending(w) => ~(put[w].u = u /\ put[w].p = p)
<1>1. PutsOf(u, p) \subseteq Writer /\ IsFiniteSet(Writer)
  BY DEF PutsOf, Discipline
<1>2. IsFiniteSet(PutsOf(u, p))
  BY <1>1, FS_Subset
<1>3. Cardinality(PutsOf(u, p)) = 0
  BY <1>2, FS_CardinalityType DEF Discipline
<1>4. PutsOf(u, p) = {}
  BY <1>2, <1>3, FS_EmptySet
<1> QED BY <1>4 DEF PutsOf, Sending

\* The steps of a PUT after the first: it goes on or it ends.
PutMoves(w) ==
    /\ \A x \in Writer \ {w} : put'[x] = put[x]
    /\ Sending(w)' => /\ put'[w].u = put[w].u /\ put'[w].p = put[w].p
                      /\ put'[w].body = put[w].body

LEMMA PutMovesOn ==
  ASSUME TypeOK, NEW w \in Writer, Sending(w),
         PutReturn(w) \/ \E pc \in PutPc : PutGoto(w, pc)
  PROVE  PutMoves(w)
<1>1. put \in [Writer -> [pc : PutPc, u : Upload \cup {None}, p : Part, body : Data]]
  BY DEF TypeOK, IngestTypeOK
<1>2. CASE PutReturn(w)
  BY <1>1, <1>2 DEF PutReturn, NoPut, PutMoves, Sending
<1>3. ASSUME NEW pc \in PutPc, PutGoto(w, pc) PROVE PutMoves(w)
  BY <1>1, <1>3 DEF PutGoto, PutMoves
<1> QED BY <1>2, <1>3

LEMMA PutStepMoves ==
  ASSUME TypeOK, NEW w \in Writer, PutStep(w) \/ PutIoError(w) \/ PutDbError(w) \/ PutAbort(w)
  PROVE  Sending(w) /\ PutMoves(w) /\ UNCHANGED <<client, uploads>>
<1>1. Sending(w) /\ UNCHANGED <<client, uploads>>
  BY DEF PutStep, PutMkdir, PutCreate, PutWrite, PutMark, PutIoError, PutDbError, PutAbort,
         Sending, UpdatePartStatus, repoVars
<1>2. PutReturn(w) \/ \E pc \in PutPc : PutGoto(w, pc)
  BY DEF PutStep, PutMkdir, PutCreate, PutWrite, PutMark, PutIoError, PutDbError, PutAbort, PutPc
<1> QED BY <1>1, <1>2, PutMovesOn

\* What lands late is about files only.
LEMMA LateStepRows ==
  ASSUME NEW u, NEW p, LateStep(u, p)
  PROVE  UNCHANGED <<client, put, uploads, parts>>
  BY DEF LateStep, LateMkdir, LateCreate, LateWrite, ingestVars, repoVars

\* Part rows only disappear when nobody can be sending.
LEMMA UnrecordedRows ==
  ASSUME RepoTypeOK, NEW u \in Upload, DeletePartRows(u)
  PROVE  \A v \in Upload, p \in Part : parts'[v][p] \in {parts[v][p], "norow"}
  BY DEF DeletePartRows, RepoTypeOK

\* Recording a part changes this part only.
LEMMA RecordedRows ==
  ASSUME RepoTypeOK, NEW u \in Upload, NEW p \in Part, NEW c \in Content,
         UpdatePartStatus(u, p, c)
  PROVE  /\ \A v \in Upload, q \in Part :
               v # u \/ q # p \/ parts[u][p] = "norow" => parts'[v][q] = parts[v][q]
         /\ parts[u][p] # "norow" => parts'[u][p] = c
  BY DEF UpdatePartStatus, RepoTypeOK

LEMMA CreatedRows ==
  ASSUME RepoTypeOK, NEW u \in Upload, NEW n, CreateParts(u, n)
  PROVE  /\ \A v \in Upload \ {u} : parts'[v] = parts[v]
         /\ \A p \in Part : parts'[u][p] \in {"norow", "pending"}
  BY DEF CreateParts, RepoTypeOK

LEMMA IngestOnePut ==
  ASSUME Discipline, TypeOK, OnePut, IngestNext
  PROVE  OnePut'
<1> RepoTypeOK /\ client \in [Upload -> ClientState]
    /\ put \in [Writer -> [pc : PutPc, u : Upload \cup {None}, p : Part, body : Data]]
  BY DEF TypeOK, IngestTypeOK
<1>a. \A w \in Writer : Sending(w) => /\ put[w].u \in Upload /\ put[w].p \in Part
                                     /\ client[put[w].u] = "known"
                                     /\ parts[put[w].u][put[w].p] \in {"norow", "pending"}
  BY SendingTyped DEF OnePut, Known
<1>1. ASSUME NEW u \in Upload, InitCreate(u) \/ InitParts(u) \/ InitPartsError(u)
      PROVE  OnePut'
  <2>1. /\ UNCHANGED put /\ client[u] # "known"
        /\ \A v \in Upload \ {u} : client'[v] = client[v] /\ parts'[v] = parts[v]
    BY <1>1, CreatedRows
       DEF InitCreate, InitParts, InitPartsError, CreateUpload, CreateParts, RepoTypeOK
  <2>2. \A w \in Writer : Sending(w) => put[w].u \in Upload \ {u}
    BY <1>a, <2>1
  <2> QED BY <1>a, <2>1, <2>2, OnePutFrame DEF Sending
<1>2. ASSUME NEW w \in Writer, NEW u \in Upload, NEW p \in Part, NEW body \in Content,
             PutStart(w, u, p, body)
      PROVE  OnePut'
  <2>1. /\ \A x \in Writer \ {w} : put'[x] = put[x]
        /\ put'[w].u = u /\ put'[w].p = p
        /\ client[u] = "known" /\ parts[u][p] = "pending"
        /\ UNCHANGED <<client, parts>>
    BY <1>2 DEF PutStart, PutAllowed, repoVars
  <2>2. \A x \in Writer : Sending(x) => ~(put[x].u = u /\ put[x].p = p)
    BY <1>2, NoneUnderWay DEF PutStart
  <2>3. \A x, y \in Writer : /\ Sending(x)' /\ Sending(y)'
                             /\ put'[x].u = put'[y].u /\ put'[x].p = put'[y].p
                             => x = y
    BY <2>1, <2>2 DEF OnePut, Sending
  <2>4. \A x \in Writer : Sending(x)' => /\ client'[put'[x].u] = "known"
                                         /\ parts'[put'[x].u][put'[x].p] \in {"norow", "pending"}
    BY <1>a, <2>1 DEF Sending
  <2> QED BY <2>3, <2>4 DEF OnePut, Known
<1>3. ASSUME NEW w \in Writer, PutStep(w) \/ PutIoError(w) \/ PutDbError(w) \/ PutAbort(w)
      PROVE  OnePut'
  <2>1. Sending(w) /\ PutMoves(w) /\ UNCHANGED client
    BY <1>3, PutStepMoves
  <2>2. CASE UNCHANGED parts
    BY <1>a, <2>1, <2>2, OnePutFrame DEF PutMoves, Sending
  <2>3. CASE PutMark(w)
    <3>1. /\ UpdatePartStatus(put[w].u, put[w].p, put[w].body) /\ ~Sending(w)'
      BY <2>3 DEF PutMark, PutReturn, NoPut, Sending
    <3>2. \A x \in Writer : Sending(x)' =>
            Sending(x) /\ put'[x] = put[x] /\ (put[x].u # put[w].u \/ put[x].p # put[w].p)
      BY <2>1, <3>1 DEF PutMoves, OnePut, Sending
    <3>3. \A x \in Writer : Sending(x)' => parts'[put[x].u][put[x].p] = parts[put[x].u][put[x].p]
      BY <1>a, <2>1, <3>1, <3>2, SendingTyped, RecordedRows
    <3> QED BY <1>a, <2>1, <3>2, <3>3, OnePutFrame
  <2> QED BY <1>3, <2>2, <2>3
          DEF PutStep, PutMkdir, PutCreate, PutWrite, PutIoError, PutDbError, PutAbort, repoVars
<1>4. ASSUME NEW u \in Upload, NEW p \in Part, LateStep(u, p)
      PROVE  OnePut'
  BY <1>4, LateStepRows DEF OnePut, Known, Sending
<1> QED BY <1>1, <1>2, <1>3, <1>4 DEF IngestNext

\* No step of the finalizer inserts, changes or deletes a part row.
LEMMA FinalizerParts ==
  ASSUME TypeOK, FinalizerNext, UNCHANGED <<ingestVars, removalVars, crashes>>
  PROVE  UNCHANGED <<parts, client, put>>
  BY FinalizerSummary, CompleterSummary
     DEF QuietRow, QuietTask, OutcomeTask, CompleterMoves, FinalizersFrame, ingestVars

\* A removal deletes all part rows of an upload, or none.
LEMMA RemovalParts ==
  ASSUME TypeOK, RemovalNext
  PROVE  \A u \in Upload, p \in Part : parts'[u][p] \in {parts[u][p], "norow"}
<1> RepoTypeOK /\ RemovalTypeOK
  BY DEF TypeOK
<1>1. UNCHANGED parts \/ \E u \in Upload : DeletePartRows(u)
  BY DEF RemovalNext, CancelStart, CancelStep, CancelPurge, CancelUnlink, CancelRows, CancelRow,
         CancelDbError, CancelAbort, CleanStep, CleanList, CleanPurge, CleanRows, CleanRow,
         CleanDbError, DeleteUploadRow, RemovalTypeOK, repoVars
<1> QED BY <1>1, UnrecordedRows

LEMMA OnePutNext == Discipline /\ TypeOK /\ OnePut /\ [Next]_vars => OnePut'
<1> SUFFICES ASSUME Discipline, TypeOK, OnePut, [Next]_vars PROVE OnePut'
  OBVIOUS
<1>a. \A w \in Writer : Sending(w) => /\ put[w].u \in Upload /\ put[w].p \in Part
                                     /\ client[put[w].u] = "known"
                                     /\ parts[put[w].u][put[w].p] \in {"norow", "pending"}
  BY SendingTyped DEF OnePut, Known
<1>1. CASE IngestNext
  BY <1>1, IngestOnePut
<1>2. CASE UNCHANGED <<parts, client, put>>
  BY <1>2 DEF OnePut, Known, Sending
<1>3. CASE RemovalNext /\ UNCHANGED <<ingestVars, finalizerVars, crashes>>
  <2>1. UNCHANGED <<client, put>>
    BY <1>3 DEF ingestVars
  <2> QED BY <1>3, <1>a, <2>1, RemovalParts, OnePutFrame DEF Sending
<1>4. CASE CrashRestart
  BY <1>4 DEF CrashRestart, NoPut, OnePut, Sending
<1> QED BY <1>1, <1>2, <1>3, <1>4, FinalizerParts DEF Next, Expire, vars, repoVars, ingestVars

LEMMA OnePutInit == Init => OnePut
  BY DEF Init, IngestInit, NoPut, OnePut, Sending

-----------------------------------------------------------------------------
\* What a dropped PUT leaves under way: a mkdir, a create or a write of its part.
\* LateApart, a condition on clients: none sends a part again before it has
\* landed.  Then it only ever hits the file of a part that is not recorded.

Bodies(u, p) == partOpen[u][p] \cap Content

LateOn(u, p) == {<<u, p, "mkdir">>, <<u, p, "create">>} \cap late # {} \/ Bodies(u, p) # {}

LateApart == \A w \in Writer : Sending(w) => ~LateOn(put[w].u, put[w].p)

LateUnrecorded ==
    \A u \in Upload, p \in Part : LateOn(u, p) => parts[u][p] \in {"norow", "pending"}

\* A step that leaves nothing more under way.
NoneLater == /\ late' \subseteq late
             /\ \A u \in Upload, p \in Part : Bodies(u, p)' \subseteq Bodies(u, p)

LEMMA NoneLaterOn ==
  ASSUME NoneLater, NEW u \in Upload, NEW p \in Part, LateOn(u, p)' PROVE LateOn(u, p)
  BY DEF NoneLater, LateOn

\* A writer's handle is not that of a dropped write.
LEMMA BodiesOfWrites ==
  ASSUME StorageTypeOK, NEW u \in Upload, NEW p \in Part, NEW w \in Writer, NEW c \in Content,
         \/ CreatePartsDir(u) \/ CreatePartFile(u, p, {}) \/ CreatePartFile(u, p, {w})
         \/ WritePartFile(w, u, p, c) \/ BreakOffWrite(w, u, p) \/ WriteAbandoned(u, p, c)
  PROVE  \A v \in Upload, q \in Part : Bodies(v, q)' \subseteq Bodies(v, q)
<1> USE DEF Bodies, StorageTypeOK
<1>1. CASE CreatePartsDir(u)
  BY <1>1 DEF CreatePartsDir
<1>2. ASSUME NEW openers \in SUBSET Writer, CreatePartFile(u, p, openers)
      PROVE  \A v \in Upload, q \in Part : Bodies(v, q)' \subseteq Bodies(v, q)
  BY <1>2, HandlesAssumption DEF CreatePartFile
<1>3. CASE WritePartFile(w, u, p, c)
  BY <1>3 DEF WritePartFile
<1>4. CASE BreakOffWrite(w, u, p)
  BY <1>4 DEF BreakOffWrite
<1>5. CASE WriteAbandoned(u, p, c)
  BY <1>5 DEF WriteAbandoned
<1> QED BY <1>1, <1>2, <1>3, <1>4, <1>5

LEMMA BodiesOfDeletions ==
  ASSUME StorageTypeOK, NEW u \in Upload, DeleteParts(u) \/ DeletePartsPartly(u) \/ DeleteFile(u)
  PROVE  \A v \in Upload, q \in Part : Bodies(v, q)' \subseteq Bodies(v, q)
<1> USE DEF Bodies, StorageTypeOK
<1>1. CASE DeleteParts(u)
  BY <1>1 DEF DeleteParts, NobodyOpen
<1>2. CASE DeletePartsPartly(u)
  BY <1>2 DEF DeletePartsPartly
<1>3. CASE DeleteFile(u)
  BY <1>3 DEF DeleteFile
<1> QED BY <1>1, <1>2, <1>3

\* Only a dropped PUT leaves something under way, on its own part.
LEMMA IngestLate ==
  ASSUME TypeOK, IngestNext, \A w \in Writer : ~PutAbort(w)
  PROVE  NoneLater
<1>a. StorageTypeOK
  BY DEF TypeOK
<1>1. CASE UNCHANGED <<late, storageVars>>
  BY <1>1 DEF NoneLater, Bodies, storageVars
<1>2. ASSUME NEW w \in Writer, PutStep(w) \/ PutIoError(w) \/ PutDbError(w) PROVE NoneLater
  <2>1. UNCHANGED late /\ Sending(w)
    BY <1>2 DEF PutStep, PutMkdir, PutCreate, PutWrite, PutMark, PutIoError, PutDbError, Sending
  <2>2. put[w].u \in Upload /\ put[w].p \in Part /\ put[w].body \in Content
    BY <2>1, SendingTyped
  <2>3. \/ UNCHANGED <<late, storageVars>>
        \/ CreatePartsDir(put[w].u) \/ CreatePartFile(put[w].u, put[w].p, {w})
        \/ WritePartFile(w, put[w].u, put[w].p, put[w].body)
        \/ BreakOffWrite(w, put[w].u, put[w].p)
    BY <1>2 DEF PutStep, PutMkdir, PutCreate, PutWrite, PutMark, PutIoError, PutDbError
  <2> QED BY <1>a, <1>1, <2>1, <2>2, <2>3, BodiesOfWrites DEF NoneLater
<1>3. ASSUME NEW u \in Upload, NEW p \in Part, LateStep(u, p) PROVE NoneLater
  <2>1. late' \subseteq late
    BY <1>3 DEF LateStep, LateMkdir, LateCreate, LateWrite, ingestVars
  <2>2. CASE LateMkdir(u, p)
    BY <2>1, <2>2 DEF LateMkdir, CreatePartsDir, NoneLater, Bodies
  <2>3. CASE LateCreate(u, p)
    BY <1>a, <2>1, <2>3
       DEF LateCreate, CreatePartFile, storageVars, StorageTypeOK, NoneLater, Bodies
  <2>4. ASSUME NEW c \in Content, WriteAbandoned(u, p, c) PROVE NoneLater
    BY <1>a, <2>1, <2>4 DEF WriteAbandoned, StorageTypeOK, NoneLater, Bodies
  <2> QED BY <1>3, <2>2, <2>3, <2>4 DEF LateStep, LateWrite
<1> QED BY <1>1, <1>2, <1>3
        DEF IngestNext, InitCreate, InitParts, InitPartsError, PutStart

LEMMA TasksLate ==
  ASSUME TypeOK, FinalizerNext, UNCHANGED ingestVars
  PROVE  NoneLater
<1>a. StorageTypeOK /\ TaskTypeOK
  BY DEF TypeOK, FinalizerTypeOK
<1>1. CASE UNCHANGED partOpen
  BY <1>1 DEF NoneLater, Bodies, ingestVars
<1>2. ASSUME NEW t \in Task, task[t].pc = "purge",
             DeleteParts(task[t].u) \/ DeletePartsPartly(task[t].u)
      PROVE  NoneLater
  BY <1>a, <1>2, BodiesOfDeletions DEF TaskTypeOK, NoneLater, ingestVars
<1>3. ASSUME NEW c \in Completer, CompleterStep(c) \/ CompleteDbError(c)
      PROVE  UNCHANGED storageVars
  BY <1>3 DEF CompleterStep, CompleteRestart, CompleteCount, CompleteTryStart, CompleteDbError
<1>4. ASSUME NEW t \in Task, TaskBegin(t) \/ TaskStep(t) \/ TaskFault(t) \/ Heartbeat(t)
      PROVE  NoneLater
  <2>1. \/ UNCHANGED partOpen
        \/ /\ task[t].pc = "purge"
           /\ DeleteParts(task[t].u) \/ DeletePartsPartly(task[t].u)
    BY <1>4
       DEF TaskBegin, TaskStep, TaskFault, Heartbeat, TaskCheck, TaskUnlink, TaskCreate,
           TaskAppend, TaskRename, TaskPurge, TaskMarkComplete, TaskMarkFailed, TaskNotify,
           TaskBeginDbError, TaskCheckDbError, TaskIoError, TaskMarkDbError, Abandon,
           RemoveStaleStaging, CreateStaging, AppendPart, RenameStaging, CloseStaging, storageVars
  <2> QED BY <1>1, <1>2, <2>1
<1> QED BY <1>1, <1>3, <1>4
        DEF FinalizerNext, CompleteStart, LateBeat, GoStale, storageVars

LEMMA RemovalLate ==
  ASSUME TypeOK, RemovalNext, UNCHANGED ingestVars
  PROVE  NoneLater
<1>a. StorageTypeOK /\ RemovalTypeOK
  BY DEF TypeOK
<1>1. \/ UNCHANGED storageVars
      \/ \E u \in Upload : DeleteParts(u) \/ DeletePartsPartly(u) \/ DeleteFile(u)
  BY <1>a
     DEF RemovalNext, CancelStart, CancelStep, CancelPurge, CancelUnlink, CancelRows, CancelRow,
         CancelDbError, CancelAbort, CleanStep, CleanList, CleanPurge, CleanRows, CleanRow,
         CleanDbError, RemovalTypeOK
<1> QED BY <1>a, <1>1, BodiesOfDeletions DEF NoneLater, Bodies, storageVars, ingestVars

LEMMA OnlyDropsLate ==
  ASSUME TypeOK, [Next]_vars
  PROVE  NoneLater \/ \E w \in Writer : PutAbort(w)
<1>1. CASE UNCHANGED <<late, partOpen>>
  BY <1>1 DEF NoneLater, Bodies
<1>2. CASE CrashRestart
  BY <1>2 DEF CrashRestart, NobodyOpen, NoneLater, Bodies
<1> QED BY <1>1, <1>2, IngestLate, TasksLate, RemovalLate
        DEF Next, Expire, vars, ingestVars, storageVars

\* The part of a dropped PUT is not recorded.
LEMMA DroppedUnrecorded ==
  ASSUME TypeOK, OnePut, LateUnrecorded, NEW w \in Writer, PutAbort(w)
  PROVE  LateUnrecorded'
<1> DEFINE v == put[w].u
           q == put[w].p
<1>1. v \in Upload /\ q \in Part /\ UNCHANGED parts /\ parts[v][q] \in {"norow", "pending"}
  BY SendingTyped DEF PutAbort, Sending, OnePut, repoVars
<1> HIDE DEF v, q
<1>2. ASSUME NEW u \in Upload, NEW p \in Part, LateOn(u, p)', u # v \/ p # q PROVE LateOn(u, p)
  <2>1. late' \cap {<<u, p, "mkdir">>, <<u, p, "create">>} \subseteq late
    BY <1>2 DEF PutAbort, v, q
  <2>2. partOpen'[u][p] = partOpen[u][p]
    <3>1. AbandonWrite(w, v, q, put[w].body) => partOpen'[u][p] = partOpen[u][p]
      BY <1>1, <1>2 DEF AbandonWrite, TypeOK, StorageTypeOK
    <3> QED BY <3>1 DEF PutAbort, storageVars, v, q
  <2> QED BY <1>2, <2>1, <2>2 DEF LateOn, Bodies
<1> QED BY <1>1, <1>2 DEF LateUnrecorded

\* Nor is one of which nobody sends what is recorded.
LEMMA ApartUnrecorded ==
  ASSUME TypeOK, LateApart, LateUnrecorded, NoneLater,
         \/ \A u \in Upload, p \in Part : parts'[u][p] \in {parts[u][p], "norow", "pending"}
         \/ \E w \in Writer : PutMark(w)
  PROVE  LateUnrecorded'
<1> SUFFICES ASSUME NEW u \in Upload, NEW p \in Part, LateOn(u, p)
             PROVE  parts'[u][p] \in {"norow", "pending"}
  BY NoneLaterOn DEF LateUnrecorded
<1>1. ASSUME NEW w \in Writer, PutMark(w) PROVE parts'[u][p] = parts[u][p]
  <2>1. Sending(w) /\ UpdatePartStatus(put[w].u, put[w].p, put[w].body)
    BY <1>1 DEF PutMark, Sending
  <2>2. u # put[w].u \/ p # put[w].p
    BY <2>1 DEF LateApart
  <2>3. put[w].u \in Upload /\ put[w].p \in Part /\ put[w].body \in Content
    BY <2>1, SendingTyped
  <2> QED BY <2>1, <2>2, <2>3, RecordedRows DEF TypeOK
<1> QED BY <1>1 DEF LateUnrecorded

LEMMA LateUnrecordedNext ==
  TypeOK /\ OnePut /\ LateApart /\ LateUnrecorded /\ [Next]_vars => LateUnrecorded'
<1> SUFFICES ASSUME TypeOK, OnePut, LateApart, LateUnrecorded, [Next]_vars
             PROVE  LateUnrecorded'
  OBVIOUS
<1>a. RepoTypeOK
  BY DEF TypeOK
<1>1. \/ \A u \in Upload, p \in Part : parts'[u][p] \in {parts[u][p], "norow", "pending"}
      \/ \E w \in Writer : PutMark(w)
  <2>1. ASSUME NEW v \in Upload, InitParts(v) \/ InitPartsError(v)
        PROVE  \A u \in Upload, p \in Part : parts'[u][p] \in {parts[u][p], "norow", "pending"}
    <3>1. \E n : CreateParts(v, n)
      BY <2>1 DEF InitParts, InitPartsError
    <3> QED BY <1>a, <3>1, CreatedRows
  <2>2. CASE IngestNext
    BY <2>1, <2>2, LateStepRows
       DEF IngestNext, InitCreate, CreateUpload, PutStart, PutStep, PutMkdir, PutCreate, PutWrite,
           PutIoError, PutDbError, PutAbort, repoVars
  <2>3. CASE UNCHANGED parts
    BY <2>3
  <2> QED BY <2>2, <2>3, RemovalParts, FinalizerParts
          DEF Next, Expire, CrashRestart, vars, repoVars
<1> QED BY <1>1, OnlyDropsLate, DroppedUnrecorded, ApartUnrecorded

LEMMA LateUnrecordedInit == Init => LateUnrecorded
  BY DEF Init, IngestInit, StorageInit, NobodyOpen, LateOn, Bodies, LateUnrecorded

-----------------------------------------------------------------------------
\* What the files of an upload hold.

AllUploaded(u) == \A p \in Part : Uploaded(u, p)

\* The file of a part that is being sent is truncated, then it has the body.
PutsIntact(u) ==
    \A w \in Writer : Sending(w) /\ put[w].u = u =>
        /\ put[w].pc = "write" => /\ w \in partOpen[u][put[w].p]
                                  /\ partFile[u][put[w].p] = Torn
        /\ put[w].pc = "mark" => partFile[u][put[w].p] = put[w].body

\* The file of a recorded part has what was recorded.  Part files only go when
\* the final file has them all.
PartsIntact(u) ==
    /\ \A p \in Part : Uploaded(u, p) => partFile[u][p] \in {parts[u][p], NoFile}
    /\ \/ \A p \in Part : Uploaded(u, p) => partFile[u][p] = parts[u][p]
       \/ AllUploaded(u) /\ finalFile[u] = parts[u]

\* As long as parts are missing, that of a recorded one is in its file.
PartsHere(u) == \/ AllUploaded(u)
                \/ \A p \in Part : Uploaded(u, p) => partFile[u][p] = parts[u][p]

\* The final file has all parts, and nothing else is left.
Assembled(u) == /\ finalFile[u] = parts[u]
                /\ partFile[u] = NoPartFiles /\ ~partsDir[u]
                /\ staging[u] = NoFile

\* The staging file has the parts that were appended ...
Copied(t, u) ==
    /\ task[t].pc = "append" =>
          /\ t \in stagingOpen[u]
          /\ \A q \in Part : q < task[t].next => staging[u][q] = parts[u][q]
    /\ task[t].pc = "rename" => staging[u] = parts[u]

\* ... and the final file all.
TaskIntact(t, u) ==
    /\ Copied(t, u)
    /\ task[t].pc = "purge" => finalFile[u] = parts[u] /\ staging[u] = NoFile
    /\ task[t].pc = "mark_ok" => Assembled(u)

TasksIntact(u) == \A t \in Task : Busy(t, u) => TaskIntact(t, u)

\* Only the task that assembles has the staging file open, none the final one.
OpenIntact(u) == /\ finalOpen[u] = {}
                 /\ \A t \in stagingOpen[u] : Busy(t, u) /\ task[t].pc \in {"append", "rename"}

CompleteIntact(u) == uploads[u].status = "complete" => Assembled(u)

Intact(u) == /\ PutsIntact(u) /\ PartsIntact(u) /\ TasksIntact(u)
             /\ OpenIntact(u) /\ CompleteIntact(u)

Undisturbed(u) == ~contested[u] /\ u \notin doomed

FileInv == \A u \in Upload : Undisturbed(u) => Intact(u)

LEMMA FileInvImplies == FileInv => NoDataLoss /\ CompletionIntact
  BY DEF FileInv, Undisturbed, Intact, PartsIntact, CompleteIntact, NoDataLoss, CompletionIntact,
         AllUploaded, Assembled

LEMMA FileInvInit == Init => FileInv
  BY ValuesAssumption
     DEF Init, RepoInit, StorageInit, IngestInit, FinalizerInit, NoRow, NoPut, NoTask, FileInv,
         Intact, PutsIntact, PartsIntact, TasksIntact, OpenIntact, CompleteIntact, Uploaded,
         Sending, Busy

-----------------------------------------------------------------------------
\* Who can be at work on an undisturbed upload.

\* Once started, all its parts are recorded, and nobody is sending one.
LEMMA WhenSettled ==
  ASSUME ServerInv, OnePut, NEW u \in Upload, Undisturbed(u), Known(u), Settled(u)
  PROVE  AllUploaded(u) /\ \A w \in Writer : Sending(w) => put[w].u # u
<1>1. \A p \in Part : parts[u][p] # "norow"
  BY DEF ServerInv, RowInv, GoneInv, Undisturbed
<1>2. AllUploaded(u)
  BY <1>1, PartNat DEF Settled, AllUploaded
<1>3. ASSUME NEW w \in Writer, Sending(w), put[w].u = u PROVE FALSE
  <2>1. put[w].p \in Part /\ parts[u][put[w].p] \in {"norow", "pending"}
    BY <1>3, SendingTyped DEF OnePut, ServerInv
  <2> QED BY <1>2, <2>1, ValuesAssumption DEF AllUploaded, Uploaded
<1> QED BY <1>2, <1>3

LEMMA WhenStarted ==
  ASSUME ServerInv, OnePut, NEW u \in Upload, Undisturbed(u),
         Started(u) \/ \E t \in Task : Busy(t, u)
  PROVE  AllUploaded(u) /\ \A w \in Writer : Sending(w) => put[w].u # u
<1>1. Known(u) /\ Settled(u)
  BY UnderWay DEF ServerInv, StartInv, Busy
<1> QED BY <1>1, WhenSettled

\* While it is being sent it has no task and was not started.
LEMMA WhenSending ==
  ASSUME ServerInv, OnePut, NEW u \in Upload, Undisturbed(u),
         NEW w \in Writer, Sending(w), put[w].u = u
  PROVE  /\ ~Started(u) /\ \A t \in Task : ~Busy(t, u)
         /\ parts[u][put[w].p] = "pending" /\ put[w].p \in Part
         /\ ~AllUploaded(u)
<1>1. ~Started(u) /\ \A t \in Task : ~Busy(t, u)
  BY WhenStarted
<1>2. put[w].p \in Part /\ Known(u) /\ parts[u][put[w].p] \in {"norow", "pending"}
  BY SendingTyped DEF OnePut, ServerInv
<1>3. parts[u][put[w].p] = "pending"
  BY <1>2 DEF ServerInv, RowInv, GoneInv, Undisturbed
<1>4. ~AllUploaded(u)
  BY <1>2, <1>3, ValuesAssumption DEF AllUploaded, Uploaded
<1> QED BY <1>1, <1>2, <1>3, <1>4

\* It has one task, which while it works is of a finalizing upload.
LEMMA WhenBusy ==
  ASSUME ServerInv, NEW u \in Upload, Undisturbed(u), NEW t \in Task, Busy(t, u)
  PROVE  /\ \A s \in Task : Busy(s, u) => s = t
         /\ Working(t) => uploads[u].status = "finalizing"
<1>1. Tells(u) /\ uploads[u].status # "deleted"
  BY DEF ServerInv, TellInv, RowInv, GoneInv, Undisturbed
<1> QED BY <1>1 DEF Tells

-----------------------------------------------------------------------------
\* Frames: what a step must leave alone to keep an upload intact.

SameFiles(u) == /\ partsDir'[u] = partsDir[u] /\ partFile'[u] = partFile[u]
                /\ staging'[u] = staging[u]   /\ finalFile'[u] = finalFile[u]
                /\ partOpen'[u] = partOpen[u]
                /\ stagingOpen'[u] = stagingOpen[u] /\ finalOpen'[u] = finalOpen[u]

\* Program counters of a task of which TaskIntact says nothing.
Calm == {"queued", "check", "enter", "create", "mark_fail", "notify"}

\* The tasks that have the upload, or its staging file open, stay as they are
\* or get to a calm point.
CalmTasks(u) ==
    /\ \A t \in Task : Busy(t, u)' => \/ task'[t].pc \in Calm
                                      \/ task'[t] = task[t]
    /\ \A t \in stagingOpen[u] : task'[t] = task[t]

CalmPuts(u) ==
    \A w \in Writer : Sending(w)' /\ put'[w].u = u => \/ put'[w].pc \in {"mkdir", "create"}
                                                     \/ put'[w] = put[w]

Untouched(u) == /\ SameFiles(u) /\ parts'[u] = parts[u]
                /\ CalmTasks(u) /\ CalmPuts(u)

LEMMA PutsFrame == ASSUME NEW u \in Upload, PutsIntact(u), Untouched(u) PROVE PutsIntact(u)'
<1> SUFFICES ASSUME NEW w \in Writer, Sending(w)', put'[w].u = u
             PROVE  /\ put'[w].pc = "write" => /\ w \in partOpen'[u][put'[w].p]
                                               /\ partFile'[u][put'[w].p] = Torn
                    /\ put'[w].pc = "mark" => partFile'[u][put'[w].p] = put'[w].body
  BY DEF PutsIntact
<1> QED BY DEF Untouched, SameFiles, CalmPuts, PutsIntact, Sending

LEMMA PartsFrame == ASSUME NEW u \in Upload, PartsIntact(u), Untouched(u) PROVE PartsIntact(u)'
  BY DEF Untouched, SameFiles, PartsIntact, AllUploaded, Uploaded

LEMMA OpenFrame == ASSUME NEW u \in Upload, OpenIntact(u), Untouched(u) PROVE OpenIntact(u)'
  BY DEF Untouched, SameFiles, OpenIntact, CalmTasks, Busy

LEMMA CopiedFrame ==
  ASSUME NEW u \in Upload, Untouched(u), NEW t \in Task, Busy(t, u)', Busy(t, u) => Copied(t, u)
  PROVE  Copied(t, u)'
<1>1. CASE task'[t].pc \in Calm
  BY <1>1 DEF Copied, Calm
<1>2. CASE task'[t] = task[t]
  BY <1>2 DEF Copied, Busy, Untouched, SameFiles
<1> QED BY <1>1, <1>2 DEF Untouched, CalmTasks

LEMMA IntactFrame ==
  ASSUME NEW u \in Upload, Intact(u), Untouched(u),
         uploads'[u].status = "complete" => uploads[u].status = "complete" \/ Assembled(u)
  PROVE  Intact(u)'
<1>1. PutsIntact(u)' /\ PartsIntact(u)' /\ OpenIntact(u)'
  BY PutsFrame, PartsFrame, OpenFrame DEF Intact
<1>2. TasksIntact(u)'
  <2> SUFFICES ASSUME NEW t \in Task, Busy(t, u)' PROVE TaskIntact(t, u)'
    BY DEF TasksIntact
  <2>1. Copied(t, u)'
    BY CopiedFrame DEF Intact, TasksIntact, TaskIntact
  <2>2. CASE task'[t].pc \in Calm
    BY <2>1, <2>2 DEF TaskIntact, Calm
  <2>3. CASE task'[t] = task[t]
    BY <2>1, <2>3 DEF Intact, TasksIntact, TaskIntact, Assembled, Busy, Untouched, SameFiles
  <2> QED BY <2>2, <2>3 DEF Untouched, CalmTasks
<1>3. CompleteIntact(u)'
  BY DEF Intact, CompleteIntact, Assembled, Untouched, SameFiles
<1> QED BY <1>1, <1>2, <1>3 DEF Intact

\* Uploads share no file: an operation on one leaves those of the others.
LEMMA OtherPartFiles ==
  ASSUME StorageTypeOK, NEW u \in Upload, NEW v \in Upload \ {u}, NEW p \in Part, NEW w \in Writer,
         \/ CreatePartsDir(u) \/ CreatePartFile(u, p, {w}) \/ BreakOffWrite(w, u, p)
         \/ \E content \in Content : WritePartFile(w, u, p, content) \/ AbandonWrite(w, u, p, content)
  PROVE  SameFiles(v)
  BY DEF SameFiles, StorageTypeOK, CreatePartsDir, CreatePartFile, BreakOffWrite, WritePartFile,
         AbandonWrite

LEMMA OtherDeleted ==
  ASSUME StorageTypeOK, NEW u \in Upload, NEW v \in Upload \ {u},
         DeleteParts(u) \/ DeletePartsPartly(u) \/ DeleteFile(u)
  PROVE  SameFiles(v)
  BY DEF SameFiles, StorageTypeOK, DeleteParts, DeletePartsPartly, DeleteFile

LEMMA OtherAssembly ==
  ASSUME StorageTypeOK, NEW u \in Upload, NEW v \in Upload \ {u}, NEW p \in Part, NEW t \in Task,
         \/ RemoveStaleStaging(u) \/ CreateStaging(t, u) \/ AppendPart(t, u, p)
         \/ RenameStaging(t, u) \/ CloseStaging(t, u)
  PROVE  SameFiles(v)
  BY DEF SameFiles, StorageTypeOK, RemoveStaleStaging, CreateStaging, AppendPart, RenameStaging,
         CloseStaging

-----------------------------------------------------------------------------
\* The steps of init and of a PUT.

\* While parts arrive, some are missing, there is no task and the upload is not
\* complete.
Receives(u) ==
    /\ ~AllUploaded(u) /\ ~Started(u) /\ \A t \in Task : ~Busy(t, u)
    /\ UNCHANGED <<task, uploads, finalFile, stagingOpen, finalOpen>>
    /\ PutsIntact(u)'
    /\ \A p \in Part : Uploaded(u, p)' => partFile'[u][p] = parts'[u][p]

LEMMA ReceivedIntact ==
  ASSUME NEW u \in Upload, Intact(u), Receives(u)
  PROVE  Intact(u)'
<1>1. PartsIntact(u)'
  BY DEF PartsIntact, Receives
<1>2. TasksIntact(u)' /\ OpenIntact(u)' /\ CompleteIntact(u)'
  BY DEF Receives, Intact, TasksIntact, OpenIntact, CompleteIntact, Busy, Started
<1> QED BY <1>1, <1>2 DEF Intact, Receives

\* What a step of a PUT does to the files and to the row of its part, which
\* is not recorded yet.
LEMMA OwnPutReceives ==
  ASSUME ServerInv, OnePut, NEW w \in Writer, NEW u \in Upload, Sending(w), put[w].u = u,
         Undisturbed(u), PutsIntact(u), PartsHere(u), UNCHANGED finalizerVars,
         PutStep(w) \/ PutIoError(w) \/ PutDbError(w) \/ PutAbort(w)
  PROVE  Receives(u)
<1> DEFINE p == put[w].p
           body == put[w].body
<1>a. /\ ~Started(u) /\ \A t \in Task : ~Busy(t, u)
      /\ parts[u][p] = "pending" /\ p \in Part /\ ~AllUploaded(u)
  BY WhenSending
<1>b. body \in Content
  BY SendingTyped DEF ServerInv
<1>c. PutMoves(w) /\ UNCHANGED uploads
  BY PutStepMoves DEF ServerInv
<1>d. RepoTypeOK /\ StorageTypeOK
  BY DEF ServerInv, TypeOK
<1>e. \A x \in Writer \ {w} : Sending(x) /\ put[x].u = u => put[x].p # p
  BY DEF OnePut
<1>f. \A x \in Writer : Sending(x) /\ put[x].u = u => put[x].p \in Part
  BY SendingTyped DEF ServerInv
<1>g. UNCHANGED <<task, finalFile, stagingOpen, finalOpen>>
  BY DEF PutStep, PutMkdir, PutCreate, PutWrite, PutMark, PutIoError, PutDbError, PutAbort,
         CreatePartsDir, CreatePartFile, WritePartFile, BreakOffWrite, AbandonWrite, storageVars,
         finalizerVars
<1>h. PutsIntact(u) /\ \A q \in Part : Uploaded(u, q) => partFile[u][q] = parts[u][q]
  BY <1>a DEF PartsHere
<1> HIDE DEF p, body
\* The files and the rows of the other parts stay, so it is about w and p.
<1>2. ASSUME \A q \in Part \ {p} : /\ partFile'[u][q] = partFile[u][q]
                                   /\ partOpen'[u][q] = partOpen[u][q]
                                   /\ parts'[u][q] = parts[u][q],
             \/ parts'[u][p] = "pending"
             \/ parts'[u][p] = body /\ partFile'[u][p] = body,
             put'[w].pc = "write" => partFile'[u][p] = Torn /\ w \in partOpen'[u][p],
             put'[w].pc = "mark" => partFile'[u][p] = body
      PROVE  Receives(u)
  <2>1. ASSUME NEW x \in Writer, Sending(x)', put'[x].u = u
        PROVE  /\ put'[x].pc = "write" => /\ x \in partOpen'[u][put'[x].p]
                                          /\ partFile'[u][put'[x].p] = Torn
               /\ put'[x].pc = "mark" => partFile'[u][put'[x].p] = put'[x].body
    <3>1. CASE x = w
      <4>1. put'[w].p = p /\ put'[w].body = body
        BY <1>c, <2>1, <3>1 DEF PutMoves, p, body
      <4> QED BY <1>2, <3>1, <4>1
    <3>2. CASE x # w
      <4>1. put'[x] = put[x] /\ Sending(x) /\ put[x].p \in Part \ {p}
        BY <1>c, <1>e, <1>f, <2>1, <3>2 DEF PutMoves, Sending
      <4> QED BY <1>2, <1>h, <2>1, <4>1 DEF PutsIntact
    <3> QED BY <3>1, <3>2
  <2>2. PutsIntact(u)'
    BY <2>1 DEF PutsIntact
  <2>3. \A q \in Part : Uploaded(u, q)' => partFile'[u][q] = parts'[u][q]
    BY <1>2, <1>h, ValuesAssumption DEF Uploaded
  <2> QED BY <1>a, <1>c, <1>g, <2>2, <2>3 DEF Receives
<1>3. CASE PutMkdir(w) \/ (PutAbort(w) /\ put[w].pc \in {"mkdir", "create"}) \/ PutDbError(w)
  <2>1. UNCHANGED <<partFile, partOpen, parts>> /\ put'[w].pc \notin {"write", "mark"}
    BY <1>3, <1>c DEF PutMkdir, PutAbort, PutDbError, CreatePartsDir, storageVars, repoVars,
                      PutReturn, PutGoto, NoPut, ServerInv, TypeOK, IngestTypeOK
  <2> QED BY <1>2, <1>a, <2>1 DEF p
<1>4. CASE PutCreate(w)
  <2>1. /\ parts' = parts
        /\ \/ CreatePartFile(u, p, {w}) /\ put'[w].pc = "write"
           \/ UNCHANGED <<partFile, partOpen>> /\ put'[w].pc = "idle"
    BY <1>4 DEF PutCreate, storageVars, repoVars, PutReturn, PutGoto, NoPut, ServerInv, TypeOK,
                IngestTypeOK, p
  <2>2. CreatePartFile(u, p, {w}) =>
           /\ partFile'[u][p] = Torn /\ w \in partOpen'[u][p]
           /\ \A q \in Part \ {p} : /\ partFile'[u][q] = partFile[u][q]
                                    /\ partOpen'[u][q] = partOpen[u][q]
    BY <1>a, <1>d DEF CreatePartFile, StorageTypeOK, p
  <2> QED BY <1>2, <1>a, <2>1, <2>2 DEF p
<1>5. CASE PutWrite(w)
  <2>1. /\ parts' = parts /\ put'[w].pc = "mark"
        /\ put[w].pc = "write" /\ WritePartFile(w, u, p, body)
    BY <1>5 DEF PutWrite, repoVars, PutGoto, ServerInv, TypeOK, IngestTypeOK, p, body
  <2>2. partFile[u][p] = Torn /\ w \in partOpen[u][p]
    BY <1>h, <2>1 DEF PutsIntact, p
  <2>3. p \in Part /\ partFile[u][p] \notin Content
    BY <1>a, <2>2, ValuesAssumption DEF p
  <2>4. WriteOutcomes(u, p, body) = {body}
    BY <2>3 DEF WriteOutcomes
  <2>5. /\ partFile'[u][p] = body
        /\ \A q \in Part \ {p} : /\ partFile'[u][q] = partFile[u][q]
                                 /\ partOpen'[u][q] = partOpen[u][q]
    BY <1>d, <2>1, <2>2, <2>3, <2>4 DEF WritePartFile, StorageTypeOK
  <2> QED BY <1>2, <1>a, <2>1, <2>5 DEF p
<1>7. CASE (PutAbort(w) /\ put[w].pc = "write") \/ PutIoError(w)
  <2>1. /\ parts' = parts /\ put'[w].pc = "idle"
        /\ AbandonWrite(w, u, p, body) \/ BreakOffWrite(w, u, p)
    BY <1>7 DEF PutAbort, PutIoError, repoVars, PutReturn, NoPut, ServerInv, TypeOK, IngestTypeOK,
                p, body
  <2>2. \A q \in Part \ {p} : /\ partFile'[u][q] = partFile[u][q]
                              /\ partOpen'[u][q] = partOpen[u][q]
    BY <1>a, <1>d, <2>1 DEF BreakOffWrite, AbandonWrite, StorageTypeOK, p
  <2> QED BY <1>2, <1>a, <2>1, <2>2 DEF p
<1>6. CASE PutMark(w)
  <2>1. /\ UpdatePartStatus(u, p, body) /\ UNCHANGED <<partFile, partOpen>>
        /\ put[w].pc = "mark" /\ put'[w].pc = "idle"
    BY <1>6 DEF PutMark, storageVars, PutReturn, NoPut, ServerInv, TypeOK, IngestTypeOK, p, body
  <2>2. parts'[u][p] = body /\ \A q \in Part \ {p} : parts'[u][q] = parts[u][q]
    BY <1>a, <1>b, <1>d, <2>1, RecordedRows DEF p, body
  <2>3. partFile[u][p] = body
    BY <1>h, <2>1 DEF PutsIntact, p, body
  <2> QED BY <1>2, <2>1, <2>2, <2>3
<1> QED BY <1>3, <1>4, <1>5, <1>6, <1>7 DEF PutStep, PutAbort

LEMMA OtherPutUntouched ==
  ASSUME ServerInv, NEW w \in Writer, NEW u \in Upload, Sending(w), put[w].u # u,
         UNCHANGED finalizerVars,
         PutStep(w) \/ PutIoError(w) \/ PutDbError(w) \/ PutAbort(w)
  PROVE  Untouched(u)
<1> DEFINE v == put[w].u
           p == put[w].p
<1>1. v \in Upload \ {u} /\ p \in Part /\ put[w].body \in Content
  BY SendingTyped DEF ServerInv
<1>2. PutMoves(w) /\ UNCHANGED <<uploads, task>>
  BY PutStepMoves DEF ServerInv, finalizerVars
<1>3. CalmPuts(u)
  BY <1>2 DEF PutMoves, CalmPuts, Sending
<1>4. CalmTasks(u)
  BY <1>2 DEF CalmTasks
<1>5. \/ UNCHANGED storageVars
      \/ CreatePartsDir(v) \/ CreatePartFile(v, p, {w}) \/ BreakOffWrite(w, v, p)
      \/ WritePartFile(w, v, p, put[w].body) \/ AbandonWrite(w, v, p, put[w].body)
  BY DEF PutStep, PutMkdir, PutCreate, PutWrite, PutMark, PutIoError, PutDbError, PutAbort
<1>6. parts'[u] = parts[u]
  BY <1>1 DEF PutStep, PutMkdir, PutCreate, PutWrite, PutMark, PutIoError, PutDbError, PutAbort,
         UpdatePartStatus, repoVars, ServerInv, TypeOK, RepoTypeOK
<1> HIDE DEF v, p
<1>7. SameFiles(u)
  <2>1. CASE UNCHANGED storageVars
    BY <2>1 DEF SameFiles, storageVars
  <2>2. StorageTypeOK /\ u \in Upload \ {v} /\ v \in Upload
    BY <1>1 DEF ServerInv, TypeOK
  <2> QED BY <1>1, <1>5, <2>1, <2>2, OtherPartFiles
<1> QED BY <1>2, <1>3, <1>4, <1>6, <1>7 DEF Untouched

\* What lands late lands on a part that is not recorded, of which nobody sends.
LEMMA LateFiles ==
  ASSUME ServerInv, OnePut, LateApart, LateUnrecorded, NEW u \in Upload, Undisturbed(u),
         PutsIntact(u), PartsHere(u),
         NEW v \in Upload, NEW p \in Part, LateStep(v, p), UNCHANGED finalizerVars
  PROVE  Untouched(u) \/ Receives(u)
<1>1. UNCHANGED <<put, uploads, parts, task>>
  BY LateStepRows DEF finalizerVars
<1>2. \/ UNCHANGED storageVars
      \/ CreatePartsDir(v) \/ CreatePartFile(v, p, {}) \/ \E c \in Content : WriteAbandoned(v, p, c)
  BY DEF LateStep, LateMkdir, LateCreate, LateWrite
<1>3. CASE UNCHANGED storageVars
  BY <1>1, <1>3 DEF Untouched, SameFiles, storageVars, CalmTasks, CalmPuts, Sending
<1>4. CASE u # v
  <2>1. SameFiles(u)
    BY <1>2, <1>3, <1>4
       DEF SameFiles, CreatePartsDir, CreatePartFile, WriteAbandoned, storageVars, ServerInv,
           TypeOK, StorageTypeOK
  <2> QED BY <1>1, <2>1 DEF Untouched, CalmTasks, CalmPuts, Sending
<1>5. CASE u = v /\ ~(UNCHANGED storageVars)
  <2>1. LateOn(u, p)
    BY <1>5 DEF LateStep, LateMkdir, LateCreate, LateWrite, WriteAbandoned, LateOn, Bodies
  <2>2. ~Uploaded(u, p)
    BY <2>1, ValuesAssumption DEF LateUnrecorded, Uploaded
  <2>3. ~AllUploaded(u) /\ ~Started(u) /\ \A t \in Task : ~Busy(t, u)
    BY <2>2, WhenStarted DEF AllUploaded
  <2>4. /\ \A q \in Part \ {p} : partFile'[u][q] = partFile[u][q] /\ partOpen'[u][q] = partOpen[u][q]
        /\ UNCHANGED <<finalFile, stagingOpen, finalOpen>>
    BY <1>2, <1>5
       DEF CreatePartsDir, CreatePartFile, WriteAbandoned, ServerInv, TypeOK, StorageTypeOK
  <2>5. \A w \in Writer : Sending(w) /\ put[w].u = u => put[w].p \in Part \ {p}
    BY <2>1, SendingTyped DEF LateApart, ServerInv
  <2>6. PutsIntact(u)'
    BY <1>1, <2>4, <2>5 DEF PutsIntact, Sending
  <2>7. \A q \in Part : Uploaded(u, q)' => partFile'[u][q] = parts'[u][q]
    BY <1>1, <2>2, <2>4 DEF PartsHere, AllUploaded, Uploaded
  <2> QED BY <1>1, <2>3, <2>4, <2>6, <2>7 DEF Receives
<1> QED BY <1>3, <1>4, <1>5

LEMMA InitFiles ==
  ASSUME ServerInv, OnePut, NEW u \in Upload, UNCHANGED finalizerVars,
         NEW v \in Upload, InitParts(v) \/ InitPartsError(v)
  PROVE  Untouched(u) \/ Receives(u)
<1>1. UNCHANGED <<storageVars, put, uploads, task>> /\ \E n : CreateParts(v, n)
  BY DEF InitParts, InitPartsError, CreateParts, finalizerVars
<1>2. RepoTypeOK
  BY DEF ServerInv, TypeOK
<1>3. CASE u # v
  <2>1. parts'[u] = parts[u]
    BY <1>1, <1>2, <1>3, CreatedRows
  <2> QED BY <1>1, <2>1 DEF Untouched, SameFiles, storageVars, CalmTasks, CalmPuts, Sending
<1>4. CASE u = v
  <2>1. ~Known(u) /\ Fresh(u)
    BY <1>4 DEF InitParts, InitPartsError, Known, Fresh
  <2>2. ~Started(u) /\ \A t \in Task : ~Busy(t, u)
    BY <2>1 DEF ServerInv, StartInv, Busy
  <2>3. ~AllUploaded(u)
    BY <2>1, PartNat, ValuesAssumption
       DEF ServerInv, RowInv, FreshInv, NoPartRows, AllUploaded, Uploaded
  <2>4. \A w \in Writer : Sending(w) => put[w].u # u
    BY <2>1 DEF OnePut
  <2>5. PutsIntact(u)'
    BY <1>1, <2>4 DEF PutsIntact, Sending
  <2>6. \A p \in Part : ~Uploaded(u, p)'
    BY <1>1, <1>2, <1>4, CreatedRows, ValuesAssumption DEF Uploaded
  <2> QED BY <1>1, <2>2, <2>3, <2>5, <2>6 DEF Receives, storageVars
<1> QED BY <1>3, <1>4

LEMMA IngestFiles ==
  ASSUME ServerInv, OnePut, LateApart, LateUnrecorded, IngestNext, UNCHANGED finalizerVars,
         NEW u \in Upload, Undisturbed(u), PutsIntact(u), PartsHere(u)
  PROVE  \/ /\ Untouched(u)
            /\ uploads'[u].status = "complete" => uploads[u].status = "complete"
         \/ Receives(u)
<1>a. CalmTasks(u)
  BY DEF CalmTasks, finalizerVars
<1>b. TypeOK /\ RepoTypeOK
  BY DEF ServerInv, TypeOK
<1>1. ASSUME NEW v \in Upload, InitCreate(v)
      PROVE  /\ Untouched(u)
             /\ uploads'[u].status = "complete" => uploads[u].status = "complete"
  <2>1. UNCHANGED <<storageVars, put, parts>> /\ SetsStatus(v, "pending")
    BY <1>1, <1>b, StatusOfStatement DEF InitCreate, CreateUpload
  <2> QED BY <1>a, <2>1 DEF Untouched, SameFiles, storageVars, CalmPuts, SetsStatus, Sending
<1>2. ASSUME NEW v \in Upload, InitParts(v) \/ InitPartsError(v)
      PROVE  (Untouched(u) \/ Receives(u)) /\ UNCHANGED uploads
  BY <1>2, InitFiles DEF InitParts, InitPartsError, CreateParts
<1>3. ASSUME NEW w \in Writer, NEW v \in Upload, NEW p \in Part, NEW body \in Content,
             PutStart(w, v, p, body)
      PROVE  Untouched(u) /\ UNCHANGED uploads
  <2>1. put' = [put EXCEPT ![w] = [pc |-> "mkdir", u |-> v, p |-> p, body |-> body]]
        /\ UNCHANGED <<repoVars, storageVars>>
    BY <1>3 DEF PutStart
  <2>2. CalmPuts(u)
    BY <1>b, <2>1 DEF CalmPuts, Sending, TypeOK, IngestTypeOK
  <2> QED BY <1>a, <2>1, <2>2 DEF Untouched, SameFiles, storageVars, repoVars
<1>4. ASSUME NEW w \in Writer, PutStep(w) \/ PutIoError(w) \/ PutDbError(w) \/ PutAbort(w)
      PROVE  (Untouched(u) \/ Receives(u)) /\ UNCHANGED uploads
  <2>1. Sending(w) /\ UNCHANGED uploads
    BY <1>4, <1>b, PutStepMoves
  <2> QED BY <1>4, <2>1, OwnPutReceives, OtherPutUntouched
<1>5. ASSUME NEW v \in Upload, NEW p \in Part, LateStep(v, p)
      PROVE  (Untouched(u) \/ Receives(u)) /\ UNCHANGED uploads
  BY <1>5, LateFiles, LateStepRows
<1> QED BY <1>1, <1>2, <1>3, <1>4, <1>5 DEF IngestNext

LEMMA IngestIntact ==
  ASSUME ServerInv, OnePut, LateApart, LateUnrecorded, FileInv, IngestNext,
         UNCHANGED <<finalizerVars, removalVars, crashes>>
  PROVE  FileInv'
<1> SUFFICES ASSUME NEW u \in Upload, Undisturbed(u)' PROVE Intact(u)'
  BY DEF FileInv
<1>1. Undisturbed(u)
  BY DEF Undisturbed, finalizerVars, removalVars
<1>2. Intact(u)
  BY <1>1 DEF FileInv
<1>3. PartsHere(u)
  BY <1>2 DEF Intact, PartsIntact, PartsHere
<1> QED BY <1>1, <1>2, <1>3, IngestFiles, IntactFrame, ReceivedIntact DEF Intact

-----------------------------------------------------------------------------
\* The steps of the finalizer.

FileStep(t) == \/ TaskUnlink(t) \/ TaskCreate(t) \/ TaskAppend(t) \/ TaskRename(t)
               \/ TaskPurge(t) \/ TaskIoError(t)

\* They take the task further inside the assembly, or out of it.
LEMMA FileStepMoves ==
  ASSUME TaskTypeOK, NEW t \in Task, FileStep(t)
  PROVE  /\ task[t].pc \in Storing /\ task'[t].pc # "idle"
         /\ task'[t] # task[t]
         /\ \A s \in Task \ {t} : task'[s] = task[s]
<1>1. ASSUME task[t].pc \in Storing,
             \/ TaskGoto(t, "create") /\ task[t].pc = "enter"
             \/ TaskGoto(t, "purge") /\ task[t].pc = "rename"
             \/ TaskGoto(t, "mark_ok") \/ TaskGoto(t, "mark_fail")
      PROVE  /\ task[t].pc \in Storing /\ task'[t].pc # "idle"
             /\ task'[t] # task[t]
             /\ \A s \in Task \ {t} : task'[s] = task[s]
  BY <1>1, TaskMoves DEF Storing
<1>2. CASE TaskCreate(t)
  BY <1>2 DEF TaskCreate, Storing, TaskTypeOK, TaskState
<1>3. CASE TaskAppend(t) /\ ~Abandon(t)
  <2>1. /\ task[t].pc = "append" /\ task[t].next \in 0 .. TotalParts
        /\ task' = [task EXCEPT ![t] =
                      [@ EXCEPT !.pc = IF task[t].next + 1 = TotalParts THEN "rename" ELSE "append",
                                !.next = task[t].next + 1]]
    BY <1>3 DEF TaskAppend, TaskTypeOK, TaskState
  <2>2. task'[t].next = task[t].next + 1 /\ task'[t].pc \in {"append", "rename"}
    BY <2>1 DEF TaskTypeOK, TaskState
  <2>3. task'[t].next # task[t].next
    BY <2>1, <2>2, PartNat
  <2>4. \A s \in Task \ {t} : task'[s] = task[s]
    BY <2>1 DEF TaskTypeOK
  <2> QED BY <2>1, <2>2, <2>3, <2>4 DEF Storing
<1>4. CASE TaskUnlink(t) \/ TaskPurge(t)
  BY <1>1, <1>4 DEF TaskUnlink, TaskPurge, Storing
<1>5. CASE TaskRename(t) \/ (TaskAppend(t) /\ Abandon(t)) \/ TaskIoError(t)
  BY <1>1, <1>5 DEF TaskRename, TaskAppend, TaskIoError, Abandon, Storing
<1> QED BY <1>2, <1>3, <1>4, <1>5 DEF FileStep

\* Those that touch no file: a task begins, checks, records the outcome or
\* ends, a request starts one, a row is updated.
LEMMA RowsFiles ==
  ASSUME ServerInv, NEW u \in Upload, OpenIntact(u),
         FinalizerNext, ~\E t \in Task : FileStep(t),
         UNCHANGED <<ingestVars, removalVars, crashes>>
  PROVE  /\ Untouched(u)
         /\ \/ uploads'[u].status = "complete" => uploads[u].status = "complete"
            \/ \E t \in Task : Busy(t, u) /\ task[t].pc = "mark_ok"
<1> DEFINE Completes == \/ uploads'[u].status = "complete" => uploads[u].status = "complete"
                        \/ \E t \in Task : Busy(t, u) /\ task[t].pc = "mark_ok"
<1>0. UNCHANGED storageVars
  BY DEF FinalizerNext, FileStep, CompleteStart, CompleterStep, CompleteRestart, CompleteCount,
         CompleteTryStart, CompleteDbError, TaskBegin, TaskStep, TaskCheck, TaskMarkComplete,
         TaskMarkFailed, TaskNotify, TaskFault, TaskBeginDbError, TaskCheckDbError,
         TaskMarkDbError, Heartbeat, LateBeat, GoStale
<1>1. CalmPuts(u) /\ SameFiles(u) /\ parts'[u] = parts[u]
  BY <1>0, FinalizerParts DEF CalmPuts, SameFiles, Sending, storageVars, ServerInv
<1>a. RepoTypeOK /\ TaskTypeOK /\ FinalizerTypeOK
  BY DEF ServerInv, TypeOK, FinalizerTypeOK
<1>b. \A t \in stagingOpen[u] : Busy(t, u) /\ task[t].pc \in {"append", "rename"}
  BY DEF OpenIntact
<1>c. stagingOpen[u] \subseteq Task
  BY DEF ServerInv, TypeOK, StorageTypeOK
<1>2. CASE UNCHANGED task
  <2>1. SameStatus
    <3>1. ASSUME NEW c \in Completer,
                 \/ \E v \in Upload : CompleteStart(c, v)
                 \/ CompleterStep(c) \/ CompleteDbError(c)
          PROVE  SameStatus
      BY <3>1, <1>2, CompleterSummary DEF Spawned, ServerInv
    <3>2. ASSUME NEW t \in Task, QuietTask(t) \/ OutcomeTask(t) PROVE SameStatus
      BY <3>2, <1>2 DEF QuietTask, OutcomeTask
    <3> QED BY <3>1, <3>2, FinalizerSummary DEF QuietRow, ServerInv
  <2> QED BY <1>1, <1>2, <2>1 DEF Untouched, CalmTasks, SameStatus
<1>3. ASSUME NEW t \in Task, NEW v, Spawned(t, v), SameStatus \/ SetsStatus(v, "finalizing")
      PROVE  /\ Untouched(u)
             /\ Completes
  <2>1. CalmTasks(u)
    BY <1>3, <1>b, <1>c DEF CalmTasks, Spawned, Calm, Busy
  <2> QED BY <1>1, <1>3, <2>1 DEF Untouched, SameStatus, SetsStatus
<1>4. ASSUME NEW t \in Task, task[t].pc \notin {"append", "rename"},
             \A s \in Task \ {t} : task'[s] = task[s],
             task'[t].pc \in Calm \cup {"idle"},
             Completes
      PROVE  /\ Untouched(u)
             /\ Completes
  <2>1. CalmTasks(u)
    BY <1>4, <1>b, <1>c DEF CalmTasks, Busy
  <2> QED BY <1>1, <1>4, <2>1 DEF Untouched
<1>5. ASSUME NEW t \in Task, TaskBegin(t) \/ TaskCheck(t) \/ TaskNotify(t) \/ TaskMarkFailed(t)
                              \/ TaskBeginDbError(t) \/ TaskCheckDbError(t) \/ TaskMarkDbError(t)
      PROVE  /\ Untouched(u)
             /\ Completes
  <2>1. QuietTask(t) \/ (TaskMarkFailed(t) /\ OutcomeTask(t))
    BY <1>5, TaskQuiet, TaskOutcome DEF ServerInv, TaskFault
  <2>2. /\ task[t].pc \notin {"append", "rename"}
        /\ TaskReturn(t) \/ TaskGoto(t, "check") \/ TaskGoto(t, "mark_fail") \/ TaskGoto(t, "enter")
    BY <1>5 DEF TaskBegin, TaskCheck, TaskNotify, TaskMarkFailed, TaskBeginDbError,
                TaskCheckDbError, TaskMarkDbError
  <2>3. task'[t].pc \in Calm \cup {"idle"} /\ \A s \in Task \ {t} : task'[s] = task[s]
    BY <1>a, <2>2, TaskMoves DEF Calm
  <2>4. uploads'[u].status = "complete" => uploads[u].status = "complete"
    BY <2>1 DEF QuietTask, OutcomeTask, TaskMarkFailed, SameStatus, SetsStatus
  <2> QED BY <1>4, <2>2, <2>3, <2>4
<1>6. ASSUME NEW t \in Task, TaskMarkComplete(t) PROVE Untouched(u) /\ Completes
  <2>1. OutcomeTask(t) /\ task[t].pc = "mark_ok" /\ task'[t].pc = "notify"
    BY <1>6, TaskOutcome DEF ServerInv, TaskMarkComplete, OutcomeTask
  <2>2. Completes
    BY <2>1 DEF OutcomeTask, SameStatus, SetsStatus, Busy
  <2> QED BY <1>4, <2>1, <2>2 DEF OutcomeTask, Calm
<1>7. CASE \E c \in Completer : \/ \E v \in Upload : CompleteStart(c, v)
                               \/ CompleterStep(c) \/ CompleteDbError(c)
  BY <1>2, <1>3, <1>7, CompleterSummary DEF ServerInv
<1>8. CASE \/ \E t \in Task : Heartbeat(t)
           \/ \E v \in Upload : LateBeat(v) \/ GoStale(v)
  BY <1>2, <1>8 DEF Heartbeat, LateBeat, GoStale, finalizerVars
<1> QED BY <1>5, <1>6, <1>7, <1>8 DEF FinalizerNext, TaskStep, TaskFault, FileStep

\* A step of the only task of an upload.
LEMMA SoleTaskIntact ==
  ASSUME NEW u \in Upload, NEW t \in Task, \A s \in Task : Busy(s, u) => s = t,
         \A s \in Task \ {t} : task'[s] = task[s],
         UNCHANGED put, \A w \in Writer : Sending(w) => put[w].u # u,
         PartsIntact(u)', CompleteIntact(u)', OpenIntact(u)', Busy(t, u)' => TaskIntact(t, u)'
  PROVE  Intact(u)'
<1>1. PutsIntact(u)'
  BY DEF PutsIntact, Sending
<1>2. TasksIntact(u)'
  <2> SUFFICES ASSUME NEW s \in Task, Busy(s, u)' PROVE TaskIntact(s, u)'
    BY DEF TasksIntact
  <2>1. s = t
    BY DEF Busy
  <2> QED BY <2>1
<1> QED BY <1>1, <1>2 DEF Intact

\* The only writer of the staging file appends the next part.
LEMMA AppendCopies ==
  ASSUME ServerInv, NEW u \in Upload, NEW t \in Task, task[t].u = u, AllUploaded(u),
         TaskAppend(t), ~Abandon(t), Copied(t, u), finalOpen[u] = {},
         \A p \in Part : partFile[u][p] \in {parts[u][p], NoFile}
  PROVE  /\ Copied(t, u)' /\ task'[t].pc \in {"append", "rename"}
         /\ UNCHANGED <<partsDir, partFile, finalFile, finalOpen, stagingOpen>>
<1> DEFINE p == task[t].next
<1>a. TaskTypeOK /\ StorageTypeOK /\ RepoTypeOK
  BY DEF ServerInv, TypeOK, FinalizerTypeOK
<1>b. /\ task[t].pc = "append" /\ AppendPart(t, u, p) /\ partFile[u][p] # NoFile
      /\ task' = [task EXCEPT ![t] =
                    [@ EXCEPT !.pc = IF p + 1 = TotalParts THEN "rename" ELSE "append",
                              !.next = p + 1]]
      /\ UNCHANGED repoVars
  BY DEF TaskAppend
<1>1. /\ t \in stagingOpen[u] /\ p \in Part
      /\ \A q \in Part : q < p => staging[u][q] = parts[u][q]
  BY <1>a, <1>b DEF Copied, TaskTypeOK
<1>2. staging[u] \in [Part -> Data] /\ parts[u] \in [Part -> Content]
  BY <1>a, <1>1 DEF StorageTypeOK, RepoTypeOK, AllUploaded, Uploaded
<1>3. UNCHANGED <<partsDir, partFile, finalFile, finalOpen, stagingOpen>> /\ UNCHANGED parts
  BY <1>b DEF AppendPart, repoVars
<1>4. staging'[u] = [staging[u] EXCEPT ![p] = parts[u][p]]
  BY <1>a, <1>b, <1>1 DEF AppendPart, StorageTypeOK
<1>5. ASSUME NEW q \in Part, q < p + 1 PROVE staging'[u][q] = parts[u][q]
  <2> HIDE DEF p
  <2>1. q < p \/ q = p
    BY <1>1, <1>5, PartNat
  <2>2. CASE q = p
    BY <1>2, <1>4, <2>2
  <2>3. CASE q < p /\ q # p
    <3>1. staging'[u][q] = staging[u][q]
      BY <1>2, <1>4, <2>3
    <3> QED BY <1>1, <2>3, <3>1
  <2> QED BY <2>1, <2>2, <2>3
<1>6. task'[t].pc = (IF p + 1 = TotalParts THEN "rename" ELSE "append") /\ task'[t].next = p + 1
  BY <1>a, <1>b DEF TaskTypeOK, TaskState
<1>7. ASSUME p + 1 = TotalParts PROVE staging'[u] = parts[u]
  <2>1. \A q \in Part : staging'[u][q] = parts[u][q]
    BY <1>1, <1>5, <1>7, PartsAssumption DEF Part
  <2>2. staging'[u] = [q \in Part |-> staging'[u][q]] /\ parts[u] = [q \in Part |-> parts[u][q]]
    BY <1>2, <1>4
  <2> QED BY <2>1, <2>2
<1> HIDE DEF p
<1>8. Copied(t, u)'
  BY <1>1, <1>3, <1>5, <1>6, <1>7 DEF Copied
<1> QED BY <1>3, <1>6, <1>8

\* The task of an undisturbed upload assembles its file.
LEMMA OwnFileStepIntact ==
  ASSUME ServerInv, OnePut, NEW u \in Upload, NEW t \in Task, FileStep(t), task[t].u = u,
         Undisturbed(u), Intact(u), UNCHANGED <<ingestVars, removalVars, crashes>>
  PROVE  Intact(u)'
<1>a. /\ task[t].pc \in Storing /\ Busy(t, u) /\ UNCHANGED repoVars
      /\ StorageTypeOK /\ TaskTypeOK /\ RepoTypeOK
  BY DEF FileStep, TaskUnlink, TaskCreate, TaskAppend, TaskRename, TaskPurge, TaskIoError,
         Storing, Busy, ServerInv, TypeOK, FinalizerTypeOK
<1>b. AllUploaded(u) /\ \A w \in Writer : Sending(w) => put[w].u # u
  BY <1>a, WhenStarted
<1>c. (\A s \in Task : Busy(s, u) => s = t) /\ uploads[u].status = "finalizing"
  BY <1>a, WhenBusy DEF Working, Running
<1>d. QuietTask(t)
  BY TaskQuiet DEF FileStep, TaskFault, ServerInv
<1>e. UNCHANGED <<put, parts>> /\ CompleteIntact(u)'
  BY <1>a, <1>c DEF ingestVars, repoVars, CompleteIntact
<1>f. /\ finalOpen[u] = {} /\ stagingOpen[u] \subseteq {t}
      /\ task[t].pc \notin {"append", "rename"} => stagingOpen[u] = {}
  BY <1>a, <1>c DEF Intact, OpenIntact, StorageTypeOK
<1>g. TaskIntact(t, u)
  BY <1>a DEF Intact, TasksIntact
<1>h. /\ \A p \in Part : partFile[u][p] \in {parts[u][p], NoFile}
      /\ (\A p \in Part : partFile[u][p] = parts[u][p]) \/ finalFile[u] = parts[u]
  BY <1>b DEF Intact, PartsIntact, AllUploaded
\* It is enough to look at the files and at t.
<1>1. ASSUME \A p \in Part : partFile'[u][p] \in {parts[u][p], NoFile},
             (\A p \in Part : partFile'[u][p] = parts[u][p]) \/ finalFile'[u] = parts[u],
             finalOpen'[u] = {}, stagingOpen'[u] \subseteq {t},
             stagingOpen'[u] # {} => task'[t].pc \in {"append", "rename"},
             TaskIntact(t, u)'
      PROVE  Intact(u)'
  <2>1. PartsIntact(u)'
    BY <1>1, <1>b, <1>e DEF PartsIntact, AllUploaded, Uploaded
  <2>2. OpenIntact(u)'
    BY <1>1, <1>d DEF OpenIntact, Busy, QuietTask
  <2> QED BY <1>1, <1>b, <1>c, <1>d, <1>e, <2>1, <2>2, SoleTaskIntact DEF QuietTask
\* It closes the file and goes on to record the failure, or to begin.
<1>2. ASSUME task'[t].pc \in Calm,
             \A p \in Part : partFile'[u][p] \in {parts[u][p], NoFile},
             (\A p \in Part : partFile'[u][p] = parts[u][p]) \/ finalFile'[u] = parts[u],
             stagingOpen'[u] = {}, finalOpen'[u] = {}
      PROVE  Intact(u)'
  <2>1. TaskIntact(t, u)'
    BY <1>2 DEF TaskIntact, Copied, Calm
  <2> QED BY <1>1, <1>2, <2>1
<1>3. ASSUME Abandon(t) PROVE Intact(u)'
  <2>1. task'[t].pc = "mark_fail"
    BY <1>3, <1>a, TaskMoves DEF Abandon
  <2>2. UNCHANGED <<partFile, finalFile>> /\ stagingOpen'[u] = {} /\ finalOpen'[u] = {}
    BY <1>3, <1>a, <1>f DEF Abandon, CloseStaging, StorageTypeOK
  <2> QED BY <1>2, <1>h, <2>1, <2>2 DEF Calm
<1>4. CASE TaskUnlink(t)
  <2>1. task'[t].pc = "create"
    BY <1>4, <1>a, TaskMoves DEF TaskUnlink
  <2>2. UNCHANGED <<partFile, finalFile, finalOpen>> /\ stagingOpen'[u] = {}
    BY <1>4, <1>a DEF TaskUnlink, RemoveStaleStaging, StorageTypeOK
  <2> QED BY <1>2, <1>f, <1>h, <2>1, <2>2 DEF Calm
<1>5. CASE TaskCreate(t)
  <2>1. task'[t].pc = "append" /\ task'[t].next = 0
    BY <1>5, <1>a DEF TaskCreate, TaskTypeOK, TaskState
  <2>2. UNCHANGED <<partFile, finalFile, finalOpen>> /\ stagingOpen'[u] = {t}
    BY <1>5, <1>a, <1>f DEF TaskCreate, CreateStaging, StorageTypeOK
  <2>3. \A q \in Part : ~(q < task'[t].next)
    BY <2>1, PartsAssumption DEF Part
  <2>4. TaskIntact(t, u)'
    BY <2>1, <2>2, <2>3 DEF TaskIntact, Copied
  <2> QED BY <1>1, <1>f, <1>h, <2>1, <2>2, <2>4
<1>6. CASE TaskAppend(t) /\ ~Abandon(t)
  <2>1. /\ Copied(t, u)' /\ task'[t].pc \in {"append", "rename"}
        /\ UNCHANGED <<partFile, finalFile, finalOpen, stagingOpen>>
    BY <1>6, <1>b, <1>f, <1>g, <1>h, AppendCopies DEF TaskIntact
  <2>2. TaskIntact(t, u)'
    BY <2>1 DEF TaskIntact
  <2> QED BY <1>1, <1>f, <1>h, <2>1, <2>2
<1>7. CASE TaskRename(t) /\ ~Abandon(t)
  <2>1. task[t].pc = "rename" /\ task'[t].pc = "purge" /\ RenameStaging(t, u)
    BY <1>7, <1>a, TaskMoves DEF TaskRename
  <2>2. /\ UNCHANGED partFile /\ finalFile'[u] = parts[u] /\ staging'[u] = NoFile
        /\ finalOpen'[u] = {} /\ stagingOpen'[u] = {}
    BY <1>a, <1>f, <1>g, <2>1 DEF RenameStaging, StorageTypeOK, TaskIntact, Copied
  <2>3. TaskIntact(t, u)'
    BY <1>e, <2>1, <2>2 DEF TaskIntact, Copied
  <2> QED BY <1>1, <1>h, <2>2, <2>3
<1>8. CASE TaskPurge(t)
  <2>1. task[t].pc = "purge" /\ task'[t].pc = "mark_ok" /\ DeleteParts(u)
    BY <1>8, <1>a, TaskMoves DEF TaskPurge
  <2>2. finalFile[u] = parts[u] /\ staging[u] = NoFile
    BY <1>g, <2>1 DEF TaskIntact
  <2>3. /\ UNCHANGED <<staging, finalFile, stagingOpen, finalOpen>>
        /\ partFile'[u] = NoPartFiles /\ ~partsDir'[u]
    BY <1>a, <2>1 DEF DeleteParts, StorageTypeOK
  <2>4. TaskIntact(t, u)'
    BY <1>e, <2>1, <2>2, <2>3 DEF TaskIntact, Copied, Assembled
  <2>5. \A q \in Part : partFile'[u][q] = NoFile
    BY <2>3 DEF NoPartFiles
  <2> QED BY <1>1, <1>f, <2>1, <2>2, <2>3, <2>4, <2>5
<1>9. CASE TaskIoError(t) /\ ~Abandon(t)
  <2>1. task[t].pc = "purge" /\ task'[t].pc = "mark_fail" /\ DeletePartsPartly(u)
    BY <1>9, <1>a, TaskMoves DEF TaskIoError
  <2>2. /\ UNCHANGED <<staging, finalFile, stagingOpen, finalOpen>>
        /\ \A q \in Part : partFile'[u][q] \in {partFile[u][q], NoFile}
    BY <1>a, <2>1 DEF DeletePartsPartly, StorageTypeOK
  <2>3. finalFile[u] = parts[u]
    BY <1>g, <2>1 DEF TaskIntact
  <2> QED BY <1>2, <1>f, <1>h, <2>1, <2>2, <2>3 DEF Calm
<1> QED BY <1>3, <1>4, <1>5, <1>6, <1>7, <1>8, <1>9 DEF FileStep

LEMMA OtherFileStep ==
  ASSUME ServerInv, NEW u \in Upload, NEW t \in Task, FileStep(t), task[t].u # u,
         OpenIntact(u), UNCHANGED <<ingestVars, removalVars, crashes>>
  PROVE  Untouched(u) /\ UNCHANGED uploads
<1> DEFINE v == task[t].u
<1>1. /\ v \in Upload /\ StorageTypeOK /\ TaskTypeOK /\ UNCHANGED repoVars
      /\ task[t].pc = "append" => task[t].next \in Part
  BY DEF FileStep, TaskUnlink, TaskCreate, TaskAppend, TaskRename, TaskPurge, TaskIoError,
         Storing, ServerInv, TypeOK, FinalizerTypeOK, TaskTypeOK
<1>2. QuietTask(t)
  BY TaskQuiet DEF FileStep, TaskFault, ServerInv
<1>3. CalmTasks(u)
  BY <1>2 DEF CalmTasks, QuietTask, Busy, OpenIntact, ServerInv, TypeOK, StorageTypeOK
<1>4. CalmPuts(u) /\ parts'[u] = parts[u] /\ UNCHANGED uploads
  BY <1>1 DEF CalmPuts, Sending, repoVars, ingestVars
<1>5. \/ RemoveStaleStaging(v) \/ CreateStaging(t, v) \/ RenameStaging(t, v) \/ CloseStaging(t, v)
      \/ DeleteParts(v) \/ DeletePartsPartly(v)
      \/ task[t].next \in Part /\ AppendPart(t, v, task[t].next)
  BY <1>1 DEF FileStep, TaskUnlink, TaskCreate, TaskAppend, TaskRename, TaskPurge, TaskIoError,
              Abandon
<1> HIDE DEF v
<1>6. u \in Upload \ {v}
  BY DEF v
<1>7. SameFiles(u)
  <2>1. CASE DeleteParts(v) \/ DeletePartsPartly(v)
    BY <1>1, <1>6, <2>1, OtherDeleted
  <2>2. CASE RemoveStaleStaging(v) \/ CreateStaging(t, v) \/ RenameStaging(t, v) \/ CloseStaging(t, v)
    BY <1>1, <1>6, <2>2, PartNat, OtherAssembly
  <2>3. CASE task[t].next \in Part /\ AppendPart(t, v, task[t].next)
    BY <1>1, <1>6, <2>3, OtherAssembly
  <2> QED BY <1>5, <2>1, <2>2, <2>3
<1> QED BY <1>3, <1>4, <1>7 DEF Untouched

\* Contested uploads remain so.
LEMMA FinalizerUndisturbed ==
  ASSUME ServerInv, FinalizerNext, UNCHANGED <<ingestVars, removalVars, crashes>>,
         NEW u \in Upload, Undisturbed(u)'
  PROVE  Undisturbed(u)
<1>1. contested \in [Upload -> BOOLEAN] /\ contested' \in [Upload -> BOOLEAN]
  BY NextTyped DEF ServerInv, TypeOK, FinalizerTypeOK, Next
<1>2. ASSUME NEW c \in Completer,
             (\E v \in Upload : CompleteStart(c, v)) \/ CompleterStep(c) \/ CompleteDbError(c)
      PROVE  contested'[u] = FALSE => ~contested[u]
  BY <1>1, <1>2, CompleterSummary DEF ServerInv
<1>3. contested'[u] = FALSE => ~contested[u]
  BY <1>1, <1>2, FinalizerSummary DEF QuietRow, QuietTask, OutcomeTask, FinalizersFrame, ServerInv
<1> QED BY <1>1, <1>3 DEF Undisturbed, removalVars

LEMMA FinalizerIntact ==
  ASSUME ServerInv, OnePut, FileInv, FinalizerNext, UNCHANGED <<ingestVars, removalVars, crashes>>
  PROVE  FileInv'
<1> SUFFICES ASSUME NEW u \in Upload, Undisturbed(u)' PROVE Intact(u)'
  BY DEF FileInv
<1>1. Undisturbed(u)
  BY FinalizerUndisturbed
<1>2. Intact(u)
  BY <1>1 DEF FileInv
<1>3. CASE \E t \in Task : FileStep(t)
  BY <1>1, <1>2, <1>3, OwnFileStepIntact, OtherFileStep, IntactFrame DEF Intact
<1>4. CASE ~\E t \in Task : FileStep(t)
  <2>1. \A t \in Task : Busy(t, u) /\ task[t].pc = "mark_ok" => Assembled(u)
    BY <1>2 DEF Intact, TasksIntact, TaskIntact
  <2> QED BY <1>2, <1>4, <2>1, RowsFiles, IntactFrame DEF Intact
<1> QED BY <1>3, <1>4

-----------------------------------------------------------------------------
\* Removals and restarts.

LEMMA RemovalFiles ==
  ASSUME ServerInv, RemovalNext, UNCHANGED <<ingestVars, finalizerVars, crashes>>,
         NEW u \in Upload, Undisturbed(u)'
  PROVE  /\ Undisturbed(u) /\ Untouched(u)
         /\ uploads'[u].status = "complete" => uploads[u].status = "complete"
<1>a. RepoTypeOK /\ StorageTypeOK /\ RemovalTypeOK
  BY DEF ServerInv, TypeOK
<1>1. doomed \subseteq doomed'
  BY DEF RemovalNext, CancelStart, CancelStep, CancelPurge, CancelUnlink, CancelRows, CancelRow,
         CancelDbError, CancelAbort, CleanStep, CleanList, CleanPurge, CleanRows, CleanRow,
         CleanDbError
<1>2. Undisturbed(u) /\ UNCHANGED <<task, put>>
  BY <1>1 DEF Undisturbed, finalizerVars, ingestVars
<1>4. \/ UNCHANGED <<storageVars, parts>>
      \/ \E v \in Upload \cap doomed :
            \/ DeletePartRows(v) /\ UNCHANGED storageVars
            \/ (DeleteParts(v) \/ DeletePartsPartly(v) \/ DeleteFile(v)) /\ UNCHANGED parts
  <2>1. /\ \A d \in Canceller : canceller[d].pc # "idle" => canceller[d].u \in Upload \cap doomed
        /\ cleaner.todo \subseteq Upload \cap doomed
        /\ cleaner.pc \in {"rows", "row"} => cleaner.u \in Upload \cap doomed
    BY <1>a DEF ServerInv, RowInv, GoneInv, RemovalTypeOK
  <2>2. ASSUME NEW d \in Canceller, CancelStep(d) \/ CancelAbort(d)
        PROVE  \/ UNCHANGED <<storageVars, parts>>
               \/ \E v \in Upload \cap doomed :
                    \/ DeletePartRows(v) /\ UNCHANGED storageVars
                    \/ (DeleteParts(v) \/ DeletePartsPartly(v) \/ DeleteFile(v)) /\ UNCHANGED parts
    <3>1. canceller[d].u \in Upload \cap doomed
      BY <2>1, <2>2 DEF CancelStep, CancelPurge, CancelUnlink, CancelRows, CancelRow, CancelAbort
    <3> QED BY <2>2, <3>1 DEF CancelStep, CancelPurge, CancelUnlink, CancelRows, CancelRow, CancelAbort,
                              DeleteUploadRow, repoVars
  <2>3. ASSUME CleanStep
        PROVE  \/ UNCHANGED <<storageVars, parts>>
               \/ \E v \in Upload \cap doomed :
                    \/ DeletePartRows(v) /\ UNCHANGED storageVars
                    \/ (DeleteParts(v) \/ DeletePartsPartly(v) \/ DeleteFile(v)) /\ UNCHANGED parts
    BY <2>1, <2>3 DEF CleanStep, CleanList, CleanPurge, CleanRows, CleanRow, DeleteUploadRow, repoVars
  <2> QED BY <2>2, <2>3 DEF RemovalNext, CancelStart, CancelDbError, CleanDbError, repoVars
<1>5. SameFiles(u) /\ parts'[u] = parts[u]
  <2>1. u \notin doomed
    BY <1>2 DEF Undisturbed
  <2>2. CASE UNCHANGED <<storageVars, parts>>
    BY <2>2 DEF SameFiles, storageVars
  <2>3. ASSUME NEW v \in Upload \ {u}, DeletePartRows(v), UNCHANGED storageVars
        PROVE  SameFiles(u) /\ parts'[u] = parts[u]
    BY <1>a, <2>3 DEF SameFiles, storageVars, DeletePartRows, RepoTypeOK
  <2>4. ASSUME NEW v \in Upload \ {u}, DeleteParts(v) \/ DeletePartsPartly(v) \/ DeleteFile(v)
        PROVE  SameFiles(u)
    BY <1>a, <2>4, OtherDeleted
  <2> QED BY <1>4, <2>1, <2>2, <2>3, <2>4
<1>6. uploads'[u].status = "complete" => uploads[u].status = "complete"
  BY RemovalSummary DEF ServerInv, RemovalStep, SameStatus, SetsStatus
<1> QED BY <1>2, <1>5, <1>6 DEF Untouched, CalmTasks, CalmPuts, Sending

LEMMA RemovalIntact ==
  ASSUME ServerInv, FileInv, RemovalNext, UNCHANGED <<ingestVars, finalizerVars, crashes>>
  PROVE  FileInv'
  BY RemovalFiles, IntactFrame DEF FileInv

\* A restart leaves an upload its part files, unless a task was deleting them.
LEMMA CrashPartFiles ==
  ASSUME ServerInv, OnePut, CrashRestart, NEW u \in Upload, Undisturbed(u)'
  PROVE  /\ PutsIntact(u)' /\ OpenIntact(u)'
         /\ UNCHANGED <<parts, partsDir, staging, finalFile>>
         /\ SameStatus /\ \A t \in Task : task'[t].pc \in {"idle", "queued"}
         /\ \A p \in Part : partFile'[u][p] \in {partFile[u][p], NoFile}
         /\ \/ \A p \in Part : partFile'[u][p] = partFile[u][p]
            \/ AllUploaded(u) /\ \E t \in Task : Busy(t, u) /\ task[t].pc = "purge"
         /\ partFile[u] = NoPartFiles => partFile'[u] = NoPartFiles
<1>1. /\ Undisturbed(u)
      /\ UNCHANGED <<parts, partsDir, staging, finalFile>>
      /\ stagingOpen'[u] = {} /\ finalOpen'[u] = {}
      /\ \A w \in Writer : ~Sending(w)'
  BY DEF CrashRestart, Undisturbed, NoPut, Sending
<1>2. SameStatus /\ \A t \in Task : task'[t].pc \in {"idle", "queued"}
  BY CrashSummary DEF ServerInv
<1>3. PutsIntact(u)' /\ OpenIntact(u)'
  BY <1>1 DEF PutsIntact, OpenIntact
<1>4. PICK gone \in [Upload -> SUBSET Part] :
        /\ \A v \in Upload : gone[v] # {} => PurgeUnderWay(v)
        /\ partFile' = [v \in Upload |->
                          [p \in Part |-> IF p \in gone[v] THEN NoFile ELSE partFile[v][p]]]
  BY DEF CrashRestart
<1>5. partFile'[u] = [p \in Part |-> IF p \in gone[u] THEN NoFile ELSE partFile[u][p]]
  BY <1>4
<1>6. ASSUME gone[u] # {}
      PROVE  AllUploaded(u) /\ \E t \in Task : Busy(t, u) /\ task[t].pc = "purge"
  <2>1. PICK t \in Task : task[t].pc = "purge" /\ task[t].u = u
    BY <1>1, <1>4, <1>6 DEF PurgeUnderWay, Undisturbed, ServerInv, RowInv, GoneInv
  <2>2. Busy(t, u)
    BY <2>1 DEF Busy
  <2> QED BY <1>1, <2>1, <2>2, WhenStarted
<1>7. gone[u] = {} => \A p \in Part : partFile'[u][p] = partFile[u][p]
  BY <1>5
<1>8. partFile[u] = NoPartFiles => partFile'[u] = NoPartFiles
  BY <1>5 DEF NoPartFiles
<1> QED BY <1>1, <1>2, <1>3, <1>5, <1>6, <1>7, <1>8

\* Such a task has the final file in place.
LEMMA CrashFiles ==
  ASSUME ServerInv, OnePut, CrashRestart, NEW u \in Upload, Undisturbed(u)', PartsIntact(u),
         \A t \in Task : Busy(t, u) /\ task[t].pc = "purge" => finalFile[u] = parts[u]
  PROVE  /\ PutsIntact(u)' /\ PartsIntact(u)' /\ OpenIntact(u)'
         /\ UNCHANGED <<parts, partsDir, staging, finalFile>>
         /\ SameStatus /\ \A t \in Task : task'[t].pc \in {"idle", "queued"}
         /\ partFile[u] = NoPartFiles => partFile'[u] = NoPartFiles
<1>1. /\ UNCHANGED <<parts, finalFile>>
      /\ \A p \in Part : partFile'[u][p] \in {partFile[u][p], NoFile}
      /\ \/ \A p \in Part : partFile'[u][p] = partFile[u][p]
         \/ AllUploaded(u) /\ finalFile[u] = parts[u]
  BY CrashPartFiles
<1>2. PartsIntact(u)'
  BY <1>1 DEF PartsIntact, AllUploaded, Uploaded
<1> QED BY <1>2, CrashPartFiles

LEMMA CrashIntact ==
  ASSUME ServerInv, OnePut, FileInv, CrashRestart
  PROVE  FileInv'
<1> SUFFICES ASSUME NEW u \in Upload, Undisturbed(u)' PROVE Intact(u)'
  BY DEF FileInv
<1>1. Intact(u)
  BY DEF FileInv, CrashRestart, Undisturbed
<1>2. \A t \in Task : Busy(t, u) /\ task[t].pc = "purge" => finalFile[u] = parts[u]
  BY <1>1 DEF Intact, TasksIntact, TaskIntact
<1>3. /\ PutsIntact(u)' /\ PartsIntact(u)' /\ OpenIntact(u)'
      /\ UNCHANGED <<parts, partsDir, staging, finalFile>>
      /\ SameStatus /\ \A t \in Task : task'[t].pc \in {"idle", "queued"}
      /\ partFile[u] = NoPartFiles => partFile'[u] = NoPartFiles
  BY <1>1, <1>2, CrashFiles DEF Intact
<1>4. TasksIntact(u)'
  BY <1>3 DEF TasksIntact, TaskIntact, Copied, Busy
<1>5. CompleteIntact(u)'
  BY <1>1, <1>3 DEF Intact, CompleteIntact, Assembled, SameStatus
<1> QED BY <1>3, <1>4, <1>5 DEF Intact

\* Time goes by, or nothing happens.
LEMMA QuietFiles ==
  ASSUME ServerInv, (\E v \in Upload : Expire(v)) \/ UNCHANGED vars, NEW u \in Upload
  PROVE  Untouched(u) /\ SameStatus /\ UNCHANGED <<contested, doomed>>
<1>1. /\ UNCHANGED <<parts, storageVars, ingestVars, finalizerVars, removalVars>>
      /\ SameStatus
  BY RowQuiet DEF ServerInv, QuietRow, Expire, vars, repoVars
<1> QED BY <1>1 DEF Untouched, SameFiles, CalmTasks, CalmPuts, Sending, storageVars, ingestVars,
                    finalizerVars, removalVars

LEMMA QuietIntact ==
  ASSUME ServerInv, FileInv, (\E u \in Upload : Expire(u)) \/ UNCHANGED vars
  PROVE  FileInv'
<1> SUFFICES ASSUME NEW u \in Upload, Undisturbed(u)' PROVE Intact(u)'
  BY DEF FileInv
<1>1. Untouched(u) /\ SameStatus /\ Intact(u)
  BY QuietFiles DEF FileInv, Undisturbed
<1> QED BY <1>1, IntactFrame DEF SameStatus

LEMMA FileInvNext ==
  ServerInv /\ OnePut /\ LateApart /\ LateUnrecorded /\ FileInv /\ [Next]_vars => FileInv'
  BY IngestIntact, FinalizerIntact, RemovalIntact, CrashIntact, QuietIntact DEF Next

LEMMA FileInvariant ==
  ASSUME Discipline PROVE Spec /\ []LateApart => []FileInv
<1>1. OnePut /\ TypeOK /\ [Next]_vars => OnePut'
  BY OnePutNext
<1> QED BY <1>1, OnePutInit, LateUnrecordedInit, LateUnrecordedNext, FileInvInit, FileInvNext,
           ServerInvariant, PTL DEF Spec, ServerInv

\* A recorded part stays recoverable through failing file operations and
\* statements, dropped requests, crashes and retries, until somebody decides
\* to delete the upload.  It takes clients that have one PUT of a part under
\* way, and that do not send it again before what a dropped one has left under
\* way has landed.
THEOREM NoDataLossSafe ==
  ASSUME Discipline PROVE Spec /\ []LateApart => []NoDataLoss
  BY FileInvariant, FileInvImplies, PTL

\* What the server calls complete has the final file that the checksums
\* describe, and nothing else is left of it, with such clients.
THEOREM CompletionIntactSafe ==
  ASSUME Discipline PROVE Spec /\ []LateApart => []CompletionIntact
  BY FileInvariant, FileInvImplies, PTL

\* The condition is void where no request is dropped.
NothingLate == late = {} /\ \A u \in Upload, p \in Part : Bodies(u, p) = {}

LEMMA NothingLateInit == Init => NothingLate
  BY DEF Init, IngestInit, StorageInit, NobodyOpen, Bodies, NothingLate

LEMMA NothingLateApart == TypeOK /\ NothingLate => LateApart
<1> SUFFICES ASSUME TypeOK, NothingLate, NEW w \in Writer, Sending(w)
             PROVE  ~LateOn(put[w].u, put[w].p)
  BY DEF LateApart
<1> QED BY SendingTyped DEF NothingLate, LateOn

LEMMA NothingLateKept == NothingLate /\ NoneLater => NothingLate'
  BY DEF NothingLate, NoneLater

LEMMA NothingLateNext ==
  TypeOK /\ "abort" \notin Faults /\ NothingLate /\ [Next]_vars => NothingLate'
  BY OnlyDropsLate, NothingLateKept DEF PutAbort

\* Hence NoDataLoss of the server itself, where no request is dropped.
THEOREM NoDataLossUndropped ==
  ASSUME Discipline, "abort" \notin Faults PROVE Spec => []NoDataLoss
<1>1. TypeOK /\ NothingLate /\ [Next]_vars => NothingLate'
  BY NothingLateNext
<1> QED BY <1>1, NothingLateInit, NothingLateApart, TypeCorrect, NoDataLossSafe, PTL DEF Spec
=============================================================================
