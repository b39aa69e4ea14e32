# Verification of the chunked uploader

TLA+ models of the upload server in `src/` (Rust, axum, tokio, SQLite), the TLC
configurations that check them on small instances, and proofs, checked by TLAPS, of
what holds for every instance.

A client announces a file (`POST /upload/init`), gets a token per part, sends the parts
(`PUT /upload/{id}/part/{n}`) in any order and concurrently, and asks for completion
(`POST /upload/{id}/complete`). A background task then assembles the file, and a webhook
is sent. Uploads can be cancelled (`DELETE`), expire, and are picked up again after a
restart of the process.

## Inventory

| Component | Source | State | Operations |
|---|---|---|---|
| Metadata store | `db/repository.rs`, `db/mod.rs`, `db/schema.rs` | tables `uploads`, `upload_parts` (SQLite, auto-commit, pool of 10) | one SQL statement or two per method |
| Local storage | `storage/local.rs`, trait in `storage/mod.rs` | `parts/{id}/part_{n}`, `.{name}.assembling`, the final file | `store_part`, `assemble_parts`, `delete_parts`, `delete_file` |
| Part ingest | `handlers/init.rs`, `handlers/part.rs` | none of its own: a request in flight | `init_upload`, `upload_part` |
| Finalization | `handlers/complete.rs` | spawned tasks, heartbeats, the semaphore of permits | `complete_upload`, `run_finalization_task`, `send_webhook` |
| Cancel and cleanup | `handlers/cancel.rs`, `services/cleanup.rs` | a request in flight, the list of a cleanup pass | `cancel_upload`, `cleanup_expired` |
| Server | `main.rs` | the composition | boot recovery, routing |
| SMB storage | `storage/smb.rs` | local parts, background syncs, a lock per upload, `.partial` and the final file on the share | `store_part`, `verify_upload_ready`, `finalize_upload`, `cleanup_incomplete_upload`, `delete_file` |
| S3 storage | `storage/s3.rs` | local parts, `{id}_assembled.tmp`, one object per upload | `store_part`, `assemble_parts`, `delete_parts`, `delete_file` |
| Chunk arithmetic | `handlers/init.rs`, `storage/smb.rs` | pure | `total_parts`, `expected_size`, offsets, the part to resume from |
| Status | `handlers/status.rs` | a poll in flight | `get_status` |
| Health | `handlers/health.rs` | none, read only | |
| Authentication | `auth/` | none | API key, token of a part |
| Configuration, errors, scripts | `config.rs`, `error.rs`, `*.sh` | none | |

How they interact. Every handler and task reaches the store by synchronous calls, one
statement each, so two statements of one handler are separated by statements of others;
nothing runs in a transaction. Storage calls are asynchronous: at each of their awaits
any other request or task runs, and there a dropped connection drops the handler.
Finalization is started by a handler, by a handler that finds it stale, or by `main`, and
runs independently of them. A heartbeat task writes the same row as the finalization it
belongs to. Cancel, cleanup and finalization share the files of an upload without a lock.
The server calls one backend, chosen by the configuration, through the trait
`StorageBackend`. Local and S3 take the trait's defaults (no verification,
`finalize_upload` is `assemble_parts`, cleanup is `delete_parts`); SMB overrides all three
and spawns, for each stored part, a task that nobody waits for.

What is hard: check-then-act over awaits (`part.rs:68`, `cancel.rs:38`, `cleanup.rs:42`),
updates that name a row's id only (`repository.rs:156`, `:175`, `:192`), judging the life
of a task by a time stamp (`complete.rs:68`), a crash between the steps of an assembly and
of recording its outcome, dropped requests whose file operation goes on, and failures that
are logged and forgotten. On a share: syncs in any order that outlive the request, the
finalization and the upload; a file whose length says nothing of what is in it
(`smb.rs:838`); operations that time out and are done all the same.
`PROJECT.json` lists each of them under "hazards", at its line.

What makes each part correct: 

- store: the compare-and-set of `try_start_finalization` gives an upload to one task;
- ingest: the recorded checksum is that of the stored file;
- finalization: it starts with all parts, ends, and never loses what was recorded;
  `complete` means that the file is there, and is final;
- cancel and cleanup: they remove what they say and nothing that is in use; abandoned
  uploads are removed;
- server: all of it across restarts, and as one lifecycle, whatever the backend;
- SMB and S3: what is in the final place is the whole file, the local parts go only when it
  is there, retries converge, nothing is left behind;
- arithmetic: the parts tile the file, and a resumed finalization fills what is missing;
- status: an answer made of two statements does not contradict itself.

## Modules

| Module | Models | Notes |
|---|---|---|
| `Domain` | shared constants and values | `Faults` selects what may go wrong in an instance |
| `Repository` | the two tables, one operator per statement | `delete_upload` is two statements and so two operators |
| `LocalStorage` | the files and who has them open, one operator per file operation | |
| `Ingest` | `init_upload`, `upload_part` | |
| `Finalizer` | `complete_upload`, the task, heartbeat, permits, webhook | |
| `Removal` | `cancel_upload`, `cleanup_expired` | |
| `UploadServer` | the composition, expiry, crash and boot | the specification `Spec` |
| `ServerProperties` | safety, refinement, fairness, liveness | |
| `UploadLifecycle` | what a client sees of an upload: the abstract specification | implemented by `UploadServer` through `Lifecycle` in `ServerProperties` |
| `Leftovers` | `UploadServer` with a history of overlapping removals | what a removal leaves |
| `Status` | `UploadServer` with a client that polls `get_status` | |
| `Backends` | the server's steps outside the trait `StorageBackend` | composed with a backend by the next two |
| `SmbStorage` | the share: its files, handles, writes by ranges, rename | external, from how `smb.rs` uses it, and the helpers that call it |
| `SmbServer`, `SmbProperties` | the server with the SMB backend; its promises and fairness | |
| `S3Server`, `S3Properties` | the server with the S3 backend; its promises | |
| `Chunking` | the arithmetic of parts | no state |
| `SmbPaths` | the names on the share | no state |
| `SmbLayout` | one upload on the share byte by byte and name by name: syncs and attempts to finalize that break off anywhere, the rename, a cancel | composes `Chunking` and `SmbPaths` |
| `MCUploadServer`, `MCLeftovers`, `MCStatus`, `MCSmbProperties`, `MCSmbLayout` | symmetry, values and a bound for TLC | |
| `TypeProofs`, `SafetyProofs`, `LifecycleProofs`, `FileProofs` | theorems about `UploadServer` | each extends the one before |
| `ObserverProofs` | theorems about `Status` and `Leftovers`: polls, and what removals leave | on those of the server |
| `S3Proofs`, `SmbProofs` | theorems about the two remote backends | on those of the server; `SmbProofs` on `ObserverProofs` as well |
| `LayoutProofs` | theorems about `Chunking` and `SmbLayout` | |

State and actions against the code. `uploads[u]` is a row: `status`; `hasFinalPath` for
`final_path`; `progress` in the classes 0, 1 (1..90), 10, 98 (11..98) and 100; `stale` for
"`finalization_updated_at` is more than 300 s old"; `life` for `expires_at` (past it the
token library still accepts a token for 60 s: "leeway"). `parts[u][p]` is "norow",
"pending" or the recorded checksum, and a checksum is identified with its content. A file
is `NoFile`, `Torn` (truncated, or mixed from two bodies) or its content, per range of a
part. A program counter per request, task and for the cleanup service marks the points
where others can run; the comment of each action says which call it is. Nothing in
`complete_upload` awaits, but its statements are separate actions, since handlers run on
several threads. `uploads` never changes in one action by two statements that others can
interleave with to any effect: those merged are named below.

Environment actions: `PutAbort`, `CancelAbort` and `LateStep` (hyper drops a handler at
an await; tokio's file operations run on a thread pool and are not cancelled), `Expire`
and `GoStale` (time), `CrashRestart` (the process dies and `main` runs again), and the
`...IoError`, `...DbError` actions. Three history variables delimit properties:
`contested` (a stale finalization was restarted although a task still had it), `doomed`
(a cancel or the cleanup decided to delete the upload), `notified` (webhooks sent).

Abstractions, each one a choice:

- `exists()` and the removal after it are one step. The error when another removes the
  file in between is covered by the file errors of "io".
- A write is one step that ends either with the body, or, when the same file received
  another body since this request created it, possibly mixed.
- What a dropped PUT awaits still runs, at any later time or never: its mkdir and its
  `File::create` on the names (`late`; a create that finds no directory does nothing), its
  write on the file it has open, whatever that holds by then (the body stands for the handle
  in `partOpen`). What a dropped cancel awaits, a deletion, runs at once or never.
- `get_upload` followed by the progress update of 1, the loop over the parts with its
  updates, and `list_finalizing_uploads` with the restarts at boot are one step each: what
  others could do in between only repeats an effect that exists before or after.
- A heartbeat is written at least every 300 s while a task stores; a database that fails for
  that long is not modelled. So a running task does not go stale; a queued one does.
- `Task` bounds the tasks alive: a start that finds no free task waits. `Completer`,
  `Canceller` and `Writer` bound the requests in flight, `MaxCrashes` the crashes.
- `MaxPerPart = 1` is the client's discipline, one PUT of a part at a time; the server does
  not enforce it. Concurrency allows two.
- An upload has at least one part (`PartsAssumption`), of a positive size. `init_upload` does
  not check it: of a size of zero it makes an upload without parts, which the SMB backend
  can never finalize (there is no partial to rename), and a negative one makes
  `Vec::with_capacity` panic after the row was inserted.
- A webhook URL is always given; the answer to the webhook is not looked at by the code.
- A crash is that of the process: what was written is not lost with it.

Of the SMB backend (`SmbServer`):

- The server's own steps are taken from `UploadServer` through `Backends`, which lets through
  what happens outside the calls of the trait; the module adds the steps inside. The local
  variables `staging` and `finalFile` stay empty there.
- The length of the partial counts parts (`size`), and a range below it that nobody wrote is
  `Torn`; lengths within a part are left to `SmbLayout`. A write of a part is two steps
  (`...Some`, and the last 1 MB), with which another writer's can interleave.
- The share keeps a file for the handles that are open on it, through a rename and a
  deletion; a handle of a deleted file writes into nothing. The code depends on what a server
  does there; this is the liberal case.
- Each operation on the share can fail ("remote"), the rename also after it was done. A
  timeout is such a failure. The pooled connections are left out: what they change is who
  fails, and how long a task waits to give its client back.
- A task that waits without a timeout is in "close" (the answer to the close of the partial,
  `smb.rs:937`), in "purge", or in "enter" with an attempt behind it: `return_client` waits for
  the mutex of the client (`smb.rs:804`, `:974`, `:1015`), which a cancel or the cleanup service
  holds while it connects (`smb.rs:127`). A task whose attempt fails gives the client back
  before it tries again or gives up (`SmbGiveUp`).
- A syncer is one background sync that is alive; a PUT waits for a free one, so `Syncer`
  bounds how many there are. The lock map is modelled: an entry that nobody uses is
  indistinguishable from none.
- `MaxAttempts` is the code's 3. The pauses between the attempts are time, which is not
  modelled.

Of `SmbLayout`, where one upload has a byte for each byte:

- An attempt keeps in `stream` the part it writes next, at which offset, and whether it took
  bytes for sent that are not (`sound`); it writes part by part, may break off at any byte, and
  is made again. A rename after an attempt that was not sound gives the state "gapped", any
  other "final"; a cancel then gives "deleted" or, if the path of the database is not that of
  the file, "missed".
- The name of a file begins with the fresh identifier of the upload, so that no directory of
  the configuration contains it (`NamesAssumption`).

Of the S3 backend (`S3Server`): parts and their assembly are those of the local backend with
the temp file in place of the staging file, without the removal of a stale one; the put of
the object is one step that stores it whole or not, with an answer or without.

## Runs

Deadlock is not checked: an instance comes to rest when its uploads are deleted or complete,
since upload identifiers are never used twice.

| Run | Instance | Shows |
|---|---|---|
| Concurrency | 1 upload, 2 parts, 2 writers, also of one part, 2 completers, a task, a cancel, the cleanup | start only with all parts; `complete` is final; a removal that nothing overlapped leaves no file |
| Contention | 2 uploads, 3 tasks, 1 permit, a polling client | one task per upload while finalizations queue; coherent answers; the abstract lifecycle, also when a stale finalization is restarted |
| Recovery | 1 upload, 2 parts, 2 bodies, 2 tasks, file errors, statement errors, a crash | types, one task per upload, no recorded part is lost, a complete file is right, no second webhook |
| Live | file errors, a crash, under `FairSpec` | finalizations end, abandoned pending uploads go |
| SmbFaults | SMB, 2 parts, a syncer, errors of the share and of files, a crash, under fairness | no recorded part is lost, a complete file is right, finalizations end unless a wait without a timeout never does, the abstract lifecycle |
| SmbCancel | SMB, 1 part, a cancel, the cleanup, disconnects | neither a partial nor local parts are left behind |
| S3 | S3, 2 parts, 2 bodies, a cancel, errors of the bucket and of files, a crash | the object is whole or absent, a complete upload has it, no recorded part is lost, the abstract lifecycle |
| SmbLayout | all sizes to 5, chunks to 3, syncs broken off anywhere, 5 base paths, 6 directories | parts tile the file, a resumed finalization completes it, `delete_file` finds it but for names that repeat the base |

Why these bounds. Two of a kind are what a race needs: two bodies tell a replaced part
from the first, two parts an incomplete file and a wrong order, two tasks a doubled
finalization, two uploads and one permit a queue (with a third task to be spawned over
it). A second crash starts from a state the first one left, and the boot does the same
again. With one writer and one syncer a sync still outlives its PUT, the finalization and
the completion, and syncs of two parts come in either order; what a second syncer adds, two
writers of one range, the finalization does as well. The client of SmbFaults sends one body:
two syncs of one part with different bodies can lose the recorded one (see "Proofs"). Dropped
requests ("abort") are in SmbCancel, with one file operation to come at a time (`OneLate`, a
constraint of that run only); the runs about the files are without them, since a file operation
that lands late does damage recorded parts (see "Divergences"), and the proofs have them with
the condition `LateApart`. A size of 5 in chunks of up to 3 has
one part, several, a short last one and none short. Requests and tasks of a kind, uploads
and bodies are interchangeable (symmetry), except in the runs of liveness, which use none.

Each property of a passing run has a mutant of the code beside the definition it alters
("Mutant of ..."), under which TLC finds the property violated: a missing WHERE clause, an
off-by-one, an inner join, parts freed before the file is renamed, a dropped error.

These runs show where the code does not do what its documents say; "findings" quotes both:

| Run | What TLC finds |
|---|---|
| Terminal | a finalization that waits for a permit is restarted as stale; its first task completes the upload, the second fails it |
| CancelRace | a cancel that read `pending` deletes an upload that is finalizing by then |
| CrashFails | a crash after the parts are deleted and before the row says complete: the restarted task fails an upload whose final file is in place |
| SmbHole | the part synced last is not the last one: the length of the partial is full before its contents, the file is renamed with a hole and the local parts are deleted |

Each property leaves out what such a run refutes. `NoDataLoss`, `CompletionIntact`,
`SoleFinalizer`, `CompleteIsFinal` and `NotifiedOnce`, and their counterparts of the other
backends, except contested uploads, because of Terminal; `NoDataLoss`, `CompletionIntact`,
`ObjectWhole` and `CompleteInBucket` also uploads that somebody decided to delete, because of
CancelRace;
`SmbNoDataLoss` and `SmbCompletionIntact` also uploads of which a finalization trusted a gap
(`gapped`), because of SmbHole. `RemovedWithoutTrace` and `NoStrayPartial` except removals
during which someone wrote the upload, or a file operation of a dropped PUT was to come, and
finalizations with a second PUT of a part, or a mkdir to come, beside them (`raced`): nothing
keeps a PUT, a finalization or a sync from writing behind a removal, nor a mkdir from coming
behind the deletion of the directory by a finalization. Of a contested upload they promise
nothing about the final file, since its second task can fail it behind the rename of the first and a removal looks for
the final file of a complete upload only, and nothing about the partial, which that task
can create again. `UploadLifecycle` makes no exception but says what
changes: a `leaving` upload may start without its parts, an `overrun` one may change its
result. Outside these exceptions they hold under all faults of the run.

The abstract specification. `UploadLifecycle` has the status of an upload, its recorded
parts, who decided to delete it, and the webhooks: parts are recorded while it is pending, a
start needs all of them, a result comes from `finalizing` only, a webhook once and of a
complete upload, and rows go only after a decision to delete. `Lifecycle` maps the
server's rows to it. TLC checks it for the three backends (Contention, SmbFaults, S3), and it
is proved for all three.

### Fairness

`FairSpec` assumes that spawned tasks and handlers without awaits go on (weak fairness of
their steps: the runtime polls what is ready), that a task which finds a permit free again
and again gets it (strong fairness of `TaskBegin`: tokio's semaphore is a FIFO queue),
that the cleanup service runs every hour, that time passes, and that `init_upload` inserts
the parts. Nothing is assumed of clients or faults. `FinalizationEnds` excludes failing
statements, "db": `mark_finalization_failed` that fails leaves the row finalizing until a
client asks for completion again.

With the SMB backend (`SmbFairness`) a task inside `finalize_upload` goes on where its wait on
the share has a timeout: it ends well or as one of the failures, on which there is no fairness;
they may strike for ever. The lock of an upload is a tokio mutex, whose holder is such a task.
Nothing is assumed of the waits that have none (`Untimed`): the close of the partial, and the
mutex of the client. So `SmbFinalizationEnds` has a condition, that no task stays in one of
them for ever; without it TLC finds the promise false, also when no operation fails.
Nothing is assumed of the background syncs.

## Proofs

TLAPS proves for every number of uploads, parts, bodies, requests, tasks, permits and
crashes, and for every set of faults, "abort" and "instant" included, unless a line says
otherwise:

- `TypeCorrect` (`TypeProofs`): `Spec => []TypeOK`, from lemmas per statement, per file
  operation and per handler. It includes that a file held open under a name exists.
- `StartedSafe` (`SafetyProofs`): `Spec => []StartedOnlyWhenAllUploaded`. The property is not
  inductive: a complete request that has counted the parts, or a task, may set the status
  later. `StartInv` adds that every such request and task has an upload whose parts are
  settled (all recorded, or all deleted) and whose init request is over. Being settled is
  stable, because no part row is inserted after init (this is why `client` is in the
  invariant), recording a part does not unrecord one, and deletion takes all rows in one
  statement. `AllCounted` turns the equality of the two numbers into "every part".
- `SoleFinalizerSafe`: `Spec => []SoleFinalizer`, inductive together with `StartInv`, which
  rules out that a row is created under a task.
- `CompleteFinal`: `Spec => CompleteIsFinal`, which every step has from the two invariants.
- `NotifiedOnceSafe` (`LifecycleProofs`): `Spec => []NotifiedOnce`. `TellInv` says of an
  uncontested upload that it has at most one task, whose upload says finalizing until the
  task has set `complete` (or was deleted), and that nothing was sent while it has one; so
  the one webhook is of a complete or deleted upload, and nobody is left to send another.
- `ServerImplementsLifecycle`: `Spec => ImplementsLifecycle`, step by step over `ServerInv`:
  `TypeOK`, `StartInv`, `TellInv` and what relates the rows to those who write them. Until
  init is over an upload has no part rows, has not expired and is not doomed (`FreshInv`);
  every removal under way is of a doomed upload, whose part rows go before its row
  (`GoneInv`); whoever has a task was once started (`TaskInv`). A statement that leaves the
  status alone, a file operation and a request that is refused are stutters.

The files (`FileProofs`). The theorems need of the client what the server does not
enforce, and say so:

- `Discipline`: one PUT of a part at a time (`MaxPerPart = 1`), and finitely many requests in
  flight. From it follows `OnePut`: a part is being sent by one request at most, and is not
  recorded meanwhile. Without it two PUTs pass the check of `part.rs:68` together, and the file of
  a part may be of one of them and its checksum of the other.
- `LateApart`: no part is sent again before the mkdir, the create or the write of a dropped
  PUT of it has run. Without it they can truncate or overwrite the file of a recorded part
  (`LateUnrecorded` says that they otherwise never do); where no request is dropped
  nothing is ever late, so that `NoDataLossUndropped` needs no such condition. That a write on
  its way is never mistaken for a request's handle is `HandlesAssumption`.

`NoDataLossSafe` and `CompletionIntactSafe` are then
`Spec /\ []LateApart => []NoDataLoss` and `... => []CompletionIntact`. Neither is inductive:
nothing in them keeps a task from renaming a half-written file. `FileInv` says, of an upload
that nobody deletes and that was not restarted over a live task, for each program counter
what each file holds: the file of a part being sent is torn until it has the body; that of a
recorded part has what was recorded, or all of them are in the final file; the staging file
has the parts before `next`, all of them at the rename, and is open for that task alone; from
the purge on the final file is whole and from the outcome on nothing else is left. That a
step of another upload, a refused request or a statement leaves all this alone is one lemma
(`IntactFrame`), and that nobody sends a part of a started upload another (`WhenSettled`).

Polls (`ObserverProofs`). `AnswerCoherentSafe`: `StatusSpec => []AnswerCoherent`, under every
fault. It needs `PollInv`: between its two statements a poll that read a status past `pending`
has an upload with all its parts, unless it is being deleted.

Removals (`ObserverProofs`). `RememberingHarmless`: the history `raced` changes nothing either, so
that what is proved of `Spec` holds beside it. These theorems ask nothing of the clients: several
PUTs of a part at once, and a part sent again before a dropped PUT is done, are included.

- `RemovedWithoutParts`: a removal that nobody overlapped leaves no parts, through failing
  statements, dropped requests and crashes. `SweptInv` says of an upload outside `raced` that
  its directory is gone as soon as somebody deleted its parts: a task about to record its
  outcome, a removal past that call, the row itself. It stays gone because nobody sends a part
  then (`NobodySends`): a PUT beside a removal under way, or beside a task, is an overlap the
  history has noted, and by `Unsent` a complete or deleted upload has none, since it became so by
  a task or a removal and no PUT begins later. Nor is a mkdir of a dropped PUT to come then
  (`MkdirLate`): the history would have noted it, behind a removal as behind a task.
  `DirInv` has the files in the directory.
- `RemovedWithoutTraceSafe`: nor does it leave a final file, of an uncontested upload.
  `FinalTrace` says that whoever has a final file is complete or has the task that renamed it,
  and `PathInv` that a complete upload has its path, by which the removal finds the file.

Which faults they exclude, and why: with "io" both are false, since an unlink that fails is
logged and not repeated. With "db" or "crash" the second is, since a finalization can then fail
an upload behind its rename, and `cancel_upload` deletes the final file of a complete upload only.

The S3 backend (`S3Proofs`). Every step of `S3Server` is one of `UploadServer`, one of five of
its own inside `assemble_parts`, or a failing unlink (`S3Steps`); the former keep `ServerInv`
as it was proved, the latter leave the rows alone. This gives `S3TypeCorrect` and
`S3ImplementsLifecycle`. `S3FileInv` is `FileInv` with the object for the final file: the temp
file has the parts before `next`, the object is absent or whole at every moment, and is there
before the first part file goes. It gives `ObjectWholeSafe`, `CompleteInBucketSafe` and
`S3NoDataLossSafe` under `Discipline` and `LateApart`, and `S3Undropped` without the latter.

The other promises of the server depend on `ServerInv` and a step of `Next` only
(`ServerPromises`, `ServerKeepsComplete`), so they carry over to both backends:
`S3FinalizationSafe` and `SmbFinalizationSafe` (start with all parts, one task, one webhook),
`S3CompleteFinal` and `SmbCompleteFinal`.

The SMB backend (`SmbProofs`) in the same way: `SmbTypeCorrect` and `SmbImplementsLifecycle`
over `SmbInv`, which adds to `ServerInv` the types of the share, that a task inside
`finalize_upload` has begun one of its three attempts and a task outside has none
(`TriesInv`), and that a sync has an upload (`SyncInv`). `FreeLock` is why `Lock` has as many
locks as there are tasks. The promises about the share need one more condition of the client:

- `Sends(file)`: every PUT of a part has the bytes `file` has for it, however often it is sent.
  Without it they are false, with the server's faults alone: a PUT whose row was not written
  leaves its sync behind, the client sends other bytes, and the first sync overwrites them on
  the share, perhaps after the rename (two syncers, two bodies and "db" show it).

`SmbNoDataLossSafe` and `SmbCompletionIntactSafe` are over `ShareInv`: the partial has the parts
before the one a task streams next, all of them at the rename, and the final file is whole
before the local parts go and whenever the upload is complete. Two invariants make it stable.
`FromFile`: whatever is stored, on disk, on the share or in a sync under way, is of that file
or torn, so a write over a good range keeps it good, by whomever, before or behind the rename.
`HandleInv`: a handle is open on the partial or on the final file, of one upload, and belongs
to a sync that writes or a task that streams, so that a write lands where it should.
`SmbUndropped` states both without `LateApart`.

What is left on the share and on the disk (`NoStrayPartial`), of whatever clients and
with "abort", "db" and "crash":

- `SmbRemovedWithoutParts` (local files do not fail) carries `SweptInv` over, with the steps
  of a task inside the backend.
- `NoPartialLeft` (the share does not fail, the disk may). `PartialInv` says of an uncontested
  upload outside `raced` that its partial is gone, and no sync of it under way, once somebody
  renamed or deleted it. To say who, `EraseInv` ties the marks of an erased partial to the
  removal that made them; `GoneIdle` says that nobody finalizes a deleted upload, and `GoneMeans`
  that whoever could create the partial again would be an overlap the history has noted.
- `NoStrayPartialSafe` is both. With "remote" a deletion of the partial can fail, and nobody
  repeats it.

The layout (`LayoutProofs`), for every positive size of upload and chunk, and all names:

- `PartsEndToEnd`, `ResumeLeavesNoGap` (`LayoutProofs`): the parts of any positive size lie
  end to end from the first byte to the last, and the part a finalization resumes from
  covers the end of the partial. They need the uniqueness of quotient and remainder
  (`DivUnique`) and monotonicity of multiplication (`TimesMonotone`).
- `TokensTile`: `Spec => []PartsTile`. A part ends where the next begins, so by monotonicity
  before any later one begins (`PartWithin`), and the part of a byte is the one a finalization
  would resume from there (`PartOfByte`).
- `FinalFileWhole`: `Spec => []ResumeCompletes`. `LayoutInv` says that an attempt stands at the
  offset of its next part, or at the end, and has all bytes before, if it was sound. No sum of
  sizes is needed: each part ends where the next begins.
- `DeleteMissesOnlyRepeats`: `Spec => []DeleteFindsFile`, by cases of the two normalisations of a
  path. It needs `NamesAssumption`: a base path that contained the name of the file itself would
  be a third kind of exception.

Each step is first summarised (`QuietTask`, `OutcomeTask`, `QuietRow`, `RemovalStep`,
`CompleterSummary`, `CrashSummary`, `CallSummary`, `TaskCallMoves`), and the invariants are shown
on the summaries. The assumptions used are those of `Domain` and the positive bounds, that
syncs and tasks are different things and no file is "no file" (`ShareAssumption`), and that
tasks are finitely many (`TaskAssumption`: there is a lock for each), that requests are not
bodies (`HandlesAssumption`), and of the layout that the
bounds are positive and the names as said (`BoundsAssumption`, `NamesAssumption`); TLC evaluates
them in every run of a module that has them.

Only model-checked: liveness (`FinalizationEnds`, `PendingReclaimed`, `SmbFinalizationEnds`),
which rests on fairness and ENABLED and is beyond this prover. Every safety property that a
passing run checks, invariant or action property, is stated by a theorem, under the conditions
above.

## Not modelled

Health (it reports whether the backend answers); keys and signatures; configuration; error
texts; the deployment scripts, of which only the restart matters. `update_upload_status`,
`update_upload_final_path`, `mark_stale_finalizing_failed_on_boot`, `read_part` and the SMB
`assemble_parts` have no caller. The optional list of parts in an answer of `get_status`. Of
the SMB backend the directories it creates, the connections it pools and its protocol; of
both remote backends how characters of a name are replaced. Sizes beyond 2^53, where the
quotient in floating point is not exact, and more than 2^31 parts. What a file system keeps
after a power loss is outside the repository; `store_part` does not sync.

Divergences that no run checks, found while modelling:

- two PUTs with the token of a part pass the check together, and the second replaces the checksum,
  and perhaps the bytes, that the first recorded (`PutMark`), where `ARCHITECTURE.md:252` calls
  the tokens non-reusable;
- a PUT whose client disconnects leaves its file operation to tokio's pool: when the part has been
  sent again and recorded, the create truncates its file or the write overwrites it
  (`LateCreate`, `LateWrite`), and the upload completes with a hole although the client did what
  `README.md:309` says, "re-uploads only `pending` parts";
- the close of the partial and the mutex of the client are awaited without a timeout
  (`Untimed`): a share that does not answer keeps an upload finalizing, where `smb.rs:779` says
  that every operation has one;
- an UPDATE of the heartbeat that is executing when `abort()` is called can leave a complete
  upload with a progress below 100 (`LateBeat`);
- the sync of a PUT that was not recorded can overwrite, on the share, the part that was sent
  again with other bytes (`smb.rs:702`; excluded by `Sends`);
- a PUT that passed its checks recreates the directory a cancel removed (`CreatePartsDir`),
  and a sync the partial (`OpenPartial`);
- the mkdir of a dropped PUT recreates, empty, the directory that a finalization or a removal
  deleted (`LateMkdir`);
- the staging file of a failed assembly, and the temp file of a failed put, outlive a cancel
  (`cleanup_incomplete_upload` removes the parts only); so does a final file that was renamed
  by a finalization that then failed;
- a crash between the status and the webhook loses the webhook;
- the cleanup service deletes uploads that left `pending` after it had listed them
  (`CleanPurge`), where `ARCHITECTURE.md:329` speaks of pending ones;
- failed uploads are never reclaimed, expired or not (`ExpiredPendingUploads`), where
  `README.md:13` promises it of incomplete ones;
- a restart within the second of a row's last update does not resume its finalization
  (`CrashRestart` with "instant"), where `main.rs:102` says that interrupted ones are;
- `ARCHITECTURE.md:290` describes S3 multipart uploads; the code puts one object;
- `delete_file` on a share misses the file when the client's directory begins with the base
  path, or the base ends in "files" and the directory begins with it (`DeleteFindsFile`).

## Plan

What could follow:

1. The list of parts in `get_status`, as a third statement of a poll.
2. A history of removals for the S3 backend: its object, the temp file of a failed put.
3. What a failing removal leaves, as a promise of its own: which files, and what of them a
   repeated cancel request still finds.
