------------------------------ MODULE Finalizer ------------------------------
(***************************************************************************)
(* Finalization (src/src/handlers/complete.rs): the handler of             *)
(* POST /upload/{id}/complete, the background task it spawns, the          *)
(* heartbeat of that task and the webhook.                                 *)
(***************************************************************************)
EXTENDS Ingest

CONSTANTS
    Completer,         \* complete requests that are in flight at a time
    MaxFinalizations   \* permits of the finalization semaphore

ASSUME MaxFinalizationsAssumption == MaxFinalizations \in Nat \ {0}

VARIABLES
    completer,   \* the complete request each completer is executing
    task,        \* the finalization each task is executing
    lateBeat,    \* uploads with a heartbeat UPDATE under way after abort()
    contested,   \* history: a finalization restarted while a task had it
    notified     \* history: webhooks sent (counted up to 2)

finalizerVars == <<completer, task, lateBeat, contested, notified>>

CompleterPc == {"idle", "restart", "count", "start"}

(* "queued": waits for a permit.  "check": has loaded the upload.  "enter"  *)
(* .. "purge": inside finalize_upload ("close" only with the SMB backend).    *)
(* "notify": the row says complete, the webhook is to be sent.              *)
Storing == {"enter", "create", "append", "close", "rename", "purge"}
Running == Storing \cup {"check", "mark_ok", "mark_fail"}
TaskPc  == Running \cup {"idle", "queued", "notify"}

NoRequest == [pc |-> "idle", u |-> None]
NoTask    == [pc |-> "idle", u |-> None, next |-> 0]

CompleterTypeOK ==
    /\ completer \in [Completer -> [pc : CompleterPc, u : Upload \cup {None}]]
    /\ \A c \in Completer : completer[c].pc # "idle" => completer[c].u \in Upload

TaskState == [pc : TaskPc, u : Upload \cup {None}, next : 0 .. TotalParts]

TaskTypeOK ==
    /\ task \in [Task -> TaskState]
    /\ \A t \in Task : task[t].pc # "idle" => task[t].u \in Upload
    /\ \A t \in Task : task[t].pc = "append" => task[t].next \in Part

FinalizerTypeOK == /\ CompleterTypeOK
                   /\ TaskTypeOK
                   /\ lateBeat \in SUBSET Upload
                   /\ contested \in [Upload -> BOOLEAN]
                   /\ notified \in [Upload -> 0 .. 2]

FinalizerInit == /\ completer = [c \in Completer |-> NoRequest]
                 /\ task = [t \in Task |-> NoTask]
                 /\ lateBeat = {}
                 /\ contested = [u \in Upload |-> FALSE]
                 /\ notified = [u \in Upload |-> 0]

\* Tasks that still have something to do to the upload's files or row.
FinalizersOf(u) == {t \in Task : /\ task[t].pc \in Running \cup {"queued"}
                                 /\ task[t].u = u}

PermitFree == Cardinality({t \in Task : task[t].pc \in Running}) < MaxFinalizations

\* tokio::spawn(run_finalization_task).  Task bounds how many are alive.
Spawn(t, u) == /\ task[t].pc = "idle"
               /\ task' = [task EXCEPT ![t] = [pc |-> "queued", u |-> u, next |-> 0]]

-----------------------------------------------------------------------------
\* complete_upload: there is no await in it, yet its statements interleave
\* with those of requests on other threads.

CompleterReturn(c) == completer' = [completer EXCEPT ![c] = NoRequest]

\* get_upload and the branch on the status; a complete upload is answered 200.
CompleteStart(c, u) ==
    /\ completer[c].pc = "idle"
    /\ client[u] = "known"
    /\ RowExists(u)
    /\ uploads[u].status # "complete"
    /\ completer' = [completer EXCEPT ![c] =
                        [pc |-> IF uploads[u].status = "finalizing" THEN "restart" ELSE "count",
                         u |-> u]]
    /\ UNCHANGED <<task, lateBeat, contested, notified, repoVars, storageVars>>

CompleteRestart(c) ==
    LET u == completer[c].u IN
    /\ completer[c].pc = "restart"
    /\ IF CanRestartFinalization(u)
       THEN /\ RestartStaleFinalization(u)
            /\ contested' = [contested EXCEPT ![u] = @ \/ FinalizersOf(u) # {}]
            /\ \E t \in Task : Spawn(t, u)
       ELSE UNCHANGED <<task, contested, repoVars>>
    /\ CompleterReturn(c)
    /\ UNCHANGED <<lateBeat, notified, storageVars>>

CompleteCount(c) ==
    /\ completer[c].pc = "count"
    /\ IF AllPartsUploaded(completer[c].u)
       THEN completer' = [completer EXCEPT ![c].pc = "start"]
       ELSE CompleterReturn(c)
    /\ UNCHANGED <<task, lateBeat, contested, notified, repoVars, storageVars>>

CompleteTryStart(c) ==
    LET u == completer[c].u IN
    /\ completer[c].pc = "start"
    /\ IF CanStartFinalization(u)
       THEN /\ TryStartFinalization(u)
            /\ \E t \in Task : Spawn(t, u)
       ELSE UNCHANGED <<task, repoVars>>
    /\ CompleterReturn(c)
    /\ UNCHANGED <<lateBeat, contested, notified, storageVars>>

\* Any of its statements fails: the client is told, or told nothing new.
CompleteDbError(c) ==
    /\ "db" \in Faults
    /\ completer[c].pc # "idle"
    /\ CompleterReturn(c)
    /\ UNCHANGED <<task, lateBeat, contested, notified, repoVars, storageVars>>

-----------------------------------------------------------------------------
\* run_finalization_task.

TaskGoto(t, pc) == task' = [task EXCEPT ![t].pc = pc]
TaskReturn(t)   == task' = [task EXCEPT ![t] = NoTask]

\* heartbeat.abort() does not stop an UPDATE that is being executed.
StopHeartbeat(u) == \/ UNCHANGED lateBeat
                    \/ lateBeat' = lateBeat \cup {u}

\* A permit, then get_upload and progress 1.  A missing row ends the task.
TaskBegin(t) ==
    /\ task[t].pc = "queued"
    /\ PermitFree
    /\ UpdateFinalizingProgress(task[t].u, 1)
    /\ IF RowExists(task[t].u) THEN TaskGoto(t, "check") ELSE TaskReturn(t)
    /\ UNCHANGED <<completer, lateBeat, contested, notified, storageVars>>

\* get_upload fails: the task ends, the row stays finalizing.
TaskBeginDbError(t) ==
    /\ "db" \in Faults
    /\ task[t].pc = "queued"
    /\ PermitFree
    /\ TaskReturn(t)
    /\ UNCHANGED <<completer, lateBeat, contested, notified, repoVars, storageVars>>

\* The loop over the part rows that are there (none, once they are deleted),
\* verify_upload_ready, which this backend does not override, and progress 10.
TaskCheck(t) ==
    /\ task[t].pc = "check"
    /\ IF \E p \in ListedParts(task[t].u) : ~Uploaded(task[t].u, p)
       THEN /\ TaskGoto(t, "mark_fail")
            /\ UNCHANGED repoVars
       ELSE /\ TaskGoto(t, "enter")
            /\ UpdateFinalizingProgress(task[t].u, 10)
    /\ UNCHANGED <<completer, lateBeat, contested, notified, storageVars>>

\* get_all_parts fails.
TaskCheckDbError(t) ==
    /\ "db" \in Faults
    /\ task[t].pc = "check"
    /\ TaskGoto(t, "mark_fail")
    /\ UNCHANGED <<completer, lateBeat, contested, notified, repoVars, storageVars>>

\* assemble_parts: the target directory, then a stale staging file.
TaskUnlink(t) ==
    /\ task[t].pc = "enter"
    /\ RemoveStaleStaging(task[t].u)
    /\ TaskGoto(t, "create")
    /\ UNCHANGED <<completer, lateBeat, contested, notified, repoVars>>

TaskCreate(t) ==
    /\ task[t].pc = "create"
    /\ CreateStaging(t, task[t].u)
    /\ task' = [task EXCEPT ![t] = [@ EXCEPT !.pc = "append", !.next = 0]]
    /\ UNCHANGED <<completer, lateBeat, contested, notified, repoVars>>

\* Mutant of Abandon: the task returns without recording the failure.
Vanish(t) ==
    /\ CloseStaging(t, task[t].u)
    /\ StopHeartbeat(task[t].u)
    /\ TaskReturn(t)

\* assemble_parts returns early: its handle closes, the heartbeat stops.
Abandon(t) ==
    /\ CloseStaging(t, task[t].u)
    /\ StopHeartbeat(task[t].u)
    /\ TaskGoto(t, "mark_fail")

\* Mutant of TaskAppend: a part whose file is missing is skipped.
TaskAppendSkips(t) ==
    LET u == task[t].u
        p == task[t].next
    IN
    /\ task[t].pc = "append"
    /\ IF partFile[u][p] = NoFile THEN UNCHANGED storageVars ELSE AppendPart(t, u, p)
    /\ task' = [task EXCEPT ![t] =
                   [@ EXCEPT !.pc = IF p + 1 = TotalParts THEN "rename" ELSE "append",
                             !.next = p + 1]]
    /\ UNCHANGED <<completer, lateBeat, contested, notified, repoVars>>

\* Mutant of TaskAppend: the loop runs to total_parts inclusive.
TaskAppendTooFar(t) ==
    LET u == task[t].u
        p == task[t].next
    IN
    /\ task[t].pc = "append"
    /\ partFile[u][p] # NoFile
    /\ AppendPart(t, u, p)
    /\ task' = [task EXCEPT ![t] =
                   [@ EXCEPT !.pc = IF p = TotalParts THEN "rename" ELSE "append",
                             !.next = p + 1]]
    /\ UNCHANGED <<completer, lateBeat, contested, notified, repoVars>>

TaskAppend(t) ==
    LET u == task[t].u
        p == task[t].next
    IN
    /\ task[t].pc = "append"
    /\ IF partFile[u][p] = NoFile
       THEN Abandon(t)
       ELSE /\ AppendPart(t, u, p)
            /\ task' = [task EXCEPT ![t] =
                        [@ EXCEPT !.pc = IF p + 1 = TotalParts THEN "rename" ELSE "append",
                                  !.next = p + 1]]
            /\ UNCHANGED lateBeat
    /\ UNCHANGED <<completer, contested, notified, repoVars>>

TaskRename(t) ==
    /\ task[t].pc = "rename"
    /\ IF staging[task[t].u] = NoFile
       THEN Abandon(t)
       ELSE /\ RenameStaging(t, task[t].u)
            /\ TaskGoto(t, "purge")
            /\ UNCHANGED lateBeat
    /\ UNCHANGED <<completer, contested, notified, repoVars>>

TaskPurge(t) ==
    /\ task[t].pc = "purge"
    /\ DeleteParts(task[t].u)
    /\ StopHeartbeat(task[t].u)
    /\ TaskGoto(t, "mark_ok")
    /\ UNCHANGED <<completer, contested, notified, repoVars>>

\* A file operation fails, deleting the parts of an assembled file included.
TaskIoError(t) ==
    /\ "io" \in Faults
    /\ \/ /\ task[t].pc \in Storing \ {"purge"}
          /\ Abandon(t)
       \/ /\ task[t].pc = "purge"
          /\ DeletePartsPartly(task[t].u)
          /\ StopHeartbeat(task[t].u)
          /\ TaskGoto(t, "mark_fail")
    /\ UNCHANGED <<completer, contested, notified, repoVars>>

TaskMarkComplete(t) ==
    /\ task[t].pc = "mark_ok"
    /\ MarkFinalizationComplete(task[t].u)
    /\ TaskGoto(t, "notify")
    /\ UNCHANGED <<completer, lateBeat, contested, notified, storageVars>>

TaskMarkFailed(t) ==
    /\ task[t].pc = "mark_fail"
    /\ MarkFinalizationFailed(task[t].u)
    /\ TaskReturn(t)
    /\ UNCHANGED <<completer, lateBeat, contested, notified, storageVars>>

\* Mutant of TaskMarkDbError: no return after the logged error.
TaskMarkDbErrorNotifies(t) ==
    /\ "db" \in Faults
    /\ task[t].pc \in {"mark_ok", "mark_fail"}
    /\ IF task[t].pc = "mark_ok" THEN TaskGoto(t, "notify") ELSE TaskReturn(t)
    /\ UNCHANGED <<completer, lateBeat, contested, notified, repoVars, storageVars>>

\* The outcome cannot be recorded: it is logged and the task ends.
TaskMarkDbError(t) ==
    /\ "db" \in Faults
    /\ task[t].pc \in {"mark_ok", "mark_fail"}
    /\ TaskReturn(t)
    /\ UNCHANGED <<completer, lateBeat, contested, notified, repoVars, storageVars>>

\* send_webhook: one attempt, whatever the answer.
TaskNotify(t) ==
    /\ task[t].pc = "notify"
    /\ notified' = [notified EXCEPT ![task[t].u] = IF @ < 2 THEN @ + 1 ELSE 2]
    /\ TaskReturn(t)
    /\ UNCHANGED <<completer, lateBeat, contested, repoVars, storageVars>>

-----------------------------------------------------------------------------
\* The heartbeat task, every 5 s while finalize_upload runs.
Heartbeat(t) ==
    /\ task[t].pc \in Storing
    /\ UpdateFinalizingProgress(task[t].u, 98)
    /\ UNCHANGED <<finalizerVars, storageVars>>

LateBeat(u) ==
    /\ u \in lateBeat
    /\ lateBeat' = lateBeat \ {u}
    /\ UpdateFinalizingProgress(u, 98)
    /\ UNCHANGED <<completer, task, contested, notified, storageVars>>

\* 300 s go by without an update of the row: no task has the upload, or those
\* that do wait for permits.  A running task writes within a few seconds.
GoStale(u) ==
    /\ uploads[u].status = "finalizing"
    /\ ~uploads[u].stale
    /\ \A t \in FinalizersOf(u) : task[t].pc = "queued" /\ ~PermitFree
    /\ uploads' = [uploads EXCEPT ![u] = [@ EXCEPT !.stale = TRUE]]
    /\ UNCHANGED <<parts, finalizerVars, storageVars>>

-----------------------------------------------------------------------------
CompleterStep(c) == CompleteRestart(c) \/ CompleteCount(c) \/ CompleteTryStart(c)

TaskStep(t) == \/ TaskCheck(t)
               \/ TaskUnlink(t) \/ TaskCreate(t) \/ TaskAppend(t)
               \/ TaskRename(t) \/ TaskPurge(t)
               \/ TaskMarkComplete(t) \/ TaskMarkFailed(t) \/ TaskNotify(t)

TaskFault(t) == \/ TaskBeginDbError(t) \/ TaskCheckDbError(t)
                \/ TaskIoError(t) \/ TaskMarkDbError(t)

FinalizerNext ==
    \/ \E c \in Completer : \/ \E u \in Upload : CompleteStart(c, u)
                            \/ CompleterStep(c)
                            \/ CompleteDbError(c)
    \/ \E t \in Task : TaskBegin(t) \/ TaskStep(t) \/ TaskFault(t) \/ Heartbeat(t)
    \/ \E u \in Upload : LateBeat(u) \/ GoStale(u)
=============================================================================
