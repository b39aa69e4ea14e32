-------------------------- MODULE ServerProperties --------------------------
(***************************************************************************)
(* What the server promises, as properties of UploadServer.  The history   *)
(* variables delimit the promises: `contested' holds once a finalization   *)
(* was restarted under a task that still had it, `doomed' once a cancel    *)
(* request or the cleanup service decided to delete the upload.            *)
(***************************************************************************)
EXTENDS UploadServer

-----------------------------------------------------------------------------
\* Safety.

\* One task at a time works on an upload, and only while the row says
\* finalizing: the compare-and-set of try_start_finalization, the restart of
\* stale finalizations and the boot recovery never give an upload to two
\* tasks, as long as no restart hits a live one.
SoleFinalizer ==
    \A u \in Upload : ~contested[u] /\ RowExists(u) =>
        /\ \A s, t \in FinalizersOf(u) : s = t
        /\ FinalizersOf(u) # {} => uploads[u].status = "finalizing"

\* `complete' is terminal: no late task, heartbeat, complete request or boot
\* takes an upload out of it, other than by deleting it.
CompleteIsFinal ==
    [][\A u \in Upload : uploads[u].status = "complete" /\ ~contested[u] =>
            uploads'[u].status \in {"complete", "deleted"}]_vars

\* Finalization starts only with every part recorded: complete_upload counts
\* the parts in one statement and changes the status in another, and a cancel
\* may delete the part rows, but never some of them, in between.
StartedOnlyWhenAllUploaded ==
    \A u \in Upload : uploads[u].status \in {"finalizing", "complete", "failed"} =>
        \/ \A p \in Part : Uploaded(u, p)
        \/ \A p \in Part : parts[u][p] = "norow"

\* A recorded part stays recoverable, through failing file operations, failing
\* statements, crashes and retries, until somebody decides to delete the
\* upload: its file holds the body whose checksum the row has, or the final
\* file holds every recorded part.
NoDataLoss ==
    \A u \in Upload : ~contested[u] /\ u \notin doomed =>
        \A p \in Part : Uploaded(u, p) =>
            partFile[u][p] = parts[u][p] \/ finalFile[u] = parts[u]

\* An upload that the server calls complete has the final file its checksums
\* describe, and neither part files nor a staging file are left of it.
CompletionIntact ==
    \A u \in Upload : uploads[u].status = "complete" /\ ~contested[u] /\ u \notin doomed =>
        /\ finalFile[u] = parts[u]
        /\ partFile[u] = NoPartFiles /\ ~partsDir[u]
        /\ staging[u] = NoFile

\* The webhook is sent at most once, and only of an upload that is then
\* recorded complete, or whose row was deleted under the task.
NotifiedOnce ==
    \A u \in Upload : ~contested[u] =>
        /\ notified[u] <= 1
        /\ notified[u] = 1 => uploads[u].status \in {"complete", "deleted"}

\* The server implements UploadLifecycle: what a client sees of an upload goes
\* through its phases in order, each for its reason, through every fault.
Lifecycle == INSTANCE UploadLifecycle WITH
    phase    <- [u \in Upload |-> uploads[u].status],
    received <- [u \in Upload |-> UploadedParts(u)],
    leaving  <- doomed,
    overrun  <- contested,
    told     <- notified

ImplementsLifecycle == Lifecycle!Spec

-----------------------------------------------------------------------------
(* Liveness.  What the process starts, it continues: spawned tasks and the  *)
(* handlers that have no await left run on (weak fairness of their steps).  *)
(* Permits: tokio's semaphore is a FIFO queue, so a task that finds a       *)
(* permit free again and again gets one (strong fairness of TaskBegin).     *)
(* The cleanup service wakes up every hour, time stamps expire.  Nothing is *)
(* assumed of clients, of crashes or of faults.                             *)
Idling == UNCHANGED <<ingestVars, removalVars, crashes>>

Fairness ==
    /\ \A t \in Task : /\ WF_vars(TaskStep(t) /\ Idling)
                       /\ SF_vars(TaskBegin(t) /\ Idling)
    /\ \A c \in Completer : WF_vars(CompleterStep(c) /\ Idling)
    /\ \A u \in Upload : WF_vars(InitParts(u) /\ UNCHANGED <<finalizerVars, removalVars, crashes>>)
    /\ WF_vars(CleanStep /\ UNCHANGED <<ingestVars, finalizerVars, crashes>>)
    /\ \A u \in Upload : WF_vars(Expire(u))

FairSpec == Spec /\ Fairness

\* A finalization ends, whatever file operations fail and even if the process
\* restarts meanwhile: the upload leaves `finalizing' without any client's
\* help.  (A failing statement is excluded: it can leave the row as it is.)
FinalizationEnds ==
    \A u \in Upload :
        uploads[u].status = "finalizing" ~> uploads[u].status # "finalizing"

\* An upload whose parts never all arrive is removed by the cleanup service
\* once it expires, unless someone finalizes it after all.
PendingReclaimed ==
    \A u \in Upload : uploads[u].status = "pending" ~> uploads[u].status # "pending"

-----------------------------------------------------------------------------
\* What the documents and comments of the repository say and the code does not.

\* README.md:228: "Poll `/upload/{id}/status` until terminal phase": a phase
\* seen as complete stays so until the upload is deleted.
CompletePhaseIsTerminal ==
    [][\A u \in Upload : uploads[u].status = "complete" =>
            uploads'[u].status \in {"complete", "deleted"}]_vars

\* README.md:258: "cancel returns `409 Conflict` while `status=finalizing`":
\* a cancel never deletes the row of a finalizing upload.
FinalizingNotCancelled ==
    [][\A u \in Upload : uploads[u].status = "finalizing" =>
            uploads'[u].status # "deleted"]_vars

\* main.rs:102: "Re-trigger any finalizations interrupted by server restart": a
\* crash alone, with no other failure, makes no upload fail.
CrashNeverFailsUpload == \A u \in Upload : uploads[u].status # "failed"

=============================================================================
