---------------------------- MODULE SmbProperties ----------------------------
(***************************************************************************)
(* What the server promises with the SMB backend.  `gapped' holds once a   *)
(* finalization took the size of the partial for a prefix that is on the   *)
(* share while it was not: FastPathHasEverything says it never does.       *)
(***************************************************************************)
EXTENDS SmbServer, Leftovers

\* A finalization and a sync of the upload also race: the sync may create the
\* partial again behind the rename.
Syncing(u) == \E s \in Syncer : sync[s].pc # "idle" /\ sync[s].u = u
Renaming(u) == \E t \in Task : task[t].pc \in Storing /\ task[t].u = u

SmbOverlap(u) == \/ Overlap(u)
                 \/ Syncing(u) /\ (BeingRemoved(u) \/ Renaming(u))

SmbHistoryInit == SmbInit /\ raced = {}

SmbHistorySpec == SmbHistoryInit /\ [][SmbNext /\ Remember(SmbOverlap)]_<<smbServerVars, raced>>

OnShare(u) == shareFile[u] # NoFile /\ shareFile[u].data = parts[u]

\* A recorded part stays recoverable through failing operations on the share
\* and on the disk, retried attempts, a rename of unknown outcome, syncs that
\* go on writing behind the rename, and a restart: its local file or the
\* final file on the share has it.
SmbNoDataLoss ==
    \A u \in Upload : ~contested[u] /\ u \notin doomed /\ ~gapped[u] =>
        \A p \in Part : Uploaded(u, p) => partFile[u][p] = parts[u][p] \/ OnShare(u)

\* An upload that the server calls complete has the final file that its
\* checksums describe on the share, and stays so while late syncs, earlier
\* attempts and heartbeats run on.
SmbCompletionIntact ==
    \A u \in Upload :
        uploads[u].status = "complete" /\ ~contested[u] /\ u \notin doomed /\ ~gapped[u] =>
            OnShare(u)

\* Neither a removal nor a completion leaves a partial on the share, and a
\* removal leaves no local parts, unless a sync or a PUT ran meanwhile.  (The
\* second task of a contested upload can wait for the lock with its checks
\* done, and then create the partial again behind the rename of the first.)
NoStrayPartial ==
    \A u \in Upload \ raced :
        /\ uploads[u].status \in {"complete", "deleted"} => contested[u] \/ partial[u] = NoFile
        /\ uploads[u].status = "deleted" => ~partsDir[u] /\ partFile[u] = NoPartFiles

-----------------------------------------------------------------------------
(* Fairness as for UploadServer.  A task inside finalize_upload runs on     *)
(* where its wait on the share has a timeout: it ends well or as one of the *)
(* failures, of which nothing is assumed.  The lock of an upload is a fair  *)
(* tokio mutex.  Two waits have no timeout, that for the answer to the      *)
(* close of the partial and that for the client's mutex, which a cancel or  *)
(* the cleanup service holds while it connects: nothing is assumed of them. *)
SmbIdling == Idling /\ UNCHANGED remoteVars

SmbEndStep(t) == TaskMarkComplete(t) \/ TaskMarkFailed(t) \/ TaskNotify(t)

\* The task closes the partial, or gives the client back.
Untimed(t) == \/ task[t].pc \in {"close", "purge"}
              \/ task[t].pc = "enter" /\ smb[t].tries > 0

SmbTimedStep(t) == ~Untimed(t) /\ SmbTaskStep(t)

SmbFairness ==
    /\ \A t \in Task : /\ WF_smbServerVars(SmbTimedStep(t) \/ (SmbEndStep(t) /\ SmbIdling))
                       /\ SF_smbServerVars(TaskBegin(t) /\ SmbIdling)
    /\ \A c \in Completer : WF_smbServerVars(CompleterStep(c) /\ SmbIdling)

SmbFairSpec == SmbHistorySpec /\ SmbFairness

\* A finalization ends although the share may be out of reach for ever, and
\* after three attempts is given up, unless a wait without a timeout lasts for
\* ever; a restart of the process takes a finalization over.
SmbFinalizationEnds ==
    (\A t \in Task : []<>~Untimed(t)) =>
        \A u \in Upload :
            uploads[u].status = "finalizing" ~> uploads[u].status # "finalizing"

-----------------------------------------------------------------------------
\* smb.rs:777: "Fast path: background syncs already wrote everything": the final
\* file of a complete upload has every part.
FastPathHasEverything ==
    \A u \in Upload : uploads[u].status = "complete" /\ u \notin doomed => OnShare(u)
=============================================================================
