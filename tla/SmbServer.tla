------------------------------ MODULE SmbServer ------------------------------
(***************************************************************************)
(* The server with the SMB backend (src/src/storage/smb.rs).  Requests,    *)
(* rows, permits and heartbeats are those of UploadServer; what differs    *)
(* is that a stored part is synced to the share in the background, and     *)
(* what verify_upload_ready, finalize_upload, cleanup_incomplete_upload    *)
(* and delete_file do.  The local final and staging files are not used.    *)
(*                                                                         *)
(* While a task is inside finalize_upload its pc is "enter" (waits for the *)
(* upload's lock, or begins an attempt), "create" (opens the partial),     *)
(* "append" (streams part `next'), "close", "rename" or "purge".           *)
(***************************************************************************)
EXTENDS Backends, SmbStorage

VARIABLES
    sync,      \* the background sync each syncer is executing
    smb,       \* the lock and the attempts of each task
    lockEntry, \* upload_locks: the lock of each upload, 0 if it has none
    erased,    \* cancel requests whose cleanup is past the share
    erasing,   \* the upload the cleanup service has erased on the share
    gapped     \* history: a finalization trusted a range the share did not have

attemptVars == <<smb, lockEntry, gapped>>
eraseVars == <<erased, erasing>>
remoteVars == <<shareVars, sync, attemptVars, eraseVars>>
smbServerVars == <<vars, remoteVars>>

\* There is a lock for each task that may need one.
ASSUME TaskAssumption == IsFiniteSet(Task)

MaxAttempts == 3
Lock == 1 .. Cardinality(Task)

NoSync    == [pc |-> "idle", u |-> None, p |-> 0, body |-> Torn]
NoAttempt == [lock |-> 0, tries |-> 0]

SmbTypeOK ==
    /\ TypeOK
    /\ ShareTypeOK
    /\ sync \in [Syncer -> [pc : {"idle", "queued", "open", "half"},
                            u : Upload \cup {None}, p : Part, body : Data]]
    /\ smb \in [Task -> [lock : Lock \cup {0}, tries : 0 .. MaxAttempts]]
    /\ \A t \in Task : task[t].pc \in Storing \ {"enter"} => smb[t].tries > 0
    /\ lockEntry \in [Upload -> Lock \cup {0}]
    /\ erased \in SUBSET Canceller
    /\ erasing \in Upload \cup {None}
    /\ gapped \in [Upload -> BOOLEAN]

SmbInit == /\ Init
           /\ ShareInit
           /\ sync = [s \in Syncer |-> NoSync]
           /\ smb = [t \in Task |-> NoAttempt]
           /\ lockEntry = [u \in Upload |-> 0]
           /\ erased = {}
           /\ erasing = None
           /\ gapped = [u \in Upload |-> FALSE]

-----------------------------------------------------------------------------
\* store_part: there is no await between the flush of the local file and the
\* spawn.  Syncer bounds how many syncs are alive: a PUT waits for a free one.
StorePart(w) ==
    /\ PutWrite(w)
    /\ \E s \in Syncer :
          /\ sync[s].pc = "idle"
          /\ sync' = [sync EXCEPT ![s] = [pc |-> "queued", u |-> put[w].u,
                                          p |-> put[w].p, body |-> put[w].body]]
    /\ UNCHANGED <<finalizerVars, removalVars, crashes, shareVars, attemptVars, eraseVars>>

\* background_sync_part_inner.
SyncOpen(s) ==
    /\ sync[s].pc = "queued"
    /\ OpenPartial(s, sync[s].u)
    /\ sync' = [sync EXCEPT ![s].pc = "open"]
    /\ UNCHANGED <<vars, attemptVars, eraseVars>>

SyncSome(s) ==
    /\ sync[s].pc = "open"
    /\ WriteSome(s, sync[s].u, sync[s].p, sync[s].body)
    /\ sync' = [sync EXCEPT ![s].pc = "half"]
    /\ UNCHANGED <<vars, attemptVars, eraseVars>>

SyncEnd(s) ==
    /\ sync[s].pc \in {"open", "half"}
    /\ WriteRange(s, sync[s].u, sync[s].p, sync[s].body)
    /\ CloseHandle(s, sync[s].u)
    /\ sync' = [sync EXCEPT ![s] = NoSync]
    /\ UNCHANGED <<vars, attemptVars, eraseVars>>

\* An error or the 120 s timeout is only logged; nothing syncs the part again.
SyncFail(s) ==
    /\ "remote" \in Faults
    /\ sync[s].pc # "idle"
    /\ CloseHandle(s, sync[s].u)
    /\ sync' = [sync EXCEPT ![s] = NoSync]
    /\ UNCHANGED <<vars, partial, shareFile, attemptVars, eraseVars>>

-----------------------------------------------------------------------------
\* The part rows, which the database may fail to return, and then
\* verify_upload_ready: every part file is there and their lengths add up.  A
\* torn file may have any length.
VerifyMayPass(u) == \A p \in Part : partFile[u][p] # NoFile
VerifyMayFail(u) == \E p \in Part : partFile[u][p] \in {NoFile, Torn}

SmbCheck(t) ==
    /\ task[t].pc = "check"
    /\ \/ VerifyMayPass(task[t].u) /\ TaskCheck(t)
       \/ /\ VerifyMayFail(task[t].u) \/ "db" \in Faults
          /\ TaskGoto(t, "mark_fail")
          /\ UNCHANGED <<completer, lateBeat, contested, notified, repoVars, storageVars>>
    /\ UNCHANGED <<ingestVars, removalVars, crashes, remoteVars>>

\* finalize_upload changes nothing of the handlers and the rows.
FinalizeFrame == UNCHANGED <<completer, contested, notified, repoVars, ingestVars,
                             removalVars, crashes, sync, eraseVars>>

\* get_upload_lock: the lock of the map, or a new one.  An entry whose lock no
\* task holds or waits for is as good as none.
SmbEnter(t) ==
    LET u     == task[t].u
        users == {s \in Task : smb[s].lock # 0}
        alive == \E s \in users : task[s].u = u /\ smb[s].lock = lockEntry[u]
        lock  == IF alive THEN lockEntry[u]
                 ELSE CHOOSE l \in Lock : \A s \in users : smb[s].lock # l
    IN  /\ task[t].pc = "enter"
        /\ smb[t].lock = 0
        /\ smb' = [smb EXCEPT ![t].lock = lock]
        /\ lockEntry' = [lockEntry EXCEPT ![u] = lock]
        /\ UNCHANGED <<task, lateBeat, storageVars, shareVars, gapped>>
        /\ FinalizeFrame

\* Mutant of Attempts: one attempt too many.
AttemptsOften(t) ==
    /\ task[t].pc = "enter"
    /\ smb[t].lock # 0
    /\ smb[t].tries <= MaxAttempts
    /\ \/ smb[t].tries > 0
       \/ \A s \in Task : smb[s].lock = smb[t].lock => smb[s].tries = 0

\* The task begins its next attempt; the first one acquires the lock, the others
\* wait for the client's mutex first.
Attempts(t) ==
    /\ task[t].pc = "enter"
    /\ smb[t].lock # 0
    /\ smb[t].tries < MaxAttempts
    /\ \/ smb[t].tries > 0
       \/ \A s \in Task : smb[s].lock = smb[t].lock => smb[s].tries = 0

\* Err: the lock is released, its entry stays in the map.
GiveUp(t) ==
    /\ smb' = [smb EXCEPT ![t] = NoAttempt]
    /\ StopHeartbeat(task[t].u)
    /\ TaskGoto(t, "mark_fail")

\* Mutant of AttemptFailed: tries until it succeeds.
AttemptFailedRepeats(t, n) ==
    /\ smb' = [smb EXCEPT ![t].tries = 1]
    /\ TaskGoto(t, "enter")
    /\ UNCHANGED lateBeat

\* Attempt number n failed: the task gives the client back, which waits for the
\* client's mutex, and tries again or gives up.
AttemptFailed(t, n) ==
    /\ smb' = [smb EXCEPT ![t].tries = n]
    /\ TaskGoto(t, "enter")
    /\ UNCHANGED lateBeat

SmbGiveUp(t) ==
    /\ task[t].pc = "enter"
    /\ smb[t].tries = MaxAttempts
    /\ GiveUp(t)
    /\ UNCHANGED <<storageVars, shareVars, lockEntry, gapped>>
    /\ FinalizeFrame

\* Without a client there is none to give back.
SmbConnectFail(t) ==
    /\ "remote" \in Faults
    /\ Attempts(t)
    /\ IF smb[t].tries + 1 = MaxAttempts
       THEN GiveUp(t)
       ELSE AttemptFailed(t, smb[t].tries + 1)
    /\ UNCHANGED <<storageVars, shareVars, lockEntry, gapped>>
    /\ FinalizeFrame

\* The size of the partial decides: nothing left to stream, or the part to
\* resume from.  A failed query counts as nothing synced.
SmbAttempt(t) ==
    LET u == task[t].u IN
    /\ Attempts(t)
    /\ \E size \in {PartialSize(u)} \cup (IF "remote" \in Faults THEN {0} ELSE {}) :
          /\ task' = [task EXCEPT ![t] =
                        [@ EXCEPT !.pc = IF size = TotalParts THEN "rename" ELSE "create",
                                  !.next = size]]
          /\ gapped' = [gapped EXCEPT ![u] = @ \/ \E p \in 0 .. size - 1 :
                                                    partial[u].data[p] # parts[u][p]]
    /\ smb' = [smb EXCEPT ![t].tries = @ + 1]
    /\ UNCHANGED <<lateBeat, storageVars, shareVars, lockEntry>>
    /\ FinalizeFrame

\* open_or_create_for_write, then the parts in order from part `next'.
SmbOpen(t) ==
    /\ task[t].pc = "create"
    /\ OpenPartial(t, task[t].u)
    /\ TaskGoto(t, "append")
    /\ UNCHANGED <<lateBeat, storageVars, attemptVars>>
    /\ FinalizeFrame

SmbStreamSome(t) ==
    LET u == task[t].u
        p == task[t].next
    IN
    /\ task[t].pc = "append"
    /\ partFile[u][p] # NoFile
    /\ WriteSome(t, u, p, partFile[u][p])
    /\ UNCHANGED <<task, lateBeat, storageVars, attemptVars>>
    /\ FinalizeFrame

\* Mutant of LastPart: the loop ends one part early.
LastPartEarly(p) == p + 2 >= TotalParts

\* The loop runs over first_missing_part..total_parts.
LastPart(p) == p + 1 = TotalParts

\* A part that cannot be read fails the attempt, like an error of the share.
SmbStream(t) ==
    LET u == task[t].u
        p == task[t].next
    IN
    /\ task[t].pc = "append"
    /\ IF partFile[u][p] = NoFile
       THEN /\ CloseHandle(t, u)
            /\ AttemptFailed(t, smb[t].tries)
            /\ UNCHANGED <<partial, shareFile>>
       ELSE /\ WriteRange(t, u, p, partFile[u][p])
            /\ task' = [task EXCEPT ![t] =
                          [@ EXCEPT !.pc = IF LastPart(p) THEN "close" ELSE "append", !.next = p + 1]]
            /\ UNCHANGED <<partialOpen, sharedOpen, smb, lateBeat>>
    /\ UNCHANGED <<storageVars, lockEntry, gapped>>
    /\ FinalizeFrame

SmbStreamFail(t) ==
    /\ "remote" \in Faults
    /\ task[t].pc \in {"create", "append"}
    /\ CloseHandle(t, task[t].u)
    /\ AttemptFailed(t, smb[t].tries)
    /\ UNCHANGED <<storageVars, partial, shareFile, lockEntry, gapped>>
    /\ FinalizeFrame

\* file.close().await has no timeout; its error is only logged.
SmbClose(t) ==
    /\ task[t].pc = "close"
    /\ CloseHandle(t, task[t].u)
    /\ TaskGoto(t, "rename")
    /\ UNCHANGED <<lateBeat, storageVars, partial, shareFile, attemptVars>>
    /\ FinalizeFrame

\* The rename is not retried: without a partial to open it fails, and no
\* attempt is left.
SmbRename(t) ==
    LET u == task[t].u IN
    /\ task[t].pc = "rename"
    /\ IF partial[u] = NoFile
       THEN AttemptFailed(t, MaxAttempts) /\ UNCHANGED shareVars
       ELSE RenamePartial(u) /\ TaskGoto(t, "purge") /\ UNCHANGED <<smb, lateBeat>>
    /\ UNCHANGED <<storageVars, lockEntry, gapped>>
    /\ FinalizeFrame

\* Mutant of SmbRenameFail: its result is only logged.
SmbRenameFailIgnored(t) ==
    /\ "remote" \in Faults
    /\ task[t].pc = "rename"
    /\ TaskGoto(t, "purge")
    /\ UNCHANGED <<storageVars, shareVars, smb, lateBeat, lockEntry, gapped>>
    /\ FinalizeFrame

\* An error, or the 30 s timeout: the share may have renamed the file.
SmbRenameFail(t) ==
    LET u == task[t].u IN
    /\ "remote" \in Faults
    /\ task[t].pc = "rename"
    /\ \/ UNCHANGED shareVars
       \/ partial[u] # NoFile /\ RenamePartial(u)
    /\ AttemptFailed(t, MaxAttempts)
    /\ UNCHANGED <<storageVars, lockEntry, gapped>>
    /\ FinalizeFrame

\* The client is given back.  Local parts that cannot be removed are only
\* warned about.
SmbPurge(t) ==
    LET u == task[t].u IN
    /\ task[t].pc = "purge"
    /\ \/ DeleteParts(u)
       \/ "io" \in Faults /\ DeletePartsPartly(u)
    /\ lockEntry' = [lockEntry EXCEPT ![u] = 0]
    /\ smb' = [smb EXCEPT ![t] = NoAttempt]
    /\ StopHeartbeat(u)
    /\ TaskGoto(t, "mark_ok")
    /\ UNCHANGED <<shareVars, gapped>>
    /\ FinalizeFrame

-----------------------------------------------------------------------------
\* cleanup_incomplete_upload: the partial, the local parts, the lock's entry.

RemovalFrame == UNCHANGED <<ingestVars, finalizerVars, crashes, sync, smb, gapped>>

\* Mutant of ErasePartial: the name it deletes is that of the final file.
EraseShared(u) == DeleteShared(u)

ErasePartial(u) == \/ DeletePartial(u)
                   \/ "remote" \in Faults /\ UNCHANGED shareVars

DropLockEntry(u) == lockEntry' = [lockEntry EXCEPT ![u] = 0]

CancelErase(d) ==
    /\ canceller[d].pc = "purge"
    /\ d \notin erased
    /\ ErasePartial(canceller[d].u)
    /\ erased' = erased \cup {d}
    /\ UNCHANGED <<repoVars, storageVars, removalVars, lockEntry, erasing>>
    /\ RemovalFrame

SmbCancelPurge(d) ==
    /\ d \in erased
    /\ CancelPurge(d)
    /\ erased' = erased \ {d}
    /\ DropLockEntry(canceller[d].u)
    /\ UNCHANGED <<shareVars, erasing>>
    /\ RemovalFrame

\* delete_file of a complete upload.
SmbCancelUnlink(d) ==
    /\ canceller[d].pc = "unlink"
    /\ \/ DeleteShared(canceller[d].u)
       \/ "remote" \in Faults /\ UNCHANGED shareVars
    /\ CancelGoto(d, "rows")
    /\ UNCHANGED <<repoVars, storageVars, cleaner, doomed, lockEntry, eraseVars>>
    /\ RemovalFrame

\* Dropped at an await: the operation under way is done or not.
SmbCancelAbort(d) ==
    LET u == canceller[d].u IN
    /\ "abort" \in Faults
    /\ \/ /\ canceller[d].pc = "purge" /\ d \notin erased
          /\ DeletePartial(u) \/ UNCHANGED shareVars
          /\ UNCHANGED storageVars
       \/ /\ canceller[d].pc = "purge" /\ d \in erased
          /\ DeleteParts(u) \/ UNCHANGED storageVars
          /\ UNCHANGED shareVars
       \/ /\ canceller[d].pc = "unlink"
          /\ DeleteShared(u) \/ UNCHANGED shareVars
          /\ UNCHANGED storageVars
    /\ CancelReturn(d)
    /\ erased' = erased \ {d}
    /\ UNCHANGED <<repoVars, cleaner, doomed, lockEntry, erasing>>
    /\ RemovalFrame

CleanErase ==
    /\ cleaner.pc = "purge"
    /\ erasing = None
    /\ \E u \in cleaner.todo : ErasePartial(u) /\ erasing' = u
    /\ UNCHANGED <<repoVars, storageVars, removalVars, lockEntry, erased>>
    /\ RemovalFrame

SmbCleanPurge ==
    /\ erasing # None
    /\ CleanPurge
    /\ cleaner'.u = erasing
    /\ DropLockEntry(erasing)
    /\ erasing' = None
    /\ UNCHANGED <<shareVars, erased>>
    /\ RemovalFrame

-----------------------------------------------------------------------------
\* The share keeps its files; handles, locks and syncs die with the process.
SmbCrashRestart ==
    /\ CrashRestart
    /\ partialOpen' = [u \in Upload |-> {}]
    /\ sharedOpen' = [u \in Upload |-> {}]
    /\ sync' = [s \in Syncer |-> NoSync]
    /\ smb' = [t \in Task |-> NoAttempt]
    /\ lockEntry' = [u \in Upload |-> 0]
    /\ erased' = {}
    /\ erasing' = None
    /\ UNCHANGED <<partial, shareFile, gapped>>

SyncStep(s) == SyncOpen(s) \/ SyncEnd(s)

\* The steps of a task inside finalize_upload.
SmbTaskStep(t) == \/ SmbCheck(t) \/ SmbEnter(t) \/ SmbAttempt(t) \/ SmbOpen(t)
                  \/ SmbStream(t) \/ SmbClose(t) \/ SmbRename(t) \/ SmbPurge(t)
                  \/ SmbGiveUp(t)

\* A PUT that stored its part is StorePart.
WritesPart(w) == put[w].pc = "write" /\ put'[w].pc = "mark"

CommonNext ==
    /\ \/ RequestNext /\ \A w \in Writer : ~WritesPart(w)
       \/ FinalizerOutside(Storing \cup {"check"})
       \/ RemovalOutside
    /\ UNCHANGED remoteVars

SmbNext ==
    \/ CommonNext
    \/ \E w \in Writer : StorePart(w)
    \/ \E s \in Syncer : SyncStep(s) \/ SyncSome(s) \/ SyncFail(s)
    \/ \E t \in Task : \/ SmbTaskStep(t)
                       \/ SmbConnectFail(t) \/ SmbStreamSome(t)
                       \/ SmbStreamFail(t) \/ SmbRenameFail(t)
    \/ \E d \in Canceller : \/ CancelErase(d) \/ SmbCancelPurge(d)
                            \/ SmbCancelUnlink(d) \/ SmbCancelAbort(d)
    \/ CleanErase \/ SmbCleanPurge
    \/ SmbCrashRestart

SmbSpec == SmbInit /\ [][SmbNext]_smbServerVars
=============================================================================
