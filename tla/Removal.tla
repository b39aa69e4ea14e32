------------------------------- MODULE Removal -------------------------------
(***************************************************************************)
(* What deletes an upload: the handler of DELETE /upload/{id}              *)
(* (src/src/handlers/cancel.rs) and the hourly cleanup service             *)
(* (src/src/services/cleanup.rs).  Both clean the storage first, only warn *)
(* when that fails, and then run the two statements of delete_upload.      *)
(***************************************************************************)
EXTENDS Ingest

CONSTANTS
    Canceller,     \* cancel requests that are in flight at a time
    CleanerRuns    \* is the cleanup service part of this instance

ASSUME CleanerAssumption == CleanerRuns \in BOOLEAN

VARIABLES
    canceller,   \* the cancel request each canceller is executing
    cleaner,     \* the pass of the cleanup service
    doomed       \* history: someone decided to delete the upload

removalVars == <<canceller, cleaner, doomed>>

(* "purge" and "unlink": cleaning the storage.  "rows", "row": the two      *)
(* DELETE statements.                                                       *)
CancelPc  == {"idle", "purge", "unlink", "rows", "row"}
CleanerPc == {"idle", "purge", "rows", "row"}

NoCancel == [pc |-> "idle", u |-> None]
Sleeping == [pc |-> "idle", u |-> None, todo |-> {}]

RemovalTypeOK ==
    /\ canceller \in [Canceller -> [pc : CancelPc, u : Upload \cup {None}]]
    /\ \A d \in Canceller : canceller[d].pc # "idle" => canceller[d].u \in Upload
    /\ cleaner \in [pc : CleanerPc, u : Upload \cup {None}, todo : SUBSET Upload]
    /\ cleaner.pc \in {"rows", "row"} => cleaner.u \in Upload
    /\ doomed \in SUBSET Upload

RemovalInit == /\ canceller = [d \in Canceller |-> NoCancel]
               /\ cleaner = Sleeping
               /\ doomed = {}

-----------------------------------------------------------------------------
\* cancel_upload.

CancelGoto(d, pc) == canceller' = [canceller EXCEPT ![d].pc = pc]
CancelReturn(d)   == canceller' = [canceller EXCEPT ![d] = NoCancel]

\* Mutant of CancelStart: the file of a complete upload stays.
CancelStartKeeps(d, u) ==
    /\ canceller[d].pc = "idle"
    /\ client[u] = "known"
    /\ RowExists(u)
    /\ uploads[u].status # "finalizing"
    /\ canceller' = [canceller EXCEPT ![d] = [pc |-> "purge", u |-> u]]
    /\ doomed' = doomed \cup {u}
    /\ UNCHANGED <<cleaner, repoVars, storageVars>>

\* get_upload; 409 while the row says finalizing; the branch on the status.
CancelStart(d, u) ==
    /\ canceller[d].pc = "idle"
    /\ client[u] = "known"
    /\ RowExists(u)
    /\ uploads[u].status # "finalizing"
    /\ canceller' = [canceller EXCEPT ![d] =
            [pc |-> IF uploads[u].status # "complete" THEN "purge"
                    ELSE IF uploads[u].hasFinalPath THEN "unlink" ELSE "rows",
             u  |-> u]]
    /\ doomed' = doomed \cup {u}
    /\ UNCHANGED <<cleaner, repoVars, storageVars>>

\* cleanup_incomplete_upload is delete_parts; an error is only warned about.
CancelPurge(d) ==
    /\ canceller[d].pc = "purge"
    /\ \/ DeleteParts(canceller[d].u)
       \/ "io" \in Faults /\ DeletePartsPartly(canceller[d].u)
    /\ CancelGoto(d, "rows")
    /\ UNCHANGED <<cleaner, doomed, repoVars>>

CancelUnlink(d) ==
    /\ canceller[d].pc = "unlink"
    /\ \/ DeleteFile(canceller[d].u)
       \/ "io" \in Faults /\ UNCHANGED storageVars
    /\ CancelGoto(d, "rows")
    /\ UNCHANGED <<cleaner, doomed, repoVars>>

CancelRows(d) ==
    /\ canceller[d].pc = "rows"
    /\ DeletePartRows(canceller[d].u)
    /\ CancelGoto(d, "row")
    /\ UNCHANGED <<cleaner, doomed, storageVars>>

CancelRow(d) ==
    /\ canceller[d].pc = "row"
    /\ DeleteUploadRow(canceller[d].u)
    /\ CancelReturn(d)
    /\ UNCHANGED <<cleaner, doomed, storageVars>>

CancelDbError(d) ==
    /\ "db" \in Faults
    /\ canceller[d].pc \in {"rows", "row"}
    /\ CancelReturn(d)
    /\ UNCHANGED <<cleaner, doomed, repoVars, storageVars>>

\* Dropped while the storage is being cleaned: that operation ends, or never
\* started, and the rows stay.
CancelAbort(d) ==
    /\ "abort" \in Faults
    /\ \/ canceller[d].pc = "purge" /\ DeleteParts(canceller[d].u)
       \/ canceller[d].pc = "unlink" /\ DeleteFile(canceller[d].u)
       \/ canceller[d].pc \in {"purge", "unlink"} /\ UNCHANGED storageVars
    /\ CancelReturn(d)
    /\ UNCHANGED <<cleaner, doomed, repoVars>>

-----------------------------------------------------------------------------
\* cleanup_expired: the list is read once and not looked at again.

CleanList ==
    /\ CleanerRuns
    /\ cleaner.pc = "idle"
    /\ ExpiredPendingUploads # {}
    /\ cleaner' = [cleaner EXCEPT !.pc = "purge", !.todo = ExpiredPendingUploads]
    /\ doomed' = doomed \cup ExpiredPendingUploads
    /\ UNCHANGED <<canceller, repoVars, storageVars>>

CleanPurge ==
    /\ cleaner.pc = "purge"
    /\ \E u \in cleaner.todo :
          /\ \/ DeleteParts(u)
             \/ "io" \in Faults /\ DeletePartsPartly(u)
          /\ cleaner' = [pc |-> "rows", u |-> u, todo |-> cleaner.todo \ {u}]
    /\ UNCHANGED <<canceller, doomed, repoVars>>

CleanRows ==
    /\ cleaner.pc = "rows"
    /\ DeletePartRows(cleaner.u)
    /\ cleaner' = [cleaner EXCEPT !.pc = "row"]
    /\ UNCHANGED <<canceller, doomed, storageVars>>

\* On to the next upload of the list, or to sleep.
CleanNext == cleaner' = IF cleaner.todo = {} THEN Sleeping
                        ELSE [cleaner EXCEPT !.pc = "purge", !.u = None]

CleanRow ==
    /\ cleaner.pc = "row"
    /\ DeleteUploadRow(cleaner.u)
    /\ CleanNext
    /\ UNCHANGED <<canceller, doomed, storageVars>>

CleanDbError ==
    /\ "db" \in Faults
    /\ cleaner.pc \in {"rows", "row"}
    /\ CleanNext
    /\ UNCHANGED <<canceller, doomed, repoVars, storageVars>>

-----------------------------------------------------------------------------
CancelStep(d) == CancelPurge(d) \/ CancelUnlink(d) \/ CancelRows(d) \/ CancelRow(d)
CleanStep == CleanList \/ CleanPurge \/ CleanRows \/ CleanRow

RemovalNext ==
    \/ \E d \in Canceller : \/ \E u \in Upload : CancelStart(d, u)
                            \/ CancelStep(d)
                            \/ CancelDbError(d) \/ CancelAbort(d)
    \/ CleanStep \/ CleanDbError
=============================================================================
