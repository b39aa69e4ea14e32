----------------------------- MODULE Repository -----------------------------
(***************************************************************************)
(* The SQLite metadata store (src/src/db/repository.rs, src/src/db/mod.rs  *)
(* and src/src/db/schema.rs): the row of each upload and of each of its    *)
(* parts, and one operator per SQL statement.  A connection is in          *)
(* auto-commit mode, so a statement is one atomic step and a Rust method   *)
(* that executes two statements (delete_upload) is two steps.              *)
(***************************************************************************)
EXTENDS Domain

VARIABLES
    uploads,     \* table uploads
    parts        \* table upload_parts: "norow", "pending", or the checksum
                 \* that update_part_status recorded with status 'uploaded'

repoVars == <<uploads, parts>>

(* "none": not yet inserted.  "deleted": the row was deleted.  A row is in *)
(* one of the four states of UploadStatus.                                 *)
InRow == {"pending", "finalizing", "complete", "failed"}
Status == InRow \cup {"none", "deleted"}

(* finalizing_progress_percent, abstracted to the stages that write it: 0  *)
(* (start), 1 (verifying, stands for 1..90), 10 (storing begins), 98 (a    *)
(* heartbeat, stands for 11..98) and 100 (complete).                       *)
Progress == {0, 1, 10, 98, 100}

(* `stale' abstracts finalization_updated_at: the time stamp is older than *)
(* STALE_THRESHOLD_SECS.  `life' abstracts expires_at: "live", then        *)
(* "leeway" (past expires_at, where the JWT library still accepts a        *)
(* token), then "expired".                                                 *)
UploadRow == [status : Status, hasFinalPath : BOOLEAN, progress : Progress,
              stale : BOOLEAN, life : {"live", "leeway", "expired"}]

NoRow == [status |-> "none", hasFinalPath |-> FALSE, progress |-> 0,
          stale |-> FALSE, life |-> "live"]

RepoTypeOK == /\ uploads \in [Upload -> UploadRow]
              /\ parts \in [Upload -> [Part -> {"norow", "pending"} \cup Content]]

RepoInit == /\ uploads = [u \in Upload |-> NoRow]
            /\ parts = [u \in Upload |-> [p \in Part |-> "norow"]]

RowExists(u) == uploads[u].status \in InRow

-----------------------------------------------------------------------------
\* Statements on the table uploads.  An UPDATE of an absent row affects none.

CreateUpload(u) ==
    /\ uploads' = [uploads EXCEPT ![u] = [@ EXCEPT !.status = "pending"]]
    /\ UNCHANGED parts

\* Mutant of CanStartFinalization: WHERE id = ? alone.
CanAlwaysStart(u) == RowExists(u)

\* The WHERE clause of try_start_finalization.
CanStartFinalization(u) == uploads[u].status \in {"pending", "failed"}

TryStartFinalization(u) ==
    /\ uploads' = [uploads EXCEPT ![u] =
                      [@ EXCEPT !.status = "finalizing", !.progress = 0, !.stale = FALSE]]
    /\ UNCHANGED parts

\* Mutant of CanRestartFinalization: WHERE id = ? alone.
CanAlwaysRestart(u) == RowExists(u)

\* The WHERE clause of restart_stale_finalization.
CanRestartFinalization(u) == /\ uploads[u].status = "finalizing"
                             /\ uploads[u].stale

RestartStaleFinalization(u) ==
    /\ uploads' = [uploads EXCEPT ![u] = [@ EXCEPT !.progress = 0, !.stale = FALSE]]
    /\ UNCHANGED parts

\* The WHERE clause names the id only: the status is not looked at.
UpdateFinalizingProgress(u, percent) ==
    /\ uploads' = IF RowExists(u)
                  THEN [uploads EXCEPT ![u] = [@ EXCEPT !.progress = percent, !.stale = FALSE]]
                  ELSE uploads
    /\ UNCHANGED parts

\* Likewise WHERE id = ?; zero affected rows is still a success.
MarkFinalizationComplete(u) ==
    /\ uploads' = IF RowExists(u)
                  THEN [uploads EXCEPT ![u] = [@ EXCEPT !.status = "complete", !.hasFinalPath = TRUE,
                                                       !.progress = 100, !.stale = FALSE]]
                  ELSE uploads
    /\ UNCHANGED parts

\* Leaves final_path and the progress as they are.
MarkFinalizationFailed(u) ==
    /\ uploads' = IF RowExists(u)
                  THEN [uploads EXCEPT ![u] = [@ EXCEPT !.status = "failed", !.stale = FALSE]]
                  ELSE uploads
    /\ UNCHANGED parts

\* Mutant of FinalizingUploads: it lists failed uploads too.
UnfinishedUploads == {u \in Upload : uploads[u].status \in {"finalizing", "failed"}}

\* Mutant of ExpiredPendingUploads: an inner join with the part rows.
ExpiredWithParts == {u \in Upload : /\ uploads[u].status = "pending"
                                    /\ uploads[u].life # "live"
                                    /\ \E p \in Part : parts[u][p] # "norow"}

\* list_finalizing_uploads and list_expired_pending_uploads.
FinalizingUploads == {u \in Upload : uploads[u].status = "finalizing"}
ExpiredPendingUploads == {u \in Upload : /\ uploads[u].status = "pending"
                                         /\ uploads[u].life # "live"}

\* delete_upload: the part rows first, then, in a second statement, the row.
DeletePartRows(u) ==
    /\ parts' = [parts EXCEPT ![u] = [p \in Part |-> "norow"]]
    /\ UNCHANGED uploads

DeleteUploadRow(u) ==
    /\ uploads' = [uploads EXCEPT ![u] = [@ EXCEPT !.status = "deleted"]]
    /\ UNCHANGED parts

-----------------------------------------------------------------------------
\* Statements on the table upload_parts.

\* create_parts inserts row by row: an error leaves the first n rows.
CreateParts(u, n) ==
    /\ parts' = [parts EXCEPT ![u] = [p \in Part |-> IF p < n THEN "pending" ELSE "norow"]]
    /\ UNCHANGED uploads

\* Unconditional on the status the part already has.
UpdatePartStatus(u, p, checksum) ==
    /\ parts' = IF parts[u][p] = "norow"
                THEN parts
                ELSE [parts EXCEPT ![u][p] = checksum]
    /\ UNCHANGED uploads

Uploaded(u, p) == parts[u][p] \in Content

\* get_all_parts.
ListedParts(u) == {p \in Part : parts[u][p] # "norow"}

\* count_uploaded_parts.
UploadedParts(u) == {p \in Part : Uploaded(u, p)}

\* Mutant of AllPartsUploaded: off by one.
AllButOneUploaded(u) == /\ RowExists(u)
                        /\ Cardinality(UploadedParts(u)) >= TotalParts - 1

\* all_parts_uploaded: the row is there, and its total_parts is the count of
\* rows with status 'uploaded'.
AllPartsUploaded(u) == /\ RowExists(u)
                       /\ Cardinality(UploadedParts(u)) = TotalParts
=============================================================================
