----------------------------- MODULE SmbStorage -----------------------------
(***************************************************************************)
(* The share of the SMB backend (src/src/storage/smb.rs): per upload the   *)
(* file `.partial', which the background syncs and the finalization write  *)
(* range by range, and the final file it is renamed to.  The parts that    *)
(* the handler stores first are local files, as in LocalStorage.           *)
(*                                                                         *)
(* The share itself is not part of the repository: handles stay with their *)
(* file through a rename or a deletion, and partialOpen and sharedOpen say *)
(* who has open the file that a name denotes now.                          *)
(***************************************************************************)
EXTENDS Domain

CONSTANT Syncer   \* background syncs that are alive at a time

VARIABLES partial, shareFile, partialOpen, sharedOpen

shareVars == <<partial, shareFile, partialOpen, sharedOpen>>

\* `size' is the number of parts that end_of_file covers: end_of_file divided by
\* chunk_size, or all of them.  A range below it that nobody wrote is Torn.
ShareFile == [size : 0 .. TotalParts, data : [Part -> Data]]

\* A handle is that of a task or that of a sync.
ASSUME ShareAssumption == Syncer \cap Task = {} /\ NoFile \notin ShareFile

EmptyShareFile == [size |-> 0, data |-> [p \in Part |-> Torn]]

ShareTypeOK ==
    /\ partial \in [Upload -> ShareFile \cup {NoFile}]
    /\ shareFile \in [Upload -> ShareFile \cup {NoFile}]
    /\ partialOpen \in [Upload -> SUBSET (Task \cup Syncer)]
    /\ sharedOpen \in [Upload -> SUBSET (Task \cup Syncer)]
    /\ \A u \in Upload : /\ partialOpen[u] # {} => partial[u] # NoFile
                         /\ sharedOpen[u] # {} => shareFile[u] # NoFile

ShareInit == /\ partial = [u \in Upload |-> NoFile]
             /\ shareFile = [u \in Upload |-> NoFile]
             /\ partialOpen = [u \in Upload |-> {}]
             /\ sharedOpen = [u \in Upload |-> {}]

\* get_smb_file_size: a file that cannot be opened has size 0.
PartialSize(u) == IF partial[u] = NoFile THEN 0 ELSE partial[u].size

-----------------------------------------------------------------------------
\* CreateDisposition::OpenIf: creates the file if the name denotes none.
OpenPartial(h, u) ==
    /\ partial' = [partial EXCEPT ![u] = IF @ = NoFile THEN EmptyShareFile ELSE @]
    /\ partialOpen' = [partialOpen EXCEPT ![u] = @ \cup {h}]
    /\ UNCHANGED <<shareFile, sharedOpen>>

CloseHandle(h, u) ==
    /\ partialOpen' = [partialOpen EXCEPT ![u] = @ \ {h}]
    /\ sharedOpen' = [sharedOpen EXCEPT ![u] = @ \ {h}]

\* The file that handle h denotes gets `content' in the range of part p.
WriteTo(h, u, p, size, content) ==
    LET written(f) == [size |-> IF f.size < size THEN size ELSE f.size,
                       data |-> [f.data EXCEPT ![p] = content]]
    IN  /\ partial' = IF h \in partialOpen[u]
                      THEN [partial EXCEPT ![u] = written(@)] ELSE partial
        /\ shareFile' = IF h \in sharedOpen[u]
                        THEN [shareFile EXCEPT ![u] = written(@)] ELSE shareFile

Held(h, u, p) == IF h \in partialOpen[u] THEN partial[u].data[p]
                 ELSE IF h \in sharedOpen[u] THEN shareFile[u].data[p] ELSE Torn

\* Some of the 1 MB write_at calls of part p are done: its range mixes the old
\* and the new bytes, and end_of_file is at least where it begins.
WriteSome(h, u, p, body) ==
    /\ WriteTo(h, u, p, p, IF Held(h, u, p) = body THEN body ELSE Torn)
    /\ UNCHANGED <<partialOpen, sharedOpen>>

\* The last write_at of part p.  Another handle may be half way through the
\* same range with another body, so that what is there stays mixed.
WriteRange(h, u, p, body) ==
    \E content \in {body} \cup (IF Held(h, u, p) \in Content \ {body} THEN {Torn} ELSE {}) :
        WriteTo(h, u, p, p + 1, content)

\* FileRenameInformation with replace_if_exists.
RenamePartial(u) ==
    /\ shareFile' = [shareFile EXCEPT ![u] = partial[u]]
    /\ partial' = [partial EXCEPT ![u] = NoFile]
    /\ sharedOpen' = [sharedOpen EXCEPT ![u] = partialOpen[u]]
    /\ partialOpen' = [partialOpen EXCEPT ![u] = {}]

\* delete_smb_resource, of the partial and of the final file.
DeletePartial(u) ==
    /\ partial' = [partial EXCEPT ![u] = NoFile]
    /\ partialOpen' = [partialOpen EXCEPT ![u] = {}]
    /\ UNCHANGED <<shareFile, sharedOpen>>

DeleteShared(u) ==
    /\ shareFile' = [shareFile EXCEPT ![u] = NoFile]
    /\ sharedOpen' = [sharedOpen EXCEPT ![u] = {}]
    /\ UNCHANGED <<partial, partialOpen>>
=============================================================================
