---------------------------- MODULE LocalStorage ----------------------------
(***************************************************************************)
(* The local storage backend (src/src/storage/local.rs) and the files it   *)
(* leaves on disk: per upload a directory of part files, the staging file  *)
(* `.{name}.assembling' and the final file.  Every name contains the       *)
(* upload's id, so uploads never share a file.  An operator is one         *)
(* asynchronous file operation; between two of them any other request or   *)
(* task can run.                                                           *)
(*                                                                         *)
(* A process that holds a file open keeps it through an unlink or a        *)
(* rename: partOpen, stagingOpen and finalOpen say who has open the file   *)
(* that a name denotes now.  The write of a dropped request goes on, and    *)
(* its body stands for the request in partOpen.                            *)
(***************************************************************************)
EXTENDS Domain

\* Both stand for open handles.
ASSUME HandlesAssumption == Writer \cap Content = {}

VARIABLES
    partsDir,    \* does the directory parts/{id} exist
    partFile,    \* the file part_{n} of each upload
    staging,     \* the staging file: the data of each part's range
    finalFile,   \* the final file: the data of each part's range
    partOpen, stagingOpen, finalOpen

storageVars == <<partsDir, partFile, staging, finalFile,
                 partOpen, stagingOpen, finalOpen>>

StorageTypeOK ==
    /\ partsDir \in [Upload -> BOOLEAN]
    /\ partFile \in [Upload -> [Part -> Data \cup {NoFile}]]
    /\ staging \in [Upload -> [Part -> Data] \cup {NoFile}]
    /\ finalFile \in [Upload -> [Part -> Data] \cup {NoFile}]
    /\ partOpen \in [Upload -> [Part -> SUBSET (Writer \cup Content)]]
    /\ stagingOpen \in [Upload -> SUBSET Task]
    /\ finalOpen \in [Upload -> SUBSET Task]
    /\ \A u \in Upload : /\ stagingOpen[u] # {} => staging[u] # NoFile
                         /\ finalOpen[u] # {} => finalFile[u] # NoFile

NoPartFiles == [p \in Part |-> NoFile]
NobodyOpen == [p \in Part |-> {}]
EmptyFile == [p \in Part |-> Torn]

StorageInit == /\ partsDir = [u \in Upload |-> FALSE]
               /\ partFile = [u \in Upload |-> NoPartFiles]
               /\ staging = [u \in Upload |-> NoFile]
               /\ finalFile = [u \in Upload |-> NoFile]
               /\ partOpen = [u \in Upload |-> NobodyOpen]
               /\ stagingOpen = [u \in Upload |-> {}]
               /\ finalOpen = [u \in Upload |-> {}]

-----------------------------------------------------------------------------
\* store_part: create_dir_all, File::create, write_all and flush.

CreatePartsDir(u) ==
    /\ partsDir' = [partsDir EXCEPT ![u] = TRUE]
    /\ UNCHANGED <<partFile, staging, finalFile, partOpen, stagingOpen, finalOpen>>

\* File::create truncates an existing file, which others may have open.
CreatePartFile(u, p, openers) ==
    /\ partFile' = [partFile EXCEPT ![u][p] = Torn]
    /\ partOpen' = [partOpen EXCEPT ![u][p] = @ \cup openers]
    /\ UNCHANGED <<partsDir, staging, finalFile, stagingOpen, finalOpen>>

\* The writes of two open handles of one file interleave buffer by buffer, so
\* a file that meanwhile received another body may end up mixed.
WriteOutcomes(u, p, content) ==
    {content} \cup (IF partFile[u][p] \in Content \ {content} THEN {Torn} ELSE {})

WritePartFile(w, u, p, content) ==
    /\ IF w \in partOpen[u][p]
       THEN \E data \in WriteOutcomes(u, p, content) :
                partFile' = [partFile EXCEPT ![u][p] = data]
       ELSE UNCHANGED partFile           \* the name no longer denotes this file
    /\ partOpen' = [partOpen EXCEPT ![u][p] = @ \ {w}]
    /\ UNCHANGED <<partsDir, staging, finalFile, stagingOpen, finalOpen>>

\* A failed write: the file keeps what it holds, or has some of the body.
BreakOffWrite(w, u, p) ==
    /\ \/ UNCHANGED partFile
       \/ w \in partOpen[u][p] /\ partFile' = [partFile EXCEPT ![u][p] = Torn]
    /\ partOpen' = [partOpen EXCEPT ![u][p] = @ \ {w}]
    /\ UNCHANGED <<partsDir, staging, finalFile, stagingOpen, finalOpen>>

\* A dropped write: what is under way of it is still to land.
AbandonWrite(w, u, p, content) ==
    /\ partOpen' = [partOpen EXCEPT ![u][p] =
                       IF w \in @ THEN (@ \ {w}) \cup {content} ELSE @]
    /\ UNCHANGED <<partsDir, partFile, staging, finalFile, stagingOpen, finalOpen>>

\* It lands, whole or not, on whatever the file holds by then.
WriteAbandoned(u, p, content) ==
    /\ content \in partOpen[u][p]
    /\ \E data \in {content} \cup (IF partFile[u][p] # content THEN {Torn} ELSE {}) :
          partFile' = [partFile EXCEPT ![u][p] = data]
    /\ partOpen' = [partOpen EXCEPT ![u][p] = @ \ {content}]
    /\ UNCHANGED <<partsDir, staging, finalFile, stagingOpen, finalOpen>>

-----------------------------------------------------------------------------
\* delete_parts and delete_file.

DeleteParts(u) ==
    /\ partsDir' = [partsDir EXCEPT ![u] = FALSE]
    /\ partFile' = [partFile EXCEPT ![u] = NoPartFiles]
    /\ partOpen' = [partOpen EXCEPT ![u] = NobodyOpen]
    /\ UNCHANGED <<staging, finalFile, stagingOpen, finalOpen>>

\* remove_dir_all that stops early: some of the files are gone.
DeletePartsPartly(u) ==
    \E gone \in SUBSET Part :
        /\ partFile' = [partFile EXCEPT
                          ![u] = [p \in Part |-> IF p \in gone THEN NoFile ELSE @[p]]]
        /\ partOpen' = [partOpen EXCEPT
                          ![u] = [p \in Part |-> IF p \in gone THEN {} ELSE @[p]]]
        /\ UNCHANGED <<partsDir, staging, finalFile, stagingOpen, finalOpen>>

DeleteFile(u) ==
    /\ finalFile' = [finalFile EXCEPT ![u] = NoFile]
    /\ finalOpen' = [finalOpen EXCEPT ![u] = {}]
    /\ UNCHANGED <<partsDir, partFile, staging, partOpen, stagingOpen>>

-----------------------------------------------------------------------------
\* assemble_parts.

RemoveStaleStaging(u) ==
    /\ staging' = [staging EXCEPT ![u] = NoFile]
    /\ stagingOpen' = [stagingOpen EXCEPT ![u] = {}]
    /\ UNCHANGED <<partsDir, partFile, finalFile, partOpen, finalOpen>>

CreateStaging(t, u) ==
    /\ staging' = [staging EXCEPT ![u] = EmptyFile]
    /\ stagingOpen' = [stagingOpen EXCEPT ![u] = @ \cup {t}]
    /\ UNCHANGED <<partsDir, partFile, finalFile, partOpen, finalOpen>>

\* Mutant of AppendPart: frees the space of each part as soon as it is copied.
MovePart(t, u, p) ==
    /\ staging' = IF t \in stagingOpen[u]
                  THEN [staging EXCEPT ![u] = [@ EXCEPT ![p] = partFile[u][p]]]
                  ELSE staging
    /\ partFile' = [partFile EXCEPT ![u][p] = NoFile]
    /\ UNCHANGED <<partsDir, finalFile, partOpen, stagingOpen, finalOpen>>

\* Reads part p and writes it at this assembler's own offset, into whatever
\* file its handle now denotes.
AppendPart(t, u, p) ==
    /\ staging' = IF t \in stagingOpen[u]
                  THEN [staging EXCEPT ![u] = [@ EXCEPT ![p] = partFile[u][p]]]
                  ELSE staging
    /\ finalFile' = IF t \in finalOpen[u]
                    THEN [finalFile EXCEPT ![u] = [@ EXCEPT ![p] = partFile[u][p]]]
                    ELSE finalFile
    /\ UNCHANGED <<partsDir, partFile, partOpen, stagingOpen, finalOpen>>

\* drop(temp_file), then rename: the staging file replaces the final one.
RenameStaging(t, u) ==
    /\ finalFile' = [finalFile EXCEPT ![u] = staging[u]]
    /\ staging' = [staging EXCEPT ![u] = NoFile]
    /\ finalOpen' = [finalOpen EXCEPT ![u] = stagingOpen[u] \ {t}]
    /\ stagingOpen' = [stagingOpen EXCEPT ![u] = {}]
    /\ UNCHANGED <<partsDir, partFile, partOpen>>

\* An assembly that returns early drops its handle.
CloseStaging(t, u) ==
    /\ stagingOpen' = [stagingOpen EXCEPT ![u] = @ \ {t}]
    /\ finalOpen' = [finalOpen EXCEPT ![u] = @ \ {t}]
    /\ UNCHANGED <<partsDir, partFile, staging, finalFile, partOpen>>
=============================================================================
