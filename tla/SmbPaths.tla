------------------------------ MODULE SmbPaths ------------------------------
(***************************************************************************)
(* The names of the SMB backend (src/src/storage/smb.rs): the path it      *)
(* stores a file under, the path it returns and the database keeps, and    *)
(* the path that delete_file makes of that again.  A path is the sequence  *)
(* of its names, sanitized: slashes at its ends and in a row are gone.     *)
(***************************************************************************)
EXTENDS SequencesExt

CONSTANTS
    NoTarget,    \* the file name of init had no directory: target_path is None
    EndsInFiles  \* the names that end in "files": "files" and, say, "myfiles"

\* get_smb_file_path and get_smb_response_path.
Directory(target) == IF target = NoTarget THEN <<"files">> ELSE target

StoredPath(base, target, name) == base \o Directory(target) \o <<name>>

ResponsePath(target, name) == Directory(target) \o <<name>>

\* Is the last name of the base one that ends in "files"?
FilesBase(base) == base # <<>> /\ Last(base) \in EndsInFiles

\* Mutant of NormalizedPath: it drops the first name, "files" or not.
NormalizedPathStrips(base, path) ==
    IF IsPrefix(base, path) THEN path
    ELSE IF FilesBase(base) THEN base \o Tail(path)
    ELSE base \o path

\* normalize_relative_path: a path that begins with the base counts as complete,
\* and a leading "files" merges with the end of the base.
NormalizedPath(base, path) ==
    IF IsPrefix(base, path) THEN path
    ELSE IF FilesBase(base) /\ path[1] = "files" THEN base \o Tail(path)
    ELSE base \o path
=============================================================================
