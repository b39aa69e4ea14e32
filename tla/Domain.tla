------------------------------- MODULE Domain -------------------------------
(***************************************************************************)
(* The values the components share: uploads, their parts, the bodies a     *)
(* client sends, and the concurrent activities that hold files open.       *)
(***************************************************************************)
EXTENDS Integers, FiniteSets

CONSTANTS
    Upload,      \* upload identifiers (UUIDs: init never reuses one)
    TotalParts,  \* parts of an upload
    Content,     \* what the body of a PUT can be; a checksum names its content
    Writer,      \* PUT requests that are in flight at a time
    Task,        \* spawned finalization tasks that are alive at a time
    Torn,        \* a truncated file, or one that mixes two bodies
    NoFile,      \* the name denotes no file
    None,        \* no upload
    Faults       \* what can go wrong in the environment, see FaultKinds

Part == 0 .. TotalParts - 1

\* What a file can hold, for one part's range of bytes.
Data == Content \cup {Torn}

\* "io": a file operation returns an error.  "db": a statement returns an error
\* (SQLITE_BUSY, no pooled connection).  "abort": a client drops its connection
\* and hyper drops the handler at an await.  "crash": the process dies and is
\* started again.  "instant": it restarts within the second it died in.
\* "remote": an operation on the share or the bucket fails or times out.
FaultKinds == {"io", "db", "abort", "crash", "instant", "remote"}

ASSUME FaultsAssumption == Faults \subseteq FaultKinds

ASSUME PartsAssumption == TotalParts \in Nat \ {0}

ASSUME ValuesAssumption ==
    /\ Content \cap {"norow", "pending", Torn, NoFile} = {}
    /\ Torn # NoFile
    /\ NoFile \notin [Part -> Data]
    /\ None \notin Upload
=============================================================================
