------------------------------ MODULE SmbLayout ------------------------------
(***************************************************************************)
(* One upload on an SMB share, byte by byte and name by name: background   *)
(* syncs write parts, whole or broken off, into the partial; the attempts  *)
(* of finalize_upload trust its size, stream the rest part by part, break  *)
(* off and begin again, and rename it; and a cancel deletes the final file *)
(* by the path the database has.                                           *)
(***************************************************************************)
EXTENDS Chunking, SmbPaths

CONSTANTS
    MaxTotal,   \* bound on total_size
    MaxChunk,   \* bound on chunk_size
    Bases,      \* base paths of the share (SMB_PATH)
    Targets     \* directories a client asks for

FileName == "file"

ASSUME BoundsAssumption == MaxTotal \in Nat \ {0} /\ MaxChunk \in Nat \ {0}

\* The name of the file begins with the new identifier of the upload, so no
\* directory that was configured before has it.
ASSUME NamesAssumption ==
    /\ Bases \subseteq Seq(STRING) /\ Targets \ {NoTarget} \subseteq Seq(STRING)
    /\ \A base \in Bases : \A i \in DOMAIN base : base[i] # FileName

VARIABLES
    total, chunk, base, target,   \* the upload, and the configuration
    bytes,     \* the bytes of the file that are those the client sent
    eof,       \* its end_of_file
    stream,    \* the attempt under way: the part it writes next, at which
               \* offset, and whether it trusted bytes that are there
    state      \* "partial", "streaming", "final" (or "gapped": a gap was
               \* trusted), and after a cancel "deleted" or, if the file is
               \* still there, "missed"

parameters == <<total, chunk, base, target>>
layoutVars == <<parameters, bytes, eof, stream, state>>

Bytes(from, n) == from .. from + n - 1
Size(p)        == ExpectedSize(total, chunk, p)

\* n bytes are written from an offset on.
WriteBytes(from, n) == /\ bytes' = bytes \cup Bytes(from, n)
                       /\ eof' = IF eof < from + n THEN from + n ELSE eof

Init == /\ total \in 1 .. MaxTotal
        /\ chunk \in 1 .. MaxChunk
        /\ base \in Bases
        /\ target \in Targets
        /\ bytes = {} /\ eof = 0
        /\ stream = [next |-> 0, at |-> 0, sound |-> TRUE]
        /\ state = "partial"

\* A background sync writes the first n bytes of part p; it breaks off unless
\* these are all.
SyncPart(p, n) ==
    /\ state \in {"partial", "streaming"}
    /\ WriteBytes(Offset(chunk, p), n)
    /\ UNCHANGED <<parameters, stream, state>>

\* An attempt of finalize_upload takes the file to be complete up to its end,
\* or, if the query of its size fails, to be empty.  When the file is as long as
\* the upload, nothing is left to stream.
Attempt ==
    /\ state = "partial"
    /\ \E size \in {eof, 0} :
          LET whole == size >= total
              first == FirstMissingPart(size, chunk)
          IN  stream' = [next  |-> IF whole THEN TotalPartsOf(total, chunk) ELSE first,
                         at    |-> IF whole THEN size ELSE Offset(chunk, first),
                         sound |-> 0 .. size - 1 \subseteq bytes]
    /\ state' = "streaming"
    /\ UNCHANGED <<parameters, bytes, eof>>

\* The next part is written where the one before it ended.
StreamPart ==
    /\ state = "streaming"
    /\ stream.next \in Parts(total, chunk)
    /\ WriteBytes(stream.at, Size(stream.next))
    /\ stream' = [stream EXCEPT !.next = @ + 1, !.at = @ + Size(stream.next)]
    /\ UNCHANGED <<parameters, state>>

\* The attempt breaks off, within a part or without a byte of it, and is made
\* again.
StreamFails ==
    /\ state = "streaming"
    /\ \/ UNCHANGED <<bytes, eof>>
       \/ /\ stream.next \in Parts(total, chunk)
          /\ \E n \in 1 .. Size(stream.next) : WriteBytes(stream.at, n)
    /\ state' = "partial"
    /\ UNCHANGED <<parameters, stream>>

\* All parts are there, or so it seems.
Rename ==
    /\ state = "streaming"
    /\ stream.next = TotalPartsOf(total, chunk)
    /\ state' = IF stream.sound THEN "final" ELSE "gapped"
    /\ UNCHANGED <<parameters, bytes, eof, stream>>

\* cancel_upload of the complete upload: delete_file(final_path).
Delete ==
    /\ state \in {"final", "gapped"}
    /\ state' = IF NormalizedPath(base, ResponsePath(target, FileName))
                    = StoredPath(base, target, FileName)
                 THEN "deleted" ELSE "missed"
    /\ UNCHANGED <<parameters, bytes, eof, stream>>

Next == \/ \E p \in Parts(total, chunk) : \E n \in 1 .. Size(p) : SyncPart(p, n)
        \/ Attempt \/ StreamPart \/ StreamFails \/ Rename
        \/ Delete

Spec == Init /\ [][Next]_layoutVars

-----------------------------------------------------------------------------
\* The sizes in the tokens tile the file: each byte is in one part, and none is
\* beyond the size the client announced.
PartsTile ==
    /\ UNION {Bytes(Offset(chunk, p), Size(p)) : p \in Parts(total, chunk)} = 0 .. total - 1
    /\ \A p, q \in Parts(total, chunk) : p # q =>
          Bytes(Offset(chunk, p), Size(p)) \cap Bytes(Offset(chunk, q), Size(q)) = {}

\* Wherever syncs and attempts broke off, a finalization whose last attempt did
\* not trust a gap leaves the whole file on the share and not a byte more.
ResumeCompletes == state = "final" => bytes = 0 .. total - 1 /\ eof = total

\* delete_file finds the file it is to delete, but for two kinds of names: the
\* client's directory begins with the base path, or the base path ends in
\* "files" and the client's directory, or the default one, begins with it.
DeleteFindsFile ==
    state = "missed" => /\ base # <<>>
                        /\ \/ IsPrefix(base, Directory(target))
                           \/ FilesBase(base) /\ IsPrefix(<<"files">>, Directory(target))
=============================================================================
