------------------------------- MODULE Ingest -------------------------------
(***************************************************************************)
(* How the parts of an upload get into the server: the handlers of         *)
(* POST /upload/init (src/src/handlers/init.rs) and of                     *)
(* PUT /upload/{id}/part/{n} (src/src/handlers/part.rs).                   *)
(***************************************************************************)
EXTENDS Repository, LocalStorage

CONSTANT
    MaxPerPart   \* PUTs of one part that clients have under way at a time

ASSUME MaxPerPartAssumption == MaxPerPart \in Nat \ {0}

VARIABLES
    client,      \* progress of the init request of each upload
    put,         \* the PUT each writer is executing
    late         \* file operations whose dropped request left them running:
                 \* "mkdir" and "create" (a write is in partOpen)

ingestVars == <<client, put, late>>

(* "creating": the row is inserted, the part rows are not.  "known": the    *)
(* client got the tokens.  "lost": init failed half way; nobody has tokens. *)
ClientState == {"new", "creating", "known", "lost"}

PutPc == {"idle", "mkdir", "create", "write", "mark"}

NoPut == [pc |-> "idle", u |-> None, p |-> 0, body |-> Torn]

IngestTypeOK ==
    /\ client \in [Upload -> ClientState]
    /\ put \in [Writer -> [pc : PutPc, u : Upload \cup {None}, p : Part, body : Data]]
    /\ \A w \in Writer : put[w].pc # "idle" => put[w].u \in Upload /\ put[w].body \in Content
    /\ late \in SUBSET (Upload \X Part \X {"mkdir", "create"})

IngestInit == /\ client = [u \in Upload |-> "new"]
              /\ put = [w \in Writer |-> NoPut]
              /\ late = {}

-----------------------------------------------------------------------------
\* init_upload.  There is no await between the two inserts, so the request
\* cannot be dropped between them, but the second can fail.

InitCreate(u) ==
    /\ client[u] = "new"
    /\ client' = [client EXCEPT ![u] = "creating"]
    /\ CreateUpload(u)
    /\ UNCHANGED <<put, late, storageVars>>

InitParts(u) ==
    /\ client[u] = "creating"
    /\ client' = [client EXCEPT ![u] = "known"]
    /\ CreateParts(u, TotalParts)
    /\ UNCHANGED <<put, late, storageVars>>

InitPartsError(u) ==
    /\ "db" \in Faults
    /\ client[u] = "creating"
    /\ client' = [client EXCEPT ![u] = "lost"]
    /\ \E n \in Part : CreateParts(u, n)
    /\ UNCHANGED <<put, late, storageVars>>

-----------------------------------------------------------------------------
\* upload_part.

PutsOf(u, p) == {w \in Writer : put[w].pc # "idle" /\ put[w].u = u /\ put[w].p = p}

\* The checks of the token (its 60 s leeway is the JWT library's), of the
\* status and of the part's row.
PutAllowed(u, p) == /\ uploads[u].life # "expired"
                    /\ uploads[u].status = "pending"
                    /\ parts[u][p] = "pending"

PutStart(w, u, p, body) ==
    /\ put[w].pc = "idle"
    /\ client[u] = "known"
    /\ Cardinality(PutsOf(u, p)) < MaxPerPart
    /\ PutAllowed(u, p)
    /\ put' = [put EXCEPT ![w] = [pc |-> "mkdir", u |-> u, p |-> p, body |-> body]]
    /\ UNCHANGED <<client, late, repoVars, storageVars>>

PutGoto(w, pc) == put' = [put EXCEPT ![w].pc = pc]

\* Every way a PUT ends, the handler forgets the request.
PutReturn(w) == put' = [put EXCEPT ![w] = NoPut]

PutMkdir(w) ==
    /\ put[w].pc = "mkdir"
    /\ CreatePartsDir(put[w].u)
    /\ PutGoto(w, "create")
    /\ UNCHANGED <<client, late, repoVars>>

\* File::create fails when a cancel or the cleaner removed the directory.
PutCreate(w) ==
    /\ put[w].pc = "create"
    /\ IF partsDir[put[w].u]
       THEN /\ CreatePartFile(put[w].u, put[w].p, {w})
            /\ PutGoto(w, "write")
       ELSE /\ PutReturn(w)
            /\ UNCHANGED storageVars
    /\ UNCHANGED <<client, late, repoVars>>

PutWrite(w) ==
    /\ put[w].pc = "write"
    /\ WritePartFile(w, put[w].u, put[w].p, put[w].body)
    /\ PutGoto(w, "mark")
    /\ UNCHANGED <<client, late, repoVars>>

\* The checksum recorded is that of the request's body.
PutMark(w) ==
    /\ put[w].pc = "mark"
    /\ UpdatePartStatus(put[w].u, put[w].p, put[w].body)
    /\ PutReturn(w)
    /\ UNCHANGED <<client, late, storageVars>>

PutIoError(w) ==
    /\ "io" \in Faults
    /\ put[w].pc \in {"mkdir", "create", "write"}
    /\ BreakOffWrite(w, put[w].u, put[w].p)
    /\ PutReturn(w)
    /\ UNCHANGED <<client, late, repoVars>>

PutDbError(w) ==
    /\ "db" \in Faults
    /\ put[w].pc = "mark"
    /\ PutReturn(w)
    /\ UNCHANGED <<client, late, repoVars, storageVars>>

\* The client disconnects and the future is dropped at an await of store_part.
\* tokio::fs runs the operation under way on its blocking pool all the same, at
\* once, later or never.
PutAbort(w) ==
    /\ "abort" \in Faults
    /\ \/ /\ put[w].pc \in {"mkdir", "create"}
          /\ late' = late \cup {<<put[w].u, put[w].p, put[w].pc>>}
          /\ UNCHANGED storageVars
       \/ /\ put[w].pc = "write"
          /\ AbandonWrite(w, put[w].u, put[w].p, put[w].body)
          /\ UNCHANGED late
    /\ PutReturn(w)
    /\ UNCHANGED <<client, repoVars>>

LateMkdir(u, p) ==
    /\ <<u, p, "mkdir">> \in late
    /\ late' = late \ {<<u, p, "mkdir">>}
    /\ CreatePartsDir(u)
    /\ UNCHANGED <<client, put, repoVars>>

LateCreate(u, p) ==
    /\ <<u, p, "create">> \in late
    /\ late' = late \ {<<u, p, "create">>}
    /\ IF partsDir[u] THEN CreatePartFile(u, p, {}) ELSE UNCHANGED storageVars
    /\ UNCHANGED <<client, put, repoVars>>

LateWrite(u, p) ==
    /\ \E body \in Content : WriteAbandoned(u, p, body)
    /\ UNCHANGED <<ingestVars, repoVars>>

LateStep(u, p) == LateMkdir(u, p) \/ LateCreate(u, p) \/ LateWrite(u, p)

-----------------------------------------------------------------------------
PutStep(w) == \/ PutMkdir(w) \/ PutCreate(w) \/ PutWrite(w) \/ PutMark(w)

IngestNext ==
    \/ \E u \in Upload : InitCreate(u) \/ InitParts(u) \/ InitPartsError(u)
    \/ \E w \in Writer : \/ \E u \in Upload, p \in Part, body \in Content :
                                PutStart(w, u, p, body)
                         \/ PutStep(w)
                         \/ PutIoError(w) \/ PutDbError(w) \/ PutAbort(w)
    \/ \E u \in Upload, p \in Part : LateStep(u, p)
=============================================================================
