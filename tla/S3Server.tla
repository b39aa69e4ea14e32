------------------------------ MODULE S3Server ------------------------------
(***************************************************************************)
(* The server with the S3 backend (src/src/storage/s3.rs).  Parts are      *)
(* local files, stored and deleted as in LocalStorage.  A finalization     *)
(* assembles them in the local file `{id}_assembled.tmp', for which        *)
(* `staging' stands here, and puts that file into the bucket as one        *)
(* object, for which `finalFile' stands.  The bucket shows an object       *)
(* whole or not at all.                                                    *)
(***************************************************************************)
EXTENDS Backends

VARIABLE sent   \* tasks that put the object and did not remove the temp file

s3Vars == <<vars, sent>>

S3TypeOK == TypeOK /\ sent \in SUBSET Task

S3Init == Init /\ sent = {}

S3Frame == UNCHANGED <<completer, contested, notified, repoVars, ingestVars,
                       removalVars, crashes>>

-----------------------------------------------------------------------------
\* store_part: the directory, the file and its bytes are local, as in Ingest.
S3Request == RequestNext /\ UNCHANGED sent

\* delete_parts and delete_file, in the steps of Removal.
S3Removal == RemovalNext /\ UNCHANGED <<ingestVars, finalizerVars, crashes, sent>>

-----------------------------------------------------------------------------
\* assemble_parts.

\* File::create truncates what an earlier attempt left; nothing removes it.
S3Create(t) ==
    /\ task[t].pc = "enter"
    /\ CreateStaging(t, task[t].u)
    /\ task' = [task EXCEPT ![t] = [@ EXCEPT !.pc = "append", !.next = 0]]
    /\ UNCHANGED <<lateBeat, sent>>
    /\ S3Frame

\* The parts are read and written as the local backend does.
S3Append(t) ==
    /\ TaskAppend(t)
    /\ UNCHANGED <<ingestVars, removalVars, crashes, sent>>

\* put_object reads the file while it sends it: another assembler that has the
\* file open can tear what is sent.
ObjectSent(t, u) ==
    IF stagingOpen[u] \subseteq {t} THEN {staging[u]}
    ELSE {object \in [Part -> Data] : \A p \in Part : object[p] \in {staging[u][p], Torn}}

PutObject(t, u) ==
    /\ \E object \in ObjectSent(t, u) : finalFile' = [finalFile EXCEPT ![u] = object]
    /\ stagingOpen' = [stagingOpen EXCEPT ![u] = @ \ {t}]
    /\ UNCHANGED <<partsDir, partFile, staging, partOpen, finalOpen>>

S3Put(t) ==
    LET u == task[t].u IN
    /\ task[t].pc = "rename"
    /\ IF staging[u] = NoFile
       THEN Abandon(t) /\ UNCHANGED sent
       ELSE /\ PutObject(t, u)
            /\ TaskGoto(t, "purge")
            /\ sent' = sent \cup {t}
            /\ UNCHANGED lateBeat
    /\ S3Frame

\* No answer, or an error: the object may be in the bucket all the same.
S3PutFail(t) ==
    LET u == task[t].u IN
    /\ "remote" \in Faults
    /\ task[t].pc = "rename"
    /\ staging[u] # NoFile
    /\ PutObject(t, u)
    /\ StopHeartbeat(u)
    /\ TaskGoto(t, "mark_fail")
    /\ UNCHANGED sent
    /\ S3Frame

\* Mutant of S3PutRefused: its result is dropped.
S3PutRefusedIgnored(t) ==
    /\ "remote" \in Faults
    /\ task[t].pc = "rename"
    /\ TaskGoto(t, "purge")
    /\ UNCHANGED <<lateBeat, storageVars, sent>>
    /\ S3Frame

S3PutRefused(t) ==
    /\ "remote" \in Faults
    /\ task[t].pc = "rename"
    /\ Abandon(t)
    /\ UNCHANGED sent
    /\ S3Frame

\* remove_file(..).ok().
S3RemoveTemp(t) ==
    /\ t \in sent
    /\ \/ RemoveStaleStaging(task[t].u)
       \/ "io" \in Faults /\ UNCHANGED storageVars
    /\ sent' = sent \ {t}
    /\ UNCHANGED <<task, lateBeat>>
    /\ S3Frame

S3Purge(t) ==
    /\ t \notin sent
    /\ TaskPurge(t)
    /\ UNCHANGED <<ingestVars, removalVars, crashes, sent>>

\* Local files fail as they do for the local backend.
S3IoError(t) ==
    /\ t \notin sent
    /\ TaskIoError(t)
    /\ UNCHANGED <<ingestVars, removalVars, crashes, sent>>

\* delete_file of a cancelled upload fails, which is only warned about.
S3UnlinkFail(d) ==
    /\ "remote" \in Faults
    /\ canceller[d].pc = "unlink"
    /\ CancelGoto(d, "rows")
    /\ UNCHANGED <<cleaner, doomed, repoVars, storageVars, ingestVars, finalizerVars,
                   crashes, sent>>

-----------------------------------------------------------------------------
S3TaskStep(t) == S3Create(t) \/ S3Append(t) \/ S3Put(t) \/ S3RemoveTemp(t) \/ S3Purge(t)

S3Next ==
    \/ S3Request
    \/ FinalizerOutside(Storing) /\ UNCHANGED sent
    \/ S3Removal
    \/ \E t \in Task : S3TaskStep(t) \/ S3PutFail(t) \/ S3PutRefused(t) \/ S3IoError(t)
    \/ \E d \in Canceller : S3UnlinkFail(d)
    \/ CrashRestart /\ sent' = {}

S3Spec == S3Init /\ [][S3Next]_s3Vars
=============================================================================
