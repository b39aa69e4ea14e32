---------------------------- MODULE UploadServer ----------------------------
(***************************************************************************)
(* The server: the request handlers, the finalization tasks and the        *)
(* cleanup service running concurrently over one metadata store and one    *)
(* local storage, with crashes and restarts (src/src/main.rs).             *)
(***************************************************************************)
EXTENDS Finalizer, Removal

CONSTANT
    MaxCrashes   \* bound on the crashes of a behaviour

ASSUME MaxCrashesAssumption == MaxCrashes \in Nat

VARIABLE crashes

vars == <<repoVars, storageVars, ingestVars, finalizerVars, removalVars, crashes>>

TypeOK == /\ RepoTypeOK
          /\ StorageTypeOK
          /\ IngestTypeOK
          /\ FinalizerTypeOK
          /\ RemovalTypeOK
          /\ crashes \in 0 .. MaxCrashes

Init == /\ RepoInit
        /\ StorageInit
        /\ IngestInit
        /\ FinalizerInit
        /\ RemovalInit
        /\ crashes = 0

-----------------------------------------------------------------------------
\* expires_at goes by, and then the leeway of the token library.  The two
\* inserts of init are milliseconds apart: an upload does not expire in between.
Expire(u) ==
    /\ RowExists(u)
    /\ client[u] # "creating"
    /\ uploads[u].life # "expired"
    /\ uploads' = [uploads EXCEPT ![u].life = IF @ = "live" THEN "leeway" ELSE "expired"]
    /\ UNCHANGED <<parts, storageVars, ingestVars, finalizerVars, removalVars, crashes>>

\* Is a remove_dir_all of the upload's parts under way?
PurgeUnderWay(u) == \/ \E t \in Task : task[t].pc = "purge" /\ task[t].u = u
                    \/ \E d \in Canceller : canceller[d].pc = "purge" /\ canceller[d].u = u
                    \/ cleaner.pc = "purge" /\ u \in cleaner.todo

\* The process dies and the supervisor starts it again.  main() lists the
\* finalizing uploads, and spawns a task for each one whose
\* restart_stale_finalization(id, 0) succeeds: it does not when it fails, or
\* when the row was updated within the current second.
CrashRestart ==
    /\ "crash" \in Faults
    /\ crashes < MaxCrashes
    /\ crashes' = crashes + 1
    /\ client' = [u \in Upload |-> IF client[u] = "creating" THEN "lost" ELSE client[u]]
    /\ put' = [w \in Writer |-> NoPut]
    /\ late' = {}
    /\ completer' = [c \in Completer |-> NoRequest]
    /\ lateBeat' = {}
    /\ canceller' = [d \in Canceller |-> NoCancel]
    /\ cleaner' = Sleeping
    /\ partOpen' = [u \in Upload |-> NobodyOpen]
    /\ stagingOpen' = [u \in Upload |-> {}]
    /\ finalOpen' = [u \in Upload |-> {}]
    /\ \E gone \in [Upload -> SUBSET Part] :
          /\ \A u \in Upload : gone[u] # {} => PurgeUnderWay(u)
          /\ partFile' = [u \in Upload |->
                            [p \in Part |-> IF p \in gone[u] THEN NoFile ELSE partFile[u][p]]]
    /\ \E again \in SUBSET FinalizingUploads :
          /\ Faults \cap {"db", "instant"} = {} => again = FinalizingUploads
          /\ uploads' = [u \in Upload |-> IF u \in again
                                          THEN [uploads[u] EXCEPT !.progress = 0, !.stale = FALSE]
                                          ELSE uploads[u]]
          /\ \E owner \in [again -> Task] :
                /\ \A u, v \in again : owner[u] = owner[v] => u = v
                /\ task' = [t \in Task |->
                              IF \E u \in again : owner[u] = t
                              THEN [pc |-> "queued", u |-> CHOOSE u \in again : owner[u] = t,
                                    next |-> 0]
                              ELSE NoTask]
    /\ UNCHANGED <<parts, partsDir, staging, finalFile, contested, notified, doomed>>

Next == \/ IngestNext /\ UNCHANGED <<finalizerVars, removalVars, crashes>>
        \/ FinalizerNext /\ UNCHANGED <<ingestVars, removalVars, crashes>>
        \/ RemovalNext /\ UNCHANGED <<ingestVars, finalizerVars, crashes>>
        \/ \E u \in Upload : Expire(u)
        \/ CrashRestart

Spec == Init /\ [][Next]_vars
=============================================================================
