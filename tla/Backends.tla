------------------------------ MODULE Backends ------------------------------
(***************************************************************************)
(* The trait StorageBackend (src/src/storage/mod.rs) is where the server   *)
(* calls its backend.  UploadServer has the local one; a module of another *)
(* backend takes the server's steps outside the backend from here and adds *)
(* its own for the calls of the trait.                                     *)
(***************************************************************************)
EXTENDS UploadServer

RequestNext == \/ IngestNext /\ UNCHANGED <<finalizerVars, removalVars, crashes>>
               \/ \E u \in Upload : Expire(u)

\* A finalization is inside the backend at the control points `inside'.
FinalizerOutside(inside) ==
    /\ FinalizerNext
    /\ \A t \in Task : task[t].pc \in inside => task'[t] = task[t]
    /\ UNCHANGED <<ingestVars, removalVars, crashes>>

\* A removal is inside the backend while it cleans the storage.
RemovalOutside ==
    /\ RemovalNext
    /\ \A d \in Canceller : canceller[d].pc \in {"purge", "unlink"} =>
                                canceller'[d] = canceller[d]
    /\ cleaner.pc = "purge" => cleaner' = cleaner
    /\ UNCHANGED <<ingestVars, finalizerVars, crashes>>
=============================================================================
