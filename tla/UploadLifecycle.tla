--------------------------- MODULE UploadLifecycle ---------------------------
(***************************************************************************)
(* What the server promises of an upload, whatever backend stores it: the  *)
(* status a client polls, the parts that are recorded, and the webhooks it *)
(* gets.  A removal goes by in steps, which a complete request may overlap *)
(* (`leaving'), and a finalization that is restarted while it waits may be *)
(* executed twice (`overrun'): what is promised is weaker from then on.    *)
(***************************************************************************)
EXTENDS Naturals

CONSTANTS Upload, Part

VARIABLES
    phase,     \* UploadStatus, "none" before and "deleted" after the row exists
    received,  \* the parts recorded as uploaded
    leaving,   \* uploads that somebody decided to delete
    overrun,   \* uploads with a second finalization task
    told       \* webhooks sent (counted up to 2)

lifecycleVars == <<phase, received, leaving, overrun, told>>

Finished == {"complete", "failed"}

Init == /\ phase = [u \in Upload |-> "none"]
        /\ received = [u \in Upload |-> {}]
        /\ leaving = {}
        /\ overrun = [u \in Upload |-> FALSE]
        /\ told = [u \in Upload |-> 0]

Become(u, new) == /\ phase' = [phase EXCEPT ![u] = new]
                  /\ UNCHANGED <<received, leaving, overrun, told>>

Create(u) == phase[u] = "none" /\ Become(u, "pending")

Receive(u, p) ==
    /\ phase[u] = "pending"
    /\ received' = [received EXCEPT ![u] = @ \cup {p}]
    /\ UNCHANGED <<phase, leaving, overrun, told>>

\* With every part, unless a removal has taken them away in between.
Start(u) ==
    /\ phase[u] \in {"pending", "failed"}
    /\ received[u] = Part \/ u \in leaving
    /\ Become(u, "finalizing")

\* Only an overrun finalization changes what is finished.
Finish(u) ==
    /\ phase[u] = "finalizing" \/ (overrun[u] /\ phase[u] \in Finished)
    /\ \E new \in Finished : Become(u, new)

\* One webhook, of what is complete by then or deleted.
Tell(u) ==
    /\ overrun[u] \/ (told[u] = 0 /\ phase[u] \in {"complete", "deleted"})
    /\ told' = [told EXCEPT ![u] = IF @ < 2 THEN @ + 1 ELSE 2]
    /\ UNCHANGED <<phase, received, leaving, overrun>>

Overrun(u) ==
    /\ phase[u] = "finalizing"
    /\ overrun' = [overrun EXCEPT ![u] = TRUE]
    /\ UNCHANGED <<phase, received, leaving, told>>

\* A cancel takes one upload, the cleanup service all that expired.
Leave(taken) ==
    /\ \A u \in taken : phase[u] \in {"pending"} \cup Finished
    /\ leaving' = leaving \cup taken
    /\ UNCHANGED <<phase, received, overrun, told>>

\* The part rows and the row are deleted one after the other.
Forget(u) ==
    /\ u \in leaving
    /\ received' = [received EXCEPT ![u] = {}]
    /\ UNCHANGED <<phase, leaving, overrun, told>>

Delete(u) == u \in leaving /\ Become(u, "deleted")

Next == \/ \E u \in Upload : \/ Create(u) \/ Start(u) \/ Finish(u)
                             \/ Tell(u) \/ Overrun(u)
                             \/ Forget(u) \/ Delete(u)
                             \/ \E p \in Part : Receive(u, p)
        \/ \E taken \in SUBSET Upload : Leave(taken)

Spec == Init /\ [][Next]_lifecycleVars
=============================================================================
