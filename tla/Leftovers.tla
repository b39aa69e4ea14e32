----------------------------- MODULE Leftovers -----------------------------
(***************************************************************************)
(* What a removal leaves on disk.  Nothing in the code stops a PUT or a    *)
(* finalization that is under way from writing files again behind a cancel *)
(* request or the cleanup service, so the promise is about removals that   *)
(* do not overlap with either: `raced' remembers the uploads whose removal *)
(* did.  A PUT, or the mkdir of a dropped one, can also come behind a      *)
(* finalization, which deletes the directory: `raced' has these as well.   *)
(***************************************************************************)
EXTENDS ServerProperties

VARIABLE raced   \* history: uploads that were written while being removed

\* From the decision to delete to the deletion of the row.
BeingRemoved(u) == \/ \E d \in Canceller : canceller[d].pc # "idle" /\ canceller[d].u = u
                   \/ u \in cleaner.todo
                   \/ cleaner.u = u

\* A request or a task that may still write files of the upload.
BeingWritten(u) == \/ \E p \in Part : \/ PutsOf(u, p) # {}
                                       \/ {<<u, p, "mkdir">>, <<u, p, "create">>} \cap late # {}
                   \/ FinalizersOf(u) # {}

\* A finalization, which deletes the directory, and a mkdir of it to come.
MkdirBehind(u) == /\ FinalizersOf(u) # {}
                  /\ \E p \in Part : PutsOf(u, p) # {} \/ <<u, p, "mkdir">> \in late

Overlap(u) == (BeingRemoved(u) /\ BeingWritten(u)) \/ MkdirBehind(u)

Remember(overlap(_)) == raced' = raced \cup {u \in Upload : overlap(u)}

LeftoverSpec == /\ Init /\ raced = {}
                /\ [][Next /\ Remember(Overlap)]_<<vars, raced>>

\* An upload that was removed, before or after its completion, and that nobody
\* was writing meanwhile, leaves neither parts nor a final file.  (The staging
\* file of an assembly that failed does stay: no removal looks for it.  And the
\* second task of a contested upload can fail it behind the rename: a removal
\* of a failed upload does not look for the final file either.)
RemovedWithoutTrace ==
    \A u \in Upload \ raced : uploads[u].status = "deleted" =>
        /\ ~partsDir[u] /\ partFile[u] = NoPartFiles
        /\ contested[u] \/ finalFile[u] = NoFile
=============================================================================
