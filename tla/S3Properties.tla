---------------------------- MODULE S3Properties ----------------------------
(***************************************************************************)
(* What the server promises with the S3 backend.                           *)
(***************************************************************************)
EXTENDS S3Server, ServerProperties, TLC

\* Whoever reads the bucket finds no object or the whole one, whatever failed,
\* was retried or restarted: never a part of it, never a mix of two attempts.
ObjectWhole ==
    \A u \in Upload : ~contested[u] /\ u \notin doomed => finalFile[u] \in {NoFile, parts[u]}

\* An upload that the server calls complete is in the bucket, whole: the part
\* files were only deleted after the put was answered, and no error on the way
\* there was taken for success.
CompleteInBucket ==
    \A u \in Upload : uploads[u].status = "complete" /\ ~contested[u] /\ u \notin doomed =>
        finalFile[u] = parts[u]

S3Symmetry == Permutations(Task) \cup Permutations(Upload)
=============================================================================
