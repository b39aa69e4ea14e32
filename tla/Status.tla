------------------------------- MODULE Status -------------------------------
(***************************************************************************)
(* GET /upload/{id}/status (src/src/handlers/status.rs): a client that     *)
(* polls while the server works.  The handler reads the row of the upload  *)
(* and counts the uploaded parts in a second statement.                    *)
(***************************************************************************)
EXTENDS ServerProperties

VARIABLE poll   \* the poll under way, or the last answer

NoPoll == [pc |-> "idle", u |-> None, status |-> "none", uploaded |-> 0]

\* get_upload.  An absent row is answered 404.
PollRow(u) ==
    /\ poll.pc # "count"
    /\ client[u] = "known"
    /\ RowExists(u)
    /\ poll' = [pc |-> "count", u |-> u, status |-> uploads[u].status, uploaded |-> 0]

\* count_uploaded_parts, and the answer.
PollCount ==
    /\ poll.pc = "count"
    /\ poll' = [poll EXCEPT !.pc = "answered", !.uploaded = Cardinality(UploadedParts(poll.u))]

StatusNext == \/ Next /\ UNCHANGED poll
              \/ (PollCount \/ \E u \in Upload : PollRow(u)) /\ UNCHANGED vars

StatusSpec == Init /\ poll = NoPoll /\ [][StatusNext]_<<vars, poll>>

\* An answer puts together what two statements read: one that says the upload is
\* past `pending' never shows parts missing.
AnswerCoherent ==
    poll.pc = "answered" /\ poll.u \notin doomed /\ poll.status # "pending" =>
        poll.uploaded = TotalParts
=============================================================================
