-------------------------- MODULE MCSmbProperties --------------------------
(***************************************************************************)
(* Model checking SmbProperties with dropped PUTs.                         *)
(***************************************************************************)
EXTENDS SmbProperties

\* A bound: one file operation of a dropped PUT is to come at a time.
OneLate ==
    Cardinality(late) +
        Cardinality({<<u, p, body>> \in Upload \X Part \X Content : body \in partOpen[u][p]}) <= 1
=============================================================================
