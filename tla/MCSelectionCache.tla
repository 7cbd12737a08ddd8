--------------------------- MODULE MCSelectionCache ---------------------------
(* A small instance of SelectionCache for TLC. *)
EXTENDS SelectionCache

CONSTANTS q1, c1

OneCluster == [q \in Queries |-> c1]

\* A query is as far from itself as its fingerprint: not at all.
NoDistance == [p \in Queries \X Queries |-> 0]
=============================================================================
