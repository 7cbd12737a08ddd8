--------------------------- MODULE MCFragmentStore ---------------------------
(* A small instance of FragmentStore for TLC. *)
EXTENDS FragmentStore, TLC

CONSTANTS k1, k2

\* The two contents have close fingerprints.
NearPair == {<<k1, k2>>, <<k2, k1>>}

Interchangeable == Permutations(Sources)
=============================================================================
