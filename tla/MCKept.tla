------------------------------- MODULE MCKept -------------------------------
(* The cache that keeps selections and the directory that keeps checkpoints *)
(* share no state and are checked together.  In a behavior one of the two   *)
(* runs, so what is explored is that of each alone.                         *)
EXTENDS MCSelectionCache, Checkpoints, TLC

CONSTANTS b1, b2

VARIABLE part

keptVars == <<part, cacheVars, vars>>

KeptInit ==
    /\ part \in {"cache", "checkpoints"}
    /\ CacheInit
    /\ CheckpointsInit

KeptNext ==
    \/ part = "cache" /\ CacheNext /\ UNCHANGED <<part, vars>>
    \/ part = "checkpoints" /\ CheckpointsNext /\ UNCHANGED <<part, cacheVars>>

\* Only whether two budgets are the same ever matters.
Interchangeable == Permutations({b1, b2})

KeptSpec == KeptInit /\ [][KeptNext]_keptVars
=============================================================================
