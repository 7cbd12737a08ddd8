--------------------------- MODULE MCCognitiveBus ---------------------------
(* Small instances of CognitiveBus for TLC: c1 and c2 are near duplicates. *)
EXTENDS CognitiveBus, TLC

CONSTANTS c1, c2, c3, c4

NearPairs ==
    {<<c, c>> : c \in Prints} \cup {<<c1, c2>>, <<c2, c1>>}

LowPriorities == {1, 3}

\* Near duplicates are equally salient.
SomeSalient == {<<c1, TRUE>>, <<c2, TRUE>>, <<c3, FALSE>>, <<c4, FALSE>>}

\* Agents and types are interchangeable, and so are c1 with c2, c3 with c4.
Interchangeable ==
    Permutations(Agents) \cup Permutations(Types)
        \cup Permutations({c1, c2}) \cup Permutations({c3, c4})
=============================================================================
