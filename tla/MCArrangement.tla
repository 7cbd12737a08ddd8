--------------------------- MODULE MCArrangement ---------------------------
EXTENDS Arrangement, TLC

CONSTANTS a, b, c, d

Ranks(i, j, k, l) == a :> i @@ b :> j @@ c :> k @@ d :> l

BothWays(pairs) == pairs \cup {<<pair[2], pair[1]>> : pair \in pairs}

MCNumber == Ranks(1, 2, 3, 4)

\* A definition is ingested before its uses: links lead from later to earlier.
Earlier == {<<a, b>>, <<a, c>>, <<a, d>>, <<b, c>>, <<b, d>>, <<c, d>>}

MCSelections ==
    [chosen : SetToAllKPermutations({a, b, c, d}) \ {<<>>},
     relevance : {Ranks(3, 1, 2, 1)}, importance : {Ranks(1, 2, 2, 3), Ranks(3, 1, 2, 1)},
     contradict : {BothWays(S) : S \in {{}, {<<a, b>>, <<a, c>>}, {<<a, b>>, <<b, d>>, <<c, d>>}}},
     defines : SUBSET Earlier, precise : {{}, {b, c}}]
=============================================================================
