SPECIFICATION StoreSpec
CONSTANTS
    k1 = k1
    k2 = k2
    Contents = {k1, k2}
    Sources = {s1, s2}
    Similar <- NearPair
    Protected = {k2}
    NoPrint = NoPrint
    MaxFragments = 2
    AgeLimit = 1
    Period = 2
    Crowd = 1
    MaxBatch = 2
    MaxIds = 3
    MaxTurn = 2
    MaxSaved = 1
    SavedIds = 1
SYMMETRY Interchangeable
INVARIANTS StoreTypeOK DedupIsExact NoContentTwice RecallReaches
PROPERTIES NoLiveFragmentReplaced PinnedNeverLost ConsolidationKeepsARepresentative ImplementsContentSet
