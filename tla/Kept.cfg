SPECIFICATION KeptSpec
CONSTANTS
    q1 = q1
    c1 = c1
    Queries = {q1}
    NoQuery = NoQuery
    Clusters = {c1}
    ClusterOf <- OneCluster
    Dist <- NoDistance
    b1 = b1
    b2 = b2
    Budgets = {b1, b2}
    MinJaccard = 50
    MinRadius = 2
    InitialRadius = 3
    MaxRadius = 3
    MaxEntries = 1
    MaxSlots = 2
    MaxIds = 2
    MaxFeedback = 1

    Instances = {i1, i2}
    Watched = {i1}
    AutoInterval = 1
    MaxCheckpoints = 1
    MaxTime = 3
INVARIANTS
    CacheTypeOK EntriesAreIndexed HitsKeepTheBudget ExactHitsAreComplete
    LastSavesSurvive ResumesAreNotBehind
PROPERTIES NoStaleReuse
SYMMETRY Interchangeable
