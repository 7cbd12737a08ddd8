SPECIFICATION RecipesSpec
CONSTANTS
    q1 = q1
    Queries = {q1}
    Fires <- OwnTerms
    Bounds = {5}
    Grades = {0, 10}
    PromoteAt = 7
    PruneAt = 3
    MinSamples = 2
    Window = 2
    Cooldown = 1
    TopK = 2
    MaxClusters = 1
    AgeLimit = 1
    MaxIds = 2
    MaxSkills = 2
INVARIANTS ServedFragmentsAreHeld
