SPECIFICATION AnswersSpec
CONSTANTS
    a = a
    b = b
    c = c
    d = d
    Fragments = {a, b, c, d}
    Number <- MCNumber
    Selections <- MCSelections

    q1 = q1
    Queries = {q1}
    Fires <- OwnTerms
    Bounds = {5}
    Grades = {0, 10}
    PromoteAt = 7
    PruneAt = 3
    MinSamples = 2
    Window = 3
    Cooldown = 2
    TopK = 1
    MaxClusters = 1
    AgeLimit = 1
    MaxIds = 1
    MaxSkills = 2
CHECK_DEADLOCK FALSE
INVARIANTS SurvivorsAgree DefinitionsComeFirst SkillsTypeOK RouterKnowsTheCrystallized
PROPERTIES RetiredSkillsLeave
