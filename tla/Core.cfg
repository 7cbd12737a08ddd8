SPECIFICATION CoreSpec
CONSTANTS
    Agents = {p1, p2}
    Types = {t1, t2}
    c1 = c1
    c2 = c2
    c3 = c3
    c4 = c4
    Prints = {c1, c2, c3, c4}
    Near <- NearPairs
    Priorities <- LowPriorities
    Messages <- SomeSalient
    MinSamples = 1
    QueueCap = 2
    RingCap = 2
    MaxEvents = 3

    a1 = a1
    a2 = a2
    user = user
    s = s
    t = t
    Contents = {a1, a2, user}
    Stub = Stub
    Symbols = {s, t}
    Uses <- Used
    Defines <- Defined
    Exports <- Exported
    MaxIds = 3
    SavedIds = 1
    MaxDepth = 2

    f1 = f1
    f2 = f2
    f3 = f3
    Frags = {f1, f2, f3}
    Requests <- MCRequests
    Sizes = {1, 3}
    Slack = 1
    MaxTotal = 20
SYMMETRY Interchangeable
CHECK_DEADLOCK FALSE
INVARIANTS
    BusTypeOK QueueMatchesSubscription RingHoldsNoDuplicates BridgedExactlyOnce
    GraphTypeOK LinksAreExact SearchesAreExact
    SelectionTypeOK TallyIsExact SpentWithinBudget NoUpgradeFits NothingLeftFits
PROPERTIES DrainTakesTheTop LossOnlyByOverflow ImplementsMailboxes
