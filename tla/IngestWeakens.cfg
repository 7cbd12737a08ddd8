SPECIFICATION GraphSpec
CONSTANTS
    a1 = a1
    a2 = a2
    user = user
    s = s
    t = t
    Contents = {a1, a2, user}
    Stub = Stub
    Symbols = {s, t}
    Uses <- Used
    Defines <- Defined
    Exports <- Exported
    MaxIds = 3
    SavedIds = 1
    MaxDepth = 2
PROPERTIES IngestWeakensDependents
