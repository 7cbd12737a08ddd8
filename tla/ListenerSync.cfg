SPECIFICATION ListenerSpec
CONSTANTS
    f1 = f1
    f2 = f2
    f3 = f3
    n1 = n1
    n2 = n2
    NoFile = NoFile
    Files = {f1, f2, f3}
    Names = {n1, n2}
    NameOf <- Stems
    Within <- StemsWithin
    MaxFiles = 1
    MaxEdits = 3
    MaxFaults = 1
INVARIANTS ListenerTypeOK RecordsAreHonest
PROPERTIES DeletionsReachBeliefs BeliefsCatchUp
