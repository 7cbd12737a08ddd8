SPECIFICATION BusSpec
CONSTANTS
    Agents = {a1, a2}
    Types = {t1}
    c1 = c1
    c2 = c2
    c3 = c3
    c4 = c4
    Prints = {c1, c2, c3, c4}
    Near <- NearPairs
    Priorities <- LowPriorities
    Messages <- SomeSalient
    MinSamples = 3
    QueueCap = 2
    RingCap = 1
    MaxEvents = 4
SYMMETRY Interchangeable
PROPERTIES SpikesComeFirst
