SPECIFICATION CheckpointsSpec
CONSTANTS
    Instances = {i1, i2}
    Watched = {i1}
    AutoInterval = 1
    MaxCheckpoints = 1
    MaxTime = 3
INVARIANTS ResumesAreOwn
