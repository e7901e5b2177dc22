CONSTANTS
    p1 = p1  p2 = p2  w1 = w1  w2 = w2
    Procs = {p1}
    NoProc = NoProc
    Writes = {w1, w2}
    LegacyWrites = {w1}
    Builds = {1, 2}
    GenerationRetention = 1
    MaxGens = 5
    MaxCrashes = 3
    MaxFaults = 1
    Faults = {"pointer", "build", "generation", "archive"}
SPECIFICATION FairSpec
CHECK_DEADLOCK FALSE
INVARIANTS
    FaceAsUserLeftIt
PROPERTIES
    StoreNeverForgets
    EventuallyServing
