CONSTANTS
    p1 = p1  p2 = p2  w1 = w1  w2 = w2
    Procs = {p1, p2}
    NoProc = NoProc
    Writes = {w1, w2}
    LegacyWrites = {w1}
    Builds = {1, 2}
    GenerationRetention = 1
    MaxGens = 4
    MaxCrashes = 1
    MaxFaults = 0
    Faults = {}
SPECIFICATION Spec
CHECK_DEADLOCK FALSE
INVARIANTS
    MarkerMeansOpened
