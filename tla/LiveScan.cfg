SPECIFICATION MCSpec
CONSTANTS
    None = None
    g1 = g1
    g2 = g2
    Groups = {g1, g2}
    MaxActs = 2
    MaxTroubles = 1
CHECK_DEADLOCK FALSE
INVARIANTS
    CameraOwned
    ResultsOfSelection
PROPERTIES
    FramesKeepFlowing
