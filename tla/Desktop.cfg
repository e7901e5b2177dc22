CONSTANTS
    g1 = g1 g2 = g2 m1 = m1 m2 = m2 m3 = m3
    Groups = {g1, g2}
    Members = {m1, m2}
    Home <- MCHome
    None = None
    MaxActs = 5
    MaxTroubles = 1
    MaxRows = 2
    ChunkSize = 1
SPECIFICATION MCSpec
SYMMETRY MCSymmetry
CHECK_DEADLOCK FALSE
INVARIANTS
    PanelSettled
    RulesAsSaved
    AddedOnce
    FaceOfMember
