SPECIFICATION Spec
CONSTANTS
    None = None
    r1 = r1
    r2 = r2
    Records = {r1}
    MaxEdits = 2
    MaxTime = 2
    MaxTroubles = 1
CHECK_DEADLOCK FALSE
INVARIANTS
    
    WipedOnce
PROPERTIES
    UnsentEditsKept
    WipedStaysLocal
    
