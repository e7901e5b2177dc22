SPECIFICATION Spec
CONSTANTS
    Scanners = {s1}
    Reporters = {r1}
    Editors = {e1}
    Modes = {"work_hours"}
    Behaviors = {"automatic"}
    Cooldown = 1
    MinCheckoutDelay = 1
    DayLength = 4
    ShiftStarts = {0}
    MaxTime = 4
    MaxVisits = 2
    MaxInFlight = 2
    MaxPosts = 0
    MaxVoids = 0
    MaxEdits = 1
    MaxCorrections = 2
CHECK_DEADLOCK FALSE
PROPERTIES
    OverrideKept
