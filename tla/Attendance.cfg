SPECIFICATION MCSpec
CONSTANTS
    s1 = s1
    s2 = s2
    Scanners = {s1, s2}
    Reporters = {r1}
    Editors = {e1}
    Modes = {"attendance", "work_hours", "visits"}
    Behaviors = {"automatic", "entry_only", "exit_only"}
    Cooldown = 2
    MinCheckoutDelay = 3
    DayLength = 6
    ShiftStarts = {0, 3}
    MaxTime = 8
    MaxVisits = 3
    MaxInFlight = 2
    MaxPosts = 2
    MaxVoids = 1
    MaxEdits = 1
    MaxCorrections = 3
CHECK_DEADLOCK FALSE
INVARIANTS
    SequentialAgree
    RecordedNotAbsent
    VisitsOrdered
PROPERTIES
    OverrideKept
