CONSTANTS
    MaxCrashesPerWindow = 1
    MaxPids = 3
    MaxLaunches = 2
    MaxDeaths = 2
    MaxTimeouts = 1
    MaxWindows = 1
SPECIFICATION FairSpec
\* an application that was quit for good stays down
CHECK_DEADLOCK FALSE
PROPERTIES
    StartSettles
    Recovered
