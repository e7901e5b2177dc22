CONSTANTS
    MaxCrashesPerWindow = 2
    MaxPids = 2
    MaxLaunches = 1
    MaxDeaths = 0
    MaxTimeouts = 0
    MaxWindows = 0
SPECIFICATION Spec
CHECK_DEADLOCK FALSE
PROPERTIES
    QuitStopsBackend
