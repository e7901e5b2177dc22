SPECIFICATION Spec
\* whoever has done all that the bounds allow may stop
CHECK_DEADLOCK FALSE
CONSTANTS
    ReportDays = {1, 2}
    Ranges = {{2}, {1, 2}}
    NoRange = {}
    MaxMoves = 4
    MaxScans = 1
    MaxFaults = 1
    MaxGroups = 2
    MaxTurns = 3
    MaxChanges = 1
    MaxLost = 1
    k1 = k1  k2 = k2
    Cameras = {k1, k2}
    NoCamera = NoCamera
    MaxOpened = 2
    MaxPicked = 2
    MaxSwitched = 2
    MaxMalfunctions = 2
INVARIANTS
    TableFresh
    NoFalseAbsence
    ShownSettles
    DeletedAsAgreed
    ButtonsReturn
    CameraReleased
    ShowsSelected
PROPERTIES
    ScansKept
