SPECIFICATION Spec
\* whoever has done all that the bounds allow may stop
CHECK_DEADLOCK FALSE
CONSTANTS
    a = a  b = b  u = u  v = v
    g1 = g1  g2 = g2  d1 = d1  d2 = d2
    PanelGroups = {g1, g2}
    AllGroups = AllGroups
    MaxEntered = 1
    MaxScanned = 1
    MaxPicks = 2
    MaxLosses = 1
    Sites = {a, b}
    Servers = {u, v}
    Official = u
    OrgOf <- MCOrg
    MaxCodes = 2
    MaxSteps = 4
    MaxFailures = 1
    Nobody = Nobody
    ReportGroups = {g1, g2}
    Folders = {d1, d2}
    DaySlots = 3
    Zones <- MCZones
    LastSlot = 3
    MaxEntries = 2
    MaxAsks = 3
    MaxMishaps = 1
    MaxChoices = 2
    MaxCalls = 2
    MaxWrong = 3
    MaxResets = 1
    MaxLaunches = 2
    Interval = 3
    LastTick = 8
    MaxVersion = 3
    MaxChecks = 2
    MaxUnreachable = 1
    MaxLaunched = 2
INVARIANTS
    AttendanceSettles
    OriginKept
    NothingStranded
    ViewSettles
    DailyReports
    FileAsShown
    ResetHolds
    ChoiceKept
    OffersAgree
    ToldInTime
