\* An image that halts in its start-up stops there.
CHECK_DEADLOCK FALSE
SPECIFICATION Spec
CONSTANTS
    Services = {"ota", "log", "rows", "panel", "key", "settings", "pin", "boot", "station", "softap",
                "sensing", "bus", "law", "web", "clock"}
    MaxFile = 3
    MaxFiles = 2
    MinFiles = 1
    LatchMayFail = TRUE
    Posters = {"T5", "T11"}
    Q3Depth = 2
    MaxRows = 5
    TapMax = 4
    HoldFor = 6
    FirstRepeat = 3
    LostAfter = 2
    Stall = 1
    Q2Depth = 2
    MaxHeld = 7
    MaxValue = 1
    Q4Depth = 1
    kMaxRetries = 1
    FailA = 1
    FailB = 2
    ApQ4Depth = 2
    Windows = {1, 3}
    Grace = 1
    Speeds = {0, 2}
    VMax = 2
    Hyst = 1
    BadBank = "A"
    MaxCuts = 3
    LateBeyondGap = FALSE
    Temps = {4, 7, 13, 15}
    Humids = {0, 4, 5}
    TMin = 1
    TMax = 4
    RhMin = 1
    RhMax = 4
    HystT = 3
    HystRh = 3
    Priority = 1
    Full = 6
    MoveMin = 2
    StepMax = 3
    Band = 1
    MaxTroubles = 2
    Slots = {1, 2}
    Tokens = {a, b, c}
    Timeouts = {1, 2}
    MaxNow = 3
    MaxManual = 1
INVARIANTS
    TypeOK
    ImagesAreSound
    NoneLeftBehind
    StoreIsUsed
    AccessIsRight
    SensorsAreHeard
PROPERTIES
    UpdatesEnd
    NetworkHeals
    PanelMovesByHand
    LawComesToRest
    SessionsLast
    TimeIsKept
