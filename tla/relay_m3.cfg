CONSTANTS
    m1 = m1
    m3 = m3
    Channel = {m3}
    M3 = m3
    Stroke = 2
    Travels = {2}
    Gap = 1
    Dwells = {0, 1}
    PulseTimes = {1}
    Leads = {0, 1}
    GuardChunks = 1
    TakenMod = 2
    Commands <- AllCommands
    NvsWrites = {"written"}
    PowerMayFail = TRUE
    ContactBounce = TRUE
    NoTarget = NoTarget
    NoPulse = NoPulse
SPECIFICATION Spec
INVARIANTS
    TypeOK
    EndsAreReal
    StoredClosedIsClosed
    RelayFollowsState
    AlarmSuspends
    KnownWhenWorking
    TargetsDieWithTheirStroke
PROPERTIES
    PromiseKept
    ClimateYields
    TakingsAreTold
