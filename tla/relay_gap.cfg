CONSTANTS
    m1 = m1
    m3 = m3
    Channel = {m3}
    M3 = m3
    Stroke = 1
    Travels = {1,2}
    Gap = 1
    Dwells = {1}
    PulseTimes = {1}
    Leads = {0}
    GuardChunks = 1
    TakenMod = 1
    Commands <- StrokeCommands
    NvsWrites = {"written"}
    PowerMayFail = FALSE
    ContactBounce = FALSE
    NoTarget = NoTarget
    NoPulse = NoPulse
SPECIFICATION Spec
PROPERTIES
    GapBetweenRelays
