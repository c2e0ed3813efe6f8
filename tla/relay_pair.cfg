CONSTANTS
    m1 = m1
    m3 = m3
    Channel = {m1, m3}
    M3 = m3
    Stroke = 1
    Travels = {1,2}
    Gap = 1
    Dwells = {0}
    PulseTimes = {1}
    Leads = {0}
    GuardChunks = 1
    TakenMod = 1
    Commands <- PairCommands
    NvsWrites = {"written"}
    PowerMayFail = FALSE
    ContactBounce = FALSE
    NoTarget = NoTarget
    NoPulse = NoPulse
SPECIFICATION FairSpec
PROPERTIES
    AlarmRaised
    DrivesEnd
    SweepsAreWhole
