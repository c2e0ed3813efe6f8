CONSTANTS
    m3 = m3
    Channel = {m3}
    M3 = m3
    Stroke = 2
    Travels = {2}
    Gap = 1
    Dwells = {0}
    PulseTimes = {1}
    Leads = {0}
    GuardChunks = 1
    TakenMod = 1
    Commands <- LoopCommands
    NvsWrites = {"written"}
    PowerMayFail = FALSE
    ContactBounce = FALSE
    Q1Depth = 2
    T6Undisturbed = TRUE
    NoTarget = NoTarget
    NoPulse = NoPulse
    NoCommand = NoCommand
SPECIFICATION VentFairSpec
INVARIANTS
    VentTypeOK
    OverrideRules
PROPERTIES
    WindCloses
