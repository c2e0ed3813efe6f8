CONSTANTS
    Holder = {"TEACH", "LCD"}
    NvsMayFail = TRUE
    Session = {s1, s2}
    NoSession = NoSession
    MaxFaults = 1
    MaxStarts = 2
    Plan = 1
    Raises = 1
    Depth = 2
    Intrusions = 1
    FailLimit = 2
SPECIFICATION Spec
INVARIANTS
    TypeOK
    PauseAndStoreAgree
    BandDiesWithTheRun
PROPERTIES
    HoldsKeepTheirPlace
    RunsComeToTheirEnd
    TeachDrivesNoMore
    WhatLastsIsFollowed
    SensorIsNotOverrated
