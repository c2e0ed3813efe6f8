SPECIFICATION CharSpec
CONSTANTS
    Plan = 1
    Raises = 1
    Depth = 2
    Intrusions = 0
PROPERTY CloseEndsThePulse
