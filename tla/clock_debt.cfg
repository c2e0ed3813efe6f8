CONSTANTS
    m1 = m1
    m3 = m3
    Channel = {m1, m3}
    Driven = {m3}
    Travel <- Travels
    Gap = 1
    Dwell = 2
    Late = 1
    Word = 12
    Uptime = 26
SPECIFICATION Spec
INVARIANTS
    DeferralsAreOwed
