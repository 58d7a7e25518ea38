\* A load whose write raised is called again on the same engine.
SPECIFICATION Spec
CONSTANTS
    Absent = Absent
    Blank = Blank
    Damaged = Damaged
    NonFinite = NonFinite
    c1 = c1
    c2 = c2
    Callers <- OneCaller
    Console = Console
    Trades <- LiveTrades
    Notionals <- SentOnly
    AtomicBatch = TRUE
    WritesMayFail = TRUE
    LoadRetried = TRUE
    ClockStepsBack = FALSE
    DamageBudget = 0
    MaxDay = 2
    MaxCalls = 1
PROPERTIES
    LoadStartsFresh
