\* One stored field lost while the engine is stopped.
SPECIFICATION Spec
CONSTANTS
    Absent = Absent
    Blank = Blank
    Damaged = Damaged
    NonFinite = NonFinite
    c1 = c1
    c2 = c2
    Callers <- OneCaller
    Console = Console
    Trades <- TradesBothLegs
    Notionals <- SentOnly
    AtomicBatch = TRUE
    WritesMayFail = FALSE
    LoadRetried = FALSE
    ClockStepsBack = FALSE
    DamageBudget = 1
    MaxDay = 1
    MaxCalls = 2
PROPERTIES
    DamageNeverLoosens
