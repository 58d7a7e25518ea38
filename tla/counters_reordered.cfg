\* Two coroutines whose commits may land in either order.
SPECIFICATION Spec
CONSTANTS
    Absent = Absent
    Blank = Blank
    Damaged = Damaged
    NonFinite = NonFinite
    c1 = c1
    c2 = c2
    Callers <- TwoCallers
    Console = Console
    Trades <- LiveTrades
    Notionals <- SentOnly
    AtomicBatch = TRUE
    WritesMayFail = FALSE
    LoadRetried = FALSE
    ClockStepsBack = FALSE
    DamageBudget = 0
    MaxDay = 1
    MaxCalls = 2
INVARIANTS
    NoFreeAllowance
