\* The SQLite store: atomic commits, one reporting coroutine, crashes, failed
\* writes and operator resets at any point.
SPECIFICATION Spec
CONSTANTS
    Absent = Absent
    Blank = Blank
    Damaged = Damaged
    NonFinite = NonFinite
    c1 = c1
    c2 = c2
    Callers <- OneCaller
    Console = Console
    Trades <- TradesBothLegs
    Notionals <- SentAndHandedBack
    AtomicBatch = TRUE
    WritesMayFail = TRUE
    LoadRetried = FALSE
    ClockStepsBack = FALSE
    DamageBudget = 0
    MaxDay = 2
    MaxCalls = 4
INVARIANTS
    TypeOK
    RestartAgreement
    DayLedgerKept
    NoFreeAllowance
PROPERTIES
    ImplementsLedger
