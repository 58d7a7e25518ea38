\* A clock correction across the roll of the trading day, no crash needed.
SPECIFICATION Spec
CONSTANTS
    Absent = Absent
    Blank = Blank
    Damaged = Damaged
    NonFinite = NonFinite
    c1 = c1
    c2 = c2
    Callers <- OneCaller
    Console = Console
    Trades <- TradesBothLegs
    Notionals <- SentOnly
    AtomicBatch = TRUE
    WritesMayFail = FALSE
    LoadRetried = FALSE
    ClockStepsBack = TRUE
    DamageBudget = 0
    MaxDay = 2
    MaxCalls = 2
INVARIANTS
    DayLedgerKept
