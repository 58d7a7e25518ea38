\* A store written key by key, one reporting coroutine, crashes between keys,
\* failed writes, retried loads, clock corrections, one damaged field; results
\* that take the P&L through its mark, and notional sent and handed back.
SPECIFICATION Spec
CONSTANTS
    Absent = Absent
    Blank = Blank
    Damaged = Damaged
    NonFinite = NonFinite
    c1 = c1
    c2 = c2
    Callers <- OneCaller
    Console = Console
    Trades <- TradesAroundPeak
    Notionals <- SentAndHandedBack
    AtomicBatch = FALSE
    WritesMayFail = TRUE
    LoadRetried = TRUE
    ClockStepsBack = TRUE
    DamageBudget = 1
    MaxDay = 2
    MaxCalls = 2
INVARIANTS
    PeakCoversPnl
    WrittenInStep
PROPERTIES
    TornCountsConservative
    TornLossConservative
