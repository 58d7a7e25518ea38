\* Two operators over a store written and read key by key, that may corrupt
\* an expiry; the clock is the only thing that must go on.
SPECIFICATION Spec
CONSTANTS
    Absent = Absent
    Blank = Blank
    Damaged = Damaged
    NonFinite = NonFinite
    o1 = o1
    o2 = o2
    r1 = r1
    alice = alice
    unwinding = unwinding
    Cleared = Cleared
    AtomicBatch = FALSE
    Operators <- TwoOperators
    Actors <- OneActor
    Reasons <- OneReason
    Refreshers <- OneRefresher
    Durations <- AskedDurations
    MaxBypass = 1
    Overrides <- AskedCaps
    Fragile <- CorruptExpiry
    DamageBudget = 1
    MaxTime = 2
    MaxCalls = 2
INVARIANTS
    TypeOK
    BypassAuthorised
    RefreshTakesHold
    ClearRearms
    CapsAsAsked
PROPERTIES
    LimitRearmsItself
