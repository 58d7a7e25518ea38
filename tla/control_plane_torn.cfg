\* Two bypasses, one written into the other.
SPECIFICATION Spec
CONSTANTS
    Absent = Absent
    Blank = Blank
    Damaged = Damaged
    NonFinite = NonFinite
    o1 = o1
    o2 = o2
    r1 = r1
    alice = alice
    unwinding = unwinding
    Cleared = Cleared
    AtomicBatch = FALSE
    Operators <- TwoOperators
    Actors <- OneActor
    Reasons <- OneReason
    Refreshers <- OneRefresher
    Durations <- AskedDurations
    MaxBypass = 1
    Overrides <- OneCap
    Fragile <- CorruptExpiry
    DamageBudget = 0
    MaxTime = 2
    MaxCalls = 2
INVARIANTS
    StoredBypassAttributed
