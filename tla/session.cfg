\* Two strategies, one working order, a position of one order; the day rolls.
SPECIFICATION Spec
CONSTANTS
    None = None
    NaN = NaN
    Absent = Absent
    Blank = Blank
    Damaged = Damaged
    NonFinite = NonFinite
    MillisPerDay = 3
    SessionRoll = 1
    s1 = s1
    s2 = s2
    Strategies <- TwoStrategies
    Quantity = 2
    MaxPosition = 2
    MaxWorking = 1
    MaxRejects = 1
    MaxExecutions = 2
    DailyNotionalLimit = 2
    MaxOrders = 4
    MaxTime = 2
SYMMETRY SessionSymmetry
INVARIANTS
    TypeOK
    WorkingOvershoot
    PositionOvershoot
    ThrottlesOvershoot
    RollsAtTheRoll
    NotionalOvershoot
    KillStops
