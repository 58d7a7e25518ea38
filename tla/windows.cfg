\* Two strategies, two different orders, a clock that may step back anywhere.
SPECIFICATION Spec
CONSTANTS
    s1 = s1
    s2 = s2
    buy = buy
    sell = sell
    Strategies <- TwoStrategies
    Fingerprints <- TwoOrders
    RateLimit = 1
    RateMillis = 2
    DuplicateMillis = 3
    MaxCorrections = 1
    MaxTime = 3
    MaxSends = 3
SYMMETRY WindowSymmetry
INVARIANTS
    TypeOK
    PruneExact
    CountHonest
    OvershootBounded
    DequeBounded
    ResubmissionHeld
