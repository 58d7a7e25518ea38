\* A realized result that is not a number reaches an armed loss limit.
SPECIFICATION Spec
CONSTANTS
    None = None
    NaN = NaN
    BaseLimits <- FullyArmed
    Settings <- Calibrations
    BaseFigures <- FreshFigures
    FigureValues <- BrokenResults
    Orders <- SomeOrders
    MaxDepartures = 1
    MaxPosition = 3
INVARIANT
    LossLimitFailsClosed
