\* Two departures at a time from a fully armed limit set on a fresh day.
SPECIFICATION Spec
CONSTANTS
    None = None
    NaN = NaN
    BaseLimits <- FullyArmed
    Settings <- Calibrations
    BaseFigures <- FreshFigures
    FigureValues <- FigureMovements
    Orders <- SomeOrders
    MaxDepartures = 2
    MaxPosition = 3
INVARIANTS
    TypeOK
    WellFormedAlways
    FailClosed
    SuppressionVisible
    OverrideReplacesLimit
    NeverTrapped
PROPERTIES
    LegsIndependent
    RiskOnlyWithinLimit
    MoreRiskNeverAdmits
