\* Every request over small dates, amounts and thresholds, in three time zones.
SPECIFICATION Spec
CONSTANTS
    Ages <- MCAges
    Hours = {0, 15}
    Shifts <- MCShifts
    Amounts = {0, 1, 2, 3}
    AgeLimits <- MCAgeLimits
    AmountLimits <- MCAmountLimits
    None = None
INVARIANTS
    TypeOK
    StatusIsDecided
    NeverMilder
    AgeIsAtMostADayOff
CHECK_DEADLOCK FALSE
