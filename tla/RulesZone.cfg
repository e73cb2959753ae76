\* APP_TIMEZONE four hours behind the system's zone: is the age the calendar's?
SPECIFICATION Spec
CONSTANTS
    Ages <- MCAges
    Hours = {0, 4, 15}
    Shifts <- MCSantiago
    Amounts = {1}
    AgeLimits <- MCOneAgeLimit
    AmountLimits <- MCOneAmountLimit
    None = None
INVARIANT
    AgeIsInAppTimezone
CHECK_DEADLOCK FALSE
