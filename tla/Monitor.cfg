\* Two processes, two clicks and one poll in flight, one failing request, fair.
SPECIFICATION FairSpec
CONSTANTS
    Pids = {A, B}
    Unborn = {B}
    None = None
    Filters <- MCFilters
    Audits = {"duplicate"}
    MaxClicks = 3
    MaxCalls = 2
    MaxPolls = 1
    MaxFaults = 1
INVARIANTS
    TypeOK
    ShownIsSelected
PROPERTIES
    DeletesTheOneAsked
    PollingStopsForAReason
    ShownCatchesUp
CHECK_DEADLOCK FALSE
