\* Four lookups, a policy saved at any time, a TTL of two steps, reports.
SPECIFICATION Spec
CONSTANTS
    b1 = b1  v1 = v1  v2 = v2  v3 = v3
    Lookups = {b1, v1, v2, v3}
    Client <- MCClient
    None = None
    TTL = 2
    MaxTime = 2
    MaxSaves = 1
SYMMETRY Symmetry
INVARIANTS
    TypeOK
    PolicyIsRecent
PROPERTIES
    OlderNeedsOverlap
    ReportShowsApplied
CHECK_DEADLOCK FALSE
