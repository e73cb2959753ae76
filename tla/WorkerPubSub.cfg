\* Pub/Sub transport: redelivery, one failing call, lost answer or crash, fair.
SPECIFICATION FairSpec
CONSTANTS
    m1 = m1  m2 = m2  m3 = m3  p1 = p1  p2 = p2
    None = None
    Malformed = Malformed
    Messages = {m1, m2}
    Processes = {p1, p2}
    Events <- MCEvents
    ExpenseIds = {1, 2}
    Fingerprints = {"f", "g", "h", "k"}
    Verdicts = {"APROBADO"}
    Deliveries = {d1, d2}
    Records <- MCRecords2
    ProcessOf <- MCProcessOf2
    IdOf <- MCIdOf
    FpOf <- MCFpOf
    Negative = {"h"}
    Refused = {"r"}
    MaxRecords = 2
    AtLeastOnce = TRUE
    MaxFaults = 1
INVARIANTS
    LedgerBacked
    SkipHasAPrior
    SkippedHasAKeeper
    DuplicatesRaced
PROPERTIES
    Implements
    RunsClose
CHECK_DEADLOCK FALSE
