\* Is a file that is uploaded again after its process was deleted taken up?
SPECIFICATION AdminSpec
CONSTANTS
    m1 = m1  m2 = m2  p1 = p1  p2 = p2
    None = None
    Malformed = Malformed
    NoProcess = NoProcess
    Messages = {m1, m2}
    Processes = {p1, p2}
    Events <- MCEvents
    ExpenseIds = {1, 2}
    Fingerprints = {"f", "h"}
    Verdicts = {"APROBADO"}
    Deliveries = {d1, d2}
    Records <- MCRecords
    ProcessOf <- MCProcessOf
    IdOf <- MCIdOf
    FpOf <- MCFpOf
    Negative = {"h"}
    Refused = {}
    MaxRecords = 2
    AtLeastOnce = FALSE
    MaxFaults = 0
    PurgeLimit = 1
    MaxDeletions = 1
PROPERTY
    RerunIsNotSkipped
CHECK_DEADLOCK FALSE
