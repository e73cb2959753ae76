\* One handler, two DELETE requests at any time, one fault.
SPECIFICATION AdminSpec
CONSTANTS
    m1 = m1  m2 = m2  p1 = p1  p2 = p2
    None = None
    Malformed = Malformed
    NoProcess = NoProcess
    Messages = {m1, m2}
    Processes = {p1, p2}
    Events <- MCEvents
    ExpenseIds = {1, 2}
    Fingerprints = {"f", "h"}
    Verdicts = {"APROBADO"}
    Deliveries = {d1}
    Records <- MCRecords
    ProcessOf <- MCProcessOf
    IdOf <- MCIdOf
    FpOf <- MCFpOf
    Negative = {"h"}
    Refused = {}
    MaxRecords = 2
    AtLeastOnce = FALSE
    MaxFaults = 1
    PurgeLimit = 1
    MaxDeletions = 2
INVARIANTS
    ErasedAtRestStaysErased
    ShownSuccessIsWhole
    ShownOutcomeIsExplained
    NoDanglingJob
CHECK_DEADLOCK FALSE
