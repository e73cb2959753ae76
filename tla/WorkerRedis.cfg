\* Redis transport: two handlers, the batches of two files.
SPECIFICATION Spec
CONSTANTS
    m1 = m1  m2 = m2  m3 = m3  p1 = p1  p2 = p2
    None = None
    Malformed = Malformed
    Messages = {m1, m2, m3}
    Processes = {p1, p2}
    Events <- MCEvents
    ExpenseIds = {1, 2}
    Fingerprints = {"f", "g", "h", "k"}
    Verdicts = {"APROBADO", "RECHAZADO"}
    Deliveries = {d1, d2}
    Records <- MCRecords
    ProcessOf <- MCProcessOf
    IdOf <- MCIdOf
    FpOf <- MCFpOf
    Negative = {"h"}
    Refused = {"r"}
    MaxRecords = 2
    AtLeastOnce = FALSE
    MaxFaults = 0
SYMMETRY Symmetry
INVARIANTS
    TypeOK
    SequentialBatch
    SkipHasOneCause
    OneRowPerDelivery
CHECK_DEADLOCK FALSE
