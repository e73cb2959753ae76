\* Three uploads, a fault anywhere, deletion at any time, fair scheduling.
SPECIFICATION FairSpec
CONSTANTS
    f1 = f1  f2 = f2  f3 = f3
    Files = {f1, f2, f3}
    SizeOf <- MCSizeOf
    BadAt <- MCBadAt
    BatchSize = 2
    Misconfigured = {f3}
    MaxFaults = 1
INVARIANTS
    TypeOK
    BatchesTileTheFile
    PublishedIsRegistered
    CompletedIsWhole
    ProgressLagsByOne
PROPERTIES
    FinishedStaysFinished
    ProcessesEnd
CHECK_DEADLOCK FALSE
