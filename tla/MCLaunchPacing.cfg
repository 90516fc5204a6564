\* The ramp, the scheduler and a manual launch over two accounts; the log gate may be
\* closed by an account nobody confirms.
SPECIFICATION FairSpec
CONSTANTS
    Accounts = {a1, a2}
    InitialDelay = 1
    LaunchDelay = 2
    MaxBlock = 2
    WaitForLog = TRUE
    MaxActions = 1
    MaxRequests = 1
    None = None
INVARIANTS
    RequestsConserved
PROPERTIES
    SuccessSpacesLaunches
    BootEnds
    StopEnds
