\* A manual launch of the account the ramp is waiting to launch.
SPECIFICATION Spec
CONSTANTS
    Accounts = {a1, a2}
    InitialDelay = 1
    LaunchDelay = 2
    MaxBlock = 1
    WaitForLog = FALSE
    MaxActions = 1
    MaxRequests = 1
    None = None
PROPERTIES
    RampSparesLive
