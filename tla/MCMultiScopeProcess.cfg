\* A record, two statuses, a request and a pause of the window, and a fault.
SPECIFICATION FairSpec
CONSTANTS
    MaxRecords = 1
    MaxStatus = 2
    MaxQueries = 1
    MaxResumes = 1
    MaxFaults = 1
    MaxMessages = 2
    MaxCommands = 1
    None = None
INVARIANTS
    ReadOnce
    NothingLost
PROPERTIES
    StatusArrives
    RecordsArrive
    PauseEnds
CHECK_DEADLOCK FALSE
