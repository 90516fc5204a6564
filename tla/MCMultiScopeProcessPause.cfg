\* A record, and a pause without any fault or request besides.
SPECIFICATION Spec
CONSTANTS
    MaxRecords = 1
    MaxStatus = 1
    MaxQueries = 0
    MaxResumes = 1
    MaxFaults = 0
    MaxMessages = 2
    MaxCommands = 1
    None = None
INVARIANTS
    PauseDelivers
CHECK_DEADLOCK FALSE
