\* One account, two sessions, two records, one fault.
SPECIFICATION FairTailSpec
CONSTANTS
    Accounts = {a}
    MaxFiles = 2
    MaxStamps = 2
    MaxTroubles = 1
    Mishaps = {"reset", "vanish", "age"}
    MaxRead = 3
    Nothing = Nothing
INVARIANTS
    
    NothingSkipped

    
\* The last record of the last session may have been read.
CHECK_DEADLOCK FALSE
