\* An engine and a test play one batch each; Anti-AFK is switched on and off.
SPECIFICATION FairSpec
CONSTANTS
    Clients = {engine, test}
    Windows = 2
    BatchSize = 2
    Unthrottle = TRUE
    Tries = 2
    MaxRounds = 1
    MaxSwitches = 2
    None = None
INVARIANTS
    PauseQuiets
    InputIsHeld
    NotLeftPaused
PROPERTIES
    CallsReturn
CHECK_DEADLOCK FALSE
