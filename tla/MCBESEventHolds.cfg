\* One account, two processes, two clients, two events.
SPECIFICATION FairSpec
CONSTANTS
    Users = {u1}
    Pids = {1, 2}
    Owners = {1, 2}
    Places = {"p"}
    Games = {1, 2}
    Duration = 2
    Retention = 0
    MaxTime = 2
    MaxEvents = 2
    MaxChanges = 2
    None = None
INVARIANTS
    ReleasedIsQuiet
PROPERTIES
    NotCutShort
    EventHeld
CHECK_DEADLOCK FALSE
