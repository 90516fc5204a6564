\* Two callers, two workers, three notifications, two slots, two shutdowns.
\* The callers may stop for good, so the end of every call is no deadlock.
SPECIFICATION FairSpec
CONSTANTS
    Callers = {c1, c2}
    Workers = {w1, w2}
    Jobs = {j1, j2, j3}
    Capacity = 2
    MaxShutdowns = 2
    None = None
INVARIANTS
    SlotsConserved
PROPERTIES
    Contract
    AcceptedSettles
    WorkersExit
    ShutdownReturns
CHECK_DEADLOCK FALSE
