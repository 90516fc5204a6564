\* Both threads launch two accounts of one server, up to two processes.
SPECIFICATION FairSpec
CONSTANTS
    ramp = ramp
    worker = worker
    a1 = a1
    a2 = a2
    s1 = s1
    Callers = {ramp, worker}
    Worker = worker
    Accounts = {a1, a2}
    Servers = {s1}
    Server <- MCServer
    MaxPid = 2
    Disconnected = Disconnected
    None = None
INVARIANTS
    InflightExclusive
    PidIsAttributed
PROPERTIES
    CallReturns
