\* Two threads that may each borrow, discard and close; two keys of two accounts, one
\* handle: the second thread sleeps, evicts or retires what the first one holds.
SPECIFICATION FairSpec
CONSTANTS
    k1 = k1
    k2 = k2
    u1 = u1
    u2 = u2
    Threads = {t1, t2}
    Entries = {e1, e2, e3}
    Users = {u1, u2}
    Keys = {k1, k2}
    Owner <- MCOwner
    Capacity = 1
    None = None
INVARIANTS
    CapacityRespected
    LeaseIsLive
    RetiredIsReclaimed
    NoLostWakeup
PROPERTIES
    CloseDrains
