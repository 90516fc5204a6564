\* Two senders, two webhooks, a budget of three ticks.
SPECIFICATION FairSpec
CONSTANTS
    Senders = {s1, s2}
    Urls = {u1, u2}
    MaxWait = 3
    SendTime = 1
    MaxPause = 2
    Retries = 1
    MaxLimited = 2
    None = None
INVARIANTS
    WithinBudget
    NeverPingTwice
PROPERTIES
    PausesRespected
    CallEnds
