CHECK_DEADLOCK FALSE
SPECIFICATION FairSpec
CONSTANTS
    a1 = a1
    w1 = w1
    w2 = w2
    r1 = r1
    r2 = r2
    Actions = {a1}
    Workers = {w1, w2}
    Requests = {r1, r2}
    MaxAttempts = 3
    MaxTries = 2
    Retransmit = FALSE
    NoWorker = NoWorker
INVARIANTS
    TypeOK
    LeasesHeld
    SoleExecutor
PROPERTIES
    TerminalUnlessLost
    TerminalIsFinalWhenQuiet
