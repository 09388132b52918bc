SPECIFICATION Spec
CONSTANTS
    s1 = s1  s2 = s2  t1 = t1  t2 = t2  t3 = t3  k1 = k1  k2 = k2
    Sources = {s1}
    Tables = {t1, t2}
    Keys = {k1}
    SourceOf <- AllInS1
    Tracked = {t1, t2}
    MaxSeq = 2
    SourceSeq <- OneSource
    Transactions <- TwoTables
    MaxLsn = 3
    BatchSize = 2
    Faults = {"midpoll", "cleanup", "read", "zombie", "poll", "persist", "stream", "apply", "server", "crash"}
    MaxFaults = 3
    FreshStart = FALSE
    MaxRetries = 2
    Broken = {}
INVARIANTS TypeOK AckMatchesPending PendingBoundedByFailures
PROPERTIES CursorNeverRegresses
