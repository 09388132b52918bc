SPECIFICATION FairSpec
CONSTANTS
    s1 = s1  s2 = s2  t1 = t1  t2 = t2  t3 = t3  k1 = k1  k2 = k2
    Sources = {s1, s2}
    Tables = {t1, t2, t3}
    Keys = {k1}
    SourceOf <- TwoAndOne
    Tracked = {t1, t2, t3}
    MaxSeq = 2
    SourceSeq <- TwoSources
    Transactions <- ThreeInTwoSources
    MaxLsn = 3
    BatchSize = 1
    Faults = {"midpoll", "cleanup", "read", "poll", "persist", "stream", "apply", "server", "crash"}
    MaxFaults = 2
    FreshStart = FALSE
    MaxRetries = 2
    Broken = {s2}
INVARIANTS CoveredOrMissed
PROPERTIES FrontSourcesConverge
