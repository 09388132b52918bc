SPECIFICATION FairSpec
CONSTANTS
    s1 = s1  t1 = t1  t2 = t2  k1 = k1  h1 = h1  h2 = h2
    Sources = {s1}
    Tables = {t1, t2}
    Keys = {k1}
    SourceOf <- AllInS1
    Tracked = {t1, t2}
    MaxSeq = 2
    Handlers = {h1, h2}
    PoolSize = 2
    Keyless = {t2}
    Workloads <- Calls
    Modes = {TRUE, FALSE}
    MaxFaults = 1
INVARIANTS AnswersMatchBatches OKMeansCommitted TargetIsSerial AppliedOnce
PROPERTIES CallsReturn
CHECK_DEADLOCK FALSE
