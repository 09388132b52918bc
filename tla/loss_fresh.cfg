SPECIFICATION Spec
CONSTANTS
    s1 = s1  s2 = s2  t1 = t1  t2 = t2  t3 = t3  k1 = k1  k2 = k2
    Sources = {s1}
    Tables = {t1}
    Keys = {k1, k2}
    SourceOf <- AllInS1
    Tracked = {t1}
    MaxSeq = 2
    SourceSeq <- OneSource
    Transactions <- OneChange
    MaxLsn = 2
    BatchSize = 16
    Faults = {"apply"}
    MaxFaults = 1
    FreshStart = TRUE
    MaxRetries = 5
    Broken = {}
INVARIANTS ResumesAfterApplied
