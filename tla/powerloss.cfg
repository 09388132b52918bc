SPECIFICATION FairSpec
CONSTANTS
    s1 = s1  s2 = s2  t1 = t1  t2 = t2  t3 = t3  k1 = k1  k2 = k2
    Sources = {s1}
    Tables = {t1, t2}
    Keys = {k1}
    SourceOf <- AllInS1
    Tracked = {t1, t2}
    MaxSeq = 2
    SourceSeq <- OneSource
    Transactions <- TwoTables
    MaxLsn = 4
    BatchSize = 16
    Faults = {"powerloss"}
    MaxFaults = 2
    FreshStart = TRUE
    MaxRetries = 2
    Broken = {}
PROPERTIES Converges
