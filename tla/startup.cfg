SPECIFICATION FairSpec
CONSTANTS
    orders = orders  default = default  NoName = NoName  t1 = t1  t2 = t2
    Names = {orders, default}
    Tables = {t1, t2}
    Configs <- AllConfigs
    Log <- TwoChanges
    InitialDelayMs = 100
    MaxDelayMs = 500
    MaxAttempts = 4
    MaxLosses = 1
 
PROPERTIES  DelaysGrow ComesUp
