SPECIFICATION FairSpec
CONSTANTS
    k1 = k1
    Keys <- OneKey
    Budgets <- CutAndCrash
    MaxCount = 0
    MaxQueue = 1
PROPERTY BothSidesEqual
