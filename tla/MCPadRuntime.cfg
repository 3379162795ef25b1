SPECIFICATION FairSpec
CONSTANTS
    k1 = k1
    Keys <- OneKey
    Generations <- MCGenerations
    Counts <- MCCounts
    MaxPresses = 2
    MaxSyncs = 1
    MaxCuts = 1
    MaxFaults = 1
INVARIANTS
    TypeOK
    LedgerExact
    CleanMeansSafe
    AcceptedSyncIsWritten
PROPERTY PressesReachFlash
