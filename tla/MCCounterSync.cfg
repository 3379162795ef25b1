SPECIFICATION Alone
CONSTANTS
    k1 = k1
    Keys <- OneKey
    Budgets <- OneRequestOrCuts
    MaxCount = 0
    MaxQueue = 1
INVARIANTS TypeOK NoPressInvented SyncedPadHasIt
PROPERTIES QueuedResetIsPushed RowNeverForgets
