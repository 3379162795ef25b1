SPECIFICATION WatchSpec
CONSTANTS
    k1 = k1
    Keys <- OneKey
    Budgets <- OneRequest
    MaxCount = 1
    MaxQueue = 1
INVARIANT ResetHolds
