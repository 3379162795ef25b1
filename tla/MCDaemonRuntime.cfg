SPECIFICATION Spec
CONSTANTS
    None = None
    Periods = {Week, Month}
    DefaultDays = Month
    StartOpen = {TRUE, FALSE}
    Cap = 2
    MaxAttempts = 3
    Budgets <- MCBudgets
INVARIANTS TypeOK GuardFollowsMode SyncModeHasSync BackupsFollowPlays
PROPERTIES LogSpec ModesEnd PadToldOfMap
CHECK_DEADLOCK FALSE
