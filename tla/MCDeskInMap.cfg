SPECIFICATION UpdatesAlone
CONSTANTS
    None = None
    Pads = {A, B}
    Keys = {k1}
    Few = 2
    SwapInSync = FALSE
    StaleAnswer = FALSE
    Channels = {Stable, Beta}
    Beta = Beta
    Origins = {"user"}
    TosuOnly = 2
    MinPresses = 3
    Window = 2
    Break = 2
    MinSpans = {0, 3}
    Periods = {0, 2}
    MaxTime = 6
    MaxTaps = 5
    KeepBackups = 2
    Dead = Dead
    Launches = {l1, l2}
    MaxClicks = 4
    WidgetLimit = 2
    DesktopPins = {7, 8, 9, 14}
    PadPins = {7, 9, 14}
    Clients = {c1, c2}
    OwnBudgets <- MCOwnBudgets
    UpdateBudgets <- OneMap
    TapBudgets <- MCTapBudgets
    BackupBudgets <- MCBackupBudgets
    DesignerBudgets <- MCDesignerBudgets
    DialogBudgets <- MCDialogBudgets
    RuleBudgets <- MCRuleBudgets
    BoardBudgets <- MCBoardBudgets
    LayoutBudgets <- MCLayoutBudgets
    FrameBudgets <- MCFrameBudgets
PROPERTY NoSwapInMap
CHECK_DEADLOCK FALSE
