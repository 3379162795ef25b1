SPECIFICATION Spec
CONSTANTS
    None = None
    Days = {7, 30}
    SchemaFaults = 2
    MaxPolls = 2
    RingMax = 3
    Limit = 2
    Pad = Pad
    Other = Other
    Sockets = {s1, s2}
    Names = {n1, n2}
    MaxPlugs = 3
    Stable = Stable
    Beta = Beta
    A1 = A1
    A2rc = A2rc
    A2 = A2
    T1 = T1
    T2 = T2
    Tags = {A1, A2rc, A2, T1, T2}
    First = {A1, T1}
    Pre = {A2rc}
    Unusable = {A2}
    Life = 1
    Pins = {7, 9, 10, 14}
    Bounce = 2
    Wobble = 2
    Chord = 1
    MaxLines = 3
    ShortMs = 1
    RepressMs = 2
    Wrap = 4
    HistoryBudgets <- MCHistoryBudgets
    FormBudgets <- MCFormBudgets
    LogBudgets <- MCLogBudgets
    CalBudgets <- MCCalBudgets
    InfoOf <- MCInfoOf
    FeedBudgets <- MCFeedBudgets
    PanelBudgets <- MCPanelBudgets
    CheckBudgets <- MCCheckBudgets
    TesterBudgets <- MCTesterBudgets
    MonitorBudgets <- MCMonitorBudgets
INVARIANTS SettleTypeOK StoredWhole EditsStay 
PROPERTIES NeverAStranger InstallsStayGood AllSettle
CHECK_DEADLOCK FALSE
