SPECIFICATION FirmwareAlone
CONSTANTS
    None = None
    Flashers = {f1, f2}
    Marked = Marked
    Legacy = Legacy
    HellosBeforeReopen = 2
    QueueMax = 1
    EventMax = 2
    ActorMax = 2
    KeepAlive = 2
    Lease = 4
    LinkBudgets <- MCLinkBudgets
    ConfigBudgets <- MCConfigBudgets
    FwBudgets <- TwoUpdates
    LiveBudgets <- MCLiveBudgets
INVARIANT NeverAskedToReflash
CHECK_DEADLOCK FALSE
