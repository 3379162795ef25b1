SPECIFICATION Spec
CONSTANTS
    None = None
    Flashers = {f1, f2}
    Marked = Marked
    Legacy = Legacy
    HellosBeforeReopen = 2
    QueueMax = 1
    EventMax = 2
    ActorMax = 2
    KeepAlive = 2
    Lease = 4
    LinkBudgets <- MCLinkBudgets
    ConfigBudgets <- MCConfigBudgets
    FwBudgets <- MCFwBudgets
    LiveBudgets <- MCLiveBudgets
INVARIANTS CableTypeOK ConfigIsKept AlwaysAKeyboard StreamIsKept
PROPERTIES VerdictsAreTrue CableSettles
CHECK_DEADLOCK FALSE
