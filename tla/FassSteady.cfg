CONSTANTS
    VMs = {1, 2}
    Owner <- OwnedBy7
    Static = {2}
    Resched = {}
    UserList <- OneUser
    Action = "suspend"
    PollReplies = {"ok"}
    KillReplies = {"ok", "error"}
    PrioMaps <- OidPriority
    PromptStart = TRUE
    MayStop = FALSE
    SecondJoin = {"returns"}
SPECIFICATION Spec
INVARIANTS NoDanglingVM NoLeakedLock
PROPERTY ImplementsReaper
