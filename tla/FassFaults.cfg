CONSTANTS
    VMs = {1}
    Owner <- OwnedBy7
    Static = {}
    Resched = {1}
    UserList <- TwoUsers
    Action = "kill"
    PollReplies = {"ok", "refused", "fault", "error"}
    KillReplies = {"ok", "refused", "fault", "error"}
    PrioMaps <- OidPriority
    PromptStart = FALSE
    MayStop = TRUE
    SecondJoin = {"returns", "crashes"}
SPECIFICATION Spec
INVARIANTS TypeOK PoolExclusion NoDanglingVM NoLostWakeup
           NoStalePriority CleanExit
PROPERTY ImplementsReaper
CHECK_DEADLOCK FALSE
