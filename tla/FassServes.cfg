CONSTANTS
    VMs = {1}
    Owner <- OwnedBy7
    Static = {}
    Resched = {}
    UserList <- OneUser
    Action = "kill"
    PollReplies = {"ok"}
    KillReplies = {"ok", "error"}
    PrioMaps <- OidPriority
    PromptStart = TRUE
    MayStop = TRUE
    SecondJoin = {"returns"}
SPECIFICATION FairSpec
PROPERTIES PendingQueued GoneUnqueued OverdueReaped StopCompletes
