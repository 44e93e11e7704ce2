CONSTANTS
    VMs = {1}
    Owner <- OwnedBy7
    Static = {}
    Resched = {}
    UserList <- OneUser
    Action = "kill"
    PollReplies = {"ok", "refused"}
    KillReplies = {"ok"}
    PrioMaps <- OidPriority
    PromptStart = TRUE
    MayStop = TRUE
    SecondJoin = {"returns"}
SPECIFICATION FairSpec
PROPERTY StopCompletes
CHECK_DEADLOCK FALSE
