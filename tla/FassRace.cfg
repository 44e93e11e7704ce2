CONSTANTS
    VMs = {1}
    Owner <- OwnedBy7
    Static = {}
    Resched = {}
    UserList <- OneUser
    Action = "kill"
    PollReplies = {"ok"}
    KillReplies = {"ok", "error"}
    PrioMaps <- OidPriority
    PromptStart = TRUE
    MayStop = FALSE
    SecondJoin = {"returns"}
SPECIFICATION Spec
PROPERTY DeployedSpared
