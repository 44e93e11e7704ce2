CONSTANTS
    Shares <- TwoUsers
    VMs = {0, 1}
    Owner <- Owners
    Cpu <- ACore
    Memory <- Memories
    Start = 5
    End = 6
    Period = 1
    NPeriods = 3
    PluginDebug = TRUE
    PollFails = FALSE
    DbFails = FALSE
    Restarts = FALSE
    Junk = {}
    Records = 1
    Cuts = {1, 2, 3}
    Res = 1
    Samples = 1
SPECIFICATION Spec
INVARIANT TotalIsSum
