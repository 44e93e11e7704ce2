CONSTANTS
    Shares <- OneUser
    VMs = {0}
    Owner <- Strangers
    Cpu <- Cpus
    Memory <- Memories
    Start = 6
    End = 7
    Period = 1
    NPeriods = 4
    PluginDebug = TRUE
    PollFails = TRUE
    DbFails = TRUE
    Restarts = TRUE
    Junk = {0, 5}
    Records = 1
    Cuts = {1, 2, 3}
    Res = 1
    Samples = 2
SPECIFICATION FairSpec
INVARIANT ReportedStored
PROPERTY PassEnds
