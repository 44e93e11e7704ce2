CONSTANTS
    Shares <- TwoUsers
    VMs = {0, 1}
    Owner <- Owners
    Cpu <- Cpus
    Memory <- Memories
    Start = 5
    End = 7
    Period = 1
    NPeriods = 3
    PluginDebug = TRUE
    PollFails = FALSE
    DbFails = FALSE
    Restarts = FALSE
    Junk = {}
    Records = 1
    Cuts = {1, 2, 3, 5}
    Res = 1
    Samples = 2
\* The bound on the samples stops the passes, not the code.
CHECK_DEADLOCK FALSE
SPECIFICATION Spec
INVARIANTS TypeOK StoredExact NobodyLeftOut
PROPERTY QueueFair
