CONSTANTS
    Instances = {a, b, c}
    Options = {"daemon", "foreground"}
    NoOne = NoOne
    Faults <- EveryFault
    Kills = TRUE
    CarefulAdmin = TRUE
SPECIFICATION FairSpec
INVARIANTS TypeOK OneDaemon
PROPERTIES LockGivenBack LockNotOrphaned
