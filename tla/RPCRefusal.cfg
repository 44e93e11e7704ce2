CONSTANTS
    Clients = {c1}
    Queues = {q1}
    Answers = {"ok", "refused"}
    Races = {}
    HasPasswd = TRUE
    MaxConn = 2
    PromptServer = TRUE
SPECIFICATION Spec
INVARIANT RefusalTold
