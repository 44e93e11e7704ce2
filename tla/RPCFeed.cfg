CONSTANTS
    Clients = {c1, c2}
    Queues = {q1, q2}
    Answers = {"ok", "refused", "fault", "error"}
    Races = {"torn", "crash"}
    HasPasswd = TRUE
    MaxConn = 1
    PromptServer = FALSE
SPECIFICATION FairSpec
INVARIANTS TypeOK ResourcesReleased EchoesOned
PROPERTIES ImplementsQueueFeed Answered
