SPECIFICATION Spec
CONSTANTS
    Clients = {c1}
    Pool <- FailoverPool
    Configs <- FailoverConfigs
    Servers = {1, 2}
    Tenants = {"ta"}
    Endpoints = {"extract"}
    Rpm = 45
    Burst = 1
    TicksPerSecond = 1
    MaxTime = 9
    Watched = {}
    MaxRetries = 1
    MaxPosts = 2
    MaxDeploys = 1
    None = None
INVARIANTS FailsAfterAll AnswersFromChecked
CHECK_DEADLOCK FALSE
