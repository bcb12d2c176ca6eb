SPECIFICATION Spec
CONSTANTS
    Clients = {c1, c2}
    Pool <- QuotaPool
    Configs <- QuotaConfigs
    Servers = {1}
    Tenants = {"ta", "tb"}
    Endpoints = {"extract"}
    Rpm = 45
    Burst = 1
    TicksPerSecond = 1
    MaxTime = 4
    Watched <- QuotaWatched
    MaxRetries = 1
    MaxPosts = 3
    MaxDeploys = 0
    None = None
SYMMETRY Symmetry
INVARIANTS TypeOK QuotaHolds HonestRetry RefusedWhenSpent
CHECK_DEADLOCK FALSE
