SPECIFICATION FairSpec
CONSTANTS
    Tenants = {ta}
    DefaultTenant = ta
    NoTenant = NoTenant
    Docs = {d1}
    PikepdfPasses = {"ocgs", "analysis"}
    Faulty = {"ocgs"}
    Expiring = {"dedupe"}
    StreamMax = 1
    MaxFaults = 1
    None = None
    Requests = {r1, r2}
    Operations = {"stream"}
    BatchSize = 2
PROPERTIES EveryRequestEnds EveryEntryConsumed
CHECK_DEADLOCK FALSE
