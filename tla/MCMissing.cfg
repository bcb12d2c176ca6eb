SPECIFICATION Spec
CONSTANTS
    Tenants = {ta, tb}
    DefaultTenant = ta
    NoTenant = NoTenant
    Docs = {d1}
    PikepdfPasses = {"ocgs", "analysis"}
    Faulty = {}
    Expiring = {}
    StreamMax = 1
    MaxFaults = 0
    None = None
    Requests = {r1}
    Operations = {"extract"}
    BatchSize = 2
PROPERTY MissingMeansAbsent
CHECK_DEADLOCK FALSE
