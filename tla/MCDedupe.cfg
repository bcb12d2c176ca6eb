SPECIFICATION Spec
CONSTANTS
    Tenants = {ta, tb}
    DefaultTenant = ta
    NoTenant = NoTenant
    Docs = {d1}
    PikepdfPasses = {"ocgs", "analysis"}
    Faulty = {}
    Expiring = {}
    StreamMax = 1
    MaxFaults = 0
    None = None
    Requests = {r1}
    Operations = {"probe"}
    BatchSize = 2
INVARIANT OneXaddPerWindow
CHECK_DEADLOCK FALSE
