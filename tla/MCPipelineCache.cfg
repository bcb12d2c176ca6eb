SPECIFICATION Spec
CONSTANTS
    Tenants = {ta, tb}
    DefaultTenant = ta
    NoTenant = NoTenant
    Docs = {d1}
    PikepdfPasses = {"ocgs", "analysis"}
    Faulty = {"ocgs"}
    Expiring = {"cache"}
    StreamMax = 1
    MaxFaults = 1
    None = None
    Requests = {r1, r2}
    Operations = {"extract", "granular"}
    BatchSize = 2
SYMMETRY RequestSymmetry
INVARIANTS TypeOK CacheSound
PROPERTY KeepsPromise
CHECK_DEADLOCK FALSE
