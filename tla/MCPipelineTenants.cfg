SPECIFICATION Spec
CONSTANTS
    Tenants = {ta, tb}
    DefaultTenant = ta
    NoTenant = NoTenant
    Docs = {d1, d2}
    PikepdfPasses = {"ocgs", "analysis"}
    Faulty = {"fitz"}
    Expiring = {"blob"}
    StreamMax = 1
    MaxFaults = 1
    None = None
    Requests = {r1, r2}
    Operations = {"probe", "extract"}
    BatchSize = 2
SYMMETRY Symmetry
INVARIANTS TierIsolation AnswersIsolated NoEntrySkipped
PROPERTY FailuresExplained
CHECK_DEADLOCK FALSE
