INIT StoresInit
NEXT StoresNext
CONSTANTS
    Threads = {t1, t2}
    Keys = {k1, k2, k3}
    Values = {b1, b2}
    MaxSize = 2
    Replicas = {p1, p2}
    Tenants = {ta, tb}
    Docs = {d1}
    Kinds = {"page", "layer"}
    Shots = {s1, s2}
    Views = {v1, v2}
    Expiring = {"render", "index"}
    MaxFaults = 1
    MaxRequests = 3
    None = None
    Nothing = Nothing
SYMMETRY Symmetry
INVARIANTS
    CacheTypeOK SizeBounded
    TypeOK AnswersMatch ListedWasDrawn RerenderRelists
PROPERTIES EvictsWhenFull KeepsCachePromise
CHECK_DEADLOCK FALSE
