SPECIFICATION Spec
CONSTANTS
    Replicas = {p1}
    Tenants = {ta}
    Docs = {d1}
    Kinds = {"page"}
    Shots = {s1, s2}
    Views = {v1}
    Expiring = {"render"}
    MaxFaults = 0
    MaxRequests = 3
    None = None
SYMMETRY Symmetry
INVARIANT ListedIsCached
CHECK_DEADLOCK FALSE
