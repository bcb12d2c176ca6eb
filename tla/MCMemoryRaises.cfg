SPECIFICATION CacheSpec
CONSTANTS
    Threads = {t1, t2}
    Keys = {k1, k2, k3}
    Values = {v1}
    MaxSize = 2
    Nothing = Nothing
INVARIANT AlwaysWorks
