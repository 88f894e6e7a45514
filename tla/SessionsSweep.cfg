\* The background sweep: one request goroutine, one cleaner, a cache of two.
SPECIFICATION FairSpec
CONSTANTS
    Users = {u1}
    Ids = {i1, i2}
    Ptrs = {q1, q2, q3}
    Handlers = {h1}
    Cleaners = {c1}
    Nil = Nil
    Persistent = FALSE
    CacheLen = 2
    Lifetime = 1
    Second = 1
    MaxTime = 2
PROPERTIES SweptEventually
