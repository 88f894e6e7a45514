\* The database below the cache.
SPECIFICATION Spec
CONSTANTS
    Users = {u1}
    Ids = {i1, i2}
    Ptrs = {q1, q2, q3}
    Handlers = {h1, h2}
    Cleaners = {}
    Nil = Nil
    Persistent = TRUE
    CacheLen = 1
    Lifetime = 1
    Second = 2
    MaxTime = 2
SYMMETRY Symmetry
VIEW View
INVARIANTS CopiesMatchGrant KeptInStore RevocationDurable OnlyRacingFillOutlivesLogout
PROPERTIES AcceptWithinGrant ImplementsRegistry
