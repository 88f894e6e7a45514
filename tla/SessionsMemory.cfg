\* Sessions kept in memory only: two users, two ids, a cache of one entry.
SPECIFICATION Spec
CONSTANTS
    Users = {u1, u2}
    Ids = {i1, i2}
    Ptrs = {q1, q2, q3}
    Handlers = {h1, h2}
    Cleaners = {}
    Nil = Nil
    Persistent = FALSE
    CacheLen = 1
    Lifetime = 1
    Second = 1
    MaxTime = 2
SYMMETRY Symmetry
VIEW View
INVARIANTS TypeOK CopiesMatchGrant KeptInStore
PROPERTIES LogoutImmediate AcceptWithinGrant ImplementsRegistry
