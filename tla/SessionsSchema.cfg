\* What a logout writes to the expiry column of the sessions table.
SPECIFICATION Spec
CONSTANTS
    Users = {u1}
    Ids = {i1}
    Ptrs = {q1, q2, q3}
    Handlers = {h1}
    Cleaners = {c1}
    Nil = Nil
    Persistent = TRUE
    CacheLen = 1
    Lifetime = 2
    Second = 2
    MaxTime = 2
INVARIANTS ExpiryFitsColumn
