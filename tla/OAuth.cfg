\* One session of one user, two requests over the database, three tokens.
SPECIFICATION OAuthSpec
CONSTANTS
    Users = {u1}
    Ids = {i1}
    Ptrs = {q1, q2, q3}
    Handlers = {h1, h2}
    Cleaners = {}
    Nil = Nil
    Persistent = TRUE
    CacheLen = 1
    Lifetime = 1
    Second = 1
    MaxTime = 0
    MaxTokens = 3
SYMMETRY Symmetry
VIEW View
INVARIANTS OAuthTypeOK StoredTokenUsable OneRequestRefreshes 
CHECK_DEADLOCK FALSE
