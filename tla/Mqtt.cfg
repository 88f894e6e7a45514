\* Two devices, a read loop that is restarted once, a buffer of one message.
SPECIFICATION FairSpec
CONSTANTS
    r1 = r1
    r2 = r2
    m1 = m1
    m2 = m2
    Subs = {r1, r2}
    Pubs = {1, 2}
    Msgs = {m1, m2}
    Nil = Nil
    Expecting = {r1, r2}
    Wanted <- WantedByRun
    MaxLog = 2
    BufLen = 1
    MaxLoops = 2
    MaxReads = 2
CHECK_DEADLOCK FALSE
INVARIANTS TypeOK SuccessIsEarned OneReader
PROPERTIES UsesGroup RunsEnd
