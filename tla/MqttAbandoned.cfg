\* One device answers, one message arrives: a run whose command fails leaves its
\* channel unread, and the publisher waits on it with the group locked.
SPECIFICATION FairSpec
CONSTANTS
    r1 = r1
    r2 = r2
    m1 = m1
    m2 = m2
    Subs = {r1, r2}
    Pubs = {1, 2}
    Msgs = {m1, m2}
    Nil = Nil
    Expecting = {r1}
    Wanted <- WantedByRun
    MaxLog = 2
    BufLen = 1
    MaxLoops = 2
    MaxReads = 1
CHECK_DEADLOCK FALSE
PROPERTIES ClosingQuitClosesMsgs
