\* Two subscriptions, two publishers whose lives overlap, three messages.
SPECIFICATION GroupFairSpec
CONSTANTS
    Subs = {s1, s2}
    Pubs = {p1, p2}
    Msgs = {m1, m2}
    Nil = Nil
    MaxLog = 3
CHECK_DEADLOCK FALSE
INVARIANTS GroupTypeOK NoSendOnClosed ExactCopies NoGaps
PROPERTIES UnsubscribesAreCleanedUp
