\* Three goroutines; a file of two users, an LRU of two of three entries, two and a half intervals.
SPECIFICATION Spec
SYMMETRY Symmetry
VIEW View
CONSTANTS
    Procs = {p1, p2, p3}
    Names = {u1, u2, u3}
    Listed = {u1, u2}
    Keys = {k1, k2, k3}
    Length = 2
    Interval = 2
    Timeout = 1
    MaxTime = 5
    None = None
INVARIANTS EntriesStand OneDeletion
PROPERTIES FileMissExplained
