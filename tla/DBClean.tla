------------------------------ MODULE DBClean ------------------------------
(***************************************************************************)
(* DBStore.CleanSessions: called by nearly every use of the database, from *)
(* any number of goroutines.  A mutex that is only tried keeps it to one   *)
(* deletion at a time, and the time of the last success to one per hour;   *)
(* with debugging on, which a flag does at start-up, as often as called.   *)
(***************************************************************************)
EXTENDS Naturals, FiniteSets

CONSTANTS
    Procs,          \* goroutines that call CleanSessions
    Interval,       \* sessionCleanInterval, in ticks
    Timeout,        \* the deletion's time limit, in ticks
    MaxTime,        \* bound on the clock
    None

VARIABLES
    debug,          \* debug.Debug()
    now,
    lastClean,      \* d.lastSessionClean, as now + Interval had it been set: 0 when never
    mu,             \* the holder of d.cleanMu, or None
    pc,
    started,        \* when a goroutine began its deletion
    deletions       \* history: when the deletions that succeeded had begun and ended

vars == <<debug, now, lastClean, mu, pc, started, deletions>>

TypeOK ==
    /\ debug \in BOOLEAN
    /\ now \in 0..MaxTime
    /\ lastClean \in 0..(MaxTime + Interval)
    /\ mu \in Procs \cup {None}
    /\ pc \in [Procs -> {"idle", "locked", "delete", "unlock"}]
    /\ started \in [Procs -> 0..MaxTime]
    /\ deletions \in SUBSET ((0..MaxTime) \X (0..MaxTime))

Init ==
    /\ debug \in BOOLEAN
    /\ now = 0
    /\ lastClean = 0
    /\ mu = None
    /\ pc = [p \in Procs |-> "idle"]
    /\ started = [p \in Procs |-> 0]
    /\ deletions = {}

Goto(p, l) == pc' = [pc EXCEPT ![p] = l]

\* Fault: the mutex is not tried.
TryLock_Always(p) == mu' = p
TryLock(p) == mu = None /\ mu' = p

\* A caller that finds the mutex taken returns.
CleanSessions(p) ==
    /\ pc[p] = "idle"
    /\ TryLock(p)
    /\ Goto(p, "locked")
    /\ UNCHANGED <<debug, now, lastClean, started, deletions>>

\* Too recent: lastClean + Interval is still ahead.
TooRecent == now < lastClean /\ ~debug

Skip(p) ==
    /\ pc[p] = "locked" /\ TooRecent
    /\ Goto(p, "unlock")
    /\ UNCHANGED <<debug, now, lastClean, mu, started, deletions>>

Delete(p) ==
    /\ pc[p] = "locked" /\ ~TooRecent
    /\ started' = [started EXCEPT ![p] = now]
    /\ Goto(p, "delete")
    /\ UNCHANGED <<debug, now, lastClean, mu, deletions>>

\* The deletion is answered, and its time is kept.
DeleteOK(p) ==
    /\ pc[p] = "delete"
    /\ deletions' = deletions \cup {<<started[p], now>>}
    /\ lastClean' = now + Interval
    /\ Goto(p, "unlock")
    /\ UNCHANGED <<debug, now, mu, started>>

\* Fault: a failure counts as a clean.
DeleteFails_Stamps(p) ==
    /\ pc[p] = "delete"
    /\ lastClean' = now + Interval
    /\ Goto(p, "unlock")
    /\ UNCHANGED <<debug, now, mu, started, deletions>>
\* No database, an error, or the time limit.
DeleteFails(p) ==
    /\ pc[p] = "delete"
    /\ Goto(p, "unlock")
    /\ UNCHANGED <<debug, now, lastClean, mu, started, deletions>>

Unlock(p) ==
    /\ pc[p] = "unlock"
    /\ mu' = None
    /\ Goto(p, "idle")
    /\ UNCHANGED <<debug, now, lastClean, started, deletions>>

\* Time passes; a deletion does not outlast its limit.
Tick ==
    /\ now < MaxTime
    /\ \A p \in Procs : pc[p] = "delete" => now < started[p] + Timeout
    /\ now' = now + 1
    /\ UNCHANGED <<debug, lastClean, mu, pc, started, deletions>>

Next ==
    \/ \E p \in Procs :
        \/ CleanSessions(p) \/ Skip(p) \/ Delete(p)
        \/ DeleteOK(p) \/ DeleteFails(p) \/ Unlock(p)
    \/ Tick

Spec == Init /\ [][Next]_vars

\* "It can safely be called as a goroutine, ensuring only one deletion": no two
\* run at once; of two that succeeded one began after the other had ended, and an
\* interval after it unless debugging is on; and a caller is told "too recently"
\* only if one succeeded within the interval, so that a failure is tried again.
Deleting == {p \in Procs : pc[p] = "delete"}
Gap == IF debug THEN 0 ELSE Interval
OneDeletion ==
    /\ Cardinality(Deleting) <= 1
    /\ \A a, b \in deletions : a = b \/ a[2] + Gap <= b[1] \/ b[2] + Gap <= a[1]
    /\ \A p \in Procs : pc[p] = "locked" /\ TooRecent =>
            \E d \in deletions : now < d[2] + Interval
=============================================================================
