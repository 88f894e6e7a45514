----------------------------- MODULE LazyCache -----------------------------
(***************************************************************************)
(* An LRU that the first request makes, without a lock: the session cache  *)
(* and the user cache of cache.go, and the CSRF tokens of oauth.go.        *)
(*                                                                         *)
(* Every call starts with init, which checks the pointer, makes an LRU and *)
(* publishes it.  Two first requests can each publish one; what was put    *)
(* into the first is lost with it.  A call below is one use of the LRU: a  *)
(* lookup that misses and then adds, or a clean-up that removes entry      *)
(* after entry, reads the pointer anew each time, and is several calls.    *)
(***************************************************************************)
EXTENDS Naturals, FiniteSets, Sequences

CONSTANTS
    Procs,          \* request goroutines; an LRU is named after the one that made it
    Keys,           \* session ids, usernames or CSRF tokens
    Length,         \* the length of the LRU
    Ops,            \* the methods of the LRU this one is used by
    Once,           \* keys are random, and each is added once: CSRF tokens
    None

VARIABLES
    current,        \* the published LRU, or None
    entries,        \* LRU -> its keys, the least recent first
    pc,
    lru,            \* the LRU the call in progress has read from the pointer
    \* History:
    added,          \* with Once: keys that were added
    calm,           \* calls that began when no other was making an LRU any more
    kept,           \* keys such calls added, and nobody removed
    since           \* key -> keys used in the published LRU since it was

hist == <<added, calm, kept, since>>
vars == <<current, entries, pc, lru, hist>>

Seen(s) == {s[n] : n \in 1..Len(s)}

TypeOK ==
    /\ current \in Procs \cup {None}
    /\ entries \in [Procs -> Seq(Keys)]
    /\ pc \in [Procs -> {"idle", "init", "make", "read", "use"}]
    /\ lru \in [Procs -> Procs \cup {None}]
    /\ added \in SUBSET Keys /\ kept \in SUBSET Keys
    /\ calm \in SUBSET Procs
    /\ since \in [Keys -> SUBSET Keys]

Init ==
    /\ current = None
    /\ entries = [p \in Procs |-> <<>>]
    /\ pc = [p \in Procs |-> "idle"]
    /\ lru = [p \in Procs |-> None]
    /\ added = {} /\ calm = {} /\ kept = {}
    /\ since = [k \in Keys |-> {}]

Without(s, k) ==
    IF k \notin Seen(s) THEN s
    ELSE LET n == CHOOSE n \in 1..Len(s) : s[n] = k
         IN SubSeq(s, 1, n - 1) \o SubSeq(s, n + 1, Len(s))
\* k becomes the most recent entry; the least recent one leaves a full LRU.
Recent(s, k) ==
    LET t == Append(Without(s, k), k) IN IF Len(t) > Length THEN Tail(t) ELSE t

Goto(p, l) == pc' = [pc EXCEPT ![p] = l]

\* The first requests are over: there is an LRU, and none can replace it.
Published == current # None /\ \A p \in Procs : pc[p] # "make"

Call(p) ==
    /\ pc[p] = "idle"
    /\ calm' = IF Published THEN calm \cup {p} ELSE calm
    /\ Goto(p, "init")
    /\ UNCHANGED <<current, entries, lru, added, kept, since>>

\* Fault: the pointer is not checked.
Initialised_Always(p) ==
    /\ pc[p] = "init"
    /\ Goto(p, "make")
    /\ UNCHANGED <<current, entries, lru, hist>>
\* init: the check of the pointer,
Initialised(p) ==
    /\ pc[p] = "init"
    /\ Goto(p, IF current = None THEN "make" ELSE "read")
    /\ UNCHANGED <<current, entries, lru, hist>>

\* and its assignment.
Make(p) ==
    /\ pc[p] = "make"
    /\ current' = p
    /\ entries' = [entries EXCEPT ![p] = <<>>]
    /\ Goto(p, "read")
    /\ UNCHANGED <<lru, hist>>

\* The pointer is read, then the LRU is called, which has a lock of its own.
Read(p) ==
    /\ pc[p] = "read"
    /\ lru' = [lru EXCEPT ![p] = current]
    /\ Goto(p, "use")
    /\ UNCHANGED <<current, entries, hist>>

\* p's call, of a method this LRU is used by, returns.
Use(p, op) ==
    /\ pc[p] = "use" /\ op \in Ops
    /\ Goto(p, "idle")
    /\ lru' = [lru EXCEPT ![p] = None]
    /\ calm' = calm \ {p}
    /\ UNCHANGED current

\* Key k becomes the most recent of l.
Touch(l, k) ==
    /\ entries' = [entries EXCEPT ![l] = Recent(@, k)]
    /\ since' = IF l = current
                THEN [x \in Keys |-> IF x = k THEN {} ELSE since[x] \cup {k}]
                ELSE since

\* A session id may be added again: by a miss, a logout, a refreshed token.
Add(p, k) ==
    /\ Use(p, "add")
    /\ Once => k \notin added
    /\ added' = IF Once THEN added \cup {k} ELSE added
    /\ Touch(lru[p], k)
    /\ kept' = IF p \in calm THEN kept \cup {k} ELSE kept

Holds(l, k) == k \in Seen(entries[l])

\* Get makes an entry it finds the most recent.
Get(p, k) ==
    /\ Use(p, "get")
    /\ IF Holds(lru[p], k) THEN Touch(lru[p], k) ELSE UNCHANGED <<entries, since>>
    /\ UNCHANGED <<added, kept>>

Contains(p) ==
    /\ Use(p, "contains")
    /\ UNCHANGED <<entries, since, added, kept>>

\* CleanSessions removes a session that has expired; any may have.
Remove(p, k) ==
    /\ Use(p, "remove")
    /\ entries' = [entries EXCEPT ![lru[p]] = Without(@, k)]
    /\ kept' = IF lru[p] = current THEN kept \ {k} ELSE kept
    /\ UNCHANGED <<since, added>>

Next ==
    \E p \in Procs :
        \/ Call(p) \/ Initialised(p) \/ Make(p) \/ Read(p) \/ Contains(p)
        \/ \E k \in Keys : Add(p, k) \/ Get(p, k) \/ Remove(p, k)

Spec == Init /\ [][Next]_vars

\* The race of the first requests costs no more than what they added: an entry
\* added by a call that began once an LRU was published, and no request was about
\* to replace it, is found until it is removed or Length others were used since.
EntriesStand ==
    \A k \in kept : Cardinality(since[k]) < Length => Holds(current, k)
=============================================================================
