------------------------------ MODULE Sessions ------------------------------
(***************************************************************************)
(* Login, logout and the session check of every API request, over the      *)
(* stack session.go -> store.SessionStoreCache -> store.DBStore.           *)
(*                                                                         *)
(* Sessions are Go pointers: the cache, and every request goroutine that   *)
(* looked an id up, may share one Session object, and logout writes its    *)
(* Expiry in place.  So objects live in a heap, and the cache and the      *)
(* goroutines hold references.  Each step is one action on shared state:   *)
(* an LRU call (which the LRU's own lock makes atomic), a statement of the *)
(* database, or the write of an object.  The write of Expiry races with    *)
(* its reads in the code; a read sees the old or the new value, which is   *)
(* what interleaving the write with the reads gives.                       *)
(***************************************************************************)
EXTENDS Integers, FiniteSets

CONSTANTS
    Users,          \* usernames that can log in
    Ids,            \* session ids: 30 random bytes, never drawn twice
    Ptrs,           \* addresses of Session objects
    Handlers,       \* request goroutines
    Cleaners,       \* goroutines started by "go ss.CleanSessions"
    Nil,            \* no pointer, no id, no user
    Persistent,     \* TRUE: DBStore below the cache; FALSE: memory only
    CacheLen,       \* SessionStoreCache.Length
    Lifetime,       \* session.Lifetime, in ticks
    Second,         \* ticks in a second, the resolution of the database
    MaxTime         \* bound on the clock

ASSUME NilAssumption == Nil \notin Users \cup Ids \cup Ptrs
ASSUME ModeAssumption == Persistent \in BOOLEAN
ASSUME TimeAssumption ==
    /\ Lifetime \in Nat /\ MaxTime \in Nat
    /\ Second \in Nat \ {0}
ASSUME SizeAssumption == IsFiniteSet(Ids) /\ CacheLen \in Nat \ {0}
ASSUME ProcAssumption == Handlers \cap Cleaners = {}

VARIABLES
    now,            \* the clock
    heap,           \* Session objects
    cache,          \* the LRU: id -> pointer
    table,          \* the sessions table: id -> row
    th,             \* the goroutines
    cleanDue,       \* a "go ss.CleanSessions" was requested and has not started
    \* History, which says what clients know and which ids are fresh:
    grant,          \* id -> the user and expiry it was issued for
    delivered,      \* ids sent to a client in the cookie of a finished login
    loggedOut,      \* ids a logout expired in memory
    revoked,        \* ids a logout also saved
    raced,          \* ids a lookup had read from the database when they were revoked
    forgotten       \* ids the memory-only store evicted or lost in a restart

hist == <<grant, delivered, loggedOut, revoked, raced, forgotten>>
vars == <<now, heap, cache, table, th, cleanDue, hist>>

Procs == Handlers \cup Cleaners
Zero == -1                          \* time.Time{}, before every clock reading
Session == [user : Users \cup {Nil}, expiry : Nat \cup {Zero}]
Row == [user : Users \cup {Nil}, expiry : Int]
NoRow == [user |-> Nil, expiry |-> Zero]

At(pc, op, id, ref) ==
    [pc |-> pc, op |-> op, id |-> id, ref |-> ref, keys |-> {}, key |-> Nil]
Idle == At("idle", "none", Nil, Nil)
Cleaning(pc, t, keys, key) ==
    [pc |-> pc, op |-> t.op, id |-> t.id, ref |-> t.ref, keys |-> keys, key |-> key]
Goto(p, state) == th' = [th EXCEPT ![p] = state]

PCs == {"idle", "query", "fill", "check", "serve", "expire", "save", "store",
        "keys", "sweep", "remove"}

\* The type invariant, with the bound the LRU puts on the cache.
TypeOK ==
    /\ now \in 0..MaxTime
    /\ heap \in [Ptrs -> Session]
    /\ cache \in [Ids -> Ptrs \cup {Nil}]
    /\ table \in [Ids -> Row]
    /\ th \in [Procs -> [pc : PCs, op : {"none", "api", "login", "logout", "clean"},
                         id : Ids \cup {Nil}, ref : Ptrs \cup {Nil},
                         keys : SUBSET Ids, key : Ids \cup {Nil}]]
    /\ cleanDue \in BOOLEAN
    /\ grant \in [Ids -> Session]
    /\ delivered \in SUBSET Ids /\ loggedOut \in SUBSET Ids /\ revoked \in SUBSET Ids
    /\ raced \in SUBSET Ids /\ forgotten \in SUBSET Ids
    /\ Cardinality({i \in Ids : cache[i] # Nil}) <= CacheLen

----------------------------------------------------------------------------
(* Helpers of the stores. *)

Issued == {i \in Ids : grant[i] # NoRow}
CachedIds == {i \in Ids : cache[i] # Nil}
Reachable == {cache[i] : i \in Ids} \cup {th[p].ref : p \in Procs}

\* Fault: an object is trusted for one tick too long.
IsExpired_Late(q) == now > heap[q].expiry + 1
\* Session.IsExpired.
IsExpired(q) == now > heap[q].expiry

\* Fault: the conversion rounds up.
Unix_RoundedUp(t) == IF t % Second = 0 THEN t ELSE t + Second - (t % Second)
\* time.Time.Unix: the database keeps whole seconds.
Unix(t) == t - (t % Second)

\* Fault: the row keeps the expiry it had (an upsert that updates extra alone).
Upsert_KeepsExpiry(q, i) ==
    IF table[i] # NoRow THEN table
    ELSE [table EXCEPT ![i] = [user |-> heap[q].user, expiry |-> Unix(heap[q].expiry)]]
\* The sessionsave statement: a row that exists changes its expiry, never its user.
Upsert(q, i) ==
    [table EXCEPT ![i] = [user   |-> IF @ # NoRow THEN @.user ELSE heap[q].user,
                          expiry |-> Unix(heap[q].expiry)]]

\* The WHERE clauses of the session and sessionclean statements.
RowLive(i) == table[i].expiry > Unix(now)
\* Fault: rows are deleted a second before they expire.
RowDead_Early(i) == table[i] # NoRow /\ table[i].expiry <= Unix(now) + Second
RowDead(i) == table[i] # NoRow /\ table[i].expiry < Unix(now)

\* Fault: nothing is ever evicted.
Victims_None(i) == {{}}
\* lru.Cache.Add: replaces the entry, or evicts another one when it is full.
Victims(i) ==
    IF cache[i] # Nil \/ Cardinality(CachedIds) < CacheLen THEN {{}}
    ELSE {{k} : k \in CachedIds}

\* Fault: an entry that is there already is left alone (lru's ContainsOrAdd).
CacheAdd_IfAbsent(i, q) ==
    \E gone \in Victims(i) :
        /\ cache' = [k \in Ids |-> IF k = i /\ cache[i] = Nil THEN q
                                   ELSE IF k \in gone THEN Nil ELSE cache[k]]
        /\ forgotten' = IF Persistent THEN forgotten ELSE forgotten \cup gone
CacheAdd(i, q) ==
    \E gone \in Victims(i) :
        /\ cache' = [k \in Ids |-> IF k = i THEN q ELSE IF k \in gone THEN Nil ELSE cache[k]]
        /\ forgotten' = IF Persistent THEN forgotten ELSE forgotten \cup gone

\* Fault: one Session variable serves every login.
New_Shared(q, user, expiry) ==
    /\ q \in Ptrs
    /\ heap' = [heap EXCEPT ![q] = [user |-> user, expiry |-> expiry]]
\* new(Session): an address nothing refers to.
New(q, user, expiry) ==
    /\ q \in Ptrs \ Reachable
    /\ heap' = [heap EXCEPT ![q] = [user |-> user, expiry |-> expiry]]

----------------------------------------------------------------------------
(* Lookup: FromRequest and Logout call SessionStoreCache.Session. *)

Found(op) == IF op = "api" THEN "check" ELSE "expire"
NotFound(op) == IF op = "api" THEN Idle ELSE At("keys", "logout", Nil, Nil)

\* A client presents an id a login sent to it: c.sc.Get, then the store below,
\* if there is one.  (An id nobody was sent takes the same path and misses.)
Request(h, op, i) ==
    /\ th[h] = Idle
    /\ i \in delivered
    /\ Goto(h, IF cache[i] # Nil THEN At(Found(op), op, i, cache[i])
               ELSE IF Persistent THEN At("query", op, i, Nil)
               ELSE NotFound(op))
    /\ UNCHANGED <<now, heap, cache, table, cleanDue, hist>>

\* DBStore.Session finds a live row: a new object, not yet in the cache.
QueryHit(h) ==
    LET i == th[h].id IN
    /\ th[h].pc = "query"
    /\ RowLive(i)
    /\ \E q \in Ptrs :
        /\ New(q, table[i].user, table[i].expiry)
        /\ Goto(h, At("fill", th[h].op, i, q))
    /\ UNCHANGED <<now, cache, table, cleanDue, hist>>

\* No row, an expired row, or the query failed.
QueryMiss(h) ==
    /\ th[h].pc = "query"
    /\ Goto(h, NotFound(th[h].op))
    /\ UNCHANGED <<now, heap, cache, table, cleanDue, hist>>

\* c.sc.Add after a miss.
Fill(h) ==
    /\ th[h].pc = "fill"
    /\ CacheAdd(th[h].id, th[h].ref)
    /\ Goto(h, At(Found(th[h].op), th[h].op, th[h].id, th[h].ref))
    /\ UNCHANGED <<now, heap, table, cleanDue, grant, delivered, loggedOut, revoked, raced>>

\* FromRequest: an expired session is refused and a cleaner started.
Check(h) ==
    /\ th[h].pc = "check"
    /\ IF IsExpired(th[h].ref)
       THEN Goto(h, Idle) /\ cleanDue' = TRUE
       ELSE Goto(h, At("serve", "api", th[h].id, th[h].ref)) /\ UNCHANGED cleanDue
    /\ UNCHANGED <<now, heap, cache, table, hist>>

\* The handler behind the check answers.
Serve(h) ==
    /\ th[h].pc = "serve"
    /\ Goto(h, Idle)
    /\ UNCHANGED <<now, heap, cache, table, cleanDue, hist>>

----------------------------------------------------------------------------
(* Login: Register and New. *)

Register(h, u) ==
    /\ th[h] = Idle
    /\ \E q \in Ptrs :
        /\ New(q, u, now + Lifetime)
        /\ Goto(h, At("keys", "login", Nil, q))
    /\ UNCHANGED <<now, cache, table, cleanDue, hist>>

\* Fault: the id is only kept apart from those the cache holds now.
Fresh_Uncached == Ids \ CachedIds
\* 30 random bytes do not repeat.
Fresh == Ids \ Issued

\* newID: a fresh id.  Its collision check looks an id up that nobody holds.
NewID(h) ==
    /\ th[h].pc = "sweep" /\ th[h].op = "login" /\ th[h].keys = {}
    /\ \E i \in Fresh :
        /\ grant' = [grant EXCEPT ![i] = heap[th[h].ref]]
        /\ Goto(h, At(IF Persistent THEN "save" ELSE "store", "login", i, th[h].ref))
    /\ UNCHANGED <<now, heap, cache, table, cleanDue,
                   delivered, loggedOut, revoked, raced, forgotten>>

\* newID fails: the login is answered with an error.
NewIDFails(h) ==
    /\ th[h].pc = "sweep" /\ th[h].op = "login" /\ th[h].keys = {}
    /\ Goto(h, Idle)
    /\ UNCHANGED <<now, heap, cache, table, cleanDue, hist>>

----------------------------------------------------------------------------
(* Logout: Session.Expire writes the shared object, then saves it. *)

\* Fault: a copy is expired, the shared object is not.
ExpireObject_Copied(q) == UNCHANGED heap
ExpireObject(q) == heap' = [heap EXCEPT ![q].expiry = Zero]

Expire(h) ==
    LET i == th[h].id IN
    /\ th[h].pc = "expire"
    /\ ExpireObject(th[h].ref)
    /\ loggedOut' = loggedOut \cup {i}
    /\ Goto(h, At(IF Persistent THEN "save" ELSE "store", "logout", i, th[h].ref))
    /\ UNCHANGED <<now, cache, table, cleanDue, grant, delivered, revoked, raced, forgotten>>

----------------------------------------------------------------------------
(* SessionStoreCache.SaveSession: the database first, then the cache. *)

SaveOK(h) ==
    /\ th[h].pc = "save"
    /\ table' = Upsert(th[h].ref, th[h].id)
    /\ Goto(h, At("store", th[h].op, th[h].id, th[h].ref))
    /\ UNCHANGED <<now, heap, cache, cleanDue, hist>>

\* The statement is reported as failed: it took effect or it did not.  Login
\* gives up; Expire ignores the error; neither touches the cache.
SaveFails(h) ==
    /\ th[h].pc = "save"
    /\ table' \in {table, Upsert(th[h].ref, th[h].id)}
    /\ Goto(h, NotFound(IF th[h].op = "login" THEN "api" ELSE "logout"))
    /\ UNCHANGED <<now, heap, cache, cleanDue, hist>>

\* Handlers that hold id i read from the database and about to be cached.
Filling(i) == {h \in Handlers : th[h].pc = "fill" /\ th[h].id = i}

\* c.sc.Add: a login is answered with its cookie, a logout goes on to clean.
Store(h) ==
    LET i == th[h].id
        logout == th[h].op = "logout"
    IN
    /\ th[h].pc = "store"
    /\ CacheAdd(i, th[h].ref)
    /\ Goto(h, IF logout THEN At("keys", "logout", Nil, Nil) ELSE Idle)
    /\ delivered' = IF logout THEN delivered ELSE delivered \cup {i}
    /\ revoked' = IF logout THEN revoked \cup {i} ELSE revoked
    /\ raced' = IF logout /\ Filling(i) # {} THEN raced \cup {i} ELSE raced
    /\ UNCHANGED <<now, heap, table, cleanDue, grant, loggedOut>>

----------------------------------------------------------------------------
(* SessionStoreCache.CleanSessions, called by login, logout and cleaners. *)

\* Fault: every entry of the snapshot is swept.
SweepTakes_All(i) == cache[i] # Nil
\* Fault: an expired entry is kept.
SweepTakes_None(i) == FALSE
\* Peek, then IsExpired.
SweepTakes(i) == cache[i] # Nil /\ IsExpired(cache[i])

\* c.sc.Keys.
Keys(p) ==
    /\ th[p].pc = "keys"
    /\ Goto(p, Cleaning("sweep", th[p], CachedIds, Nil))
    /\ UNCHANGED <<now, heap, cache, table, cleanDue, hist>>

Peek(p) ==
    /\ th[p].pc = "sweep"
    /\ \E k \in th[p].keys :
        Goto(p, IF SweepTakes(k)
                THEN Cleaning("remove", th[p], th[p].keys \ {k}, k)
                ELSE Cleaning("sweep", th[p], th[p].keys \ {k}, Nil))
    /\ UNCHANGED <<now, heap, cache, table, cleanDue, hist>>

Remove(p) ==
    /\ th[p].pc = "remove"
    /\ cache' = [cache EXCEPT ![th[p].key] = Nil]
    /\ Goto(p, Cleaning("sweep", th[p], th[p].keys, Nil))
    /\ UNCHANGED <<now, heap, table, cleanDue, hist>>

Swept(p) ==
    /\ th[p].pc = "sweep" /\ th[p].op # "login" /\ th[p].keys = {}
    /\ Goto(p, Idle)
    /\ UNCHANGED <<now, heap, cache, table, cleanDue, hist>>

Sweep(p) == Keys(p) \/ Peek(p) \/ Remove(p) \/ Swept(p)

\* A goroutine started by Check begins.
StartCleaner(c) ==
    /\ cleanDue /\ th[c] = Idle
    /\ cleanDue' = FALSE
    /\ Goto(c, At("keys", "clean", Nil, Nil))
    /\ UNCHANGED <<now, heap, cache, table, hist>>

\* DBStore.CleanSessions: started by nearly every call, throttled, limited to
\* 100 rows, and free to fail, it deletes some of the rows that expired.
CleanTable ==
    /\ Persistent
    /\ \E rows \in SUBSET {i \in Ids : RowDead(i)} :
        /\ rows # {}
        /\ table' = [i \in Ids |-> IF i \in rows THEN NoRow ELSE table[i]]
    /\ UNCHANGED <<now, heap, cache, th, cleanDue, hist>>

----------------------------------------------------------------------------
\* The process stops and starts again: memory is lost, the table is not.
Restart ==
    /\ cache' = [i \in Ids |-> Nil]
    /\ th' = [p \in Procs |-> Idle]
    /\ cleanDue' = FALSE
    /\ raced' = {}
    /\ forgotten' = IF Persistent THEN forgotten ELSE forgotten \cup CachedIds
    /\ UNCHANGED <<now, heap, table, grant, delivered, loggedOut, revoked>>

Tick ==
    /\ now < MaxTime
    /\ now' = now + 1
    /\ UNCHANGED <<heap, cache, table, th, cleanDue, hist>>

Init ==
    /\ now = 0
    /\ heap = [q \in Ptrs |-> NoRow]
    /\ cache = [i \in Ids |-> Nil]
    /\ table = [i \in Ids |-> NoRow]
    /\ th = [p \in Procs |-> Idle]
    /\ cleanDue = FALSE
    /\ grant = [i \in Ids |-> NoRow]
    /\ delivered = {} /\ loggedOut = {} /\ revoked = {} /\ raced = {} /\ forgotten = {}

Handle(h) ==
    \/ \E i \in Ids, op \in {"api", "logout"} : Request(h, op, i)
    \/ QueryHit(h) \/ QueryMiss(h) \/ Fill(h) \/ Check(h) \/ Serve(h)
    \/ \E u \in Users : Register(h, u)
    \/ NewID(h) \/ NewIDFails(h)
    \/ Expire(h) \/ SaveOK(h) \/ SaveFails(h) \/ Store(h)

Next ==
    \/ \E h \in Handlers : Handle(h)
    \/ \E p \in Procs : Sweep(p)
    \/ \E c \in Cleaners : StartCleaner(c)
    \/ CleanTable \/ Restart \/ Tick

Spec == Init /\ [][Next]_vars

\* The Go scheduler runs every goroutine that was started; nothing obliges a
\* client to send a request or the clock to reach a bound.
FairSpec ==
    /\ Spec
    /\ \A c \in Cleaners : WF_vars(StartCleaner(c)) /\ WF_vars(Sweep(c))

----------------------------------------------------------------------------
(* Correctness. *)

\* Every copy of a session, in the cache, in the table or in the hands of a
\* request, is of the user the id was issued to and outlives no grant: neither
\* the rounding of the database nor a shared pointer mixes two sessions up.
Copy(s, i) ==
    /\ i \in Issued
    /\ s.user = grant[i].user
    /\ s.expiry <= grant[i].expiry
CopiesMatchGrant ==
    /\ \A i \in Ids : cache[i] # Nil => Copy(heap[cache[i]], i)
    /\ \A i \in Ids : table[i] # NoRow => Copy(table[i], i)
    /\ \A h \in Handlers : th[h].ref # Nil /\ th[h].id # Nil =>
            Copy(heap[th[h].ref], th[h].id)

\* FromRequest lets a request in only for an issued id, as that id's user, and
\* no later than the expiry it was issued with.
Accepts(h) == th[h].pc # "serve" /\ th'[h].pc = "serve"
AcceptWithinGrant ==
    [][\A h \in Handlers : Accepts(h) =>
            LET i == th[h].id IN
            /\ i \in Issued
            /\ heap[th[h].ref].user = grant[i].user
            /\ now <= grant[i].expiry]_vars

\* In the memory-only store logout is immediate: from the moment the shared
\* object is expired no request is let in with the id, not even one that had
\* looked the session up before.
LogoutImmediate ==
    [][~Persistent => \A h \in Handlers : Accepts(h) => th[h].id \notin loggedOut]_vars

\* A logout that reached the database is durable: no later save, fill, clean or
\* restart makes the row live again.
RevocationDurable == Persistent => \A i \in revoked : ~RowLive(i)

\* After a logout the cache lets the id in again only when a request had read
\* the row before the logout saved it and caches it afterwards.
OnlyRacingFillOutlivesLogout ==
    Persistent => \A i \in revoked :
        cache[i] # Nil /\ ~IsExpired(cache[i]) => i \in raced

\* Nothing but logout, eviction, restart or time takes a session away: the
\* sweep of the cache and the clean of the table never remove a live one.
Live(i) == IF Persistent THEN RowLive(i) ELSE cache[i] # Nil /\ ~IsExpired(cache[i])
Due(i) == IF Persistent THEN Unix(now) < Unix(grant[i].expiry) ELSE now <= grant[i].expiry
KeptInStore == \A i \in delivered \ (loggedOut \cup forgotten) : Due(i) => Live(i)

\* The stack implements the registry of session ids: an id that died is dead.
Pending(h, i) ==        \* a login about to write id i for the first time
    th[h].id = i /\ th[h].op = "login" /\ th[h].pc = IF Persistent THEN "save" ELSE "store"
LiveIds == {i \in Ids : Live(i)}
DeadIds == {i \in Issued \ LiveIds : ~\E h \in Handlers : Pending(h, i)}
Registry == INSTANCE SessionRegistry WITH valid <- LiveIds, spent <- DeadIds
ImplementsRegistry == Registry!Spec

\* A session found expired by a request leaves the cache.
SweptEventually ==
    \A i \in Ids :
        (cleanDue /\ cache[i] # Nil /\ IsExpired(cache[i]))
            ~> (cache[i] = Nil \/ ~IsExpired(cache[i]))

\* schema.sql:24 declares the expiry column unsigned.
ExpiryFitsColumn == \A i \in Ids : table[i] # NoRow => table[i].expiry >= 0
=============================================================================
