--------------------------- MODULE SessionsProofs ---------------------------
(***************************************************************************)
(* Theorems about Sessions, for every value of its constants.              *)
(***************************************************************************)
EXTENDS Sessions, FiniteSetTheorems, TLAPS

----------------------------------------------------------------------------
(* Facts about the helpers. *)

\* Rounding down to whole seconds never postpones an expiry, and keeps the sign.
LEMMA UnixFacts ==
    \A t \in Int : /\ Unix(t) \in Int
                   /\ Unix(t) <= t
                   /\ t >= 0 => Unix(t) >= 0
  BY TimeAssumption DEF Unix

\* Adding to the cache keeps it within its length.
LEMMA CacheAddTyped ==
    ASSUME TypeOK, NEW i \in Ids, NEW q \in Ptrs, CacheAdd(i, q)
    PROVE  /\ cache' \in [Ids -> Ptrs \cup {Nil}]
           /\ cache'[i] = q
           /\ \A k \in Ids \ {i} : cache'[k] \in {cache[k], Nil}
           /\ forgotten' \in SUBSET Ids
           /\ Cardinality({k \in Ids : cache'[k] # Nil}) <= CacheLen
  <1> DEFINE C  == {k \in Ids : cache[k] # Nil}
             C1 == {k \in Ids : cache'[k] # Nil}
  <1>1. PICK gone \in Victims(i) :
          /\ cache' = [k \in Ids |-> IF k = i THEN q ELSE IF k \in gone THEN Nil ELSE cache[k]]
          /\ forgotten' = IF Persistent THEN forgotten ELSE forgotten \cup gone
    BY DEF CacheAdd
  <1>2. gone \in SUBSET Ids
    BY <1>1 DEF Victims, CachedIds
  <1>3. /\ cache' \in [Ids -> Ptrs \cup {Nil}]
        /\ cache'[i] = q
        /\ \A k \in Ids \ {i} : cache'[k] \in {cache[k], Nil}
        /\ forgotten' \in SUBSET Ids
    BY <1>1, <1>2 DEF TypeOK
  <1>4. C1 = (C \ gone) \cup {i}
    BY <1>1, NilAssumption DEF TypeOK
  <1>5. IsFiniteSet(C) /\ Cardinality(C) \in Nat /\ Cardinality(C) <= CacheLen
    <2>1. IsFiniteSet(C)
      BY FS_Subset, SizeAssumption
    <2> QED BY <2>1, FS_CardinalityType DEF TypeOK
  <1>6. CASE cache[i] # Nil
    <2>1. gone = {} /\ i \in C
      BY <1>1, <1>6 DEF Victims
    <2>2. C1 = C
      BY <2>1, <1>4
    <2> QED BY <2>2, <1>3, <1>5
  <1>7. CASE cache[i] = Nil /\ Cardinality(C) < CacheLen
    <2>1. gone = {} /\ i \notin C
      BY <1>1, <1>7 DEF Victims, CachedIds
    <2>2. C1 = C \cup {i}
      BY <2>1, <1>4
    <2>3. Cardinality(C1) = Cardinality(C) + 1
      BY <2>1, <2>2, <1>5, FS_AddElement
    <2> QED BY <2>3, <1>3, <1>5, <1>7, SizeAssumption
  <1>8. CASE cache[i] = Nil /\ ~(Cardinality(C) < CacheLen)
    <2>1. PICK k \in C : gone = {k}
      BY <1>1, <1>8 DEF Victims, CachedIds
    <2>2. /\ IsFiniteSet(C \ {k})
          /\ Cardinality(C \ {k}) = Cardinality(C) - 1
      BY <2>1, <1>5, FS_RemoveElement
    <2>3. i \notin C \ {k}
      BY <1>8
    <2>4. Cardinality((C \ {k}) \cup {i}) = Cardinality(C \ {k}) + 1
      BY <2>2, <2>3, FS_AddElement
    <2>5. C1 = (C \ {k}) \cup {i}
      BY <2>1, <1>4
    <2>6. Cardinality(C1) = Cardinality(C \ {k}) + 1
      BY <2>4, <2>5
    <2>7. Cardinality(C1) <= CacheLen
      BY <2>2, <2>6, <1>5, SizeAssumption
    <2> HIDE DEF C, C1
    <2> QED BY <2>7, <1>3 DEF C1
  <1> QED BY <1>6, <1>7, <1>8

----------------------------------------------------------------------------
(* Type correctness. *)

\* What each program counter tells of the rest of a goroutine's state: from the
\* step that finds or draws an id on, the goroutine holds that id and an object.
Holding == {"fill", "check", "serve", "expire", "save", "store"}
ThreadShape ==
    /\ \A h \in Handlers :
        /\ th[h].pc \in Holding => th[h].id \in Ids /\ th[h].ref \in Ptrs
        /\ th[h].pc = "query" => th[h].id \in Ids
        /\ th[h].op = "login" =>
            /\ th[h].pc \in {"keys", "sweep", "remove", "save", "store"}
            /\ th[h].ref \in Ptrs /\ heap[th[h].ref].user \in Users
    /\ \A p \in Procs : th[p].pc = "remove" => th[p].key \in Ids

\* The types hold of an empty store.
LEMMA InitTyped == Init => TypeOK /\ ThreadShape
  <1> SUFFICES ASSUME Init PROVE TypeOK /\ ThreadShape
    OBVIOUS
  <1>1. {i \in Ids : cache[i] # Nil} = {}
    BY DEF Init
  <1>2. Cardinality({i \in Ids : cache[i] # Nil}) <= CacheLen
    BY <1>1, FS_EmptySet, SizeAssumption
  <1>3. th \in [Procs -> [pc : PCs, op : {"none", "api", "login", "logout", "clean"},
                         id : Ids \cup {Nil}, ref : Ptrs \cup {Nil},
                         keys : SUBSET Ids, key : Ids \cup {Nil}]]
    BY DEF Init, Idle, At, PCs
  <1>4. TypeOK
    <2>1. /\ now \in 0..MaxTime
          /\ heap \in [Ptrs -> Session]
          /\ cache \in [Ids -> Ptrs \cup {Nil}]
          /\ table \in [Ids -> Row]
          /\ cleanDue \in BOOLEAN
          /\ grant \in [Ids -> Session]
          /\ delivered \in SUBSET Ids /\ loggedOut \in SUBSET Ids
          /\ revoked \in SUBSET Ids /\ raced \in SUBSET Ids
          /\ forgotten \in SUBSET Ids
      <3>1. NoRow \in Session /\ NoRow \in Row
        BY DEF NoRow, Session, Row, Zero
      <3>2. now \in 0..MaxTime
        BY TimeAssumption DEF Init
      <3>3. heap \in [Ptrs -> Session]
        BY <3>1 DEF Init
      <3>4. cache \in [Ids -> Ptrs \cup {Nil}]
        BY DEF Init
      <3>5. table \in [Ids -> Row] /\ grant \in [Ids -> Session]
        BY <3>1 DEF Init
      <3> QED BY <3>2, <3>3, <3>4, <3>5 DEF Init
    <2> QED BY <1>2, <1>3, <2>1 DEF TypeOK
  <1>5. ThreadShape
    BY DEF Init, ThreadShape, Idle, At, Holding, Procs
  <1> QED BY <1>4, <1>5

\* Every step keeps the types, and the cache within its length.
LEMMA StepTyped == TypeOK /\ ThreadShape /\ [Next]_vars => TypeOK'
  <1> SUFFICES ASSUME TypeOK, ThreadShape, [Next]_vars PROVE TypeOK'
    OBVIOUS
  <1> USE DEF TypeOK, Goto, At, Idle, Cleaning, PCs, hist
  <1>1. ASSUME NEW h \in Handlers, NEW i \in Ids, NEW op \in {"api", "logout"},
               Request(h, op, i)
        PROVE TypeOK'
    BY <1>1 DEF Request, Found, NotFound, Procs
  <1>2. ASSUME NEW h \in Handlers, QueryHit(h) PROVE TypeOK'
    <2>1. th[h].id \in Ids
      BY <1>2 DEF QueryHit, ThreadShape
    <2>2. table[th[h].id].expiry \in Nat
      <3>1. Unix(now) \in Int /\ Unix(now) >= 0
        BY UnixFacts, TimeAssumption
      <3> QED BY <2>1, <3>1, <1>2 DEF QueryHit, RowLive, Row
    <2>3. heap' \in [Ptrs -> Session]
      BY <1>2, <2>1, <2>2 DEF QueryHit, New, Session, Row
    <2> QED BY <1>2, <2>1, <2>3 DEF QueryHit, Procs
  <1>3. ASSUME NEW h \in Handlers, QueryMiss(h) PROVE TypeOK'
    BY <1>3 DEF QueryMiss, NotFound, Procs
  <1>4. ASSUME NEW h \in Handlers, Fill(h) PROVE TypeOK'
    <2>1. th[h].id \in Ids /\ th[h].ref \in Ptrs
      BY <1>4 DEF Fill, ThreadShape, Holding
    <2>2. /\ cache' \in [Ids -> Ptrs \cup {Nil}]
          /\ forgotten' \in SUBSET Ids
          /\ Cardinality({k \in Ids : cache'[k] # Nil}) <= CacheLen
      BY <1>4, <2>1, CacheAddTyped DEF Fill
    <2> QED BY <1>4, <2>1, <2>2 DEF Fill, Found, Procs
  <1>5. ASSUME NEW h \in Handlers, Check(h) PROVE TypeOK'
    <2>1. cleanDue' \in BOOLEAN
      BY <1>5 DEF Check
    <2>2. PICK t \in {Idle, At("serve", "api", th[h].id, th[h].ref)} : Goto(h, t)
      BY <1>5 DEF Check
    <2> QED BY <1>5, <2>1, <2>2 DEF Check, Procs
  <1>6. ASSUME NEW h \in Handlers, Serve(h) PROVE TypeOK'
    BY <1>6 DEF Serve, Procs
  <1>7. ASSUME NEW h \in Handlers, NEW u \in Users, Register(h, u) PROVE TypeOK'
    BY <1>7, TimeAssumption DEF Register, New, Session, Procs
  <1>8. ASSUME NEW h \in Handlers, NewID(h) PROVE TypeOK'
    BY <1>8, ModeAssumption DEF NewID, Fresh, ThreadShape, Procs
  <1>9. ASSUME NEW h \in Handlers, NewIDFails(h) PROVE TypeOK'
    BY <1>9 DEF NewIDFails, Procs
  <1>10. ASSUME NEW h \in Handlers, Expire(h) PROVE TypeOK'
    <2>1. th[h].id \in Ids /\ th[h].ref \in Ptrs
      BY <1>10 DEF Expire, ThreadShape, Holding
    <2>2. heap' \in [Ptrs -> Session]
      <3>1. heap' = [heap EXCEPT ![th[h].ref] = [heap[th[h].ref] EXCEPT !.expiry = Zero]]
        BY <1>10 DEF Expire, ExpireObject
      <3>2. [heap[th[h].ref] EXCEPT !.expiry = Zero] \in Session
        BY <2>1 DEF Session, Zero
      <3> QED BY <3>1, <3>2
    <2> QED BY <1>10, <2>1, <2>2, ModeAssumption DEF Expire, Procs
  <1>11. ASSUME NEW h \in Handlers, NEW i \in Ids, NEW q \in Ptrs
         PROVE Upsert(q, i) \in [Ids -> Row]
    BY UnixFacts DEF Upsert, Session, Row, Zero
  <1>12. ASSUME NEW h \in Handlers, SaveOK(h) PROVE TypeOK'
    <2>1. table' \in [Ids -> Row]
      BY <1>11, <1>12 DEF SaveOK, ThreadShape, Holding
    <2> QED BY <1>12, <2>1 DEF SaveOK, Procs
  <1>13. ASSUME NEW h \in Handlers, SaveFails(h) PROVE TypeOK'
    <2>1. table' \in [Ids -> Row]
      BY <1>11, <1>13 DEF SaveFails, ThreadShape, Holding
    <2> QED BY <1>13, <2>1 DEF SaveFails, NotFound, Procs
  <1>14. ASSUME NEW h \in Handlers, Store(h) PROVE TypeOK'
    <2>1. th[h].id \in Ids /\ th[h].ref \in Ptrs
      BY <1>14 DEF Store, ThreadShape, Holding
    <2>2. /\ cache' \in [Ids -> Ptrs \cup {Nil}]
          /\ forgotten' \in SUBSET Ids
          /\ Cardinality({k \in Ids : cache'[k] # Nil}) <= CacheLen
      BY <1>14, <2>1, CacheAddTyped DEF Store
    <2> QED BY <1>14, <2>1, <2>2 DEF Store, Procs
  <1>15. ASSUME NEW p \in Procs, Keys(p) PROVE TypeOK'
    BY <1>15 DEF Keys, CachedIds
  <1>16. ASSUME NEW p \in Procs, Peek(p) PROVE TypeOK'
    BY <1>16 DEF Peek
  <1>17. ASSUME NEW p \in Procs, Remove(p) PROVE TypeOK'
    <2> DEFINE C  == {k \in Ids : cache[k] # Nil}
               C1 == {k \in Ids : cache'[k] # Nil}
    <2>1. th[p].key \in Ids
      BY <1>17 DEF Remove, ThreadShape
    <2>2. cache' \in [Ids -> Ptrs \cup {Nil}] /\ C1 \subseteq C
      BY <1>17, <2>1 DEF Remove
    <2>3. IsFiniteSet(C)
      BY FS_Subset, SizeAssumption
    <2>4. Cardinality(C1) <= Cardinality(C) /\ Cardinality(C) \in Nat /\ Cardinality(C1) \in Nat
      BY <2>2, <2>3, FS_Subset, FS_CardinalityType
    <2>5. Cardinality(C1) <= CacheLen
      BY <2>4, SizeAssumption
    <2> QED BY <1>17, <2>2, <2>5 DEF Remove
  <1>18. ASSUME NEW p \in Procs, Swept(p) PROVE TypeOK'
    BY <1>18 DEF Swept
  <1>19. ASSUME NEW c \in Cleaners, StartCleaner(c) PROVE TypeOK'
    BY <1>19 DEF StartCleaner, Procs
  <1>20. CASE CleanTable
    BY <1>20 DEF CleanTable, NoRow, Row, Zero
  <1>21. CASE Restart
    <2> DEFINE C1 == {k \in Ids : cache'[k] # Nil}
    <2>1. C1 = {}
      BY <1>21 DEF Restart
    <2>2. Cardinality(C1) <= CacheLen
      <3> HIDE DEF C1
      <3>1. Cardinality({}) = 0
        BY FS_EmptySet
      <3> QED BY <2>1, <3>1, SizeAssumption
    <2> QED BY <1>21, <2>2 DEF Restart, CachedIds
  <1>22. CASE Tick
    BY <1>22, TimeAssumption DEF Tick
  <1>23. CASE UNCHANGED vars
    BY <1>23 DEF vars
  <1> QED
    BY <1>1, <1>2, <1>3, <1>4, <1>5, <1>6, <1>7, <1>8, <1>9, <1>10, <1>12, <1>13,
       <1>14, <1>15, <1>16, <1>17, <1>18, <1>19, <1>20, <1>21, <1>22, <1>23
    DEF Next, Handle, Sweep
\* new(Session) touches no object that the cache or a goroutine refers to.
LEMMA NewFrame ==
    ASSUME TypeOK, NEW q \in Ptrs, NEW user, NEW expiry, New(q, user, expiry)
    PROVE  /\ heap'[q] = [user |-> user, expiry |-> expiry]
           /\ \A p \in Procs : th[p].ref # Nil => heap'[th[p].ref] = heap[th[p].ref]
           /\ \A i \in Ids : cache[i] # Nil => heap'[cache[i]] = heap[cache[i]]
  BY DEF New, TypeOK, Reachable

\* Expiring an object changes its expiry alone, and to a value before every other.
LEMMA ExpireFrame ==
    ASSUME TypeOK, NEW q \in Ptrs, ExpireObject(q)
    PROVE  /\ heap'[q] = [user |-> heap[q].user, expiry |-> Zero]
           /\ \A r \in Ptrs \ {q} : heap'[r] = heap[r]
           /\ \A r \in Ptrs : heap'[r].user = heap[r].user
  BY DEF ExpireObject, TypeOK, Session

\* A goroutine has an id and an object whenever its place says so.
LEMMA StepShape == TypeOK /\ ThreadShape /\ [Next]_vars => ThreadShape'
  <1> SUFFICES ASSUME TypeOK, ThreadShape, [Next]_vars PROVE ThreadShape'
    OBVIOUS
  <1> USE NilAssumption DEF ThreadShape, Holding, Goto, At, Idle, Cleaning, hist
  <1>0. /\ th \in [Procs -> [pc : PCs, op : {"none", "api", "login", "logout", "clean"},
                             id : Ids \cup {Nil}, ref : Ptrs \cup {Nil},
                             keys : SUBSET Ids, key : Ids \cup {Nil}]]
        /\ cache \in [Ids -> Ptrs \cup {Nil}]
        /\ Handlers \subseteq Procs /\ Cleaners \subseteq Procs
        /\ Handlers \cap Cleaners = {}
    BY ProcAssumption DEF TypeOK, Procs
  <1>1. ASSUME NEW h \in Handlers, NEW i \in Ids, NEW op \in {"api", "logout"},
               Request(h, op, i)
        PROVE ThreadShape'
    BY <1>0, <1>1 DEF Request, Found, NotFound
  <1>2. ASSUME NEW h \in Handlers, QueryHit(h) PROVE ThreadShape'
    <2>1. PICK q \in Ptrs : /\ New(q, table[th[h].id].user, table[th[h].id].expiry)
                            /\ Goto(h, At("fill", th[h].op, th[h].id, q))
      BY <1>2 DEF QueryHit
    <2>2. \A p \in Procs : th[p].ref # Nil => heap'[th[p].ref] = heap[th[p].ref]
      BY <2>1, NewFrame
    <2> QED BY <1>0, <1>2, <2>1, <2>2 DEF QueryHit
  <1>3. ASSUME NEW h \in Handlers, QueryMiss(h) PROVE ThreadShape'
    BY <1>0, <1>3 DEF QueryMiss, NotFound
  <1>4. ASSUME NEW h \in Handlers, Fill(h) PROVE ThreadShape'
    BY <1>0, <1>4 DEF Fill, Found
  <1>5. ASSUME NEW h \in Handlers, Check(h) PROVE ThreadShape'
    <2>1. PICK t \in {Idle, At("serve", "api", th[h].id, th[h].ref)} : Goto(h, t)
      BY <1>5 DEF Check
    <2> QED BY <1>0, <1>5, <2>1 DEF Check
  <1>6. ASSUME NEW h \in Handlers, Serve(h) PROVE ThreadShape'
    BY <1>0, <1>6 DEF Serve
  <1>7. ASSUME NEW h \in Handlers, NEW u \in Users, Register(h, u) PROVE ThreadShape'
    <2>1. PICK q \in Ptrs : New(q, u, now + Lifetime) /\ Goto(h, At("keys", "login", Nil, q))
      BY <1>7 DEF Register
    <2>2. /\ heap'[q] = [user |-> u, expiry |-> now + Lifetime]
          /\ \A p \in Procs : th[p].ref # Nil => heap'[th[p].ref] = heap[th[p].ref]
      BY <2>1, NewFrame
    <2> QED BY <1>0, <1>7, <2>1, <2>2 DEF Register
  <1>8. ASSUME NEW h \in Handlers, NewID(h) PROVE ThreadShape'
    BY <1>0, <1>8, ModeAssumption DEF NewID, Fresh
  <1>9. ASSUME NEW h \in Handlers, NewIDFails(h) PROVE ThreadShape'
    BY <1>0, <1>9 DEF NewIDFails
  <1>10. ASSUME NEW h \in Handlers, Expire(h) PROVE ThreadShape'
    <2>1. \A r \in Ptrs : heap'[r].user = heap[r].user
      BY <1>10, ExpireFrame DEF Expire
    <2> QED BY <1>0, <1>10, <2>1, ModeAssumption DEF Expire
  <1>11. ASSUME NEW h \in Handlers, SaveOK(h) PROVE ThreadShape'
    BY <1>0, <1>11 DEF SaveOK
  <1>12. ASSUME NEW h \in Handlers, SaveFails(h) PROVE ThreadShape'
    BY <1>0, <1>12 DEF SaveFails, NotFound
  <1>13. ASSUME NEW h \in Handlers, Store(h) PROVE ThreadShape'
    BY <1>0, <1>13 DEF Store
  <1>14. ASSUME NEW p \in Procs, Keys(p) PROVE ThreadShape'
    BY <1>0, <1>14 DEF Keys
  <1>15. ASSUME NEW p \in Procs, Peek(p) PROVE ThreadShape'
    <2>1. PICK k \in th[p].keys :
            \/ Goto(p, Cleaning("remove", th[p], th[p].keys \ {k}, k))
            \/ Goto(p, Cleaning("sweep", th[p], th[p].keys \ {k}, Nil))
      BY <1>15 DEF Peek
    <2> QED BY <1>0, <1>15, <2>1 DEF Peek
  <1>16. ASSUME NEW p \in Procs, Remove(p) PROVE ThreadShape'
    BY <1>0, <1>16 DEF Remove
  <1>17. ASSUME NEW p \in Procs, Swept(p) PROVE ThreadShape'
    BY <1>0, <1>17 DEF Swept
  <1>18. ASSUME NEW c \in Cleaners, StartCleaner(c) PROVE ThreadShape'
    BY <1>0, <1>18 DEF StartCleaner
  <1>19. CASE CleanTable
    BY <1>19 DEF CleanTable
  <1>20. CASE Restart
    BY <1>0, <1>20 DEF Restart
  <1>21. CASE Tick
    BY <1>21 DEF Tick
  <1>22. CASE UNCHANGED vars
    BY <1>22 DEF vars
  <1> QED
    BY <1>1, <1>2, <1>3, <1>4, <1>5, <1>6, <1>7, <1>8, <1>9, <1>10, <1>11, <1>12, <1>13,
       <1>14, <1>15, <1>16, <1>17, <1>18, <1>19, <1>20, <1>21, <1>22
    DEF Next, Handle, Sweep

\* Every variable keeps its type, and the cache its length.
THEOREM TypeCorrect == Spec => []TypeOK
  <1>1. Spec => [](TypeOK /\ ThreadShape)
    BY InitTyped, StepTyped, StepShape, PTL DEF Spec
  <1> QED BY <1>1, PTL
----------------------------------------------------------------------------
(* Copies of a session match what its id was issued for. *)

Typed == TypeOK /\ ThreadShape

\* No step makes a copy of another user, or one that outlives the grant.
LEMMA StepCopies == Typed /\ CopiesMatchGrant /\ [Next]_vars => CopiesMatchGrant'
  <1> SUFFICES ASSUME TypeOK, ThreadShape, CopiesMatchGrant, [Next]_vars
               PROVE  CopiesMatchGrant'
    BY DEF Typed
  <1> USE NilAssumption DEF CopiesMatchGrant, Copy, Issued, Goto, At, Idle, Cleaning, hist
  <1>0. /\ th \in [Procs -> [pc : PCs, op : {"none", "api", "login", "logout", "clean"},
                             id : Ids \cup {Nil}, ref : Ptrs \cup {Nil},
                             keys : SUBSET Ids, key : Ids \cup {Nil}]]
        /\ cache \in [Ids -> Ptrs \cup {Nil}]
        /\ table \in [Ids -> Row] /\ grant \in [Ids -> Session]
        /\ heap \in [Ptrs -> Session]
        /\ Handlers \subseteq Procs /\ Cleaners \subseteq Procs
        /\ Handlers \cap Cleaners = {}
    BY ProcAssumption DEF TypeOK, Procs
  <1>1. ASSUME NEW h \in Handlers, NEW i \in Ids, NEW op \in {"api", "logout"},
               Request(h, op, i)
        PROVE CopiesMatchGrant'
    BY <1>0, <1>1 DEF Request, Found, NotFound
  <1>2. ASSUME NEW h \in Handlers, QueryHit(h) PROVE CopiesMatchGrant'
    <2> DEFINE i == th[h].id
    <2>1. PICK q \in Ptrs : /\ New(q, table[i].user, table[i].expiry)
                            /\ Goto(h, At("fill", th[h].op, i, q))
      BY <1>2 DEF QueryHit
    <2>2. /\ heap'[q] = [user |-> table[i].user, expiry |-> table[i].expiry]
          /\ \A p \in Procs : th[p].ref # Nil => heap'[th[p].ref] = heap[th[p].ref]
          /\ \A k \in Ids : cache[k] # Nil => heap'[cache[k]] = heap[cache[k]]
      BY <2>1, NewFrame
    <2>3. i \in Ids
      BY <1>2 DEF QueryHit, ThreadShape
    <2>4. table[i] # NoRow
      <3>1. Unix(now) >= 0 /\ Unix(now) \in Int
        BY UnixFacts, TimeAssumption DEF TypeOK
      <3> QED BY <3>1, <1>2 DEF QueryHit, RowLive, NoRow, Zero
    <2>5. i \in Issued /\ heap'[q].user = grant[i].user /\ heap'[q].expiry <= grant[i].expiry
      BY <1>0, <2>2, <2>3, <2>4
    <2>6. UNCHANGED <<cache, table, grant, delivered>>
      BY <1>2 DEF QueryHit
    <2>7. \A k \in Ids : cache'[k] # Nil => Copy(heap[cache[k]], k)'
      BY <2>2, <2>6
    <2>8. \A k \in Ids : table'[k] # NoRow => Copy(table[k], k)'
      BY <2>6
    <2>9. ASSUME NEW g \in Handlers, th'[g].ref # Nil, th'[g].id # Nil
          PROVE  Copy(heap[th[g].ref], th[g].id)'
      <3>1. CASE g = h
        BY <1>0, <2>1, <2>2, <2>5, <2>6, <3>1
      <3>2. CASE g # h
        BY <1>0, <2>1, <2>2, <2>6, <2>9, <3>2
      <3> QED BY <3>1, <3>2
    <2> QED BY <2>7, <2>8, <2>9
  <1>3. ASSUME NEW h \in Handlers, QueryMiss(h) PROVE CopiesMatchGrant'
    BY <1>0, <1>3 DEF QueryMiss, NotFound
  <1>4. ASSUME NEW h \in Handlers, Fill(h) PROVE CopiesMatchGrant'
    <2>1. th[h].id \in Ids /\ th[h].ref \in Ptrs
      BY <1>4 DEF Fill, ThreadShape, Holding
    <2>2. /\ cache'[th[h].id] = th[h].ref
          /\ \A k \in Ids \ {th[h].id} : cache'[k] \in {cache[k], Nil}
      BY <1>4, <2>1, CacheAddTyped DEF Fill
    <2> QED BY <1>0, <1>4, <2>1, <2>2 DEF Fill, Found
  <1>5. ASSUME NEW h \in Handlers, Check(h) PROVE CopiesMatchGrant'
    <2>1. PICK t \in {Idle, At("serve", "api", th[h].id, th[h].ref)} : Goto(h, t)
      BY <1>5 DEF Check
    <2> QED BY <1>0, <1>5, <2>1 DEF Check
  <1>6. ASSUME NEW h \in Handlers, Serve(h) PROVE CopiesMatchGrant'
    BY <1>0, <1>6 DEF Serve
  <1>7. ASSUME NEW h \in Handlers, NEW u \in Users, Register(h, u) PROVE CopiesMatchGrant'
    <2>1. PICK q \in Ptrs : New(q, u, now + Lifetime) /\ Goto(h, At("keys", "login", Nil, q))
      BY <1>7 DEF Register
    <2>2. /\ \A p \in Procs : th[p].ref # Nil => heap'[th[p].ref] = heap[th[p].ref]
          /\ \A k \in Ids : cache[k] # Nil => heap'[cache[k]] = heap[cache[k]]
      BY <2>1, NewFrame
    <2> QED BY <1>0, <1>7, <2>1, <2>2 DEF Register
  <1>8. ASSUME NEW h \in Handlers, NewID(h) PROVE CopiesMatchGrant'
    <2>1. PICK i \in Ids : /\ grant[i] = NoRow
                           /\ grant' = [grant EXCEPT ![i] = heap[th[h].ref]]
                           /\ th' = [th EXCEPT ![h] =
                                At(IF Persistent THEN "save" ELSE "store", "login", i, th[h].ref)]
      BY <1>0, <1>8 DEF NewID, Fresh
    <2>2. th[h].ref \in Ptrs /\ heap[th[h].ref].user \in Users
      BY <1>8 DEF NewID, ThreadShape
    <2>3. heap[th[h].ref] # NoRow
      BY <2>2 DEF NoRow
    <2>4. heap[th[h].ref].expiry \in Int
      BY <1>0, <2>2 DEF Session, Zero
    <2>5. /\ UNCHANGED <<heap, cache, table>>
          /\ cache[i] = Nil /\ table[i] = NoRow
          /\ \A g \in Handlers : th[g].ref # Nil => th[g].id # i
      BY <1>0, <1>8, <2>1 DEF NewID
    <2> QED BY <1>0, <2>1, <2>2, <2>3, <2>4, <2>5
  <1>9. ASSUME NEW h \in Handlers, NewIDFails(h) PROVE CopiesMatchGrant'
    BY <1>0, <1>9 DEF NewIDFails
  <1>10. ASSUME NEW h \in Handlers, Expire(h) PROVE CopiesMatchGrant'
    <2> DEFINE q == th[h].ref
    <2>1. q \in Ptrs /\ ExpireObject(q)
      BY <1>10 DEF Expire, ThreadShape, Holding
    <2>2. \A r \in Ptrs : heap'[r].user = heap[r].user
      BY <2>1, ExpireFrame
    <2>3. \A i \in Ids : grant[i].expiry >= Zero
      BY <1>0 DEF Session, Zero
    <2>4. /\ heap'[q] = [user |-> heap[q].user, expiry |-> Zero]
          /\ \A r \in Ptrs \ {q} : heap'[r] = heap[r]
      BY <2>1, ExpireFrame
    <2>5. \A r \in Ptrs, i \in Ids : Copy(heap[r], i) => Copy(heap[r], i)'
      BY <1>0, <1>10, <2>2, <2>3, <2>4 DEF Expire
    <2> QED BY <1>0, <1>10, <2>5, ModeAssumption DEF Expire
  <1>11. ASSUME NEW h \in Handlers, th[h].id \in Ids, th[h].ref \in Ptrs,
                table' \in {table, Upsert(th[h].ref, th[h].id)},
                UNCHANGED <<heap, grant>>
         PROVE (\A i \in Ids : table[i] # NoRow => Copy(table[i], i))'
    <2>1. Copy(heap[th[h].ref], th[h].id)
      BY <1>0, <1>11
    <2>2. /\ Unix(heap[th[h].ref].expiry) \in Int
          /\ Unix(heap[th[h].ref].expiry) <= heap[th[h].ref].expiry
      BY <1>0, <1>11, UnixFacts DEF Session, Zero
    <2> QED BY <1>0, <1>11, <2>1, <2>2 DEF Upsert, Session, Row, Zero
  <1>12. ASSUME NEW h \in Handlers, SaveOK(h) PROVE CopiesMatchGrant'
    <2>1. (\A i \in Ids : table[i] # NoRow => Copy(table[i], i))'
      BY <1>11, <1>12 DEF SaveOK, ThreadShape, Holding
    <2> QED BY <1>0, <1>12, <2>1 DEF SaveOK
  <1>13. ASSUME NEW h \in Handlers, SaveFails(h) PROVE CopiesMatchGrant'
    <2>1. (\A i \in Ids : table[i] # NoRow => Copy(table[i], i))'
      BY <1>11, <1>13 DEF SaveFails, ThreadShape, Holding
    <2> QED BY <1>0, <1>13, <2>1 DEF SaveFails, NotFound
  <1>14. ASSUME NEW h \in Handlers, Store(h) PROVE CopiesMatchGrant'
    <2>1. th[h].id \in Ids /\ th[h].ref \in Ptrs
      BY <1>14 DEF Store, ThreadShape, Holding
    <2>2. /\ cache'[th[h].id] = th[h].ref
          /\ \A k \in Ids \ {th[h].id} : cache'[k] \in {cache[k], Nil}
      BY <1>14, <2>1, CacheAddTyped DEF Store
    <2>3. PICK t \in {Idle, At("keys", "logout", Nil, Nil)} : Goto(h, t)
      BY <1>14 DEF Store
    <2>4. UNCHANGED <<heap, table, grant>>
      BY <1>14 DEF Store
    <2> QED BY <1>0, <1>14, <2>1, <2>2, <2>3, <2>4 DEF Store
  <1>15. ASSUME NEW p \in Procs, Keys(p) PROVE CopiesMatchGrant'
    BY <1>0, <1>15 DEF Keys
  <1>16. ASSUME NEW p \in Procs, Peek(p) PROVE CopiesMatchGrant'
    <2>1. PICK k \in th[p].keys :
            \/ Goto(p, Cleaning("remove", th[p], th[p].keys \ {k}, k))
            \/ Goto(p, Cleaning("sweep", th[p], th[p].keys \ {k}, Nil))
      BY <1>16 DEF Peek
    <2> QED BY <1>0, <1>16, <2>1 DEF Peek
  <1>17. ASSUME NEW p \in Procs, Remove(p) PROVE CopiesMatchGrant'
    BY <1>0, <1>17 DEF Remove
  <1>18. ASSUME NEW p \in Procs, Swept(p) PROVE CopiesMatchGrant'
    BY <1>0, <1>18 DEF Swept
  <1>19. ASSUME NEW c \in Cleaners, StartCleaner(c) PROVE CopiesMatchGrant'
    BY <1>0, <1>19 DEF StartCleaner
  <1>20. CASE CleanTable
    BY <1>0, <1>20 DEF CleanTable
  <1>21. CASE Restart
    BY <1>0, <1>21 DEF Restart
  <1>22. CASE Tick
    BY <1>22 DEF Tick
  <1>23. CASE UNCHANGED vars
    BY <1>23 DEF vars
  <1> QED
    BY <1>1, <1>2, <1>3, <1>4, <1>5, <1>6, <1>7, <1>8, <1>9, <1>10, <1>12, <1>13,
       <1>14, <1>15, <1>16, <1>17, <1>18, <1>19, <1>20, <1>21, <1>22, <1>23
    DEF Next, Handle, Sweep

\* There are no copies at first.
LEMMA InitCopies == Init => CopiesMatchGrant
  BY NilAssumption DEF Init, CopiesMatchGrant, Idle, At, Procs

\* The conjunction is inductive.
LEMMA TypedAndCopies == Spec => [](Typed /\ CopiesMatchGrant)
  <1>1. Init => Typed /\ CopiesMatchGrant
    BY InitTyped, InitCopies DEF Typed
  <1>2. Typed /\ CopiesMatchGrant /\ [Next]_vars => (Typed /\ CopiesMatchGrant)'
    BY StepTyped, StepShape, StepCopies DEF Typed
  <1> QED BY <1>1, <1>2, PTL DEF Spec

\* In the cache, in the table and in every request, a session is of the user its
\* id was issued to, and expires no later than it was issued to.
THEOREM CopiesCorrect == Spec => []CopiesMatchGrant
  BY TypedAndCopies, PTL

\* A request is let in by the check alone, and only while the object it holds
\* has not expired.
LEMMA OnlyCheckAccepts ==
    ASSUME Typed, Next, NEW h \in Handlers, Accepts(h)
    PROVE  th[h].pc = "check" /\ ~IsExpired(th[h].ref)
  <1> USE DEF Accepts, Goto, At, Idle, Cleaning
  <1>0. /\ th \in [Procs -> [pc : PCs, op : {"none", "api", "login", "logout", "clean"},
                             id : Ids \cup {Nil}, ref : Ptrs \cup {Nil},
                             keys : SUBSET Ids, key : Ids \cup {Nil}]]
        /\ h \in Procs
    BY DEF Typed, TypeOK, Procs
  <1>1. ASSUME NEW g \in Handlers, Handle(g) PROVE Check(h)
    <2>1. ASSUME NEW i \in Ids, NEW op \in {"api", "logout"}, Request(g, op, i) PROVE FALSE
      BY <1>0, <2>1 DEF Request, Found, NotFound
    <2>2. ASSUME NEW u \in Users, Register(g, u) PROVE FALSE
      BY <1>0, <2>2 DEF Register
    <2>3. QueryHit(g) \/ QueryMiss(g) \/ Fill(g) \/ Serve(g) => FALSE
      BY <1>0 DEF QueryHit, QueryMiss, Fill, Serve, Found, NotFound
    <2>4. NewID(g) \/ NewIDFails(g) \/ Expire(g) \/ SaveOK(g) \/ SaveFails(g) \/ Store(g)
            => FALSE
      BY <1>0 DEF NewID, NewIDFails, Expire, SaveOK, SaveFails, Store, NotFound
    <2>5. Check(g) => g = h
      BY <1>0 DEF Check
    <2> QED BY <1>1, <2>1, <2>2, <2>3, <2>4, <2>5 DEF Handle
  <1>2. ASSUME NEW p \in Procs, Sweep(p) PROVE FALSE
    BY <1>0, <1>2 DEF Sweep, Keys, Peek, Remove, Swept
  <1>3. ASSUME NEW c \in Cleaners, StartCleaner(c) PROVE FALSE
    BY <1>0, <1>3 DEF StartCleaner
  <1>4. CleanTable \/ Restart \/ Tick => FALSE
    BY <1>0 DEF CleanTable, Restart, Tick
  <1>5. Check(h)
    BY <1>1, <1>2, <1>3, <1>4 DEF Next
  <1> QED BY <1>0, <1>5 DEF Check

\* FromRequest lets no request in under another user's id, under an id that was
\* never issued, or after the expiry the id was issued with.
THEOREM AcceptCorrect == Spec => AcceptWithinGrant
  <1> DEFINE A == \A h \in Handlers : Accepts(h) =>
                    LET i == th[h].id IN
                    /\ i \in Issued
                    /\ heap[th[h].ref].user = grant[i].user
                    /\ now <= grant[i].expiry
  <1>1. Typed /\ CopiesMatchGrant /\ [Next]_vars => [A]_vars
    <2> SUFFICES ASSUME Typed, CopiesMatchGrant, Next, NEW h \in Handlers, Accepts(h)
                 PROVE  LET i == th[h].id IN
                        /\ i \in Issued
                        /\ heap[th[h].ref].user = grant[i].user
                        /\ now <= grant[i].expiry
      OBVIOUS
    <2>1. th[h].pc = "check" /\ ~IsExpired(th[h].ref)
      BY OnlyCheckAccepts
    <2>2. /\ th[h].id \in Ids /\ th[h].ref \in Ptrs
          /\ Copy(heap[th[h].ref], th[h].id)
      BY <2>1, NilAssumption DEF Typed, ThreadShape, Holding, CopiesMatchGrant
    <2>3. /\ now \in Int /\ heap[th[h].ref].expiry \in Int
          /\ grant[th[h].id].expiry \in Int
      BY <2>2, TimeAssumption DEF Typed, TypeOK, Session, Zero
    <2> QED BY <2>1, <2>2, <2>3 DEF IsExpired, Copy
  <1> QED BY <1>1, TypedAndCopies, PTL DEF Spec, AcceptWithinGrant
=============================================================================
