------------------------ MODULE SessionsLogoutProofs ------------------------
(***************************************************************************)
(* What ends a session, and that it stays ended: theorems about Sessions,  *)
(* for every value of its constants.                                       *)
(***************************************************************************)
EXTENDS SessionsProofs

\* A session object is reached under one id, and that of a login by nobody else.
Owner ==
    /\ \A i, j \in Ids : cache[i] # Nil /\ cache[i] = cache[j] => i = j
    /\ \A h \in Handlers, i \in Ids :
            th[h].ref # Nil /\ cache[i] = th[h].ref => th[h].id = i /\ th[h].op # "login"
    /\ \A g, h \in Handlers : g # h /\ th[h].ref # Nil /\ th[g].ref = th[h].ref =>
            th[g].id = th[h].id /\ th[h].op # "login"

\* Where ids come from: a login holds an id that no client has, and its object
\* is as it was granted; a logout that saves holds an object that has expired.
Lineage ==
    /\ delivered \subseteq Issued /\ loggedOut \subseteq delivered /\ revoked \subseteq loggedOut
    /\ \A i \in Ids : cache[i] # Nil => i \in delivered
    /\ \A h \in Handlers : th[h].id # Nil =>
            IF th[h].op = "login"
            THEN /\ th[h].id \in Issued \ delivered
                 /\ heap[th[h].ref].expiry = grant[th[h].id].expiry
            ELSE th[h].id \in delivered
    /\ \A g, h \in Handlers :
            g # h /\ th[g].id = th[h].id /\ th[h].id # Nil => th[h].op # "login"
    /\ \A h \in Handlers : th[h].pc \in {"save", "store"} /\ th[h].op # "login" =>
            /\ th[h].op = "logout" /\ th[h].id \in loggedOut
            /\ heap[th[h].ref].expiry = Zero

\* In memory, an id has one object, which the logout expires for all who hold it,
\* and only an expired one is swept.
Gone(i) == i \in loggedOut \cup forgotten \/ now > grant[i].expiry
InMemory == ~Persistent =>
    /\ \A h \in Handlers :
        th[h].pc \notin {"query", "fill", "save"} /\ (th[h].id # Nil => th[h].ref # Nil)
    /\ \A g, h \in Handlers : th[h].id # Nil /\ th[g].id = th[h].id => th[g].ref = th[h].ref
    /\ \A h \in Handlers, i \in Ids : cache[i] # Nil /\ th[h].id = i => th[h].ref = cache[i]
    /\ \A i \in loggedOut :
        /\ cache[i] # Nil => heap[cache[i]].expiry = Zero
        /\ \A h \in Handlers : th[h].id = i => heap[th[h].ref].expiry = Zero
    /\ \A i \in delivered :
        Gone(i) \/ (cache[i] # Nil /\ heap[cache[i]].expiry = grant[i].expiry)
    /\ \A p \in Procs : th[p].pc = "remove" => th[p].key \in delivered /\ Gone(th[p].key)

\* In the database, a saved logout stands, and who may still cache the session
\* had read it before; a saved login stands until it is logged out or expires.
Granted(i) == Unix(now) < Unix(grant[i].expiry) => table[i].expiry >= Unix(grant[i].expiry)
InDatabase == Persistent =>
    /\ \A h \in Handlers : th[h].pc = "store" /\ th[h].op = "logout" => ~RowLive(th[h].id)
    /\ \A h \in Handlers : th[h].pc = "store" /\ th[h].op = "login" => Granted(th[h].id)
    /\ \A i \in delivered \ loggedOut : Granted(i)
    /\ \A i \in revoked \ raced :
        /\ cache[i] # Nil => IsExpired(cache[i])
        /\ \A h \in Handlers : th[h].pc = "fill" /\ th[h].id = i => IsExpired(th[h].ref)
    /\ RevocationDurable
LogoutInv == Owner /\ Lineage /\ InMemory /\ InDatabase

----------------------------------------------------------------------------
(* Facts about the helpers. *)

\* A later time is not an earlier second.
LEMMA RoundingIsMonotone ==
    ASSUME NEW n \in Nat \ {0}, NEW s \in Int, NEW t \in Int, s <= t
    PROVE  s - (s % n) <= t - (t % n)
  OBVIOUS

\* So the database keeps the order of times.
LEMMA UnixMonotone ==
    ASSUME NEW s \in Int, NEW t \in Int, s <= t
    PROVE  Unix(s) <= Unix(t)
  BY RoundingIsMonotone, TimeAssumption, Zenon DEF Unix

\* What the cache drops is forgotten, where there is nothing below it.
LEMMA CacheAddFrame ==
    ASSUME TypeOK, NEW i \in Ids, NEW q \in Ptrs, CacheAdd(i, q)
    PROVE  /\ cache' \in [Ids -> Ptrs \cup {Nil}]
           /\ cache'[i] = q
           /\ forgotten \subseteq forgotten'
           /\ \A k \in Ids \ {i} :
                cache'[k] = cache[k] \/ (cache'[k] = Nil /\ (Persistent \/ k \in forgotten'))
  BY DEF CacheAdd, TypeOK, Victims, CachedIds

\* What the steps of the proofs below need of the types.
Shaped ==
    /\ th \in [Procs -> [pc : PCs, op : {"none", "api", "login", "logout", "clean"},
                         id : Ids \cup {Nil}, ref : Ptrs \cup {Nil},
                         keys : SUBSET Ids, key : Ids \cup {Nil}]]
    /\ cache \in [Ids -> Ptrs \cup {Nil}]
    /\ delivered \subseteq Ids /\ loggedOut \subseteq Ids /\ revoked \subseteq Ids
    /\ Handlers \subseteq Procs /\ Cleaners \subseteq Procs
    /\ Handlers \cap Cleaners = {}

\* It follows from the type invariant.
LEMMA TypedGivesShaped == TypeOK => Shaped
  BY ProcAssumption DEF TypeOK, Procs, Shaped

\* Objects are shared only where a lookup found them: a new one is nobody's, and
\* the LRU files an object under the id its goroutine holds.
LEMMA StepOwner == Typed /\ Owner /\ [Next]_vars => Owner'
  <1> SUFFICES ASSUME TypeOK, ThreadShape, Owner, [Next]_vars PROVE Owner'
    BY DEF Typed
  <1> USE NilAssumption DEF Owner, Goto, At, Idle, Cleaning, hist, Shaped
  <1>0. Shaped
    BY TypedGivesShaped
  <1>1. ASSUME NEW h \in Handlers, NEW i \in Ids, NEW op \in {"api", "logout"},
               Request(h, op, i)
        PROVE Owner'
    BY <1>0, <1>1 DEF Request, Found, NotFound
  <1>2. ASSUME NEW h \in Handlers, QueryHit(h) PROVE Owner'
    <2>1. PICK q \in Ptrs \ Reachable : Goto(h, At("fill", th[h].op, th[h].id, q))
      BY <1>2 DEF QueryHit, New
    <2>2. (\A i \in Ids : cache[i] # q) /\ (\A p \in Procs : th[p].ref # q)
      BY <2>1 DEF Reachable
    <2>3. th[h].op # "login"
      BY <1>2 DEF QueryHit, ThreadShape
    <2> QED BY <1>0, <1>2, <2>1, <2>2, <2>3 DEF QueryHit
  <1>3. ASSUME NEW h \in Handlers, QueryMiss(h) PROVE Owner'
    BY <1>0, <1>3 DEF QueryMiss, NotFound
  <1>4. ASSUME NEW h \in Handlers, Fill(h) PROVE Owner'
    <2>1. th[h].id \in Ids /\ th[h].ref \in Ptrs /\ th[h].op # "login"
      BY <1>4 DEF Fill, ThreadShape, Holding
    <2>2. /\ cache'[th[h].id] = th[h].ref
          /\ \A k \in Ids \ {th[h].id} : cache'[k] \in {cache[k], Nil}
      BY <1>4, <2>1, CacheAddFrame DEF Fill
    <2> QED BY <1>0, <1>4, <2>1, <2>2 DEF Fill, Found
  <1>5. ASSUME NEW h \in Handlers, Check(h) PROVE Owner'
    <2>1. PICK t \in {Idle, At("serve", "api", th[h].id, th[h].ref)} : Goto(h, t)
      BY <1>5 DEF Check
    <2> QED BY <1>0, <1>5, <2>1 DEF Check
  <1>6. ASSUME NEW h \in Handlers, Serve(h) PROVE Owner'
    BY <1>0, <1>6 DEF Serve
  <1>7. ASSUME NEW h \in Handlers, NEW u \in Users, Register(h, u) PROVE Owner'
    <2>1. PICK q \in Ptrs \ Reachable : Goto(h, At("keys", "login", Nil, q))
      BY <1>7 DEF Register, New
    <2>2. (\A i \in Ids : cache[i] # q) /\ (\A p \in Procs : th[p].ref # q)
      BY <2>1 DEF Reachable
    <2> QED BY <1>0, <1>7, <2>1, <2>2 DEF Register
  <1>8. ASSUME NEW h \in Handlers, NewID(h) PROVE Owner'
    BY <1>0, <1>8 DEF NewID
  <1>9. ASSUME NEW h \in Handlers, NewIDFails(h) PROVE Owner'
    BY <1>0, <1>9 DEF NewIDFails
  <1>10. ASSUME NEW h \in Handlers, Expire(h) PROVE Owner'
    BY <1>0, <1>10 DEF Expire, ThreadShape
  <1>11. ASSUME NEW h \in Handlers, SaveOK(h) PROVE Owner'
    BY <1>0, <1>11 DEF SaveOK
  <1>12. ASSUME NEW h \in Handlers, SaveFails(h) PROVE Owner'
    BY <1>0, <1>12 DEF SaveFails, NotFound
  <1>13. ASSUME NEW h \in Handlers, Store(h) PROVE Owner'
    <2>1. th[h].id \in Ids /\ th[h].ref \in Ptrs
      BY <1>13 DEF Store, ThreadShape, Holding
    <2>2. /\ cache'[th[h].id] = th[h].ref
          /\ \A k \in Ids \ {th[h].id} : cache'[k] \in {cache[k], Nil}
      BY <1>13, <2>1, CacheAddFrame DEF Store
    <2>3. PICK t \in {Idle, At("keys", "logout", Nil, Nil)} : Goto(h, t)
      BY <1>13 DEF Store
    <2> QED BY <1>0, <2>1, <2>2, <2>3
  <1>14. ASSUME NEW p \in Procs, Keys(p) PROVE Owner'
    BY <1>0, <1>14 DEF Keys
  <1>15. ASSUME NEW p \in Procs, Peek(p) PROVE Owner'
    <2>1. PICK k \in th[p].keys :
            \/ Goto(p, Cleaning("remove", th[p], th[p].keys \ {k}, k))
            \/ Goto(p, Cleaning("sweep", th[p], th[p].keys \ {k}, Nil))
      BY <1>15 DEF Peek
    <2> QED BY <1>0, <1>15, <2>1 DEF Peek
  <1>16. ASSUME NEW p \in Procs, Remove(p) PROVE Owner'
    BY <1>0, <1>16 DEF Remove, ThreadShape
  <1>17. ASSUME NEW p \in Procs, Swept(p) PROVE Owner'
    BY <1>0, <1>17 DEF Swept
  <1>18. ASSUME NEW c \in Cleaners, StartCleaner(c) PROVE Owner'
    BY <1>0, <1>18 DEF StartCleaner
  <1>19. CASE CleanTable \/ Tick \/ UNCHANGED vars
    BY <1>19 DEF CleanTable, Tick, vars
  <1>20. CASE Restart
    BY <1>0, <1>20 DEF Restart
  <1> QED
    BY <1>1, <1>2, <1>3, <1>4, <1>5, <1>6, <1>7, <1>8, <1>9, <1>10, <1>11, <1>12, <1>13,
       <1>14, <1>15, <1>16, <1>17, <1>18, <1>19, <1>20
    DEF Next, Handle, Sweep

\* Ids are fresh, and only a logout that expired its object goes on to save.
LEMMA StepLineage ==
    Typed /\ CopiesMatchGrant /\ Owner /\ Lineage /\ [Next]_vars => Lineage'
  <1> SUFFICES ASSUME TypeOK, ThreadShape, CopiesMatchGrant, Owner, Lineage, [Next]_vars
               PROVE  Lineage'
    BY DEF Typed
  <1> USE NilAssumption DEF Lineage, Issued, Goto, At, Idle, Cleaning, hist, Shaped
  <1>0. /\ Shaped
        /\ heap \in [Ptrs -> Session] /\ grant \in [Ids -> Session]
        /\ delivered \subseteq Ids
    BY TypedGivesShaped DEF TypeOK
  <1>a. \A h \in Handlers :
          /\ th[h].pc \in {"query", "fill", "check", "serve", "expire"} =>
                th[h].id \in delivered /\ th[h].op # "login"
          /\ th[h].op = "login" => th[h].ref \in Ptrs
    BY <1>0 DEF ThreadShape, Holding
  <1>1. ASSUME NEW h \in Handlers, NEW i \in Ids, NEW op \in {"api", "logout"},
               Request(h, op, i)
        PROVE Lineage'
    BY <1>0, <1>1 DEF Request, Found, NotFound
  <1>2. ASSUME NEW h \in Handlers, QueryHit(h) PROVE Lineage'
    <2>1. PICK q \in Ptrs : /\ New(q, table[th[h].id].user, table[th[h].id].expiry)
                            /\ Goto(h, At("fill", th[h].op, th[h].id, q))
      BY <1>2 DEF QueryHit
    <2>2. \A p \in Procs : th[p].ref # Nil => heap'[th[p].ref] = heap[th[p].ref]
      BY <2>1, NewFrame
    <2>3. th[h].id \in delivered /\ th[h].op # "login"
      BY <1>a, <1>2 DEF QueryHit
    <2>4. \A g \in Handlers : th[g].pc \in {"save", "store"} => th[g].ref # Nil
      BY <1>0 DEF ThreadShape, Holding
    <2> QED BY <1>0, <1>a, <1>2, <2>1, <2>2, <2>3, <2>4 DEF QueryHit
  <1>3. ASSUME NEW h \in Handlers, QueryMiss(h) PROVE Lineage'
    BY <1>0, <1>3 DEF QueryMiss, NotFound
  <1>4. ASSUME NEW h \in Handlers, Fill(h) PROVE Lineage'
    <2>1. th[h].id \in Ids /\ th[h].ref \in Ptrs /\ th[h].op # "login" /\ th[h].id \in delivered
      BY <1>a, <1>4 DEF Fill, ThreadShape, Holding
    <2>2. /\ cache'[th[h].id] = th[h].ref
          /\ \A k \in Ids \ {th[h].id} : cache'[k] \in {cache[k], Nil}
      BY <1>4, <2>1, CacheAddFrame DEF Fill
    <2> QED BY <1>0, <1>4, <2>1, <2>2 DEF Fill, Found
  <1>5. ASSUME NEW h \in Handlers, Check(h) PROVE Lineage'
    <2>1. PICK t \in {Idle, At("serve", "api", th[h].id, th[h].ref)} : Goto(h, t)
      BY <1>5 DEF Check
    <2> QED BY <1>0, <1>a, <1>5, <2>1 DEF Check
  <1>6. ASSUME NEW h \in Handlers, Serve(h) PROVE Lineage'
    BY <1>0, <1>6 DEF Serve
  <1>7. ASSUME NEW h \in Handlers, NEW u \in Users, Register(h, u) PROVE Lineage'
    <2>1. PICK q \in Ptrs : New(q, u, now + Lifetime) /\ Goto(h, At("keys", "login", Nil, q))
      BY <1>7 DEF Register
    <2>2. \A p \in Procs : th[p].ref # Nil => heap'[th[p].ref] = heap[th[p].ref]
      BY <2>1, NewFrame
    <2>3. \A g \in Handlers : th[g].pc \in {"save", "store"} => th[g].ref # Nil
      BY <1>0 DEF ThreadShape, Holding
    <2> QED BY <1>0, <1>a, <1>7, <2>1, <2>2, <2>3 DEF Register
  <1>8. ASSUME NEW h \in Handlers, NewID(h) PROVE Lineage'
    <2>1. PICK i \in Ids : /\ grant[i] = NoRow
                           /\ grant' = [grant EXCEPT ![i] = heap[th[h].ref]]
                           /\ th' = [th EXCEPT ![h] =
                                At(IF Persistent THEN "save" ELSE "store", "login", i, th[h].ref)]
      BY <1>0, <1>8 DEF NewID, Fresh
    <2>2. th[h].ref \in Ptrs /\ heap[th[h].ref] # NoRow
      BY <1>8 DEF NewID, ThreadShape, NoRow
    <2>3. UNCHANGED <<heap, cache, delivered, loggedOut, revoked>> /\ i \notin delivered
      BY <1>8, <2>1 DEF NewID
    <2>4. \A g \in Handlers : th[g].id # i
      BY <1>0, <2>1, <2>3
    <2>5. \A k \in Ids \ {i} : grant'[k] = grant[k]
      BY <1>0, <2>1
    <2>6. grant'[i] = heap[th[h].ref]
      BY <1>0, <2>1
    <2>7. /\ delivered' \subseteq Issued' /\ loggedOut' \subseteq delivered' /\ revoked' \subseteq loggedOut'
          /\ \A k \in Ids : cache'[k] # Nil => k \in delivered'
      BY <1>0, <2>2, <2>3, <2>5, <2>6
    <2>8. ASSUME NEW g \in Handlers PROVE th'[g].id # Nil =>
            IF th'[g].op = "login"
            THEN /\ th'[g].id \in Issued' \ delivered'
                 /\ heap'[th'[g].ref].expiry = grant'[th'[g].id].expiry
            ELSE th'[g].id \in delivered'
      <3>1. CASE g = h
        BY <1>0, <2>1, <2>2, <2>3, <2>6, <3>1
      <3>2. CASE g # h
        BY <1>0, <2>1, <2>3, <2>4, <2>5, <3>2
      <3> QED BY <3>1, <3>2
    <2>9. \A g, k \in Handlers :
            g # k /\ th'[g].id = th'[k].id /\ th'[k].id # Nil => th'[k].op # "login"
      BY <1>0, <2>1, <2>4
    <2>10. \A g \in Handlers : th'[g].pc \in {"save", "store"} /\ th'[g].op # "login" =>
            /\ th'[g].op = "logout" /\ th'[g].id \in loggedOut'
            /\ heap'[th'[g].ref].expiry = Zero
      BY <1>0, <2>1, <2>3
    <2> QED BY <2>7, <2>8, <2>9, <2>10
  <1>9. ASSUME NEW h \in Handlers, NewIDFails(h) PROVE Lineage'
    BY <1>0, <1>9 DEF NewIDFails
  <1>10. ASSUME NEW h \in Handlers, Expire(h) PROVE Lineage'
    <2> DEFINE q == th[h].ref
    <2>1. /\ q \in Ptrs /\ ExpireObject(q)
          /\ th[h].id \in delivered /\ th[h].op # "login"
      BY <1>a, <1>10 DEF Expire, ThreadShape, Holding
    <2>2. /\ heap'[q] = [user |-> heap[q].user, expiry |-> Zero]
          /\ \A r \in Ptrs \ {q} : heap'[r] = heap[r]
      BY <2>1, ExpireFrame
    <2>3. \A g \in Handlers : th[g].op = "login" => heap'[th[g].ref] = heap[th[g].ref]
      BY <1>a, <2>1, <2>2 DEF Owner
    <2>4. \A g \in Handlers : th[g].pc \in {"save", "store"} /\ heap[th[g].ref].expiry = Zero =>
            heap'[th[g].ref].expiry = Zero
      BY <1>0, <2>2 DEF ThreadShape, Holding
    <2> QED BY <1>0, <1>10, <2>1, <2>2, <2>3, <2>4, ModeAssumption DEF Expire
  <1>11. ASSUME NEW h \in Handlers, SaveOK(h) PROVE Lineage'
    BY <1>0, <1>11 DEF SaveOK
  <1>12. ASSUME NEW h \in Handlers, SaveFails(h) PROVE Lineage'
    BY <1>0, <1>12 DEF SaveFails, NotFound
  <1>13. ASSUME NEW h \in Handlers, Store(h) PROVE Lineage'
    <2>1. th[h].id \in Ids /\ th[h].ref \in Ptrs
      BY <1>13 DEF Store, ThreadShape, Holding
    <2>2. /\ cache'[th[h].id] = th[h].ref
          /\ \A k \in Ids \ {th[h].id} : cache'[k] \in {cache[k], Nil}
          /\ UNCHANGED <<heap, grant, loggedOut>>
      BY <1>13, <2>1, CacheAddFrame DEF Store
    <2>3. CASE th[h].op = "login"
      <3>1. /\ Goto(h, Idle) /\ delivered' = delivered \cup {th[h].id} /\ UNCHANGED revoked
        BY <1>13, <2>3 DEF Store
      <3>2. \A g \in Handlers \ {h} : th[g].id # th[h].id
        BY <2>1, <2>3
      <3> QED BY <1>0, <2>1, <2>2, <2>3, <3>1, <3>2
    <2>4. CASE th[h].op # "login"
      <3>1. th[h].op = "logout" /\ th[h].id \in loggedOut
        BY <1>13, <2>4 DEF Store
      <3>2. /\ Goto(h, At("keys", "logout", Nil, Nil))
            /\ revoked' = revoked \cup {th[h].id} /\ UNCHANGED delivered
        BY <1>13, <3>1 DEF Store
      <3> QED BY <1>0, <2>1, <2>2, <3>1, <3>2
    <2> QED BY <2>3, <2>4
  <1>14. ASSUME NEW p \in Procs, Keys(p) PROVE Lineage'
    BY <1>0, <1>14 DEF Keys
  <1>15. ASSUME NEW p \in Procs, Peek(p) PROVE Lineage'
    <2>1. PICK k \in th[p].keys :
            \/ Goto(p, Cleaning("remove", th[p], th[p].keys \ {k}, k))
            \/ Goto(p, Cleaning("sweep", th[p], th[p].keys \ {k}, Nil))
      BY <1>15 DEF Peek
    <2> QED BY <1>0, <1>15, <2>1 DEF Peek
  <1>16. ASSUME NEW p \in Procs, Remove(p) PROVE Lineage'
    BY <1>0, <1>16 DEF Remove, ThreadShape
  <1>17. ASSUME NEW p \in Procs, Swept(p) PROVE Lineage'
    BY <1>0, <1>17 DEF Swept
  <1>18. ASSUME NEW c \in Cleaners, StartCleaner(c) PROVE Lineage'
    BY <1>0, <1>18 DEF StartCleaner
  <1>19. CASE CleanTable
    BY <1>19 DEF CleanTable
  <1>20. CASE Restart
    BY <1>0, <1>20 DEF Restart
  <1>21. CASE Tick
    BY <1>21 DEF Tick
  <1>22. CASE UNCHANGED vars
    BY <1>22 DEF vars
  <1> QED
    BY <1>1, <1>2, <1>3, <1>4, <1>5, <1>6, <1>7, <1>8, <1>9, <1>10, <1>11, <1>12, <1>13,
       <1>14, <1>15, <1>16, <1>17, <1>18, <1>19, <1>20, <1>21, <1>22
    DEF Next, Handle, Sweep

\* A goroutine that goes on, with the session it had or with none.
LEMMA MovesInMemory ==
    ASSUME Shaped, InMemory, ~Persistent, NEW p \in Procs, NEW t, Goto(p, t),
           UNCHANGED <<now, heap, cache, grant, delivered, loggedOut, forgotten>>,
           t.pc \notin {"query", "fill", "save"},
           t.id # Nil => t.id = th[p].id /\ t.ref = th[p].ref,
           t.pc = "remove" => t.key \in delivered /\ Gone(t.key)
    PROVE  InMemory'
  <1>1. th'[p] = t /\ \A g \in Procs \ {p} : th'[g] = th[g]
    BY DEF Goto, Shaped
  <1>2. \A g \in Handlers : th'[g].id # Nil => th'[g].id = th[g].id /\ th'[g].ref = th[g].ref
    BY <1>1 DEF Shaped
  <1>3. \A g \in Handlers : th'[g].pc \notin {"query", "fill", "save"}
    BY <1>1 DEF Shaped, InMemory
  <1>4. \A g \in Procs : th'[g].pc = "remove" => th'[g].key \in delivered /\ Gone(th'[g].key)
    BY <1>1 DEF InMemory
  <1>5. \A k : Gone(k)' <=> Gone(k)
    BY DEF Gone
  <1>6. ASSUME NEW g \in Handlers, NEW h \in Handlers, th'[h].id # Nil, th'[g].id = th'[h].id
        PROVE  th'[g].ref = th'[h].ref
    BY <1>2, <1>6 DEF InMemory
  <1>7. ASSUME NEW h \in Handlers, NEW i \in Ids, cache[i] # Nil, th'[h].id = i
        PROVE  th'[h].ref = cache[i]
    BY <1>2, <1>7, NilAssumption DEF InMemory
  <1>8. ASSUME NEW i \in loggedOut, NEW h \in Handlers, th'[h].id = i, i # Nil
        PROVE  heap[th'[h].ref].expiry = Zero
    BY <1>2, <1>8 DEF InMemory
  <1>9. ASSUME NEW h \in Handlers, th'[h].id # Nil PROVE th'[h].ref # Nil
    BY <1>2, <1>9 DEF InMemory
  <1>10. Nil \notin loggedOut
    BY NilAssumption DEF Shaped
  <1> QED BY <1>2, <1>3, <1>4, <1>5, <1>6, <1>7, <1>8, <1>9, <1>10 DEF InMemory

\* Without a database a logout reaches every holder, and nothing else ends a session.
LEMMA StepInMemory ==
    Typed /\ CopiesMatchGrant /\ Owner /\ Lineage /\ InMemory /\ [Next]_vars => InMemory'
  <1> SUFFICES ASSUME TypeOK, ThreadShape, CopiesMatchGrant, Owner, Lineage, InMemory,
                      [Next]_vars, ~Persistent
               PROVE  InMemory'
    BY DEF Typed, InMemory
  <1> USE NilAssumption DEF InMemory, Gone, Goto, At, Idle, Cleaning, hist, Shaped
  <1>0. /\ Shaped
        /\ heap \in [Ptrs -> Session] /\ grant \in [Ids -> Session]
        /\ delivered \subseteq Ids /\ now \in Int
    BY TypedGivesShaped, TimeAssumption DEF TypeOK
  <1>a. \A h \in Handlers :
          /\ th[h].id # Nil => th[h].id \in Ids /\ th[h].ref \in Ptrs
          /\ th[h].pc \in {"check", "serve", "expire"} =>
                th[h].id \in delivered /\ th[h].ref \in Ptrs /\ th[h].op # "login"
    <2> TAKE h \in Handlers
    <2>1. th[h].pc \in {"check", "serve", "expire"} =>
                th[h].id \in delivered /\ th[h].ref \in Ptrs /\ th[h].op # "login"
      BY <1>0 DEF ThreadShape, Holding, Lineage
    <2> QED BY <1>0, <2>1
  <1>b. loggedOut \subseteq delivered /\ delivered \subseteq Issued
    BY DEF Lineage
  <1>1. ASSUME NEW h \in Handlers, NEW i \in Ids, NEW op \in {"api", "logout"},
               Request(h, op, i)
        PROVE InMemory'
    BY <1>0, <1>a, <1>1 DEF Request, Found, NotFound
  <1>2. ASSUME NEW h \in Handlers, QueryHit(h) \/ QueryMiss(h) \/ Fill(h) PROVE FALSE
    BY <1>0, <1>2 DEF QueryHit, QueryMiss, Fill
  <1>5. ASSUME NEW h \in Handlers, Check(h) PROVE InMemory'
    <2>1. PICK t \in {Idle, At("serve", "api", th[h].id, th[h].ref)} : Goto(h, t)
      BY <1>5 DEF Check
    <2> QED BY <1>0, <1>5, <2>1, MovesInMemory DEF Check
  <1>6. ASSUME NEW h \in Handlers, Serve(h) PROVE InMemory'
    BY <1>0, <1>6, MovesInMemory DEF Serve
  <1>7. ASSUME NEW h \in Handlers, NEW u \in Users, Register(h, u) PROVE InMemory'
    <2>1. PICK q \in Ptrs : New(q, u, now + Lifetime) /\ Goto(h, At("keys", "login", Nil, q))
      BY <1>7 DEF Register
    <2>2. /\ \A p \in Procs : th[p].ref # Nil => heap'[th[p].ref] = heap[th[p].ref]
          /\ \A k \in Ids : cache[k] # Nil => heap'[cache[k]] = heap[cache[k]]
      BY <2>1, NewFrame
    <2> QED BY <1>0, <1>a, <1>7, <1>b, <2>1, <2>2 DEF Register
  <1>8. ASSUME NEW h \in Handlers, NewID(h) PROVE InMemory'
    <2>1. PICK i \in Ids : /\ grant[i] = NoRow
                           /\ grant' = [grant EXCEPT ![i] = heap[th[h].ref]]
                           /\ th' = [th EXCEPT ![h] = At("store", "login", i, th[h].ref)]
      BY <1>0, <1>8 DEF NewID, Fresh, Issued
    <2>2. /\ UNCHANGED <<now, heap, cache, delivered, loggedOut, forgotten>>
          /\ i \notin delivered /\ th[h].ref \in Ptrs
      BY <1>8, <1>b, <2>1 DEF NewID, Issued, ThreadShape
    <2>3. \A g \in Handlers : th[g].id # i
      BY <1>0, <2>1, <2>2 DEF Lineage, Issued
    <2>4. \A k \in delivered : grant'[k] = grant[k]
      BY <1>0, <2>1, <2>2
    <2>5. cache[i] = Nil /\ i \notin loggedOut
      BY <2>1, <2>2 DEF Lineage
    <2> QED BY <1>0, <1>a, <2>1, <2>2, <2>3, <2>4, <2>5
  <1>9. ASSUME NEW h \in Handlers, NewIDFails(h) PROVE InMemory'
    BY <1>0, <1>9, MovesInMemory DEF NewIDFails
  <1>10. ASSUME NEW h \in Handlers, Expire(h) PROVE InMemory'
    <2> DEFINE q == th[h].ref
    <2>1. /\ q \in Ptrs /\ ExpireObject(q)
          /\ th[h].id \in delivered /\ th[h].op # "login"
      BY <1>a, <1>10 DEF Expire
    <2>2. /\ heap'[q] = [user |-> heap[q].user, expiry |-> Zero]
          /\ \A r \in Ptrs \ {q} : heap'[r] = heap[r]
      BY <2>1, ExpireFrame
    <2>3. /\ Goto(h, At("store", "logout", th[h].id, q))
          /\ loggedOut' = loggedOut \cup {th[h].id}
          /\ UNCHANGED <<now, cache, grant, delivered, forgotten>>
      BY <1>10 DEF Expire
    <2>4. \A i \in Ids : cache[i] = q => i = th[h].id
      BY <2>1, <1>0 DEF Owner
    <2>5. \A r \in Ptrs : heap[r].expiry = Zero => heap'[r].expiry = Zero
      BY <2>2
    <2>6. /\ cache[th[h].id] # Nil => cache[th[h].id] = q
          /\ \A g \in Handlers : th[g].id = th[h].id => th[g].ref = q
      BY <1>0, <2>1
    <2>7. \A i \in loggedOut' :
            /\ cache'[i] # Nil => heap'[cache'[i]].expiry = Zero
            /\ \A g \in Handlers : th'[g].id = i => heap'[th'[g].ref].expiry = Zero
      BY <1>0, <1>a, <2>1, <2>2, <2>3, <2>5, <2>6
    <2> QED BY <1>0, <1>a, <2>1, <2>2, <2>3, <2>4, <2>6, <2>7
  <1>11. ASSUME NEW h \in Handlers, SaveOK(h) \/ SaveFails(h) PROVE FALSE
    BY <1>0, <1>11 DEF SaveOK, SaveFails
  <1>13. ASSUME NEW h \in Handlers, Store(h) PROVE InMemory'
    <2> DEFINE i == th[h].id
               q == th[h].ref
    <2>1. i \in Ids /\ q \in Ptrs
      BY <1>13 DEF Store, ThreadShape, Holding
    <2>2. /\ cache'[i] = q
          /\ forgotten \subseteq forgotten'
          /\ \A k \in Ids \ {i} : cache'[k] = cache[k] \/ (cache'[k] = Nil /\ k \in forgotten')
          /\ UNCHANGED <<now, heap, grant, loggedOut>>
      BY <1>13, <2>1, CacheAddFrame DEF Store
    <2>3. PICK t \in {Idle, At("keys", "logout", Nil, Nil)} : Goto(h, t)
      BY <1>13 DEF Store
    <2>4. \/ /\ delivered' = delivered \cup {i} /\ i \notin delivered
             /\ heap[q].expiry = grant[i].expiry
          \/ /\ delivered' = delivered /\ i \in loggedOut /\ heap[q].expiry = Zero
      BY <1>0, <1>13, <2>1 DEF Store, Lineage
    <2>5. \A g \in Handlers : th'[g].id # Nil => th'[g] = th[g]
      BY <1>0, <2>3
    <2>6. \A p \in Procs : th'[p].pc = "remove" => th'[p] = th[p]
      BY <1>0, <2>3
    <2>7. \A g \in Handlers : th[g].id = i => th[g].ref = q
      BY <1>0, <2>1
    <2>8. \A g \in Handlers :
            th'[g].pc \notin {"query", "fill", "save"} /\ (th'[g].id # Nil => th'[g].ref # Nil)
      BY <1>0, <2>3
    <2>9. \A k \in delivered' :
            \/ Gone(k)'
            \/ cache'[k] # Nil /\ heap'[cache'[k]].expiry = grant'[k].expiry
      BY <1>0, <2>1, <2>2, <2>4
    <2>10. \A k \in loggedOut' :
             /\ cache'[k] # Nil => heap'[cache'[k]].expiry = Zero
             /\ \A g \in Handlers : th'[g].id = k => heap'[th'[g].ref].expiry = Zero
      BY <1>0, <1>b, <2>1, <2>2, <2>4, <2>5
    <2>11. \A p \in Procs : th'[p].pc = "remove" => th'[p].key \in delivered' /\ Gone(th[p].key)'
      BY <2>2, <2>4, <2>6
    <2> HIDE DEF i, q
    <2>12. \A g, k \in Handlers :
             th'[k].id # Nil /\ th'[g].id = th'[k].id => th'[g].ref = th'[k].ref
      BY <2>5
    <2>13. \A g \in Handlers, k \in Ids :
             cache'[k] # Nil /\ th'[g].id = k => th'[g].ref = cache'[k]
      BY <1>0, <2>1, <2>2, <2>5, <2>7
    <2> QED BY <2>8, <2>9, <2>10, <2>11, <2>12, <2>13
  <1>14. ASSUME NEW p \in Procs, Keys(p) PROVE InMemory'
    BY <1>0, <1>14, MovesInMemory, <1>a DEF Keys
  <1>15. ASSUME NEW p \in Procs, Peek(p) PROVE InMemory'
    <2>1. PICK k \in th[p].keys :
            \/ SweepTakes(k) /\ Goto(p, Cleaning("remove", th[p], th[p].keys \ {k}, k))
            \/ Goto(p, Cleaning("sweep", th[p], th[p].keys \ {k}, Nil))
      BY <1>15 DEF Peek
    <2>2. k \in Ids /\ UNCHANGED <<now, heap, cache, grant, delivered, loggedOut, forgotten>>
      BY <1>0, <1>15, <2>1 DEF Peek
    <2>3. SweepTakes(k) => k \in delivered /\ Gone(k)
      BY <1>0, <2>2 DEF SweepTakes, IsExpired, Lineage
    <2> QED BY <1>0, <1>15, <2>1, <2>2, <2>3, MovesInMemory
  <1>16. ASSUME NEW p \in Procs, Remove(p) PROVE InMemory'
    BY <1>0, <1>16 DEF Remove, ThreadShape
  <1>17. ASSUME NEW p \in Procs, Swept(p) PROVE InMemory'
    BY <1>0, <1>17, MovesInMemory DEF Swept
  <1>18. ASSUME NEW c \in Cleaners, StartCleaner(c) PROVE InMemory'
    BY <1>0, <1>18 DEF StartCleaner
  <1>19. CASE CleanTable \/ UNCHANGED vars
    BY <1>19 DEF CleanTable, vars
  <1>20. CASE Restart
    <2>1. /\ forgotten' = forgotten \cup CachedIds
          /\ \A p \in Procs : th'[p] = Idle
          /\ \A i \in Ids : cache'[i] = Nil
          /\ UNCHANGED <<now, heap, grant, delivered, loggedOut>>
      BY <1>20 DEF Restart
    <2>2. \A i \in delivered : Gone(i)'
      BY <1>0, <2>1 DEF CachedIds
    <2> QED BY <1>0, <2>1, <2>2
  <1>21. CASE Tick
    <2>1. now' = now + 1 /\ UNCHANGED <<heap, cache, th, grant, delivered, loggedOut, forgotten>>
      BY <1>21 DEF Tick
    <2>2. \A k \in delivered : grant[k].expiry \in Int
      BY <1>0 DEF Session, Zero
    <2> QED BY <1>0, <2>1, <2>2
  <1> QED
    BY <1>1, <1>2, <1>5, <1>6, <1>7, <1>8, <1>9, <1>10, <1>11, <1>13,
       <1>14, <1>15, <1>16, <1>17, <1>18, <1>19, <1>20, <1>21
    DEF Next, Handle, Sweep

----------------------------------------------------------------------------
(* Over the database. *)

\* Nothing of this is about the steps of a goroutine between its saves and fills.
LEMMA MovesInDatabase ==
    ASSUME Shaped, InDatabase, Persistent, NEW p \in Procs, NEW t, Goto(p, t),
           UNCHANGED <<now, heap, cache, table, grant, delivered, loggedOut, revoked, raced>>,
           t.pc \notin {"fill", "store"}
    PROVE  InDatabase'
  <1> USE DEF Granted, RowLive, IsExpired
  <1>1. th'[p] = t /\ \A g \in Procs \ {p} : th'[g] = th[g]
    BY DEF Goto, Shaped
  <1>2. \A g \in Handlers : th'[g].pc \in {"fill", "store"} => th'[g] = th[g]
    BY <1>1 DEF Shaped
  <1>3. \A i \in Ids : /\ Granted(i)' <=> Granted(i)
               /\ RowLive(i)' <=> RowLive(i)
    OBVIOUS
  <1>4. RevocationDurable'
    BY <1>3 DEF InDatabase, RevocationDurable
  <1>5. \A h \in Handlers : th'[h].pc = "store" =>
            /\ th'[h].op = "logout" => ~RowLive(th[h].id)'
            /\ th'[h].op = "login" => Granted(th[h].id)'
    BY <1>2, <1>3 DEF InDatabase
  <1>6. \A i \in revoked \ raced :
            /\ cache'[i] # Nil => IsExpired(cache[i])'
            /\ \A h \in Handlers : th'[h].pc = "fill" /\ th'[h].id = i => IsExpired(th[h].ref)'
    BY <1>2, <1>3 DEF InDatabase
  <1> QED BY <1>3, <1>4, <1>5, <1>6 DEF InDatabase

\* Over the database a saved logout stands, and so does a saved login.
LEMMA StepInDatabase ==
    Typed /\ CopiesMatchGrant /\ Owner /\ Lineage /\ InDatabase /\ [Next]_vars => InDatabase'
  <1> SUFFICES ASSUME TypeOK, ThreadShape, CopiesMatchGrant, Owner, Lineage, InDatabase,
                      [Next]_vars, Persistent
               PROVE  InDatabase'
    BY DEF Typed, InDatabase
  <1> USE NilAssumption DEF Goto, At, Idle, Cleaning, hist, Shaped, Granted, RowLive, IsExpired
  <1>0. /\ Shaped
        /\ heap \in [Ptrs -> Session] /\ grant \in [Ids -> Session] /\ table \in [Ids -> Row]
        /\ now \in Int /\ now >= 0
    BY TypedGivesShaped, TimeAssumption DEF TypeOK
  <1>a. loggedOut \subseteq delivered /\ delivered \subseteq Issued /\ revoked \subseteq loggedOut
    BY DEF Lineage
  <1>b. Unix(now) \in Int /\ Unix(now) >= 0 /\ Unix(Zero) \in Int /\ Unix(Zero) < 0
    BY <1>0, UnixFacts DEF Zero
  <1>c. \A q \in Ptrs : heap[q].expiry \in Int /\ Unix(heap[q].expiry) \in Int
    BY <1>0, UnixFacts DEF Session, Zero
  <1>1. ASSUME NEW h \in Handlers, NEW i \in Ids, NEW op \in {"api", "logout"},
               Request(h, op, i)
        PROVE InDatabase'
    <2>1. PICK t \in {At("check", op, i, cache[i]), At("expire", op, i, cache[i]),
                      At("query", op, i, Nil)} : Goto(h, t)
      BY <1>1 DEF Request, Found
    <2>2. t.pc \notin {"fill", "store"}
      OBVIOUS
    <2> QED BY <1>0, <1>1, <2>1, <2>2, MovesInDatabase DEF Request
  <1>2. ASSUME NEW h \in Handlers, QueryHit(h) PROVE InDatabase'
    <2> DEFINE i == th[h].id
    <2>1. PICK q \in Ptrs : /\ New(q, table[i].user, table[i].expiry)
                            /\ Goto(h, At("fill", th[h].op, i, q))
      BY <1>2 DEF QueryHit
    <2>2. /\ \A p \in Procs : th[p].ref # Nil => heap'[th[p].ref] = heap[th[p].ref]
          /\ \A k \in Ids : cache[k] # Nil => heap'[cache[k]] = heap[cache[k]]
      BY <2>1, NewFrame
    <2>3. i \in Ids /\ RowLive(i)
      BY <1>2 DEF QueryHit, ThreadShape
    <2>4. i \notin revoked
      BY <2>3 DEF InDatabase, RevocationDurable
    <2>5. UNCHANGED <<now, cache, table, grant, delivered, loggedOut, revoked, raced>>
      BY <1>2 DEF QueryHit
    <2>6. \A k \in Ids : (Granted(k)' <=> Granted(k)) /\ (RowLive(k)' <=> RowLive(k))
      BY <2>5
    <2>7. th'[h].pc = "fill" /\ th'[h].id = i /\ \A g \in Handlers \ {h} : th'[g] = th[g]
      BY <1>0, <2>1
    <2>8. \A k \in revoked \ raced :
            /\ cache'[k] # Nil => IsExpired(cache[k])'
            /\ \A g \in Handlers : th'[g].pc = "fill" /\ th'[g].id = k => IsExpired(th[g].ref)'
      <3> SUFFICES ASSUME NEW k \in revoked \ raced
                   PROVE  /\ cache'[k] # Nil => IsExpired(cache[k])'
                          /\ \A g \in Handlers :
                                th'[g].pc = "fill" /\ th'[g].id = k => IsExpired(th[g].ref)'
        OBVIOUS
      <3>1. cache'[k] # Nil => IsExpired(cache[k])'
        BY <1>0, <2>2, <2>5 DEF InDatabase
      <3>2. ASSUME NEW g \in Handlers, th'[g].pc = "fill", th'[g].id = k
            PROVE  IsExpired(th[g].ref)'
        <4>1. g # h
          BY <2>4, <2>7, <3>2
        <4>2. th'[g] = th[g] /\ th[g].ref \in Ptrs
          BY <2>7, <3>2, <4>1 DEF ThreadShape, Holding
        <4> QED BY <1>0, <2>2, <2>5, <3>2, <4>2 DEF InDatabase
      <3> QED BY <3>1, <3>2
    <2>9. \A g \in Handlers : th'[g].pc = "store" => th'[g] = th[g]
      BY <2>7
    <2> HIDE DEF i
    <2> QED BY <2>5, <2>6, <2>8, <2>9 DEF InDatabase, RevocationDurable
  <1>3. ASSUME NEW h \in Handlers, QueryMiss(h) PROVE InDatabase'
    BY <1>0, <1>3, MovesInDatabase DEF QueryMiss, NotFound
  <1>4. ASSUME NEW h \in Handlers, Fill(h) PROVE InDatabase'
    <2> DEFINE i == th[h].id
               q == th[h].ref
    <2>1. i \in Ids /\ q \in Ptrs
      BY <1>4 DEF Fill, ThreadShape, Holding
    <2>2. /\ cache'[i] = q
          /\ \A k \in Ids \ {i} : cache'[k] = cache[k] \/ cache'[k] = Nil
          /\ UNCHANGED <<now, heap, table, grant, delivered, loggedOut, revoked, raced>>
      BY <1>4, <2>1, CacheAddFrame DEF Fill
    <2>3. \A g \in Handlers : th'[g].pc \in {"fill", "store"} => th'[g] = th[g]
      BY <1>0, <1>4 DEF Fill, Found
    <2>4. i \in revoked \ raced => IsExpired(q)
      BY <1>4 DEF InDatabase, Fill
    <2>5. \A k \in Ids : /\ (Granted(k)' <=> Granted(k)) /\ (RowLive(k)' <=> RowLive(k))
      BY <2>2
    <2> HIDE DEF i, q
    <2>6. \A k \in revoked \ raced :
            /\ cache'[k] # Nil => IsExpired(cache[k])'
            /\ \A g \in Handlers : th'[g].pc = "fill" /\ th'[g].id = k => IsExpired(th[g].ref)'
      BY <1>0, <2>1, <2>2, <2>3, <2>4, <2>5 DEF InDatabase
    <2>7. \A g \in Handlers : th'[g].pc = "store" => th'[g] = th[g]
      BY <2>3
    <2> QED BY <2>2, <2>5, <2>6, <2>7 DEF InDatabase, RevocationDurable
  <1>5. ASSUME NEW h \in Handlers, Check(h) PROVE InDatabase'
    <2>1. PICK t \in {Idle, At("serve", "api", th[h].id, th[h].ref)} : Goto(h, t)
      BY <1>5 DEF Check
    <2> QED BY <1>0, <1>5, <2>1, MovesInDatabase DEF Check
  <1>6. ASSUME NEW h \in Handlers, Serve(h) PROVE InDatabase'
    BY <1>0, <1>6, MovesInDatabase DEF Serve
  <1>7. ASSUME NEW h \in Handlers, NEW u \in Users, Register(h, u) PROVE InDatabase'
    <2>1. PICK q \in Ptrs : New(q, u, now + Lifetime) /\ Goto(h, At("keys", "login", Nil, q))
      BY <1>7 DEF Register
    <2>2. /\ \A p \in Procs : th[p].ref # Nil => heap'[th[p].ref] = heap[th[p].ref]
          /\ \A k \in Ids : cache[k] # Nil => heap'[cache[k]] = heap[cache[k]]
      BY <2>1, NewFrame
    <2>3. UNCHANGED <<now, cache, table, grant, delivered, loggedOut, revoked, raced>>
      BY <1>7 DEF Register
    <2>4. \A k \in Ids : (Granted(k)' <=> Granted(k)) /\ (RowLive(k)' <=> RowLive(k))
      BY <2>3
    <2>5. \A g \in Handlers : th'[g].pc \in {"fill", "store"} =>
            th'[g] = th[g] /\ th[g].ref \in Ptrs
      BY <1>0, <2>1 DEF ThreadShape, Holding
    <2>6. \A k \in revoked \ raced :
            /\ cache'[k] # Nil => IsExpired(cache[k])'
            /\ \A g \in Handlers : th'[g].pc = "fill" /\ th'[g].id = k => IsExpired(th[g].ref)'
      BY <1>0, <2>2, <2>3, <2>5 DEF InDatabase
    <2>7. \A g \in Handlers : th'[g].pc = "store" => th'[g] = th[g]
      BY <2>5
    <2> QED BY <2>3, <2>4, <2>6, <2>7 DEF InDatabase, RevocationDurable
  <1>8. ASSUME NEW h \in Handlers, NewID(h) PROVE InDatabase'
    <2>1. PICK i \in Ids : /\ grant[i] = NoRow
                           /\ grant' = [grant EXCEPT ![i] = heap[th[h].ref]]
                           /\ th' = [th EXCEPT ![h] = At("save", "login", i, th[h].ref)]
      BY <1>0, <1>8 DEF NewID, Fresh, Issued
    <2>2. /\ UNCHANGED <<now, heap, cache, table, delivered, loggedOut, revoked, raced>>
          /\ i \notin delivered
      BY <1>8, <1>a, <2>1 DEF NewID, Issued
    <2>3. \A g \in Handlers : th[g].id # i
      BY <1>0, <2>1, <2>2 DEF Lineage, Issued
    <2>4. \A g \in Handlers : th'[g].pc \in {"fill", "store"} => th'[g] = th[g]
      BY <1>0, <2>1
    <2>5. \A k \in Ids \ {i} : Granted(k)' <=> Granted(k)
      BY <1>0, <2>1, <2>2
    <2>6. \A k \in Ids : (RowLive(k)' <=> RowLive(k))
      BY <2>2
    <2>7. \A g \in Handlers : th'[g].pc = "store" =>
            /\ th'[g].op = "logout" => ~RowLive(th[g].id)'
            /\ th'[g].op = "login" => Granted(th[g].id)'
      BY <2>3, <2>4, <2>5, <2>6 DEF InDatabase, ThreadShape, Holding
    <2>8. \A k \in delivered' \ loggedOut' : Granted(k)'
      BY <1>0, <2>2, <2>5 DEF InDatabase
    <2>9. \A k \in revoked \ raced :
            /\ cache'[k] # Nil => IsExpired(cache[k])'
            /\ \A g \in Handlers : th'[g].pc = "fill" /\ th'[g].id = k => IsExpired(th[g].ref)'
      BY <2>2, <2>4, <2>6 DEF InDatabase
    <2>10. RevocationDurable'
      BY <2>2, <2>6 DEF InDatabase, RevocationDurable
    <2> QED BY <2>2, <2>7, <2>8, <2>9, <2>10 DEF InDatabase
  <1>9. ASSUME NEW h \in Handlers, NewIDFails(h) PROVE InDatabase'
    BY <1>0, <1>9, MovesInDatabase DEF NewIDFails
  <1>10. ASSUME NEW h \in Handlers, Expire(h) PROVE InDatabase'
    <2> DEFINE q == th[h].ref
    <2>1. /\ q \in Ptrs /\ ExpireObject(q)
      BY <1>10 DEF Expire, ThreadShape, Holding
    <2>2. /\ heap'[q] = [user |-> heap[q].user, expiry |-> Zero]
          /\ \A r \in Ptrs \ {q} : heap'[r] = heap[r]
      BY <2>1, ExpireFrame
    <2>3. /\ Goto(h, At("save", "logout", th[h].id, q))
          /\ loggedOut' = loggedOut \cup {th[h].id}
          /\ UNCHANGED <<now, cache, table, grant, delivered, revoked, raced>>
      BY <1>10 DEF Expire
    <2>4. \A r \in Ptrs : IsExpired(r) => IsExpired(r)'
      BY <1>0, <2>2, <2>3 DEF Zero
    <2>5. \A k \in Ids : (Granted(k)' <=> Granted(k)) /\ (RowLive(k)' <=> RowLive(k))
      BY <2>3
    <2>6. \A g \in Handlers : th'[g].pc \in {"fill", "store"} =>
            th'[g] = th[g] /\ th[g].ref \in Ptrs
      BY <1>0, <2>3 DEF ThreadShape, Holding
    <2> HIDE DEF q
    <2>7. \A k \in revoked \ raced :
            /\ cache'[k] # Nil => IsExpired(cache[k])'
            /\ \A g \in Handlers : th'[g].pc = "fill" /\ th'[g].id = k => IsExpired(th[g].ref)'
      BY <1>0, <2>3, <2>4, <2>6 DEF InDatabase
    <2>8. \A g \in Handlers : th'[g].pc = "store" => th'[g] = th[g]
      BY <2>6
    <2> QED BY <2>3, <2>5, <2>7, <2>8 DEF InDatabase, RevocationDurable
  <1>11. ASSUME NEW h \in Handlers, th[h].pc = "save", table' = Upsert(th[h].ref, th[h].id),
                UNCHANGED <<now, heap, cache, grant, delivered, loggedOut, revoked, raced>>,
                \A g \in Handlers : th'[g].pc \in {"fill", "store"} =>
                    th'[g] = IF g = h THEN At("store", th[h].op, th[h].id, th[h].ref) ELSE th[g]
         PROVE InDatabase'
    <2>1. PICK i \in Ids, q \in Ptrs : i = th[h].id /\ q = th[h].ref
      BY <1>11 DEF ThreadShape, Holding
    <2>2. table'[i].expiry = Unix(heap[q].expiry) /\ \A k \in Ids \ {i} : table'[k] = table[k]
      BY <1>0, <1>11, <2>1 DEF Upsert
    <2>3. \A k \in Ids \ {i} : (Granted(k)' <=> Granted(k)) /\ (RowLive(k)' <=> RowLive(k))
      BY <1>11, <2>2
    <2>4. \A r \in Ptrs : IsExpired(r)' <=> IsExpired(r)
      BY <1>11
    <2>5. \A k \in revoked \ raced :
            /\ cache'[k] # Nil => IsExpired(cache[k])'
            /\ \A g \in Handlers : th'[g].pc = "fill" /\ th'[g].id = k => IsExpired(th[g].ref)'
      BY <1>11, <2>4 DEF InDatabase
    <2>6. CASE th[h].op = "login"
      <3>1. /\ i \notin delivered /\ heap[q].expiry = grant[i].expiry
            /\ \A g \in Handlers \ {h} : th[g].id # i
        BY <2>1, <2>6 DEF Lineage
      <3>2. Granted(i)'
        <4>1. table'[i].expiry = Unix(grant'[i].expiry) /\ Unix(grant'[i].expiry) \in Int
          BY <1>c, <1>11, <2>1, <2>2, <3>1
        <4> QED BY <4>1
      <3>3. \A g \in Handlers : th'[g].pc = "store" =>
              /\ th'[g].op = "logout" => ~RowLive(th[g].id)'
              /\ th'[g].op = "login" => Granted(th[g].id)'
        <4> SUFFICES ASSUME NEW g \in Handlers, th'[g].pc = "store"
                     PROVE  /\ th'[g].op = "logout" => ~RowLive(th[g].id)'
                            /\ th'[g].op = "login" => Granted(th[g].id)'
          OBVIOUS
        <4>1. CASE g = h
          BY <1>11, <2>1, <2>6, <3>2, <4>1
        <4>2. CASE g # h
          <5>1. th'[g] = th[g] /\ th[g].id \in Ids \ {i}
            BY <1>11, <3>1, <4>2 DEF ThreadShape, Holding
          <5> QED BY <2>3, <5>1 DEF InDatabase
        <4> QED BY <4>1, <4>2
      <3>4. \A k \in delivered' \ loggedOut' : Granted(k)'
        BY <1>0, <1>11, <2>3, <3>1 DEF InDatabase
      <3>5. RevocationDurable'
        BY <1>0, <1>a, <1>11, <2>3, <3>1 DEF InDatabase, RevocationDurable
      <3> QED BY <1>11, <2>5, <3>3, <3>4, <3>5 DEF InDatabase
    <2>7. CASE th[h].op # "login"
      <3>1. heap[q].expiry = Zero /\ i \in loggedOut /\ th[h].op = "logout"
            /\ \A g \in Handlers \ {h} : th[g].id = i => th[g].op # "login"
        BY <1>11, <2>1, <2>7 DEF Lineage
      <3>2. ~RowLive(i)'
        <4>1. Unix(now') = Unix(now)
          BY <1>11
        <4>2. table'[i].expiry = Unix(Zero)
          BY <2>2, <3>1
        <4> QED BY <1>b, <4>1, <4>2
      <3>3. \A g \in Handlers : th'[g].pc = "store" =>
              /\ th'[g].op = "logout" => ~RowLive(th[g].id)'
              /\ th'[g].op = "login" => Granted(th[g].id)'
        <4> SUFFICES ASSUME NEW g \in Handlers, th'[g].pc = "store"
                     PROVE  /\ th'[g].op = "logout" => ~RowLive(th[g].id)'
                            /\ th'[g].op = "login" => Granted(th[g].id)'
          OBVIOUS
        <4>1. CASE g = h
          BY <1>11, <2>1, <3>1, <3>2, <4>1
        <4>2. CASE g # h
          <5>1. th'[g] = th[g] /\ th[g].id \in Ids
            BY <1>11, <4>2 DEF ThreadShape, Holding
          <5>2. CASE th[g].id = i
            BY <3>1, <3>2, <4>2, <5>1, <5>2
          <5>3. CASE th[g].id # i
            BY <2>3, <5>1, <5>3 DEF InDatabase
          <5> QED BY <5>2, <5>3
        <4> QED BY <4>1, <4>2
      <3>4. \A k \in delivered' \ loggedOut' : Granted(k)'
        BY <1>0, <1>11, <2>3, <3>1 DEF InDatabase
      <3>5. RevocationDurable'
        <4> SUFFICES ASSUME NEW k \in revoked PROVE ~RowLive(k)'
          BY <1>11 DEF RevocationDurable
        <4>1. CASE k = i
          BY <3>2, <4>1
        <4>2. CASE k # i
          BY <1>0, <2>3, <4>2 DEF InDatabase, RevocationDurable
        <4> QED BY <4>1, <4>2
      <3> QED BY <1>11, <2>5, <3>3, <3>4, <3>5 DEF InDatabase
    <2> QED BY <2>6, <2>7
  <1>12. ASSUME NEW h \in Handlers, SaveOK(h) PROVE InDatabase'
    BY <1>0, <1>11, <1>12 DEF SaveOK
  <1>13. ASSUME NEW h \in Handlers, SaveFails(h) PROVE InDatabase'
    <2>1. /\ \A g \in Handlers : th'[g].pc \in {"fill", "store"} => g # h /\ th'[g] = th[g]
      BY <1>0, <1>13 DEF SaveFails, NotFound
    <2>2. CASE table' = table
      BY <1>0, <1>13, <2>2, MovesInDatabase DEF SaveFails, NotFound
    <2>3. CASE table' = Upsert(th[h].ref, th[h].id)
      BY <1>11, <1>13, <2>1, <2>3 DEF SaveFails
    <2> QED BY <1>13, <2>2, <2>3 DEF SaveFails
  <1>14. ASSUME NEW h \in Handlers, Store(h) PROVE InDatabase'
    <2>1. PICK i \in Ids, q \in Ptrs :
            i = th[h].id /\ q = th[h].ref /\ th[h].op \in {"login", "logout"}
      BY <1>14 DEF Store, ThreadShape, Holding, Lineage
    <2>2. /\ cache'[i] = q
          /\ \A k \in Ids \ {i} : cache'[k] = cache[k] \/ cache'[k] = Nil
          /\ UNCHANGED <<now, heap, table, grant, loggedOut>>
      BY <1>14, <2>1, CacheAddFrame DEF Store
    <2>3. \A g \in Handlers : th'[g].pc \in {"fill", "store"} => g # h /\ th'[g] = th[g]
      <3>1. PICK t \in {Idle, At("keys", "logout", Nil, Nil)} : Goto(h, t)
        BY <1>14 DEF Store
      <3> QED BY <1>0, <3>1
    <2>4. \A k \in Ids : /\ (Granted(k)' <=> Granted(k)) /\ (RowLive(k)' <=> RowLive(k))
      BY <2>2
    <2>5. \A g \in Handlers : th'[g].pc = "store" =>
            /\ th'[g].op = "logout" => ~RowLive(th[g].id)'
            /\ th'[g].op = "login" => Granted(th[g].id)'
      BY <2>2, <2>3, <2>4 DEF InDatabase, ThreadShape, Holding
    <2>6. CASE th[h].op = "login"
      <3>1. /\ delivered' = delivered \cup {i} /\ UNCHANGED <<revoked, raced>>
            /\ i \notin revoked /\ Granted(i)
        BY <1>a, <1>14, <2>1, <2>6 DEF Store, Lineage, InDatabase
      <3>2. \A k \in revoked' \ raced' :
            /\ cache'[k] # Nil => IsExpired(cache[k])'
            /\ \A g \in Handlers : th'[g].pc = "fill" /\ th'[g].id = k => IsExpired(th[g].ref)'
        BY <1>0, <2>2, <2>3, <2>4, <3>1 DEF InDatabase
      <3>3. \A k \in delivered' \ loggedOut' : Granted(k)'
        BY <2>2, <2>4, <3>1 DEF InDatabase
      <3>4. RevocationDurable'
        BY <1>0, <2>2, <2>4, <3>1 DEF InDatabase, RevocationDurable
      <3> QED BY <2>5, <3>2, <3>3, <3>4 DEF InDatabase
    <2>7. CASE th[h].op = "logout"
      <3>1. /\ revoked' = revoked \cup {i} /\ UNCHANGED delivered
            /\ raced' = IF Filling(i) # {} THEN raced \cup {i} ELSE raced
        BY <1>14, <2>1, <2>7 DEF Store
      <3>2. ~RowLive(i) /\ IsExpired(q)
        <4>1. heap[q].expiry = Zero
          BY <1>14, <2>1, <2>7 DEF Store, Lineage
        <4> QED BY <1>0, <1>14, <2>1, <2>7, <4>1 DEF InDatabase, Store, Zero
      <3>3. \A k \in revoked' \ raced' :
            /\ cache'[k] # Nil => IsExpired(cache[k])'
            /\ \A g \in Handlers : th'[g].pc = "fill" /\ th'[g].id = k => IsExpired(th[g].ref)'
        <4> SUFFICES ASSUME NEW k \in revoked' \ raced'
                     PROVE  /\ cache'[k] # Nil => IsExpired(cache[k])'
                            /\ \A g \in Handlers :
                                  th'[g].pc = "fill" /\ th'[g].id = k => IsExpired(th[g].ref)'
          OBVIOUS
        <4>1. CASE k = i
          <5>1. Filling(i) = {}
            BY <3>1, <4>1
          <5> QED BY <2>2, <2>3, <2>4, <3>2, <4>1, <5>1 DEF Filling
        <4>2. CASE k # i
          <5>1. k \in revoked \ raced /\ k \in Ids
            BY <1>0, <3>1, <4>2
          <5> QED BY <2>2, <2>3, <2>4, <4>2, <5>1 DEF InDatabase
        <4> QED BY <4>1, <4>2
      <3>4. \A k \in delivered' \ loggedOut' : Granted(k)'
        BY <2>2, <2>4, <3>1 DEF InDatabase
      <3>5. RevocationDurable'
        BY <1>0, <2>2, <2>4, <3>1, <3>2 DEF InDatabase, RevocationDurable
      <3> QED BY <2>5, <3>3, <3>4, <3>5 DEF InDatabase
    <2> QED BY <2>1, <2>6, <2>7
  <1>15. ASSUME NEW p \in Procs, Keys(p) PROVE InDatabase'
    BY <1>0, <1>15, MovesInDatabase DEF Keys
  <1>16. ASSUME NEW p \in Procs, Peek(p) PROVE InDatabase'
    <2>1. PICK k \in th[p].keys :
            \/ Goto(p, Cleaning("remove", th[p], th[p].keys \ {k}, k))
            \/ Goto(p, Cleaning("sweep", th[p], th[p].keys \ {k}, Nil))
      BY <1>16 DEF Peek
    <2> QED BY <1>0, <1>16, <2>1, MovesInDatabase DEF Peek
  <1>17. ASSUME NEW p \in Procs, Remove(p) PROVE InDatabase'
    <2>1. /\ \A k \in Ids : cache'[k] = cache[k] \/ cache'[k] = Nil
          /\ UNCHANGED <<now, heap, table, grant, delivered, loggedOut, revoked, raced>>
          /\ \A g \in Handlers : th'[g].pc \in {"fill", "store"} => th'[g] = th[g]
      BY <1>0, <1>17 DEF Remove
    <2>2. \A k \in Ids : /\ (Granted(k)' <=> Granted(k)) /\ (RowLive(k)' <=> RowLive(k))
      BY <2>1
    <2>3. \A k \in revoked \ raced :
            /\ cache'[k] # Nil => IsExpired(cache[k])'
            /\ \A g \in Handlers : th'[g].pc = "fill" /\ th'[g].id = k => IsExpired(th[g].ref)'
      BY <1>0, <2>1, <2>2 DEF InDatabase
    <2> QED BY <2>1, <2>2, <2>3 DEF InDatabase, RevocationDurable
  <1>18. ASSUME NEW p \in Procs, Swept(p) PROVE InDatabase'
    BY <1>0, <1>18, MovesInDatabase DEF Swept
  <1>19. ASSUME NEW c \in Cleaners, StartCleaner(c) PROVE InDatabase'
    BY <1>0, <1>19, MovesInDatabase DEF StartCleaner
  <1>20. CASE CleanTable
    <2>1. PICK rows \in SUBSET {k \in Ids : RowDead(k)} :
            table' = [k \in Ids |-> IF k \in rows THEN NoRow ELSE table[k]]
      BY <1>20 DEF CleanTable
    <2>2. UNCHANGED <<now, heap, cache, th, grant, delivered, loggedOut, revoked, raced>>
      BY <1>20 DEF CleanTable
    <2>3. \A k \in Ids : table[k].expiry \in Int /\ Unix(grant[k].expiry) \in Int
      BY <1>0, UnixFacts DEF Row, Session, Zero
    <2>4. Unix(now') = Unix(now) /\ \A k \in Ids : Unix(grant'[k].expiry) = Unix(grant[k].expiry)
      BY <2>2
    <2>5. \A k \in Ids : (Granted(k) => Granted(k)') /\ (RowLive(k)' => RowLive(k))
      BY <1>b, <2>1, <2>3, <2>4 DEF RowDead, NoRow, Zero
    <2>6. \A r \in Ptrs : IsExpired(r)' <=> IsExpired(r)
      BY <2>2
    <2> QED BY <1>0, <2>2, <2>5, <2>6 DEF InDatabase, RevocationDurable, ThreadShape, Holding
  <1>21. CASE Restart
    <2>1. /\ \A p \in Procs : th'[p] = Idle
          /\ \A i \in Ids : cache'[i] = Nil
          /\ UNCHANGED <<now, heap, table, grant, delivered, loggedOut, revoked>>
      BY <1>21 DEF Restart
    <2>2. \A k \in Ids : (Granted(k)' <=> Granted(k)) /\ (RowLive(k)' <=> RowLive(k))
      BY <2>1
    <2>3. \A h \in Handlers : th'[h].pc = "idle"
      BY <1>0, <2>1
    <2> QED BY <1>0, <2>1, <2>2, <2>3 DEF InDatabase, RevocationDurable
  <1>22. CASE Tick
    <2>1. /\ now' = now + 1
          /\ UNCHANGED <<heap, cache, th, table, grant, delivered, loggedOut, revoked, raced>>
      BY <1>22 DEF Tick
    <2>2. Unix(now) <= Unix(now') /\ Unix(now') \in Int
      BY <1>0, <2>1, UnixMonotone, UnixFacts
    <2>3. \A k \in Ids : table[k].expiry \in Int /\ Unix(grant[k].expiry) \in Int
      BY <1>0, UnixFacts DEF Row, Session, Zero
    <2>4. \A k \in Ids : Unix(grant'[k].expiry) = Unix(grant[k].expiry)
      BY <2>1
    <2>5. \A k \in Ids : (Granted(k) => Granted(k)') /\ (RowLive(k)' => RowLive(k))
      BY <1>b, <2>1, <2>2, <2>3, <2>4
    <2>6. \A r \in Ptrs : IsExpired(r) => IsExpired(r)'
      BY <1>0, <1>c, <2>1
    <2> QED BY <1>0, <2>1, <2>5, <2>6 DEF InDatabase, RevocationDurable, ThreadShape, Holding
  <1>23. CASE UNCHANGED vars
    <2>1. UNCHANGED <<now, heap, cache, th, table, grant, delivered, loggedOut, revoked, raced>>
      BY <1>23 DEF vars
    <2>2. \A k \in Ids : /\ (Granted(k)' <=> Granted(k)) /\ (RowLive(k)' <=> RowLive(k))
      BY <2>1
    <2> QED BY <2>1, <2>2 DEF InDatabase, RevocationDurable
  <1> QED
    BY <1>1, <1>2, <1>3, <1>4, <1>5, <1>6, <1>7, <1>8, <1>9, <1>10, <1>12, <1>13,
       <1>14, <1>15, <1>16, <1>17, <1>18, <1>19, <1>20, <1>21, <1>22, <1>23
    DEF Next, Handle, Sweep

----------------------------------------------------------------------------
(* The theorems. *)

Invs == Typed /\ CopiesMatchGrant /\ LogoutInv

\* No session, no goroutine at work: all of it holds at the start.
LEMMA InitLogout == Init => LogoutInv
  BY NilAssumption, ProcAssumption
  DEF Init, LogoutInv, Owner, Lineage, InMemory, InDatabase, RevocationDurable, Idle, At, Procs

\* The inductive invariant of this module.
LEMMA InvsHold == Spec => []Invs
  <1>1. Init => Invs
    BY InitTyped, InitCopies, InitLogout DEF Typed, Invs
  <1>2. Invs /\ [Next]_vars => Invs'
    BY StepTyped, StepShape, StepCopies, StepOwner, StepLineage, StepInMemory, StepInDatabase
    DEF Typed, Invs, LogoutInv
  <1> QED BY <1>1, <1>2, PTL DEF Spec

\* Nothing but logout, eviction, restart or time ends a session: no sweep of the
\* cache and no clean of the table takes a live one, in either store.
THEOREM KeptCorrect == Spec => []KeptInStore
  <1>1. Invs => KeptInStore
    <2> SUFFICES ASSUME Invs, NEW i \in delivered \ (loggedOut \cup forgotten), Due(i)
                 PROVE  Live(i)
      BY DEF KeptInStore
    <2>1. /\ i \in Ids /\ now \in Int /\ Unix(now) \in Int
          /\ grant[i].expiry \in Int /\ Unix(grant[i].expiry) \in Int
          /\ table[i].expiry \in Int
      BY UnixFacts, TimeAssumption DEF Invs, Typed, TypeOK, Session, Row, Zero
    <2>2. CASE Persistent
      BY <2>1, <2>2 DEF Invs, LogoutInv, InDatabase, Granted, Due, Live, RowLive
    <2>3. CASE ~Persistent
      BY <2>1, <2>3 DEF Invs, LogoutInv, InMemory, Gone, Due, Live, IsExpired
    <2> QED BY <2>2, <2>3
  <1> QED BY <1>1, InvsHold, PTL

\* A logout that the database saved stays saved: no later save, fill, clean or
\* restart makes the row live again.
THEOREM RevocationCorrect == Spec => []RevocationDurable
  <1>1. Invs => RevocationDurable
    BY DEF Invs, LogoutInv, InDatabase, RevocationDurable
  <1> QED BY <1>1, InvsHold, PTL

\* Over the database, only a lookup that read the row before the logout saved it
\* can leave the session live in the cache.
THEOREM RacingFillCorrect == Spec => []OnlyRacingFillOutlivesLogout
  <1>1. Invs => OnlyRacingFillOutlivesLogout
    BY DEF Invs, LogoutInv, InDatabase, OnlyRacingFillOutlivesLogout
  <1> QED BY <1>1, InvsHold, PTL

\* In memory, logout is immediate: no request is let in with the id any more,
\* whatever it had looked up before.
THEOREM LogoutCorrect == Spec => LogoutImmediate
  <1> DEFINE A == ~Persistent => \A h \in Handlers : Accepts(h) => th[h].id \notin loggedOut
  <1>1. Invs /\ [Next]_vars => [A]_vars
    <2> SUFFICES ASSUME Invs, Next, ~Persistent, NEW h \in Handlers, Accepts(h),
                        th[h].id \in loggedOut
                 PROVE  FALSE
      OBVIOUS
    <2>1. ~IsExpired(th[h].ref)
      BY OnlyCheckAccepts DEF Invs
    <2>2. heap[th[h].ref].expiry = Zero
      BY DEF Invs, LogoutInv, InMemory
    <2>3. now \in Int /\ now >= 0
      BY TimeAssumption DEF Invs, Typed, TypeOK
    <2> QED BY <2>1, <2>2, <2>3 DEF IsExpired, Zero
  <1>2. Spec => [][A]_vars
    BY <1>1, InvsHold, PTL DEF Spec
  <1> QED BY <1>2 DEF LogoutImmediate

----------------------------------------------------------------------------
(* The stack implements SessionRegistry. *)

\* A login that has not saved its session finds no row under its id.
Unsaved ==
    \A h \in Handlers : th[h].pc = "save" /\ th[h].op = "login" => table[th[h].id] = NoRow

\* A fresh id has no row, and nobody else saves under it.
LEMMA StepUnsaved == Invs /\ Unsaved /\ [Next]_vars => Unsaved'
  <1> SUFFICES ASSUME TypeOK, ThreadShape, CopiesMatchGrant, Lineage, Unsaved, [Next]_vars
               PROVE  Unsaved'
    BY DEF Invs, Typed, LogoutInv
  <1> USE NilAssumption DEF Unsaved, Goto, At, Idle, Cleaning, hist
  <1>0. Shaped /\ table \in [Ids -> Row]
    BY TypedGivesShaped DEF TypeOK
  <1>1. ASSUME table' = table,
               \A g \in Handlers : th'[g].pc = "save" /\ th'[g].op = "login" => th'[g] = th[g]
        PROVE  Unsaved'
    BY <1>1
  <1>2. ASSUME NEW h \in Handlers, Handle(h) PROVE Unsaved'
    <2>1. ASSUME NEW i \in Ids, NEW op \in {"api", "logout"}, Request(h, op, i) PROVE Unsaved'
      BY <1>0, <2>1 DEF Request, Found, NotFound, Shaped
    <2>2. ASSUME NEW u \in Users, Register(h, u) PROVE Unsaved'
      BY <1>0, <2>2 DEF Register, Shaped
    <2>3. CASE QueryHit(h) \/ QueryMiss(h) \/ Fill(h) \/ Serve(h)
      BY <1>0, <2>3 DEF QueryHit, QueryMiss, Fill, Serve, Found, NotFound, Shaped
    <2>4. CASE Check(h)
      BY <1>0, <2>4 DEF Check, Shaped
    <2>5. CASE NewID(h)
      <3>1. PICK i \in Ids : grant[i] = NoRow /\ th' = [th EXCEPT ![h] =
                At(IF Persistent THEN "save" ELSE "store", "login", i, th[h].ref)]
        BY <2>5 DEF NewID, Fresh, Issued
      <3>2. table[i] = NoRow
        BY <3>1 DEF CopiesMatchGrant, Copy, Issued
      <3> QED BY <1>0, <2>5, <3>1, <3>2 DEF NewID, Shaped
    <2>6. CASE NewIDFails(h) \/ Expire(h)
      BY <1>0, <2>6 DEF NewIDFails, Expire, Shaped
    <2>7. CASE SaveOK(h) \/ SaveFails(h)
      <3>1. th[h].id \in Ids
        BY <2>7 DEF SaveOK, SaveFails, ThreadShape, Holding
      <3>2. \A k \in Ids \ {th[h].id} : table'[k] = table[k]
        BY <1>0, <2>7, <3>1 DEF SaveOK, SaveFails, Upsert
      <3>3. \A g \in Handlers : th'[g].pc = "save" /\ th'[g].op = "login" =>
              g # h /\ th'[g] = th[g]
        BY <1>0, <2>7 DEF SaveOK, SaveFails, NotFound, Shaped
      <3> QED BY <3>1, <3>2, <3>3 DEF ThreadShape, Holding, Lineage
    <2>8. CASE Store(h)
      <3>1. PICK t \in {Idle, At("keys", "logout", Nil, Nil)} : Goto(h, t)
        BY <2>8 DEF Store
      <3> QED BY <1>0, <2>8, <3>1 DEF Store, Shaped
    <2> QED BY <1>2, <2>1, <2>2, <2>3, <2>4, <2>5, <2>6, <2>7, <2>8 DEF Handle
  <1>3. ASSUME NEW p \in Procs, Sweep(p) PROVE Unsaved'
    <2>1. CASE Keys(p) \/ Remove(p) \/ Swept(p)
      BY <1>0, <2>1 DEF Keys, Remove, Swept, Shaped
    <2>2. CASE Peek(p)
      <3>1. PICK k \in th[p].keys :
              \/ Goto(p, Cleaning("remove", th[p], th[p].keys \ {k}, k))
              \/ Goto(p, Cleaning("sweep", th[p], th[p].keys \ {k}, Nil))
        BY <2>2 DEF Peek
      <3> QED BY <1>0, <2>2, <3>1 DEF Peek, Shaped
    <2> QED BY <1>3, <2>1, <2>2 DEF Sweep
  <1>4. ASSUME NEW c \in Cleaners, StartCleaner(c) PROVE Unsaved'
    BY <1>0, <1>4 DEF StartCleaner, Shaped
  <1>5. CASE CleanTable
    BY <1>0, <1>5 DEF CleanTable, ThreadShape, Holding
  <1>6. CASE Restart
    BY <1>0, <1>6 DEF Restart, Shaped
  <1>7. CASE Tick \/ UNCHANGED vars
    BY <1>7 DEF Tick, vars
  <1> QED BY <1>2, <1>3, <1>4, <1>5, <1>6, <1>7 DEF Next

\* What a step does to the ids, seen from outside: it revives none, and admits
\* at most the one that a login is about to store.
Outside ==
    /\ Issued \subseteq Issued'
    /\ \A h \in Handlers, i \in Ids : Pending(h, i)' => Pending(h, i) \/ i \notin Issued
    /\ \/ \A i \in Ids : Live(i)' => Live(i)
       \/ \E h \in Handlers : \A i \in Ids : Live(i)' => Live(i) \/ Pending(h, i)

\* A step of a goroutine that writes no session.
LEMMA MovesOutside ==
    ASSUME Shaped, NEW p \in Procs, NEW t, Goto(p, t),
           UNCHANGED <<now, heap, cache, table, grant>>,
           t.pc \notin {"save", "store"}
    PROVE  Outside
  <1>1. \A h \in Handlers : th'[h].pc \in {"save", "store"} => th'[h] = th[h]
    BY DEF Goto, Shaped
  <1>2. \A h \in Handlers, i \in Ids : Pending(h, i)' => Pending(h, i)
    BY <1>1 DEF Pending
  <1>3. \A i \in Ids : Live(i)' => Live(i)
    BY DEF Live, RowLive, IsExpired
  <1> QED BY <1>2, <1>3 DEF Outside, Issued

\* Every step looks like that from outside.
LEMMA StepOutside == Invs /\ [Next]_vars => Outside
  <1> SUFFICES ASSUME TypeOK, ThreadShape, CopiesMatchGrant, Lineage, InMemory, [Next]_vars
               PROVE  Outside
    BY DEF Invs, Typed, LogoutInv
  <1> USE NilAssumption DEF Goto, At, Idle, Cleaning, hist, Pending, Live, RowLive, IsExpired
  <1>0. /\ Shaped
        /\ heap \in [Ptrs -> Session] /\ grant \in [Ids -> Session] /\ table \in [Ids -> Row]
        /\ now \in Int /\ now >= 0
    BY TypedGivesShaped, TimeAssumption DEF TypeOK
  <1>a. Unix(now) \in Int /\ Unix(now) >= 0 /\ Unix(Zero) \in Int /\ Unix(Zero) < 0
    BY <1>0, UnixFacts DEF Zero
  <1>b. \A q \in Ptrs : heap[q].expiry \in Int
    BY <1>0 DEF Session, Zero
  <1>1. ASSUME NEW h \in Handlers, NEW i \in Ids, NEW op \in {"api", "logout"},
               Request(h, op, i)
        PROVE Outside
    <2>1. PICK t \in {At("check", op, i, cache[i]), At("expire", op, i, cache[i]),
                      At("query", op, i, Nil), Idle, At("keys", "logout", Nil, Nil)} : Goto(h, t)
      BY <1>1 DEF Request, Found, NotFound
    <2>2. t.pc \notin {"save", "store"}
      OBVIOUS
    <2> QED BY <1>0, <1>1, <2>1, <2>2, MovesOutside DEF Request, Shaped
  <1>2. ASSUME NEW h \in Handlers, NEW q \in Ptrs, NEW user, NEW expiry, New(q, user, expiry),
               UNCHANGED <<now, cache, table, grant>>, NEW t, Goto(h, t),
               t.pc \notin {"save", "store"}
        PROVE Outside
    <2>1. \A k \in Ids : cache[k] # Nil => heap'[cache[k]] = heap[cache[k]]
      BY <1>2, NewFrame
    <2>2. \A g \in Handlers : th'[g].pc \in {"save", "store"} => th'[g] = th[g]
      BY <1>0, <1>2 DEF Shaped
    <2>3. \A g \in Handlers, i \in Ids : Pending(g, i)' => Pending(g, i)
      BY <2>2
    <2>4. \A i \in Ids : Live(i)' => Live(i)
      BY <1>2, <2>1
    <2> QED BY <1>2, <2>3, <2>4 DEF Outside, Issued
  <1>3. ASSUME NEW h \in Handlers, QueryHit(h) PROVE Outside
    BY <1>2, <1>3 DEF QueryHit
  <1>4. ASSUME NEW h \in Handlers, NEW u \in Users, Register(h, u) PROVE Outside
    BY <1>2, <1>4 DEF Register
  <1>5. ASSUME NEW h \in Handlers, QueryMiss(h) \/ Serve(h) \/ NewIDFails(h) PROVE Outside
    BY <1>0, <1>5, MovesOutside DEF QueryMiss, Serve, NewIDFails, NotFound, Shaped
  <1>6. ASSUME NEW h \in Handlers, Check(h) PROVE Outside
    <2>1. PICK t \in {Idle, At("serve", "api", th[h].id, th[h].ref)} : Goto(h, t)
      BY <1>6 DEF Check
    <2> QED BY <1>0, <1>6, <2>1, MovesOutside DEF Check, Shaped
  <1>7. ASSUME NEW h \in Handlers, Fill(h) PROVE Outside
    <2>1. Persistent /\ UNCHANGED <<now, table, grant>>
      BY <1>7 DEF Fill, InMemory
    <2>2. \A g \in Handlers : th'[g].pc \in {"save", "store"} => th'[g] = th[g]
      BY <1>0, <1>7 DEF Fill, Found, Shaped
    <2> QED BY <2>1, <2>2 DEF Outside, Issued
  <1>8. ASSUME NEW h \in Handlers, NewID(h) PROVE Outside
    <2>1. PICK i \in Ids : /\ grant[i] = NoRow
                           /\ grant' = [grant EXCEPT ![i] = heap[th[h].ref]]
                           /\ th' = [th EXCEPT ![h] =
                                At(IF Persistent THEN "save" ELSE "store", "login", i, th[h].ref)]
      BY <1>0, <1>8 DEF NewID, Fresh, Issued
    <2>2. UNCHANGED <<now, heap, cache, table>>
      BY <1>8 DEF NewID
    <2>3. Issued \subseteq Issued'
      BY <1>0, <2>1 DEF Issued
    <2>4. \A g \in Handlers, k \in Ids : Pending(g, k)' => Pending(g, k) \/ k \notin Issued
      BY <1>0, <2>1 DEF Issued, Shaped
    <2> QED BY <2>2, <2>3, <2>4 DEF Outside
  <1>9. ASSUME NEW h \in Handlers, Expire(h) PROVE Outside
    <2>1. /\ th[h].ref \in Ptrs /\ ExpireObject(th[h].ref)
          /\ th[h].id \in Ids
      BY <1>9 DEF Expire, ThreadShape, Holding
    <2>2. \A r \in Ptrs : heap'[r] = heap[r] \/ heap'[r].expiry = Zero
      <3> DEFINE q == th[h].ref
      <3>1. /\ heap'[q] = [user |-> heap[q].user, expiry |-> Zero]
            /\ \A r \in Ptrs \ {q} : heap'[r] = heap[r]
        BY <2>1, ExpireFrame
      <3> HIDE DEF q
      <3> QED BY <3>1
    <2>3. UNCHANGED <<now, cache, table, grant>>
      BY <1>9 DEF Expire
    <2>4. \A g \in Handlers : th'[g].op = "login" => th'[g] = th[g]
      BY <1>0, <1>9 DEF Expire, Shaped
    <2>5. \A i \in Ids : Live(i)' => Live(i)
      BY <1>0, <2>2, <2>3 DEF Shaped, Zero
    <2>6. \A g \in Handlers, i \in Ids : Pending(g, i)' => Pending(g, i)
      BY <2>4
    <2> QED BY <2>3, <2>5, <2>6 DEF Outside, Issued
  <1>10. ASSUME NEW h \in Handlers, SaveOK(h) \/ SaveFails(h) PROVE Outside
    <2>1. /\ Persistent /\ th[h].pc = "save" /\ th[h].id \in Ids /\ th[h].ref \in Ptrs
          /\ UNCHANGED <<now, grant>>
      BY <1>10 DEF SaveOK, SaveFails, InMemory, ThreadShape, Holding
    <2>2. \A g \in Handlers : th'[g].pc = "save" => th'[g] = th[g]
      BY <1>0, <1>10 DEF SaveOK, SaveFails, NotFound, Shaped
    <2>3. \A k \in Ids : \/ table'[k] = table[k]
                         \/ k = th[h].id /\ table'[k].expiry = Unix(heap[th[h].ref].expiry)
      BY <1>0, <1>10, <2>1 DEF SaveOK, SaveFails, Upsert
    <2>4. \A k \in Ids : Live(k)' => Live(k) \/ Pending(h, k)
      <3>1. CASE th[h].op = "login"
        BY <2>1, <2>3, <3>1
      <3>2. CASE th[h].op # "login"
        <4>1. Unix(heap[th[h].ref].expiry) = Unix(Zero)
          BY <2>1, <3>2 DEF Lineage
        <4>2. Unix(now') = Unix(now)
          BY <2>1
        <4> QED BY <1>a, <2>1, <2>3, <4>1, <4>2
      <3> QED BY <3>1, <3>2
    <2>5. \A g \in Handlers, i \in Ids : Pending(g, i)' => Pending(g, i)
      BY <2>1, <2>2
    <2> QED BY <2>1, <2>4, <2>5 DEF Outside, Issued
  <1>11. ASSUME NEW h \in Handlers, Store(h) PROVE Outside
    <2>1. th[h].pc = "store" /\ th[h].id \in Ids /\ th[h].ref \in Ptrs
      BY <1>11 DEF Store, ThreadShape, Holding
    <2>2. /\ cache'[th[h].id] = th[h].ref
          /\ \A k \in Ids \ {th[h].id} : cache'[k] \in {cache[k], Nil}
          /\ UNCHANGED <<now, heap, table, grant>>
      BY <1>11, <2>1, CacheAddFrame DEF Store
    <2>3. PICK t \in {Idle, At("keys", "logout", Nil, Nil)} : Goto(h, t)
      BY <1>11 DEF Store
    <2>4. \A g \in Handlers : th'[g].pc \in {"save", "store"} => th'[g] = th[g]
      BY <1>0, <2>3 DEF Shaped
    <2>5. \A k \in Ids : Live(k)' => Live(k) \/ Pending(h, k)
      <3>1. CASE Persistent \/ th[h].op = "login"
        BY <2>1, <2>2, <3>1
      <3>2. CASE ~Persistent /\ th[h].op # "login"
        <4>1. now > heap[th[h].ref].expiry
          BY <1>0, <2>1, <3>2 DEF Lineage, Zero
        <4> QED BY <2>1, <2>2, <3>2, <4>1
      <3> QED BY <3>1, <3>2
    <2>6. \A g \in Handlers, i \in Ids : Pending(g, i)' => Pending(g, i)
      BY <2>4
    <2> QED BY <2>2, <2>5, <2>6 DEF Outside, Issued
  <1>12. ASSUME NEW p \in Procs, Keys(p) PROVE Outside
    BY <1>0, <1>12, MovesOutside DEF Keys
  <1>13. ASSUME NEW p \in Procs, Peek(p) PROVE Outside
    <2>1. PICK k \in th[p].keys :
            \/ Goto(p, Cleaning("remove", th[p], th[p].keys \ {k}, k))
            \/ Goto(p, Cleaning("sweep", th[p], th[p].keys \ {k}, Nil))
      BY <1>13 DEF Peek
    <2> QED BY <1>0, <1>13, <2>1, MovesOutside DEF Peek
  <1>14. ASSUME NEW p \in Procs, Remove(p) PROVE Outside
    <2>1. /\ \A k \in Ids : cache'[k] \in {cache[k], Nil}
          /\ UNCHANGED <<now, heap, table, grant>>
          /\ \A g \in Handlers : th'[g].pc \in {"save", "store"} => th'[g] = th[g]
      BY <1>0, <1>14 DEF Remove, Shaped
    <2>2. \A g \in Handlers, i \in Ids : Pending(g, i)' => Pending(g, i)
      BY <2>1
    <2> QED BY <2>1, <2>2 DEF Outside, Issued
  <1>15. ASSUME NEW p \in Procs, Swept(p) PROVE Outside
    BY <1>0, <1>15, MovesOutside DEF Swept
  <1>16. ASSUME NEW c \in Cleaners, StartCleaner(c) PROVE Outside
    BY <1>0, <1>16, MovesOutside DEF StartCleaner, Shaped
  <1>17. CASE CleanTable
    <2>1. /\ Persistent /\ UNCHANGED <<now, th, grant>>
          /\ \A k \in Ids : table'[k] \in {table[k], NoRow}
      BY <1>17 DEF CleanTable
    <2>2. \A k \in Ids : Live(k)' => Live(k)
      BY <1>a, <2>1 DEF NoRow, Zero
    <2> QED BY <2>1, <2>2 DEF Outside, Issued
  <1>18. CASE Restart
    <2>1. /\ \A p \in Procs : th'[p].pc = "idle"
          /\ \A i \in Ids : cache'[i] = Nil
          /\ UNCHANGED <<now, heap, table, grant>>
      BY <1>18 DEF Restart
    <2>2. \A g \in Handlers, i \in Ids : ~Pending(g, i)'
      BY <1>0, <2>1 DEF Shaped
    <2> QED BY <2>1, <2>2 DEF Outside, Issued
  <1>19. CASE Tick
    <2>1. now' = now + 1 /\ UNCHANGED <<heap, cache, th, table, grant>>
      BY <1>19 DEF Tick
    <2>2. Unix(now) <= Unix(now') /\ Unix(now') \in Int
      BY <1>0, <2>1, UnixMonotone, UnixFacts
    <2>3. \A k \in Ids : table[k].expiry \in Int
      BY <1>0 DEF Row
    <2>4. \A k \in Ids : Live(k)' => Live(k)
      BY <1>0, <1>a, <1>b, <2>1, <2>2, <2>3 DEF Shaped
    <2> QED BY <2>1, <2>4 DEF Outside, Issued
  <1>20. CASE UNCHANGED vars
    BY <1>20 DEF vars, Outside, Issued
  <1> QED
    BY <1>1, <1>3, <1>4, <1>5, <1>6, <1>7, <1>8, <1>9, <1>10, <1>11, <1>12, <1>13,
       <1>14, <1>15, <1>16, <1>17, <1>18, <1>19, <1>20
    DEF Next, Handle, Sweep

\* A live session is of an issued id, and not of one still to be stored.
LEMMA LiveIsStored ==
    ASSUME Invs, Unsaved, NEW i \in Ids, Live(i)
    PROVE  i \in Issued /\ \A h \in Handlers : ~Pending(h, i)
  <1>1. now \in Int /\ Unix(now) \in Int /\ Unix(now) >= 0
    BY UnixFacts, TimeAssumption DEF Invs, Typed, TypeOK
  <1>2. CASE Persistent
    <2>1. table[i] # NoRow
      BY <1>1, <1>2 DEF Live, RowLive, NoRow, Zero
    <2> QED BY <1>2, <2>1 DEF Invs, CopiesMatchGrant, Copy, Pending, Unsaved
  <1>3. CASE ~Persistent
    <2>1. cache[i] # Nil
      BY <1>3 DEF Live
    <2> QED BY <1>3, <2>1, NilAssumption DEF Invs, LogoutInv, Lineage, Pending
  <1> QED BY <1>2, <1>3

\* The cache over the table, and the cache alone, implement SessionRegistry: an
\* id is admitted once, and one that died is never let in again.
THEOREM RegistryCorrect == Spec => ImplementsRegistry
  <1>1. Init => Registry!Init
    <2>1. Unix(0) \in Int /\ Unix(0) >= 0
      BY UnixFacts
    <2> QED BY <2>1 DEF Init, Registry!Init, LiveIds, DeadIds, Issued, Live, RowLive, NoRow, Zero
  <1>2. Init => Unsaved
    BY ProcAssumption DEF Init, Unsaved, Idle, At, Procs
  <1>3. ASSUME Invs, Unsaved, [Next]_vars PROVE [Registry!Next]_(Registry!vars)
    <2> DEFINE dropped == DeadIds' \ DeadIds
    <2>1. Outside
      BY <1>3, StepOutside
    <2>2. \A i \in LiveIds : i \in Issued /\ \A h \in Handlers : ~Pending(h, i)
      BY <1>3, LiveIsStored DEF LiveIds
    <2>3. DeadIds \subseteq DeadIds' /\ LiveIds \ LiveIds' \subseteq DeadIds'
      BY <2>1, <2>2 DEF Outside, DeadIds, LiveIds, Issued
    <2>4. LiveIds \cap DeadIds = {} /\ LiveIds' \cap DeadIds' = {} /\ dropped \in SUBSET Ids
      BY DEF DeadIds, Issued
    <2>5. CASE LiveIds' \subseteq LiveIds
      <3>1. Registry!Drop(dropped)
        BY <2>3, <2>4, <2>5 DEF Registry!Drop
      <3> QED BY <2>4, <3>1 DEF Registry!Next
    <2>6. CASE ~(LiveIds' \subseteq LiveIds)
      <3>1. PICK i \in LiveIds' : i \notin LiveIds
        BY <2>6
      <3>2. PICK h \in Handlers : \A k \in Ids : Live(k)' => Live(k) \/ Pending(h, k)
        BY <2>1, <3>1 DEF Outside, LiveIds
      <3>3. i \in Ids /\ Pending(h, i) /\ LiveIds' \subseteq LiveIds \cup {i}
        BY <3>1, <3>2 DEF LiveIds, Pending
      <3>4. i \notin DeadIds
        BY <3>3 DEF DeadIds
      <3>5. Registry!Admit(i, dropped)
        BY <2>3, <2>4, <3>1, <3>3, <3>4 DEF Registry!Admit
      <3> QED BY <2>4, <3>3, <3>5 DEF Registry!Next
    <2> QED BY <2>5, <2>6
  <1>4. Spec => []Unsaved
    BY <1>2, StepUnsaved, InvsHold, PTL DEF Spec
  <1> QED BY <1>1, <1>3, <1>4, InvsHold, PTL DEF Spec, ImplementsRegistry, Registry!Spec
=============================================================================
