----------------------------- MODULE OAuthProofs -----------------------------
(***************************************************************************)
(* Theorems about OAuth, for every value of its constants: what a refresh  *)
(* may do to a session's token, and what saving one does to its expiry.    *)
(***************************************************************************)
EXTENDS OAuth, SessionsLogoutProofs

\* What a request's place in Sessions tells of its place behind FromRequest.
Places ==
    \A h \in Handlers :
        /\ th[h].pc = "serve" <=> src[h].at # "off"
        /\ src[h].at = "off" => src[h].token = 0
        /\ src[h].at \in {"refresh", "adopt", "exec"} => src[h].token # 0
        /\ th[h].op # "logout" /\ th[h].pc # "expire"
        /\ th[h].pc \in {"query", "fill", "check", "serve"} => th[h].op = "api"
        /\ th[h].pc \in {"save", "store"} => th[h].op = "login"
        /\ th[h].id # Nil => th[h].op \in {"api", "login"}
        /\ th[h].op = "login" /\ th[h].pc \in {"keys", "sweep", "remove"} => th[h].id = Nil
        /\ th[h].pc = "query" => th[h].ref = Nil

\* What is prepared for the table: only where there is one, and no later than
\* the session was issued for.
Statements ==
    /\ \A h \in Handlers : src[h].at = "exec" => src[h].expiry <= grant[th[h].id].expiry
    /\ ~Persistent =>
        /\ \A h \in Handlers : th[h].pc # "save" /\ src[h].at \notin {"exec", "end"}
        /\ \A i \in Ids : column[i] = 0

\* The types of what OAuth adds to Sessions.
OAuthTyped ==
    /\ extra \in [Ptrs -> 0..MaxTokens]
    /\ column \in [Ids -> 0..MaxTokens]
    /\ users \in SUBSET Users
    /\ src \in [Handlers -> [at : Stages, token : 0..MaxTokens, expiry : Nat \cup {Zero}]]
    /\ minted \in 0..MaxTokens
    /\ stale \in SUBSET Tokens /\ burnt \in SUBSET Tokens
    /\ lost \in SUBSET Ids /\ crossed \in SUBSET Ids
    /\ ended \in SUBSET Ids /\ holding \in SUBSET Ids

\* The store below, as the theorems about Sessions have it.
Below == Typed /\ CopiesMatchGrant /\ Owner /\ Lineage

\* Sessions are issued to users.
Grantees == \A i \in Issued : grant[i].user \in Users
Base == Below /\ OAuthTyped /\ Places /\ Statements /\ Grantees

----------------------------------------------------------------------------
(* The steps, as the store sees them. *)

\* A statement of the token source, or of the end of a session.
Writes(h) ==
    /\ th[h].pc = "serve"
    /\ \/ table' = table
       \/ table' = Saved(th[h].id, th[h].ref, Zero)
       \/ src[h].at = "exec" /\ table' = Saved(th[h].id, th[h].ref, src[h].expiry)
    /\ th' = th \/ Goto(h, Idle)
    /\ UNCHANGED <<now, heap, cache, cleanDue, hist>>
\* The session goes into the cache.
Caches(h) ==
    /\ th[h].pc = "serve"
    /\ CacheAdd(th[h].id, th[h].ref)
    /\ th' = th \/ Goto(h, Idle)
    /\ UNCHANGED <<now, heap, table, cleanDue, grant, delivered, loggedOut, revoked, raced>>
\* Its object is expired.
Expires(h) ==
    /\ th[h].pc = "serve"
    /\ ExpireObject(th[h].ref)
    /\ loggedOut' = loggedOut \cup {th[h].id}
    /\ UNCHANGED <<now, cache, table, th, cleanDue, grant, delivered, revoked, raced, forgotten>>

StoreStep == [Next]_vars \/ \E h \in Handlers : Writes(h) \/ Caches(h) \/ Expires(h)

\* A step of OAuth is one of Sessions, or a call of its stores.
LEMMA StepKinds == ASSUME Places, [OAuthNext]_avars PROVE StoreStep
  <1> USE DEF StoreStep
  <1>1. ASSUME NEW h \in Handlers, OAuthHandle(h) PROVE StoreStep
    <2> USE DEF UntouchedStore, hist
    <2>1. ASSUME NEW u \in Users, Exchange(h, u) PROVE StoreStep
      BY <2>1 DEF Exchange, Next, Handle
    <2>2. CASE LoginSave(h) \/ Present(h) \/ Load(h) \/ Admit(h)
      BY <2>2 DEF LoginSave, Present, Load, Admit, Next, Handle
    <2>3. CASE Plain(h)
      BY <2>3 DEF Plain, Next, Handle
    <2>4. CASE FindUser(h) \/ ReadExtra(h) \/ RefreshOK(h) \/ Adopt(h) \/ ProfileOK(h) \/ ProfileRefused(h)
      BY <2>4 DEF FindUser, ReadExtra, RefreshOK, Adopt, ProfileOK, ProfileRefused, vars
    <2>5. CASE RefreshFails(h) \/ Answer(h)
      <3>1. Serve(h)
        BY <2>5 DEF RefreshFails, Answer, Answered, Places, Serve
      <3> QED BY <3>1 DEF Next, Handle
    <2>6. CASE Exec(h) \/ ExecFails(h) \/ EndOK(h) \/ EndFails(h)
      <3>1. Writes(h)
        BY <2>6 DEF Exec, ExecFails, EndOK, EndFails, Answered, Places, Writes
      <3> QED BY <3>1
    <2>7. CASE Recache(h) \/ DropSession(h)
      <3>1. Caches(h)
        BY <2>7 DEF Recache, DropSession, Answered, Places, Caches
      <3> QED BY <3>1
    <2>8. CASE ExpireSession(h)
      <3>1. Expires(h)
        BY <2>8 DEF ExpireSession, Places, Expires
      <3> QED BY <3>1
    <2> QED BY <1>1, <2>1, <2>2, <2>3, <2>4, <2>5, <2>6, <2>7, <2>8 DEF OAuthHandle
  <1>2. CASE Background
    BY <1>2 DEF Background, Next
  <1>3. CASE Crash
    BY <1>3 DEF Crash, Next
  <1>4. CASE (\E t \in Tokens : Wither(t)) \/ (\E u \in Users : ForgetUser(u)) \/ UNCHANGED avars
    BY <1>4 DEF Wither, ForgetUser, avars
  <1> QED BY <1>1, <1>2, <1>3, <1>4 DEF OAuthNext

\* A request that is served holds a session a client was sent.
LEMMA Serving ==
    ASSUME Below, Places, NEW h \in Handlers, th[h].pc = "serve"
    PROVE  /\ h \in Procs /\ th[h].id \in Ids /\ th[h].ref \in Ptrs /\ th[h].op = "api"
           /\ th[h].id \in delivered
           /\ Copy(heap[th[h].ref], th[h].id)
  BY NilAssumption DEF Below, Typed, ThreadShape, Holding, Places, Lineage, CopiesMatchGrant, Procs

\* A row that is saved is of the session's user, and of no later expiry.
LEMMA SavedRow ==
    ASSUME Below, NEW i \in Ids, NEW q \in Ptrs, NEW e \in Nat \cup {Zero},
           Copy(heap[q], i), e <= grant[i].expiry
    PROVE  /\ Saved(i, q, e) \in [Ids -> Row]
           /\ Saved(i, q, e)[i].expiry = Unix(e)
           /\ Copy(Saved(i, q, e)[i], i)
           /\ \A k \in Ids \ {i} : Saved(i, q, e)[k] = table[k]
  <1> USE DEF Below, Typed, TypeOK
  <1>1. e \in Int /\ Unix(e) \in Int /\ Unix(e) <= e
    BY UnixFacts DEF Zero
  <1>2. grant[i].expiry \in Int
    BY DEF Session, Zero
  <1>3. table[i] # NoRow => table[i].user = grant[i].user
    BY DEF CopiesMatchGrant, Copy
  <1>4. /\ heap[q].user \in Users \cup {Nil} /\ heap[q].user = grant[i].user /\ i \in Issued
        /\ table[i].user \in Users \cup {Nil}
    BY DEF Copy, Session, Row
  <1>5. [user |-> IF table[i] # NoRow THEN table[i].user ELSE heap[q].user, expiry |-> Unix(e)] \in Row
    BY <1>1, <1>4 DEF Row
  <1> QED BY <1>1, <1>2, <1>3, <1>4, <1>5 DEF Saved, Copy

\* A goroutine that answers is idle, and the others are where they were.
LEMMA IdleOrSame ==
    ASSUME TypeOK, NEW h \in Procs, th' = th \/ Goto(h, Idle)
    PROVE  /\ \A g \in Procs : th'[g] = th[g] \/ th'[g] = Idle
           /\ th' \in [Procs -> [pc : PCs, op : {"none", "api", "login", "logout", "clean"},
                         id : Ids \cup {Nil}, ref : Ptrs \cup {Nil},
                         keys : SUBSET Ids, key : Ids \cup {Nil}]]
  <1>1. Idle \in [pc : PCs, op : {"none", "api", "login", "logout", "clean"},
                  id : Ids \cup {Nil}, ref : Ptrs \cup {Nil},
                  keys : SUBSET Ids, key : Ids \cup {Nil}]
    BY DEF Idle, At, PCs
  <1>2. \A g \in Procs : th'[g] = th[g] \/ th'[g] = Idle
    BY DEF TypeOK, Goto
  <1> QED BY <1>1, <1>2 DEF TypeOK, Goto

\* The store below is as Sessions left it, whichever kind of step is taken.
LEMMA StepBelow == ASSUME Base, StoreStep PROVE Below'
  <1> USE DEF Base
  <1>1. CASE [Next]_vars
    BY <1>1, StepTyped, StepShape, StepCopies, StepOwner, StepLineage DEF Below, Typed
  <1> USE NilAssumption
  <1>2. ASSUME NEW h \in Handlers, Writes(h) PROVE Below'
    <2> USE <1>2 DEF Writes, hist
    <2>1. /\ h \in Procs /\ th[h].id \in Ids /\ th[h].ref \in Ptrs /\ th[h].op = "api"
          /\ Copy(heap[th[h].ref], th[h].id)
      BY Serving
    <2>2. \A e \in {Zero, src[h].expiry} : e = Zero \/ src[h].at = "exec" =>
            e \in Nat \cup {Zero} /\ e <= grant[th[h].id].expiry
      BY <2>1 DEF OAuthTyped, Statements, Below, Typed, TypeOK, Session, Zero
    <2>3. /\ table' \in [Ids -> Row]
          /\ \A k \in Ids : table'[k] = table[k] \/ Copy(table'[k], k)
      <3>1. CASE table' = table
        BY <3>1 DEF Below, Typed, TypeOK
      <3>2. CASE table' # table
        <4>1. PICK e \in Nat \cup {Zero} :
                table' = Saved(th[h].id, th[h].ref, e) /\ e <= grant[th[h].id].expiry
          BY <2>2, <3>2
        <4> QED BY <2>1, <4>1, SavedRow
      <3> QED BY <3>1, <3>2
    <2>4. /\ \A g \in Procs : th'[g] = th[g] \/ th'[g] = Idle
          /\ th' \in [Procs -> [pc : PCs, op : {"none", "api", "login", "logout", "clean"},
                         id : Ids \cup {Nil}, ref : Ptrs \cup {Nil},
                         keys : SUBSET Ids, key : Ids \cup {Nil}]]
      BY <2>1, IdleOrSame DEF Below, Typed
    <2>5. TypeOK'
      BY <2>3, <2>4 DEF Below, Typed, TypeOK
    <2> USE DEF Idle, At
    <2>6. \A g \in Handlers : g \in Procs
      BY DEF Procs
    <2>7. ThreadShape'
      BY <2>4, <2>6 DEF Below, Typed, ThreadShape, Holding
    <2>8. CopiesMatchGrant'
      BY <2>3, <2>4, <2>6 DEF Below, CopiesMatchGrant, Copy, Issued
    <2>9. Owner'
      BY <2>4, <2>6 DEF Below, Owner
    <2>10. Lineage'
      BY <2>4, <2>6 DEF Below, Lineage, Issued
    <2> QED BY <2>5, <2>7, <2>8, <2>9, <2>10 DEF Below, Typed
  <1>3. ASSUME NEW h \in Handlers, Caches(h) PROVE Below'
    <2> USE <1>3 DEF Caches, hist
    <2>1. /\ h \in Procs /\ th[h].id \in Ids /\ th[h].ref \in Ptrs /\ th[h].op = "api"
          /\ th[h].id \in delivered /\ Copy(heap[th[h].ref], th[h].id)
      BY Serving
    <2>2. /\ cache' \in [Ids -> Ptrs \cup {Nil}]
          /\ cache'[th[h].id] = th[h].ref
          /\ \A k \in Ids \ {th[h].id} : cache'[k] \in {cache[k], Nil}
          /\ forgotten' \in SUBSET Ids
          /\ Cardinality({k \in Ids : cache'[k] # Nil}) <= CacheLen
      BY <2>1, CacheAddTyped DEF Below, Typed
    <2>4. /\ \A g \in Procs : th'[g] = th[g] \/ th'[g] = Idle
          /\ th' \in [Procs -> [pc : PCs, op : {"none", "api", "login", "logout", "clean"},
                         id : Ids \cup {Nil}, ref : Ptrs \cup {Nil},
                         keys : SUBSET Ids, key : Ids \cup {Nil}]]
      BY <2>1, IdleOrSame DEF Below, Typed
    <2>5. TypeOK'
      BY <2>2, <2>4 DEF Below, Typed, TypeOK
    <2> USE DEF Idle, At
    <2>6. \A g \in Handlers : g \in Procs
      BY DEF Procs
    <2>7. ThreadShape'
      BY <2>4, <2>6 DEF Below, Typed, ThreadShape, Holding
    <2>8. CopiesMatchGrant'
      BY <2>1, <2>2, <2>4, <2>6 DEF Below, CopiesMatchGrant, Copy, Issued
    <2>9. Owner'
      <3> USE DEF Below, Owner
      <3>1. (\A i, j \in Ids : cache[i] # Nil /\ cache[i] = cache[j] => i = j)'
        BY <2>1, <2>2
      <3>2. (\A g \in Handlers, i \in Ids :
                th[g].ref # Nil /\ cache[i] = th[g].ref => th[g].id = i /\ th[g].op # "login")'
        <4> SUFFICES ASSUME NEW g \in Handlers, NEW i \in Ids,
                            th'[g].ref # Nil, cache'[i] = th'[g].ref
                     PROVE  th'[g].id = i /\ th'[g].op # "login"
          OBVIOUS
        <4>1. th'[g] = th[g]
          BY <2>4, <2>6
        <4>2. CASE i = th[h].id
          BY <2>1, <2>2, <4>1, <4>2
        <4>3. CASE i # th[h].id
          BY <2>2, <4>1, <4>3
        <4> QED BY <4>2, <4>3
      <3>3. (\A f, g \in Handlers : f # g /\ th[g].ref # Nil /\ th[f].ref = th[g].ref =>
                th[f].id = th[g].id /\ th[g].op # "login")'
        BY <2>4, <2>6
      <3> QED BY <3>1, <3>2, <3>3
    <2>10. Lineage'
      BY <2>1, <2>2, <2>4, <2>6 DEF Below, Lineage, Issued
    <2> QED BY <2>5, <2>7, <2>8, <2>9, <2>10 DEF Below, Typed
  <1>4. ASSUME NEW h \in Handlers, Expires(h) PROVE Below'
    <2> USE <1>4 DEF Expires, hist
    <2> DEFINE q == th[h].ref
    <2>1. /\ h \in Procs /\ th[h].id \in Ids /\ q \in Ptrs /\ th[h].op = "api"
          /\ th[h].id \in delivered
      BY Serving
    <2>2. /\ heap'[q] = [user |-> heap[q].user, expiry |-> Zero]
          /\ \A r \in Ptrs \ {q} : heap'[r] = heap[r]
          /\ \A r \in Ptrs : heap'[r].user = heap[r].user
          /\ heap' \in [Ptrs -> Session]
      <3>1. heap' = [heap EXCEPT ![q] = [heap[q] EXCEPT !.expiry = Zero]]
        BY DEF ExpireObject
      <3>2. [heap[q] EXCEPT !.expiry = Zero] \in Session
        BY <2>1 DEF Below, Typed, TypeOK, Session, Zero
      <3>3. heap' \in [Ptrs -> Session]
        BY <3>1, <3>2 DEF Below, Typed, TypeOK
      <3> QED BY <2>1, <3>3, ExpireFrame DEF Below, Typed
    <2> HIDE DEF q
    <2>5. TypeOK'
      BY <2>1, <2>2 DEF Below, Typed, TypeOK
    <2>6. \A g \in Handlers : g \in Procs /\ (th[g].ref # Nil => th[g].ref \in Ptrs)
      BY DEF Procs, Below, Typed, TypeOK
    <2>7. ThreadShape'
      BY <2>2, <2>6 DEF Below, Typed, ThreadShape, Holding
    <2>8. CopiesMatchGrant'
      <3>1. \A r \in Ptrs, i \in Ids : Copy(heap[r], i) => Copy(heap'[r], i)
        BY <2>2 DEF Below, Typed, TypeOK, Copy, Session, Zero
      <3>2. \A i \in Ids : cache[i] # Nil => cache[i] \in Ptrs
        BY DEF Below, Typed, TypeOK
      <3>3. \A g \in Handlers : th[g].id # Nil => th[g].id \in Ids
        BY <2>6 DEF Below, Typed, TypeOK
      <3> QED BY <2>6, <3>1, <3>2, <3>3 DEF Below, CopiesMatchGrant, Copy, Issued
    <2>9. Owner'
      BY DEF Below, Owner
    <2>10. Lineage'
      <3>1. \A g \in Handlers : th[g].op = "login" /\ th[g].id # Nil =>
                heap'[th[g].ref] = heap[th[g].ref]
        BY <2>1, <2>2, <2>6 DEF Below, Typed, ThreadShape, Owner, q
      <3>2. \A g \in Handlers : th[g].pc \in {"save", "store"} /\ th[g].op # "login" => FALSE
        BY DEF Places
      <3> QED BY <2>1, <3>1, <3>2 DEF Below, Lineage, Issued
    <2> QED BY <2>5, <2>7, <2>8, <2>9, <2>10 DEF Below, Typed
  <1> QED BY <1>1, <1>2, <1>3, <1>4 DEF StoreStep

----------------------------------------------------------------------------
(* The types, and where a request is. *)

\* Every step keeps the types.
LEMMA StepOAuthTyped == ASSUME Base, [OAuthNext]_avars PROVE OAuthTyped'
  <1> USE MaxTokensAssumption DEF Base, OAuthTyped, Tokens, Stages, Stage, Source, Off, ohist
  <1>0. /\ heap \in [Ptrs -> Session] /\ now \in Nat
        /\ \A h \in Handlers : src[h].at # "off" => th[h].id \in Ids /\ th[h].ref \in Ptrs
    <2>1. \A h \in Handlers : th[h].pc = "serve" => th[h].id \in Ids /\ th[h].ref \in Ptrs
      BY Serving
    <2> QED BY <2>1, TimeAssumption DEF Below, Typed, TypeOK, Places
  <1>1. ASSUME NEW h \in Handlers, OAuthHandle(h) PROVE OAuthTyped'
    <2>1. ASSUME NEW u \in Users, Exchange(h, u) PROVE OAuthTyped'
      <3>1. minted + 1 \in 0..MaxTokens
        BY <2>1 DEF Exchange
      <3>2. extra' \in [Ptrs -> 0..MaxTokens]
        BY <2>1, <3>1 DEF Exchange
      <3>3. users' \in SUBSET Users /\ minted' = minted + 1 /\ UNCHANGED <<column, src, stale, burnt, ohist>>
        BY <2>1 DEF Exchange
      <3> QED BY <3>1, <3>2, <3>3
    <2>2. CASE LoginSave(h)
      <3>1. th[h].id \in Ids /\ th[h].ref \in Ptrs
        BY <2>2 DEF LoginSave, SaveOK, SaveFails, Below, Typed, ThreadShape, Holding
      <3>2. extra[th[h].ref] \in 0..MaxTokens
        BY <3>1
      <3>3. column' \in [Ids -> 0..MaxTokens]
        BY <2>2, <3>2 DEF LoginSave
      <3> QED BY <2>2, <3>3 DEF LoginSave
    <2>3. CASE Load(h)
      <3>1. th[h].id \in Ids
        BY <2>3 DEF Load, QueryHit, Below, Typed, ThreadShape
      <3>2. column[th[h].id] \in 0..MaxTokens
        BY <3>1
      <3>3. extra' \in [Ptrs -> 0..MaxTokens] /\ crossed' \in SUBSET Ids
        BY <2>3, <3>1, <3>2 DEF Load
      <3> QED BY <2>3, <3>3 DEF Load
    <2>4. CASE Admit(h)
      BY <2>4 DEF Admit, Zero
    <2>5. CASE Plain(h)
      BY <2>5 DEF Plain, ovars
    <2>21. CASE Present(h)
      BY <2>21 DEF Present
    <2>6. CASE FindUser(h)
      BY <2>6 DEF FindUser, Zero
    <2>7. CASE ReadExtra(h)
      <3>1. extra[th[h].ref] \in 0..MaxTokens /\ th[h].id \in Ids
        BY <1>0, <2>7 DEF ReadExtra
      <3> QED BY <2>7, <3>1 DEF ReadExtra, Zero
    <2>8. CASE RefreshOK(h)
      <3>1. burnt' \in SUBSET (1..MaxTokens)
        <4>1. src[h].token \in 1..MaxTokens
          <5>1. src[h].token \in 0..MaxTokens /\ src[h].token # 0
            BY <2>8 DEF RefreshOK, Places
          <5> QED BY <5>1
        <4> QED BY <2>8, <4>1 DEF RefreshOK
      <3>2. minted + 1 \in 0..MaxTokens
        BY <2>8 DEF RefreshOK
      <3>3. src' \in [Handlers -> [at : Stages, token : 0..MaxTokens, expiry : Nat \cup {Zero}]]
        BY <2>8, <3>2 DEF RefreshOK, Zero
      <3>4. minted' = minted + 1 /\ UNCHANGED <<extra, column, users, stale, ohist>>
        BY <2>8 DEF RefreshOK
      <3> QED BY <3>1, <3>2, <3>3, <3>4
    <2>9. CASE RefreshFails(h)
      <3>1. th[h].id \in Ids /\ burnt' \in SUBSET (1..MaxTokens)
        <4>1. src[h].token \in 1..MaxTokens /\ th[h].id \in Ids
          <5>1. src[h].token \in 0..MaxTokens /\ src[h].token # 0 /\ th[h].id \in Ids
            BY <1>0, <2>9 DEF RefreshFails, Places
          <5> QED BY <5>1
        <4> QED BY <2>9, <4>1 DEF RefreshFails
      <3> QED BY <2>9, <3>1 DEF RefreshFails, Answered, Zero
    <2>10. CASE Adopt(h)
      <3>1. /\ th[h].ref \in Ptrs /\ src[h].token \in 0..MaxTokens
            /\ heap[th[h].ref].expiry \in Nat \cup {Zero}
        BY <1>0, <2>10 DEF Adopt, Session
      <3> QED BY <2>10, <3>1 DEF Adopt
    <2>11. CASE Exec(h)
      <3>1. th[h].id \in Ids /\ src[h].token \in 0..MaxTokens
        BY <1>0, <2>11 DEF Exec
      <3>2. column' \in [Ids -> 0..MaxTokens]
        BY <2>11, <3>1 DEF Exec, ColumnSaved
      <3> QED BY <2>11, <3>1, <3>2 DEF Exec, Zero
    <2>12. CASE ExecFails(h)
      <3>1. th[h].id \in Ids /\ src[h].token \in 0..MaxTokens
        BY <1>0, <2>12 DEF ExecFails
      <3>2. column' \in [Ids -> 0..MaxTokens]
        BY <2>12, <3>1 DEF ExecFails, ColumnSaved
      <3> QED BY <2>12, <3>1, <3>2 DEF ExecFails, Answered, Zero
    <2>13. CASE Recache(h)
      BY <2>13 DEF Recache, Zero
    <2>14. CASE ProfileOK(h)
      <3>1. heap[th[h].ref].user \in Users
        <4>1. Copy(heap[th[h].ref], th[h].id)
          BY <1>0, <2>14, NilAssumption DEF ProfileOK, Below, CopiesMatchGrant
        <4> QED BY <4>1 DEF Copy, Grantees
      <3> QED BY <2>14, <3>1 DEF ProfileOK, Zero
    <2>15. CASE ProfileRefused(h)
      BY <2>15 DEF ProfileRefused, Zero
    <2>18. CASE ExpireSession(h)
      <3>1. PICK at \in Stages : src' = [src EXCEPT ![h] = [at |-> at, token |-> 0, expiry |-> Zero]]
        BY <2>18 DEF ExpireSession
      <3> QED BY <2>18, <3>1 DEF ExpireSession, Zero
    <2>16. CASE Answer(h)
      BY <2>16 DEF Answer, Answered, Zero
    <2>19. CASE DropSession(h)
      BY <2>19 DEF DropSession, Answered, Zero
    <2>17. CASE EndOK(h) \/ EndFails(h)
      <3>1. th[h].id \in Ids /\ extra[th[h].ref] \in 0..MaxTokens
        <4>1. th[h].id \in Ids /\ th[h].ref \in Ptrs
          BY <1>0, <2>17 DEF EndOK, EndFails
        <4> QED BY <4>1
      <3>2. column' \in [Ids -> 0..MaxTokens]
        BY <2>17, <3>1 DEF EndOK, EndFails, ColumnSaved
      <3>3. CASE EndOK(h)
        BY <3>1, <3>2, <3>3 DEF EndOK, Zero
      <3>4. CASE EndFails(h)
        BY <3>1, <3>2, <3>4 DEF EndFails, Answered, Zero
      <3> QED BY <2>17, <3>3, <3>4
    <2> QED
      BY <1>1, <2>1, <2>2, <2>3, <2>4, <2>5, <2>6, <2>7, <2>8, <2>9, <2>10, <2>11, <2>12,
         <2>13, <2>14, <2>15, <2>16, <2>17, <2>18, <2>19, <2>21 DEF OAuthHandle
  <1>2. CASE Background
    BY <1>2 DEF Background, ovars
  <1>3. CASE Crash
    BY <1>3 DEF Crash, Zero
  <1>4. CASE (\E t \in Tokens : Wither(t)) \/ (\E u \in Users : ForgetUser(u)) \/ UNCHANGED avars
    BY <1>4 DEF Wither, ForgetUser, avars, ovars
  <1> QED BY <1>1, <1>2, <1>3, <1>4 DEF OAuthNext

\* A step of one request leaves the places of the others alone.
LEMMA OneMoves ==
    ASSUME TypeOK, OAuthTyped, NEW p \in Procs, NEW t, NEW h \in Handlers, NEW s
    PROVE  /\ Goto(p, t) => th'[p] = t /\ \A g \in Procs \ {p} : th'[g] = th[g]
           /\ Stage(h, s) => src'[h] = s /\ \A g \in Handlers \ {h} : src'[g] = src[g]
  BY DEF TypeOK, OAuthTyped, Goto, Stage

\* A goroutine that cleans keeps what it holds; the cache only loses by it.
LEMMA SweepMoves ==
    ASSUME TypeOK, NEW p \in Procs, Sweep(p)
    PROVE  /\ th[p].pc \in {"keys", "sweep", "remove"}
           /\ \/ th'[p] = Idle
              \/ /\ th'[p].pc \in {"sweep", "remove"}
                 /\ th'[p].op = th[p].op /\ th'[p].id = th[p].id /\ th'[p].ref = th[p].ref
           /\ \A g \in Procs \ {p} : th'[g] = th[g]
           /\ \A i \in Ids : cache'[i] \in {cache[i], Nil}
           /\ UNCHANGED <<now, heap, table, cleanDue, hist>>
  <1> USE DEF TypeOK, Goto, Cleaning
  <1>1. CASE Keys(p)
    BY <1>1 DEF Keys
  <1>2. CASE Peek(p)
    BY <1>2 DEF Peek
  <1>3. CASE Remove(p)
    BY <1>3 DEF Remove
  <1>4. CASE Swept(p)
    BY <1>4 DEF Swept
  <1> QED BY <1>1, <1>2, <1>3, <1>4 DEF Sweep

\* A request is behind FromRequest from its admission to its answer.
LEMMA StepPlaces == ASSUME Base, [OAuthNext]_avars PROVE Places'
  <1> USE DEF Places
  <1>0. TypeOK /\ ThreadShape /\ OAuthTyped /\ Places /\ \A h \in Handlers : h \in Procs
    BY DEF Base, Below, Typed, Procs
  <1> USE <1>0, NilAssumption
  <1>1. ASSUME NEW h \in Handlers, OAuthHandle(h) PROVE Places'
    <2>0. /\ \A t : Goto(h, t) => th'[h] = t /\ \A g \in Handlers \ {h} : th'[g] = th[g]
          /\ \A s : Stage(h, s) => src'[h] = s /\ \A g \in Handlers \ {h} : src'[g] = src[g]
      BY OneMoves
    <2> USE DEF Idle, At, Source, Off, NotFound, Found, Answered
    <2>1. ASSUME NEW u \in Users, Exchange(h, u) PROVE Places'
      BY <2>0, <2>1 DEF Exchange, Register
    <2>2. CASE LoginSave(h)
      BY <2>0, <2>2 DEF LoginSave, SaveOK, SaveFails
    <2>3. CASE Load(h)
      BY <2>0, <2>3 DEF Load, QueryHit
    <2>4. CASE Admit(h)
      <3>1. CASE IsExpired(th[h].ref)
        BY <2>0, <2>4, <3>1 DEF Admit, Check
      <3>2. CASE ~IsExpired(th[h].ref)
        BY <2>0, <2>4, <3>2 DEF Admit, Check
      <3> QED BY <3>1, <3>2
    <2>5. CASE Plain(h)
      <3>1. src' = src
        BY <2>5 DEF Plain, ovars
      <3>3. CASE QueryMiss(h)
        BY <2>0, <3>1, <3>3 DEF QueryMiss
      <3>4. CASE Fill(h)
        BY <2>0, <3>1, <3>4 DEF Fill
      <3>5. CASE NewID(h)
        BY <2>0, <3>1, <3>5 DEF NewID
      <3>6. CASE NewIDFails(h)
        BY <2>0, <3>1, <3>6 DEF NewIDFails
      <3>7. CASE Store(h)
        BY <2>0, <3>1, <3>7 DEF Store
      <3> QED BY <2>5, <3>3, <3>4, <3>5, <3>6, <3>7 DEF Plain
    <2>21. CASE Present(h)
      BY <2>0, <2>21 DEF Present, Request
    <2>6. CASE FindUser(h)
      BY <2>0, <2>6 DEF FindUser
    <2>7. CASE ReadExtra(h)
      <3>1. extra[th[h].ref] \in stale => extra[th[h].ref] # 0
        BY DEF OAuthTyped, Tokens
      <3> QED BY <2>0, <2>7, <3>1 DEF ReadExtra
    <2>8. CASE RefreshOK(h)
      <3>1. minted + 1 # 0
        BY MaxTokensAssumption DEF OAuthTyped
      <3> QED BY <2>0, <2>8, <3>1 DEF RefreshOK
    <2>9. CASE RefreshFails(h)
      BY <2>0, <2>9 DEF RefreshFails
    <2>10. CASE Adopt(h)
      BY <2>0, <2>10 DEF Adopt
    <2>11. CASE Exec(h)
      BY <2>0, <2>11 DEF Exec
    <2>12. CASE ExecFails(h)
      BY <2>0, <2>12 DEF ExecFails
    <2>13. CASE Recache(h)
      BY <2>0, <2>13 DEF Recache
    <2>14. CASE ProfileOK(h)
      BY <2>0, <2>14 DEF ProfileOK
    <2>15. CASE ProfileRefused(h)
      BY <2>0, <2>15 DEF ProfileRefused
    <2>16. CASE Answer(h)
      BY <2>0, <2>16 DEF Answer
    <2>17. CASE ExpireSession(h)
      BY <2>0, <2>17 DEF ExpireSession
    <2>18. CASE EndOK(h)
      BY <2>0, <2>18 DEF EndOK
    <2>19. CASE EndFails(h)
      BY <2>0, <2>19 DEF EndFails
    <2>20. CASE DropSession(h)
      BY <2>0, <2>20 DEF DropSession
    <2> QED
      BY <1>1, <2>1, <2>2, <2>3, <2>4, <2>5, <2>6, <2>7, <2>8, <2>9, <2>10, <2>11, <2>12,
         <2>13, <2>14, <2>15, <2>16, <2>17, <2>18, <2>19, <2>20, <2>21 DEF OAuthHandle
  <1>2. CASE Background
    <2>1. src' = src
      BY <1>2 DEF Background, ovars
    <2>2. ASSUME NEW p \in Procs, Sweep(p) PROVE Places'
      BY <2>1, <2>2, SweepMoves DEF Idle, At
    <2>3. ASSUME NEW c \in Cleaners, StartCleaner(c) PROVE Places'
      <3>1. \A g \in Handlers : th'[g] = th[g]
        BY <2>3, ProcAssumption DEF StartCleaner, Goto, TypeOK
      <3> QED BY <2>1, <3>1
    <2> QED BY <1>2, <2>1, <2>2, <2>3 DEF Background, CleanTable, Tick
  <1>3. CASE Crash
    BY <1>3 DEF Crash, Restart, Idle, At, Off
  <1>4. CASE (\E t \in Tokens : Wither(t)) \/ (\E u \in Users : ForgetUser(u)) \/ UNCHANGED avars
    BY <1>4 DEF Wither, ForgetUser, avars, ovars, vars
  <1> QED BY <1>1, <1>2, <1>3, <1>4 DEF OAuthNext

\* A statement is prepared by Adopt alone, with what the object has.
Prepared ==
    \A g \in Handlers : src'[g].at = "exec" =>
        \/ src[g].at = "exec" /\ src'[g].expiry = src[g].expiry /\ th'[g].id = th[g].id
        \/ /\ th[g].pc = "serve" /\ th'[g].id = th[g].id
           /\ src'[g].expiry = heap[th[g].ref].expiry
\* Without a table nothing is prepared for it.
Dry == ~Persistent =>
    /\ \A g \in Handlers : th'[g].pc # "save" /\ src'[g].at \notin {"exec", "end"}
    /\ \A i \in Ids : column'[i] = 0
\* Only NewID grants, and what is granted stays.
Grants == \A i \in Issued : grant'[i] = grant[i]
\* A request that saves the end of a session has expired its object.
Ending ==
    \A g \in Handlers : src'[g].at \in {"end", "drop"} =>
        \/ src[g].at \in {"end", "drop"} /\ th'[g] = th[g]
        \/ /\ th[g].ref \in Ptrs /\ th'[g].ref = th[g].ref
           /\ heap'[th[g].ref].expiry = Zero
\* An end that reaches the cache replaces what the cache has, unless the process dies.
Dropped ==
    \A g \in Handlers : src[g].at = "drop" =>
        \/ src'[g].at = "drop" /\ th'[g].id = th[g].id
        \/ cache'[th[g].id] = th[g].ref
        \/ \A i \in Ids : cache'[i] = Nil
Ends == UNCHANGED <<ended, holding>> \/ \E h \in Handlers : EndOK(h) \/ Present(h)

\* What becomes of statements, over every kind of step.
LEMMA StepPrepared ==
    ASSUME Base, [OAuthNext]_avars
    PROVE  Prepared /\ Dry /\ Grants /\ Ending /\ Dropped /\ Ends
  <1>0. TypeOK /\ ThreadShape /\ OAuthTyped /\ Places /\ Statements /\ \A h \in Handlers : h \in Procs
    BY DEF Base, Below, Typed, Procs
  <1> USE <1>0, NilAssumption
  <1> DEFINE Goal == Prepared /\ Dry /\ Grants /\ Ending /\ Dropped /\ Ends
  <1>1. ASSUME NEW h \in Handlers, OAuthHandle(h) PROVE Goal
    <2>0. /\ \A t : Goto(h, t) => th'[h] = t /\ \A g \in Handlers \ {h} : th'[g] = th[g]
          /\ \A s : Stage(h, s) => src'[h] = s /\ \A g \in Handlers \ {h} : src'[g] = src[g]
      BY OneMoves
    <2> USE DEF Idle, At, Source, Off, NotFound, Found, Answered, Statements, Places, ohist, hist,
               Prepared, Dry, Grants, Ending, Dropped, Ends
    <2>1. ASSUME NEW u \in Users, Exchange(h, u) PROVE Goal
      BY <2>0, <2>1 DEF Exchange, Register
    <2>2. CASE LoginSave(h)
      BY <2>0, <2>2 DEF LoginSave, SaveOK, SaveFails
    <2>3. CASE Load(h)
      BY <2>0, <2>3 DEF Load, QueryHit
    <2>4. CASE Admit(h)
      <3>1. CASE IsExpired(th[h].ref)
        BY <2>0, <2>4, <3>1 DEF Admit, Check
      <3>2. CASE ~IsExpired(th[h].ref)
        BY <2>0, <2>4, <3>2 DEF Admit, Check
      <3> QED BY <3>1, <3>2
    <2>5. CASE Plain(h)
      <3>1. src' = src /\ column' = column
        BY <2>5 DEF Plain, ovars
      <3>0. ended' = ended /\ holding' = holding
        BY <2>5 DEF Plain, ovars
      <3> USE <3>0
      <3>3. CASE QueryMiss(h)
        BY <2>0, <3>1, <3>3 DEF QueryMiss
      <3>4. CASE Fill(h)
        BY <2>0, <3>1, <3>4 DEF Fill
      <3>5. CASE NewID(h)
        <4>1. Grants
          BY <3>5 DEF NewID, Fresh
        <4>2. src[h].at = "off"
          BY <3>5 DEF NewID
        <4> QED BY <2>0, <3>1, <3>5, <4>1, <4>2 DEF NewID
      <3>6. CASE NewIDFails(h)
        BY <2>0, <3>1, <3>6 DEF NewIDFails
      <3>7. CASE Store(h)
        BY <2>0, <3>1, <3>7 DEF Store
      <3> QED BY <2>5, <3>3, <3>4, <3>5, <3>6, <3>7 DEF Plain
    <2>21. CASE Present(h)
      <3>1. Prepared /\ Dry /\ Grants /\ Ending /\ Dropped
        BY <2>0, <2>21 DEF Present, Request
      <3>2. Ends
        BY <2>21
      <3> QED BY <3>1, <3>2
    <2>6. CASE FindUser(h)
      BY <2>0, <2>6 DEF FindUser, UntouchedStore
    <2>7. CASE ReadExtra(h)
      BY <2>0, <2>7 DEF ReadExtra, UntouchedStore
    <2>8. CASE RefreshOK(h)
      BY <2>0, <2>8 DEF RefreshOK, UntouchedStore
    <2>9. CASE RefreshFails(h)
      BY <2>0, <2>9 DEF RefreshFails
    <2>10. CASE Adopt(h)
      BY <2>0, <2>10 DEF Adopt, UntouchedStore
    <2>11. CASE Exec(h)
      BY <2>0, <2>11 DEF Exec
    <2>12. CASE ExecFails(h)
      BY <2>0, <2>12 DEF ExecFails
    <2>13. CASE Recache(h)
      BY <2>0, <2>13 DEF Recache
    <2>14. CASE ProfileOK(h)
      BY <2>0, <2>14 DEF ProfileOK, UntouchedStore
    <2>15. CASE ProfileRefused(h)
      BY <2>0, <2>15 DEF ProfileRefused, UntouchedStore
    <2>16. CASE Answer(h)
      BY <2>0, <2>16 DEF Answer, UntouchedStore
    <2>17. CASE ExpireSession(h)
      <3>1. th[h].ref \in Ptrs
        BY <2>17, Serving DEF ExpireSession, Base
      <3>2. heap'[th[h].ref].expiry = Zero
        BY <2>17, <3>1 DEF ExpireSession, ExpireObject, TypeOK, Session
      <3> QED BY <2>0, <2>17, <3>1, <3>2 DEF ExpireSession
    <2>18. CASE EndOK(h)
      <3>1. Prepared /\ Dry /\ Grants /\ Ending /\ Dropped
        BY <2>0, <2>18 DEF EndOK
      <3>2. Ends
        BY <2>18
      <3> QED BY <3>1, <3>2
    <2>19. CASE EndFails(h)
      BY <2>0, <2>19 DEF EndFails
    <2>20. CASE DropSession(h)
      <3>1. th[h].id \in Ids /\ th[h].ref \in Ptrs
        BY <2>20, Serving DEF DropSession, Base
      <3>2. cache'[th[h].id] = th[h].ref
        BY <2>20, <3>1, CacheAddTyped DEF DropSession
      <3> QED BY <2>0, <2>20, <3>2 DEF DropSession
    <2> QED
      BY <1>1, <2>1, <2>2, <2>3, <2>4, <2>5, <2>6, <2>7, <2>8, <2>9, <2>10, <2>11, <2>12,
         <2>13, <2>14, <2>15, <2>16, <2>17, <2>18, <2>19, <2>20, <2>21 DEF OAuthHandle
  <1> USE DEF Prepared, Dry, Grants, Ending, Dropped, Ends
  <1>2. ASSUME Background PROVE Goal
    <2>1. src' = src /\ column' = column /\ grant' = grant /\ UNCHANGED <<ended, holding>>
      BY <1>2 DEF Background, ovars, ohist, hist, Sweep, Keys, Peek, Remove, Swept, StartCleaner, CleanTable, Tick
    <2>2. ASSUME NEW p \in Procs, Sweep(p) PROVE Goal
      BY <2>1, <2>2, SweepMoves DEF Statements, Places, Idle, At
    <2>3. ASSUME NEW c \in Cleaners, StartCleaner(c) PROVE Goal
      <3>1. \A g \in Handlers : th'[g] = th[g]
        BY <2>3, ProcAssumption DEF StartCleaner, Goto, TypeOK
      <3> QED BY <2>1, <3>1 DEF Statements
    <2>4. CASE CleanTable \/ Tick
      BY <2>1, <2>4 DEF CleanTable, Tick, Statements
    <2> HIDE DEF Goal
    <2> QED BY <1>2, <2>2, <2>3, <2>4 DEF Background
  <1>3. ASSUME Crash PROVE Goal
    BY <1>3 DEF Crash, Restart, Idle, At, Off, Statements
  <1>4. ASSUME (\E t \in Tokens : Wither(t)) \/ (\E u \in Users : ForgetUser(u)) \/ UNCHANGED avars
       PROVE  Goal
    <2>1. UNCHANGED <<th, src, column, grant, ended, holding>>
      BY <1>4 DEF Wither, ForgetUser, avars, ovars, vars, hist, ohist
    <2> QED BY <2>1 DEF Statements
  <1> HIDE DEF Goal
  <1>5. Goal
    BY <1>1, <1>2, <1>3, <1>4 DEF OAuthNext
  <1> QED BY <1>5 DEF Goal

\* A statement grants no more than the session was issued with.
LEMMA StepStatements == ASSUME Base, [OAuthNext]_avars PROVE Statements'
  <1>1. Prepared /\ Dry /\ Grants
    BY StepPrepared
  <1>2. \A g \in Handlers : src'[g].at = "exec" => src'[g].expiry <= grant'[th'[g].id].expiry
    <2> SUFFICES ASSUME NEW g \in Handlers, src'[g].at = "exec"
                 PROVE  src'[g].expiry <= grant'[th'[g].id].expiry
      OBVIOUS
    <2>1. th[g].pc = "serve" /\ th'[g].id = th[g].id
      BY <1>1 DEF Places, Prepared, Base
    <2>2. th[g].id \in Issued /\ heap[th[g].ref].expiry <= grant[th[g].id].expiry
      BY <2>1, Serving DEF Base, Copy
    <2> QED BY <1>1, <2>1, <2>2 DEF Statements, Prepared, Grants, Base
  <1> QED BY <1>1, <1>2 DEF Statements, Dry

\* Only a login grants, and its object has a user.
LEMMA StepGrantees == ASSUME Base, StoreStep PROVE Grantees'
  <1> USE DEF Grantees, Issued, hist
  <1>1. ASSUME NEW h \in Handlers, NewID(h) PROVE Grantees'
    <2>1. heap[th[h].ref].user \in Users
      BY <1>1 DEF NewID, Base, Below, Typed, ThreadShape
    <2>2. grant \in [Ids -> Session]
      BY DEF Base, Below, Typed, TypeOK
    <2> QED BY <1>1, <2>1, <2>2 DEF NewID, Base
  <1>2. grant' = grant \/ \E h \in Handlers : NewID(h)
    <2>1. ASSUME NEW h \in Handlers, Handle(h), ~NewID(h) PROVE grant' = grant
      BY <2>1 DEF Handle, Request, QueryHit, QueryMiss, Fill, Check, Serve, Register, NewIDFails,
                  Expire, SaveOK, SaveFails, Store, CacheAdd
    <2>2. ASSUME NEW h \in Handlers, Writes(h) \/ Caches(h) \/ Expires(h) PROVE grant' = grant
      BY <2>2 DEF Writes, Caches, Expires
    <2>3. (\E p \in Procs : Sweep(p)) \/ (\E c \in Cleaners : StartCleaner(c)) => grant' = grant
      BY DEF Sweep, Keys, Peek, Remove, Swept, StartCleaner
    <2>4. CleanTable \/ Tick \/ Restart \/ UNCHANGED vars => grant' = grant
      BY DEF CleanTable, Tick, Restart, vars
    <2> QED BY <2>1, <2>2, <2>3, <2>4 DEF StoreStep, Next
  <1> QED BY <1>1, <1>2 DEF Base

\* The step of the store, and of what OAuth keeps beside it.
LEMMA StepBase == ASSUME Base, [OAuthNext]_avars PROVE Base'
  <1>1. StoreStep
    BY StepKinds DEF Base
  <1> QED BY <1>1, StepBelow, StepOAuthTyped, StepPlaces, StepStatements,
          StepGrantees DEF Base

\* Nothing is stored and nothing runs at first.
LEMMA InitBase == OAuthInit => Base
  <1> SUFFICES ASSUME OAuthInit PROVE Base
    OBVIOUS
  <1>1. Typed /\ CopiesMatchGrant /\ Owner /\ Lineage
    BY InitTyped, InitCopies, InitLogout DEF OAuthInit, Typed, LogoutInv
  <1>2. OAuthTyped
    BY MaxTokensAssumption DEF OAuthInit, OAuthTyped, Off, Stages, Tokens
  <1>3. Places /\ Statements
    BY DEF OAuthInit, Init, Places, Statements, Idle, At, Off, Procs
  <1>4. Grantees
    BY DEF OAuthInit, Init, Grantees, Issued
  <1> QED BY <1>1, <1>2, <1>3, <1>4 DEF Base, Below

----------------------------------------------------------------------------
(* What moves between the requests and the cache. *)

\* An object of session i.
Object(i, q) == cache[i] = q \/ \E h \in Handlers : th[h].id = i /\ th[h].ref = q

\* A request keeps the session and the object it has, or lets go of them, or
\* begins with what the cache holds; and the cache takes what a request has.
Carried ==
    /\ \A g \in Handlers :
        \/ th'[g].id = Nil /\ th'[g].op # "login"
        \/ th'[g].id = th[g].id /\ th'[g].ref = th[g].ref /\ th'[g].op = th[g].op
        \/ /\ th[g] = Idle /\ th'[g].id \in delivered
           /\ th'[g].op = "api" /\ th'[g].ref = cache[th'[g].id]
           /\ Present(g)
    /\ \A i \in Ids : \/ cache'[i] \in {cache[i], Nil}
                      \/ \E g \in Handlers : th[g].id = i /\ th[g].ref = cache'[i]

\* But for a login, a lookup in the table and a new id, no step makes an object.
LEMMA StepCarried ==
    ASSUME Base, [OAuthNext]_avars
    PROVE  \/ Carried
           \/ \E h \in Handlers, u \in Users : Exchange(h, u)
           \/ \E h \in Handlers : Load(h) \/ (NewID(h) /\ UNCHANGED ovars)
  <1>0. TypeOK /\ ThreadShape /\ OAuthTyped /\ Places /\ \A h \in Handlers : h \in Procs
    BY DEF Base, Below, Typed, Procs
  <1> USE <1>0, NilAssumption DEF Carried
  <1>1. ASSUME NEW h \in Handlers, OAuthHandle(h),
               ~(\E u \in Users : Exchange(h, u)), ~Load(h), ~(NewID(h) /\ UNCHANGED ovars)
        PROVE  Carried
    <2>0. \A t : Goto(h, t) => th'[h] = t /\ \A g \in Handlers \ {h} : th'[g] = th[g]
      BY OneMoves
    <2> USE DEF Idle, At, NotFound, Found, Answered, hist, UntouchedStore
    <2>1. CASE LoginSave(h)
      BY <2>0, <2>1 DEF LoginSave, SaveOK, SaveFails
    <2>2. CASE Admit(h)
      BY <2>0, <2>2 DEF Admit, Check, Places
    <2>3. CASE Plain(h)
      <3>3. CASE QueryMiss(h) \/ NewIDFails(h)
        BY <2>0, <3>3 DEF QueryMiss, NewIDFails, Places
      <3>4. ASSUME Fill(h) \/ Store(h)
            PROVE  CacheAdd(th[h].id, th[h].ref) /\ th[h].id \in Ids /\ th[h].ref \in Ptrs
        BY <3>4 DEF Fill, Store, ThreadShape, Holding
      <3>5. ASSUME Fill(h) \/ Store(h)
            PROVE  /\ cache'[th[h].id] = th[h].ref
                   /\ \A k \in Ids \ {th[h].id} : cache'[k] \in {cache[k], Nil}
        BY <3>4, <3>5, CacheAddTyped
      <3>6. CASE Fill(h)
        BY <2>0, <3>5, <3>6 DEF Fill
      <3>7. CASE Store(h)
        BY <2>0, <3>5, <3>7 DEF Store, Places
      <3> QED BY <1>1, <2>3, <3>3, <3>6, <3>7 DEF Plain
    <2>8. CASE Present(h)
      <3>1. PICK i \in Ids : Request(h, "api", i)
        BY <2>8 DEF Present
      <3>2. cache' = cache /\ \A g \in Handlers \ {h} : th'[g] = th[g]
        BY <2>0, <3>1 DEF Request
      <3>3. \/ th'[h] = Idle
            \/ th'[h].id \in delivered /\ th'[h].op = "api" /\ th'[h].ref = cache[th'[h].id]
        BY <2>0, <3>1 DEF Request
      <3> QED BY <2>8, <3>1, <3>2, <3>3 DEF Request
    <2>4. CASE FindUser(h) \/ ReadExtra(h) \/ RefreshOK(h) \/ Adopt(h) \/ ProfileOK(h) \/ ProfileRefused(h)
      BY <2>4 DEF FindUser, ReadExtra, RefreshOK, Adopt, ProfileOK, ProfileRefused
    <2>5. CASE Exec(h) \/ EndOK(h) \/ ExpireSession(h)
      BY <2>5 DEF Exec, EndOK, ExpireSession
    <2>6. CASE RefreshFails(h) \/ ExecFails(h) \/ Answer(h) \/ EndFails(h)
      BY <2>0, <2>6 DEF RefreshFails, ExecFails, Answer, EndFails
    <2>7. CASE Recache(h) \/ DropSession(h)
      <3>1. CacheAdd(th[h].id, th[h].ref) /\ th[h].id \in Ids /\ th[h].ref \in Ptrs
        BY <2>7, Serving DEF Recache, DropSession, Places, Base
      <3>2. /\ cache'[th[h].id] = th[h].ref
            /\ \A k \in Ids \ {th[h].id} : cache'[k] \in {cache[k], Nil}
        BY <3>1, CacheAddTyped
      <3>3. CASE Recache(h)
        BY <3>2, <3>3 DEF Recache
      <3>4. CASE DropSession(h)
        BY <2>0, <3>2, <3>4 DEF DropSession
      <3> QED BY <2>7, <3>3, <3>4
    <2> QED BY <1>1, <2>1, <2>2, <2>3, <2>4, <2>5, <2>6, <2>7, <2>8 DEF OAuthHandle
  <1>2. ASSUME Background PROVE Carried
    <2>2. ASSUME NEW p \in Procs, Sweep(p) PROVE Carried
      BY <2>2, SweepMoves DEF Idle, At
    <2>3. ASSUME NEW c \in Cleaners, StartCleaner(c) PROVE Carried
      <3>1. \A g \in Handlers : th'[g] = th[g]
        BY <2>3, ProcAssumption DEF StartCleaner, Goto, TypeOK
      <3> QED BY <2>3, <3>1 DEF StartCleaner
    <2>4. CASE CleanTable \/ Tick
      BY <2>4 DEF CleanTable, Tick
    <2> HIDE DEF Carried
    <2> QED BY <1>2, <2>2, <2>3, <2>4 DEF Background
  <1>3. ASSUME Crash PROVE Carried
    BY <1>3 DEF Crash, Restart, Idle, At
  <1>4. ASSUME (\E t \in Tokens : Wither(t)) \/ (\E u \in Users : ForgetUser(u)) \/ UNCHANGED avars
        PROVE  Carried
    BY <1>4 DEF Wither, ForgetUser, avars, vars
  <1> HIDE DEF Carried
  <1> QED BY <1>1, <1>2, <1>3, <1>4 DEF OAuthNext

\* Where a request gets its object of a session that was issued, and the cache its own.
LEMMA Sources ==
    ASSUME Base, [OAuthNext]_avars, NEW i \in Issued
    PROVE  /\ \A g \in Handlers : th'[g].id = i /\ th'[g].ref # Nil =>
                \/ th[g].id = i /\ th'[g].ref = th[g].ref
                \/ Present(g) /\ th'[g].ref = cache[i]
                \/ Load(g) /\ th[g].id = i
           /\ \/ cache'[i] \in {cache[i], Nil}
              \/ \E g \in Handlers : th[g].id = i /\ th[g].ref = cache'[i]
  <1>0. TypeOK /\ ThreadShape /\ OAuthTyped /\ Places /\ \A h \in Handlers : h \in Procs
    BY DEF Base, Below, Typed, Procs
  <1>1. i \in Ids /\ i # Nil
    BY NilAssumption DEF Issued
  <1> USE <1>0, <1>1
  <1>3. CASE Carried
    BY <1>3 DEF Carried
  <1>4. ASSUME NEW h \in Handlers, (\E u \in Users : Exchange(h, u)) \/ Load(h) \/ NewID(h)
        PROVE  /\ cache' = cache /\ \A g \in Handlers \ {h} : th'[g] = th[g]
               /\ th'[h].id = i => Load(h) /\ th[h].id = i
    <2>0. \A t : Goto(h, t) => th'[h] = t /\ \A g \in Handlers \ {h} : th'[g] = th[g]
      BY OneMoves
    <2>1. CASE \E u \in Users : Exchange(h, u)
      BY <2>0, <2>1 DEF Exchange, Register, At
    <2>2. CASE Load(h)
      <3>1. cache' = cache /\ th'[h].id = th[h].id /\ \A g \in Handlers \ {h} : th'[g] = th[g]
        BY <2>0, <2>2 DEF Load, QueryHit, At
      <3> QED BY <2>2, <3>1
    <2>3. CASE NewID(h)
      BY <2>0, <2>3 DEF NewID, At, Fresh
    <2> QED BY <1>4, <2>1, <2>2, <2>3
  <1> QED BY <1>3, <1>4, StepCarried

\* A session that was issued gets another object only where its row is read.
LEMMA OldObjects ==
    ASSUME Base, [OAuthNext]_avars, NEW i \in Issued, NEW q \in Ptrs, Object(i, q)'
    PROVE  Object(i, q) \/ \E h \in Handlers : Load(h) /\ th[h].id = i
  <1>1. q # Nil /\ (cache'[i] = q \/ \E h \in Handlers : th'[h].id = i /\ th'[h].ref = q)
    BY NilAssumption DEF Object
  <1> QED BY <1>1, Sources DEF Object

\* What holds an object of a session reaches it; a new object is nobody's.
LEMMA ObjectsReachable ==
    ASSUME NEW i \in Ids, NEW q \in Ptrs, Object(i, q)
    PROVE  q \in Reachable
  BY DEF Object, Reachable, Procs

\* What the steps of the store do to the objects and the rows of a session.
ObjectMoves == \A q \in Reachable : heap'[q] = heap[q] \/ heap'[q].expiry = Zero
RowMoves == \A i \in Ids :
    \/ table'[i] = table[i] \/ table'[i] = NoRow
    \/ \E h \in Handlers : th[h].id = i /\ th[h].op = "login"
    \/ \E h \in Handlers : th[h].id = i /\ table'[i].expiry = Unix(Zero)
    \/ \E h \in Handlers : /\ th[h].id = i /\ src[h].at = "exec"
                           /\ table'[i].expiry = Unix(src[h].expiry)

\* Objects and rows change so under every kind of step.
LEMMA StepContents ==
    ASSUME Base, StoreStep
    PROVE  ObjectMoves /\ RowMoves /\ now' >= now /\ delivered \subseteq delivered'
  <1>0. TypeOK /\ ThreadShape /\ OAuthTyped /\ Places /\ \A h \in Handlers : h \in Procs
    BY DEF Base, Below, Typed, Procs
  <1> DEFINE Goal == ObjectMoves /\ RowMoves /\ now' >= now /\ delivered \subseteq delivered'
  <1> USE <1>0, NilAssumption DEF hist, ObjectMoves, RowMoves
  <1>t. now \in Nat
    BY TimeAssumption DEF TypeOK
  <1>k. ASSUME heap' = heap, table' = table, delivered \subseteq delivered', now' = now PROVE Goal
    BY <1>k, <1>t
  <1> HIDE DEF Goal
  <1>1. ASSUME NEW h \in Handlers, Handle(h) PROVE Goal
    <2>1. CASE (\E i \in Ids, op \in {"api", "logout"} : Request(h, op, i))
                \/ QueryMiss(h) \/ Fill(h) \/ Check(h) \/ Serve(h) \/ NewID(h) \/ NewIDFails(h) \/ Store(h)
      BY <1>k, <2>1 DEF Request, QueryMiss, Fill, Check, Serve, NewID, NewIDFails, Store
    <2>2. CASE QueryHit(h) \/ \E u \in Users : Register(h, u)
      <3>1. PICK q \in Ptrs : \E u, e : New(q, u, e)
        BY <2>2 DEF QueryHit, Register
      <3>2. \A r \in Reachable : heap'[r] = heap[r]
        BY <3>1 DEF New, TypeOK, Reachable
      <3> QED BY <1>t, <2>2, <3>2 DEF QueryHit, Register, Goal
    <2>3. CASE Expire(h)
      BY <2>3 DEF Expire, Places, ThreadShape
    <2>4. CASE SaveOK(h) \/ SaveFails(h)
      <3>1. th[h].op = "login" /\ th[h].id \in Ids
        BY <2>4 DEF SaveOK, SaveFails, Places, ThreadShape, Holding
      <3>2. \A i \in Ids : i # th[h].id => table'[i] = table[i]
        BY <2>4, <3>1 DEF SaveOK, SaveFails, Upsert, TypeOK
      <3> QED BY <1>t, <2>4, <3>1, <3>2 DEF SaveOK, SaveFails, Goal
    <2> QED BY <1>1, <2>1, <2>2, <2>3, <2>4 DEF Handle
  <1>2. ASSUME NEW p \in Procs, Sweep(p) PROVE Goal
    BY <1>k, <1>2, SweepMoves
  <1>3. ASSUME Restart \/ (\E c \in Cleaners : StartCleaner(c)) \/ UNCHANGED vars PROVE Goal
    BY <1>k, <1>3 DEF Restart, StartCleaner, vars
  <1>4. ASSUME CleanTable PROVE Goal
    BY <1>t, <1>4 DEF CleanTable, Goal
  <1>5. ASSUME Tick PROVE Goal
    BY <1>t, <1>5 DEF Tick, Goal
  <1>6. ASSUME NEW h \in Handlers, Writes(h) PROVE Goal
    <2>1. th[h].id \in Ids /\ th[h].ref \in Ptrs
      BY <1>6, Serving DEF Writes, Base
    <2>2. \A e : \A i \in Ids : table' = Saved(th[h].id, th[h].ref, e) =>
            IF i = th[h].id THEN table'[i].expiry = Unix(e) ELSE table'[i] = table[i]
      BY <2>1 DEF Saved, TypeOK
    <2>3. RowMoves
      <3> SUFFICES ASSUME NEW i \in Ids
                   PROVE  \/ table'[i] = table[i]
                          \/ th[h].id = i /\ table'[i].expiry = Unix(Zero)
                          \/ th[h].id = i /\ src[h].at = "exec" /\ table'[i].expiry = Unix(src[h].expiry)
        OBVIOUS
      <3> QED BY <1>6, <2>2 DEF Writes
    <2> QED BY <1>t, <1>6, <2>3 DEF Writes, Goal
  <1>7. ASSUME NEW h \in Handlers, Caches(h) PROVE Goal
    BY <1>k, <1>7 DEF Caches
  <1>8. ASSUME NEW h \in Handlers, Expires(h) PROVE Goal
    <2>1. th[h].ref \in Ptrs
      BY <1>8, Serving DEF Expires, Base
    <2>2. heap' = [heap EXCEPT ![th[h].ref].expiry = Zero]
      BY <1>8 DEF Expires, ExpireObject
    <2>3. ObjectMoves
      BY <2>1, <2>2 DEF TypeOK, Session
    <2> QED BY <1>t, <1>8, <2>3 DEF Expires, Goal
  <1>9. Goal
    BY <1>1, <1>2, <1>3, <1>4, <1>5, <1>6, <1>7, <1>8 DEF StoreStep, Next
  <1> QED BY <1>9 DEF Goal

----------------------------------------------------------------------------
(* A session that was ended. *)

\* What is left of session i is expired: its row, its objects, the statements
\* prepared for it; its cached object too, once the end has reached the cache.
IsOver(i) ==
    /\ ~RowLive(i)
    /\ \A h \in Handlers : th[h].id = i /\ th[h].ref # Nil => heap[th[h].ref].expiry = Zero
    /\ cache[i] # Nil => Dropping(i) \/ heap[cache[i]].expiry = Zero
    /\ \A h \in Handlers : th[h].id = i /\ src[h].at = "exec" => src[h].expiry = Zero
\* Nobody can save an ended session as alive, but for those noted.
Over ==
    /\ ended \subseteq delivered
    /\ \A i \in ended \ holding : IsOver(i)
    /\ \A h \in Handlers : src[h].at \in {"end", "drop"} => heap[th[h].ref].expiry = Zero

\* The row is not live when its expiry is Zero, nor when it was not before.
LEMMA RowStaysOver ==
    ASSUME Base, Over, StoreStep, NEW i \in Ids, i \in delivered, ~RowLive(i),
           \A h \in Handlers : th[h].id = i /\ src[h].at = "exec" => src[h].expiry = Zero
    PROVE  ~RowLive(i)'
  <1>1. TypeOK /\ Lineage /\ now \in Int /\ now >= 0
    BY TimeAssumption DEF Base, Below, Typed, TypeOK
  <1>2. now' >= now /\ now' \in Int
    <2>1. TypeOK'
      BY StepBelow DEF Below, Typed
    <2> QED BY <2>1, TimeAssumption, StepContents DEF TypeOK
  <1>3. Unix(now') >= Unix(now) /\ Unix(now) >= 0 /\ Unix(now') \in Int /\ Unix(now) \in Int
    BY <1>1, <1>2, UnixMonotone, UnixFacts
  <1>4. Unix(Zero) < 0 /\ Unix(Zero) \in Int /\ Zero < 0
    BY UnixFacts DEF Zero
  <1>5. table[i].expiry \in Int /\ table[i].expiry <= Unix(now)
    BY <1>1, <1>3 DEF TypeOK, Row, RowLive
  <1>6. table'[i].expiry \in Int /\ table'[i].expiry <= Unix(now')
    <2>1. \/ table'[i] = table[i] \/ table'[i] = NoRow
          \/ \E h \in Handlers : th[h].id = i /\ th[h].op = "login"
          \/ table'[i].expiry = Unix(Zero)
      BY StepContents DEF RowMoves
    <2>2. \A h \in Handlers : th[h].id = i => th[h].op # "login"
      BY <1>1, NilAssumption DEF Lineage
    <2>3. NoRow.expiry = Zero /\ Zero \in Int
      BY DEF NoRow, Zero
    <2> QED BY <1>3, <1>4, <1>5, <2>1, <2>2, <2>3
  <1> QED BY <1>3, <1>6 DEF RowLive

\* A session that is over stays so, unless a request finds an object of it.
LEMMA StaysOver ==
    ASSUME Base, Over, [OAuthNext]_avars, NEW i \in ended, IsOver(i), i \notin holding'
    PROVE  IsOver(i)'
  <1>0. TypeOK /\ Places /\ Lineage /\ StoreStep /\ Prepared /\ Dropped
    BY StepKinds, StepPrepared DEF Base, Below, Typed
  <1>1. i \in delivered /\ i \in Issued /\ i \in Ids /\ Base'
    BY <1>0, StepBase DEF Over, Lineage, Issued
  <1>2. ~RowLive(i)'
    BY <1>0, <1>1, RowStaysOver DEF IsOver
  <1>3. \A q \in Reachable : heap[q].expiry = Zero => heap'[q].expiry = Zero
    BY <1>0, StepContents DEF ObjectMoves
  <1>4. cache[i] \in Reachable /\ \A g \in Handlers : th[g].ref \in Reachable
    BY <1>1 DEF Reachable, Procs
  <1>5. ASSUME NEW g \in Handlers, th'[g].id = i, th'[g].ref # Nil
        PROVE  heap'[th'[g].ref].expiry = Zero
    <2>1. CASE th[g].id = i /\ th'[g].ref = th[g].ref
      BY <1>3, <1>4, <1>5, <2>1 DEF IsOver
    <2>2. CASE Present(g) /\ th'[g].ref = cache[i]
      <3>1. ~(i \in ended /\ Dropping(i) /\ cache[i] # Nil /\ heap[cache[i]].expiry # Zero)
        <4>1. PICK k \in Ids : /\ Request(g, "api", k)
                               /\ holding' = IF /\ k \in ended /\ Dropping(k) /\ cache[k] # Nil
                                                /\ heap[cache[k]].expiry # Zero
                                             THEN holding \cup {k} ELSE holding
          BY <2>2 DEF Present
        <4>2. k = i
          BY <1>0, <1>1, <1>5, <4>1, NilAssumption DEF Request, Goto, At, Idle, NotFound, TypeOK, Procs
        <4> QED BY <4>1, <4>2
      <3> QED BY <1>3, <1>4, <1>5, <2>2, <3>1 DEF IsOver
    <2>3. CASE Load(g) /\ th[g].id = i
      BY <2>3 DEF Load, QueryHit, IsOver
    <2> QED BY <1>1, <1>5, <2>1, <2>2, <2>3, Sources
  <1>6. ASSUME cache'[i] # Nil, ~Dropping(i)' PROVE heap'[cache'[i]].expiry = Zero
    <2>1. CASE \E g \in Handlers : th[g].id = i /\ th[g].ref = cache'[i]
      BY <1>3, <1>4, <1>6, <2>1 DEF IsOver
    <2>2. CASE cache'[i] = cache[i]
      <3>1. CASE Dropping(i)
        <4>1. PICK g \in Handlers : th[g].id = i /\ src[g].at = "drop"
          BY <3>1 DEF Dropping
        <4>2. cache'[i] = th[g].ref
          BY <1>0, <1>1, <1>6, <4>1 DEF Dropped, Dropping
        <4> QED BY <2>1, <4>1, <4>2
      <3>2. CASE ~Dropping(i)
        BY <1>3, <1>4, <1>6, <2>2, <3>2 DEF IsOver
      <3> QED BY <3>1, <3>2
    <2> QED BY <1>1, <1>6, <2>1, <2>2, Sources
  <1>7. ASSUME NEW h \in Handlers, th'[h].id = i, src'[h].at = "exec" PROVE src'[h].expiry = Zero
    <2>1. CASE src[h].at = "exec" /\ src'[h].expiry = src[h].expiry /\ th'[h].id = th[h].id
      BY <1>7, <2>1 DEF IsOver
    <2>2. CASE /\ th[h].pc = "serve" /\ th'[h].id = th[h].id
               /\ src'[h].expiry = heap[th[h].ref].expiry
      <3>1. th[h].ref \in Ptrs
        BY <1>0, <2>2, Serving DEF Base
      <3> QED BY <1>7, <2>2, <3>1, NilAssumption DEF IsOver
    <2> QED BY <1>0, <1>7, <2>1, <2>2 DEF Prepared
  <1> QED BY <1>2, <1>5, <1>6, <1>7 DEF IsOver

\* A session is over when its end is saved and nobody is at work on it.
LEMMA EndsOver ==
    ASSUME Base, Over, NEW h \in Handlers, EndOK(h), NEW i, i = th[h].id, Savers(h, i) = {}
    PROVE  IsOver(i)'
  <1>0. TypeOK /\ Places /\ Lineage /\ OAuthTyped
    BY DEF Base, Below, Typed
  <1>1. /\ i \in Ids /\ th[h].ref \in Ptrs /\ i \in delivered
        /\ src[h].at = "end" /\ heap[th[h].ref].expiry = Zero
        /\ UNCHANGED <<now, heap, cache, th>>
        /\ table' = Saved(i, th[h].ref, Zero)
        /\ src' = [src EXCEPT ![h] = Source("drop", 0, Zero)]
    BY <1>0, Serving DEF EndOK, Over, Places, Base, Stage
  <1>2. ~RowLive(i)'
    <2>1. table'[i].expiry = Unix(Zero)
      BY <1>0, <1>1 DEF Saved, TypeOK
    <2>2. Unix(Zero) < 0 /\ Unix(Zero) \in Int /\ Unix(now) \in Int /\ Unix(now) >= 0
      BY <1>0, UnixFacts, TimeAssumption DEF Zero, TypeOK
    <2>3. now' = now
      BY <1>1
    <2> QED BY <2>1, <2>2, <2>3 DEF RowLive
  <1>3. \A k \in Handlers : th[k].id = i => k = h \/ k \in Others(h, i)
    <2>1. \A k \in Handlers : th[k].id = i => th[k].op = "api"
      BY <1>0, <1>1, NilAssumption DEF Lineage, Places
    <2> QED BY <2>1 DEF Others
  <1>4. \A k \in Handlers : th[k].id = i /\ th[k].ref # Nil => heap[th[k].ref].expiry = Zero
    BY <1>1, <1>3 DEF Savers
  <1>5. \A k \in Handlers : th[k].id = i /\ src[k].at = "exec" => src[k].expiry = Zero
    BY <1>1, <1>3 DEF Savers
  <1>6. /\ src'[h].at = "drop" /\ src'[h].expiry = Zero
        /\ \A k \in Handlers \ {h} : src'[k] = src[k]
    BY <1>0, <1>1 DEF Source, OAuthTyped
  <1>7. Dropping(i)'
    <2>1. th'[h].id = i
      BY <1>1
    <2> QED BY <1>6, <2>1 DEF Dropping
  <1>8. \A k \in Handlers : th'[k].id = i /\ src'[k].at = "exec" => src'[k].expiry = Zero
    BY <1>1, <1>5, <1>6
  <1>9. \A k \in Handlers : th'[k].id = i /\ th'[k].ref # Nil => heap'[th'[k].ref].expiry = Zero
    BY <1>1, <1>4
  <1> QED BY <1>2, <1>7, <1>8, <1>9 DEF IsOver

\* No step brings an ended session back, but for those noted.
LEMMA StepOver == ASSUME Base, Over, [OAuthNext]_avars PROVE Over'
  <1>0. TypeOK /\ Places /\ Lineage /\ StoreStep /\ Ending /\ Ends
    BY StepKinds, StepPrepared DEF Base, Below, Typed
  <1>1. \A i \in ended' : i \in ended \/ \E h \in Handlers : EndOK(h) /\ i = th[h].id
    BY <1>0 DEF Ends, EndOK, Present
  <1>2. holding \subseteq holding'
    BY <1>0 DEF Ends, EndOK, Present
  <1>3. ended' \subseteq delivered'
    <2>1. \A h \in Handlers : EndOK(h) => th[h].id \in delivered
      BY <1>0, Serving DEF EndOK, Places, Base
    <2> QED BY <1>0, <1>1, <2>1, StepContents DEF Over
  <1>4. \A h \in Handlers : src'[h].at \in {"end", "drop"} => heap'[th'[h].ref].expiry = Zero
    <2> SUFFICES ASSUME NEW h \in Handlers, src'[h].at \in {"end", "drop"},
                        src[h].at \in {"end", "drop"}, th'[h] = th[h]
                 PROVE  heap'[th'[h].ref].expiry = Zero
      BY <1>0 DEF Ending
    <2>1. th[h].ref \in Reachable
      BY DEF Reachable, Procs
    <2> QED BY <1>0, <2>1, StepContents DEF ObjectMoves, Over
  <1>5. ASSUME NEW i \in ended' \ holding' PROVE IsOver(i)'
    <2>1. CASE i \in ended
      BY <1>2, <1>5, <2>1, StaysOver DEF Over
    <2>2. ASSUME NEW h \in Handlers, EndOK(h), i = th[h].id PROVE IsOver(i)'
      <3>1. Savers(h, i) = {}
        BY <1>5, <2>2 DEF EndOK
      <3> QED BY <2>2, <3>1, EndsOver
    <2> QED BY <1>1, <2>1, <2>2
  <1> QED BY <1>3, <1>4, <1>5 DEF Over

----------------------------------------------------------------------------
(* Where the tokens are. *)

\* A token that session i has somewhere.
Knows(i, t) ==
    \/ column[i] = t
    \/ \E q \in Ptrs : Object(i, q) /\ extra[q] = t
    \/ \E h \in Handlers : th[h].id = i /\ src[h].token = t
\* A login that has a token, and no id yet.
Unnamed(h) == th[h].op = "login" /\ th[h].id = Nil
Refresher(h) == src[h].at \in {"refresh", "adopt", "exec"}

\* A step that makes no token and moves none but between an object, a request
\* and the row of one session.
Quiet ==
    /\ extra' = extra /\ minted' = minted
    /\ lost \subseteq lost' /\ crossed \subseteq crossed'
    /\ \/ burnt' = burnt
       \/ \E g \in Handlers : /\ src[g].token # 0 /\ burnt' = burnt \cup {src[g].token}
                              /\ th[g].id \in lost'
    /\ \A g \in Handlers :
        \/ src'[g].token = 0
        \/ th'[g].id = th[g].id /\ src'[g].token = src[g].token
        \/ /\ th'[g].id = th[g].id /\ th[g].ref \in Ptrs
           /\ src'[g].token = extra[th[g].ref]
    /\ \A i \in Ids :
        \/ column'[i] = column[i]
        \/ \E g \in Handlers : /\ th[g].id = i /\ th[g].ref \in Ptrs
                               /\ column'[i] = extra[th[g].ref]
        \/ \E g \in Handlers : th[g].id = i /\ src[g].at = "exec" /\ column'[i] = src[g].token
    /\ \A g \in Handlers : Refresher(g)' =>
        \/ Refresher(g) /\ th'[g].id = th[g].id /\ src'[g].token = src[g].token
        \/ ReadExtra(g)
    /\ \A g \in Handlers : src[g].at = "adopt" =>
        th[g].id \in lost' \/ (src'[g].at = "adopt" /\ th'[g].id = th[g].id)
    /\ \A g \in Handlers : src[g].at = "exec" =>
        \/ th[g].id \in lost' \/ (src'[g].at = "exec" /\ th'[g].id = th[g].id)
        \/ column'[th[g].id] = src[g].token

Loud(h) ==
    \/ \E u \in Users : Exchange(h, u)
    \/ Load(h) \/ RefreshOK(h) \/ Adopt(h)
    \/ NewID(h) /\ UNCHANGED ovars

\* But for five kinds of step, every step is quiet.
LEMMA StepQuiet == ASSUME Base, [OAuthNext]_avars PROVE Quiet \/ \E h \in Handlers : Loud(h)
  <1>0. /\ TypeOK /\ ThreadShape /\ OAuthTyped /\ Places
        /\ \A h \in Handlers : h \in Procs
    BY DEF Base, Below, Typed, Procs
  <1>s. \A h \in Handlers : th[h].pc = "serve" =>
            th[h].id \in Ids /\ th[h].ref \in Ptrs
    BY Serving DEF Base
  <1> USE <1>0, NilAssumption DEF Quiet, Refresher
  <1>1. ASSUME NEW h \in Handlers, OAuthHandle(h), ~Loud(h) PROVE Quiet
    <2>0. /\ \A t : Goto(h, t) => th'[h] = t /\ \A g \in Handlers \ {h} : th'[g] = th[g]
          /\ \A s : Stage(h, s) => src'[h] = s /\ \A g \in Handlers \ {h} : src'[g] = src[g]
      BY OneMoves
    <2> USE DEF Idle, At, Source, Off, Answered, ohist
    <2>1. CASE LoginSave(h)
      <3>1. th[h].id \in Ids /\ th[h].ref \in Ptrs /\ src[h].at = "off" /\ src[h].token = 0
        BY <2>1 DEF LoginSave, SaveOK, SaveFails, ThreadShape, Holding, Places
      <3>2. \A i \in Ids : column'[i] = column[i] \/ (i = th[h].id /\ column'[i] = extra[th[h].ref])
        BY <2>1, <3>1 DEF LoginSave, OAuthTyped
      <3>3. \A g \in Handlers \ {h} : th'[g] = th[g]
        BY <2>0, <2>1 DEF LoginSave, SaveOK, SaveFails
      <3> QED BY <2>1, <3>1, <3>2, <3>3 DEF LoginSave
    <2>2. CASE Admit(h)
      <3>1. src[h].at = "off" /\ src[h].token = 0
        BY <2>2 DEF Admit, Check, Places
      <3>2. /\ src'[h].at \in {"off", "user"} /\ src'[h].token = 0
            /\ \A g \in Handlers \ {h} : th'[g] = th[g] /\ src'[g] = src[g]
        <4>1. CASE IsExpired(th[h].ref)
          BY <2>0, <2>2, <4>1 DEF Admit, Check
        <4>2. CASE ~IsExpired(th[h].ref)
          BY <2>0, <2>2, <4>2 DEF Admit, Check
        <4> QED BY <4>1, <4>2
      <3> QED BY <2>2, <3>1, <3>2 DEF Admit
    <2>21. CASE Present(h)
      <3>1. th[h].pc # "serve" /\ \A g \in Handlers \ {h} : th'[g] = th[g]
        BY <2>0, <2>21 DEF Present, Request
      <3>2. UNCHANGED <<extra, column, src, minted, burnt, lost, crossed>>
        BY <2>21 DEF Present
      <3>3. src[h].at = "off" /\ src[h].token = 0
        BY <3>1 DEF Places
      <3> QED BY <3>1, <3>2, <3>3
    <2>3. CASE Plain(h)
      <3>1. th[h].pc # "serve" /\ \A g \in Handlers \ {h} : th'[g] = th[g]
        <4>2. CASE QueryMiss(h) \/ Fill(h) \/ NewIDFails(h) \/ Store(h)
          BY <2>0, <4>2 DEF QueryMiss, Fill, NewIDFails, Store
        <4> QED BY <1>1, <2>3, <4>2 DEF Plain, Loud
      <3>2. src[h].at = "off" /\ src[h].token = 0
        BY <3>1 DEF Places
      <3> QED BY <2>3, <3>1, <3>2 DEF Plain, ovars
    <2>4. CASE FindUser(h)
      BY <2>0, <2>4 DEF FindUser
    <2>5. CASE ReadExtra(h)
      <3>1. /\ th[h].ref \in Ptrs /\ src[h].at = "token" /\ src'[h].token = extra[th[h].ref]
            /\ \A g \in Handlers \ {h} : src'[g] = src[g]
            /\ UNCHANGED <<th, extra, column, minted, burnt, lost>> /\ crossed \subseteq crossed'
        BY <1>s, <2>0, <2>5 DEF ReadExtra, Places
      <3>2. \A g \in Handlers : Refresher(g)' =>
                \/ Refresher(g) /\ th'[g].id = th[g].id /\ src'[g].token = src[g].token
                \/ ReadExtra(g)
        BY <2>5, <3>1
      <3> QED BY <3>1, <3>2
    <2>9. CASE RefreshFails(h)
      <3>1. src[h].token # 0 /\ src[h].at = "refresh" /\ th[h].id \in Ids
        BY <1>s, <2>9 DEF RefreshFails, Places
      <3> QED BY <2>0, <2>9, <3>1 DEF RefreshFails
    <2>11. CASE Exec(h)
      <3>1. th[h].id \in Ids
        BY <1>s, <2>11 DEF Exec, Places
      <3>2. /\ column'[th[h].id] = src[h].token
            /\ \A i \in Ids \ {th[h].id} : column'[i] = column[i]
        BY <2>11, <3>1 DEF Exec, ColumnSaved, OAuthTyped
      <3> QED BY <2>0, <2>11, <3>1, <3>2 DEF Exec
    <2>12. CASE ExecFails(h)
      <3>1. th[h].id \in Ids /\ src[h].at = "exec"
        BY <1>s, <2>12 DEF ExecFails, Places
      <3>2. /\ column'[th[h].id] \in {column[th[h].id], src[h].token}
            /\ \A i \in Ids \ {th[h].id} : column'[i] = column[i]
        BY <2>12, <3>1 DEF ExecFails, ColumnSaved, OAuthTyped
      <3> QED BY <2>0, <2>12, <3>1, <3>2 DEF ExecFails
    <2>13. CASE Recache(h)
      BY <2>0, <2>13 DEF Recache
    <2>14. CASE ProfileOK(h)
      BY <2>0, <2>14 DEF ProfileOK
    <2>15. CASE ProfileRefused(h)
      BY <2>0, <2>15 DEF ProfileRefused
    <2>16. CASE Answer(h)
      BY <2>0, <2>16 DEF Answer
    <2>17. CASE ExpireSession(h)
      BY <2>0, <2>17 DEF ExpireSession
    <2>18. CASE EndOK(h) \/ EndFails(h)
      <3>1. th[h].id \in Ids /\ th[h].ref \in Ptrs /\ src[h].at = "end"
        BY <1>s, <2>18 DEF EndOK, EndFails, Places
      <3>2. /\ column'[th[h].id] \in {column[th[h].id], extra[th[h].ref]}
            /\ \A i \in Ids \ {th[h].id} : column'[i] = column[i]
        BY <2>18, <3>1 DEF EndOK, EndFails, ColumnSaved, OAuthTyped
      <3>3. CASE EndOK(h)
        BY <2>0, <3>1, <3>2, <3>3 DEF EndOK
      <3>4. CASE EndFails(h)
        BY <2>0, <3>1, <3>2, <3>4 DEF EndFails
      <3> QED BY <2>18, <3>3, <3>4
    <2>20. CASE DropSession(h)
      BY <2>0, <2>20 DEF DropSession
    <2> HIDE DEF Quiet
    <2> QED
      BY <1>1, <2>1, <2>2, <2>3, <2>4, <2>5, <2>9, <2>11, <2>12,
         <2>13, <2>14, <2>15, <2>16, <2>17, <2>18, <2>20, <2>21 DEF OAuthHandle, Loud
  <1>k. ASSUME UNCHANGED <<extra, column, src, minted, burnt, ohist>>,
               \A g \in Handlers : src[g].at # "off" => th'[g].id = th[g].id
        PROVE  Quiet
    BY <1>k DEF Places, ohist
  <1> HIDE DEF Quiet
  <1>2. ASSUME Background PROVE Quiet
    <2>1. UNCHANGED <<extra, column, src, minted, burnt, ohist>>
      BY <1>2 DEF Background, ovars, ohist
    <2>2. ASSUME NEW p \in Procs, Sweep(p) PROVE Quiet
      BY <1>k, <2>1, <2>2, SweepMoves DEF Places
    <2>3. ASSUME NEW c \in Cleaners, StartCleaner(c) PROVE Quiet
      <3>1. \A g \in Handlers : th'[g] = th[g]
        BY <2>3, ProcAssumption DEF StartCleaner, Goto, TypeOK
      <3> QED BY <1>k, <2>1, <3>1
    <2>4. ASSUME CleanTable \/ Tick PROVE Quiet
      BY <1>k, <2>1, <2>4 DEF CleanTable, Tick
    <2> QED BY <1>2, <2>2, <2>3, <2>4 DEF Background
  <1>3. ASSUME Crash PROVE Quiet
    <2>1. \A g \in Handlers : src[g].at \in {"adopt", "exec"} => th[g].id \in lost'
      BY <1>3, <1>s DEF Crash, Places
    <2> QED BY <1>3, <2>1 DEF Crash, Quiet, Off
  <1>4. ASSUME (\E t \in Tokens : Wither(t)) \/ (\E u \in Users : ForgetUser(u)) \/ UNCHANGED avars
        PROVE  Quiet
    <2>1. UNCHANGED <<th, extra, column, src, minted, burnt, ohist>>
      BY <1>4 DEF Wither, ForgetUser, avars, ovars, vars
    <2> QED BY <1>k, <2>1
  <1> QED BY <1>1, <1>2, <1>3, <1>4 DEF OAuthNext

\* Sessions share no token, and a login's is its own.
Apart ==
    /\ burnt \subseteq 1..minted
    /\ \A i \in Ids, t \in Tokens : Knows(i, t) => t <= minted
    /\ \A i, j \in Ids, t \in Tokens : Knows(i, t) /\ Knows(j, t) => i = j
    /\ \A h \in Handlers : Unnamed(h) => extra[th[h].ref] \in 1..minted
    /\ \A h \in Handlers, t \in Tokens : Unnamed(h) /\ extra[th[h].ref] = t =>
        /\ t \notin burnt
        /\ \A i \in Ids : ~Knows(i, t)
        /\ \A g \in Handlers \ {h} : Unnamed(g) => extra[th[g].ref] # t

\* A session no refresh was lost of, and no two requests met in, has one object
\* and one request that refreshes; the object holds a token that can be
\* refreshed unless it is about to take the next one, and so does the row.
Good(i) ==
    /\ \A q, r \in Ptrs : Object(i, q) /\ Object(i, r) => q = r
    /\ \A g, h \in Handlers :
        th[g].id = i /\ th[h].id = i /\ Refresher(g) /\ Refresher(h) => g = h
    /\ \A q \in Ptrs : Object(i, q) /\ extra[q] \in burnt =>
        \E h \in Handlers : th[h].id = i /\ src[h].at = "adopt"
    /\ column[i] \in burnt => Refreshing(i)
    /\ \A h \in Handlers : th[h].id = i /\ Refresher(h) => src[h].token \notin burnt
InSync == \A i \in Ids \ (lost \cup crossed) : Good(i)

\* What a session knows after a quiet step, it knew.
LEMMA QuietObject ==
    ASSUME Base, Carried, NEW i \in Ids, NEW q \in Ptrs, Object(i, q)'
    PROVE  Object(i, q)
  <1>1. i # Nil /\ q # Nil
    BY NilAssumption
  <1>2. cache'[i] = q \/ \E h \in Handlers : th'[h].id = i /\ th'[h].ref = q
    BY DEF Object
  <1> QED BY <1>1, <1>2 DEF Carried, Object

\* Nor does it learn a token.
LEMMA QuietKnows ==
    ASSUME Base, Carried, Quiet, NEW i \in Ids, NEW t \in Tokens, Knows(i, t)'
    PROVE  Knows(i, t)
  <1>0. t # 0
    BY DEF Tokens
  <1>1. CASE column'[i] = t
    <2>1. CASE column'[i] = column[i]
      BY <1>1, <2>1 DEF Knows
    <2>2. ASSUME NEW g \in Handlers, th[g].id = i, th[g].ref \in Ptrs, column'[i] = extra[th[g].ref]
          PROVE  Knows(i, t)
      BY <1>1, <2>2 DEF Knows, Object
    <2>3. ASSUME NEW g \in Handlers, th[g].id = i, column'[i] = src[g].token PROVE Knows(i, t)
      BY <1>1, <2>3 DEF Knows
    <2> QED BY <2>1, <2>2, <2>3 DEF Quiet
  <1>2. ASSUME NEW q \in Ptrs, Object(i, q)', extra'[q] = t PROVE Knows(i, t)
    <2>1. Object(i, q)
      BY <1>2, QuietObject
    <2> QED BY <1>2, <2>1 DEF Quiet, Knows
  <1>3. ASSUME NEW h \in Handlers, th'[h].id = i, src'[h].token = t PROVE Knows(i, t)
    <2>1. CASE th'[h].id = th[h].id /\ src'[h].token = src[h].token
      BY <1>3, <2>1 DEF Knows
    <2>2. CASE th'[h].id = th[h].id /\ th[h].ref \in Ptrs /\ src'[h].token = extra[th[h].ref]
      BY <1>3, <2>2 DEF Knows, Object
    <2> QED BY <1>0, <1>3, <2>1, <2>2 DEF Quiet
  <1> QED BY <1>1, <1>2, <1>3 DEF Knows

\* A token that a quiet step burns is of a session whose refresh is lost.
LEMMA QuietBurns ==
    ASSUME Base, Apart, Quiet, NEW t \in burnt', t \notin burnt
    PROVE  t \in Tokens /\ \E i \in Ids \cap lost' : Knows(i, t)
  <1>1. PICK g \in Handlers : src[g].token # 0 /\ t = src[g].token /\ th[g].id \in lost'
    BY DEF Quiet
  <1>2. t \in Tokens
    BY <1>1, MaxTokensAssumption DEF Base, OAuthTyped, Tokens
  <1>3. src[g].at # "off"
    BY <1>1 DEF Base, Places
  <1>4. th[g].id \in Ids
    BY <1>3, Serving DEF Base, Places
  <1>5. Knows(th[g].id, t)
    BY <1>1, <1>4 DEF Knows
  <1> QED BY <1>1, <1>2, <1>4, <1>5

\* Quiet steps keep the tokens of the sessions apart.
LEMMA QuietApart == ASSUME Base, Apart, Carried, Quiet PROVE Apart'
  <1>0. minted' = minted /\ minted \in Nat /\ MaxTokens \in Nat /\ minted <= MaxTokens /\ extra' = extra
    BY MaxTokensAssumption DEF Quiet, Base, OAuthTyped
  <1>1. burnt' \subseteq 1..minted'
    <2> SUFFICES ASSUME NEW t \in burnt', t \notin burnt PROVE t \in 1..minted
      BY <1>0 DEF Apart
    <2>1. t \in Tokens /\ \E i \in Ids : Knows(i, t)
      BY QuietBurns
    <2>2. t <= minted
      BY <2>1 DEF Apart
    <2> QED BY <1>0, <2>1, <2>2 DEF Tokens
  <1>2. \A i \in Ids, t \in Tokens : Knows(i, t)' => Knows(i, t)
    BY QuietKnows
  <1>3. \A h \in Handlers : Unnamed(h)' => Unnamed(h) /\ th'[h].ref = th[h].ref
    BY NilAssumption DEF Carried, Unnamed, Base, Below, Lineage, Issued
  <1>4. \A i \in Ids, t \in Tokens : Knows(i, t)' => t <= minted'
    BY <1>0, <1>2 DEF Apart
  <1>5. \A i, j \in Ids, t \in Tokens : Knows(i, t)' /\ Knows(j, t)' => i = j
    BY <1>2 DEF Apart
  <1>6. \A h \in Handlers : Unnamed(h)' => extra'[th'[h].ref] \in 1..minted'
    BY <1>0, <1>3 DEF Apart
  <1>7. ASSUME NEW h \in Handlers, NEW t \in Tokens, Unnamed(h)', extra'[th'[h].ref] = t
        PROVE  /\ t \notin burnt'
               /\ \A i \in Ids : ~Knows(i, t)'
               /\ \A g \in Handlers \ {h} : Unnamed(g)' => extra'[th'[g].ref] # t
    <2>1. /\ Unnamed(h) /\ extra[th[h].ref] = t
      BY <1>0, <1>3, <1>7
    <2>2. /\ t \notin burnt
          /\ \A i \in Ids : ~Knows(i, t)
          /\ \A g \in Handlers \ {h} : Unnamed(g) => extra[th[g].ref] # t
      BY <2>1 DEF Apart
    <2>3. t \notin burnt'
      BY <2>2, QuietBurns
    <2> QED BY <1>0, <1>2, <1>3, <2>2, <2>3
  <1> QED BY <1>1, <1>4, <1>5, <1>6, <1>7 DEF Apart

\* A request that begins to refresh meets no other, unless they cross.
LEMMA BeginsAlone ==
    ASSUME Base, NEW i \in Ids, i \notin crossed', NEW h \in Handlers, th[h].id = i,
           ReadExtra(h), Refresher(h)'
    PROVE  /\ \A k \in Handlers \ {h} : ~(th[k].id = i /\ Refresher(k))
           /\ \A k \in Handlers \ {h} : ~(th'[k].id = i /\ Refresher(k)')
           /\ src'[h].token = extra[th[h].ref] /\ th[h].ref \in Ptrs /\ src[h].at = "token"
  <1>1. src[h].at = "token" /\ th' = th /\ th[h].ref \in Ptrs
    BY Serving DEF ReadExtra, Base, Places
  <1>2. ~Overlaps(h, i) /\ src' = [src EXCEPT ![h] = Source("refresh", extra[th[h].ref], Zero)]
    <2>1. src'[h].at # "profile"
      BY DEF Refresher
    <2>2. src \in [Handlers -> [at : Stages, token : 0..MaxTokens, expiry : Nat \cup {Zero}]]
      BY DEF Base, OAuthTyped
    <2> QED BY <2>1, <2>2 DEF ReadExtra, Stage, Source
  <1>3. src'[h].token = extra[th[h].ref] /\ \A k \in Handlers \ {h} : src'[k] = src[k]
    BY <1>2 DEF Source, Base, OAuthTyped
  <1>4. \A k \in Handlers \ {h} : ~(th[k].id = i /\ Refresher(k))
    <2> SUFFICES ASSUME NEW k \in Handlers \ {h}, th[k].id = i, Refresher(k) PROVE FALSE
      OBVIOUS
    <2>1. th[k].op = "api"
      BY DEF Base, Places, Refresher
    <2> QED BY <1>2, <2>1 DEF Overlaps, Others, Refresher
  <1> QED BY <1>1, <1>3, <1>4 DEF Refresher

\* Quiet steps keep a session in sync with its row, unless its refresh is lost
\* or two requests of it cross.
LEMMA QuietInSync == ASSUME Base, Apart, InSync, Carried, Quiet PROVE InSync'
  <1> SUFFICES ASSUME NEW i \in Ids, i \notin lost', i \notin crossed' PROVE Good(i)'
    BY DEF InSync
  <1>1. Good(i)
    BY DEF InSync, Quiet
  <1>2. extra' = extra /\ \A q \in Ptrs : Object(i, q)' => Object(i, q)
    BY QuietObject DEF Quiet
  <1>3. ASSUME NEW t \in burnt', Knows(i, t) PROVE t \in burnt
    <2> SUFFICES ASSUME t \notin burnt PROVE FALSE
      OBVIOUS
    <2>1. t \in Tokens /\ \E j \in Ids \cap lost' : Knows(j, t)
      BY QuietBurns
    <2> QED BY <1>3, <2>1 DEF Apart
  <1>4. ASSUME NEW h \in Handlers, Refresher(h)', th'[h].id = i
        PROVE  \/ Refresher(h) /\ th[h].id = i /\ src'[h].token = src[h].token
               \/ ReadExtra(h) /\ th[h].id = i
    BY <1>4 DEF Quiet, ReadExtra
  <1>5. (\A q, r \in Ptrs : Object(i, q) /\ Object(i, r) => q = r)'
    BY <1>1, <1>2 DEF Good
  <1>6. ASSUME NEW g \in Handlers, NEW h \in Handlers, th'[g].id = i, th'[h].id = i,
               Refresher(g)', Refresher(h)'
        PROVE  g = h
    <2>1. CASE ReadExtra(g) /\ th[g].id = i
      BY <1>6, <2>1, BeginsAlone
    <2>2. CASE ReadExtra(h) /\ th[h].id = i
      BY <1>6, <2>2, BeginsAlone
    <2> QED BY <1>1, <1>4, <1>6, <2>1, <2>2 DEF Good
  <1>7. ASSUME NEW h \in Handlers, th[h].id = i, src[h].at = "adopt"
        PROVE  src'[h].at = "adopt" /\ th'[h].id = i
    BY <1>7 DEF Quiet
  <1>8. ASSUME NEW q \in Ptrs, Object(i, q), extra[q] \in burnt'
        PROVE  \E h \in Handlers : th[h].id = i /\ src[h].at = "adopt"
    <2>1. Knows(i, extra[q])
      BY <1>8 DEF Knows
    <2>2. extra[q] \in burnt
      BY <1>3, <1>8, <2>1
    <2> QED BY <1>1, <1>8, <2>2 DEF Good
  <1>9. \A q \in Ptrs : Object(i, q)' /\ extra'[q] \in burnt' =>
            \E h \in Handlers : th'[h].id = i /\ src'[h].at = "adopt"
    BY <1>2, <1>7, <1>8
  <1>10. ASSUME column'[i] \in burnt'
         PROVE  \E h \in Handlers : th'[h].id = i /\ src'[h].at \in {"adopt", "exec"}
    <2>1. CASE column'[i] = column[i]
      <3>1. column[i] \in burnt
        BY <1>3, <1>10, <2>1 DEF Knows
      <3>2. PICK h \in Handlers : th[h].id = i /\ src[h].at \in {"adopt", "exec"}
        BY <1>1, <3>1 DEF Good, Refreshing
      <3>3. src[h].at = "exec" => column'[i] # src[h].token
        BY <1>1, <2>1, <3>1, <3>2 DEF Good, Refresher
      <3> QED BY <1>7, <3>2, <3>3 DEF Quiet
    <2>2. ASSUME NEW g \in Handlers, th[g].id = i, th[g].ref \in Ptrs, column'[i] = extra[th[g].ref]
          PROVE  \E h \in Handlers : th'[h].id = i /\ src'[h].at \in {"adopt", "exec"}
      <3>1. Object(i, th[g].ref)
        BY <2>2 DEF Object
      <3> QED BY <1>7, <1>8, <1>10, <2>2, <3>1
    <2>3. ASSUME NEW g \in Handlers, th[g].id = i, src[g].at = "exec", column'[i] = src[g].token
          PROVE  FALSE
      <3>1. src[g].token \notin burnt /\ Knows(i, src[g].token)
        BY <1>1, <2>3 DEF Good, Refresher, Knows
      <3> QED BY <1>3, <1>10, <2>3, <3>1
    <2> QED BY <2>1, <2>2, <2>3 DEF Quiet
  <1>11. ASSUME NEW h \in Handlers, th'[h].id = i, Refresher(h)', src'[h].token \in burnt'
         PROVE  FALSE
    <2>1. CASE Refresher(h) /\ th[h].id = i /\ src'[h].token = src[h].token
      <3>1. src[h].token \notin burnt /\ Knows(i, src[h].token)
        BY <1>1, <2>1 DEF Good, Knows
      <3> QED BY <1>3, <1>11, <2>1, <3>1
    <2>2. CASE ReadExtra(h) /\ th[h].id = i
      <3>1. /\ \A k \in Handlers \ {h} : ~(th[k].id = i /\ Refresher(k))
            /\ src'[h].token = extra[th[h].ref] /\ th[h].ref \in Ptrs /\ src[h].at = "token"
        BY <1>11, <2>2, BeginsAlone
      <3>2. Object(i, th[h].ref)
        BY <2>2 DEF Object
      <3>3. PICK k \in Handlers : th[k].id = i /\ src[k].at = "adopt"
        BY <1>8, <1>11, <3>1, <3>2
      <3> QED BY <3>1, <3>3 DEF Refresher
    <2> QED BY <1>4, <1>11, <2>1, <2>2
  <1> QED BY <1>5, <1>6, <1>9, <1>10, <1>11 DEF Good, Refreshing

\* A token is a number the provider has given out.
LEMMA TokenFacts ==
    ASSUME Base
    PROVE  /\ minted \in Nat /\ MaxTokens \in Nat /\ minted <= MaxTokens
           /\ \A t : t \in Tokens <=> t \in Nat /\ 1 <= t /\ t <= MaxTokens
           /\ TypeOK /\ OAuthTyped /\ Places /\ ThreadShape /\ Owner /\ Lineage
           /\ \A h \in Handlers : h \in Procs
           /\ \A h \in Handlers : Unnamed(h) => th[h].ref \in Ptrs /\ th[h].ref \in Reachable
  BY MaxTokensAssumption
  DEF Base, OAuthTyped, Tokens, Below, Typed, ThreadShape, Procs, Unnamed, Reachable

\* A login takes the provider's next token to a new object.
LEMMA ExchangeTokens ==
    ASSUME Base, Apart, InSync, NEW h \in Handlers, NEW u \in Users, Exchange(h, u)
    PROVE  Apart' /\ InSync'
  <1> USE TokenFacts
  <1> DEFINE q == th'[h].ref
  <1>0. \A t : Goto(h, t) => th'[h] = t /\ \A g \in Handlers \ {h} : th'[g] = th[g]
    BY OneMoves
  <1>1. PICK p \in Ptrs : /\ p \notin Reachable /\ th'[h] = At("keys", "login", Nil, p)
                          /\ \A g \in Handlers \ {h} : th'[g] = th[g]
    BY <1>0 DEF Exchange, Register, New
  <1>2. q = p /\ Unnamed(h)' /\ th[h] = Idle
    BY <1>1 DEF At, Unnamed, Exchange, Register
  <1>3. /\ extra' = [extra EXCEPT ![p] = minted + 1] /\ minted' = minted + 1 /\ minted + 1 <= MaxTokens
        /\ UNCHANGED <<column, src, burnt, lost, crossed, cache>>
    BY <1>2 DEF Exchange, Register, ohist
  <1> HIDE DEF q
  <1>4. extra'[p] = minted + 1 /\ \A r \in Ptrs \ {p} : extra'[r] = extra[r]
    BY <1>3 DEF OAuthTyped
  <1>5. ASSUME NEW i \in Ids
        PROVE  /\ \A g \in Handlers : th'[g].id = i <=> th[g].id = i
               /\ \A r \in Ptrs : Object(i, r)' => Object(i, r) /\ extra'[r] = extra[r]
    <2>1. \A g \in Handlers : th'[g].id = i <=> th[g].id = i
      BY <1>1, <1>2, NilAssumption DEF At, Idle
    <2>2. \A g \in Handlers : th'[g].id = i => th'[g].ref = th[g].ref
      BY <1>1, NilAssumption DEF At
    <2>3. \A r \in Ptrs : Object(i, r)' => Object(i, r)
      BY <1>3, <2>1, <2>2 DEF Object
    <2>4. \A r \in Ptrs : Object(i, r) => r # p
      BY <1>1, ObjectsReachable
    <2> QED BY <1>4, <2>1, <2>3, <2>4
  <1>6. \A i \in Ids, t \in Tokens : Knows(i, t)' => Knows(i, t)
    BY <1>3, <1>5 DEF Knows
  <1>7. \A g \in Handlers \ {h} : Unnamed(g)' => Unnamed(g) /\ extra'[th'[g].ref] = extra[th[g].ref]
    BY <1>1, <1>4 DEF Unnamed
  <1>8. Apart'
    <2>1. burnt' \subseteq 1..minted'
      BY <1>3 DEF Apart
    <2>2. \A i \in Ids, t \in Tokens : Knows(i, t)' => t <= minted'
      BY <1>3, <1>6 DEF Apart
    <2>3. \A i, j \in Ids, t \in Tokens : Knows(i, t)' /\ Knows(j, t)' => i = j
      BY <1>6 DEF Apart
    <2>4. \A g \in Handlers : Unnamed(g)' => extra'[th'[g].ref] \in 1..minted'
      <3>1. \A g \in Handlers \ {h} : Unnamed(g)' => extra'[th'[g].ref] \in 1..minted
        BY <1>7 DEF Apart
      <3>2. extra'[th'[h].ref] = minted + 1
        BY <1>2, <1>4 DEF q
      <3> QED BY <1>3, <3>1, <3>2
    <2>5. ASSUME NEW g \in Handlers, NEW t \in Tokens, Unnamed(g)', extra'[th'[g].ref] = t
          PROVE  /\ t \notin burnt'
                 /\ \A i \in Ids : ~Knows(i, t)'
                 /\ \A k \in Handlers \ {g} : Unnamed(k)' => extra'[th'[k].ref] # t
      <3>1. CASE g = h
        <4>1. t = minted + 1
          BY <1>2, <1>4, <2>5, <3>1 DEF q
        <4>2. \A k \in Handlers \ {h} : Unnamed(k)' => extra'[th'[k].ref] <= minted
          BY <1>7 DEF Apart
        <4> QED BY <1>3, <1>6, <3>1, <4>1, <4>2 DEF Apart
      <3>2. CASE g # h
        <4>1. Unnamed(g) /\ extra[th[g].ref] = t
          BY <1>7, <2>5, <3>2
        <4>2. t <= minted
          BY <4>1 DEF Apart
        <4>3. extra'[th'[h].ref] # t
          BY <1>2, <1>4, <4>2 DEF q
        <4> QED BY <1>3, <1>6, <1>7, <4>1, <4>3 DEF Apart
      <3> QED BY <3>1, <3>2
    <2> QED BY <2>1, <2>2, <2>3, <2>4, <2>5 DEF Apart
  <1>9. InSync'
    <2> SUFFICES ASSUME NEW i \in Ids, i \notin lost', i \notin crossed' PROVE Good(i)'
      BY DEF InSync
    <2>1. Good(i)
      BY <1>3 DEF InSync
    <2> QED BY <1>3, <1>5, <2>1 DEF Good, Refresher, Refreshing
  <1> QED BY <1>8, <1>9

\* A lookup finds an object with the token of the row.
LEMMA LoadTokens ==
    ASSUME Base, Apart, InSync, NEW h \in Handlers, Load(h)
    PROVE  Apart' /\ InSync'
  <1> USE TokenFacts
  <1>0. \A t : Goto(h, t) => th'[h] = t /\ \A g \in Handlers \ {h} : th'[g] = th[g]
    BY OneMoves
  <1>1. PICK j \in Ids, p \in Ptrs :
            /\ th[h].id = j /\ th[h].pc = "query" /\ th[h].ref = Nil
            /\ p \notin Reachable /\ th'[h] = At("fill", th[h].op, j, p)
            /\ \A g \in Handlers \ {h} : th'[g] = th[g]
    BY <1>0 DEF Load, QueryHit, New, ThreadShape, Places
  <1>2. th'[h].ref = p /\ th'[h].id = j /\ src[h].at = "off" /\ src[h].token = 0 /\ th[h].op = "api"
    BY <1>1 DEF At, Places
  <1>3. /\ extra' = [extra EXCEPT ![p] = column[j]]
        /\ UNCHANGED <<minted, column, src, burnt, lost, cache>>
        /\ crossed' = IF Others(h, j) # {} \/ cache[j] # Nil THEN crossed \cup {j} ELSE crossed
    BY <1>1, <1>2 DEF Load, QueryHit
  <1>4. extra'[p] = column[j] /\ \A r \in Ptrs \ {p} : extra'[r] = extra[r]
    BY <1>3 DEF OAuthTyped
  <1>5. \A i \in Ids : \A g \in Handlers : th'[g].id = i <=> th[g].id = i
    BY <1>1, <1>2
  <1>6. ASSUME NEW i \in Ids, NEW r \in Ptrs, Object(i, r)'
        PROVE  (Object(i, r) /\ r # p /\ extra'[r] = extra[r]) \/ (i = j /\ r = p)
    <2>1. Object(i, r) \/ (i = j /\ r = p)
      BY <1>1, <1>2, <1>3, <1>6 DEF Object
    <2>2. Object(i, r) => r # p
      BY <1>1, ObjectsReachable
    <2> QED BY <1>4, <2>1, <2>2
  <1>7. \A i \in Ids, t \in Tokens : Knows(i, t)' => Knows(i, t)
    BY <1>3, <1>4, <1>5, <1>6 DEF Knows
  <1>8. \A g \in Handlers : Unnamed(g)' => Unnamed(g) /\ extra'[th'[g].ref] = extra[th[g].ref]
                                            /\ g # h
    <2>1. ~Unnamed(h)'
      BY <1>2, NilAssumption DEF Unnamed
    <2> QED BY <1>1, <1>4, <2>1 DEF Unnamed
  <1>9. Apart'
    <2>1. burnt' \subseteq 1..minted' /\ \A g \in Handlers : Unnamed(g)' => extra'[th'[g].ref] \in 1..minted'
      BY <1>3, <1>8 DEF Apart
    <2>2. \A i \in Ids, t \in Tokens : Knows(i, t)' => t <= minted'
      BY <1>3, <1>7 DEF Apart
    <2>3. \A i, k \in Ids, t \in Tokens : Knows(i, t)' /\ Knows(k, t)' => i = k
      BY <1>7 DEF Apart
    <2>4. ASSUME NEW g \in Handlers, NEW t \in Tokens, Unnamed(g)', extra'[th'[g].ref] = t
          PROVE  /\ t \notin burnt'
                 /\ \A i \in Ids : ~Knows(i, t)'
                 /\ \A k \in Handlers \ {g} : Unnamed(k)' => extra'[th'[k].ref] # t
      <3>1. Unnamed(g) /\ extra[th[g].ref] = t
        BY <1>8, <2>4
      <3> QED BY <1>3, <1>7, <1>8, <3>1 DEF Apart
    <2> QED BY <2>1, <2>2, <2>3, <2>4 DEF Apart
  <1>10. InSync'
    <2> SUFFICES ASSUME NEW i \in Ids, i \notin lost', i \notin crossed' PROVE Good(i)'
      BY DEF InSync
    <2>1. Good(i)
      BY <1>3 DEF InSync
    <2>2. CASE i # j
      BY <1>3, <1>5, <1>6, <2>1, <2>2 DEF Good, Refresher, Refreshing
    <2>3. CASE i = j
      <3>1. Others(h, i) = {} /\ cache[i] = Nil
        BY <1>3, <2>3
      <3>2. \A g \in Handlers \ {h} : th[g].id # i
        <4> SUFFICES ASSUME NEW g \in Handlers \ {h}, th[g].id = i PROVE FALSE
          OBVIOUS
        <4>1. th[g].op = "api"
          BY <1>1, <2>3, NilAssumption DEF Lineage, Places
        <4> QED BY <3>1, <4>1 DEF Others
      <3>3. \A r \in Ptrs : ~Object(i, r)
        BY <1>1, <3>1, <3>2, NilAssumption DEF Object
      <3>4. \A g \in Handlers : th[g].id = i => src[g].at = "off"
        BY <1>2, <3>2
      <3>5. column[i] \notin burnt
        BY <2>1, <3>4 DEF Good, Refreshing
      <3>6. \A r \in Ptrs : Object(i, r)' => r = p /\ extra'[r] \notin burnt'
        BY <1>3, <1>4, <1>6, <2>3, <3>3, <3>5
      <3>7. \A g \in Handlers : th'[g].id = i => src'[g].at = "off"
        BY <1>3, <1>5, <3>4
      <3> QED BY <1>3, <3>5, <3>6, <3>7 DEF Good, Refresher, Refreshing
    <2> QED BY <2>2, <2>3
  <1> QED BY <1>9, <1>10

\* A login draws the id its token will be known by.
LEMMA NewIDTokens ==
    ASSUME Base, Apart, InSync, NEW h \in Handlers, NewID(h), UNCHANGED ovars
    PROVE  Apart' /\ InSync'
  <1> USE TokenFacts
  <1>0. \A t : Goto(h, t) => th'[h] = t /\ \A g \in Handlers \ {h} : th'[g] = th[g]
    BY OneMoves
  <1>1. PICK j \in Ids : /\ j \notin Issued /\ th'[h].id = j /\ th'[h].ref = th[h].ref
                         /\ \A g \in Handlers \ {h} : th'[g] = th[g]
    BY <1>0 DEF NewID, Fresh, At
  <1>2. /\ th[h].op = "login" /\ th[h].id = Nil /\ Unnamed(h)
        /\ th[h].ref \in Ptrs /\ src[h].at = "off" /\ src[h].token = 0
    BY DEF NewID, Places, ThreadShape, Unnamed
  <1>3. UNCHANGED <<extra, column, src, minted, burnt, lost, crossed, cache>>
    BY DEF NewID, ovars, ohist
  \* Nobody has a session that was not issued.
  <1>4. cache[j] = Nil /\ \A g \in Handlers : th[g].id # j
    BY <1>1, NilAssumption DEF Lineage
  <1>5. ASSUME NEW i \in Ids, NEW r \in Ptrs, Object(i, r)'
        PROVE  Object(i, r) \/ (i = j /\ r = th[h].ref)
    BY <1>1, <1>3, <1>5 DEF Object
  <1>6. \A r \in Ptrs : ~Object(j, r)
    BY <1>4, NilAssumption DEF Object
  <1>7. extra[th[h].ref] \in Tokens /\ extra[th[h].ref] \notin burnt
    <2>1. extra[th[h].ref] \in 1..minted
      BY <1>2 DEF Apart
    <2>2. extra[th[h].ref] \in Tokens
      BY <2>1
    <2> QED BY <1>2, <2>2 DEF Apart
  <1>8. ASSUME NEW i \in Ids, NEW t \in Tokens, Knows(i, t)'
        PROVE  Knows(i, t) \/ (i = j /\ t = extra[th[h].ref])
    <2>1. \A g \in Handlers : th'[g].id = i /\ src'[g].token = t => th[g].id = i
      BY <1>1, <1>2, <1>3
    <2> QED BY <1>3, <1>5, <1>8, <2>1 DEF Knows
  <1>9. \A i \in Ids : ~Knows(i, extra[th[h].ref])
    BY <1>2, <1>7 DEF Apart
  <1>10. \A g \in Handlers : Unnamed(g)' => /\ Unnamed(g) /\ g # h
                                            /\ extra'[th'[g].ref] = extra[th[g].ref]
    <2>1. ~Unnamed(h)'
      BY <1>1, NilAssumption DEF Unnamed
    <2> QED BY <1>1, <1>3, <2>1 DEF Unnamed
  <1>11. Apart'
    <2>1. burnt' \subseteq 1..minted' /\ \A g \in Handlers : Unnamed(g)' => extra'[th'[g].ref] \in 1..minted'
      BY <1>3, <1>10 DEF Apart
    <2>2. \A i \in Ids, t \in Tokens : Knows(i, t)' => t <= minted'
      <3>1. extra[th[h].ref] <= minted
        BY <1>2 DEF Apart
      <3> QED BY <1>3, <1>8, <3>1 DEF Apart
    <2>3. \A i, k \in Ids, t \in Tokens : Knows(i, t)' /\ Knows(k, t)' => i = k
      BY <1>8, <1>9 DEF Apart
    <2>4. ASSUME NEW g \in Handlers, NEW t \in Tokens, Unnamed(g)', extra'[th'[g].ref] = t
          PROVE  /\ t \notin burnt'
                 /\ \A i \in Ids : ~Knows(i, t)'
                 /\ \A k \in Handlers \ {g} : Unnamed(k)' => extra'[th'[k].ref] # t
      <3>1. Unnamed(g) /\ extra[th[g].ref] = t /\ g # h
        BY <1>10, <2>4
      <3>2. t # extra[th[h].ref]
        BY <1>2, <3>1 DEF Apart
      <3>3. \A i \in Ids : ~Knows(i, t)'
        BY <1>8, <3>1, <3>2 DEF Apart
      <3> QED BY <1>3, <1>10, <3>1, <3>3 DEF Apart
    <2> QED BY <2>1, <2>2, <2>3, <2>4 DEF Apart
  <1>12. InSync'
    <2> SUFFICES ASSUME NEW i \in Ids, i \notin lost', i \notin crossed' PROVE Good(i)'
      BY DEF InSync
    <2>1. Good(i)
      BY <1>3 DEF InSync
    <2>2. CASE i # j
      <3>1. \A g \in Handlers : th'[g].id = i <=> th[g].id = i
        BY <1>1, <1>2, <2>2, NilAssumption
      <3> QED BY <1>3, <1>5, <2>1, <2>2, <3>1 DEF Good, Refresher, Refreshing
    <2>3. CASE i = j
      <3>1. \A r \in Ptrs : Object(i, r)' => r = th[h].ref
        BY <1>5, <1>6, <2>3
      <3>2. \A g \in Handlers : th'[g].id = i => src'[g].at = "off"
        BY <1>1, <1>2, <1>3, <1>4, <2>3
      <3>3. column[i] \notin burnt
        BY <1>4, <2>1, <2>3 DEF Good, Refreshing
      <3> QED BY <1>3, <1>7, <3>1, <3>2, <3>3 DEF Good, Refresher, Refreshing
    <2> QED BY <2>2, <2>3
  <1> QED BY <1>11, <1>12

\* The provider gives the request its next token, and may burn the one it had.
LEMMA RefreshTokens ==
    ASSUME Base, Apart, InSync, NEW h \in Handlers, RefreshOK(h)
    PROVE  Apart' /\ InSync'
  <1> USE TokenFacts
  <1> DEFINE j == th[h].id
             old == src[h].token
  <1>1. /\ th[h].pc = "serve" /\ old # 0 /\ src[h].at = "refresh"
        /\ minted < MaxTokens
        /\ UNCHANGED <<extra, column, th, lost, crossed, cache>>
        /\ minted' = minted + 1 /\ burnt' \in {burnt, burnt \cup {old}}
        /\ src' = [src EXCEPT ![h] = Source("adopt", minted + 1, Zero)]
    BY DEF RefreshOK, Places, UntouchedStore, ohist, Stage
  <1>2. j \in Ids /\ old \in Tokens /\ Knows(j, old)
    <2>1. j \in Ids
      BY <1>1, Serving DEF Base
    <2>2. old \in Tokens
      BY <1>1 DEF OAuthTyped
    <2> QED BY <2>1, <2>2 DEF Knows
  <1>3. /\ src'[h].at = "adopt" /\ src'[h].token = minted + 1
        /\ \A g \in Handlers \ {h} : src'[g] = src[g]
    BY <1>1 DEF Source, OAuthTyped
  <1> HIDE DEF old
  <1>4. \A i \in Ids, r \in Ptrs : Object(i, r)' <=> Object(i, r)
    BY <1>1 DEF Object
  <1>5. ASSUME NEW i \in Ids, NEW t \in Tokens, Knows(i, t)'
        PROVE  Knows(i, t) \/ (i = j /\ t = minted + 1)
    BY <1>1, <1>3, <1>4, <1>5 DEF Knows
  <1>6. \A i \in Ids : Knows(i, old) => i = j
    BY <1>2 DEF Apart
  <1>7. old <= minted /\ 1 <= old
    BY <1>2 DEF Apart
  <1>8. Apart'
    <2>1. burnt' \subseteq 1..minted'
      BY <1>1, <1>2, <1>7 DEF Apart
    <2>2. \A g \in Handlers : Unnamed(g)' => extra'[th'[g].ref] \in 1..minted'
      BY <1>1 DEF Apart, Unnamed
    <2>3. \A i \in Ids, t \in Tokens : Knows(i, t)' => t <= minted'
      BY <1>1, <1>5 DEF Apart
    <2>4. \A i, k \in Ids, t \in Tokens : Knows(i, t)' /\ Knows(k, t)' => i = k
      <3>1. \A i \in Ids, t \in Tokens : Knows(i, t) => t # minted + 1
        BY DEF Apart
      <3> QED BY <1>5, <3>1 DEF Apart
    <2>5. ASSUME NEW g \in Handlers, NEW t \in Tokens, Unnamed(g)', extra'[th'[g].ref] = t
          PROVE  /\ t \notin burnt'
                 /\ \A i \in Ids : ~Knows(i, t)'
                 /\ \A k \in Handlers \ {g} : Unnamed(k)' => extra'[th'[k].ref] # t
      <3>1. Unnamed(g) /\ extra[th[g].ref] = t
        BY <1>1, <2>5 DEF Unnamed
      <3>2. t # old /\ t <= minted
        BY <1>2, <3>1 DEF Apart
      <3>3. t \notin burnt'
        BY <1>1, <3>1, <3>2 DEF Apart
      <3>4. \A i \in Ids : ~Knows(i, t)'
        BY <1>5, <3>1, <3>2 DEF Apart
      <3>5. \A k \in Handlers \ {g} : Unnamed(k)' => extra'[th'[k].ref] # t
        BY <1>1, <3>1 DEF Apart, Unnamed
      <3> QED BY <3>3, <3>4, <3>5
    <2> QED BY <2>1, <2>2, <2>3, <2>4, <2>5 DEF Apart
  <1>9. InSync'
    <2> SUFFICES ASSUME NEW i \in Ids, i \notin lost', i \notin crossed' PROVE Good(i)'
      BY DEF InSync
    <2>1. Good(i)
      BY <1>1 DEF InSync
    <2>2. \A t \in burnt' : t \in burnt \/ t = old
      BY <1>1
    <2>3. \A g \in Handlers : Refresher(g)' <=> Refresher(g)
      BY <1>1, <1>3 DEF Refresher
    <2>4. (\A q, r \in Ptrs : Object(i, q) /\ Object(i, r) => q = r)'
      BY <1>4, <2>1 DEF Good
    <2>5. \A f, g \in Handlers :
            th'[f].id = i /\ th'[g].id = i /\ Refresher(f)' /\ Refresher(g)' => f = g
      BY <1>1, <2>1, <2>3 DEF Good
    <2>6. ASSUME NEW q \in Ptrs, Object(i, q)', extra'[q] \in burnt'
          PROVE  \E g \in Handlers : th'[g].id = i /\ src'[g].at = "adopt"
      <3>1. CASE extra[q] \in burnt
        BY <1>1, <1>3, <1>4, <2>1, <2>6, <3>1 DEF Good
      <3>2. CASE extra[q] = old
        <4>1. Knows(i, old)
          BY <1>4, <2>6, <3>2 DEF Knows
        <4> QED BY <1>1, <1>3, <1>6, <4>1
      <3> QED BY <1>1, <2>2, <2>6, <3>1, <3>2
    <2>7. ASSUME column'[i] \in burnt'
          PROVE  \E g \in Handlers : th'[g].id = i /\ src'[g].at \in {"adopt", "exec"}
      <3>1. CASE column[i] \in burnt
        BY <1>1, <1>3, <2>1, <3>1 DEF Good, Refreshing
      <3>2. CASE column[i] = old
        <4>1. Knows(i, old)
          BY <3>2 DEF Knows
        <4> QED BY <1>1, <1>3, <1>6, <4>1
      <3> QED BY <1>1, <2>2, <2>7, <3>1, <3>2
    <2>8. ASSUME NEW g \in Handlers, th'[g].id = i, Refresher(g)', src'[g].token \in burnt'
          PROVE  FALSE
      <3>1. CASE g = h
        <4>1. burnt' \subseteq 1..minted
          BY <1>1, <1>7 DEF Apart
        <4> QED BY <1>3, <2>8, <3>1, <4>1
      <3>2. CASE g # h
        <4>1. th[g].id = i /\ Refresher(g) /\ src'[g].token = src[g].token
          BY <1>1, <1>3, <2>3, <2>8, <3>2
        <4>2. src[g].token = old
          BY <2>1, <2>2, <2>8, <4>1 DEF Good
        <4>3. i = j
          BY <1>6, <4>1, <4>2 DEF Knows
        <4> QED BY <1>1, <2>1, <3>2, <4>1, <4>3 DEF Good, Refresher
      <3> QED BY <3>1, <3>2
    <2> QED BY <2>4, <2>5, <2>6, <2>7, <2>8 DEF Good, Refreshing
  <1> QED BY <1>8, <1>9

\* The object takes the token of the request, whose session it is alone.
LEMMA AdoptTokens ==
    ASSUME Base, Apart, InSync, NEW h \in Handlers, Adopt(h)
    PROVE  Apart' /\ InSync'
  <1> USE TokenFacts
  <1>1. PICK j \in Ids, p \in Ptrs, at \in {"exec", "store"} :
            /\ th[h].id = j /\ th[h].ref = p /\ th[h].pc = "serve" /\ src[h].at = "adopt"
            /\ extra' = [extra EXCEPT ![p] = src[h].token]
            /\ src' = [src EXCEPT ![h] = Source(at, src[h].token, heap[p].expiry)]
            /\ Persistent => at = "exec"
    <2>1. th[h].id \in Ids /\ th[h].ref \in Ptrs /\ th[h].pc = "serve"
      BY Serving DEF Adopt, Base, Places
    <2> QED BY <2>1 DEF Adopt, Stage, Source
  <1>2. UNCHANGED <<th, column, minted, burnt, lost, crossed, cache>>
    BY DEF Adopt, ohist, UntouchedStore
  <1>3. /\ src'[h].at = at /\ src'[h].token = src[h].token
        /\ \A g \in Handlers \ {h} : src'[g] = src[g]
        /\ extra'[p] = src[h].token /\ \A r \in Ptrs \ {p} : extra'[r] = extra[r]
    BY <1>1 DEF OAuthTyped, Source
  <1>4. \A i \in Ids, r \in Ptrs : Object(i, r)' <=> Object(i, r)
    BY <1>2 DEF Object
  <1>5. \A i \in Ids : Object(i, p) => i = j
    BY <1>1, NilAssumption DEF Object, Owner
  <1>6. ASSUME NEW i \in Ids, NEW t \in Tokens, Knows(i, t)' PROVE Knows(i, t)
    <2>1. ASSUME NEW r \in Ptrs, Object(i, r)', extra'[r] = t PROVE Knows(i, t)
      <3>1. CASE r = p
        BY <1>1, <1>3, <1>4, <1>5, <2>1, <3>1 DEF Knows
      <3>2. CASE r # p
        BY <1>3, <1>4, <2>1, <3>2 DEF Knows
      <3> QED BY <3>1, <3>2
    <2>2. ASSUME NEW g \in Handlers, th'[g].id = i, src'[g].token = t PROVE Knows(i, t)
      <3>1. src[g].token = t
        BY <1>3, <2>2
      <3> QED BY <1>2, <2>2, <3>1 DEF Knows
    <2>3. column'[i] = t => Knows(i, t)
      BY <1>2 DEF Knows
    <2> QED BY <1>6, <2>1, <2>2, <2>3 DEF Knows
  <1>7. \A g \in Handlers : Unnamed(g)' => Unnamed(g) /\ extra'[th'[g].ref] = extra[th[g].ref]
    <2> SUFFICES ASSUME NEW g \in Handlers, Unnamed(g)'
                 PROVE  Unnamed(g) /\ extra'[th'[g].ref] = extra[th[g].ref]
      OBVIOUS
    <2>1. Unnamed(g) /\ th'[g].ref = th[g].ref
      BY <1>2 DEF Unnamed
    <2>2. th[g].ref # p
      BY <1>1, <2>1, NilAssumption DEF Owner, Unnamed
    <2> QED BY <1>3, <2>1, <2>2
  <1>8. Apart'
    <2>1. burnt' \subseteq 1..minted' /\ \A g \in Handlers : Unnamed(g)' => extra'[th'[g].ref] \in 1..minted'
      BY <1>2, <1>7 DEF Apart
    <2>2. \A i \in Ids, t \in Tokens : Knows(i, t)' => t <= minted'
      BY <1>2, <1>6 DEF Apart
    <2>3. \A i, k \in Ids, t \in Tokens : Knows(i, t)' /\ Knows(k, t)' => i = k
      BY <1>6 DEF Apart
    <2>4. ASSUME NEW g \in Handlers, NEW t \in Tokens, Unnamed(g)', extra'[th'[g].ref] = t
          PROVE  /\ t \notin burnt'
                 /\ \A i \in Ids : ~Knows(i, t)'
                 /\ \A k \in Handlers \ {g} : Unnamed(k)' => extra'[th'[k].ref] # t
      <3>1. Unnamed(g) /\ extra[th[g].ref] = t
        BY <1>7, <2>4
      <3> QED BY <1>2, <1>6, <1>7, <3>1 DEF Apart
    <2> QED BY <2>1, <2>2, <2>3, <2>4 DEF Apart
  <1>9. InSync'
    <2> SUFFICES ASSUME NEW i \in Ids, i \notin lost', i \notin crossed' PROVE Good(i)'
      BY DEF InSync
    <2>1. Good(i)
      BY <1>2 DEF InSync
    <2>2. \A g \in Handlers : Refresher(g)' => Refresher(g) /\ src'[g].token = src[g].token
      BY <1>1, <1>3 DEF Refresher
    <2>3. (\A q, r \in Ptrs : Object(i, q) /\ Object(i, r) => q = r)'
      BY <1>4, <2>1 DEF Good
    <2>4. \A f, g \in Handlers :
            th'[f].id = i /\ th'[g].id = i /\ Refresher(f)' /\ Refresher(g)' => f = g
      BY <1>2, <2>1, <2>2 DEF Good
    <2>5. ASSUME NEW q \in Ptrs, Object(i, q)', extra'[q] \in burnt'
          PROVE  \E g \in Handlers : th'[g].id = i /\ src'[g].at = "adopt"
      <3>1. CASE i = j
        <4>1. q = p
          BY <1>1, <1>4, <2>1, <2>5, <3>1 DEF Good, Object
        <4> QED BY <1>1, <1>2, <1>3, <2>1, <2>5, <3>1, <4>1 DEF Good, Refresher
      <3>2. CASE i # j
        <4>1. Object(i, q) /\ extra[q] \in burnt
          BY <1>2, <1>3, <1>4, <1>5, <2>5, <3>2
        <4>2. PICK g \in Handlers : th[g].id = i /\ src[g].at = "adopt"
          BY <2>1, <4>1 DEF Good
        <4> QED BY <1>1, <1>2, <1>3, <3>2, <4>2
      <3> QED BY <3>1, <3>2
    <2>6. ASSUME column'[i] \in burnt'
          PROVE  \E g \in Handlers : th'[g].id = i /\ src'[g].at \in {"adopt", "exec"}
      <3>1. column[i] \in burnt
        BY <1>2, <2>6
      <3>2. Persistent
        BY <3>1 DEF Base, Statements, Apart
      <3>3. PICK g \in Handlers : th[g].id = i /\ src[g].at \in {"adopt", "exec"}
        BY <2>1, <3>1 DEF Good, Refreshing
      <3>4. src'[g].at \in {"adopt", "exec"}
        BY <1>1, <1>3, <3>2, <3>3
      <3> QED BY <1>2, <3>3, <3>4
    <2>7. \A g \in Handlers : th'[g].id = i /\ Refresher(g)' => src'[g].token \notin burnt'
      BY <1>2, <2>1, <2>2 DEF Good
    <2> QED BY <2>3, <2>4, <2>5, <2>6, <2>7 DEF Good, Refreshing
  <1> QED BY <1>8, <1>9

\* The tokens over a step of any kind.
LEMMA StepTokens == ASSUME Base, Apart, InSync, [OAuthNext]_avars PROVE Apart' /\ InSync'
  <1>1. ASSUME NEW h \in Handlers, Loud(h) PROVE Apart' /\ InSync'
    BY <1>1, ExchangeTokens, LoadTokens, NewIDTokens, RefreshTokens, AdoptTokens DEF Loud
  <1>2. CASE Quiet /\ ~\E h \in Handlers : Loud(h)
    <2>1. Carried
      BY <1>2, StepCarried DEF Loud
    <2> QED BY <1>2, <2>1, QuietApart, QuietInSync
  <1> QED BY <1>1, <1>2, StepQuiet

----------------------------------------------------------------------------
(* The theorems. *)

\* The inductive invariant of this module.
OAuthInv == Base /\ Over /\ Apart /\ InSync

\* The conjunction is inductive.
LEMMA OAuthInvHolds == OAuthSpec => []OAuthInv
  <1>1. OAuthInit => OAuthInv
    <2> SUFFICES ASSUME OAuthInit PROVE OAuthInv
      OBVIOUS
    <2>0. /\ \A i \in Ids : cache[i] = Nil /\ column[i] = 0
          /\ \A h \in Handlers : th[h] = Idle /\ src[h] = Off
          /\ minted = 0 /\ burnt = {} /\ ended = {} /\ holding = {}
      BY DEF OAuthInit, Init, Procs
    <2>1. \A i \in Ids, q \in Ptrs : ~Object(i, q)
      BY <2>0, NilAssumption DEF Object, Idle, At
    <2>2. \A i \in Ids, t \in Tokens : ~Knows(i, t)
      BY <2>0, <2>1, NilAssumption DEF Knows, Idle, At, Tokens
    <2>3. \A h \in Handlers : ~Unnamed(h) /\ ~Refresher(h) /\ src[h].at = "off"
      BY <2>0 DEF Unnamed, Refresher, Idle, At, Off
    <2>4. Over
      BY <2>0, <2>3 DEF Over
    <2>5. Apart
      BY <2>0, <2>2, <2>3 DEF Apart
    <2>6. InSync
      BY <2>0, <2>1, <2>3 DEF InSync, Good
    <2> QED BY <2>4, <2>5, <2>6, InitBase DEF OAuthInv
  <1>2. OAuthInv /\ [OAuthNext]_avars => OAuthInv'
    BY StepBase, StepOver, StepTokens DEF OAuthInv
  <1> QED BY <1>1, <1>2, PTL DEF OAuthSpec

\* The state has its types, and a request is behind FromRequest while it is served.
THEOREM OAuthTypesCorrect == OAuthSpec => []OAuthTypeOK
  <1>1. OAuthInv => OAuthTypeOK
    BY DEF OAuthInv, Base, Below, Typed, OAuthTyped, Places, OAuthTypeOK
  <1> QED BY <1>1, OAuthInvHolds, PTL

\* The row of a session holds a token that can be refreshed, but for a refresh
\* on its way, one that was lost, and requests that met.
THEOREM StoredTokenCorrect == OAuthSpec => []StoredTokenUsable
  <1>1. OAuthInv => StoredTokenUsable
    BY DEF OAuthInv, InSync, Good, StoredTokenUsable
  <1> QED BY <1>1, OAuthInvHolds, PTL

\* Requests one after the other never refresh with a token that is used up.
THEOREM RefreshCorrect == OAuthSpec => []OneRequestRefreshes
  <1>1. OAuthInv => OneRequestRefreshes
    <2> SUFFICES ASSUME OAuthInv, NEW h \in Handlers, src[h].at = "refresh",
                        src[h].token \in burnt, th[h].id \notin lost \cup crossed
                 PROVE  FALSE
      BY DEF OneRequestRefreshes
    <2>1. th[h].id \in Ids
      BY Serving DEF OAuthInv, Base, Places
    <2> QED BY <2>1 DEF OAuthInv, InSync, Good, Refresher
  <1> QED BY <1>1, OAuthInvHolds, PTL

\* A session that ended is alive again only through a request at work when it did,
\* or one that found its object in the cache before the end was saved there.
THEOREM RevivalCorrect == OAuthSpec => []OnlyHeldCopyRevives
  <1>1. OAuthInv => OnlyHeldCopyRevives
    BY DEF OAuthInv, Over, IsOver, OnlyHeldCopyRevives
  <1> QED BY <1>1, OAuthInvHolds, PTL

\* What Sessions proves of copies holds of the sessions the provider renews: a
\* token that is saved never mixes up two users nor outlives what was granted.
THEOREM OAuthCopiesCorrect == OAuthSpec => []CopiesMatchGrant
  <1>1. OAuthInv => CopiesMatchGrant
    BY DEF OAuthInv, Base, Below
  <1> QED BY <1>1, OAuthInvHolds, PTL

\* FromRequest lets a request in as it does in Sessions: as the user the id was
\* issued to, and no later than it was granted, whatever a refresh saved.
THEOREM OAuthAcceptCorrect == OAuthSpec => AcceptWithinGrant
  <1> DEFINE A == \A h \in Handlers : Accepts(h) =>
                    LET i == th[h].id IN
                    /\ i \in Issued
                    /\ heap[th[h].ref].user = grant[i].user
                    /\ now <= grant[i].expiry
  <1>1. OAuthInv /\ [OAuthNext]_avars => [A]_vars
    <2> SUFFICES ASSUME OAuthInv, [OAuthNext]_avars, NEW h \in Handlers, Accepts(h)
                 PROVE  LET i == th[h].id IN
                        /\ i \in Issued
                        /\ heap[th[h].ref].user = grant[i].user
                        /\ now <= grant[i].expiry
      OBVIOUS
    <2>0. Typed /\ CopiesMatchGrant /\ StoreStep /\ h \in Procs
      BY StepKinds DEF OAuthInv, Base, Below, Procs
    <2>1. Next
      <3>1. ASSUME NEW g \in Handlers, th' = th \/ Goto(g, Idle) PROVE ~Accepts(h)
        <4>1. th'[h] = th[h] \/ th'[h] = Idle
          BY <2>0, <3>1 DEF Goto, Typed, TypeOK
        <4> QED BY <4>1 DEF Accepts, Idle, At
      <3>2. ~\E g \in Handlers : Writes(g) \/ Caches(g)
        BY <3>1 DEF Writes, Caches
      <3>3. ~UNCHANGED vars /\ ~\E g \in Handlers : Expires(g)
        BY DEF vars, Expires, Accepts
      <3> QED BY <2>0, <3>2, <3>3 DEF StoreStep
    <2>2. th[h].pc = "check" /\ ~IsExpired(th[h].ref)
      BY <2>0, <2>1, OnlyCheckAccepts
    <2>3. /\ th[h].id \in Ids /\ th[h].ref \in Ptrs
          /\ Copy(heap[th[h].ref], th[h].id)
      BY <2>0, <2>2, NilAssumption DEF Typed, ThreadShape, Holding, CopiesMatchGrant
    <2>4. /\ now \in Int /\ heap[th[h].ref].expiry \in Int
          /\ grant[th[h].id].expiry \in Int
      BY <2>0, <2>3, TimeAssumption DEF Typed, TypeOK, Session, Zero
    <2> QED BY <2>2, <2>3, <2>4 DEF IsExpired, Copy
  <1> QED BY <1>1, OAuthInvHolds, PTL DEF OAuthSpec, AcceptWithinGrant
=============================================================================
