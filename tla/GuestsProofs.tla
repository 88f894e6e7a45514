---------------------------- MODULE GuestsProofs ----------------------------
(***************************************************************************)
(* Theorems about Access and Guests, for every access list and any number  *)
(* of users, groups, sessions and requests.                                *)
(***************************************************************************)
EXTENDS Guests, TLAPS

\* What an access list can grant a guest and not its parent, it grants by name:
\* copying the groups keeps every denial and every permission through a group.
THEOREM GuestExceedsByName ==
    ASSUME NEW acl, NEW parent, UserCanAccess(acl, NewUser(parent))
    PROVE  UserCanAccess(acl, parent) \/ ByName(acl, parent)
  <1> DEFINE guest == NewUser(parent)
  <1>1. guest.name = Guest /\ guest.groups = parent.groups \cup {Guest}
    BY DEF NewUser
  <1>2. ~HasUser(acl.deny, guest)
    BY DEF UserCanAccess
  <1>3. ~HasUser(acl.deny, parent) \/ parent.name \in acl.deny.users
    BY <1>1, <1>2 DEF HasUser, HasGroup
  <1>4. HasUser(acl.allow, guest) =>
            HasUser(acl.allow, parent) \/ Guest \in acl.allow.users \cup acl.allow.groups
    BY <1>1 DEF HasUser, HasGroup
  <1>5. HasUser(acl.allow, guest) \/ acl.default \in {"allow", ""}
    BY DEF UserCanAccess
  <1> QED BY <1>3, <1>4, <1>5 DEF UserCanAccess, ByName

\* Fewer groups grant no more, unless a group that is missing is denied.
LEMMA FewerGroups ==
    ASSUME NEW acl, NEW n, NEW groups, NEW all, groups \subseteq all,
           all \cap acl.deny.groups = {}, UserCanAccess(acl, [name |-> n, groups |-> groups])
    PROVE  UserCanAccess(acl, [name |-> n, groups |-> all])
  <1>1. HasUser(acl.allow, [name |-> n, groups |-> groups])
            => HasUser(acl.allow, [name |-> n, groups |-> all])
    BY DEF HasUser, HasGroup
  <1>2. ~HasUser(acl.deny, [name |-> n, groups |-> all])
    BY DEF UserCanAccess, HasUser, HasGroup
  <1> QED BY <1>1, <1>2 DEF UserCanAccess

----------------------------------------------------------------------------
(* The invariant. *)

\* The store holds a session as it was made, for a guest or for a user.
SessMatch ==
    \A i \in Ids : sess[i] # Nil =>
        /\ sess[i].extra # Nil => sess[i].extra.user.name = Guest
        /\ invited[i] = Nil => sess[i].extra = Nil /\ sess[i].name = owner[i]
        /\ invited[i] # Nil =>
            /\ sess[i].name = Guest
            /\ sess[i].expiry = invited[i].expiry
            /\ sess[i].extra # Nil => sess[i].extra.user = NewUser(invited[i].parent)

\* The groups in the stores are groups the account had.
HadMatch ==
    \A n \in Names :
        /\ accounts[n] # Absent => accounts[n] \in had[n]
        /\ ucache[n] # Absent => WasIn(n, ucache[n])

\* Whom a request acts as: with an id that somebody logged in for, as that user;
\* with a guest's id, as the guest of that pass, or as the account called guest.
UserMatch ==
    \A h \in Handlers :
        LET u == th[h].user
            pass == invited[th[h].id]
        IN
        /\ th[h].pc \in {"user", "act"} /\ pass = Nil => u.name = owner[th[h].id]
        /\ th[h].pc = "act" /\ pass = Nil => WasIn(u.name, u.groups)
        /\ th[h].pc = "user" /\ pass # Nil => u.name = Guest
        /\ th[h].pc = "act" /\ pass # Nil =>
            u = NewUser(pass.parent) \/ (u.name = Guest /\ WasIn(Guest, u.groups))

\* A pass was made in a session, before its own.
ByMatch == \A i \in Ids : invited[i] # Nil => invited[i].by \in issued

GuestInv == TypeOK /\ SessMatch /\ HadMatch /\ UserMatch /\ ByMatch /\ GuestsHaveParents

\* Nobody is logged in at first.
LEMMA InitInv == Init => GuestInv
  <1> SUFFICES ASSUME Init PROVE GuestInv
    OBVIOUS
  <1> USE DEF Init
  <1>1. TypeOK
    <2>1. \A n \in Names : accounts[n] # Absent => accounts[n] \in SUBSET GroupNames
      BY DEF Account
    <2>2. had \in [Names -> SUBSET SUBSET GroupNames]
      BY <2>1
    <2>3. ucache \in [Names -> Account]
      BY DEF Account
    <2>4. th \in [Handlers -> [pc : {"idle", "guest", "password", "user", "act"},
                              id : Ids \cup {Nil}, user : User \cup {Nobody}]]
      BY DEF Idle
    <2> QED BY BoundAssumption, <2>2, <2>3, <2>4 DEF TypeOK, Idle
  <1>2. SessMatch /\ ByMatch /\ GuestsHaveParents
    BY DEF SessMatch, ByMatch, GuestsHaveParents
  <1>3. HadMatch
    BY DEF HadMatch
  <1>4. UserMatch
    BY DEF UserMatch, Idle
  <1> QED BY <1>1, <1>2, <1>3, <1>4 DEF GuestInv

\* Every step keeps the types.
LEMMA StepTyped == TypeOK /\ [Next]_vars => TypeOK'
  <1> SUFFICES ASSUME TypeOK, [Next]_vars PROVE TypeOK'
    OBVIOUS
  <1> USE LifetimeAssumption, BoundAssumption, GuestAssumption, NilAssumption
      DEF TypeOK, Account, User
  <1>b. ASSUME NEW n \in Names, NEW groups \in Account, FillUser(n, groups)
        PROVE  ucache' \in [Names -> Account]
    BY <1>b DEF FillUser
  <1>c. ASSUME NEW i \in Ids, NEW s \in Session, NewSession(i, s)
        PROVE  /\ issued' \in SUBSET Ids
               /\ sess' \in [Ids -> Session \cup {Nil}]
               /\ \A k \in Ids : k \notin issued' => k \notin issued /\ sess'[k] = sess[k]
               /\ issued \subseteq issued'
    BY <1>c DEF NewSession, Fresh
  <1>1. ASSUME NEW n \in Names, NEW i \in Ids, Login(n, i) PROVE TypeOK'
    <2> DEFINE s == [name |-> n, expiry |-> now + Lifetime, extra |-> Nil]
    <2>1. s \in Session /\ NewSession(i, s)
      BY <1>1 DEF Login, Session
    <2> HIDE DEF s
    <2>2. /\ issued' \in SUBSET Ids
          /\ sess' \in [Ids -> Session \cup {Nil}]
          /\ \A k \in Ids : k \notin issued' => k \notin issued /\ sess'[k] = sess[k]
          /\ issued \subseteq issued'
      BY <2>1, <1>c
    <2>3. ucache' \in [Names -> Account]
      BY <1>1, <1>b DEF Login
    <2> QED BY <1>1, <2>2, <2>3 DEF Login
  <1>2. ASSUME NEW n \in Names, LoginFails(n) PROVE TypeOK'
    <2>1. ucache' \in [Names -> Account]
      BY <1>2, <1>b DEF LoginFails
    <2> QED BY <1>2, <2>1 DEF LoginFails
  <1>3. ASSUME NEW h \in Handlers, NEW i \in Ids, Begin(h, i) PROVE TypeOK'
    BY <1>3 DEF Begin, At
  <1>4. ASSUME NEW h \in Handlers, NEW i \in Ids, Invite(h, i) PROVE TypeOK'
    <2> DEFINE parent == th[h].user
               extra == [user |-> NewUser(parent), parent |-> parent.name,
                         expiry |-> now + GuestLifetime]
               s == [name |-> Guest, expiry |-> GuestExpiry, extra |-> extra]
    <2>1. th[h].user \in User /\ NewUser(th[h].user) \in User
      BY <1>4 DEF Invite, NewUser
    <2>2. s \in Session /\ NewSession(i, s)
      BY <1>4, <2>1 DEF Invite, Session, Extra, GuestExpiry
    <2> HIDE DEF s
    <2>3. /\ issued' \in SUBSET Ids
          /\ sess' \in [Ids -> Session \cup {Nil}]
          /\ \A k \in Ids : k \notin issued' => k \notin issued /\ sess'[k] = sess[k]
          /\ issued \subseteq issued' /\ i \in issued'
      BY <2>2, <1>c DEF NewSession
    <2>5. th[h].id \in Ids
      BY <1>4 DEF Invite
    <2>4. /\ invited' \in [Ids -> Pass \cup {Nil}]
          /\ \A k \in Ids : k \notin issued' => invited'[k] = Nil
      BY <1>4, <2>1, <2>3, <2>5 DEF Invite, Pass
    <2> QED BY <1>4, <2>3, <2>4 DEF Invite, Return, Idle
  <1>5. ASSUME NEW h \in Handlers, GuestCheck(h) PROVE TypeOK'
    <2>1. sess[th[h].id].extra.user \in User
      BY <1>5 DEF GuestCheck, Live, Session, Extra
    <2> QED BY <1>5, <2>1 DEF GuestCheck, At, Return, Idle
  <1>6. ASSUME NEW h \in Handlers, PassThru(h) PROVE TypeOK'
    BY <1>6 DEF PassThru, At
  <1>7. ASSUME NEW h \in Handlers, PasswordCheck(h) PROVE TypeOK'
    <2>1. Live(th[h].id) => [name |-> sess[th[h].id].name, groups |-> {}] \in User
      BY <1>7 DEF PasswordCheck, Live, Session
    <2>2. th[h].id \in issued /\ issued \subseteq Ids
      BY <1>7 DEF PasswordCheck
    <2> DEFINE u == [name |-> sess[th[h].id].name, groups |-> {}]
    <2>3. (At(h, "user", th[h].id, u) /\ u \in User) \/ Return(h)
      BY <1>7, <2>1 DEF PasswordCheck
    <2> HIDE DEF u
    <2>4. /\ th' \in [Handlers -> [pc : {"idle", "guest", "password", "user", "act"},
                                  id : Ids \cup {Nil}, user : User \cup {Nobody}]]
          /\ \A g \in Handlers :
              /\ th'[g].pc # "idle" => th'[g].id \in issued
              /\ th'[g].pc \in {"user", "act"} => th'[g].user \in User
      <3>1. CASE At(h, "user", th[h].id, u) /\ u \in User
        BY <3>1, <2>2 DEF At
      <3>2. CASE Return(h)
        BY <3>2 DEF Return, Idle
      <3> QED BY <2>3, <3>1, <3>2
    <2> QED BY <1>7, <2>4 DEF PasswordCheck
  <1>8. ASSUME NEW h \in Handlers, UserLookup(h) PROVE TypeOK'
    <2> DEFINE n == th[h].user.name
    <2>1. n \in Names
      BY <1>8 DEF UserLookup
    <2>3. ucache' \in [Names -> Account]
      BY <1>8, <2>1, <1>b DEF UserLookup
    <2>4. th[h].id \in issued /\ issued \subseteq Ids
      BY <1>8 DEF UserLookup
    <2> HIDE DEF n
    <2>5. (\E u \in User : At(h, "act", th[h].id, u)) \/ Return(h)
      <3>1. ASSUME NEW groups \in SUBSET GroupNames,
                   At(h, "act", th[h].id, [name |-> n, groups |-> groups])
            PROVE  \E u \in User : At(h, "act", th[h].id, u)
        <4>1. [name |-> n, groups |-> groups] \in User
          BY <2>1
        <4> QED BY <3>1, <4>1
      <3> QED BY <1>8, <3>1 DEF UserLookup, n
    <2>6. /\ th' \in [Handlers -> [pc : {"idle", "guest", "password", "user", "act"},
                                  id : Ids \cup {Nil}, user : User \cup {Nobody}]]
          /\ \A g \in Handlers :
              /\ th'[g].pc # "idle" => th'[g].id \in issued
              /\ th'[g].pc \in {"user", "act"} => th'[g].user \in User
      <3>1. ASSUME NEW u \in User, At(h, "act", th[h].id, u)
            PROVE  /\ th' \in [Handlers -> [pc : {"idle", "guest", "password", "user", "act"},
                                            id : Ids \cup {Nil}, user : User \cup {Nobody}]]
                   /\ \A g \in Handlers :
                        /\ th'[g].pc # "idle" => th'[g].id \in issued
                        /\ th'[g].pc \in {"user", "act"} => th'[g].user \in User
        BY <3>1, <2>4 DEF At
      <3>2. CASE Return(h)
        BY <3>2 DEF Return, Idle
      <3> QED BY <2>5, <3>1, <3>2
    <2> QED BY <1>8, <2>3, <2>6 DEF UserLookup
  <1>9. ASSUME NEW h \in Handlers, Answer(h) PROVE TypeOK'
    BY <1>9 DEF Answer, Return, Idle
  <1>10. ASSUME NEW i \in Ids, Lose(i) PROVE TypeOK'
    BY <1>10 DEF Lose
  <1>11. ASSUME NEW n \in Names, NEW groups \in Account, ChangeAccount(n, groups)
         PROVE  TypeOK'
    BY <1>11 DEF ChangeAccount
  <1>12. ASSUME NEW n \in Names, EvictUser(n) PROVE TypeOK'
    BY <1>12 DEF EvictUser
  <1>13. CASE Tick
    BY <1>13 DEF Tick
  <1>14. CASE UNCHANGED vars
    BY <1>14 DEF vars
  <1> QED
    BY <1>1, <1>2, <1>3, <1>4, <1>5, <1>6, <1>7, <1>8, <1>9, <1>10, <1>11, <1>12, <1>13, <1>14
    DEF Next

----------------------------------------------------------------------------
(* What every step leaves alone. *)

\* Nobody forgets the groups an account had, or whose pass an id is: only an
\* invitation makes a pass, and only for an id that was not issued.
LEMMA StepHistory ==
    ASSUME TypeOK, [Next]_vars
    PROVE  /\ \A n \in Names : had[n] \subseteq had'[n]
           /\ \A i \in issued : invited'[i] = invited[i] /\ owner'[i] = owner[i]
           /\ issued \subseteq issued'
  <1> USE DEF TypeOK
  <1>1. ASSUME NEW n \in Names, NEW i \in Ids, Login(n, i)
        PROVE  /\ had' = had /\ invited' = invited /\ issued \subseteq issued'
               /\ \A k \in issued : owner'[k] = owner[k]
    BY <1>1 DEF Login, NewSession, Fresh
  <1>2. ASSUME NEW h \in Handlers, NEW i \in Ids, Invite(h, i)
        PROVE  /\ had' = had /\ issued \subseteq issued' /\ owner' = owner
               /\ \A k \in issued : invited'[k] = invited[k]
    BY <1>2 DEF Invite, NewSession, Fresh
  <1>3. ASSUME NEW n \in Names, NEW groups \in Account, ChangeAccount(n, groups)
        PROVE  /\ \A m \in Names : had[m] \subseteq had'[m]
               /\ invited' = invited /\ issued' = issued /\ owner' = owner
    BY <1>3 DEF ChangeAccount
  <1>4. ASSUME NEW h \in Handlers,
               GuestCheck(h) \/ PassThru(h) \/ PasswordCheck(h) \/ UserLookup(h) \/ Answer(h)
        PROVE  had' = had /\ invited' = invited /\ issued' = issued /\ owner' = owner
    BY <1>4 DEF GuestCheck, PassThru, PasswordCheck, UserLookup, Answer
  <1>5. ASSUME NEW h \in Handlers, NEW i \in Ids, Begin(h, i)
        PROVE  had' = had /\ invited' = invited /\ issued' = issued /\ owner' = owner
    BY <1>5 DEF Begin
  <1>6. ASSUME NEW n \in Names, LoginFails(n) \/ EvictUser(n)
        PROVE  had' = had /\ invited' = invited /\ issued' = issued /\ owner' = owner
    BY <1>6 DEF LoginFails, EvictUser
  <1>7. ASSUME NEW i \in Ids, Lose(i)
        PROVE  had' = had /\ invited' = invited /\ issued' = issued /\ owner' = owner
    BY <1>7 DEF Lose
  <1>8. ASSUME Tick \/ UNCHANGED vars
        PROVE  had' = had /\ invited' = invited /\ issued' = issued /\ owner' = owner
    BY <1>8 DEF Tick, vars
  <1> QED
    BY <1>1, <1>2, <1>3, <1>4, <1>5, <1>6, <1>7, <1>8 DEF Next

----------------------------------------------------------------------------
(* The parts of the invariant are inductive together. *)

\* The store holds a guest's session as it was made, or lost it.
LEMMA StepSess ==
    ASSUME GuestInv, [Next]_vars
    PROVE  SessMatch'
  <1> USE DEF GuestInv, TypeOK, SessMatch
  <1>1. ASSUME NEW n \in Names, NEW i \in Ids, Login(n, i) PROVE SessMatch'
    BY <1>1 DEF Login, NewSession, Fresh
  <1>2. ASSUME NEW h \in Handlers, NEW i \in Ids, Invite(h, i) PROVE SessMatch'
    <2> DEFINE parent == th[h].user
               extra == [user |-> NewUser(parent), parent |-> parent.name,
                         expiry |-> now + GuestLifetime]
               s == [name |-> Guest, expiry |-> now + GuestLifetime, extra |-> extra]
               pass == [parent |-> parent, by |-> th[h].id, expiry |-> now + GuestLifetime]
    <2>0. pass # Nil
      <3>1. th[h].user \in User /\ th[h].id \in Ids
        BY <1>2 DEF Invite
      <3>2. pass \in Pass
        BY <3>1, LifetimeAssumption, BoundAssumption DEF Pass
      <3> QED BY <3>2, NilIsNoPass
    <2>1. /\ sess' = [sess EXCEPT ![i] = s] /\ invited' = [invited EXCEPT ![i] = pass]
          /\ s.name = Guest /\ s.expiry = pass.expiry
          /\ s.extra.user = NewUser(pass.parent) /\ s.extra.user.name = Guest
      BY <1>2 DEF Invite, NewSession, GuestExpiry, NewUser
    <2> HIDE DEF s, pass
    <2>2. sess'[i] = s /\ invited'[i] = pass /\ owner' = owner
      BY <1>2, <2>1 DEF Invite
    <2>3. \A k \in Ids : k # i => sess'[k] = sess[k] /\ invited'[k] = invited[k]
      BY <2>1
    <2> QED BY <2>0, <2>1, <2>2, <2>3
  <1>3. ASSUME NEW i \in Ids, Lose(i) PROVE SessMatch'
    BY <1>3 DEF Lose
  <1>4. ASSUME UNCHANGED <<sess, invited, owner>> PROVE SessMatch'
    BY <1>4
  <1>5. ASSUME NEW h \in Handlers, NEW i \in Ids, Begin(h, i) PROVE SessMatch'
    BY <1>5, <1>4 DEF Begin
  <1>6. ASSUME NEW h \in Handlers,
               GuestCheck(h) \/ PassThru(h) \/ PasswordCheck(h) \/ UserLookup(h) \/ Answer(h)
        PROVE  SessMatch'
    BY <1>6, <1>4 DEF GuestCheck, PassThru, PasswordCheck, UserLookup, Answer
  <1>7. ASSUME NEW n \in Names, LoginFails(n) \/ EvictUser(n) PROVE SessMatch'
    BY <1>7, <1>4 DEF LoginFails, EvictUser
  <1>8. ASSUME NEW n \in Names, NEW groups \in Account, ChangeAccount(n, groups)
        PROVE  SessMatch'
    BY <1>8, <1>4 DEF ChangeAccount
  <1>9. ASSUME Tick \/ UNCHANGED vars PROVE SessMatch'
    BY <1>9, <1>4 DEF Tick, vars
  <1> QED
    BY <1>1, <1>2, <1>3, <1>5, <1>6, <1>7, <1>8, <1>9 DEF Next

\* The groups in the stores are groups the account had.
LEMMA StepHad ==
    ASSUME GuestInv, [Next]_vars
    PROVE  HadMatch'
  <1> USE DEF GuestInv, TypeOK, HadMatch
  <1>w. ASSUME had' = had PROVE \A n, groups : WasIn(n, groups)' <=> WasIn(n, groups)
    BY <1>w DEF WasIn
  <1>1. ASSUME NEW n \in Names, NEW groups \in Account, FillUser(n, groups),
               UNCHANGED <<accounts, had>>
        PROVE  HadMatch'
    <2>1. groups # Absent => WasIn(n, groups)
      BY <1>1 DEF FillUser, Known, ReadUser, WasIn
    <2> QED BY <1>1, <1>w, <2>1 DEF FillUser
  <1>2. ASSUME UNCHANGED <<accounts, ucache, had>> PROVE HadMatch'
    BY <1>2, <1>w
  <1>3. ASSUME NEW n \in Names, NEW i \in Ids, Login(n, i) PROVE HadMatch'
    BY <1>3, <1>1 DEF Login, Account
  <1>4. ASSUME NEW n \in Names, LoginFails(n) PROVE HadMatch'
    BY <1>4, <1>1 DEF LoginFails
  <1>5. ASSUME NEW h \in Handlers, UserLookup(h) PROVE HadMatch'
    <2>1. th[h].user.name \in Names
      BY <1>5 DEF UserLookup, User
    <2>2. (SUBSET GroupNames) \cup {Absent} = Account
      BY DEF Account
    <2> QED BY <1>5, <2>1, <2>2, <1>1 DEF UserLookup
  <1>6. ASSUME NEW h \in Handlers, GuestCheck(h) \/ PassThru(h) \/ PasswordCheck(h) \/ Answer(h)
        PROVE  HadMatch'
    BY <1>6, <1>2 DEF GuestCheck, PassThru, PasswordCheck, Answer
  <1>7. ASSUME NEW h \in Handlers, NEW i \in Ids, Begin(h, i) \/ Invite(h, i) PROVE HadMatch'
    BY <1>7, <1>2 DEF Begin, Invite
  <1>8. ASSUME NEW i \in Ids, Lose(i) PROVE HadMatch'
    BY <1>8, <1>2 DEF Lose
  <1>9. ASSUME NEW n \in Names, NEW groups \in Account, ChangeAccount(n, groups)
        PROVE  HadMatch'
    <2>1. \A m \in Names : had[m] \subseteq had'[m]
      BY <1>9 DEF ChangeAccount
    <2>2. \A m \in Names : \A all : WasIn(m, all) => WasIn(m, all)'
      BY <2>1 DEF WasIn
    <2> QED BY <1>9, <2>2 DEF ChangeAccount
  <1>10. ASSUME NEW n \in Names, EvictUser(n) PROVE HadMatch'
    BY <1>10, <1>w DEF EvictUser
  <1>11. ASSUME Tick \/ UNCHANGED vars PROVE HadMatch'
    BY <1>11, <1>2 DEF Tick, vars
  <1> QED
    BY <1>3, <1>4, <1>5, <1>6, <1>7, <1>8, <1>9, <1>10, <1>11 DEF Next

\* What UserMatch says of one request.
UserMatchOf(h) ==
    LET u == th[h].user
        pass == invited[th[h].id]
    IN
    /\ th[h].pc \in {"user", "act"} /\ pass = Nil => u.name = owner[th[h].id]
    /\ th[h].pc = "act" /\ pass = Nil => WasIn(u.name, u.groups)
    /\ th[h].pc = "user" /\ pass # Nil => u.name = Guest
    /\ th[h].pc = "act" /\ pass # Nil =>
        u = NewUser(pass.parent) \/ (u.name = Guest /\ WasIn(Guest, u.groups))

\* A request acts as its account, or as the guest of its pass.
LEMMA StepUser ==
    ASSUME GuestInv, [Next]_vars
    PROVE  UserMatch'
  <1> USE GuestAssumption
  <1>h. /\ \A n \in Names : had[n] \subseteq had'[n]
        /\ \A i \in issued : invited'[i] = invited[i] /\ owner'[i] = owner[i]
    BY StepHistory DEF GuestInv
  <1>u. UserMatch <=> \A h \in Handlers : UserMatchOf(h)
    BY DEF UserMatch, UserMatchOf
  <1>v. UserMatch' <=> \A h \in Handlers : UserMatchOf(h)'
    BY DEF UserMatch, UserMatchOf
  \* A request that stays where it is.
  <1>s. ASSUME NEW h \in Handlers, th'[h] = th[h] PROVE UserMatchOf(h)'
    <2>1. UserMatchOf(h)
      BY <1>u DEF GuestInv
    <2>2. th[h].pc \in {"user", "act"} => th[h].user.name \in Names /\ th[h].id \in issued
      BY DEF GuestInv, TypeOK, User
    <2> QED BY <1>s, <1>h, <2>1, <2>2 DEF UserMatchOf, WasIn
  \* A request that stops or passes on knows no user.
  <1>i. ASSUME NEW h \in Handlers, th'[h].pc \notin {"user", "act"} PROVE UserMatchOf(h)'
    BY <1>i DEF UserMatchOf
  <1>o. ASSUME NEW h \in Handlers, NEW g \in Handlers, g # h,
               NEW t, th' = [th EXCEPT ![h] = t]
        PROVE  th'[g] = th[g]
    BY <1>o DEF GuestInv, TypeOK
  <1>t. ASSUME NEW h \in Handlers, NEW t, th' = [th EXCEPT ![h] = t] PROVE th'[h] = t
    BY <1>t DEF GuestInv, TypeOK
  <1>1. ASSUME th' = th PROVE UserMatch'
    BY <1>1, <1>s, <1>v
  <1>2. ASSUME NEW h \in Handlers, Return(h) PROVE UserMatch'
    BY <1>2, <1>o, <1>t, <1>s, <1>i, <1>v DEF Return, Idle
  <1>3. ASSUME NEW h \in Handlers, NEW i \in Ids, Begin(h, i) PROVE UserMatch'
    BY <1>3, <1>o, <1>t, <1>s, <1>i, <1>v DEF Begin, At
  <1>4. ASSUME NEW h \in Handlers, PassThru(h) PROVE UserMatch'
    BY <1>4, <1>o, <1>t, <1>s, <1>i, <1>v DEF PassThru, At
  <1>5. ASSUME NEW h \in Handlers, GuestCheck(h) PROVE UserMatch'
    <2>1. CASE Return(h)
      BY <2>1, <1>2
    <2> DEFINE i == th[h].id
    <2>2. CASE At(h, "act", i, sess[i].extra.user)
      <3>1. i \in Ids /\ sess[i] # Nil /\ sess[i].extra # Nil /\ invited' = invited
        BY <1>5 DEF GuestCheck, Live, GuestInv, TypeOK
      <3>2. invited[i] # Nil /\ sess[i].extra.user = NewUser(invited[i].parent)
        BY <3>1 DEF GuestInv, SessMatch
      <3>3. th'[h] = [pc |-> "act", id |-> i, user |-> sess[i].extra.user]
        BY <2>2, <1>t DEF At
      <3>4. UserMatchOf(h)'
        BY <3>1, <3>2, <3>3 DEF UserMatchOf
      <3> QED BY <2>2, <3>4, <1>o, <1>s, <1>v DEF At
    <2> QED BY <1>5, <2>1, <2>2 DEF GuestCheck
  <1>6. ASSUME NEW h \in Handlers, PasswordCheck(h) PROVE UserMatch'
    <2>1. CASE Return(h)
      BY <2>1, <1>2
    <2> DEFINE i == th[h].id
               u == [name |-> sess[i].name, groups |-> {}]
    <2>2. CASE Live(i) /\ At(h, "user", i, u)
      <3>1. i \in Ids /\ sess[i] # Nil /\ invited' = invited /\ owner' = owner
        BY <1>6, <2>2 DEF PasswordCheck, Live, GuestInv, TypeOK
      <3>2. /\ invited[i] # Nil => u.name = Guest
            /\ invited[i] = Nil => u.name = owner[i]
        BY <3>1 DEF GuestInv, SessMatch
      <3>3. th'[h] = [pc |-> "user", id |-> i, user |-> u]
        BY <2>2, <1>t DEF At
      <3> HIDE DEF u
      <3>4. UserMatchOf(h)'
        BY <3>1, <3>2, <3>3 DEF UserMatchOf
      <3> QED BY <2>2, <3>4, <1>o, <1>s, <1>v DEF At
    <2> QED BY <1>6, <2>1, <2>2 DEF PasswordCheck
  <1>7. ASSUME NEW h \in Handlers, UserLookup(h) PROVE UserMatch'
    <2>1. CASE Return(h)
      BY <2>1, <1>2
    <2> DEFINE i == th[h].id
               n == th[h].user.name
    <2>2. ASSUME NEW groups \in SUBSET GroupNames, FillUser(n, groups),
                 At(h, "act", i, [name |-> n, groups |-> groups])
          PROVE  UserMatch'
      <3> DEFINE u == [name |-> n, groups |-> groups]
      <3>1. n \in Names /\ invited' = invited /\ had' = had /\ owner' = owner
        BY <1>7 DEF UserLookup, GuestInv, TypeOK, User
      <3>2. \E all \in had[n] : groups \subseteq all
        <4>1. groups # Absent
          BY NilAssumption DEF Absent
        <4>2. CASE ucache[n] # Absent
          BY <2>2, <3>1, <4>2 DEF FillUser, Known, GuestInv, HadMatch, WasIn
        <4>3. CASE ucache[n] = Absent
          <5>1. accounts[n] # Absent /\ groups \subseteq accounts[n]
            BY <2>2, <4>1, <4>3 DEF FillUser, Known, ReadUser
          <5> QED BY <3>1, <5>1 DEF GuestInv, HadMatch
        <4> QED BY <4>2, <4>3
      <3>3. /\ invited[i] # Nil => n = Guest
            /\ invited[i] = Nil => n = owner[i]
        BY <1>7, <1>u DEF UserLookup, UserMatchOf, GuestInv
      <3>4. th'[h] = [pc |-> "act", id |-> i, user |-> u]
        BY <2>2, <1>t DEF At
      <3>5. UserMatchOf(h)'
        BY <3>1, <3>2, <3>3, <3>4 DEF UserMatchOf, WasIn
      <3> QED BY <2>2, <3>5, <1>o, <1>s, <1>v DEF At
    <2> QED BY <1>7, <2>1, <2>2 DEF UserLookup
  <1>8. ASSUME NEW h \in Handlers, NEW i \in Ids, Invite(h, i) PROVE UserMatch'
    BY <1>8, <1>2 DEF Invite
  <1>9. ASSUME NEW h \in Handlers, Answer(h) PROVE UserMatch'
    BY <1>9, <1>2 DEF Answer
  <1>10. ASSUME NEW n \in Names, NEW i \in Ids, Login(n, i) PROVE UserMatch'
    BY <1>10, <1>1 DEF Login
  <1>11. ASSUME NEW n \in Names, LoginFails(n) \/ EvictUser(n) PROVE UserMatch'
    BY <1>11, <1>1 DEF LoginFails, EvictUser
  <1>12. ASSUME NEW n \in Names, NEW groups \in Account, ChangeAccount(n, groups)
         PROVE  UserMatch'
    BY <1>12, <1>1 DEF ChangeAccount
  <1>13. ASSUME NEW i \in Ids, Lose(i) PROVE UserMatch'
    BY <1>13, <1>1 DEF Lose
  <1>14. ASSUME Tick \/ UNCHANGED vars PROVE UserMatch'
    BY <1>14, <1>1 DEF Tick, vars
  <1> QED
    BY <1>3, <1>4, <1>5, <1>6, <1>7, <1>8, <1>9, <1>10, <1>11, <1>12, <1>13, <1>14 DEF Next

\* A new pass is made in a session that was opened with a password.
LEMMA NewPass ==
    ASSUME GuestInv, NEW h \in Handlers, NEW i \in Ids, Invite(h, i)
    PROVE  /\ th[h].id \in issued /\ i \notin issued
           /\ invited[th[h].id] = Nil /\ owner[th[h].id] = th[h].user.name
           /\ invited'[i] = [parent |-> th[h].user, by |-> th[h].id, expiry |-> now + GuestLifetime]
           /\ \A k \in Ids : k # i => invited'[k] = invited[k]
           /\ owner' = owner /\ issued \subseteq issued'
  <1>1. th[h].pc = "act" /\ th[h].user.name # Guest
    BY DEF Invite, MayInvite
  <1>2. invited[th[h].id] = Nil
    <2>1. \A parent : NewUser(parent).name = Guest
      BY DEF NewUser
    <2> QED BY <1>1, <2>1 DEF GuestInv, UserMatch
  <1>3. owner[th[h].id] = th[h].user.name /\ th[h].id \in issued
    BY <1>1, <1>2 DEF GuestInv, UserMatch, TypeOK
  <1> QED BY <1>2, <1>3 DEF Invite, NewSession, Fresh, GuestInv, TypeOK

\* A pass is made in a session of its parent, which is no pass.
LEMMA StepParents ==
    ASSUME GuestInv, [Next]_vars
    PROVE  ByMatch' /\ GuestsHaveParents'
  <1>1. /\ \A k \in issued : invited'[k] = invited[k] /\ owner'[k] = owner[k]
        /\ issued \subseteq issued'
    BY StepHistory DEF GuestInv
  <1>2. ASSUME NEW k \in Ids, invited'[k] # Nil
        PROVE  /\ invited'[k].by \in issued
               /\ invited[invited'[k].by] = Nil
               /\ owner[invited'[k].by] = invited'[k].parent.name
    <2>1. CASE invited[k] # Nil
      <3>1. invited'[k] = invited[k]
        BY <1>1, <2>1 DEF GuestInv, TypeOK
      <3> QED BY <2>1, <3>1 DEF GuestInv, ByMatch, GuestsHaveParents
    <2>2. CASE invited[k] = Nil
      <3>1. invited' # invited
        BY <1>2, <2>2
      <3>2. PICK h \in Handlers, i \in Ids : Invite(h, i)
        BY <3>1 DEF Next, Login, LoginFails, Begin, GuestCheck, PassThru, PasswordCheck,
                    UserLookup, Answer, Lose, ChangeAccount, EvictUser, Tick, vars
      <3>3. k = i
        BY <1>2, <2>2, <3>2, NewPass
      <3>4. invited'[k] = [parent |-> th[h].user, by |-> th[h].id, expiry |-> now + GuestLifetime]
        BY <3>2, <3>3, NewPass
      <3> QED BY <3>2, <3>4, NewPass
    <2> QED BY <2>1, <2>2
  <1>3. ByMatch'
    BY <1>1, <1>2 DEF ByMatch
  <1>4. GuestsHaveParents'
    BY <1>1, <1>2 DEF GuestsHaveParents
  <1> QED BY <1>3, <1>4

\* Every step keeps the invariant.
LEMMA StepInv == GuestInv /\ [Next]_vars => GuestInv'
  BY StepTyped, StepSess, StepHad, StepUser, StepParents DEF GuestInv

\* The conjunction is inductive.
LEMMA Invariance == Spec => []GuestInv
  BY InitInv, StepInv, PTL DEF Spec

----------------------------------------------------------------------------
(* The theorems. *)

\* Requests, sessions and accounts keep their shapes; what acts has a user.
THEOREM GuestsTypeCorrect == Spec => []TypeOK
  <1>1. GuestInv => TypeOK
    BY DEF GuestInv
  <1> QED BY Invariance, <1>1, PTL

\* No guest invites a guest, through either handler: a pass is made in a session
\* that its parent opened with a password.
THEOREM NoGatecrashers == Spec => []GuestsHaveParents
  <1>1. GuestInv => GuestsHaveParents
    BY DEF GuestInv
  <1> QED BY Invariance, <1>1, PTL

\* For every access list, a user powers only what its account at some time might,
\* whatever a query lost, save where a list denies one of the account's groups.
THEOREM UsersWithinAccounts == Spec => []ActsWithinAccount
  <1>1. GuestInv => ActsWithinAccount
    <2> SUFFICES ASSUME GuestInv, NEW h \in Handlers,
                        th[h].pc = "act", invited[th[h].id] = Nil,
                        NEW d \in ForUser(th[h].user), ~DeniedGroup(Acl[d], th[h].user.name)
                 PROVE  \E all \in had[th[h].user.name] :
                            UserCanAccess(Acl[d], [name |-> th[h].user.name, groups |-> all])
      BY DEF ActsWithinAccount
    <2> DEFINE n == th[h].user.name
               groups == th[h].user.groups
    <2>1. PICK all \in had[n] : groups \subseteq all
      BY DEF GuestInv, UserMatch, WasIn
    <2>2. all \cap Acl[d].deny.groups = {}
      BY DEF DeniedGroup
    <2>3. UserCanAccess(Acl[d], [name |-> n, groups |-> groups])
      <3>1. th[h].user = [name |-> n, groups |-> groups]
        BY DEF GuestInv, TypeOK, User
      <3> QED BY <3>1 DEF ForUser
    <2> QED BY <2>1, <2>2, <2>3, FewerGroups
  <1> QED BY Invariance, <1>1, PTL

\* For every access list, a guest powers only what its parent may, what a list
\* grants by name, or what the account called guest may.
THEOREM GuestsWithinParents == Spec => []GuestWithinParent
  <1>1. GuestInv => GuestWithinParent
    <2> SUFFICES ASSUME GuestInv, NEW h \in Handlers,
                        th[h].pc = "act", invited[th[h].id] # Nil,
                        NEW d \in ForUser(th[h].user)
                 PROVE  \/ UserCanAccess(Acl[d], invited[th[h].id].parent)
                        \/ ByName(Acl[d], invited[th[h].id].parent)
                        \/ GuestAccount(Acl[d])
      BY DEF GuestWithinParent
    <2> DEFINE u == th[h].user
    <2>1. UserCanAccess(Acl[d], u)
      BY DEF ForUser
    <2>2. CASE u = NewUser(invited[th[h].id].parent)
      BY <2>1, <2>2, GuestExceedsByName
    <2>3. CASE u.name = Guest /\ WasIn(Guest, u.groups)
      <3>1. u = [name |-> Guest, groups |-> u.groups] /\ u.groups \in SUBSET GroupNames
        BY <2>3 DEF GuestInv, TypeOK, User
      <3> QED BY <2>1, <2>3, <3>1 DEF GuestAccount
    <2> QED BY <2>2, <2>3 DEF GuestInv, UserMatch
  <1> QED BY Invariance, <1>1, PTL

\* Whichever handler looks the session up, and however late, a guest is admitted
\* only while its pass lasts.
THEOREM GuestsAreAdmittedInTime == Spec => GuestAccessEnds
  <1>1. GuestInv /\ [Next]_vars =>
            [\A h \in Handlers :
                Admits(h) /\ invited[th[h].id] # Nil => now <= invited[th[h].id].expiry]_vars
    <2> SUFFICES ASSUME GuestInv, [Next]_vars, NEW h \in Handlers,
                        Admits(h), invited[th[h].id] # Nil
                 PROVE  now <= invited[th[h].id].expiry
      OBVIOUS
    <2> DEFINE i == th[h].id
    <2>1. Live(i)
      <3>1. th' # th
        BY DEF Admits
      <3>2. \A g \in Handlers : Return(g) \/ (\E k \in Ids : Begin(g, k)) \/ PassThru(g) => ~Admits(h)
        BY DEF GuestInv, TypeOK, Admits, Return, Idle, Begin, PassThru, At
      <3>3. \E g \in Handlers : GuestCheck(g) \/ PasswordCheck(g) \/ UserLookup(g)
        BY <3>1, <3>2 DEF Next, Login, LoginFails, Answer, Invite, Lose, ChangeAccount,
                          EvictUser, Tick, vars
      <3>4. PICK g \in Handlers : GuestCheck(g) \/ PasswordCheck(g) \/ UserLookup(g)
        BY <3>3
      <3>5. g = h
        BY <3>4 DEF GuestCheck, PasswordCheck, UserLookup, At, Return, GuestInv, TypeOK, Admits
      <3>6. CASE GuestCheck(h)
        BY <3>6 DEF GuestCheck
      <3>7. CASE PasswordCheck(h)
        BY <3>2, <3>7 DEF PasswordCheck
      <3>8. ~UserLookup(h)
        BY DEF UserLookup, Admits
      <3> QED BY <3>4, <3>5, <3>6, <3>7, <3>8
    <2>2. i \in Ids
      BY DEF Admits, GuestInv, TypeOK
    <2>3. sess[i].expiry = invited[i].expiry /\ invited[i].expiry \in Int /\ now \in Int
      BY <2>1, <2>2, BoundAssumption DEF Live, GuestInv, SessMatch, TypeOK, Pass
    <2> QED BY <2>1, <2>3 DEF Live
  <1> QED BY Invariance, <1>1, PTL DEF Spec, GuestAccessEnds
=============================================================================
