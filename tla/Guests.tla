------------------------------- MODULE Guests -------------------------------
(***************************************************************************)
(* Requests of users and guests: guest.Handler in front of                 *)
(* PasswordAuthHandler, over the session store and the cached user store.  *)
(*                                                                         *)
(* The guest handler looks the session up; a guest session carries its     *)
(* user.  Whatever goes wrong, the request passes on to the password       *)
(* handler, which looks the session up again and then the user, by name.   *)
(* Between two lookups sessions end, accounts change, and time passes.     *)
(* Sessions.tla says what a session store does; here it is a map from ids  *)
(* to sessions that can lose an entry, or fail to find one, at any time.   *)
(***************************************************************************)
EXTENDS Access, Integers

CONSTANTS
    Names, GroupNames,  \* usernames and groups; Guest is one of each
    Devices, Acl,       \* the devices and the access list of each
    Ids, Handlers,      \* session ids; request goroutines
    Nil,
    Lifetime,           \* session.Lifetime
    GuestLifetime,      \* guest.Config.Lifetime
    MaxTime,            \* bound on the clock
    MaxChanges          \* bound on the changes to accounts

ASSUME GuestAssumption == Guest \in Names /\ Guest \in GroupNames
ASSUME NilAssumption == Nil \notin Names \cup GroupNames \cup Ids
ASSUME LifetimeAssumption == Lifetime \in Nat /\ GuestLifetime \in Nat
ASSUME BoundAssumption == MaxTime \in Nat /\ MaxChanges \in Nat

User == [name : Names, groups : SUBSET GroupNames]
Pass == [parent : User, by : Ids, expiry : Int]

ASSUME NilIsNoPass == Nil \notin Pass

VARIABLES
    now,        \* the clock
    accounts,   \* the user store: name -> its groups, or Absent
    ucache,     \* UserStoreCache: name -> the groups it was read with, or Absent
    sess,       \* the session store: id -> session, or Nil
    th,         \* the request goroutines
    changes,    \* changes to accounts so far
    \* History:
    issued,     \* ids that were handed out
    owner,      \* id -> who logged in with a password for it; Nil for a pass
    invited,    \* id of a pass -> its parent as it was then, by which session, its expiry
    had         \* name -> the groups its account had at some time

vars == <<now, accounts, ucache, sess, th, changes, issued, owner, invited, had>>

Absent == {Nil}
Account == (SUBSET GroupNames) \cup {Absent}
Extra == [user : User, parent : Names, expiry : Int]
Session == [name : Names, expiry : Int, extra : Extra \cup {Nil}]
Nobody == [name |-> Nil, groups |-> {}]
Idle == [pc |-> "idle", id |-> Nil, user |-> Nobody]

\* The type invariant, with what each place of a request implies.
TypeOK ==
    /\ now \in 0..MaxTime /\ changes \in 0..MaxChanges
    /\ accounts \in [Names -> Account] /\ ucache \in [Names -> Account]
    /\ sess \in [Ids -> Session \cup {Nil}]
    /\ th \in [Handlers -> [pc : {"idle", "guest", "password", "user", "act"},
                           id : Ids \cup {Nil}, user : User \cup {Nobody}]]
    /\ \A h \in Handlers :
        /\ th[h].pc # "idle" => th[h].id \in issued
        /\ th[h].pc \in {"user", "act"} => th[h].user \in User
    /\ issued \in SUBSET Ids
    /\ owner \in [Ids -> Names \cup {Nil}]
    /\ invited \in [Ids -> Pass \cup {Nil}]
    /\ \A i \in Ids : i \notin issued => sess[i] = Nil /\ invited[i] = Nil
    /\ had \in [Names -> SUBSET SUBSET GroupNames]

Init ==
    /\ now = 0
    /\ accounts \in [Names -> Account]
    /\ ucache = [n \in Names |-> Absent]
    /\ sess = [i \in Ids |-> Nil]
    /\ th = [h \in Handlers |-> Idle]
    /\ changes = 0
    /\ issued = {}
    /\ owner = [i \in Ids |-> Nil]
    /\ invited = [i \in Ids |-> Nil]
    /\ had = [n \in Names |-> IF accounts[n] = Absent THEN {} ELSE {accounts[n]}]

----------------------------------------------------------------------------
(* The stores. *)

\* SessionStore.Session finds it, and it is not expired (FromRequest).
Live(i) == sess[i] # Nil /\ ~(now > sess[i].expiry)

\* Extra.IsValid
IsValid(extra) == extra.expiry > now

\* An id is new, and a session made for it saved.
Fresh == Ids \ issued
NewSession(i, session) ==
    /\ i \in Fresh
    /\ issued' = issued \cup {i}
    /\ sess' = [sess EXCEPT ![i] = session]

At(h, pc, id, user) == th' = [th EXCEPT ![h] = [pc |-> pc, id |-> id, user |-> user]]
Return(h) == th' = [th EXCEPT ![h] = Idle]

----------------------------------------------------------------------------
(* Requests. *)

\* Fault: the query for the groups forgets to name the user.
ReadUser_AllGroups(n) ==
    IF accounts[n] = Absent THEN {Absent}
    ELSE SUBSET UNION {accounts[m] : m \in {k \in Names : accounts[k] # Absent}}
\* DBStore.User: rows that stop early (the client went away, the connection was
\* lost) count as all of them, so that an account may be read with fewer groups.
ReadUser(n) == IF accounts[n] = Absent THEN {Absent} ELSE SUBSET accounts[n]

\* UserStoreCache.User: what is cached stays, whatever happens to the account.
Known(n) == IF ucache[n] # Absent THEN {ucache[n]} ELSE ReadUser(n)
FillUser(n, groups) == groups \in Known(n) /\ ucache' = [ucache EXCEPT ![n] = groups]

\* ServeLogin: the user is known, the password right, the session registered.
Login(n, i) ==
    /\ \E groups \in SUBSET GroupNames : FillUser(n, groups)
    /\ NewSession(i, [name |-> n, expiry |-> now + Lifetime, extra |-> Nil])
    /\ owner' = [owner EXCEPT ![i] = n]
    /\ UNCHANGED <<now, accounts, th, changes, invited, had>>

\* A wrong password, or no session could be registered.
LoginFails(n) ==
    /\ \E groups \in Account : FillUser(n, groups)
    /\ UNCHANGED <<now, accounts, sess, th, changes, issued, owner, invited, had>>

\* A client presents an id it was given.
Begin(h, i) ==
    /\ th[h] = Idle /\ i \in issued
    /\ At(h, "guest", i, Nobody)
    /\ UNCHANGED <<now, accounts, ucache, sess, changes, issued, owner, invited, had>>

\* guest.Handler.ServeHTTP on a guest session.
GuestCheck(h) ==
    LET i == th[h].id IN
    /\ th[h].pc = "guest"
    /\ Live(i) /\ sess[i].extra # Nil
    /\ IF IsValid(sess[i].extra) THEN At(h, "act", i, sess[i].extra.user) ELSE Return(h)
    /\ UNCHANGED <<now, accounts, ucache, sess, changes, issued, owner, invited, had>>

\* Not a guest session, or no session was found: a lookup can fail at any time.
PassThru(h) ==
    /\ th[h].pc = "guest"
    /\ At(h, "password", th[h].id, Nobody)
    /\ UNCHANGED <<now, accounts, ucache, sess, changes, issued, owner, invited, had>>

\* PasswordAuthHandler.ServeHTTP: the session ...
PasswordCheck(h) ==
    /\ th[h].pc = "password"
    /\ IF Live(th[h].id)
       THEN At(h, "user", th[h].id, [name |-> sess[th[h].id].name, groups |-> {}])
       ELSE Return(h)
    /\ UNCHANGED <<now, accounts, ucache, sess, changes, issued, owner, invited, had>>

\* Fault: the error of the user store is not looked at.
UserLookup_Unchecked(h) ==
    LET n == th[h].user.name IN
    /\ th[h].pc = "user"
    /\ \E groups \in Account :
        FillUser(n, groups) /\ At(h, "act", th[h].id, [name |-> n, groups |-> groups])
    /\ UNCHANGED <<now, accounts, sess, changes, issued, owner, invited, had>>
\* ... and its user, whom the handler behind is given.
UserLookup(h) ==
    LET n == th[h].user.name IN
    /\ th[h].pc = "user"
    /\ \/ \E groups \in SUBSET GroupNames :
            FillUser(n, groups) /\ At(h, "act", th[h].id, [name |-> n, groups |-> groups])
       \/ FillUser(n, Absent) /\ Return(h)
    /\ UNCHANGED <<now, accounts, sess, changes, issued, owner, invited, had>>

\* Fault: the session of a guest lasts as long as that of its parent.
GuestExpiry_OfSession == now + Lifetime
GuestExpiry == now + GuestLifetime

\* Fault: nobody asks who invites.
MayInvite_All(u) == TRUE
\* "guests cannot invite guests"
MayInvite(u) == u.name # Guest

\* ServeGuestNew
Invite(h, i) ==
    LET parent == th[h].user
        extra == [user |-> NewUser(parent), parent |-> parent.name, expiry |-> now + GuestLifetime]
    IN
    /\ th[h].pc = "act"
    /\ MayInvite(parent)
    /\ NewSession(i, [name |-> Guest, expiry |-> GuestExpiry, extra |-> extra])
    /\ invited' = [invited EXCEPT ![i] =
            [parent |-> parent, by |-> th[h].id, expiry |-> now + GuestLifetime]]
    /\ Return(h)
    /\ UNCHANGED <<now, accounts, ucache, changes, owner, had>>

\* The devices the user may see and power, or any answer that changes nothing.
ForUser(u) == {d \in Devices : UserCanAccess(Acl[d], u)}
Answer(h) ==
    /\ th[h].pc \in {"password", "user", "act"}
    /\ Return(h)
    /\ UNCHANGED <<now, accounts, ucache, sess, changes, issued, owner, invited, had>>

----------------------------------------------------------------------------
(* Around the requests. *)

\* Logout, expiry, eviction, a restart.
Lose(i) ==
    /\ sess[i] # Nil
    /\ sess' = [sess EXCEPT ![i] = Nil]
    /\ UNCHANGED <<now, accounts, ucache, th, changes, issued, owner, invited, had>>

\* The administrator edits an account; other users push a name out of the cache.
ChangeAccount(n, groups) ==
    /\ changes < MaxChanges /\ groups # accounts[n]
    /\ changes' = changes + 1
    /\ accounts' = [accounts EXCEPT ![n] = groups]
    /\ had' = [had EXCEPT ![n] = IF groups = Absent THEN @ ELSE @ \cup {groups}]
    /\ UNCHANGED <<now, ucache, sess, th, issued, owner, invited>>

EvictUser(n) ==
    /\ ucache[n] # Absent
    /\ ucache' = [ucache EXCEPT ![n] = Absent]
    /\ UNCHANGED <<now, accounts, sess, th, changes, issued, owner, invited, had>>

Tick ==
    /\ now < MaxTime
    /\ now' = now + 1
    /\ UNCHANGED <<accounts, ucache, sess, th, changes, issued, owner, invited, had>>

Next ==
    \/ \E n \in Names : LoginFails(n) \/ \E i \in Ids : Login(n, i)
    \/ \E h \in Handlers :
        \/ \E i \in Ids : Begin(h, i) \/ Invite(h, i)
        \/ GuestCheck(h) \/ PassThru(h) \/ PasswordCheck(h) \/ UserLookup(h) \/ Answer(h)
    \/ \E i \in Ids : Lose(i)
    \/ \E n \in Names : EvictUser(n) \/ \E groups \in Account : ChangeAccount(n, groups)
    \/ Tick

Spec == Init /\ [][Next]_vars

----------------------------------------------------------------------------
(* Correctness. *)

\* A guest can power a device only if the one who invited it could when it did,
\* or the device's list says so by name: it denies that user and not its groups,
\* or it allows guests.  When a lookup failed half way the request acts as an
\* account called guest, if there is one.
ByName(acl, parent) ==
    \/ parent.name \in acl.deny.users
    \/ Guest \in acl.allow.users \cup acl.allow.groups
WasIn(n, groups) == \E all \in had[n] : groups \subseteq all
GuestAccount(acl) ==
    \E groups \in SUBSET GroupNames :
        WasIn(Guest, groups) /\ UserCanAccess(acl, [name |-> Guest, groups |-> groups])
GuestWithinParent ==
    \A h \in Handlers :
        th[h].pc = "act" /\ invited[th[h].id] # Nil =>
            LET parent == invited[th[h].id].parent IN
            \A d \in ForUser(th[h].user) :
                \/ UserCanAccess(Acl[d], parent)
                \/ ByName(Acl[d], parent)
                \/ GuestAccount(Acl[d])

\* "guests cannot invite guests": every pass was made in the session of somebody
\* who logged in with a password, and as that user; never in the session of a
\* pass, by whichever handler its request came in, and whatever was lost meanwhile.
GuestsHaveParents ==
    \A i \in Ids : invited[i] # Nil =>
        LET pass == invited[i] IN
        invited[pass.by] = Nil /\ owner[pass.by] = pass.parent.name

\* A user powers no device that its account, as it was at some time, may not: what
\* is cached, or was read from rows that broke off, takes permissions away.  The
\* exception is a list that denies a group the account was in: with the group
\* lost, so is the denial.
DeniedGroup(acl, n) == \E all \in had[n] : all \cap acl.deny.groups # {}
ActsWithinAccount ==
    \A h \in Handlers :
        th[h].pc = "act" /\ invited[th[h].id] = Nil =>
            LET n == th[h].user.name IN
            \A d \in ForUser(th[h].user) :
                \/ \E all \in had[n] : UserCanAccess(Acl[d], [name |-> n, groups |-> all])
                \/ DeniedGroup(Acl[d], n)

\* Neither handler admits a guest after its pass expired.
Admits(h) == th[h].pc \in {"guest", "password"} /\ th'[h].pc \in {"user", "act"}
GuestAccessEnds ==
    [][\A h \in Handlers :
        Admits(h) /\ invited[th[h].id] # Nil => now <= invited[th[h].id].expiry]_vars
=============================================================================
