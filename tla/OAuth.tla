------------------------------- MODULE OAuth -------------------------------
(***************************************************************************)
(* OAuthHandler over the session store: Sessions composed with the token   *)
(* source of oauth.go and the profile request of oauth_wordpress.go.       *)
(*                                                                         *)
(* A session carries the provider's token in its Extra field.  A request   *)
(* that finds its user in no cache asks the provider for the profile with  *)
(* that token; if the access token ran out, SessionTokenSource refreshes   *)
(* it, writes the shared Session object and saves it, expiry and all.  A   *)
(* profile refused with a 4xx expires the session.  ServeLogout has no     *)
(* caller, so no request logs out.                                         *)
(*                                                                         *)
(* The provider is external: it may or may not revoke a refresh token when *)
(* it is used, and may refuse, fail or lose anything.                      *)
(***************************************************************************)
EXTENDS Sessions

CONSTANT MaxTokens      \* bound on the tokens the provider issues

ASSUME MaxTokensAssumption == MaxTokens \in Nat

VARIABLES
    extra,      \* Session.Extra of every object: a token, or 0
    column,     \* the extra column of every row
    users,      \* usernames in h.users
    src,        \* the request in progress behind FromRequest, by handler
    minted,     \* tokens the provider issued: 1..minted
    stale,      \* those whose access token ran out, by the local clock
    burnt,      \* those whose refresh token was used up or revoked
    \* History:
    lost,       \* sessions whose refreshed token did not reach the table
    crossed,    \* sessions two requests held apart, or refreshed at once
    ended,      \* sessions whose end the database has accepted
    holding     \* of those, the ones a request had or found an object for (OnlyHeldCopyRevives)

ohist == <<lost, crossed, ended, holding>>
ovars == <<extra, column, users, src, minted, stale, burnt, ohist>>
avars == <<vars, ovars>>

Tokens == 1..MaxTokens
Off == [at |-> "off", token |-> 0, expiry |-> Zero]
Source(at, token, expiry) == [at |-> at, token |-> token, expiry |-> expiry]
Stage(h, s) == src' = [src EXCEPT ![h] = s]

Stages == {"off", "user", "token", "refresh", "adopt", "exec", "store",
           "profile", "expire", "end", "drop", "handler"}

\* The type invariant; a request is behind FromRequest while it is served.
OAuthTypeOK ==
    /\ TypeOK
    /\ extra \in [Ptrs -> 0..MaxTokens]
    /\ column \in [Ids -> 0..MaxTokens]
    /\ users \in SUBSET Users
    /\ src \in [Handlers -> [at : Stages, token : 0..MaxTokens, expiry : Nat \cup {Zero}]]
    /\ minted \in 0..MaxTokens
    /\ stale \in SUBSET Tokens /\ burnt \in SUBSET Tokens
    /\ lost \in SUBSET Ids /\ crossed \in SUBSET Ids
    /\ ended \in SUBSET Ids /\ holding \in SUBSET Ids
    /\ \A h \in Handlers : src[h].at # "off" <=> th[h].pc = "serve"

OAuthInit ==
    /\ Init
    /\ extra = [q \in Ptrs |-> 0]
    /\ column = [i \in Ids |-> 0]
    /\ users = {}
    /\ src = [h \in Handlers |-> Off]
    /\ minted = 0 /\ stale = {} /\ burnt = {}
    /\ lost = {} /\ crossed = {} /\ ended = {} /\ holding = {}

----------------------------------------------------------------------------
(* ServeExchange: the token, the user, then Register. *)

\* The provider exchanges the code and answers with the profile; the session
\* is registered with the token as its Extra.
Exchange(h, u) ==
    /\ minted < MaxTokens
    /\ minted' = minted + 1
    /\ users' = users \cup {u}
    /\ Register(h, u)
    /\ extra' = [extra EXCEPT ![th'[h].ref] = minted + 1]
    /\ UNCHANGED <<column, src, stale, burnt, ohist>>

\* Register's save of a new session: the row takes its Extra.
LoginSave(h) ==
    /\ \/ SaveOK(h)
       \/ SaveFails(h)
    /\ column' = IF table' = table THEN column ELSE [column EXCEPT ![th[h].id] = extra[th[h].ref]]
    /\ UNCHANGED <<extra, users, src, minted, stale, burnt, ohist>>

----------------------------------------------------------------------------
(* FromRequest, as in Sessions. *)

\* The other requests in progress on session i.
Others(h, i) == {k \in Handlers \ {h} : th[k].id = i /\ th[k].op = "api"}

\* The end of session i is in the table, not yet in the cache.
Dropping(i) == \E k \in Handlers : th[k].id = i /\ src[k].at = "drop"

\* A client presents a session.  What is noted: an object of an ended session
\* that the cache still has, and that does not know of the end.
Present(h) ==
    \E i \in Ids :
        /\ Request(h, "api", i)
        /\ holding' = IF i \in ended /\ Dropping(i) /\ cache[i] # Nil /\ heap[cache[i]].expiry # Zero
                      THEN holding \cup {i} ELSE holding
        /\ UNCHANGED <<extra, column, users, src, minted, stale, burnt, lost, crossed, ended>>

\* A session read from its row has the Extra of the row.  If another request
\* missed the cache too, there are now two objects of the session.
Load(h) ==
    LET i == th[h].id IN
    /\ QueryHit(h)
    /\ extra' = [extra EXCEPT ![th'[h].ref] = column[i]]
    /\ crossed' = IF Others(h, i) # {} \/ cache[i] # Nil THEN crossed \cup {i} ELSE crossed
    /\ UNCHANGED <<column, users, src, minted, stale, burnt, lost, ended, holding>>

\* A session that has not expired goes on to its user.
Admit(h) ==
    /\ Check(h)
    /\ Stage(h, IF IsExpired(th[h].ref) THEN Off ELSE Source("user", 0, Zero))
    /\ UNCHANGED <<extra, column, users, minted, stale, burnt, ohist>>

----------------------------------------------------------------------------
(* h.users.User, and the token source of its profile request. *)

\* Fault: the token source outlives its request.
Answered_KeepsSource(h) == Goto(h, Idle) /\ UNCHANGED src
\* The request is answered: by the handler behind, or by errLogin, which
\* clears the cookie and redirects to the login.
Answered(h) == Goto(h, Idle) /\ Stage(h, Off)
UntouchedStore == UNCHANGED <<now, heap, cache, table, cleanDue, hist>>

FindUser(h) ==
    /\ src[h].at = "user"
    /\ Stage(h, Source(IF heap[th[h].ref].user \in users THEN "handler" ELSE "token", 0, Zero))
    /\ UNCHANGED <<th, extra, column, users, minted, stale, burnt, ohist>>
    /\ UntouchedStore

\* A refresh of session i is under way elsewhere.
Overlaps(h, i) == \E k \in Others(h, i) : src[k].at \in {"refresh", "adopt", "exec"}

\* SessionTokenSource.Token reads Extra; a token that is still good is used.
ReadExtra(h) ==
    LET i == th[h].id
        t == extra[th[h].ref]
    IN
    /\ src[h].at = "token"
    /\ \/ /\ t \notin stale
          /\ Stage(h, Source("profile", t, Zero))
          /\ UNCHANGED crossed
       \/ /\ t \in stale
          /\ Stage(h, Source("refresh", t, Zero))
          /\ crossed' = IF Overlaps(h, i) THEN crossed \cup {i} ELSE crossed
    /\ UNCHANGED <<th, extra, column, users, minted, stale, burnt, lost, ended, holding>>
    /\ UntouchedStore

\* The provider grants the refresh, with or without revoking the old token.
RefreshOK(h) ==
    /\ src[h].at = "refresh"
    /\ src[h].token \notin burnt
    /\ minted < MaxTokens
    /\ minted' = minted + 1
    /\ burnt' \in {burnt, burnt \cup {src[h].token}}
    /\ Stage(h, Source("adopt", minted + 1, Zero))
    /\ UNCHANGED <<th, extra, column, users, stale, ohist>>
    /\ UntouchedStore

\* It refuses, or its answer is lost: the user is sent to log in again.
RefreshFails(h) ==
    LET i == th[h].id IN
    /\ src[h].at = "refresh"
    /\ \/ UNCHANGED <<burnt, lost>>
       \/ burnt' = burnt \cup {src[h].token} /\ lost' = lost \cup {i}
    /\ Answered(h)
    /\ UNCHANGED <<extra, column, users, minted, stale, crossed, ended, holding>>
    /\ UNCHANGED <<now, heap, cache, table, cleanDue, hist>>

\* Fault: only the store learns the new token.
Adopt_OnlyStored(h) ==
    /\ src[h].at = "adopt"
    /\ Stage(h, Source(IF Persistent THEN "exec" ELSE "store", src[h].token, heap[th[h].ref].expiry))
    /\ UNCHANGED <<th, extra, column, users, minted, stale, burnt, ohist>>
    /\ UntouchedStore
\* Fault: the session is renewed along with its token.
Adopt_Renews(h) ==
    /\ src[h].at = "adopt"
    /\ extra' = [extra EXCEPT ![th[h].ref] = src[h].token]
    /\ heap' = [heap EXCEPT ![th[h].ref].expiry = now + Lifetime]
    /\ Stage(h, Source(IF Persistent THEN "exec" ELSE "store", src[h].token, now + Lifetime))
    /\ UNCHANGED <<th, column, users, minted, stale, burnt, ohist>>
    /\ UNCHANGED <<now, cache, table, cleanDue, hist>>
\* The object takes the token; SaveSession reads its fields for the statement.
Adopt(h) ==
    /\ src[h].at = "adopt"
    /\ extra' = [extra EXCEPT ![th[h].ref] = src[h].token]
    /\ Stage(h, Source(IF Persistent THEN "exec" ELSE "store", src[h].token, heap[th[h].ref].expiry))
    /\ UNCHANGED <<th, column, users, minted, stale, burnt, ohist>>
    /\ UntouchedStore

\* The statement as it was prepared: user, expiry and extra.
Saved(i, q, expiry) ==
    [table EXCEPT ![i] = [user   |-> IF @ # NoRow THEN @.user ELSE heap[q].user,
                          expiry |-> Unix(expiry)]]

\* Fault: the statement leaves the column of an existing row alone.
ColumnSaved_Kept(i, t) == IF table[i] = NoRow THEN [column EXCEPT ![i] = t] ELSE column
ColumnSaved(i, t) == [column EXCEPT ![i] = t]

Exec(h) ==
    /\ src[h].at = "exec"
    /\ table' = Saved(th[h].id, th[h].ref, src[h].expiry)
    /\ column' = ColumnSaved(th[h].id, src[h].token)
    /\ Stage(h, Source("store", src[h].token, Zero))
    /\ UNCHANGED <<now, heap, cache, th, cleanDue, hist>>
    /\ UNCHANGED <<extra, users, minted, stale, burnt, ohist>>

\* The statement fails, with or without effect, or the client has gone and its
\* context is cancelled: Token fails, and the user is sent to log in again.
ExecFails(h) ==
    LET i == th[h].id IN
    /\ src[h].at = "exec"
    /\ \/ UNCHANGED <<table, column>>
       \/ /\ table' = Saved(i, th[h].ref, src[h].expiry)
          /\ column' = ColumnSaved(i, src[h].token)
    /\ lost' = lost \cup {i}
    /\ Answered(h)
    /\ UNCHANGED <<now, heap, cache, cleanDue, hist>>
    /\ UNCHANGED <<extra, users, minted, stale, burnt, crossed, ended, holding>>

\* SessionStoreCache.SaveSession goes on to the cache, and the token is used.
Recache(h) ==
    /\ src[h].at = "store"
    /\ CacheAdd(th[h].id, th[h].ref)
    /\ Stage(h, Source("profile", src[h].token, Zero))
    /\ UNCHANGED <<now, heap, table, th, cleanDue, grant, delivered, loggedOut, revoked, raced>>
    /\ UNCHANGED <<extra, column, users, minted, stale, burnt, ohist>>

----------------------------------------------------------------------------
(* The profile request, and the end of a session it is refused for. *)

ProfileOK(h) ==
    /\ src[h].at = "profile"
    /\ users' = users \cup {heap[th[h].ref].user}
    /\ Stage(h, Source("handler", 0, Zero))
    /\ UNCHANGED <<th, extra, column, minted, stale, burnt, ohist>>
    /\ UntouchedStore

\* 4xx: ErrSessionExpired.
ProfileRefused(h) ==
    /\ src[h].at = "profile"
    /\ Stage(h, Source("expire", 0, Zero))
    /\ UNCHANGED <<th, extra, column, users, minted, stale, burnt, ohist>>
    /\ UntouchedStore

\* Any other failure, or the handler behind answers.
Answer(h) ==
    /\ src[h].at \in {"profile", "handler"}
    /\ Answered(h)
    /\ UNCHANGED <<extra, column, users, minted, stale, burnt, ohist>>
    /\ UntouchedStore

\* Session.Expire writes the shared object,
ExpireSession(h) ==
    /\ src[h].at = "expire"
    /\ ExpireObject(th[h].ref)
    /\ loggedOut' = loggedOut \cup {th[h].id}
    /\ Stage(h, Source(IF Persistent THEN "end" ELSE "drop", 0, Zero))
    /\ UNCHANGED <<now, cache, table, th, cleanDue, grant, delivered, revoked, raced, forgotten>>
    /\ UNCHANGED <<extra, column, users, minted, stale, burnt, ohist>>

\* Requests that may yet save session i as alive when h ends it: one that has
\* prepared its statement, or that holds an object of the session which knows
\* nothing of the end.
Savers(h, i) ==
    {k \in Others(h, i) :
        \/ src[k].at = "exec" /\ src[k].expiry # Zero
        \/ th[k].ref # Nil /\ heap[th[k].ref].expiry # Zero}

\* then saves it, and ignores how that went,
EndOK(h) ==
    LET i == th[h].id IN
    /\ src[h].at = "end"
    /\ table' = Saved(i, th[h].ref, Zero)
    /\ column' = ColumnSaved(i, extra[th[h].ref])
    /\ ended' = ended \cup {i}
    /\ holding' = IF Savers(h, i) # {} THEN holding \cup {i} ELSE holding
    /\ Stage(h, Source("drop", 0, Zero))
    /\ UNCHANGED <<now, heap, cache, th, cleanDue, hist>>
    /\ UNCHANGED <<extra, users, minted, stale, burnt, lost, crossed>>

EndFails(h) ==
    LET i == th[h].id IN
    /\ src[h].at = "end"
    /\ \/ UNCHANGED <<table, column>>
       \/ /\ table' = Saved(i, th[h].ref, Zero)
          /\ column' = ColumnSaved(i, extra[th[h].ref])
    /\ Answered(h)
    /\ UNCHANGED <<now, heap, cache, cleanDue, hist>>
    /\ UNCHANGED <<extra, users, minted, stale, burnt, ohist>>

\* and caches it, expired.
DropSession(h) ==
    /\ src[h].at = "drop"
    /\ CacheAdd(th[h].id, th[h].ref)
    /\ Answered(h)
    /\ UNCHANGED <<now, heap, table, cleanDue, grant, delivered, loggedOut, revoked, raced>>
    /\ UNCHANGED <<extra, column, users, minted, stale, burnt, ohist>>

----------------------------------------------------------------------------
\* An access token runs out.
Wither(t) ==
    /\ t \in (1..minted) \ stale
    /\ stale' = stale \cup {t}
    /\ UNCHANGED <<vars, extra, column, users, src, minted, burnt, ohist>>

\* Other users push one out of the LRU of users.
ForgetUser(u) ==
    /\ u \in users
    /\ users' = users \ {u}
    /\ UNCHANGED <<vars, extra, column, src, minted, stale, burnt, ohist>>

\* A refresh that had not reached the table dies with the process.
Crash ==
    /\ Restart
    /\ users' = {}
    /\ src' = [h \in Handlers |-> Off]
    /\ lost' = lost \cup {i \in Ids : \E h \in Handlers :
                            th[h].id = i /\ src[h].at \in {"adopt", "exec"}}
    /\ UNCHANGED <<extra, column, minted, stale, burnt, crossed, ended, holding>>

\* The steps of Sessions that touch no token.
Plain(h) ==
    /\ QueryMiss(h) \/ Fill(h) \/ NewID(h) \/ NewIDFails(h) \/ Store(h)
    /\ UNCHANGED ovars

Background ==
    /\ (\E p \in Procs : Sweep(p)) \/ (\E c \in Cleaners : StartCleaner(c)) \/ CleanTable \/ Tick
    /\ UNCHANGED ovars

OAuthHandle(h) ==
    \/ \E u \in Users : Exchange(h, u)
    \/ LoginSave(h) \/ Present(h) \/ Load(h) \/ Admit(h) \/ Plain(h)
    \/ FindUser(h) \/ ReadExtra(h) \/ RefreshOK(h) \/ RefreshFails(h)
    \/ Adopt(h) \/ Exec(h) \/ ExecFails(h) \/ Recache(h)
    \/ ProfileOK(h) \/ ProfileRefused(h) \/ Answer(h)
    \/ ExpireSession(h) \/ EndOK(h) \/ EndFails(h) \/ DropSession(h)

OAuthNext ==
    \/ \E h \in Handlers : OAuthHandle(h)
    \/ Background \/ Crash
    \/ \E t \in Tokens : Wither(t)
    \/ \E u \in Users : ForgetUser(u)

OAuthSpec == OAuthInit /\ [][OAuthNext]_avars

----------------------------------------------------------------------------
(* Correctness. *)

Refreshing(i) == \E h \in Handlers : th[h].id = i /\ src[h].at \in {"adopt", "exec"}

\* "keeps the underlying Session.Extra in sync": a live row holds a token that
\* can be refreshed, unless a refresh is on its way to the row, one was lost on
\* the way, or two requests refreshed the session at once.
StoredTokenUsable ==
    \A i \in Ids : RowLive(i) /\ column[i] \in burnt =>
        Refreshing(i) \/ i \in lost \cup crossed

\* A request refreshes with a token that is used up only after such a loss, or
\* after two requests had refreshed the session at once, or had held a copy each:
\* requests one after the other never lose the session.
OneRequestRefreshes ==
    \A h \in Handlers : src[h].at = "refresh" /\ src[h].token \in burnt =>
        th[h].id \in lost \cup crossed

\* Saving a token also saves the expiry the request knows.  So a session whose
\* end is in the table can become alive again, but by two kinds of request only:
\* one at work when it ended, with the statement prepared or an unexpired object
\* of its own; and one that found such an object in the cache before the save of
\* the end had replaced it there.  Once that save is through, no request that
\* begins can undo it.
OnlyHeldCopyRevives == \A i \in ended : RowLive(i) => i \in holding
=============================================================================
