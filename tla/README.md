# unlockr in TLA+

unlockr is a small HTTP server that lets the members of a household power
devices (door openers, mostly) from a browser.  Users log in with a password or
through OAuth, can invite guests, and a request to power a device becomes an
MQTT exchange or a call of the eWeLink cloud.  This directory holds TLA+ models
of the parts of it in which the order of steps matters, the TLC configurations
that check them on small instances, and TLAPS proofs of what holds for every
instance.

    tlc -workers 2 -config SessionsMemory.cfg MCSessions.tla
    tlapm SessionsProofs.tla

## 1. Inventory

| Component | State | Operations | Talks to |
| --- | --- | --- | --- |
| sessions (`session/session.go`) | `Session` objects, shared by pointer | `Register`, `New`, `newID`, `FromRequest`, `Logout`, `Expire`, `Renew` (no caller) | a `SessionStore` |
| session cache (`store/cache.go`) | an LRU, id to `*Session`, created lazily | `Session`, `SaveSession`, `CleanSessions` | the store below it, if there is one |
| user cache (`store/cache.go`) | an LRU, name to `*User` | `User`, `CacheUser` | the user store below it |
| database store (`store/db.go`) | the tables; a lazy pool; a throttle for the clean-up | `User`, `Session`, `SaveSession`, `CleanSessions` | MySQL, through configured statements |
| file store (`store/file.go`) | a table read once, lazily | `User` | a JSON file |
| password handler (`auth/password.go`) | none | login, logout, the check of every request | sessions, users |
| OAuth handler (`auth/oauth*.go`) | an LRU of CSRF tokens; tokens kept in the session's `Extra` | redirect, exchange, token refresh | the provider, sessions |
| guests (`auth/guest/guest.go`) | guest sessions in the session store | invite, the check of guest requests, fall through to the other handler | sessions, access control |
| access control (`access/access.go`) | lists of users and groups per device | `UserCanAccess`, `Authenticate` | devices, index |
| devices (`device/device.go`, `index/index.go`) | the device list | list for a user, power | the three drivers |
| MQTT (`mqtt/mqtt.go`) | one client, a read loop, a group of listeners | `Expect.Run`, `readLoop`, `subscribe`, `publish` | the MQTT client library |
| eWeLink (`ewelink/ewelink.go`) | one token, shared by all calls | log in, refresh, call with one retry | the cloud |
| noop (`noop/noop.go`) | a counter | power | - |
| browser script (`index.html`) | user state, a flag, retries | sync, power, login | the server |
| start-up (`unlockr.go`, `config.go`) | the configuration | choose store and handlers, restart on SIGHUP, stop | all |

How they interact: every request runs in a goroutine of its own, and the stores,
the MQTT client and the eWeLink token are shared by all of them.  The handlers
call the stores; a store starts goroutines of its own (`go CleanSessions`).
Session objects are shared by pointer between the cache and any number of
requests and are written without a lock.  MQTT joins request goroutines, one
read loop, one publisher per read loop and one goroutine per subscription
through channels and three mutexes.

What is hard, and what correctness means:

* *Sessions and their stores.*  An id is let in only for its user and only
  while its session lasts; logging out ends it, at once and for good, through a
  cache above a database, concurrent requests, failed statements and restarts;
  and nothing else ends it.  Expiries cross three representations (`time.Time`,
  Unix seconds, an unsigned column).
* *MQTT.*  Nobody sends on a closed channel; every member of the group gets
  every message; a run reports success only for the answer it waited for;
  every run ends; a mutex held while a channel blocks does not stop the rest.
* *Access control and guests.*  A guest can do no more than who invited it, for
  no longer than it was invited; a guest invites nobody; listing and powering
  agree.
* *OAuth, eWeLink.*  Tokens are replaced while requests use the old one; a
  late answer about the old token must not undo the new one.
* *Lazy initialisation* (`init`, `getDB`, `load`).  It is unsynchronised.

The hazards, with the line where each bites and the properties that cover it,
are listed in `PROJECT.json`.

## 2. Modules

| Module | What it is |
| --- | --- |
| `SessionRegistry` | abstract: ids become valid once, die once, and stay dead |
| `Sessions` | session.go over the cache, over nothing or over the database, with the password handler's requests |
| `MCSessions` | its TLC instances: symmetry, and a view that ignores garbage objects |
| `SessionsProofs` | theorems about `Sessions`: types, copies, who is let in |
| `SessionsLogoutProofs` | theorems about `Sessions`: what ends a session, that it stays ended, and that `Sessions` implements `SessionRegistry` |
| `ListenGroup` | `listenGroup`: subscribe, publish, unsubscribe |
| `ListenGroupProofs` | theorems about it |
| `Mqtt` | `Expect.Run`, `client`, `readLoop` over `ListenGroup` |
| `MCMqtt` | its TLC instance |
| `MqttProofs` | theorems about it, and that it implements `ListenGroup`'s specification |
| `Access` | access lists, and the user that stands for a guest: operators only |
| `Guests` | the guest handler in front of the password handler, over sessions and cached users |
| `MCGuests` | its TLC instance, with a device for each way to tell a guest from its parent |
| `GuestsProofs` | theorems about `Access` and `Guests` |
| `Ewelink` | the tokens of the eWeLink account, and the goroutines that log in, refresh and send with them |
| `EwelinkProofs` | theorems about it |
| `OAuth` | the OAuth handler, its token source and its profile request, over `Sessions` |
| `MCOAuth` | its TLC instance: symmetry and a view |
| `OAuthProofs` | theorems about `OAuth`, over those about `Sessions` |
| `FileStore` | `FileStore.load` and `User`, without a lock |
| `LazyCache` | an LRU made by the first request: session cache, user cache, CSRF tokens |
| `DBClean` | `DBStore.CleanSessions`: a mutex that is only tried, and an interval |
| `MCStores` | one TLC instance for the three, one at a time; `LazyCache` twice |
| `StoresProofs` | theorems about the three, and about `MCStores` |

Definitions marked `Fault:` are not part of a model.  Each is the form its
neighbour would have under a plausible bug, and `PROJECT.json` names the
property that the bug breaks; they show that the properties can fail.

### Sessions

State.  `heap` holds the `Session` objects; `cache` (the LRU) and the goroutines
in `th` refer to them, so that `Expire`'s write of `Expiry` reaches everyone who
shares the object and nobody else.  `table` is the sessions table.  `th[p]` is
where goroutine `p` stands: between two steps another goroutine may run.  A step
is one call of the LRU (which locks itself), one SQL statement, or the write of
an object.  `cleanDue` stands for `go ss.CleanSessions(...)`, requested and not
started: several requests coalesce, since sweeps are idempotent.

| Action | Code |
| --- | --- |
| `Request`, `QueryHit`, `QueryMiss`, `Fill` | `SessionStoreCache.Session` above `DBStore.Session` |
| `Check`, `Serve` | `FromRequest` and the handler behind it |
| `Register`, `NewID`, `NewIDFails` | a login: `Register`, `New`, `newID` |
| `Expire` | `Session.Expire` |
| `SaveOK`, `SaveFails`, `Store` | `SaveSession`, in the database and then in the cache |
| `Keys`, `Peek`, `Remove`, `Swept`, `StartCleaner` | `SessionStoreCache.CleanSessions` |
| `CleanTable` | `DBStore.CleanSessions` |
| `Restart`, `Tick` | the process is replaced; the clock |

What is abstracted: an id is a model value that is never drawn twice (30 random
bytes), so the collision check in `newID` always misses.  `Extra` is left out:
password sessions do not use it.  An unknown id misses everywhere, so requests
present ids that a login delivered.  A failed statement may have taken effect
(`SaveFails`): a client that sees an error or a timeout cannot tell.
`DBStore.CleanSessions` is started by nearly every call, throttled, limited to
a hundred rows and free to fail: `CleanTable` deletes any of the expired rows at
any time, and nothing relies on it to run.  The statements are those of
`config-sample.json`.  The LRU evicts an arbitrary other entry; which one is
older is not modelled, so that the properties hold for every order of use.

The history variables say what clients know (`delivered`), what was issued
(`grant`), and when an id was logged out, saved as logged out, or forgotten.
`raced` holds the ids for which some request had read the row, and not yet
cached it, when the logout was saved.

### ListenGroup and Mqtt

`publish` holds the group's mutex while it sends to each member on an unbuffered
channel: `Lock`, a `Send` per member in any order, `Unlock`.  A send is a
rendezvous, one step of both sides; `ListenGroup` takes the publisher's side and
`Mqtt` conjoins `Receive`, the receiver's.  `GroupSpec` by itself composes it
with receivers that are always ready, which is what the comment on `subscribe`
demands of them.

`Mqtt` gives each run of `Expect` a program counter through `client`,
`subscribe`, `client` again, `publish` and the loop over the channel.  `cmu` is
held from the start of a read loop until its status message was published
(`Client`, `Hello`), because `readLoop` publishes before it returns.  `rmu` is
held by the read loop and tried with `TryLock`.  A read loop has a buffered
channel (`buf`) and a publisher, which goes on after the loop ended until the
buffer is empty: publishers of two loops overlap.  The library's calls succeed
or fail; a call with a quit channel can fail because it was cancelled, which is
one of the ways to fail.  The topic filter is abstracted to the set of messages
that satisfy a run; `m.topics` is never written, so `subscribe` always asks the
server.

### Access and Guests

`Access` translates `UserCanAccess` and `guest.NewUser`; a user is a name and a
set of groups.  `Guests` follows a request through two handlers that look the
same session up one after the other (`guest.go:123`, `password.go:37`) and then
the user by name (`password.go:43`): `GuestCheck` or `PassThru`,
`PasswordCheck`, `UserLookup`, then `Invite` or `Answer`.  Between any two of
them another request may run, a session may end (`Lose`), an account may change
(`ChangeAccount`), a cached user may be evicted, and the clock may move.

The session store is abstracted to a map that can lose an entry at any time; a
lookup that fails although the entry is there is `PassThru`, which is always
possible, or `Answer`.  `Sessions` says which of these really happen; the
properties here hold for all of them.  `UserStoreCache.User` is one step: its
query and its `Add` are apart in the code, and a late `Add` caches what the
account was a moment ago, which is what an early one followed by a change does
too.  `DBStore.User` reads an account row by row and does not ask `rows.Err`
(`db.go:128`): a query that breaks off, as when the client goes away, gives the
account with fewer groups, and the cache keeps it so.  `ReadUser` is the set of
what it can read.  A pass and its session expire at the same instant; in the database the
session loses the fraction of a second, so it ends no later.  The OAuth handler,
when it stands behind the guests, is not modelled.

| Action | Code |
| --- | --- |
| `Login`, `LoginFails` | `ServeLogin` |
| `Begin`, `GuestCheck`, `PassThru` | `guest.Handler.ServeHTTP` |
| `PasswordCheck`, `UserLookup` | `PasswordAuthHandler.ServeHTTP` |
| `Invite` | `ServeGuestNew`, `NewSession`, `NewUser` |
| `Answer` | `ServeDevice`, `ServeList`, or an error |
| `Known`, `ReadUser`, `FillUser` | `UserStoreCache.User` over `DBStore.User` |
| `Lose`, `ChangeAccount`, `EvictUser`, `Tick` | the end of a session, the administrator, the LRU, the clock |

`owner` remembers who logged in with a password for an id, `invited` who invited
the guest of an id, as that user was then, and in which session, and `had` which
groups each account had; what is read of an account is a part of one of them
(`WasIn`).  So `GuestsHaveParents` can say of every pass that the session it was
made in was its parent's own, and `ActsWithinAccount` of every other request that
it powers nothing its account never might.  The latter has an exception, which is
what the code does: a list may deny a group that a broken query lost.

### Ewelink

The tokens of `e.tokens` are one variable each (`token`, `refreshable`, `age`),
because they are written one after the other and without a lock.  A goroutine is
at a place of `Token`, `maybeRefresh`, `Login` or `ApiCall`.  `maybeRefresh`
builds a request, which calls `Token`, which calls `maybeRefresh`; since every
such call does the same, the stack is a number, `depth`.

| Action | Code |
| --- | --- |
| `Power` | `Device.Power` to `newRequestInternal` |
| `CheckToken`, `ReadToken`, `ReadTorn` | `Token`, and the payload of a refresh |
| `CheckAge`, `Clear` | `maybeRefresh`, up to the request it builds |
| `DecodeToken`, `DecodeNoToken`, `DecodeRefresh`, `Stamp`, `LoginFails` | `Login`, with `ApiCall` |
| `RefreshOK`, `RefreshFails` | the rest of `maybeRefresh` |
| `CommandEnds` | `ApiCall` for the command |
| `Tire` | twenty hours |

The cloud may grant or refuse anything; a 401, of whatever call, clears the token
(`Refuse`, `Blank`).  `ApiCall` asks for neither the HTTP status nor a token in the
answer: what a login's answer holds is decoded into `e.tokens` before its error is
looked at, and an answer without a token and without an error is a success
(`DecodeNoToken`, `Stamp`).  A token the cloud issues is taken to be new.  Go lets a read of a string race with its write: the read may
pair the pointer of "" with the length of a token, and `ReadTorn` is the panic
that follows, which `net/http` confines to the request.  A read that pairs a
token's pointer with length 0 is the same as reading "".  Payloads, signatures and
the devices' identifiers are left out.  `known`, `foreign` and `cleared` remember
what a command could have known, and what others did meanwhile, and `tokenless`
that its own login was answered without a token.

### OAuth

`OAuth` extends `Sessions` and keeps its steps: a request is looked up, checked
and served there, and while it is served `src[h]` says where it is in
`OAuthHandler.ServeHTTP`.  Tokens are numbered in the order they were issued and
stand for the access and the refresh token together: the first may run out
(`stale`), the second be used up or revoked (`burnt`).  Objects and rows have an
`Extra` of their own (`extra`, `column`).

| Action | Code |
| --- | --- |
| `Exchange`, `LoginSave` | `ServeExchange`, `Register` |
| `Present`, `Load`, `Admit` | `FromRequest` above `DBStore.Session`, with `Extra` |
| `FindUser`, `ForgetUser` | `h.users.User`, the LRU's eviction of a user |
| `ReadExtra`, `RefreshOK`, `RefreshFails`, `Adopt` | `SessionTokenSource.Token` |
| `Exec`, `ExecFails`, `Recache` | `SessionStoreCache.SaveSession` |
| `ProfileOK`, `ProfileRefused`, `Answer` | `OAuthWordPress.user`, and what `ServeHTTP` does of its result |
| `ExpireSession`, `EndOK`, `EndFails`, `DropSession` | `Session.Expire` |
| `Wither`, `Crash` | an access token runs out; the process is replaced |

`SaveSession` reads the session's expiry when it prepares the statement (`Adopt`)
and executes it later (`Exec`), so a statement can be overtaken.  A statement that
fails may have had effect.  Without a database there is no statement: `Adopt` and
`ExpireSession` go on to the cache (`Recache`, `DropSession`), as
`SessionStoreCache.SaveSession` does when the store below it is nil.  The provider may or may not revoke a refresh token
when it is used; it may refuse or lose anything.  An id lives in one row, and its
`Extra` is that of the statement executed last.

`holding` is the history behind `OnlyHeldCopyRevives`.  When the end of a session
is in the table, it notes whether another request has a statement prepared or an
object of its own that does not know of the end (`Savers`); and until that end is
in the cache too (`Dropping`), a request that presents the session and finds such
an object there is noted as well (`Present`).  Objects that merely lie in the cache
are not: once `DropSession` has replaced them, no request can find them.

### FileStore, LazyCache, DBClean

Nothing keeps two first requests from loading the file at the same time: in
`FileStore`, `load` checks, publishes an empty table, opens the file and decodes
into whatever table is published by then, a user at a time.  `Stop` is the Go
runtime, which ends a program that it sees use a map while another goroutine
writes it; it may see it or not.  In `LazyCache`, `init` checks and then assigns,
and every call reads the pointer again.  What a call then does depends on who uses
the LRU (`Ops`): sessions and users are added again and again, by a miss, a logout
or a refreshed token, and looked up with `Get`, which makes an entry recent, and
sessions that expired are removed; CSRF tokens are random, so each is added once
(`Once`), and looked up with `Contains`, which changes nothing.  `DBClean` is the
mutex and the interval of `DBStore.CleanSessions`, with the debugging switch, which
turns the interval off; what the deletion does to the table is in `Sessions`.

| Action | Code |
| --- | --- |
| `User`, `Look` | `FileStore.User` |
| `Load`, `Publish`, `Open`, `OpenFails`, `DecodeUser`, `DecodeEnds`, `DecodeFails` | `FileStore.load` |
| `Call`, `Initialised`, `Make`, `Read` | `init` of either cache, `RedirectLogin` and the lazy token list |
| `Add` | `SaveSession`, `CacheUser`, `csrfTokens.New`, and `Session` and `User` after a miss |
| `Get`, `Contains`, `Remove` | `Session` and `User`; `csrfTokens.Valid`; `CleanSessions` |
| `CleanSessions`, `Skip`, `Delete`, `DeleteOK`, `DeleteFails`, `Unlock`, `Tick` | `DBStore.CleanSessions` |

## 3. Runs

| Run | Instance | What it shows |
| --- | --- | --- |
| `sessions_memory` | no database, 2 users, 2 ids, 2 requests, cache of 1, clock to 2 | logout takes effect at once for all who share the object; copies never outlive their grant; only logout, eviction, restart and time end a session; the stack implements `SessionRegistry` |
| `sessions_stored` | database, 1 user, 2 ids, 2 requests, cache of 1, 2 ticks a second | the same, and: a saved logout is durable across fills, clean-ups, late saves and restarts; the cache outlives a logout only through a fill that raced it |
| `sessions_sweep` | no database, a cleaner goroutine, cache of 2 | an expired session found by a request is swept |
| `sessions_schema` | database | counterexample: logging out stores a negative expiry |
| `listen_group` | 2 subscriptions, 2 publishers, 3 messages | no send on a closed channel; exact copies; no gaps; every unsubscription completes |
| `mqtt` | 2 runs, 2 read loops, 2 messages, buffer of 1 | success is earned; one reader; the runs use the group as it allows; runs end unless a channel was abandoned |
| `mqtt_abandoned` | 1 device that answers, 1 that does not | counterexample: an abandoned channel stops the group |
| `ewelink` | 2 goroutines, 2 tokens | a refused token is not sent again by a command that began later; a blank one goes out only after another goroutine cleared it or a login was answered without one; the recursion is bounded; every command ends |
| `ewelink_refresh` | 1 goroutine, 4 tokens | counterexample: the token a refresh was granted is dropped, and that of the login made meanwhile kept |
| `oauth` | database, 1 user, 1 session, 2 requests, 3 tokens | the row keeps a token that can be refreshed, unless a save was lost or two requests refreshed at once; an ended session comes back only by a request that was at work when it ended, or found the object in the cache before the end was there |
| `stores` | 3 goroutines; a file of 2 users, an LRU of 2 of 3 entries, two and a half intervals of 2 ticks, debugging on and off | a listed user is missed only during a load or after a failed one; an entry added after the first requests stands until it is removed or pushed out; one deletion at a time |
| `guests` | a user, perhaps an account called guest, 1 group, 4 devices, 3 sessions, 1 request, 1 change of an account | a guest stays within its parent's rights, comes in only while its pass lasts, and invites nobody; a user stays within what its account ever might |

Bounds.  `MaxTime`, `MaxLog`, `MaxLoops` and `MaxReads` bound the clock, the
messages published, the read loops and the messages read; `Ids` and `Ptrs` bound
the sessions issued and the objects.  Two requests are enough for every race the
code has between two steps of a lookup, a logout or a sweep, and a cache of one
entry makes each of the two ids evict the other.  With `Lifetime = 1` and
`MaxTime = 2` each session lives, reaches its last instant and expires; with
`Second = 2` an expiry falls both on a whole second and within one.  `Ptrs` has
one more than the objects two requests and the cache can hold.  Two subscriptions
and two publishers give every order of joining, leaving and sending; two read
loops give the overlap of publishers.  What was left out of a run is left out for
size: with two users in the database run the number of states grows by an order
of magnitude, and users matter to it only through `CopiesMatchGrant`, which the
memory run checks with two and the proof for any number.

In the `guests` run the four devices have lists that tell a guest from its parent
by group, by name, by allowing guests and by denying a group; a pass is shorter
than a session (1 and 2), so that it ends first; `MaxChanges = 1` lets an
account, which may be any at first, appear, vanish or change its groups at any
point of a request; three sessions are a parent's, its guest's, and the one the
guest would make if it could.  One request at a time is enough for
the properties: requests meet only in the stores, whose content may change
between any two steps anyway; the proofs are for any number of requests.
Two `CONSTRAINT`s keep the run small: `NoAccountIsGuests` leaves out accounts that
are members of the group `guest`, whose users and guests differ in the name only,
and `GuestAccountHasGroup` an account called guest without a group, which a query
that broke off gives as well.

In the `ewelink` run two tokens are enough for a token to be refused or refreshed
while another goroutine stores its successor; logins that are answered without a
token are not limited.  A third goroutine would only
add to what the second does, which is to store or clear the token at a bad moment.
In the `oauth` run `MaxTime = 0`: time is in `Sessions`, and what ends a session
here is a profile that is refused.  Three tokens are one login and two refreshes,
in one request after the other or in two at once; one id and three objects give
two requests an object each.  The run has the database, where a
refresh can go wrong in more ways; the theorems of `OAuthProofs` hold without one too.  Two users of the file, two of three LRU entries and
three goroutines give two initialisers and a third goroutine that meets what they
left; a clock of two and a half intervals lets a deletion fail, be retried and
succeed twice.  `MCStores` runs one of its components at a time, since they share
nothing; its `VIEW` leaves out what no step and no property reads again, such as
an LRU that was replaced.

Deadlock checking is off in the `guests` run, where there may be no account to
log in with, in the `oauth` run, where the tokens may be used up, and in the MQTT
runs: they stop when every run is done and the messages are used up.  Session
runs check it; `Restart` is always possible there, so the check says little.

Fairness.  `FairSpec` of `Sessions` assumes weak fairness of cleaner goroutines
only: Go's scheduler runs every runnable goroutine, but nothing makes a client
send a request or time pass.  `GroupFairSpec` and `FairSpec` of `Mqtt` assume
weak fairness of publishers, of the context's timer and of a read loop that is
leaving, and strong fairness of what waits for a mutex that others take again and
again: `sync.Mutex` hands itself to a waiter that starved for a millisecond.
`FairSpec` of `Ewelink` assumes that every goroutine runs and that its calls of
the cloud end: `unlockr.go:112` gives `http.DefaultClient` a timeout of 15 seconds.  Calls of the
MQTT library are assumed to return; `PublishRetained` is called with
no quit channel, so this is the assumption a reader should doubt first.

## 4. What the code does against its own words

* **A logout does not fit its column** (`sessions_schema`).  `Expire` saves the
  zero time, whose Unix value is -62135596800, to a column that `schema.sql:24`
  declares unsigned.  A strict server refuses the statement, `Expire` drops the
  error, the shared object is swept from the cache, and the row is live until it
  expires.  A server that is not strict stores 0, and all is well.
* **A run that fails to publish abandons its channel** (`mqtt_abandoned`).
  `subscribe` says its channel must be read until it is closed; `Expect.Run`
  returns at `mqtt.go:199` without reading.  If a message is on its way, the
  publisher waits for ever with the group's mutex held.  `RunsEnd` is checked for
  behaviours in which this has not happened.
* **A refresh is dropped** (`ewelink_refresh`).  `ewelink.go:99` says that
  `maybeRefresh` gets a new token by means of the refresh token.  It decodes the
  answer into `e.tokens` by value, which changes nothing; and as it has cleared
  the token before it built its request, building it has logged in.  The token that
  is kept is that of the login, and `lastRefresh` is set for the refresh.

Two things a reader of `Guests` should know, which nothing in the code denies.
When the guest handler's lookup fails and the next handler's succeeds, the guest
comes in as the store's account `guest`, if there is one; `schema.sql` requires
such an account before guest sessions can be saved (the foreign key on
`username`).  And a device that denies a user by name does not deny their guests,
while one that denies a group denies theirs: `GuestWithinParent` names both.

Noticed, and without a run: `mqtt.go:157` promises one subscription per topic
filter, but nothing records them; `db.go:168` allows a nil context, which
`context.WithTimeout` does not; `config-sample.json` names its tables `users`
and `sessions` where `schema.sql` creates `unlockr_users` and
`unlockr_sessions`.  `ewelink.go:88` promises a login when the token is
missing, but a request can go out without one, if another goroutine clears it in
between, or if the login was answered without one, which `Login` takes for a success
and stamps as fresh (`BlankIsExplained`).  A late 401 clears whichever token there is
by then (`ewelink.go:221`); that costs a login.

What `ActsWithinAccount` excepts is real: `db.go:128` does not ask `rows.Err`, so a
query that breaks off can lose the very group that a list denies, and the cache
keeps the user that way.

A reader of `OAuth` should know what `OnlyHeldCopyRevives` excuses.  A request
that has prepared the save of a refreshed token carries the old expiry; if
another request ends the session meanwhile, the late statement brings the row
back; and so does a request that looks the session up between the statement that
ended it and the cache's `Add`, finds the old object, and refreshes.  A 4xx answer to a profile request made with the old access token ends a
session that has just been refreshed.  `ServeLogout` has no caller, so an OAuth
user does not log out.  `oauth.go` looks for a `*oauth2.RetrieveError` in the
error of `client.Do`, which is always wrapped in a `*url.Error`, so a refresh that
is refused does not end the session: the user is only sent to log in again.  And
without a database, saving a refreshed token puts an evicted session back into
the cache.

`file.go:22` says that `load` reads the entire data store; since it publishes an
empty table first, a file that could not be read is not read again, and its users
do not exist until a restart (`failed` in `FileMissExplained`).

## 5. What is proved

All theorems are for every value of the constants under the named assumptions of
the modules (`NilAssumption`, `TimeAssumption`, `SizeAssumption`, ...): no
confusion of `Nil` with a value, natural numbers where the code has them, a
finite set of ids, a cache with room for an entry.

| Theorem | Property | What it establishes |
| --- | --- | --- |
| `SessionsProofs.TypeCorrect` | `TypeOK` | Every variable of Sessions keeps its type and the cache its length, in both modes and for any number of goroutines, ids and objects. |
| `SessionsProofs.CopiesCorrect` | `CopiesMatchGrant` | Every copy of a session belongs to the user its id was issued to and expires no later. |
| `SessionsProofs.AcceptCorrect` | `AcceptWithinGrant` | A request is let in only with an issued id, as its user, and before it expires. |
| `SessionsLogoutProofs.LogoutCorrect` | `LogoutImmediate` | In memory, no request is let in with an id from the moment its logout expired the shared object. |
| `SessionsLogoutProofs.RevocationCorrect` | `RevocationDurable` | A logout the database saved stays saved: no later save, fill, clean or restart makes the row live. |
| `SessionsLogoutProofs.RacingFillCorrect` | `OnlyRacingFillOutlivesLogout` | Over the database, only a lookup that had read the row before the logout was saved can leave the session live in the cache. |
| `SessionsLogoutProofs.KeptCorrect` | `KeptInStore` | Nothing but logout, eviction, restart or time ends a session, in either store. |
| `SessionsLogoutProofs.RegistryCorrect` | `ImplementsRegistry` | The stack implements `SessionRegistry`: an id is admitted once, and one that died is never let in again. |
| `ListenGroupProofs.GroupTypeCorrect` | `GroupTypeOK` | The group's variables keep their types, and its members are the open channels. |
| `ListenGroupProofs.SendCorrect` | `NoSendOnClosed` | A publisher sends to open channels of members only, and only while it holds the mutex. |
| `ListenGroupProofs.CopiesCorrect` | `ExactCopies` | A member received every message since it joined, once and in order, but for the one being sent. |
| `ListenGroupProofs.GapsCorrect` | `NoGaps` | What a subscription received is an unbroken run of the messages published. |
| `MqttProofs.MqttTypeCorrect` | `TypeOK` | Mqtt's variables keep their types, and the queue of a read loop its length. |
| `MqttProofs.SuccessCorrect` | `SuccessIsEarned` | A run succeeds only after its command was taken and, if it waits for an answer, a message it wants was copied to it. |
| `MqttProofs.ReaderCorrect` | `OneReader` | At most one read loop has its channel open, and it is the last one started. |
| `MqttProofs.GroupRefined` | `UsesGroup` | Every step of the MQTT client is a step of the listener group or leaves it alone: Mqtt implements GroupSpec. |
| `GuestsProofs.GuestExceedsByName` | - | For every access list: what it grants the guest made from a user, it grants that user, unless it denies the user by name or allows guests by name. |
| `GuestsProofs.GuestsTypeCorrect` | `TypeOK` | Requests, sessions, passes and accounts keep their shapes, and a request that acts has a user. |
| `GuestsProofs.NoGatecrashers` | `GuestsHaveParents` | Every pass was made in a session its parent opened with a password: guests invite nobody. |
| `GuestsProofs.UsersWithinAccounts` | `ActsWithinAccount` | For every access list, a user powers nothing its account never might, save where the list denies a group the account was in. |
| `GuestsProofs.GuestsWithinParents` | `GuestWithinParent` | For every access list, a request with a guest's id powers only what its parent may, what a list grants by name, or what an account called guest may. |
| `GuestsProofs.GuestsAreAdmittedInTime` | `GuestAccessEnds` | Neither handler admits a guest after its pass expired, however late the lookups come. |
| `EwelinkProofs.TypeCorrect` | `TypeOK` | The account's variables keep their types, and no goroutine nests deeper than there are tokens. |
| `EwelinkProofs.RefusedTokensStayOut` | `RefusedStaysOut` | No command sends a token whose refusal was handled before the command began. |
| `EwelinkProofs.BlanksExplained` | `BlankIsExplained` | A request goes out without a token only if another goroutine cleared it in between, or its own login was answered without one. |
| `EwelinkProofs.RecursionIsBounded` | `NestsOnlyWhenDisturbed` | `Token` and `maybeRefresh` nest no deeper than the tokens other goroutines stored meanwhile, plus one. |
| `StoresProofs.EntriesStandCorrect` | `EntriesStand` | An entry added once the first requests were over is found until it is removed or as many other keys were used since as the LRU holds. |
| `StoresProofs.OneDeletionCorrect` | `OneDeletion` | One caller deletes at a time, successes do not overlap and are an interval apart unless debugging is on, and a call is skipped only after a success. |
| `StoresProofs.FileMissesCorrect` | `FileMissExplained` | A listed user is missed only during another load or after one that failed. |
| `StoresProofs.OneDeletionAtATime`, `MissesAreExplained`, `FileTypeCorrect` | - | The same of the clean-up and of the file store by themselves, and the file store's types. |
| `OAuthProofs.OAuthTypesCorrect` | `OAuthTypeOK` | The variables of OAuth keep their types, and a request is behind `FromRequest` exactly while it is served. |
| `OAuthProofs.StoredTokenCorrect` | `StoredTokenUsable` | A live row holds a token that can be refreshed, unless the save of one was lost, two requests crossed, or one is under way. |
| `OAuthProofs.RefreshCorrect` | `OneRequestRefreshes` | With or without a database, requests one after the other never refresh with a token that is used up. |
| `OAuthProofs.RevivalCorrect` | `OnlyHeldCopyRevives` | A session that ended comes back only through a request that was at work when it ended, or found its object in the cache before the end was saved there. |
| `OAuthProofs.OAuthCopiesCorrect` | `CopiesMatchGrant` | The OAuth handler's saves keep every copy its user's, and none outlives its grant. |
| `OAuthProofs.OAuthAcceptCorrect` | `AcceptWithinGrant` | Nobody is let in outside a grant, with the OAuth handler refreshing and ending sessions as well. |

**Sessions.**  `TypeOK` is not inductive: a goroutine about to check an object
must hold one.  `ThreadShape` says what each program counter implies, and
`TypeOK /\ ThreadShape` is inductive; the length of the cache needs
`CacheAddTyped`, a case split on what the LRU evicts.  `CopiesMatchGrant` is
inductive relative to it: a goroutine that saves holds a copy, so what it writes
is one, and rounding down (`UnixFacts`) never postpones an expiry.
`AcceptWithinGrant` follows because `Check` is the only step that accepts.

**Logout.**  What a logout achieves depends on who shares an object, so the
invariant `LogoutInv` follows objects.  `Owner`: an object is reached under one
id, and the object of a login by nobody else.  `Lineage`: a login holds an id that
no client has, and a goroutine that saves is a login with its session as it was
granted, or a logout with an object that has expired.  It is this that forbids a
late save to revive a row.  `InMemory`: without a database all who hold an id
share one object, which the logout expires for them all, and the sweep removes
only ids that are `Gone`.  `InDatabase`: the row of a saved logout is not live and
nobody but a raced request is about to cache anything else; the row of a saved
login keeps its expiry up to the rounding (`Granted`), which survives `CleanTable`
because a row that is due is not dead (`UnixMonotone`).  The first four theorems
read the property off this invariant.  For the refinement, `Outside` says what a
step does to ids: it revives none, and makes at most one live, which a login was
about to store; `Unsaved`, that such a login finds no row, gives the disjointness
of what is live and what is pending.

**ListenGroup.**  `Copies` and `Count` describe what a subscription received
position by position, `Critical` the critical section: a publisher that has
members to send to holds the mutex and is sending the last message of the log.
Together they are inductive, and the two `SubSeq` properties follow.

**Mqtt.**  `GroupStepOfMqtt` maps every step of `Mqtt` to a step of
`ListenGroup` or a stutter, so `GroupRefined` holds and the group's theorems
carry over.  `SuccessIsEarned` needs `RunShape` (a run that reads has sent its
command and has a channel), `OneReader` needs `LoopShape`.

**Guests.**  `GuestExceedsByName` is about the lists alone: `NewUser` keeps every
group, so what a list says of a group it says of parent and guest alike, and
`FewerGroups` says what a lost group costs.  The
invariant has `SessMatch` (a session is stored as it was made, for its owner or for
a pass),
`HadMatch` (stores and cache hold groups the account once had) and `UserMatch`
(whom a request acts as, at each place of its way).  With a guest's id that is
the pass's guest or the account called `guest`, both of which `MayInvite` turns
away; with any other it is the user who logged in for it.  So a pass is made in a
session of its parent (`NewPass`, `ByMatch`), and the facts about the lists do the
rest.

**Ewelink.**  A token that was refused is never the current one again, because
only `DecodeToken` stores a token and it stores a new one; that, with what a
goroutine's place implies about the token it saw, is inductive.  The bound on the
recursion needs to count: a goroutine that is about to nest again has seen a token
it did not store since its last `Clear`, so somebody else has.

**OAuth.**  What `Sessions` is proved to keep carries over because every step of
`OAuth` is, to the store, a step of `Sessions` or one of three others (`StepKinds`):
a statement (`Writes`), an insertion in the LRU (`Caches`), the end of a shared
object (`Expires`).  `StoreStep` shows that these keep types, copies, `Owner` and
`Lineage`, provided that a prepared statement expires no later than the grant
(`Statements`) and that whoever a session was issued to is a user (`Grantees`);
`OAuthCopiesCorrect` and `OAuthAcceptCorrect` follow.  On top of that
base the invariant `OAuthInv` has three parts.

* `Over`, for `OnlyHeldCopyRevives`: a session that ended, and that is not in
  `holding`, has no live row, no request with an object that could make it live, and
  no prepared statement that would; and nobody finds such an object in the cache but
  while the end is on its way there.  The property alone is not inductive: a row is
  revived by a statement prepared earlier, from an object looked up earlier still.
* `Apart`: no two sessions know a common token, wherever each may have it (object,
  row, or a request under way), and a login that has no id yet keeps its token to
  itself.  Without it a refresh in one session could use up another's token.
* `InSync`, for `StoredTokenUsable` and `OneRequestRefreshes`: a session that is
  neither `lost` nor `crossed` has one object, one request between refresh and
  save, and no used-up token but the one that request is replacing.

Most steps are `Quiet`: they create no token, burn none but of a session that is
lost by it, and move tokens only between an object, a request and the row of one
session.  Quiet steps keep `Apart` and `InSync` by one
argument; the five that are not (`Exchange`, `Load`, `NewID`, `RefreshOK`, `Adopt`)
have a lemma each.

**Stores.**  `MCStores` runs one of its components at a time, so `StoresInv` says
of the one that runs its own invariant, and of the others that they are as they
began; the theorems hold for either use of `LazyCache`.

*LazyCache.*  `EntriesStand` counts (`since[k]` is the set of keys used after `k`),
while the code has an order.  `Kept` ties the two: if `k` is in the LRU, every key
that stands behind it was used since; if it has left, at least `Length` keys were.
A key is pushed out of the front of a full LRU, and then `Length` different keys
stand behind it, the new one included; `FirstNumbers`, `OneMore` and
`SameCardinality` make that a statement about `Cardinality`.  `Calm` is the part
about the race of two initialisers: once there is an LRU and no goroutine is about to
make another, every call that begins uses that one.  `Filed` says that an LRU holds
a key once, which adding a key again needs.

*FileStore.*  A published table that lacks a user is being completed by somebody,
or a load failed (`Completed`).  It is `Decode`'s argument that makes it so: the
goroutine that published an empty table has yet to decode into the table that is
published by then.

*DBClean.*  Whoever is past the attempt holds the mutex (`Held`); the time of the
last success is an interval behind `lastClean`, and a deletion under way began
after it (`Stamped`).  The modules that `MCStores` instantiates state no assumption
of their own; the theorems use `BoundsAssumption` of `MCStores`.

Every invariant, action property and refinement that a passing run checks is
stated by one of these theorems.  Out of the prover's reach, and left to TLC, are
`SweptEventually`, `UnsubscribesAreCleanedUp`, `RunsEnd` and `CommandsEnd`, which
are liveness under fairness.  The three counterexamples are runs of TLC.

## 6. Plan

Done, in the order of importance: `Sessions`, `Mqtt`, `Guests`, `Ewelink`,
`OAuth` over `Sessions`, the stores (`FileStore`, `LazyCache`, `DBClean`), and the
safety of all of them proved.  To come:

1. an abstract registry for `OAuth`, in which a session that ended may come back
   only through a request that was at work, and that `OAuth` implements it;
   `SessionRegistry` itself is too strict for it (`OnlyHeldCopyRevives`);
2. the same for one command of `Mqtt`: asked, answered or failed, once.

## 7. Not modelled, and why

Parsing of flags and configuration, static files, the debugging switch (but
for the interval it turns off in `DBClean`), the
Debian build tool and the hash utility read input and write output without shared
state.  Cookie attributes and redirects are headers.  `noop` counts calls for
tests.  `Renew` has no caller.  Listing and switching ask the same
`UserCanAccess` of the same user, so no property compares them.

The browser script is single-threaded and keeps one synchronisation of its tab at
a time by a flag; the server promises it nothing beyond the requests modelled
here.  `getDB` is as lazy as the caches, but what two first requests lose is a
connection pool, which no answer depends on.  Which of several session cookies
`FromRequest` takes (`getCookie` is meant to take the newest and takes the first)
is not modelled: a request presents one id.
