------------------------------ MODULE Ewelink ------------------------------
(***************************************************************************)
(* The eWeLink account of ewelink.go: one set of tokens, without a lock,   *)
(* shared by every request goroutine that switches a device.               *)
(*                                                                         *)
(* Token calls maybeRefresh, which clears the token and builds a request,  *)
(* which calls Token again: the recursion is the depth of a goroutine.     *)
(* A read of a string that another goroutine is writing may pair a nil     *)
(* pointer with a length, and using it panics; net/http ends the request.  *)
(***************************************************************************)
EXTENDS Naturals

CONSTANTS
    Procs,          \* request goroutines
    MaxTokens       \* bound on the tokens the cloud issues

ASSUME BoundAssumption == MaxTokens \in Nat

VARIABLES
    token,          \* e.tokens.Token, 0 for ""
    refreshable,    \* e.tokens.RefreshToken # ""
    age,            \* e.tokens.lastRefresh: never set, or within 20 hours, or not
    issued,         \* tokens the cloud has issued: 1..issued
    refused,        \* tokens the cloud answered with 401, once that was handled
    pc, depth,      \* the goroutines, and their calls of maybeRefresh in progress
    bearer,         \* the token in the request a goroutine has built
    known,          \* the refused tokens when its command began
    foreign,        \* tokens others have stored since its command began
    cleared,        \* others have cleared the token since it last saw one or stored one
    tokenless       \* a login of its own was answered without a token since then

mine == <<pc, depth, bearer, known, foreign, cleared, tokenless>>
vars == <<token, refreshable, age, issued, refused, mine>>

Tokens == 1..MaxTokens
PCs == {"idle", "check", "age", "clear", "login", "decode", "stamp", "read",
        "refresh", "send"}

\* The type invariant: no goroutine nests deeper than there are tokens.
TypeOK ==
    /\ token \in 0..MaxTokens
    /\ refreshable \in BOOLEAN
    /\ age \in {"never", "fresh", "old"}
    /\ issued \in 0..MaxTokens
    /\ refused \in SUBSET Tokens
    /\ pc \in [Procs -> PCs]
    /\ depth \in [Procs -> 0..(MaxTokens + 1)]
    /\ bearer \in [Procs -> 0..MaxTokens]
    /\ known \in [Procs -> SUBSET Tokens]
    /\ foreign \in [Procs -> 0..MaxTokens]
    /\ cleared \in [Procs -> BOOLEAN] /\ tokenless \in [Procs -> BOOLEAN]

Init ==
    /\ token = 0 /\ refreshable = FALSE /\ age = "never"
    /\ issued = 0 /\ refused = {}
    /\ pc = [g \in Procs |-> "idle"]
    /\ depth = [g \in Procs |-> 0]
    /\ bearer = [g \in Procs |-> 0]
    /\ known = [g \in Procs |-> {}]
    /\ foreign = [g \in Procs |-> 0]
    /\ cleared = [g \in Procs |-> FALSE]
    /\ tokenless = [g \in Procs |-> FALSE]

Goto(g, l) == pc' = [pc EXCEPT ![g] = l]

\* g clears the token: e.tokens.Token = "".
Blank(g) ==
    /\ token' = 0
    /\ cleared' = [k \in Procs |-> IF k = g THEN cleared[k] ELSE pc[k] # "idle"]

\* The command of g is over, and with it the request it built.
Leave(g) ==
    /\ Goto(g, "idle")
    /\ depth' = [depth EXCEPT ![g] = 0]
    /\ bearer' = [bearer EXCEPT ![g] = 0]
    /\ known' = [known EXCEPT ![g] = {}]
    /\ foreign' = [foreign EXCEPT ![g] = 0]
    /\ tokenless' = [tokenless EXCEPT ![g] = FALSE]

\* The request a goroutine built is answered with the API's 401.
Refuse(g) ==
    /\ Blank(g)
    /\ refused' = refused \cup ({bearer[g]} \ {0})

----------------------------------------------------------------------------
\* Power builds its request: NewRequest calls Token.
Power(g) ==
    /\ pc[g] = "idle"
    /\ Goto(g, "check")
    /\ known' = [known EXCEPT ![g] = refused]
    /\ UNCHANGED <<token, refreshable, age, issued, refused, depth, bearer, foreign, cleared, tokenless>>

\* Token: a missing token means a login.
CheckToken(g) ==
    /\ pc[g] = "check"
    /\ Goto(g, IF token = 0 THEN "login" ELSE "age")
    /\ cleared' = [cleared EXCEPT ![g] = FALSE]
    /\ tokenless' = [tokenless EXCEPT ![g] = FALSE]
    /\ UNCHANGED <<token, refreshable, age, issued, refused, depth, bearer, known, foreign>>

\* maybeRefresh: a recent token is kept; without a refresh token, log in.
CheckAge(g) ==
    /\ pc[g] = "age"
    /\ Goto(g, IF age = "fresh" THEN "read" ELSE IF refreshable THEN "clear" ELSE "login")
    /\ UNCHANGED <<token, refreshable, age, issued, refused, depth, bearer, known, foreign, cleared, tokenless>>

\* Fault: the token is kept while it is being refreshed.
Clear_KeepsToken(g) ==
    /\ pc[g] = "clear"
    /\ depth' = [depth EXCEPT ![g] = @ + 1]
    /\ Goto(g, "check")
    /\ UNCHANGED <<token, refreshable, age, issued, refused, bearer, known, foreign, cleared, tokenless>>
\* maybeRefresh clears the token and builds its own request, which calls Token.
Clear(g) ==
    /\ pc[g] = "clear"
    /\ Blank(g)
    /\ depth' = [depth EXCEPT ![g] = @ + 1]
    /\ Goto(g, "check")
    /\ UNCHANGED <<refreshable, age, issued, refused, bearer, known, foreign, tokenless>>

----------------------------------------------------------------------------
(* Login: an answer in JSON is decoded into e.tokens field by field, be it an  *)
(* error or hold no token; only then is its error looked at.                   *)

\* The access token first: the cloud issues a new one,
DecodeToken(g) ==
    /\ pc[g] = "login"
    /\ issued < MaxTokens
    /\ issued' = issued + 1
    /\ token' = issued + 1
    /\ foreign' = [k \in Procs |-> IF k = g \/ pc[k] = "idle" THEN foreign[k] ELSE foreign[k] + 1]
    /\ cleared' = [cleared EXCEPT ![g] = FALSE]
    /\ tokenless' = [tokenless EXCEPT ![g] = FALSE]
    /\ Goto(g, "decode")
    /\ UNCHANGED <<refreshable, age, refused, depth, bearer, known>>

\* or leaves it out, or has it empty.
DecodeNoToken(g) ==
    /\ pc[g] = "login"
    /\ UNCHANGED <<token, cleared>> \/ Blank(g)
    /\ tokenless' = [tokenless EXCEPT ![g] = TRUE]
    /\ Goto(g, "decode")
    /\ UNCHANGED <<refreshable, age, issued, refused, depth, bearer, known, foreign>>

\* The refresh token next: new, left out, or empty.
DecodeRefresh(g) ==
    /\ pc[g] = "decode"
    /\ refreshable' \in BOOLEAN
    /\ Goto(g, "stamp")
    /\ UNCHANGED <<token, age, issued, refused, depth, bearer, known, foreign, cleared, tokenless>>

\* Without an error, lastRefresh.
Stamp(g) ==
    /\ pc[g] = "stamp"
    /\ age' = "fresh"
    /\ Goto(g, "read")
    /\ UNCHANGED <<token, refreshable, issued, refused, depth, bearer, known, foreign, cleared, tokenless>>

\* Login failed, so Token fails: the command fails with it, but a refresh that
\* was waiting for this token gives up, and the Token that wanted it logs in.
Fail(g) ==
    \/ depth[g] = 0 /\ Leave(g)
    \/ /\ depth[g] > 0
       /\ Goto(g, "login")
       /\ depth' = [depth EXCEPT ![g] = @ - 1]
       /\ UNCHANGED <<bearer, known, foreign, tokenless>>

\* Fault: a failed login is tried again.
LoginFails_Retries(g) ==
    /\ pc[g] \in {"login", "stamp"}
    /\ Goto(g, "login")
    /\ UNCHANGED <<token, refreshable, age, issued, refused, depth, bearer, known, foreign, cleared, tokenless>>
\* Fault: Token ignores the error of Login.
LoginFails_Ignored(g) ==
    /\ pc[g] = "login"
    /\ Goto(g, "read")
    /\ UNCHANGED <<token, refreshable, age, issued, refused, depth, bearer, known, foreign, cleared, tokenless>>
\* Not configured, no answer within the client's timeout, or none in JSON; or an
\* error in the envelope, or a field of another type, in what has been decoded.
LoginFails(g) ==
    /\ pc[g] \in {"login", "stamp"}
    /\ Fail(g)
    /\ \/ UNCHANGED <<token, cleared>>
       \/ Blank(g)                              \* the error was 401
    /\ UNCHANGED <<refreshable, age, issued, refused>>

----------------------------------------------------------------------------
(* Token returns e.tokens.Token, read again; the request is sent with it. *)

ReadToken(g) ==
    /\ pc[g] = "read"
    /\ bearer' = [bearer EXCEPT ![g] = token]
    /\ Goto(g, IF depth[g] = 0 THEN "send" ELSE "refresh")
    /\ UNCHANGED <<token, refreshable, age, issued, refused, depth, known, foreign, cleared, tokenless>>

\* Goroutines whose next step may write the token.
Writers == {k \in Procs : pc[k] \in {"clear", "login", "stamp", "refresh", "send"}}

\* The read is torn by a write, here or where the token is encoded as part of
\* the payload of a refresh: the request of g panics and ends.
ReadTorn(g) ==
    /\ pc[g] = "read" \/ (pc[g] = "check" /\ depth[g] > 0)
    /\ Writers # {}
    /\ Leave(g)
    /\ UNCHANGED <<token, refreshable, age, issued, refused, cleared>>

\* The refresh is answered without an error: whatever it holds is decoded into a
\* copy of e.tokens and dropped; lastRefresh is set, and the outer Token reads on.
RefreshOK(g) ==
    /\ pc[g] = "refresh"
    /\ issued' \in {issued, issued + 1} /\ issued' <= MaxTokens
    /\ age' = "fresh"
    /\ depth' = [depth EXCEPT ![g] = @ - 1]
    /\ Goto(g, "read")
    /\ UNCHANGED <<token, refreshable, refused, bearer, known, foreign, cleared, tokenless>>

\* The refresh fails: the outer Token logs in.
RefreshFails(g) ==
    /\ pc[g] = "refresh"
    /\ depth' = [depth EXCEPT ![g] = @ - 1]
    /\ Goto(g, "login")
    /\ \/ UNCHANGED <<token, refused, cleared>>
       \/ Refuse(g)
    /\ UNCHANGED <<refreshable, age, issued, bearer, known, foreign, tokenless>>

\* Fault: the 401 in the envelope is not noticed (the API answers 200 OK).
CommandEnds_KeepsToken(g) ==
    /\ pc[g] = "send"
    /\ Leave(g)
    /\ \/ UNCHANGED <<token, refused, cleared>>
       \/ refused' = refused \cup ({bearer[g]} \ {0}) /\ UNCHANGED <<token, cleared>>
    /\ UNCHANGED <<refreshable, age, issued>>
\* The command is answered, or fails; a 401 clears the token, whichever it is.
CommandEnds(g) ==
    /\ pc[g] = "send"
    /\ Leave(g)
    /\ \/ UNCHANGED <<token, refused, cleared>>
       \/ Refuse(g)
    /\ UNCHANGED <<refreshable, age, issued>>

----------------------------------------------------------------------------
\* Twenty hours pass.
Tire ==
    /\ age = "fresh"
    /\ age' = "old"
    /\ UNCHANGED <<token, refreshable, issued, refused, mine>>

Run(g) ==
    \/ CheckToken(g) \/ CheckAge(g) \/ Clear(g)
    \/ DecodeToken(g) \/ DecodeNoToken(g) \/ DecodeRefresh(g) \/ Stamp(g) \/ LoginFails(g)
    \/ ReadToken(g) \/ ReadTorn(g)
    \/ RefreshOK(g) \/ RefreshFails(g) \/ CommandEnds(g)

Next == (\E g \in Procs : Power(g) \/ Run(g)) \/ Tire

Spec == Init /\ [][Next]_vars

\* The scheduler runs every goroutine, and the client's timeout ends each call.
FairSpec == Spec /\ \A g \in Procs : WF_vars(Run(g))

----------------------------------------------------------------------------
(* Correctness. *)

\* A token whose refusal was handled before a command began is not sent by it,
\* nor by the refresh it starts: what one goroutine learns from a 401 reaches
\* every other one, and nothing stores an old token over it.
Sent(g) == pc[g] \in {"send", "refresh"}
RefusedStaysOut == \A g \in Procs : Sent(g) => bearer[g] \notin known[g]

\* Token "retrieves the current token, or calls login if missing": a request goes
\* out without a token only when another goroutine cleared it after this one had
\* checked it or had logged in, or when the cloud answered the login of this one
\* without a token, which Login takes for a success.
BlankIsExplained == \A g \in Procs : Sent(g) /\ bearer[g] = 0 => cleared[g] \/ tokenless[g]

\* Clearing the token is what ends the recursion of Token and maybeRefresh: a
\* command nests a refresh within a refresh only when another goroutine stored
\* a token in between.
NestsOnlyWhenDisturbed == \A g \in Procs : depth[g] <= foreign[g] + 1

\* Every command ends, whatever the cloud answers.
CommandsEnd == \A g \in Procs : pc[g] = "check" ~> pc[g] = "idle"

\* ewelink.go:99 says of maybeRefresh that it gets a new token: once a refresh
\* is granted one, the token kept is the one it was granted.
Granted(g) == pc[g] = "refresh" /\ pc'[g] = "read" /\ issued' # issued
RefreshIsKept == [][\A g \in Procs : Granted(g) => token' = issued']_vars
=============================================================================
