------------------------------ MODULE MCStores ------------------------------
(***************************************************************************)
(* The stores that requests share without a lock, or with one they only    *)
(* try: FileStore, LazyCache as the session cache and as the CSRF tokens,  *)
(* and DBClean.  They share nothing, so a behaviour of this module is a    *)
(* behaviour of one of them, and interleaving them would show no more.     *)
(* The user cache is used as the session cache is, but nothing removes.    *)
(***************************************************************************)
EXTENDS Naturals, TLC

CONSTANTS Procs, Names, Listed, Keys, Length, Interval, Timeout, MaxTime, None

ASSUME BoundsAssumption ==
    /\ Listed \subseteq Names
    /\ Length \in Nat \ {0}
    /\ Interval \in Nat \ {0} /\ Timeout \in Nat /\ MaxTime \in Nat
    /\ None \notin Procs \cup Names \cup Keys

\* Goroutines are alike, and so are the keys, and the users of the file.
Symmetry == Permutations(Procs) \cup Permutations(Keys) \cup Permutations(Listed)

VARIABLES
    under,                                                  \* which of them it is
    pc,
    data, content, want, target, answer, failed,            \* FileStore
    current, entries, lru, added, calm, kept, since,        \* LazyCache
    debug, now, lastClean, mu, started, deletions           \* DBClean

File == INSTANCE FileStore
SessionCache == INSTANCE LazyCache WITH Ops <- {"add", "get", "remove"}, Once <- FALSE
LoginTokens == INSTANCE LazyCache WITH Ops <- {"add", "contains"}, Once <- TRUE
Clean == INSTANCE DBClean

fileVars == <<data, content, want, target, answer, failed>>
cacheVars == <<current, entries, lru, added, calm, kept, since>>
cleanVars == <<debug, now, lastClean, mu, started, deletions>>
vars == <<under, pc, fileVars, cacheVars, cleanVars>>

Init ==
    /\ under \in {"file", "session cache", "login tokens", "clean"}
    /\ File!Init /\ SessionCache!Init /\ Clean!Init

Next ==
    /\ \/ under = "file" /\ File!Next /\ UNCHANGED <<cacheVars, cleanVars>>
       \/ under = "session cache" /\ SessionCache!Next /\ UNCHANGED <<fileVars, cleanVars>>
       \/ under = "login tokens" /\ LoginTokens!Next /\ UNCHANGED <<fileVars, cleanVars>>
       \/ under = "clean" /\ Clean!Next /\ UNCHANGED <<fileVars, cacheVars>>
    /\ UNCHANGED under

Spec == Init /\ [][Next]_vars

\* What no step and no property reads again tells no states apart: an LRU that
\* was replaced, what was used since a key that is not kept, debug elsewhere.
View ==
    <<under, pc, fileVars, current, IF current = None THEN <<>> ELSE entries[current], lru,
      added, calm, kept, [k \in kept |-> since[k]],
      IF under = "clean" THEN cleanVars ELSE <<>> >>

\* A user of the file is reported missing only while another lookup loads it, or
\* after a load failed (FileStore).
FileMissExplained == File!FileMissExplained

\* A session, and a CSRF token, that was added once the first requests were over
\* is found until it is removed or Length others were used since (LazyCache).
EntriesStand == under \in {"session cache", "login tokens"} => SessionCache!EntriesStand

\* One deletion at a time, and one that succeeds per interval (DBClean).
OneDeletion == Clean!OneDeletion
=============================================================================
