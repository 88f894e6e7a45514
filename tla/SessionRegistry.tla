-------------------------- MODULE SessionRegistry --------------------------
(***************************************************************************)
(* What unlockr promises about session ids, whatever store holds them.     *)
(*                                                                         *)
(* An id is handed out at most once.  While it is valid, a request that    *)
(* presents it can be let in.  It stops being valid when its owner logs    *)
(* out, when its lifetime runs out, or when the store forgets it, and it   *)
(* never becomes valid again.  Sessions.tla implements this module twice:  *)
(* over the memory-only store and over the database-backed one.            *)
(***************************************************************************)
CONSTANT Ids

VARIABLES
    valid,      \* ids that the system of record would still let in
    spent       \* ids that were handed out, or burnt, and are dead for good

vars == <<valid, spent>>

Init == valid = {} /\ spent = {}

\* A session is registered.  A full store may drop others to make room.
Admit(i, dropped) ==
    /\ i \notin valid \cup spent
    /\ valid' = (valid \cup {i}) \ dropped
    /\ spent' = spent \cup dropped

\* Ids stop being valid: logout, expiry, eviction or restart.
Drop(dropped) ==
    /\ valid' = valid \ dropped
    /\ spent' = spent \cup dropped

Next ==
    \E dropped \in SUBSET Ids :
        \/ \E i \in Ids : Admit(i, dropped)
        \/ Drop(dropped)

Spec == Init /\ [][Next]_vars
=============================================================================
