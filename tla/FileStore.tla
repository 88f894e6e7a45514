----------------------------- MODULE FileStore -----------------------------
(***************************************************************************)
(* store.FileStore: a file of users that the first lookup loads.           *)
(*                                                                         *)
(* load publishes an empty table before it opens the file, and decodes     *)
(* into whatever table is published by then, while other lookups read it.  *)
(* Nothing is locked.  A map that is read while it is written stops the    *)
(* program, or the read misses.                                            *)
(***************************************************************************)
EXTENDS FiniteSets

CONSTANTS
    Procs,          \* request goroutines; a table is named after the one that made it
    Names,          \* usernames looked up
    Listed,         \* the users in the file
    None

VARIABLES
    data,           \* f.data: a table, or None
    content,        \* table -> the users decoded into it
    pc,
    want,           \* the user a goroutine looks up
    target,         \* the table a goroutine decodes into
    answer,         \* how its last lookup ended
    failed          \* history: a load has failed since the start of the process

vars == <<data, content, pc, want, target, answer, failed>>

TypeOK ==
    /\ data \in Procs \cup {None}
    /\ content \in [Procs -> SUBSET Listed]
    /\ pc \in [Procs -> {"idle", "load", "make", "open", "decode", "look"}]
    /\ want \in [Procs -> Names \cup {None}]
    /\ target \in [Procs -> Procs \cup {None}]
    /\ answer \in [Procs -> {"none", "found", "missing", "error"}]
    /\ failed \in BOOLEAN

Init ==
    /\ data = None
    /\ content = [p \in Procs |-> {}]
    /\ pc = [p \in Procs |-> "idle"]
    /\ want = [p \in Procs |-> None]
    /\ target = [p \in Procs |-> None]
    /\ answer = [p \in Procs |-> "none"]
    /\ failed = FALSE

Goto(p, l) == pc' = [pc EXCEPT ![p] = l]
Answer(p, a) ==
    /\ answer' = [answer EXCEPT ![p] = a]
    /\ want' = [want EXCEPT ![p] = None]
    /\ target' = [target EXCEPT ![p] = None]
    /\ Goto(p, "idle")

User(p, u) ==
    /\ pc[p] = "idle"
    /\ want' = [want EXCEPT ![p] = u]
    /\ answer' = [answer EXCEPT ![p] = "none"]
    /\ Goto(p, "load")
    /\ UNCHANGED <<data, content, target, failed>>

\* load: a table that is published is taken to be loaded.
Load(p) ==
    /\ pc[p] = "load"
    /\ Goto(p, IF data = None THEN "make" ELSE "look")
    /\ UNCHANGED <<data, content, want, target, answer, failed>>

\* The empty table is published.
Publish(p) ==
    /\ pc[p] = "make"
    /\ data' = p
    /\ content' = [content EXCEPT ![p] = {}]
    /\ Goto(p, "open")
    /\ UNCHANGED <<want, target, answer, failed>>

\* The file does not open, or is not JSON: nothing is decoded, now or later.
OpenFails(p) ==
    /\ pc[p] = "open"
    /\ failed' = TRUE
    /\ Answer(p, "error")
    /\ UNCHANGED <<data, content>>

\* Decode is called with f.data, as it is by now.
Open(p) ==
    /\ pc[p] = "open"
    /\ target' = [target EXCEPT ![p] = data]
    /\ Goto(p, "decode")
    /\ UNCHANGED <<data, content, want, answer, failed>>

\* The decoder adds the users one after the other.
DecodeUser(p) ==
    /\ pc[p] = "decode"
    /\ \E u \in Listed \ content[target[p]] :
        content' = [content EXCEPT ![target[p]] = @ \cup {u}]
    /\ UNCHANGED <<data, pc, want, target, answer, failed>>

\* Fault: the decoding goes on in the background.
Decoded_Partly(p) == TRUE
Decoded(p) == Listed \subseteq content[target[p]]

DecodeEnds(p) ==
    /\ pc[p] = "decode"
    /\ Decoded(p)
    /\ Goto(p, "look")
    /\ UNCHANGED <<data, content, want, target, answer, failed>>

\* A value of the wrong type: the rest is decoded, and the load fails.
DecodeFails(p) ==
    /\ pc[p] = "decode"
    /\ failed' = TRUE
    /\ Answer(p, "error")
    /\ UNCHANGED <<data, content>>

\* The lookup in f.data.Users; a user that is not there is sql.ErrNoRows.
Look(p) ==
    /\ pc[p] = "look"
    /\ Answer(p, IF want[p] \in content[data] THEN "found" ELSE "missing")
    /\ UNCHANGED <<data, content, failed>>

\* Goroutines that are still loading a table.
Loading == {p \in Procs : pc[p] \in {"open", "decode"}}

\* The table a goroutine reads or writes next.
Touched(p) == IF pc[p] = "look" THEN data ELSE target[p]

\* The runtime stops a program that uses a map while another writes it.
Stop(p) ==
    /\ pc[p] \in {"look", "decode"}
    /\ \E k \in Procs \ {p} : pc[k] = "decode" /\ target[k] = Touched(p)
    /\ data' = None
    /\ content' = [k \in Procs |-> {}]
    /\ pc' = [k \in Procs |-> "idle"]
    /\ want' = [k \in Procs |-> None]
    /\ target' = [k \in Procs |-> None]
    /\ answer' = [k \in Procs |-> "none"]
    /\ failed' = FALSE

Next ==
    \E p \in Procs :
        \/ \E u \in Names : User(p, u)
        \/ Load(p) \/ Publish(p) \/ Open(p) \/ OpenFails(p)
        \/ DecodeUser(p) \/ DecodeEnds(p) \/ DecodeFails(p) \/ Look(p) \/ Stop(p)

Spec == Init /\ [][Next]_vars

\* A user of the file is reported missing only while another lookup is loading
\* it, or after a load that failed: a load that succeeds is complete for the
\* goroutine that did it, whichever table the others have published since.
Misses(p) == pc[p] = "look" /\ answer'[p] = "missing"
FileMissExplained == [][\A p \in Procs : Misses(p) /\ want[p] \in Listed =>
                        failed \/ Loading \ {p} # {}]_vars
=============================================================================
