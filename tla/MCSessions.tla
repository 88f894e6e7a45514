----------------------------- MODULE MCSessions -----------------------------
(***************************************************************************)
(* Instances of Sessions for TLC.  The constants are in the cfg files.     *)
(***************************************************************************)
EXTENDS Sessions, TLC

Symmetry ==
    Permutations(Users) \cup Permutations(Ids) \cup Permutations(Ptrs)
        \cup Permutations(Handlers)

\* An object nothing refers to is garbage: its contents tell no states apart.
\* Nor does a request to clean when the instance has no cleaner.
View ==
    <<now, [q \in Ptrs |-> IF q \in Reachable THEN heap[q] ELSE NoRow],
      cache, table, th, cleanDue /\ Cleaners # {}, hist>>
=============================================================================
