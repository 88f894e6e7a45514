------------------------------ MODULE MCOAuth ------------------------------
(***************************************************************************)
(* An instance of OAuth for TLC: one user and one session, two requests.   *)
(***************************************************************************)
EXTENDS OAuth, TLC

Symmetry == Permutations(Ptrs) \cup Permutations(Handlers)

\* An object nothing refers to is garbage: its contents tell no states apart.
View ==
    <<now, [q \in Ptrs |-> IF q \in Reachable THEN <<heap[q], extra[q]>> ELSE <<NoRow, 0>>],
      cache, table, th, grant, delivered, column, users, src, minted, stale, burnt, ohist>>
=============================================================================
