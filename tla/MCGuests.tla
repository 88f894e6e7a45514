------------------------------ MODULE MCGuests ------------------------------
(***************************************************************************)
(* An instance of Guests for TLC: one user, one group, and a device for    *)
(* each way in which an access list can tell a guest from its parent.      *)
(***************************************************************************)
EXTENDS Guests, TLC

CONSTANTS alice, family, byGroup, byName, forGuests, notFamily

None == [users |-> {}, groups |-> {}]
Lists ==
    [d \in Devices |->
        CASE d = byGroup   -> [deny |-> None, default |-> "deny",
                               allow |-> [users |-> {}, groups |-> {family}]]
          [] d = byName    -> [deny |-> [users |-> {alice}, groups |-> {}], default |-> "",
                               allow |-> None]
          [] d = forGuests -> [deny |-> None, default |-> "deny",
                               allow |-> [users |-> {alice}, groups |-> {Guest}]]
          [] d = notFamily -> [deny |-> [users |-> {}, groups |-> {family}], default |-> "allow",
                               allow |-> [users |-> {alice}, groups |-> {}]]]

Symmetry == Permutations(Ids)

\* The group of guests has no accounts as members: theirs come from NewUser.
NoAccountIsGuests == \A n \in Names : Guest \notin accounts[n]

\* The account called guest, if there is one, has a group: read from rows that
\* broke off it has none all the same.
GuestAccountHasGroup == accounts[Guest] # {}
=============================================================================
