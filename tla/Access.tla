------------------------------- MODULE Access -------------------------------
(***************************************************************************)
(* access.go: who may use a device, and the user that stands for a guest.  *)
(* A user is a name and a set of groups; a list names users and groups.    *)
(***************************************************************************)
CONSTANT Guest      \* guest.key, the name of every guest and of their group

HasGroup(u, g) == g \in u.groups

\* List.HasUser: by name or through a group.
HasUser(list, u) ==
    \/ u.name \in list.users
    \/ \E g \in list.groups : HasGroup(u, g)

\* ACL.UserCanAccess: deny wins over allow, and allow over the default.
UserCanAccess(acl, u) ==
    /\ ~HasUser(acl.deny, u)
    /\ HasUser(acl.allow, u) \/ acl.default \in {"allow", ""}

\* Fault: the guest has none of its parent's groups, not even those denied.
NewUser_NoGroups(parent) == [name |-> Guest, groups |-> {Guest}]
\* guest.NewUser: the parent's groups, and the guests' own.
NewUser(parent) == [name |-> Guest, groups |-> parent.groups \cup {Guest}]
=============================================================================
