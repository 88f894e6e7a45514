\* One user and perhaps an account called guest, three sessions, a request.
SPECIFICATION Spec
CONSTANTS
    Guest = Guest
    alice = alice
    family = family
    byGroup = byGroup
    byName = byName
    forGuests = forGuests
    notFamily = notFamily
    Names = {alice, Guest}
    GroupNames = {family, Guest}
    Devices = {byGroup, byName, forGuests, notFamily}
    Acl <- Lists
    Ids = {i1, i2, i3}
    Handlers = {h1}
    Nil = Nil
    Lifetime = 2
    GuestLifetime = 1
    MaxTime = 2
    MaxChanges = 1
CHECK_DEADLOCK FALSE
SYMMETRY Symmetry
CONSTRAINTS NoAccountIsGuests GuestAccountHasGroup
INVARIANTS TypeOK GuestWithinParent GuestsHaveParents ActsWithinAccount
PROPERTIES GuestAccessEnds
