\* Two organizers leave a room at once, each seeing the other still there.
CONSTANTS
    Users = {u1, u2}
    Founder = u1
    Admins = {}
    Handlers = {h1, h2}
    Invites = {i1}
    NoInvite = noInvite
    MaxUses = 1
    MaxRequests = 3
    Slots = {1}
    NoOne = noOne
    Jobs = {j1, j2}
SPECIFICATION Spec
CHECK_DEADLOCK FALSE
INVARIANTS
    RoomHasOrganizer
