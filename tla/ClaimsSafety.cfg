CONSTANTS
    Users = {u1, u2}
    Founder = u1
    Admins = {}
    Handlers = {h1, h2}
    Invites = {i1}
    NoInvite = noInvite
    MaxUses = 1
    MaxRequests = 3
    Slots = {1, 2}
    NoOne = noOne
    Jobs = {j1, j2}
SPECIFICATION Spec
SYMMETRY Interchangeable
CHECK_DEADLOCK FALSE
INVARIANTS
    OrganizerRemains
    InvitesNotOverspent
    GoneRoomHasNobody
    FreeIffLink
    TakenFirstIsTrue
PROPERTIES
    OnlyStaffLowerARole
    HeldUntilReleased
