\* One orchestrator, two rooms, and two restarts that may find the
\* range narrowed to one pair, or widened from one.
CONSTANTS
    Rooms = {r1, r2}
    NoRoom = NoRoom
    Pairs = {p1, p2}
    NoPair = NoPair
    Orchestrators = {o1}
    Ranges = {{p1, p2}, {p1}}
    MaxTries = 1
    MaxStarts = 3
    MaxFaults = 1
SYMMETRY RoomSymmetry
SPECIFICATION Spec
INVARIANTS
    OnePairPerRoom
    LiveServesItsPair
PROPERTIES
    ReclaimSparesTheLive
