\* Two rooms restarted one at a time, a full pass every two short ones.
CONSTANTS
    VanishGrace = 1
    StopDeadline = 1
    StartDeadline = 1
    DegradedSweeps = 3
    MaxRecreates = 1
    ReapsIdleRooms = FALSE
    Rooms <- TwoRooms
    Interval = 2
    MaxFaults = 1
SPECIFICATION Spec
INVARIANTS
    TypeOK
    RestartsArePaced
    NothingLeftInFlight
PROPERTIES
    DegradedTakesSweeps
    NoRequestStarves
    FullPassesKeepComing
