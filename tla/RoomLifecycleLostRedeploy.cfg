\* No faults: one edit and one redeploy request are enough.
CONSTANTS
    Rooms = {r1}
    NoRoom = NoRoom
    VanishGrace = 0
    StopDeadline = 0
    StartDeadline = 0
    DegradedSweeps = 2
    MaxRecreates = 1
    ReapsIdleRooms = FALSE
    Requests = {"running", "stopped"}
    MaxRev = 2
    MaxAge = 1
    MaxFaults = 0
    MaxAsks = 1
    MaxRanges = 0
SPECIFICATION Spec
INVARIANTS
    EveryRequestHonoured
