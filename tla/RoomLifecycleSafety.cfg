\* One room, one fault, two revisions, one redeploy request, one narrowed
\* port range; idle rooms are reaped.
CONSTANTS
    Rooms = {r1}
    NoRoom = NoRoom
    VanishGrace = 0
    StopDeadline = 0
    StartDeadline = 0
    DegradedSweeps = 2
    MaxRecreates = 1
    ReapsIdleRooms = TRUE
    Requests = {"running", "stopped", "deleted"}
    MaxRev = 2
    MaxAge = 1
    MaxFaults = 1
    MaxAsks = 1
    MaxRanges = 1
SPECIFICATION Spec
INVARIANTS
    DeletedLeavesNothing
    LiveIsBacked
    QuietRequestHonoured
PROPERTIES
    TrashOnlyWhenPodGone
    IntegrityFaultSticks
    PromiseKept
