\* One room, one fault, two revisions of its definition; a single unready full
\* pass already degrades it. Nothing is reaped, and the port range stays.
CONSTANTS
    Rooms = {r1}
    NoRoom = NoRoom
    VanishGrace = 0
    StopDeadline = 0
    StartDeadline = 0
    DegradedSweeps = 1
    MaxRecreates = 1
    ReapsIdleRooms = FALSE
    Requests = {"running", "stopped", "deleted"}
    MaxRev = 2
    MaxAge = 1
    MaxFaults = 1
    MaxAsks = 0
    MaxRanges = 0
SPECIFICATION FairSpec
PROPERTIES
    WantedRoomComesUp
    StopCompletes
    DeleteCompletes
