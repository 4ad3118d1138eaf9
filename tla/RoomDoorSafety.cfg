\* Two requests, both at a time or one after the other, and one fault. The room
\* may come to rest with nothing asked of it.
CONSTANTS
    Handlers = {h1, h2}
    MaxKeys = 3
    MaxRequests = 2
    MaxFaults = 1
SPECIFICATION Spec
SYMMETRY Interchangeable
CHECK_DEADLOCK FALSE
INVARIANTS
    TypeOK
    DoorIsWhole
    RoomDemandsItsRow
