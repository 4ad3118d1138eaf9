\* Three yamls and the seed made of them, or of two of them. Two tracker
\* requests at a time in one replica; four ticks outlive the live window.
CONSTANTS
    Yamls <- ThreeYamls
    Entries <- AllEntries
    Stems = {"a", "b", "c"}
    Replicas = {r1}
    Requests = {q1, q2}
    Ttl <- Windows
    MemoTtl = 1
    Lag = 1
    MaxTime = 4
    None = None
SPECIFICATION UpstreamSpec
SYMMETRY Interchangeable
CHECK_DEADLOCK FALSE
INVARIANTS
    OneSlotPerYaml
    CutPassIgnoresOrder
    ClaimsAreTrue
    LinedUpRoomIsRight
    AgeIsHonest
    LastKnownIsServed
