\* Two commands of a helper who need not wait for the first, a start of the
\* room and one fault. The room may come to rest with nothing asked of it.
CONSTANTS
    Helpers = {h1}
    Asks = {"rotate", "lock", "unlock"}
    MaxAsks = 2
    MaxStarts = 1
    MaxFaults = 1
SPECIFICATION FairSpec
CHECK_DEADLOCK FALSE
INVARIANTS
    LockedSlotIsBarred
PROPERTIES
    QueueIsKept
    CommandsEnd
    SecretCatchesUp
