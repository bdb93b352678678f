SPECIFICATION FairSpec
CONSTANTS
    Procs = {p, q}
    p = p
    q = q
    NoMark = NoMark
    Beats <- mcBeats
    Keys <- mcKeys
    Leftover <- mcLeftover
    LastId <- mcLastId
    LeftoverMarks <- mcMarks
    Invocations <- mcInvocations
    Overlaps = {TRUE, FALSE}
    BatchSize = 2
    DedupWindow = 1
    RateLimit = 2
    MaxFaults = 1
INVARIANTS
    TypeOK
    NothingLost
    SettledInOrder
    Inv
    AnsweredIsStored
    Throttled
    BoundedRedelivery
    RefusalRadius
PROPERTIES
    EventuallyDrained
    ImplementsOutbox
