SPECIFICATION FairSpec
CONSTANTS
    p1 = p1
    p2 = p2
    app = app
    lib = lib
    Procs = {p1, p2}
    NoRemote = NoRemote
    Remotes = {app}
    RetryAfter = 3
    Day = 5
    CheckAfters <- SoonOrDay
    KeepPast = 0
    Overlaps = {TRUE, FALSE}
    MaxClock = 4
    MaxFaults = 1
INVARIANTS
    TypeOK
    OneCheckAtATime
    AskedSeldom
    NeverPutOffForLong
PROPERTY Heals
