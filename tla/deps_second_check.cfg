SPECIFICATION Spec
CONSTANTS
    p1 = p1
    p2 = p2
    app = app
    lib = lib
    Procs = {p1, p2}
    NoRemote = NoRemote
    Remotes = {app, lib}
    RetryAfter = 3
    Day = 5
    CheckAfters <- OnlyDay
    KeepPast = 1
    Overlaps = {FALSE}
    MaxClock = 6
    MaxFaults = 0
SYMMETRY Sym
INVARIANTS
    NoSecondCheck
