SPECIFICATION Spec
CONSTANTS
    u1 = u1
    u2 = u2
    Procs = {u1, u2}
    MaxVersion = 2
    Platforms <- Elsewhere
    Overlaps <- Always
    MaxFaults = 0
SYMMETRY Sym
INVARIANTS
    Whole
