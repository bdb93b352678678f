SPECIFICATION Spec
CONSTANTS
    u1 = u1
    u2 = u2
    Procs = {u1, u2}
    MaxVersion = 3
    Platforms <- Both
    Overlaps <- Both
    MaxFaults = 3
SYMMETRY Sym
INVARIANTS
    TypeOK
    WholeUndisturbed
    AtHand
    LeavesBinary
CHECK_DEADLOCK FALSE
