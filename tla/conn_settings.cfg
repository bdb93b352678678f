SPECIFICATION Spec
CONSTANTS
    p = p
    Procs = {p}
    NoToken = NoToken
    a = a
    c = c
    fresh1 = fresh1
    fresh2 = fresh2
    Tokens = {a, c, fresh1, fresh2}
    Machines <- mcNoFault
SYMMETRY SharedSymmetry
INVARIANT OptOutSticks
