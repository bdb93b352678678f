SPECIFICATION Spec
CONSTANTS
    p = p
    q = q
    Procs = {p, q}
    NoToken = NoToken
    a = a
    c = c
    fresh1 = fresh1
    fresh2 = fresh2
    Tokens = {a, c, fresh1, fresh2}
    Machines <- mcBoth
SYMMETRY SharedSymmetry
INVARIANTS
    TypeOK
    NeverRevokesCurrent
    ConnectedMeansLive
    OrphansNeedFaults
    SignedOutIsOut
PROPERTY KeepsLiveConnection
