SPECIFICATION Spec
CONSTANTS
    r1 = r1
    r2 = r2
    queue = queue
    swap = swap
    revoked = revoked
    declined = declined
    NoFailure = NoFailure
    Procs = {r1, r2}
    Failures = {queue, swap, revoked, declined}
    Cause <- mcCause
    ResendAfter = 2
    ForgetAfter = 3
    MaxMeetings = 2
    MaxClock = 5
    MaxFaults = 2
SYMMETRY Sym
INVARIANTS
    TypeOK
    OnceADay
    HeldBackForADay
