SPECIFICATION McpSpec
CONSTANTS
    p = p
    Procs = {p}
    NoToken = NoToken
    a = a
    fresh = fresh
    Tokens = {a, fresh}
    Machines <- mcNotConnected
    Inputs <- mcTwice
INVARIANT TryAgainWorks
CHECK_DEADLOCK FALSE
