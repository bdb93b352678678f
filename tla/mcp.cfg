SPECIFICATION McpFairSpec
CONSTANTS
    p = p
    Procs = {p}
    NoToken = NoToken
    a = a
    fresh = fresh
    Tokens = {a, fresh}
    Machines <- mcMachines
    Inputs <- mcInputs
INVARIANTS
    McpTypeOK
    AnswersInOrder
    EndsOnlyWithInput
    RecordedAsTold
    SameAccount
PROPERTY EndsWithInput
CHECK_DEADLOCK FALSE
