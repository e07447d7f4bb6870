SPECIFICATION Spec
CONSTANTS
    Agents = {a1}
    Coordinators = {a1}
    CoordinatorOf <- OneEach
    Calls = {c1}
    NonIdempotent = {c1}
    Vetoed = {}
    MaxIterations = 1
    MaxFunctionCalls = 1
    MaxTurns = 2
    MaxContinuations = 1
    MaxDrops = 1
    MaxAborts = 0
INVARIANTS
    SuspendedIsPending
CHECK_DEADLOCK FALSE
