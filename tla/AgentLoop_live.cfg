SPECIFICATION FairSpec
CONSTANTS
    Agents = {a1, a2}
    Coordinators = {k1}
    CoordinatorOf <- OneForAll
    Calls = {c1}
    NonIdempotent = {c1}
    Vetoed = {}
    MaxIterations = 1
    MaxFunctionCalls = 1
    MaxTurns = 1
    MaxContinuations = 2
    MaxDrops = 1
    MaxAborts = 1
PROPERTIES
    AbortReturns
    OperationsReturn
CHECK_DEADLOCK FALSE
