SPECIFICATION Spec
CONSTANTS
    Agents = {a1}
    Coordinators = {a1}
    CoordinatorOf <- OneEach
    Calls = {c1}
    NonIdempotent = {c1}
    Vetoed = {}
    MaxIterations = 1
    MaxFunctionCalls = 1
    MaxTurns = 1
    MaxContinuations = 1
    MaxDrops = 0
    MaxAborts = 0
PROPERTIES
    ReportedSuspensionPending
CHECK_DEADLOCK FALSE
