SPECIFICATION Spec
CONSTANTS
    Agents = {a1, a2}
    Coordinators = {a1, a2}
    CoordinatorOf <- OneEach
    Calls = {c1, c2}
    NonIdempotent = {c1}
    Vetoed = {}
    MaxIterations = 2
    MaxFunctionCalls = 1
    MaxTurns = 1
    MaxContinuations = 2
    MaxDrops = 1
    MaxAborts = 1
INVARIANTS
    RerunsApproved
    AnsweredAtMostOnce
    ClosedTurnsAnswered
    SkippedNeverRan
PROPERTIES
    ImplementsCallLedger
SYMMETRY AgentSymmetry
CHECK_DEADLOCK FALSE
