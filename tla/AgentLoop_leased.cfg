SPECIFICATION Spec
CONSTANTS
    Agents = {a1, a2}
    Coordinators = {k1}
    CoordinatorOf <- OneForAll
    Calls = {c1}
    NonIdempotent = {c1}
    Vetoed = {}
    MaxIterations = 2
    MaxFunctionCalls = 2
    MaxTurns = 2
    MaxContinuations = 3
    MaxDrops = 1
    MaxAborts = 1
INVARIANTS
    TypeOK
    PendingIsSuspended
PROPERTIES
    ClosedTurnsFrozen
    OutcomeIsDurable
    NoRunAfterAnswer
SYMMETRY AgentSymmetry
CHECK_DEADLOCK FALSE
