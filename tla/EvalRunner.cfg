SPECIFICATION Spec
CONSTANTS
    A = A  B = B  T = T
    ab = ab  ba = ba  bt = bt  elsewhere = elsewhere
    c1 = c1  c2 = c2  c3 = c3
    v1 = v1  v2 = v2
    Cases <- MCCases
    Decisions <- MCDecisions
    Realizations <- MCRealizations
    MaxSteps = 3
    MaxSubmissions = 2
    MaxRuns = 2
INVARIANTS
    TypeOK
    LedgerFollowsPath
    VisibleValuesWereExposed
    ExposuresAreGrounded
    TrajectoryIsFactual
    LimitIsExact
PROPERTIES
    DecisionsAreFresh
    RunEnds
CHECK_DEADLOCK FALSE
