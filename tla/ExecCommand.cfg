SPECIFICATION Spec
CONSTANTS
    Backends = {"linux", "seatbelt"}
    Policies <- MCPolicies
    Grants <- MCGrants
    Timeouts = {"zero", "short", "budget"}
    MaxAttempts = 2
INVARIANTS
    TypeOK
    LaunchedAtMostOnce
    ReportedIsOver
    StagingRemoved
    ResolutionIsHonest
PROPERTIES
    LaunchesAreApproved
    CallEnds
CHECK_DEADLOCK FALSE
