SPECIFICATION FairSpec
CONSTANTS
    Clients = {p1, p2}
    Commits = {x1, x2, x3}
    DroppedAt = {"removeCache"}
    MaxDeletes = 1
    MaxDrops = 1
INVARIANTS
    Consistent
PROPERTIES
    Implements
    KeepsCommits
    CacheGoesFirst
    CallsReturn
