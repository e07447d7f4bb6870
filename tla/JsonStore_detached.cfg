SPECIFICATION Spec
CONSTANTS
    Clients = {p1, p2}
    Commits = {x1, x2, x3}
    DroppedAt = {"rename"}
    MaxDeletes = 0
    MaxDrops = 1
PROPERTIES
    ReplacesItsOwnRevision
