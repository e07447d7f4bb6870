SPECIFICATION Spec
CONSTANTS
    SystemSize = 1
    MarkerSize = 2
    ElidedSize = 1
    Settings <- MCSettings
INVARIANTS
    TypeOK
    WindowIsKept
    NothingIsLost
    AnswerIsFaithful
    ShownOnce
