\* Two copies of the program, every kind of writer, one restore, two crashes.
SPECIFICATION FairSpec
CONSTANTS
    Agents = {p1, p2}
    Writers <- Everything
    Original <- OriginalFiles
    Copy <- OlderCopy
    Grant = Grant
    None = None
    MaxWrites = 2
    MaxRestores = 1
    MaxCrashes = 2
INVARIANTS
    NothingLost
    CompletionIsProvable
    ChatsStayRestorable
PROPERTIES
    GateHolds
    CompletesExactly
    PendingEnds
CHECK_DEADLOCK FALSE
