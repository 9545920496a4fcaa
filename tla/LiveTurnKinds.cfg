\* One turn of every kind, a connection that may die, under fairness.
SPECIFICATION FairSpec
CONSTANTS
    Jobs <- OneOfEach
    Messages = {m1}
    None = None
    MaxTurns = 1
    MaxFaults = 1
INVARIANTS
    OneSubmission
    ReceiptsAreTrue
    FullMacEndsWithTurn
    EofCancelsCodex
    
PROPERTIES
    NoUpdateAfterStop
    StopEndsTurn
    EofEndsBridge
