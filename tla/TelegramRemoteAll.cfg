SPECIFICATION Spec
CONSTANTS
    Peers = {p1, p2}
    Tasks = {t1,t2}
    FirstTasks = {t1}
    None = None
    MaxUpdates = 3
    MaxConnects = 2
    MaxCodes = 2
    MaxTurns = 2
    MaxFaults = 1
INVARIANTS
    CommandsRunOnce
    RoutesMatch
    AnswersReachTheirAsker
SYMMETRY Symmetry
CONSTRAINT Usual
