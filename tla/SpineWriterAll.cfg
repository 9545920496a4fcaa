\* Two processes, two turns, two changes of the sources, three interrupted writes or losses of power.
SPECIFICATION Spec
CONSTANTS
    Procs = {p1, p2}
    NoProc = NoProc
    NRuns = 2
    MaxChanges = 2
    MaxFaults = 3
    PowerFails = TRUE
INVARIANTS
    OneIntentPerTurn
    OwnWriteSurvives
PROPERTIES
    KeepsTheRecord
CHECK_DEADLOCK FALSE
