\* Two windows, three attempts, two resets to spend, two faults.
SPECIFICATION FairSpec
CONSTANTS
    Windows = {w1, w2}
    None = None
    Credits = 2
    MaxKeys = 3
    MaxFaults = 2
INVARIANTS
    OnePerConfirmation
    NoAttemptForgotten
    NothingClaimed
PROPERTIES
    PendingEnds
CHECK_DEADLOCK FALSE
