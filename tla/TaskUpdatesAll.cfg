\* Two updates in two tasks, and a failed save, a lost connection or a restart.
SPECIFICATION FairSpec
CONSTANTS
    MaxUpdates = 2
    MaxTurns = 2
    MaxFaults = 1
INVARIANTS
    SavedBeforeSent
PROPERTIES
    DeliveryKept
    DeliverySettled
    InOrder
CHECK_DEADLOCK FALSE
