\* Two chat turns of one bridge, which share a provider connection.
SPECIFICATION Spec
CONSTANTS
    Jobs <- OnlyChat
    Messages = {m1}
    None = None
    MaxTurns = 2
    MaxFaults = 0
INVARIANTS
    StopHitsItsTurn

    
