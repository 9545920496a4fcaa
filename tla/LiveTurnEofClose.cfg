\* A chat turn that ends while the client stops it or disconnects.
SPECIFICATION Spec
CONSTANTS
    Jobs <- OnlyChat
    Messages = {m1}
    None = None
    MaxTurns = 1
    MaxFaults = 0
INVARIANTS
    EofClosesCodex
