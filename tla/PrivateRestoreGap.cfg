\* Only the core memory is written while a restore may be interrupted.
SPECIFICATION Spec
CONSTANTS
    Agents = {p1, p2}
    Writers <- CoreOnly
    Original <- OriginalFiles
    Copy <- OlderCopy
    Grant = Grant
    None = None
    MaxWrites = 1
    MaxRestores = 1
    MaxCrashes = 1
SYMMETRY Symmetry
INVARIANT
    Restartable
CHECK_DEADLOCK FALSE
