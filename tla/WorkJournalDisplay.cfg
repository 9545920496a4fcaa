SPECIFICATION Spec
CONSTANTS
    Windows = {w1, w2}
    Runs = {r1}
    Conversations = {c1}
    None = None
    Absent = Absent
    MaxLog = 0
    MaxReviews = 0
    MaxFaults = 0
SYMMETRY Symmetry
INVARIANTS
    NotStartedWasNotSent
