SPECIFICATION Spec
CONSTANTS
    Windows = {w1, w2}
    Runs = {r1, r2, r3}
    Conversations = {c1}
    None = None
    Absent = Absent
    MaxLog = 0
    MaxReviews = 1
    MaxFaults = 1
SYMMETRY Symmetry
CONSTRAINT ThirdIsSibling
INVARIANTS
    TypeOK
    AtMostOneCall
    EvidenceBeforeCall
    SavedIsDurable
    WriterIsFresh
    ContinuedIsSettled
    OneContinuation
PROPERTIES
    ActsOnWhatWasShown
    KeepsTheLedger
