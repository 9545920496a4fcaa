SPECIFICATION FairSpec
CONSTANTS
    Windows = {w1, w2}
    Runs = {r1}
    Conversations = {c1, c2}
    None = None
    Absent = Absent
    MaxLog = 1
    MaxReviews = 1
    MaxFaults = 1
PROPERTIES
    NoRequestWaits
