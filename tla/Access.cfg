SPECIFICATION Spec
CONSTANTS
    Users = {u1, u2}
    Sessions = {s1}
    Tokens = {t1}
    NoId = NoId
    Requests = {r1, r2}
    Idle = 1
    Absolute = 2
    TTL = 1
    MaxTime = 3
SYMMETRY MCSymmetry
INVARIANTS TypeOK ServedEntitled
PROPERTIES EndsForGood NoEarlyEnd
