SPECIFICATION Spec
CONSTANTS
    Kernels = {k1, k2}
    VMs = {v1}
    Jobs = {j1}
    NoId = NoId
    Configured = Configured
    URLs = {}
    Requests = {r1, r2}
    MaxAtWork = 2
    MaxCrashes = 1
SYMMETRY MCSymmetry
INVARIANTS TypeOK OnlyVouched TestsSettle
\* The ids run out when crashes have left their directories behind.
CHECK_DEADLOCK FALSE
