SPECIFICATION Spec
CONSTANTS
    Kernels = {k1, k2}
    VMs = {}
    Jobs = {j1}
    NoId = NoId
    Configured = Configured
    URLs = {u1}
    Requests = {r1, r2}
    MaxAtWork = 2
    MaxCrashes = 1
SYMMETRY MCSymmetry
INVARIANTS FilesMatch ScansSettle
\* The ids run out when crashes have left their directories behind.
CHECK_DEADLOCK FALSE
