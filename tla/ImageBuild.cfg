SPECIFICATION Spec
CONSTANTS
    Images = {i1}
    VMs = {v1}
    Jobs = {j1, j2}
    NoId = NoId
    Configured = Configured
    Requests = {r1, r2}
    MaxAtWork = 2
    MaxCrashes = 1
INVARIANTS TypeOK BuiltIntact BuildsSettle VMsHaveImage
PROPERTY BuildsEnd
