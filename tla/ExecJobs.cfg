SPECIFICATION FairSpec
CONSTANTS
    Jobs = {j1}
    NoJob = NoJob
    Requests = {r1, r2}
    Disconnects = TRUE
    MaxCrashes = 1
INVARIANTS TypeOK LogAgrees
PROPERTIES JobsResolve CancelHolds
