SPECIFICATION Spec
CONSTANTS
    v1 = v1
    v2 = v2
    web = web
    web2 = web2
    r1 = r1
    r2 = r2
    NoVM = NoVM
    VMs = {v1, v2}
    Names = {web}
    NameOf <- SameName
    MatchedBy <- ExactMatchWeb
    Sizes = {1, 2}
    Requests = {r1}
    Ops = {"create", "start", "stop", "delete", "restart", "resize", "orphans"}
    Exclusive = TRUE
    Faults = {"disconnect", "busy"}
    MaxCrashes = 2
INVARIANTS TypeOK SettledConsistent NothingLeftBehind
