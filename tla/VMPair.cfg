SPECIFICATION FairSpec
CONSTANTS
    v1 = v1
    v2 = v2
    web = web
    web2 = web2
    r1 = r1
    r2 = r2
    NoVM = NoVM
    VMs = {v1, v2}
    Names = {web, web2}
    NameOf <- OwnNames
    MatchedBy <- PrefixMatch
    Sizes = {1}
    Requests = {r1, r2}
    Ops = {"create", "start", "stop"}
    Exclusive = TRUE
    Faults = {}
    MaxCrashes = 2
INVARIANTS SettledConsistent DisksIntact
PROPERTIES TransitResolves
