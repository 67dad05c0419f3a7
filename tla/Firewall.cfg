SPECIFICATION Spec
CONSTANTS
    VMs = {v1}
    Policies = {p1}
    Rules = {i1}
    Modes = {"allow_all"}
    NoId = NoId
    Requests = {r1, r2}
    Boot = Boot
    Ops = {"create","start","stop","set","resize","delete","drop_policy","allow","revoke","orphans"}
    MaxFaults = 1
SYMMETRY MCSymmetry
INVARIANTS TypeOK
PROPERTIES Implements ChoiceHolds PoliciesThere
