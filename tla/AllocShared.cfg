SPECIFICATION Spec
CONSTANTS
    VMs = {v1, v2}
    Nets = {n1, n2}
    Rules = {i1}
    NoId = NoId
    Requests = {r1, r2}
    Size = 8
    CIDRs <- MCCIDRs
    Gateways = {2, 7}
    SSHFirst = 1
    SSHLast = 2
    HostPorts = {2}
SYMMETRY MCSymmetry
INVARIANTS TypeOK RoutedDisjoint GuestUsable LastingRespected SerialSound RoomFound
