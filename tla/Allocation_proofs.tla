------------------------- MODULE Allocation_proofs -------------------------
(***************************************************************************)
(* Theorems about Allocation for every value of its constants.             *)
(***************************************************************************)
EXTENDS Allocation, WellFoundedInduction, TLAPS

-----------------------------------------------------------------------------
(* Arithmetic.                                                             *)

\* A set of numbers that is not empty has a least one.
LEMMA LeastIn ==
    ASSUME NEW S \in SUBSET Nat, S # {}
    PROVE  Least(S) \in S
<1>1. PICK x \in S : \A y \in S : ~ (<<y, x>> \in OpToRel(<, Nat))
  BY NatLessThanWellFounded, WFMin
<1>2. \A y \in S : ~(y < x)
  BY <1>1 DEF OpToRel
<1>3. \A y \in S : x <= y
  BY <1>2
<1> QED
  BY <1>3 DEF Least

LEMMA Slash30Type ==
    ASSUME NEW a \in Nat
    PROVE  Slash30(a) \in Interval
BY DEF Slash30, Interval

\* The blocks allocateP2P looks at.
LEMMA FreeBlocksType ==
    ASSUME NEW used, NEW avoid
    PROVE  /\ FreeBlocks(used, avoid) \in SUBSET Nat
           /\ \A b \in FreeBlocks(used, avoid) :
                /\ b % 4 = 0 /\ b + 3 < Size /\ b + 2 \notin used
                /\ \A c \in avoid : ~cidrOverlaps(Slash30(b), c)
BY AllocAssumption DEF FreeBlocks

-----------------------------------------------------------------------------
(* Types.                                                                  *)

LEMMA GotoType ==
    ASSUME TypeOK, NEW r \in Requests, NEW g \in Frame, Goto(r, g)
    PROVE  req' \in [Requests -> Frame]
BY DEF TypeOK, Goto

LEMMA IdleType == IdleFrame \in Frame
BY DEF IdleFrame, Frame, Ops, PCs, NoCIDR, Interval

LEMMA FinishType ==
    ASSUME TypeOK, NEW r \in Requests, Finish(r)
    PROVE  req' \in [Requests -> Frame]
BY IdleType DEF TypeOK, Finish

LEMMA ForgetType ==
    ASSUME TypeOK, NEW r \in Requests, NEW gone, FinishAndForget(r, gone)
    PROVE  req' \in [Requests -> Frame]
<1>1. ASSUME NEW q \in Requests
      PROVE  [req[q] EXCEPT !.before = @ \ gone] \in Frame
  BY DEF TypeOK, Frame
<1> QED
  BY <1>1, IdleType DEF FinishAndForget

LEMMA ArriveType ==
    ASSUME TypeOK, NEW r \in Requests, NEW g \in Frame, Arrive(r, g)
    PROVE  TypeOK'
<1>1. [g EXCEPT !.before = vms \cup nets \cup rules] \in Frame
  BY DEF TypeOK, Frame
<1>2. req' \in [Requests -> Frame]
  BY <1>1 DEF TypeOK, Arrive
<1>3. raced' \in BOOLEAN
  BY DEF TypeOK, Arrive
<1> QED
  BY <1>2, <1>3 DEF TypeOK, Arrive, rows

\* A step that writes no row.
LEMMA FrameOnlyType ==
    ASSUME TypeOK, req' \in [Requests -> Frame], UNCHANGED <<rows, raced>>
    PROVE  TypeOK'
BY DEF TypeOK, rows

LEMMA UsedType ==
    ASSUME TypeOK
    PROVE  /\ UsedSSHPorts \in SUBSET Nat
           /\ UsedIngressHostPorts \in SUBSET Nat
           /\ UsedGuestIPs \in SUBSET Nat
           /\ \A ns \in SUBSET nets : NetworkCIDRs(ns) \in SUBSET Interval
<1>1. \A v \in vms : vm[v].port \in Nat /\ vm[v].guest \in Nat
  BY DEF TypeOK, VMRow
<1>2. \A i \in rules : rule[i].port \in Nat
  BY DEF TypeOK, RuleRow
<1>3. \A n \in nets : net[n].cidr \in Interval
  BY DEF TypeOK, NetRow
<1> QED
  BY <1>1, <1>2, <1>3 DEF UsedSSHPorts, UsedIngressHostPorts, UsedGuestIPs, NetworkCIDRs

LEMMA RoutedType ==
    ASSUME TypeOK, NEW v \in vms
    PROVE  vmRoutedCIDR(v) \in Interval
<1>1. vm[v].host \in Nat
  BY DEF TypeOK, VMRow
<1> QED
  BY <1>1, Slash30Type DEF vmRoutedCIDR

LEMMA TypeInit == Init => TypeOK
<1> SUFFICES ASSUME Init PROVE TypeOK
  OBVIOUS
<1>1. NoVM \in VMRow /\ NoNet \in NetRow /\ NoRule \in RuleRow
  BY DEF NoVM, NoNet, NoRule, VMRow, NetRow, RuleRow, NoCIDR, Interval
<1> QED
  BY <1>1, IdleType DEF Init, TypeOK

-----------------------------------------------------------------------------
LEMMA CreateType ==
    ASSUME TypeOK, NEW r \in Requests, Create(r)
    PROVE  TypeOK'
<1>0. req[r] \in Frame
  BY DEF TypeOK
<1>1. CASE CreateArrive(r)
  <2>1. [IdleFrame EXCEPT !.op = "create", !.pc = "host_ports", !.used = UsedSSHPorts] \in Frame
    BY IdleType, UsedType DEF Frame, Ops, PCs
  <2> QED
    BY <1>1, <2>1, ArriveType DEF CreateArrive
<1>2. CASE CreatePort(r)
  <2>1. PICK asked \in HostPorts \cup {0}, open \in SUBSET (SSHFirst..SSHLast) :
          LET taken == req[r].used \cup UsedIngressHostPorts \cup open
              free == {p \in SSHFirst..SSHLast : p \notin taken /\ asked \in {0, p}}
          IN IF free = {} THEN Finish(r)
             ELSE Goto(r, [req[r] EXCEPT !.pc = "mode", !.port = Least(free), !.used = {}])
    BY <1>2 DEF CreatePort
  <2> DEFINE free == {p \in SSHFirst..SSHLast :
                        p \notin req[r].used \cup UsedIngressHostPorts \cup open /\ asked \in {0, p}}
             g == [req[r] EXCEPT !.pc = "mode", !.port = Least(free), !.used = {}]
  <2>2. free \in SUBSET Nat
    BY AllocAssumption
  <2>3. CASE free # {}
    <3>1. Least(free) \in Nat
      BY <2>2, <2>3, LeastIn
    <3>2. g \in Frame
      BY <1>0, <3>1 DEF Frame, PCs
    <3>3. Goto(r, g)
      BY <2>1, <2>3
    <3> QED
      BY <1>2, <3>2, <3>3, GotoType, FrameOnlyType DEF CreatePort
  <2>4. CASE free = {}
    BY <1>2, <2>1, <2>4, FinishType, FrameOnlyType DEF CreatePort
  <2> QED
    BY <2>3, <2>4
<1>3. CASE CreateRouted(r)
  <2>1. [req[r] EXCEPT !.pc = "list_nets_p2p", !.used = UsedGuestIPs] \in Frame
    BY <1>0, UsedType DEF Frame, PCs
  <2> QED
    BY <1>3, <2>1, GotoType, FrameOnlyType DEF CreateRouted
<1>4. CASE allocateP2P(r)
  <2> DEFINE free == FreeBlocks(req[r].used, NetworkCIDRs(nets))
             b == Least(free)
             g == [req[r] EXCEPT !.pc = "write", !.cidr = Slash30(b),
                                 !.host = b + 1, !.guest = b + 2, !.used = {}]
  <2>1. CASE free = {}
    BY <1>4, <2>1, FinishType, FrameOnlyType DEF allocateP2P
  <2>2. CASE free # {}
    <3>1. b \in Nat
      BY <2>2, FreeBlocksType, LeastIn
    <3>2. Slash30(b) \in Interval
      BY <3>1, Slash30Type
    <3>0. b + 1 \in Nat /\ b + 2 \in Nat
      BY <3>1
    <3> DEFINE s == Slash30(b)
    <3> HIDE DEF b, s
    <3>3. g \in Frame
      <4>1. [req[r] EXCEPT !.pc = "write", !.cidr = s] \in Frame
        BY <1>0, <3>2 DEF Frame, PCs, s
      <4> DEFINE h == [req[r] EXCEPT !.pc = "write", !.cidr = s]
      <4>2. [h EXCEPT !.host = b + 1, !.guest = b + 2, !.used = {}] \in Frame
        <5> HIDE DEF h
        <5> QED
          BY <4>1, <3>0 DEF Frame, h
      <4>3. g = [h EXCEPT !.host = b + 1, !.guest = b + 2, !.used = {}]
        BY <1>0 DEF Frame, s
      <4> QED
        BY <4>2, <4>3
    <3>4. Goto(r, g)
      BY <1>4, <2>2 DEF allocateP2P, b
    <3> QED
      BY <1>4, <3>3, <3>4, GotoType, FrameOnlyType DEF allocateP2P
  <2> QED
    BY <2>1, <2>2
<1>5. CASE CreateShared(r)
  <2>1. PICK n \in nets : Goto(r, [req[r] EXCEPT !.pc = "list_nets", !.net = n,
                                       !.cidr = net[n].cidr, !.host = net[n].gateway])
    BY <1>5 DEF CreateShared
  <2>2. n \in Nets /\ net[n].cidr \in Interval /\ net[n].gateway \in Nat
    BY DEF TypeOK, NetRow
  <2>3. [req[r] EXCEPT !.pc = "list_nets", !.net = n,
                       !.cidr = net[n].cidr, !.host = net[n].gateway] \in Frame
    BY <1>0, <2>2 DEF Frame, PCs
  <2> QED
    BY <1>5, <2>1, <2>3, GotoType, FrameOnlyType DEF CreateShared
<1>6. CASE CreateUsable(r)
  <2>1. [req[r] EXCEPT !.pc = "guest_ips", !.avoid = {}] \in Frame
    BY <1>0 DEF Frame, PCs
  <2> QED
    BY <1>6, <2>1, GotoType, FinishType, FrameOnlyType DEF CreateUsable
<1>7. CASE allocateShared(r)
  <2> DEFINE c == req[r].cidr
             free == {a \in (c.first + 1)..(c.last - 1) : a # req[r].host /\ a \notin UsedGuestIPs}
             g == [req[r] EXCEPT !.pc = "write", !.guest = Least(free)]
  <2>1. c \in Interval
    BY <1>0 DEF Frame
  <2>2. free \in SUBSET Nat
    BY <2>1 DEF Interval
  <2>3. CASE free # {}
    <3>1. Least(free) \in Nat
      BY <2>2, <2>3, LeastIn
    <3>2. g \in Frame
      BY <1>0, <3>1 DEF Frame, PCs
    <3>3. Goto(r, g)
      BY <1>7, <2>3 DEF allocateShared
    <3> QED
      BY <1>7, <3>2, <3>3, GotoType, FrameOnlyType DEF allocateShared
  <2>4. CASE free = {}
    BY <1>7, <2>4, FinishType, FrameOnlyType DEF allocateShared
  <2> QED
    BY <2>3, <2>4
<1>8. CASE InsertVM(r)
  <2>1. req' \in [Requests -> Frame]
    BY <1>8, FinishType DEF InsertVM
  <2>2. CASE UNCHANGED <<vms, vm>>
    BY <1>8, <2>1, <2>2 DEF InsertVM, TypeOK
  <2>3. CASE \E v \in NewVM :
               /\ vms' = vms \cup {v}
               /\ vm' = [vm EXCEPT ![v] = [port |-> req[r].port, net |-> req[r].net,
                                           host |-> req[r].host, guest |-> req[r].guest]]
    <3>1. [port |-> req[r].port, net |-> req[r].net,
           host |-> req[r].host, guest |-> req[r].guest] \in VMRow
      BY <1>0 DEF Frame, VMRow
    <3>2. vms' \subseteq VMs /\ vm' \in [VMs -> VMRow]
      BY <2>3, <3>1 DEF TypeOK, NewVM
    <3> QED
      BY <1>8, <2>1, <3>2 DEF InsertVM, TypeOK
  <2> QED
    BY <1>8, <2>2, <2>3 DEF InsertVM
<1> QED
  BY <1>1, <1>2, <1>3, <1>4, <1>5, <1>6, <1>7, <1>8 DEF Create

LEMMA StartType ==
    ASSUME TypeOK, NEW r \in Requests, Start(r)
    PROVE  TypeOK'
<1>0. req[r] \in Frame
  BY DEF TypeOK
<1>1. CASE StartArrive(r)
  <2> DEFINE q(v) == [IdleFrame EXCEPT !.op = "start", !.vm = v, !.net = vm[v].net]
  <2>1. PICK v \in vms : Arrive(r, IF v \in Routed
                                   THEN [q(v) EXCEPT !.pc = "list_nets", !.cidr = vmRoutedCIDR(v)]
                                   ELSE [q(v) EXCEPT !.pc = "mode"])
    BY <1>1 DEF StartArrive
  <2>2. q(v) \in Frame
    <3>1. v \in VMs /\ vm[v].net \in Nets \cup {NoId}
      BY DEF TypeOK, VMRow
    <3> QED
      BY <3>1, IdleType DEF Frame, Ops
  <2> HIDE DEF q
  <2>3. [q(v) EXCEPT !.pc = "list_nets", !.cidr = vmRoutedCIDR(v)] \in Frame
    BY <2>2, RoutedType DEF Frame, PCs
  <2>4. [q(v) EXCEPT !.pc = "mode"] \in Frame
    BY <2>2 DEF Frame, PCs
  <2> QED
    BY <2>1, <2>3, <2>4, ArriveType
<1>2. CASE StartShared(r)
  <2>1. CASE req[r].net \in nets
    <3>1. net[req[r].net].cidr \in Interval
      BY <2>1 DEF TypeOK, NetRow
    <3>2. [req[r] EXCEPT !.pc = "list_nets", !.cidr = net[req[r].net].cidr] \in Frame
      BY <1>0, <3>1 DEF Frame, PCs
    <3> QED
      BY <1>2, <2>1, <3>2, GotoType, FrameOnlyType DEF StartShared
  <2>2. CASE req[r].net \notin nets
    BY <1>2, <2>2, FinishType, FrameOnlyType DEF StartShared
  <2> QED
    BY <2>1, <2>2
<1>3. CASE StartUsable(r)
  <2>1. [req[r] EXCEPT !.pc = "proceed", !.avoid = {}] \in Frame
    BY <1>0 DEF Frame, PCs
  <2> QED
    BY <1>3, <2>1, GotoType, FinishType, FrameOnlyType DEF StartUsable
<1>4. CASE StartProceed(r)
  BY <1>4, FinishType, FrameOnlyType DEF StartProceed
<1> QED
  BY <1>1, <1>2, <1>3, <1>4 DEF Start

\* What is left of the rules when some are gone.
LEMMA RuleResetType ==
    ASSUME TypeOK, NEW gone
    PROVE  [i \in Rules |-> IF i \in gone THEN NoRule ELSE rule[i]] \in [Rules -> RuleRow]
BY DEF TypeOK, NoRule, RuleRow

LEMMA DeleteType ==
    ASSUME TypeOK, NEW r \in Requests, Delete(r)
    PROVE  TypeOK'
<1>1. CASE DeleteArrive(r)
  <2>1. \A v \in vms : [IdleFrame EXCEPT !.op = "delete", !.pc = "delete_rules", !.vm = v] \in Frame
    BY IdleType DEF Frame, Ops, PCs, TypeOK
  <2> QED
    BY <1>1, <2>1, ArriveType DEF DeleteArrive
<1>2. CASE DeleteRules(r)
  <2> DEFINE gone == {i \in rules : rule[i].vm = req[r].vm}
  <2>1. ASSUME NEW q \in Requests
        PROVE  [req[q] EXCEPT !.before = @ \ gone, !.pc = IF q = r THEN "write" ELSE @] \in Frame
    <3>1. PICK f \in Frame : f = req[q]
      BY DEF TypeOK
    <3>2. PICK pc \in PCs : pc = IF q = r THEN "write" ELSE f.pc
      BY DEF Frame, PCs
    <3>3. PICK g \in Frame : g = [f EXCEPT !.before = f.before \ gone]
      <4>1. [f EXCEPT !.before = f.before \ gone] \in Frame
        BY DEF Frame
      <4> QED
        BY <4>1, Zenon
    <3>4. [g EXCEPT !.pc = pc] \in Frame
      BY DEF Frame
    <3>5. [f EXCEPT !.before = f.before \ gone, !.pc = pc] = [g EXCEPT !.pc = pc]
      BY <3>3, Zenon
    <3> QED
      BY <3>1, <3>2, <3>4, <3>5, Zenon
  <2>2. req' \in [Requests -> Frame]
    BY <1>2, <2>1 DEF DeleteRules
  <2>3. rule' \in [Rules -> RuleRow] /\ rules' \subseteq Rules
    BY <1>2, RuleResetType DEF DeleteRules, TypeOK
  <2> QED
    BY <1>2, <2>2, <2>3 DEF DeleteRules, TypeOK
<1>3. CASE DeleteRow(r)
  <2>1. req' \in [Requests -> Frame]
    BY <1>3, ForgetType DEF DeleteRow
  <2>2. vm' \in [VMs -> VMRow] /\ vms' \subseteq VMs
    BY <1>3 DEF DeleteRow, TypeOK, NoVM, VMRow
  <2> QED
    BY <1>3, <2>1, <2>2 DEF DeleteRow, TypeOK
<1> QED
  BY <1>1, <1>2, <1>3 DEF Delete

LEMMA IngressType ==
    ASSUME TypeOK, NEW r \in Requests, Ingress(r)
    PROVE  TypeOK'
<1>0. req[r] \in Frame
  BY DEF TypeOK
<1>1. CASE IngressArrive(r)
  <2>1. \A v \in vms : [IdleFrame EXCEPT !.op = "ingress", !.pc = "check_port", !.vm = v] \in Frame
    BY IdleType DEF Frame, Ops, PCs, TypeOK
  <2> QED
    BY <1>1, <2>1, ArriveType DEF IngressArrive
<1>2. CASE IngressPort(r)
  <2>1. \A p \in HostPorts : [req[r] EXCEPT !.pc = "write", !.port = p] \in Frame
    BY <1>0, AllocAssumption DEF Frame, PCs
  <2>2. req' \in [Requests -> Frame]
    BY <1>2, <2>1, GotoType, FinishType DEF IngressPort
  <2> QED
    BY <1>2, <2>2, FrameOnlyType DEF IngressPort
<1>3. CASE InsertRule(r)
  <2>1. req' \in [Requests -> Frame]
    BY <1>3, FinishType DEF InsertRule
  <2>2. [vm |-> req[r].vm, port |-> req[r].port] \in RuleRow
    BY <1>0 DEF Frame, RuleRow
  <2>3. rules' \subseteq Rules /\ rule' \in [Rules -> RuleRow]
    BY <1>3, <2>2 DEF InsertRule, NewRule, TypeOK
  <2> QED
    BY <1>3, <2>1, <2>3 DEF InsertRule, TypeOK
<1>4. CASE UnruleArrive(r)
  <2>1. \A v \in vms, i \in rules :
          [IdleFrame EXCEPT !.op = "unrule", !.pc = "write", !.vm = v, !.rule = i] \in Frame
    BY IdleType DEF Frame, Ops, PCs, TypeOK
  <2> QED
    BY <1>4, <2>1, ArriveType DEF UnruleArrive
<1>5. CASE DeleteRule(r)
  <2>1. req' \in [Requests -> Frame]
    BY <1>5, ForgetType DEF DeleteRule
  <2>2. rule' \in [Rules -> RuleRow] /\ rules' \subseteq Rules
    BY <1>5, RuleResetType DEF DeleteRule, TypeOK
  <2> QED
    BY <1>5, <2>1, <2>2 DEF DeleteRule, TypeOK
<1> QED
  BY <1>1, <1>2, <1>3, <1>4, <1>5 DEF Ingress

LEMMA NetworkType ==
    ASSUME TypeOK, NEW r \in Requests, Network(r)
    PROVE  TypeOK'
<1>0. req[r] \in Frame
  BY DEF TypeOK
<1>1. CASE NetworkArrive(r)
  <2>1. NetworkCIDRs(nets) \in SUBSET Interval
    BY UsedType
  <2>2. [IdleFrame EXCEPT !.op = "network", !.pc = "list_vms", !.avoid = NetworkCIDRs(nets)] \in Frame
    BY <2>1, IdleType DEF Frame, Ops, PCs
  <2> QED
    BY <1>1, <2>2, ArriveType DEF NetworkArrive
<1>2. CASE NetworkCheck(r)
  <2>1. ASSUME NEW c \in CIDRs, NEW g \in Gateways \cup {c.first + 1}
        PROVE  [req[r] EXCEPT !.pc = "write", !.cidr = c, !.host = g, !.avoid = {}] \in Frame
    <3>1. c \in Interval /\ g \in Nat
      BY AllocAssumption DEF Interval
    <3> QED
      BY <1>0, <3>1 DEF Frame, PCs
  <2>2. req' \in [Requests -> Frame]
    BY <1>2, <2>1, GotoType, FinishType DEF NetworkCheck
  <2> QED
    BY <1>2, <2>2, FrameOnlyType DEF NetworkCheck
<1>3. CASE InsertNetwork(r)
  <2>1. req' \in [Requests -> Frame]
    BY <1>3, FinishType DEF InsertNetwork
  <2>2. [cidr |-> req[r].cidr, gateway |-> req[r].host] \in NetRow
    BY <1>0 DEF Frame, NetRow
  <2>3. nets' \subseteq Nets /\ net' \in [Nets -> NetRow]
    BY <1>3, <2>2 DEF InsertNetwork, NewNet, TypeOK
  <2> QED
    BY <1>3, <2>1, <2>3 DEF InsertNetwork, TypeOK
<1>4. CASE UnnetArrive(r)
  <2>1. \A n \in nets : [IdleFrame EXCEPT !.op = "unnet", !.pc = "count", !.net = n] \in Frame
    BY IdleType DEF Frame, Ops, PCs, TypeOK
  <2> QED
    BY <1>4, <2>1, ArriveType DEF UnnetArrive
<1>5. CASE CountVMs(r)
  <2>1. [req[r] EXCEPT !.pc = "write"] \in Frame
    BY <1>0 DEF Frame, PCs
  <2> QED
    BY <1>5, <2>1, GotoType, FinishType, FrameOnlyType DEF CountVMs
<1>6. CASE DeleteNetwork(r)
  <2>1. req' \in [Requests -> Frame]
    BY <1>6, ForgetType DEF DeleteNetwork
  <2>2. net' \in [Nets -> NetRow] /\ nets' \subseteq Nets
    BY <1>6 DEF DeleteNetwork, TypeOK, NoNet, NetRow, NoCIDR, Interval
  <2> QED
    BY <1>6, <2>1, <2>2 DEF DeleteNetwork, TypeOK
<1> QED
  BY <1>1, <1>2, <1>3, <1>4, <1>5, <1>6 DEF Network

LEMMA ListType ==
    ASSUME TypeOK, NEW r \in Requests, ListNetworks(r)
    PROVE  TypeOK'
<1>1. req[r] \in Frame
  BY DEF TypeOK
<1>2. NetworkCIDRs(nets \ {req[r].net}) \in SUBSET Interval
  BY UsedType
<1>3. [req[r] EXCEPT !.pc = "list_vms", !.avoid = NetworkCIDRs(nets \ {req[r].net})] \in Frame
  BY <1>1, <1>2 DEF Frame, PCs
<1> QED
  BY <1>3, GotoType, FrameOnlyType DEF ListNetworks

LEMMA TypeStep == TypeOK /\ [Next]_vars => TypeOK'
<1> SUFFICES ASSUME TypeOK, [Next]_vars PROVE TypeOK'
  OBVIOUS
<1>1. ASSUME NEW r \in Requests, Fail(r) PROVE TypeOK'
  BY <1>1, FinishType DEF Fail, TypeOK
<1>2. CASE UNCHANGED vars
  BY <1>2 DEF vars, TypeOK
<1> QED
  BY <1>1, <1>2, CreateType, StartType, DeleteType, IngressType, NetworkType, ListType DEF Next

\* Every frame and row has its type: addresses and ports are numbers that are
\* not negative, so the arithmetic on offsets never runs below the base.
THEOREM TypeCorrect == Spec => []TypeOK
BY TypeInit, TypeStep, PTL DEF Spec

-----------------------------------------------------------------------------
(* What handlers know, and what the rows they write make of it.             *)

\* What was there before a request arrived and is listed still is there.
Known(q) == req[q].before \subseteq vms \cup nets \cup rules

\* The place that a CreateVM is about to take: of its network, if there is one.
EarlyPCs == {"host_ports", "mode", "list_nets_p2p"}
SharedPCs == {"list_nets", "list_vms", "guest_ips"}
Aligned(h, g) == h % 4 = 1 /\ g = h + 1
Inside(c, h, g) == c.first < g /\ g < c.last /\ g # h

Placing(q) ==
    req[q].op = "create" =>
      /\ req[q].pc \in EarlyPCs => req[q].net = NoId
      /\ req[q].pc \in SharedPCs => req[q].net \in Nets
      /\ req[q].pc = "write" /\ req[q].net = NoId => Aligned(req[q].host, req[q].guest)
      /\ req[q].pc = "write" /\ req[q].net # NoId =>
            Inside(req[q].cidr, req[q].host, req[q].guest)
      /\ req[q].net \in nets => /\ req[q].cidr = net[req[q].net].cidr
                                /\ req[q].host = net[req[q].net].gateway

\* Between its reads a handler has what lasts in its copy.
Looking(q) ==
    /\ req[q].op = "create" /\ req[q].pc = "list_nets_p2p" =>
         \A v \in req[q].before \cap vms : vm[v].guest \in req[q].used
    /\ req[q].pc = "list_vms" =>
         \A n \in (req[q].before \cap nets) \ {req[q].net} : net[n].cidr \in req[q].avoid

Lasting(q) == (req[q].before \cap Owners) \ {req[q].vm, req[q].net}
Decided(q) ==
    \/ req[q].pc \in {"guest_ips", "proceed"}
    \/ req[q].pc = "write" /\ req[q].op \in {"create", "network"}
Clear(q) ==
    Decided(q) => \A o \in Lasting(q) : ~cidrOverlaps(req[q].cidr, OwnerCIDR(o))

FrameOK(q) == Known(q) /\ Placing(q) /\ Looking(q) /\ Clear(q)

\* Routed VMs sit in the middle of a /30; no guest address is taken twice.
RowsAligned == \A v \in Routed : Aligned(vm[v].host, vm[v].guest)
GuestsUnique == \A v, w \in vms : vm[v].guest = vm[w].guest => v = w

AllocInv ==
    /\ TypeOK
    /\ \A q \in Requests : FrameOK(q)
    /\ RowsAligned /\ GuestsUnique /\ GuestUsable

-----------------------------------------------------------------------------
(* Steps that leave a frame as it is, but for rows that are gone.           *)

\* The frame of q: nothing but before changes, and that only shrinks.
Idles(q) ==
    /\ req'[q].op = req[q].op /\ req'[q].pc = req[q].pc
    /\ req'[q].vm = req[q].vm /\ req'[q].net = req[q].net
    /\ req'[q].cidr = req[q].cidr
    /\ req'[q].host = req[q].host /\ req'[q].guest = req[q].guest
    /\ req'[q].used = req[q].used /\ req'[q].avoid = req[q].avoid
    /\ req'[q].before \subseteq req[q].before

\* The rows that q knows are as they were.
Stays(q) ==
    /\ \A v \in req'[q].before \cap vms' : v \in vms /\ vm'[v] = vm[v]
    /\ \A n \in req'[q].before \cap nets' : n \in nets /\ net'[n] = net[n]
    /\ req[q].net \in nets' => req[q].net \in nets /\ net'[req[q].net] = net[req[q].net]

LEMMA OwnersStay ==
    ASSUME AllocInv, TypeOK', NEW q \in Requests, Idles(q), Stays(q)
    PROVE  \A o \in Lasting(q)' : o \in Lasting(q) /\ OwnerCIDR(o)' = OwnerCIDR(o)
<1> SUFFICES ASSUME NEW o \in Lasting(q)'
             PROVE  o \in Lasting(q) /\ OwnerCIDR(o)' = OwnerCIDR(o)
  OBVIOUS
<1>1. o \in req'[q].before /\ o \in req[q].before /\ o \notin {req[q].vm, req[q].net}
  BY DEF Lasting, Idles
<1>2. CASE o \in nets'
  <2>1. o \in nets /\ net'[o] = net[o] /\ o \in Nets
    BY <1>1, <1>2 DEF Stays, AllocInv, TypeOK
  <2> QED
    BY <1>1, <2>1 DEF Lasting, Owners, OwnerCIDR
<1>3. CASE o \in Routed' /\ o \notin nets'
  <2>1. o \in vms' /\ vm'[o].net = NoId
    BY <1>3 DEF Routed
  <2>2. o \in vms /\ vm'[o] = vm[o] /\ o \notin Nets
    BY <1>1, <2>1, AllocAssumption DEF Stays, AllocInv, TypeOK
  <2>3. o \in Routed
    BY <2>1, <2>2 DEF Routed
  <2> QED
    BY <1>1, <2>2, <2>3 DEF Lasting, Owners, OwnerCIDR, vmRoutedCIDR
<1> QED
  BY <1>2, <1>3 DEF Lasting, Owners

LEMMA FrameStays ==
    ASSUME AllocInv, TypeOK', NEW q \in Requests, Idles(q), Stays(q), Known(q)'
    PROVE  FrameOK(q)'
<1>1. FrameOK(q)
  BY DEF AllocInv
<1>2. Placing(q)'
  <2>1. Placing(q)
    BY <1>1 DEF FrameOK
  <2>2. req[q].net \in nets' => req[q].net \in nets /\ net'[req[q].net] = net[req[q].net]
    BY DEF Stays
  <2> QED
    BY <2>1, <2>2 DEF Placing, Idles
<1>3. Looking(q)'
  <2>1. Looking(q)
    BY <1>1 DEF FrameOK
  <2> QED
    BY <2>1 DEF Looking, Idles, Stays
<1>4. Clear(q)'
  <2>1. Clear(q)
    BY <1>1 DEF FrameOK
  <2>2. Decided(q)' => Decided(q)
    BY DEF Decided, Idles
  <2>3. req'[q].cidr = req[q].cidr
    BY DEF Idles
  <2>4. ASSUME Decided(q)', NEW o \in Lasting(q)'
        PROVE  ~cidrOverlaps(req'[q].cidr, OwnerCIDR(o)')
    <3>1. o \in Lasting(q) /\ OwnerCIDR(o)' = OwnerCIDR(o)
      BY OwnersStay
    <3> QED
      BY <2>1, <2>2, <2>3, <2>4, <3>1 DEF Clear
  <2> QED
    BY <2>4 DEF Clear, cidrOverlaps
<1> QED
  BY <1>2, <1>3, <1>4 DEF FrameOK

LEMMA IdleOK ==
    ASSUME NEW q \in Requests, req'[q] = IdleFrame
    PROVE  FrameOK(q)'
BY DEF FrameOK, Known, Placing, Looking, Clear, Decided, IdleFrame

LEMMA RowsStay ==
    ASSUME AllocInv, UNCHANGED rows
    PROVE  (RowsAligned /\ GuestsUnique /\ GuestUsable)'
BY DEF AllocInv, rows, RowsAligned, GuestsUnique, GuestUsable, Routed

\* Only the frame of r changes, and to one that is right.
LEMMA OneFrame ==
    ASSUME AllocInv, TypeOK', UNCHANGED rows, NEW r \in Requests, FrameOK(r)',
           \A q \in Requests \ {r} : req'[q] = req[q]
    PROVE  AllocInv'
<1>1. ASSUME NEW q \in Requests, q # r PROVE FrameOK(q)'
  <2>1. req'[q] = req[q]
    BY <1>1
  <2>2. Idles(q) /\ Stays(q)
    BY <2>1 DEF Idles, Stays, rows
  <2>3. Known(q)'
    BY <2>1 DEF Known, rows, AllocInv, FrameOK
  <2> QED
    BY <2>2, <2>3, FrameStays
<1> QED
  BY <1>1, RowsStay DEF AllocInv

LEMMA GotoFrame ==
    ASSUME TypeOK, NEW r \in Requests, NEW g, Goto(r, g)
    PROVE  req'[r] = g /\ \A q \in Requests \ {r} : req'[q] = req[q]
BY DEF TypeOK, Goto

LEMMA FinishFrame ==
    ASSUME TypeOK, NEW r \in Requests, Finish(r)
    PROVE  req'[r] = IdleFrame /\ \A q \in Requests \ {r} : req'[q] = req[q]
BY DEF TypeOK, Finish

LEMMA ArriveFrame ==
    ASSUME TypeOK, NEW r \in Requests, NEW g, Arrive(r, g)
    PROVE  /\ req'[r] = [g EXCEPT !.before = vms \cup nets \cup rules]
           /\ \A q \in Requests \ {r} : req'[q] = req[q]
           /\ UNCHANGED rows
BY DEF TypeOK, Arrive

\* A request that ends without a write.
LEMMA FinishOK ==
    ASSUME AllocInv, TypeOK', NEW r \in Requests, Finish(r), UNCHANGED rows
    PROVE  AllocInv'
BY FinishFrame, IdleOK, OneFrame DEF AllocInv

\* A request that arrives and asks for nothing yet.
LEMMA ArriveOK ==
    ASSUME AllocInv, TypeOK', NEW r \in Requests, NEW g \in Frame, Arrive(r, g),
           g.op = "create" => g.pc = "host_ports" /\ g.net = NoId,
           g.pc = "list_vms" => g.avoid = NetworkCIDRs(nets),
           g.pc \notin {"guest_ips", "proceed"},
           g.pc = "write" => g.op \notin {"create", "network"}
    PROVE  AllocInv'
<1> DEFINE B == vms \cup nets \cup rules
<1>1. req'[r] = [g EXCEPT !.before = B] /\ UNCHANGED rows
  BY ArriveFrame DEF AllocInv
<1>2. /\ req'[r].op = g.op /\ req'[r].pc = g.pc /\ req'[r].net = g.net /\ req'[r].vm = g.vm
      /\ req'[r].avoid = g.avoid /\ req'[r].before = B
  BY <1>1 DEF Frame
<1>3. Known(r)'
  BY <1>1, <1>2 DEF Known, rows
<1>4. Placing(r)'
  BY <1>1, <1>2, AllocAssumption DEF Placing, rows, AllocInv, TypeOK, SharedPCs
<1>5. Looking(r)'
  BY <1>1, <1>2 DEF Looking, rows, NetworkCIDRs
<1>6. Clear(r)'
  BY <1>2 DEF Clear, Decided
<1>7. FrameOK(r)'
  BY <1>3, <1>4, <1>5, <1>6 DEF FrameOK
<1> QED
  BY <1>7, ArriveFrame, OneFrame DEF AllocInv

\* No conflict with what was read: none with what lasts.
LEMMA NoConflict ==
    ASSUME AllocInv, NEW r \in Requests, req[r].pc = "list_vms", NEW c, ~Conflict(r, c)
    PROVE  \A o \in Lasting(r) : ~cidrOverlaps(c, OwnerCIDR(o))
<1> SUFFICES ASSUME NEW o \in Lasting(r)
             PROVE  ~cidrOverlaps(c, OwnerCIDR(o))
  OBVIOUS
<1>1. OwnerCIDR(o) \in Taken(r)
  <2>1. CASE o \in nets
    <3>1. o \in Nets /\ o \in (req[r].before \cap nets) \ {req[r].net}
      BY <2>1 DEF Lasting, AllocInv, TypeOK
    <3>2. net[o].cidr \in req[r].avoid
      BY <3>1 DEF AllocInv, FrameOK, Looking
    <3> QED
      BY <3>1, <3>2 DEF OwnerCIDR, Taken
  <2>2. CASE o \in Routed /\ o \notin nets
    <3>1. o \in Routed \ {req[r].vm}
      BY <2>2 DEF Lasting
    <3>2. o \notin Nets
      BY <2>2, AllocAssumption DEF Routed, AllocInv, TypeOK
    <3> QED
      BY <3>1, <3>2 DEF OwnerCIDR, Taken
  <2> QED
    BY <2>1, <2>2 DEF Lasting, Owners
<1> QED
  BY <1>1 DEF Conflict

-----------------------------------------------------------------------------
(* CreateVM.                                                               *)

LEMMA BlockArithmetic ==
    ASSUME NEW b \in Nat, b % 4 = 0
    PROVE  Aligned(b + 1, b + 2)
BY DEF Aligned

\* The /30 around the host address of an aligned pair.
LEMMA AlignedBlock ==
    ASSUME NEW h \in Nat, NEW g \in Nat, Aligned(h, g)
    PROVE  Slash30(h) = [first |-> g - 2, last |-> g + 1] /\ (g - 2) % 4 = 0
BY DEF Aligned, Slash30

\* Two aligned blocks that overlap are one.
LEMMA BlocksDisjoint ==
    ASSUME NEW a \in Int, NEW b \in Int, a % 4 = 0, b % 4 = 0, a # b
    PROVE  ~cidrOverlaps([first |-> a, last |-> a + 3], [first |-> b, last |-> b + 3])
BY DEF cidrOverlaps

LEMMA P2PFrame ==
    ASSUME AllocInv, NEW r \in Requests, At(r, "create", "list_nets_p2p"),
           NEW b \in FreeBlocks(req[r].used, NetworkCIDRs(nets))
    PROVE  \A o \in Lasting(r) : ~cidrOverlaps(Slash30(b), OwnerCIDR(o))
<1> SUFFICES ASSUME NEW o \in Lasting(r)
             PROVE  ~cidrOverlaps(Slash30(b), OwnerCIDR(o))
  OBVIOUS
<1>1. CASE o \in nets
  <2>1. OwnerCIDR(o) \in NetworkCIDRs(nets)
    BY <1>1 DEF OwnerCIDR, NetworkCIDRs, AllocInv, TypeOK
  <2> QED
    BY <2>1, FreeBlocksType
<1>2. CASE o \in Routed /\ o \notin nets
  <2>1. /\ o \in vms /\ o \notin Nets
        /\ vm[o].host \in Nat /\ vm[o].guest \in Nat
    BY <1>2, AllocAssumption DEF Routed, AllocInv, TypeOK, VMRow
  <2>2. Aligned(vm[o].host, vm[o].guest)
    BY <1>2 DEF AllocInv, RowsAligned
  <2>3. OwnerCIDR(o) = [first |-> vm[o].guest - 2, last |-> vm[o].guest + 1]
        /\ (vm[o].guest - 2) % 4 = 0
    BY <2>1, <2>2, AlignedBlock DEF OwnerCIDR, vmRoutedCIDR
  <2>4. vm[o].guest \in req[r].used
    BY <2>1 DEF Lasting, At, AllocInv, FrameOK, Looking
  <2>5. b \in Nat /\ b % 4 = 0 /\ b # vm[o].guest - 2
    BY <2>1, <2>4, FreeBlocksType
  <2>6. Slash30(b) = [first |-> b, last |-> b + 3]
    BY <2>5 DEF Slash30
  <2>7. vm[o].guest - 2 \in Int /\ vm[o].guest - 2 + 3 = vm[o].guest + 1
    BY <2>1
  <2>8. ~cidrOverlaps([first |-> b, last |-> b + 3],
                      [first |-> vm[o].guest - 2, last |-> vm[o].guest - 2 + 3])
    BY <2>3, <2>5, <2>7, BlocksDisjoint
  <2> QED
    BY <2>3, <2>6, <2>7, <2>8
<1> QED
  BY <1>1, <1>2 DEF Lasting, Owners

\* A frame that only moves on, with what it needs there.
LEMMA GotoOK ==
    ASSUME AllocInv, TypeOK', UNCHANGED rows, NEW r \in Requests, NEW g \in Frame, Goto(r, g),
           g.op = req[r].op, g.vm = req[r].vm, g.before = req[r].before,
           Placing(r)', Looking(r)',
           Decided(r)' => \A o \in (req[r].before \cap Owners) \ {g.vm, g.net} :
                             ~cidrOverlaps(g.cidr, OwnerCIDR(o))
    PROVE  AllocInv'
<1>1. req'[r] = g /\ \A q \in Requests \ {r} : req'[q] = req[q]
  BY GotoFrame DEF AllocInv
<1>2. Known(r)'
  BY <1>1 DEF Known, rows, AllocInv, FrameOK
<1>3. Lasting(r)' = (req[r].before \cap Owners) \ {g.vm, g.net}
  BY <1>1 DEF Lasting, Owners, Routed, rows
<1>4. \A o : OwnerCIDR(o)' = OwnerCIDR(o)
  BY DEF OwnerCIDR, vmRoutedCIDR, rows
<1>5. Clear(r)'
  BY <1>1, <1>3, <1>4 DEF Clear, cidrOverlaps
<1>6. FrameOK(r)'
  BY <1>2, <1>5 DEF FrameOK
<1> QED
  BY <1>1, <1>6, OneFrame

LEMMA CreatePortStep ==
    ASSUME AllocInv, TypeOK', NEW r \in Requests, CreatePort(r)
    PROVE  AllocInv'
<1>0. TypeOK /\ req[r] \in Frame /\ UNCHANGED rows
  BY DEF AllocInv, TypeOK, CreatePort
<1>1. CASE Finish(r)
  BY <1>0, <1>1, FinishOK
<1>2. CASE \E p : Goto(r, [req[r] EXCEPT !.pc = "mode", !.port = p, !.used = {}])
  <2>1. PICK p : Goto(r, [req[r] EXCEPT !.pc = "mode", !.port = p, !.used = {}])
    BY <1>2
  <2> DEFINE g == [req[r] EXCEPT !.pc = "mode", !.port = p, !.used = {}]
  <2>2. req'[r] = g
    BY <1>0, <2>1, GotoFrame
  <2>3. g \in Frame
    BY <2>2 DEF TypeOK
  <2>4. /\ g.op = "create" /\ g.pc = "mode" /\ g.vm = req[r].vm /\ g.net = NoId
        /\ g.before = req[r].before
    BY <1>0 DEF Frame, CreatePort, At, AllocInv, FrameOK, Placing, EarlyPCs
  <2> HIDE DEF g
  <2>5. Placing(r)'
    BY <1>0, <2>2, <2>4, AllocAssumption DEF Placing, SharedPCs, rows, TypeOK
  <2>6. Looking(r)' /\ ~Decided(r)'
    BY <2>2, <2>4 DEF Looking, Decided
  <2>7. g.op = req[r].op
    BY <2>4 DEF CreatePort, At
  <2>8. Goto(r, g)
    BY <2>1 DEF g
  <2> QED
    BY <1>0, <2>3, <2>4, <2>5, <2>6, <2>7, <2>8, GotoOK
<1> QED
  BY <1>1, <1>2 DEF CreatePort

LEMMA CreateRoutedStep ==
    ASSUME AllocInv, TypeOK', NEW r \in Requests, CreateRouted(r)
    PROVE  AllocInv'
<1> DEFINE g == [req[r] EXCEPT !.pc = "list_nets_p2p", !.used = UsedGuestIPs]
<1>0. TypeOK /\ req[r] \in Frame /\ UNCHANGED rows /\ Goto(r, g)
  BY DEF AllocInv, TypeOK, CreateRouted
<1>1. req'[r] = g /\ g \in Frame
  BY <1>0, GotoFrame DEF TypeOK
<1>2. /\ g.op = "create" /\ g.pc = "list_nets_p2p" /\ g.vm = req[r].vm /\ g.net = NoId
      /\ g.before = req[r].before /\ g.used = UsedGuestIPs /\ req[r].op = "create"
  BY <1>0 DEF Frame, CreateRouted, At, AllocInv, FrameOK, Placing, EarlyPCs
<1> HIDE DEF g
<1>3. Placing(r)'
  BY <1>0, <1>1, <1>2, AllocAssumption DEF Placing, SharedPCs, rows, TypeOK
<1>4. Looking(r)' /\ ~Decided(r)'
  BY <1>0, <1>1, <1>2 DEF Looking, Decided, UsedGuestIPs, rows
<1> QED
  BY <1>0, <1>1, <1>2, <1>3, <1>4, GotoOK

LEMMA P2PStep ==
    ASSUME AllocInv, TypeOK', NEW r \in Requests, allocateP2P(r)
    PROVE  AllocInv'
<1> DEFINE free == FreeBlocks(req[r].used, NetworkCIDRs(nets))
           b == Least(free)
           g == [req[r] EXCEPT !.pc = "write", !.cidr = Slash30(b),
                               !.host = b + 1, !.guest = b + 2, !.used = {}]
<1>0. TypeOK /\ req[r] \in Frame /\ UNCHANGED rows /\ At(r, "create", "list_nets_p2p")
  BY DEF AllocInv, TypeOK, allocateP2P
<1>1. CASE free = {}
  BY <1>0, <1>1, FinishOK DEF allocateP2P
<1>2. CASE free # {}
  <2>0. Goto(r, g)
    BY <1>2 DEF allocateP2P
  <2>1. b \in free /\ b \in Nat /\ b % 4 = 0
    BY <1>2, FreeBlocksType, LeastIn
  <2>2. \A o \in Lasting(r) : ~cidrOverlaps(Slash30(b), OwnerCIDR(o))
    BY <1>0, <2>1, P2PFrame
  <2>3. req'[r] = g /\ g \in Frame
    BY <1>0, <2>0, GotoFrame DEF TypeOK
  <2> HIDE DEF free, b
  <2>4. /\ g.op = "create" /\ g.pc = "write" /\ g.vm = req[r].vm /\ g.net = NoId
        /\ g.before = req[r].before /\ g.cidr = Slash30(b) /\ g.host = b + 1 /\ g.guest = b + 2
        /\ req[r].op = "create" /\ req[r].net = NoId
    BY <1>0 DEF Frame, At, AllocInv, FrameOK, Placing, EarlyPCs
  <2> HIDE DEF g
  <2>5. Placing(r)'
    <3>1. Aligned(b + 1, b + 2)
      BY <2>1, BlockArithmetic
    <3> QED
      BY <1>0, <2>3, <2>4, <3>1, AllocAssumption DEF Placing, EarlyPCs, SharedPCs, rows, TypeOK
  <2>6. Looking(r)'
    BY <2>3, <2>4 DEF Looking
  <2>7. \A o \in (req[r].before \cap Owners) \ {g.vm, g.net} : ~cidrOverlaps(g.cidr, OwnerCIDR(o))
    BY <2>2, <2>4 DEF Lasting
  <2> QED
    BY <1>0, <2>0, <2>3, <2>4, <2>5, <2>6, <2>7, GotoOK
<1> QED
  BY <1>1, <1>2

LEMMA CreateSharedStep ==
    ASSUME AllocInv, TypeOK', NEW r \in Requests, CreateShared(r)
    PROVE  AllocInv'
<1>1. PICK n \in nets : Goto(r, [req[r] EXCEPT !.pc = "list_nets", !.net = n,
                                     !.cidr = net[n].cidr, !.host = net[n].gateway])
  BY DEF CreateShared
<1> DEFINE g == [req[r] EXCEPT !.pc = "list_nets", !.net = n,
                               !.cidr = net[n].cidr, !.host = net[n].gateway]
<1>0. TypeOK /\ req[r] \in Frame /\ UNCHANGED rows /\ Goto(r, g) /\ n \in Nets
  BY <1>1 DEF AllocInv, TypeOK, CreateShared
<1>2. req'[r] = g /\ g \in Frame
  BY <1>0, GotoFrame DEF TypeOK
<1>3. /\ g.op = "create" /\ g.pc = "list_nets" /\ g.vm = req[r].vm /\ g.net = n
      /\ g.before = req[r].before /\ g.cidr = net[n].cidr /\ g.host = net[n].gateway
      /\ req[r].op = "create"
  BY <1>0 DEF Frame, CreateShared, At
<1> HIDE DEF g
<1>4. Placing(r)'
  BY <1>0, <1>2, <1>3 DEF Placing, EarlyPCs, rows
<1>5. Looking(r)' /\ ~Decided(r)'
  BY <1>2, <1>3 DEF Looking, Decided
<1> QED
  BY <1>0, <1>2, <1>3, <1>4, <1>5, GotoOK

LEMMA CreateUsableStep ==
    ASSUME AllocInv, TypeOK', NEW r \in Requests, CreateUsable(r)
    PROVE  AllocInv'
<1> DEFINE g == [req[r] EXCEPT !.pc = "guest_ips", !.avoid = {}]
<1>0. TypeOK /\ req[r] \in Frame /\ UNCHANGED rows /\ At(r, "create", "list_vms")
  BY DEF AllocInv, TypeOK, CreateUsable
<1>1. CASE Finish(r)
  BY <1>0, <1>1, FinishOK
<1>2. CASE ~Conflict(r, req[r].cidr) /\ Goto(r, g)
  <2>1. \A o \in Lasting(r) : ~cidrOverlaps(req[r].cidr, OwnerCIDR(o))
    BY <1>0, <1>2, NoConflict DEF At
  <2>2. req'[r] = g /\ g \in Frame
    BY <1>0, <1>2, GotoFrame DEF TypeOK
  <2>3. /\ g.op = "create" /\ g.pc = "guest_ips" /\ g.vm = req[r].vm /\ g.net = req[r].net
        /\ g.before = req[r].before /\ g.cidr = req[r].cidr /\ g.host = req[r].host
        /\ req[r].op = "create" /\ req[r].pc = "list_vms"
    BY <1>0 DEF Frame, At
  <2>4. Goto(r, g)
    BY <1>2
  <2> HIDE DEF g
  <2>5. Placing(r)'
    BY <1>0, <2>2, <2>3 DEF Placing, EarlyPCs, SharedPCs, rows, AllocInv, FrameOK
  <2>6. Looking(r)'
    BY <2>2, <2>3 DEF Looking
  <2>7. \A o \in (req[r].before \cap Owners) \ {g.vm, g.net} : ~cidrOverlaps(g.cidr, OwnerCIDR(o))
    BY <2>1, <2>3 DEF Lasting
  <2> QED
    BY <1>0, <2>2, <2>3, <2>4, <2>5, <2>6, <2>7, GotoOK
<1> QED
  BY <1>1, <1>2 DEF CreateUsable

LEMMA SharedStep ==
    ASSUME AllocInv, TypeOK', NEW r \in Requests, allocateShared(r)
    PROVE  AllocInv'
<1> DEFINE c == req[r].cidr
           free == {a \in (c.first + 1)..(c.last - 1) : a # req[r].host /\ a \notin UsedGuestIPs}
           g == [req[r] EXCEPT !.pc = "write", !.guest = Least(free)]
<1>0. TypeOK /\ req[r] \in Frame /\ UNCHANGED rows /\ At(r, "create", "guest_ips")
  BY DEF AllocInv, TypeOK, allocateShared
<1>1. CASE free = {}
  BY <1>0, <1>1, FinishOK DEF allocateShared
<1>2. CASE free # {}
  <2>0. Goto(r, g)
    BY <1>2 DEF allocateShared
  <2>1. Inside(c, req[r].host, Least(free))
    <3>1. c.first \in Nat /\ c.last \in Nat
      BY <1>0 DEF Frame, Interval
    <3>2. free \in SUBSET Nat
      BY <3>1
    <3>3. Least(free) \in free
      BY <1>2, <3>2, LeastIn
    <3>4. \A a \in free : Inside(c, req[r].host, a)
      BY <3>1 DEF Inside
    <3> HIDE DEF free
    <3> QED
      BY <3>3, <3>4
  <2>2. req'[r] = g /\ g \in Frame
    BY <1>0, <2>0, GotoFrame DEF TypeOK
  <2> HIDE DEF free
  <2>3. /\ g.op = "create" /\ g.pc = "write" /\ g.vm = req[r].vm /\ g.net = req[r].net
        /\ g.before = req[r].before /\ g.cidr = c /\ g.host = req[r].host /\ g.guest = Least(free)
        /\ req[r].op = "create" /\ req[r].pc = "guest_ips"
    BY <1>0 DEF Frame, At
  <2> HIDE DEF g
  <2>4. Placing(r)'
    BY <1>0, <2>1, <2>2, <2>3, AllocAssumption
       DEF Placing, EarlyPCs, SharedPCs, rows, AllocInv, FrameOK
  <2>5. Looking(r)'
    BY <2>2, <2>3 DEF Looking
  <2>6. \A o \in (req[r].before \cap Owners) \ {g.vm, g.net} : ~cidrOverlaps(g.cidr, OwnerCIDR(o))
    BY <2>3 DEF Lasting, AllocInv, FrameOK, Clear, Decided
  <2> QED
    BY <1>0, <2>0, <2>2, <2>3, <2>4, <2>5, <2>6, GotoOK
<1> QED
  BY <1>1, <1>2

-----------------------------------------------------------------------------
(* Writes.                                                                 *)

\* The frames other than r's are left alone, and r's is empty or harmless.
LEMMA FramesOK ==
    ASSUME AllocInv, TypeOK', NEW r \in Requests, FrameOK(r)',
           \A q \in Requests \ {r} : Idles(q) /\ Stays(q) /\ Known(q)'
    PROVE  \A q \in Requests : FrameOK(q)'
<1>1. ASSUME NEW q \in Requests, q # r PROVE FrameOK(q)'
  BY <1>1, FrameStays
<1> QED
  BY <1>1

LEMMA Forgets ==
    ASSUME AllocInv, NEW r \in Requests, NEW gone, FinishAndForget(r, gone)
    PROVE  /\ req'[r] = IdleFrame
           /\ \A q \in Requests \ {r} : Idles(q) /\ req'[q].before = req[q].before \ gone
<1>1. ASSUME NEW q \in Requests \ {r}
      PROVE  req'[q] = [req[q] EXCEPT !.before = @ \ gone] /\ req[q] \in Frame
  BY DEF FinishAndForget, AllocInv, TypeOK
<1>2. ASSUME NEW q \in Requests \ {r}
      PROVE  Idles(q) /\ req'[q].before = req[q].before \ gone
  <2>1. PICK f \in Frame : f = req[q] /\ req'[q] = [f EXCEPT !.before = f.before \ gone]
    BY <1>1, Zenon
  <2>2. PICK h : h = f.before \ gone /\ req'[q] = [f EXCEPT !.before = h]
    BY <2>1, Zenon
  <2>3. PICK g : g = [f EXCEPT !.before = h] /\ req'[q] = g
    BY <2>2, Zenon
  <2>4. /\ g.op = f.op /\ g.pc = f.pc /\ g.vm = f.vm /\ g.net = f.net /\ g.cidr = f.cidr
        /\ g.before = h
    BY <2>3 DEF Frame
  <2> QED
    BY <2>1, <2>2, <2>3, <2>4 DEF Idles
<1>3. req'[r] = IdleFrame
  BY DEF FinishAndForget
<1> QED
  BY <1>2, <1>3

LEMMA InsertVMStep ==
    ASSUME AllocInv, TypeOK', NEW r \in Requests, InsertVM(r)
    PROVE  AllocInv'
<1> DEFINE row == [port |-> req[r].port, net |-> req[r].net,
                   host |-> req[r].host, guest |-> req[r].guest]
<1>0. TypeOK /\ Finish(r) /\ req[r].op = "create" /\ req[r].pc = "write" /\ Placing(r)
  BY DEF AllocInv, FrameOK, InsertVM, At
<1>1. CASE UNCHANGED <<vms, vm>>
  BY <1>0, <1>1, FinishOK DEF InsertVM, rows
<1>2. CASE /\ req[r].guest \notin UsedGuestIPs
           /\ \E v \in NewVM : vms' = vms \cup {v} /\ vm' = [vm EXCEPT ![v] = row]
  <2>1. PICK v \in NewVM : vms' = vms \cup {v} /\ vm' = [vm EXCEPT ![v] = row]
    BY <1>2
  <2>2. UNCHANGED <<nets, net, rules, rule>>
    BY DEF InsertVM
  <2>3. v \in VMs /\ v \notin vms /\ vm'[v] = row /\ \A w \in vms : vm'[w] = vm[w]
    BY <1>0, <2>1 DEF NewVM, TypeOK
  <2> HIDE DEF row
  <2>4. ASSUME NEW q \in Requests \ {r} PROVE Idles(q) /\ Stays(q) /\ Known(q)'
    <3>1. req'[q] = req[q]
      BY <1>0, FinishFrame
    <3>2. v \notin req[q].before
      BY <2>3, AllocAssumption DEF AllocInv, FrameOK, Known, TypeOK
    <3>3. Known(q)'
      BY <2>1, <2>2, <3>1 DEF Known, AllocInv, FrameOK
    <3> QED
      BY <2>1, <2>2, <2>3, <3>1, <3>2, <3>3 DEF Idles, Stays
  <2>5. \A q \in Requests : FrameOK(q)'
    BY <1>0, <2>4, FinishFrame, IdleOK, FramesOK
  <2>6. RowsAligned'
    <3>1. row.net = NoId => Aligned(row.host, row.guest)
      BY <1>0 DEF Placing, row
    <3> QED
      BY <2>1, <2>3, <3>1 DEF RowsAligned, Routed, AllocInv
  <2>7. GuestsUnique'
    <3>1. \A w \in vms : vm[w].guest # row.guest
      BY <1>2 DEF UsedGuestIPs, row
    <3> QED
      BY <2>1, <2>3, <3>1 DEF GuestsUnique, AllocInv
  <2>8. GuestUsable'
    <3>1. row.net \in nets => Inside(net[row.net].cidr, net[row.net].gateway, row.guest)
      BY <1>0, AllocAssumption DEF Placing, row, TypeOK
    <3> QED
      BY <2>1, <2>2, <2>3, <3>1 DEF GuestUsable, AllocInv, Inside
  <2> QED
    BY <2>5, <2>6, <2>7, <2>8 DEF AllocInv
<1> QED
  BY <1>1, <1>2 DEF InsertVM

LEMMA InsertNetworkStep ==
    ASSUME AllocInv, TypeOK', NEW r \in Requests, InsertNetwork(r)
    PROVE  AllocInv'
<1> DEFINE row == [cidr |-> req[r].cidr, gateway |-> req[r].host]
<1>0. TypeOK /\ Finish(r)
  BY DEF AllocInv, InsertNetwork
<1>1. CASE UNCHANGED <<nets, net>>
  BY <1>0, <1>1, FinishOK DEF InsertNetwork, rows
<1>2. CASE \E n \in NewNet : nets' = nets \cup {n} /\ net' = [net EXCEPT ![n] = row]
  <2>1. PICK n \in NewNet : nets' = nets \cup {n} /\ net' = [net EXCEPT ![n] = row]
    BY <1>2
  <2>2. UNCHANGED <<vms, vm, rules, rule>>
    BY DEF InsertNetwork
  <2>3. /\ n \in Nets /\ n \notin nets /\ \A m \in nets : net'[m] = net[m]
        /\ \A q \in Requests : req[q].net # n
        /\ \A v \in vms : vm[v].net # n
    BY <1>0, <2>1 DEF NewNet, TypeOK
  <2> HIDE DEF row
  <2>4. ASSUME NEW q \in Requests \ {r} PROVE Idles(q) /\ Stays(q) /\ Known(q)'
    <3>1. req'[q] = req[q]
      BY <1>0, FinishFrame
    <3>2. n \notin req[q].before
      BY <2>3, AllocAssumption DEF AllocInv, FrameOK, Known, TypeOK
    <3>3. Known(q)'
      BY <2>1, <2>2, <3>1 DEF Known, AllocInv, FrameOK
    <3> QED
      BY <2>1, <2>2, <2>3, <3>1, <3>2, <3>3 DEF Idles, Stays
  <2>5. \A q \in Requests : FrameOK(q)'
    BY <1>0, <2>4, FinishFrame, IdleOK, FramesOK
  <2>6. RowsAligned' /\ GuestsUnique'
    BY <2>2 DEF RowsAligned, GuestsUnique, Routed, AllocInv
  <2>7. GuestUsable'
    BY <2>1, <2>2, <2>3 DEF GuestUsable, AllocInv
  <2> QED
    BY <2>5, <2>6, <2>7 DEF AllocInv
<1> QED
  BY <1>1, <1>2 DEF InsertNetwork

LEMMA DeleteRowStep ==
    ASSUME AllocInv, TypeOK', NEW r \in Requests, DeleteRow(r)
    PROVE  AllocInv'
<1> DEFINE v == req[r].vm
<1>1. /\ vms' = vms \ {v} /\ FinishAndForget(r, {v})
      /\ UNCHANGED <<nets, net, rules, rule>>
      /\ \A w \in vms' : vm'[w] = vm[w]
  BY DEF DeleteRow, AllocInv, TypeOK
<1> HIDE DEF v
<1>2. ASSUME NEW q \in Requests \ {r} PROVE Idles(q) /\ Stays(q) /\ Known(q)'
  <2>1. Idles(q) /\ req'[q].before = req[q].before \ {v}
    BY <1>1, Forgets
  <2>2. Known(q)'
    BY <1>1, <2>1 DEF Known, AllocInv, FrameOK
  <2> QED
    BY <1>1, <2>1, <2>2 DEF Stays
<1>3. \A q \in Requests : FrameOK(q)'
  BY <1>1, <1>2, Forgets, IdleOK, FramesOK
<1>4. (RowsAligned /\ GuestsUnique /\ GuestUsable)'
  BY <1>1 DEF RowsAligned, GuestsUnique, GuestUsable, Routed, AllocInv
<1> QED
  BY <1>3, <1>4 DEF AllocInv

LEMMA DeleteNetworkStep ==
    ASSUME AllocInv, TypeOK', NEW r \in Requests, DeleteNetwork(r)
    PROVE  AllocInv'
<1> DEFINE n == req[r].net
<1>1. /\ nets' = nets \ {n} /\ FinishAndForget(r, {n})
      /\ UNCHANGED <<vms, vm, rules, rule>>
      /\ \A m \in nets' : net'[m] = net[m]
  BY DEF DeleteNetwork, AllocInv, TypeOK
<1> HIDE DEF n
<1>2. ASSUME NEW q \in Requests \ {r} PROVE Idles(q) /\ Stays(q) /\ Known(q)'
  <2>1. Idles(q) /\ req'[q].before = req[q].before \ {n}
    BY <1>1, Forgets
  <2>2. Known(q)'
    BY <1>1, <2>1 DEF Known, AllocInv, FrameOK
  <2> QED
    BY <1>1, <2>1, <2>2 DEF Stays
<1>3. \A q \in Requests : FrameOK(q)'
  BY <1>1, <1>2, Forgets, IdleOK, FramesOK
<1>4. (RowsAligned /\ GuestsUnique)'
  BY <1>1 DEF RowsAligned, GuestsUnique, Routed, AllocInv
<1>5. GuestUsable'
  BY <1>1 DEF GuestUsable, AllocInv
<1> QED
  BY <1>3, <1>4, <1>5 DEF AllocInv

\* Steps that write ingress rules touch nothing that owns addresses.
LEMMA RulesStep ==
    ASSUME AllocInv, TypeOK', UNCHANGED <<vms, vm, nets, net>>, NEW r \in Requests, NEW gone,
           rules \ gone \subseteq rules', FrameOK(r)',
           \A q \in Requests \ {r} : Idles(q) /\ req'[q].before \subseteq req[q].before \ gone
    PROVE  AllocInv'
<1>1. ASSUME NEW q \in Requests \ {r} PROVE Idles(q) /\ Stays(q) /\ Known(q)'
  BY DEF Stays, Idles, Known, AllocInv, FrameOK
<1>2. \A q \in Requests : FrameOK(q)'
  BY <1>1, FramesOK
<1>3. (RowsAligned /\ GuestsUnique /\ GuestUsable)'
  BY DEF RowsAligned, GuestsUnique, GuestUsable, Routed, AllocInv
<1> QED
  BY <1>2, <1>3 DEF AllocInv

LEMMA DeleteRulesStep ==
    ASSUME AllocInv, TypeOK', NEW r \in Requests, DeleteRules(r)
    PROVE  AllocInv'
<1> DEFINE gone == {i \in rules : rule[i].vm = req[r].vm}
<1>1. /\ UNCHANGED <<vms, vm, nets, net>> /\ rules' = rules \ gone
      /\ req[r].op = "delete"
      /\ req' = [q \in Requests |->
                   [req[q] EXCEPT !.before = @ \ gone, !.pc = IF q = r THEN "write" ELSE @]]
  BY DEF DeleteRules, At
<1> HIDE DEF gone
<1>2. \A q \in Requests : req[q] \in Frame
  BY DEF AllocInv, TypeOK
<1>3. \A q \in Requests \ {r} : Idles(q) /\ req'[q].before = req[q].before \ gone
  BY <1>1, <1>2 DEF Idles, Frame
<1>4. req'[r].op = "delete" /\ req'[r].pc = "write" /\ req'[r].before = req[r].before \ gone
  BY <1>1, <1>2 DEF Frame
<1>5. FrameOK(r)'
  BY <1>1, <1>4 DEF FrameOK, Known, Placing, Looking, Clear, Decided, AllocInv
<1> QED
  BY <1>1, <1>3, <1>5, RulesStep

LEMMA DeleteRuleStep ==
    ASSUME AllocInv, TypeOK', NEW r \in Requests, DeleteRule(r)
    PROVE  AllocInv'
<1> DEFINE gone == {i \in rules : i = req[r].rule /\ rule[i].vm = req[r].vm}
<1>1. UNCHANGED <<vms, vm, nets, net>> /\ rules' = rules \ gone /\ FinishAndForget(r, gone)
  BY DEF DeleteRule
<1> HIDE DEF gone
<1>2. \A q \in Requests \ {r} : Idles(q) /\ req'[q].before \subseteq req[q].before \ gone
  BY <1>1, Forgets
<1>3. FrameOK(r)'
  BY <1>1, Forgets, IdleOK
<1> QED
  BY <1>1, <1>2, <1>3, RulesStep

LEMMA InsertRuleStep ==
    ASSUME AllocInv, TypeOK', NEW r \in Requests, InsertRule(r)
    PROVE  AllocInv'
<1>1. UNCHANGED <<vms, vm, nets, net>> /\ rules \subseteq rules' /\ Finish(r) /\ TypeOK
  BY DEF InsertRule, AllocInv
<1>2. req'[r] = IdleFrame /\ \A q \in Requests \ {r} : req'[q] = req[q]
  BY <1>1, FinishFrame
<1>3. \A q \in Requests \ {r} : Idles(q) /\ req'[q].before \subseteq req[q].before \ {}
  BY <1>2 DEF Idles
<1> QED
  BY <1>1, <1>2, <1>3, IdleOK, RulesStep

-----------------------------------------------------------------------------
(* The other steps, and all of them together.                              *)

LEMMA ListStep ==
    ASSUME AllocInv, TypeOK', NEW r \in Requests, ListNetworks(r)
    PROVE  AllocInv'
<1> DEFINE g == [req[r] EXCEPT !.pc = "list_vms", !.avoid = NetworkCIDRs(nets \ {req[r].net})]
<1>0. TypeOK /\ req[r] \in Frame /\ UNCHANGED rows /\ Goto(r, g) /\ req[r].pc = "list_nets"
  BY DEF AllocInv, TypeOK, ListNetworks
<1>1. req'[r] = g /\ g \in Frame
  BY <1>0, GotoFrame DEF TypeOK
<1>2. /\ g.op = req[r].op /\ g.pc = "list_vms" /\ g.vm = req[r].vm /\ g.net = req[r].net
      /\ g.before = req[r].before /\ g.cidr = req[r].cidr /\ g.host = req[r].host
      /\ g.avoid = NetworkCIDRs(nets \ {req[r].net})
  BY <1>0 DEF Frame
<1> HIDE DEF g
<1>3. Placing(r)'
  BY <1>0, <1>1, <1>2 DEF Placing, EarlyPCs, SharedPCs, rows, AllocInv, FrameOK
<1>4. Looking(r)' /\ ~Decided(r)'
  BY <1>0, <1>1, <1>2 DEF Looking, Decided, NetworkCIDRs, rows
<1> QED
  BY <1>0, <1>1, <1>2, <1>3, <1>4, GotoOK

LEMMA StartStep ==
    ASSUME AllocInv, TypeOK', NEW r \in Requests, Start(r)
    PROVE  AllocInv'
<1>0. TypeOK /\ req[r] \in Frame
  BY DEF AllocInv, TypeOK
<1>1. CASE StartArrive(r)
  <2> DEFINE q(v) == [IdleFrame EXCEPT !.op = "start", !.vm = v, !.net = vm[v].net]
             g(v) == IF v \in Routed
                     THEN [q(v) EXCEPT !.pc = "list_nets", !.cidr = vmRoutedCIDR(v)]
                     ELSE [q(v) EXCEPT !.pc = "mode"]
  <2>1. PICK v \in vms : Arrive(r, g(v))
    BY <1>1 DEF StartArrive
  <2>2. g(v) \in Frame
    <3>1. v \in VMs /\ vm[v].net \in Nets \cup {NoId} /\ vmRoutedCIDR(v) \in Interval
      BY RoutedType DEF AllocInv, TypeOK, VMRow
    <3>2. q(v) \in Frame
      BY <3>1, IdleType DEF Frame, Ops
    <3> HIDE DEF q
    <3> QED
      BY <3>1, <3>2 DEF Frame, PCs
  <2>3. g(v).op = "start" /\ g(v).pc \in {"list_nets", "mode"}
    <3>1. q(v).op = "start" /\ q(v) = [q(v) EXCEPT !.op = "start"] /\ DOMAIN q(v) = DOMAIN IdleFrame
      BY IdleType DEF Frame
    <3> QED
      BY <3>1, IdleType DEF Frame
  <2> HIDE DEF g
  <2> QED
    BY <2>1, <2>2, <2>3, ArriveOK
<1>2. CASE StartShared(r)
  <2> DEFINE g == [req[r] EXCEPT !.pc = "list_nets", !.cidr = net[req[r].net].cidr]
  <2>0. UNCHANGED rows /\ req[r].op = "start"
    BY <1>2 DEF StartShared, At
  <2>1. CASE Finish(r)
    BY <2>0, <2>1, FinishOK
  <2>2. CASE Goto(r, g)
    <3>1. req'[r] = g /\ g \in Frame
      BY <1>0, <2>2, GotoFrame DEF TypeOK
    <3>2. /\ g.op = "start" /\ g.pc = "list_nets" /\ g.vm = req[r].vm /\ g.net = req[r].net
          /\ g.before = req[r].before
      BY <1>0, <2>0 DEF Frame
    <3> HIDE DEF g
    <3>3. Placing(r)' /\ Looking(r)' /\ ~Decided(r)'
      BY <3>1, <3>2 DEF Placing, Looking, Decided
    <3> QED
      BY <2>0, <2>2, <3>1, <3>2, <3>3, GotoOK
  <2> QED
    BY <1>2, <2>1, <2>2 DEF StartShared
<1>3. CASE StartUsable(r)
  <2> DEFINE g == [req[r] EXCEPT !.pc = "proceed", !.avoid = {}]
  <2>0. UNCHANGED rows /\ req[r].op = "start" /\ req[r].pc = "list_vms"
    BY <1>3 DEF StartUsable, At
  <2>1. CASE Finish(r)
    BY <2>0, <2>1, FinishOK
  <2>2. CASE ~Conflict(r, req[r].cidr) /\ Goto(r, g)
    <3>1. req'[r] = g /\ g \in Frame
      BY <1>0, <2>2, GotoFrame DEF TypeOK
    <3>2. /\ g.op = "start" /\ g.pc = "proceed" /\ g.vm = req[r].vm /\ g.net = req[r].net
          /\ g.before = req[r].before /\ g.cidr = req[r].cidr
      BY <1>0, <2>0 DEF Frame
    <3>3. Goto(r, g)
      BY <2>2
    <3> HIDE DEF g
    <3>4. Placing(r)' /\ Looking(r)'
      BY <3>1, <3>2 DEF Placing, Looking
    <3>5. \A o \in (req[r].before \cap Owners) \ {g.vm, g.net} : ~cidrOverlaps(g.cidr, OwnerCIDR(o))
      BY <2>0, <2>2, <3>2, NoConflict DEF Lasting
    <3> QED
      BY <2>0, <3>1, <3>2, <3>3, <3>4, <3>5, GotoOK
  <2> QED
    BY <1>3, <2>1, <2>2 DEF StartUsable
<1>4. CASE StartProceed(r)
  BY <1>4, FinishOK DEF StartProceed
<1> QED
  BY <1>1, <1>2, <1>3, <1>4 DEF Start

\* A frame of an operation that takes no address.
LEMMA PlainGoto ==
    ASSUME AllocInv, TypeOK', UNCHANGED rows, NEW r \in Requests,
           req[r].op \in {"ingress", "unnet"}, NEW p,
           Goto(r, [req[r] EXCEPT !.pc = "write", !.port = p])
    PROVE  AllocInv'
<1> DEFINE g == [req[r] EXCEPT !.pc = "write", !.port = p]
<1>0. TypeOK /\ req[r] \in Frame
  BY DEF AllocInv, TypeOK
<1>1. req'[r] = g /\ g \in Frame
  BY <1>0, GotoFrame DEF TypeOK
<1>2. g.op = req[r].op /\ g.pc = "write" /\ g.vm = req[r].vm /\ g.before = req[r].before
  BY <1>0 DEF Frame
<1> HIDE DEF g
<1>3. Placing(r)' /\ Looking(r)' /\ ~Decided(r)'
  BY <1>1, <1>2 DEF Placing, Looking, Decided
<1>4. Goto(r, g)
  BY DEF g
<1> QED
  BY <1>1, <1>2, <1>3, <1>4, GotoOK

LEMMA NetworkCheckStep ==
    ASSUME AllocInv, TypeOK', NEW r \in Requests, NetworkCheck(r)
    PROVE  AllocInv'
<1>0. TypeOK /\ req[r] \in Frame /\ UNCHANGED rows /\ req[r].op = "network" /\ req[r].pc = "list_vms"
  BY DEF AllocInv, TypeOK, NetworkCheck, At
<1>1. CASE Finish(r)
  BY <1>0, <1>1, FinishOK
<1>2. ASSUME NEW c, NEW h, ~Conflict(r, c),
             Goto(r, [req[r] EXCEPT !.pc = "write", !.cidr = c, !.host = h, !.avoid = {}])
      PROVE  AllocInv'
  <2> DEFINE g == [req[r] EXCEPT !.pc = "write", !.cidr = c, !.host = h, !.avoid = {}]
  <2>1. req'[r] = g /\ g \in Frame
    BY <1>0, <1>2, GotoFrame DEF TypeOK
  <2>2. /\ g.op = "network" /\ g.pc = "write" /\ g.vm = req[r].vm /\ g.net = req[r].net
        /\ g.before = req[r].before /\ g.cidr = c
    BY <1>0 DEF Frame
  <2>3. Goto(r, g)
    BY <1>2
  <2> HIDE DEF g
  <2>4. Placing(r)' /\ Looking(r)'
    BY <2>1, <2>2 DEF Placing, Looking
  <2>5. \A o \in (req[r].before \cap Owners) \ {g.vm, g.net} : ~cidrOverlaps(g.cidr, OwnerCIDR(o))
    BY <1>0, <1>2, <2>2, NoConflict DEF Lasting
  <2> QED
    BY <1>0, <2>1, <2>2, <2>3, <2>4, <2>5, GotoOK
<1> QED
  BY <1>0, <1>1, <1>2 DEF NetworkCheck

LEMMA ArriveStep ==
    ASSUME AllocInv, TypeOK', NEW r \in Requests,
           CreateArrive(r) \/ DeleteArrive(r) \/ IngressArrive(r) \/ UnruleArrive(r)
           \/ NetworkArrive(r) \/ UnnetArrive(r)
    PROVE  AllocInv'
<1>0. TypeOK
  BY DEF AllocInv
<1>1. CASE CreateArrive(r)
  <2> DEFINE g == [IdleFrame EXCEPT !.op = "create", !.pc = "host_ports", !.used = UsedSSHPorts]
  <2>1. g \in Frame
    BY <1>0, IdleType, UsedType DEF Frame, Ops, PCs
  <2>2. g.op = "create" /\ g.pc = "host_ports" /\ g.net = NoId
    BY DEF IdleFrame
  <2>3. Arrive(r, g)
    BY <1>1 DEF CreateArrive
  <2> HIDE DEF g
  <2> QED
    BY <2>1, <2>2, <2>3, ArriveOK
<1>2. CASE NetworkArrive(r)
  <2> DEFINE g == [IdleFrame EXCEPT !.op = "network", !.pc = "list_vms", !.avoid = NetworkCIDRs(nets)]
  <2>1. g \in Frame
    <3>1. NetworkCIDRs(nets) \in SUBSET Interval
      BY <1>0, UsedType
    <3> QED
      BY <3>1, IdleType DEF Frame, Ops, PCs
  <2>2. g.op = "network" /\ g.pc = "list_vms" /\ g.avoid = NetworkCIDRs(nets)
    BY DEF IdleFrame
  <2>3. Arrive(r, g)
    BY <1>2 DEF NetworkArrive
  <2> HIDE DEF g
  <2> QED
    BY <2>1, <2>2, <2>3, ArriveOK
<1>3. ASSUME NEW g \in Frame, g.op \in {"delete", "ingress", "unrule", "unnet"},
             g.pc \in {"delete_rules", "check_port", "write", "count"}, Arrive(r, g)
      PROVE  AllocInv'
  BY <1>3, ArriveOK
<1>4. CASE DeleteArrive(r)
  <2> DEFINE g(v) == [IdleFrame EXCEPT !.op = "delete", !.pc = "delete_rules", !.vm = v]
  <2>1. PICK v \in vms : Arrive(r, g(v))
    BY <1>4 DEF DeleteArrive
  <2>2. g(v) \in Frame
    BY <1>0, IdleType DEF Frame, Ops, PCs, TypeOK
  <2>3. g(v).op = "delete" /\ g(v).pc = "delete_rules"
    BY DEF IdleFrame
  <2> HIDE DEF g
  <2> QED
    BY <1>3, <2>1, <2>2, <2>3
<1>5. CASE IngressArrive(r)
  <2> DEFINE g(v) == [IdleFrame EXCEPT !.op = "ingress", !.pc = "check_port", !.vm = v]
  <2>1. PICK v \in vms : Arrive(r, g(v))
    BY <1>5 DEF IngressArrive
  <2>2. g(v) \in Frame
    BY <1>0, IdleType DEF Frame, Ops, PCs, TypeOK
  <2>3. g(v).op = "ingress" /\ g(v).pc = "check_port"
    BY DEF IdleFrame
  <2> HIDE DEF g
  <2> QED
    BY <1>3, <2>1, <2>2, <2>3
<1>6. CASE UnruleArrive(r)
  <2> DEFINE g(v, i) == [IdleFrame EXCEPT !.op = "unrule", !.pc = "write", !.vm = v, !.rule = i]
  <2>1. PICK v \in vms, i \in rules : Arrive(r, g(v, i))
    BY <1>6 DEF UnruleArrive
  <2>2. g(v, i) \in Frame
    BY <1>0, IdleType DEF Frame, Ops, PCs, TypeOK
  <2>3. g(v, i).op = "unrule" /\ g(v, i).pc = "write"
    BY DEF IdleFrame
  <2> HIDE DEF g
  <2> QED
    BY <1>3, <2>1, <2>2, <2>3
<1>7. CASE UnnetArrive(r)
  <2> DEFINE g(n) == [IdleFrame EXCEPT !.op = "unnet", !.pc = "count", !.net = n]
  <2>1. PICK n \in nets : Arrive(r, g(n))
    BY <1>7 DEF UnnetArrive
  <2>2. g(n) \in Frame
    BY <1>0, IdleType DEF Frame, Ops, PCs, TypeOK
  <2>3. g(n).op = "unnet" /\ g(n).pc = "count"
    BY DEF IdleFrame
  <2> HIDE DEF g
  <2> QED
    BY <1>3, <2>1, <2>2, <2>3
<1> QED
  BY <1>1, <1>2, <1>4, <1>5, <1>6, <1>7

LEMMA AllocStep == AllocInv /\ [Next]_vars => AllocInv'
<1> SUFFICES ASSUME AllocInv, [Next]_vars PROVE AllocInv'
  OBVIOUS
<1>0. TypeOK'
  BY TypeStep DEF AllocInv
<1>1. CASE UNCHANGED vars
  <2>1. UNCHANGED rows /\ req' = req
    BY <1>1 DEF vars, rows
  <2>2. \A q \in Requests : FrameOK(q)'
    <3>1. ASSUME NEW q \in Requests PROVE FrameOK(q)'
      <4>1. Idles(q) /\ Stays(q) /\ Known(q)'
        BY <2>1 DEF Idles, Stays, Known, rows, AllocInv, FrameOK
      <4> QED
        BY <1>0, <4>1, FrameStays
    <3> QED
      BY <3>1
  <2> QED
    BY <1>0, <2>1, <2>2, RowsStay DEF AllocInv
<1>2. ASSUME NEW r \in Requests, Create(r) PROVE AllocInv'
  BY <1>0, <1>2, ArriveStep, CreatePortStep, CreateRoutedStep, P2PStep, CreateSharedStep,
     CreateUsableStep, SharedStep, InsertVMStep DEF Create
<1>3. ASSUME NEW r \in Requests, Delete(r) PROVE AllocInv'
  BY <1>0, <1>3, ArriveStep, DeleteRulesStep, DeleteRowStep DEF Delete
<1>4. ASSUME NEW r \in Requests, Ingress(r) PROVE AllocInv'
  <2>1. CASE IngressPort(r)
    BY <1>0, <2>1, FinishOK, PlainGoto DEF IngressPort, At
  <2> QED
    BY <1>0, <1>4, <2>1, ArriveStep, InsertRuleStep, DeleteRuleStep DEF Ingress
<1>5. ASSUME NEW r \in Requests, Network(r) PROVE AllocInv'
  <2>1. CASE CountVMs(r)
    <3>1. req[r] \in Frame
      BY DEF AllocInv, TypeOK
    <3>2. [req[r] EXCEPT !.pc = "write"] = [req[r] EXCEPT !.pc = "write", !.port = req[r].port]
      BY <3>1 DEF Frame
    <3> QED
      BY <1>0, <2>1, <3>2, FinishOK, PlainGoto DEF CountVMs, At
  <2> QED
    BY <1>0, <1>5, <2>1, ArriveStep, NetworkCheckStep, InsertNetworkStep, DeleteNetworkStep DEF Network
<1>6. ASSUME NEW r \in Requests, Fail(r) PROVE AllocInv'
  BY <1>0, <1>6, FinishOK DEF Fail, rows
<1> QED
  BY <1>0, <1>1, <1>2, <1>3, <1>4, <1>5, <1>6, StartStep, ListStep DEF Next

LEMMA AllocInit == Init => AllocInv
<1> SUFFICES ASSUME Init PROVE AllocInv
  OBVIOUS
<1>1. \A q \in Requests : req[q] = IdleFrame
  BY DEF Init
<1>2. \A q \in Requests : FrameOK(q)
  BY <1>1 DEF FrameOK, Known, Placing, Looking, Clear, Decided, IdleFrame
<1>3. RowsAligned /\ GuestsUnique /\ GuestUsable
  BY DEF Init, RowsAligned, GuestsUnique, GuestUsable, Routed
<1> QED
  BY <1>2, <1>3, TypeInit DEF AllocInv

\* The inductive invariant: the rows, and what every handler knows of them.
THEOREM AllocInvariant == Spec => []AllocInv
BY AllocInit, AllocStep, PTL DEF Spec

-----------------------------------------------------------------------------
(* What holds however requests interleave.                                 *)

\* The /30s of two routed VMs have no address in common.
THEOREM RoutedNeverOverlap == Spec => []RoutedDisjoint
<1>1. AllocInv => RoutedDisjoint
  <2> SUFFICES ASSUME AllocInv, NEW v \in Routed, NEW w \in Routed, v # w
               PROVE  ~cidrOverlaps(vmRoutedCIDR(v), vmRoutedCIDR(w))
    BY DEF RoutedDisjoint
  <2>1. \A x \in Routed : /\ vmRoutedCIDR(x) = [first |-> vm[x].guest - 2, last |-> vm[x].guest + 1]
                          /\ (vm[x].guest - 2) % 4 = 0 /\ vm[x].guest \in Nat
    <3>1. \A x \in Routed : vm[x].host \in Nat /\ vm[x].guest \in Nat /\ Aligned(vm[x].host, vm[x].guest)
      BY DEF Routed, AllocInv, TypeOK, VMRow, RowsAligned
    <3> QED
      BY <3>1, AlignedBlock DEF vmRoutedCIDR
  <2>2. vm[v].guest # vm[w].guest
    BY DEF Routed, AllocInv, GuestsUnique
  <2> DEFINE a == vm[v].guest - 2
             b == vm[w].guest - 2
  <2>3. /\ a \in Int /\ b \in Int /\ a % 4 = 0 /\ b % 4 = 0 /\ a # b
        /\ vm[v].guest + 1 = a + 3 /\ vm[w].guest + 1 = b + 3
    BY <2>1, <2>2
  <2>4. ~cidrOverlaps([first |-> a, last |-> a + 3], [first |-> b, last |-> b + 3])
    <3> HIDE DEF a, b
    <3> QED
      BY <2>3, BlocksDisjoint
  <2> QED
    BY <2>1, <2>3, <2>4
<1> QED
  BY <1>1, AllocInvariant, PTL

\* A VM in a shared network has an address there that a guest can use.
THEOREM GuestsUsable == Spec => []GuestUsable
<1>1. AllocInv => GuestUsable
  BY DEF AllocInv
<1> QED
  BY <1>1, AllocInvariant, PTL

\* No request goes on with addresses that something lasting already has.
THEOREM LastingHeeded == Spec => []LastingRespected
<1>1. AllocInv => LastingRespected
  BY DEF AllocInv, FrameOK, Clear, Decided, Lasting, LastingRespected
<1> QED
  BY <1>1, AllocInvariant, PTL

-----------------------------------------------------------------------------
(* What holds as long as requests do not overlap in time.                   *)

\* What the handler that is alone knows: there is nothing that it does not know.
Sole(r) ==
    /\ req[r].before = vms \cup nets \cup rules
    /\ req[r].op \in {"create", "network"} => req[r].vm = NoId
    /\ req[r].op = "network" => req[r].net = NoId
    /\ req[r].op = "create" =>
         /\ req[r].pc # "host_ports" => req[r].port \notin UsedIngressHostPorts
         /\ req[r].net # NoId => req[r].net \in nets
         /\ req[r].pc = "write" /\ req[r].net = NoId => req[r].cidr = Slash30(req[r].host)
    /\ req[r].op = "ingress" =>
         req[r].vm \in vms /\ (req[r].pc = "write" => req[r].port \notin UsedSSHPorts)
    /\ req[r].op = "delete" /\ req[r].pc = "write" => \A i \in rules : rule[i].vm # req[r].vm
    /\ req[r].op = "unnet" /\ req[r].pc = "write" => \A v \in vms : vm[v].net # req[r].net

Busy(r) == req[r].pc # "idle"
Alone == \A q, r \in Requests : Busy(q) /\ Busy(r) => q = r

SerialInv == ~raced => Alone /\ Consistent /\ \A r \in Requests : Busy(r) => Sole(r)

\* A step of the handler that is alone leaves it alone.
LEMMA StaysAlone ==
    ASSUME Alone, NEW r \in Requests, Busy(r),
           \A q \in Requests \ {r} : req'[q].pc = req[q].pc,
           Busy(r)' => Sole(r)', Consistent'
    PROVE  SerialInv'
<1>1. \A q \in Requests \ {r} : ~Busy(q)'
  BY DEF Alone, Busy
<1> QED
  BY <1>1 DEF SerialInv, Alone

LEMMA ConsistentStays ==
    ASSUME Consistent, UNCHANGED rows
    PROVE  Consistent'
<1>1. Owners' = Owners /\ \A o : OwnerCIDR(o)' = OwnerCIDR(o)
  BY DEF rows, Owners, Routed, OwnerCIDR, vmRoutedCIDR
<1>2. OwnersDisjoint'
  BY <1>1 DEF Consistent, OwnersDisjoint, cidrOverlaps
<1>3. PortsDisjoint' /\ RulesHaveVM' /\ VMsHaveNetwork'
  BY DEF Consistent, PortsDisjoint, RulesHaveVM, VMsHaveNetwork, rows, Routed,
         UsedSSHPorts, UsedIngressHostPorts
<1> QED
  BY <1>2, <1>3 DEF Consistent

\* A request that ends without a write.
LEMMA SerialFinish ==
    ASSUME AllocInv, SerialInv, NEW r \in Requests, Busy(r), Finish(r), UNCHANGED <<rows, raced>>
    PROVE  SerialInv'
<1> SUFFICES ASSUME ~raced' PROVE SerialInv'
  BY DEF SerialInv
<1>1. ~raced /\ Alone /\ Consistent
  BY DEF SerialInv
<1>2. req'[r] = IdleFrame /\ \A q \in Requests \ {r} : req'[q] = req[q]
  BY FinishFrame DEF AllocInv
<1>3. ~Busy(r)'
  BY <1>2 DEF Busy, IdleFrame
<1>4. Consistent'
  BY <1>1, ConsistentStays
<1> QED
  BY <1>1, <1>2, <1>3, <1>4, StaysAlone

\* A request that moves on without a write.
LEMMA SerialGoto ==
    ASSUME AllocInv, SerialInv, NEW r \in Requests, Busy(r), NEW g, Goto(r, g),
           UNCHANGED <<rows, raced>>,
           ~raced /\ Sole(r) => Sole(r)'
    PROVE  SerialInv'
<1> SUFFICES ASSUME ~raced' PROVE SerialInv'
  BY DEF SerialInv
<1>1. ~raced /\ Alone /\ Consistent /\ Sole(r)
  BY DEF SerialInv
<1>2. \A q \in Requests \ {r} : req'[q] = req[q]
  BY GotoFrame DEF AllocInv
<1>3. Consistent'
  BY <1>1, ConsistentStays
<1> QED
  BY <1>1, <1>2, <1>3, StaysAlone

\* A request that arrives while no other is there.
LEMMA SerialArrive ==
    ASSUME AllocInv, SerialInv, NEW r \in Requests, NEW g \in Frame, Arrive(r, g),
           g.op \in {"create", "network"} => g.vm = NoId /\ g.net = NoId,
           g.op = "create" => g.pc = "host_ports",
           g.op = "ingress" => g.vm \in vms /\ g.pc = "check_port",
           g.op \in {"delete", "unnet"} => g.pc # "write"
    PROVE  SerialInv'
<1> SUFFICES ASSUME ~raced' PROVE SerialInv'
  BY DEF SerialInv
<1>1. ~raced /\ \A q \in Requests \ {r} : ~Busy(q)
  BY DEF Arrive, Busy
<1>2. /\ req'[r] = [g EXCEPT !.before = vms \cup nets \cup rules]
      /\ \A q \in Requests \ {r} : req'[q] = req[q]
      /\ UNCHANGED rows
  BY ArriveFrame DEF AllocInv
<1>3. Consistent'
  BY <1>1, <1>2, ConsistentStays DEF SerialInv
<1>4. /\ req'[r].op = g.op /\ req'[r].pc = g.pc /\ req'[r].vm = g.vm /\ req'[r].net = g.net
      /\ req'[r].before = vms \cup nets \cup rules
  BY <1>2 DEF Frame
<1>5. Sole(r)'
  BY <1>2, <1>4 DEF Sole, rows
<1> QED
  BY <1>1, <1>2, <1>3, <1>5 DEF SerialInv, Alone, Busy

-----------------------------------------------------------------------------
(* The steps of a request that is alone.                                    *)

LEMMA SerialCreate ==
    ASSUME AllocInv, SerialInv, NEW r \in Requests, Create(r), ~InsertVM(r)
    PROVE  SerialInv'
<1>0. TypeOK /\ req[r] \in Frame
  BY DEF AllocInv, TypeOK
<1>1. CASE CreateArrive(r)
  <2> DEFINE g == [IdleFrame EXCEPT !.op = "create", !.pc = "host_ports", !.used = UsedSSHPorts]
  <2>1. g \in Frame
    BY <1>0, IdleType, UsedType DEF Frame, Ops, PCs
  <2>2. g.op = "create" /\ g.pc = "host_ports" /\ g.net = NoId /\ g.vm = NoId
    BY DEF IdleFrame
  <2>3. Arrive(r, g)
    BY <1>1 DEF CreateArrive
  <2> HIDE DEF g
  <2> QED
    BY <2>1, <2>2, <2>3, SerialArrive
<1>2. CASE CreatePort(r)
  <2>0. Busy(r) /\ UNCHANGED <<rows, raced>> /\ req[r].op = "create"
    BY <1>2 DEF CreatePort, At, Busy
  <2>1. CASE Finish(r)
    BY <2>0, <2>1, SerialFinish
  <2>2. CASE ~Finish(r)
    <3>1. PICK asked \in HostPorts \cup {0}, open \in SUBSET (SSHFirst..SSHLast) :
            LET taken == req[r].used \cup UsedIngressHostPorts \cup open
                free == {p \in SSHFirst..SSHLast : p \notin taken /\ asked \in {0, p}}
            IN IF free = {} THEN Finish(r)
               ELSE Goto(r, [req[r] EXCEPT !.pc = "mode", !.port = Least(free), !.used = {}])
      BY <1>2 DEF CreatePort
    <3> DEFINE free == {p \in SSHFirst..SSHLast :
                          p \notin req[r].used \cup UsedIngressHostPorts \cup open /\ asked \in {0, p}}
               p == Least(free)
               g == [req[r] EXCEPT !.pc = "mode", !.port = p, !.used = {}]
    <3>2. free # {} /\ Goto(r, g)
      BY <2>2, <3>1
    <3>3. p \notin UsedIngressHostPorts
      <4>1. free \in SUBSET Nat
        BY AllocAssumption
      <4> QED
        BY <3>2, <4>1, LeastIn
    <3> HIDE DEF p
    <3>4. req'[r] = g
      BY <1>0, <3>2, GotoFrame
    <3>5. /\ g.op = "create" /\ g.pc = "mode" /\ g.vm = req[r].vm /\ g.net = req[r].net
          /\ g.before = req[r].before /\ g.port = p
      BY <1>0, <2>0 DEF Frame
    <3> HIDE DEF g
    <3>6. Sole(r) => Sole(r)'
      BY <2>0, <3>3, <3>4, <3>5 DEF Sole, rows, UsedIngressHostPorts
    <3> QED
      BY <2>0, <3>2, <3>6, SerialGoto
  <2> QED
    BY <2>1, <2>2
<1>3. CASE CreateRouted(r)
  <2> DEFINE g == [req[r] EXCEPT !.pc = "list_nets_p2p", !.used = UsedGuestIPs]
  <2>0. Busy(r) /\ UNCHANGED <<rows, raced>> /\ req[r].op = "create" /\ req[r].pc = "mode" /\ Goto(r, g)
    BY <1>3 DEF CreateRouted, At, Busy
  <2>1. req'[r] = g
    BY <1>0, <2>0, GotoFrame
  <2>2. /\ g.op = "create" /\ g.pc = "list_nets_p2p" /\ g.vm = req[r].vm /\ g.net = req[r].net
        /\ g.before = req[r].before /\ g.port = req[r].port
    BY <1>0, <2>0 DEF Frame
  <2> HIDE DEF g
  <2>3. Sole(r) => Sole(r)'
    BY <2>0, <2>1, <2>2 DEF Sole, rows, UsedIngressHostPorts
  <2> QED
    BY <2>0, <2>3, SerialGoto
<1>4. CASE allocateP2P(r)
  <2> DEFINE free == FreeBlocks(req[r].used, NetworkCIDRs(nets))
             b == Least(free)
             g == [req[r] EXCEPT !.pc = "write", !.cidr = Slash30(b),
                                 !.host = b + 1, !.guest = b + 2, !.used = {}]
  <2>0. Busy(r) /\ UNCHANGED <<rows, raced>> /\ req[r].op = "create" /\ req[r].pc = "list_nets_p2p"
    BY <1>4 DEF allocateP2P, At, Busy
  <2>1. CASE free = {}
    BY <1>4, <2>0, <2>1, SerialFinish DEF allocateP2P
  <2>2. CASE free # {}
    <3>1. Goto(r, g)
      BY <1>4, <2>2 DEF allocateP2P
    <3>2. b \in Nat /\ b % 4 = 0
      BY <2>2, FreeBlocksType, LeastIn
    <3> HIDE DEF b
    <3>3. Slash30(b + 1) = Slash30(b)
      BY <3>2 DEF Slash30
    <3>4. req'[r] = g
      BY <1>0, <3>1, GotoFrame
    <3>5. /\ g.op = "create" /\ g.pc = "write" /\ g.vm = req[r].vm /\ g.net = req[r].net
          /\ g.before = req[r].before /\ g.port = req[r].port
          /\ g.cidr = Slash30(b) /\ g.host = b + 1
      BY <1>0, <2>0 DEF Frame
    <3> HIDE DEF g
    <3>6. Sole(r) => Sole(r)'
      BY <2>0, <3>3, <3>4, <3>5 DEF Sole, rows, UsedIngressHostPorts
    <3> QED
      BY <2>0, <3>1, <3>6, SerialGoto
  <2> QED
    BY <2>1, <2>2
<1>5. CASE CreateShared(r)
  <2>1. PICK n \in nets : Goto(r, [req[r] EXCEPT !.pc = "list_nets", !.net = n,
                                       !.cidr = net[n].cidr, !.host = net[n].gateway])
    BY <1>5 DEF CreateShared
  <2> DEFINE g == [req[r] EXCEPT !.pc = "list_nets", !.net = n,
                                 !.cidr = net[n].cidr, !.host = net[n].gateway]
  <2>0. Busy(r) /\ UNCHANGED <<rows, raced>> /\ req[r].op = "create" /\ req[r].pc = "mode" /\ Goto(r, g)
    BY <1>5, <2>1 DEF CreateShared, At, Busy
  <2>2. req'[r] = g
    BY <1>0, <2>0, GotoFrame
  <2>3. /\ g.op = "create" /\ g.pc = "list_nets" /\ g.vm = req[r].vm /\ g.net = n
        /\ g.before = req[r].before /\ g.port = req[r].port
    BY <1>0, <2>0 DEF Frame
  <2> HIDE DEF g
  <2>4. Sole(r) => Sole(r)'
    BY <2>0, <2>2, <2>3 DEF Sole, rows, UsedIngressHostPorts
  <2> QED
    BY <2>0, <2>4, SerialGoto
<1>6. CASE CreateUsable(r)
  <2> DEFINE g == [req[r] EXCEPT !.pc = "guest_ips", !.avoid = {}]
  <2>0. Busy(r) /\ UNCHANGED <<rows, raced>> /\ req[r].op = "create" /\ req[r].pc = "list_vms"
    BY <1>6 DEF CreateUsable, At, Busy
  <2>1. CASE Finish(r)
    BY <2>0, <2>1, SerialFinish
  <2>2. CASE Goto(r, g)
    <3>1. req'[r] = g
      BY <1>0, <2>2, GotoFrame
    <3>2. /\ g.op = "create" /\ g.pc = "guest_ips" /\ g.vm = req[r].vm /\ g.net = req[r].net
          /\ g.before = req[r].before /\ g.port = req[r].port
      BY <1>0, <2>0 DEF Frame
    <3> HIDE DEF g
    <3>3. Sole(r) => Sole(r)'
      BY <2>0, <3>1, <3>2 DEF Sole, rows, UsedIngressHostPorts
    <3> QED
      BY <2>0, <2>2, <3>3, SerialGoto
  <2> QED
    BY <1>6, <2>1, <2>2 DEF CreateUsable
<1>7. CASE allocateShared(r)
  <2>0. /\ Busy(r) /\ UNCHANGED <<rows, raced>> /\ req[r].op = "create" /\ req[r].pc = "guest_ips"
        /\ req[r].net \in Nets
    BY <1>7 DEF allocateShared, At, Busy, AllocInv, FrameOK, Placing, SharedPCs
  <2>1. CASE Finish(r)
    BY <2>0, <2>1, SerialFinish
  <2>2. ASSUME NEW a, Goto(r, [req[r] EXCEPT !.pc = "write", !.guest = a])
        PROVE  SerialInv'
    <3> DEFINE g == [req[r] EXCEPT !.pc = "write", !.guest = a]
    <3>1. req'[r] = g
      BY <1>0, <2>2, GotoFrame
    <3>2. /\ g.op = "create" /\ g.pc = "write" /\ g.vm = req[r].vm /\ g.net = req[r].net
          /\ g.before = req[r].before /\ g.port = req[r].port
      BY <1>0, <2>0 DEF Frame
    <3>3. Goto(r, g)
      BY <2>2
    <3> HIDE DEF g
    <3>4. Sole(r) => Sole(r)'
      BY <2>0, <3>1, <3>2, AllocAssumption DEF Sole, rows, UsedIngressHostPorts
    <3> QED
      BY <2>0, <3>3, <3>4, SerialGoto
  <2> QED
    BY <1>7, <2>1, <2>2 DEF allocateShared
<1> QED
  BY <1>1, <1>2, <1>3, <1>4, <1>5, <1>6, <1>7 DEF Create

\* A frame that keeps what Sole is about.
LEMMA SolePlain ==
    ASSUME AllocInv, SerialInv, NEW r \in Requests, Busy(r), NEW g, Goto(r, g),
           UNCHANGED <<rows, raced>>,
           g.op = req[r].op, g.vm = req[r].vm, g.net = req[r].net, g.before = req[r].before,
           g.port = req[r].port, req[r].pc # "host_ports", g.pc # "write"
    PROVE  SerialInv'
<1>1. req'[r] = g
  BY GotoFrame DEF AllocInv
<1>2. Sole(r) => Sole(r)'
  BY <1>1 DEF Sole, rows, UsedIngressHostPorts
<1> QED
  BY <1>2, SerialGoto

LEMMA SerialList ==
    ASSUME AllocInv, SerialInv, NEW r \in Requests, ListNetworks(r)
    PROVE  SerialInv'
<1> DEFINE g == [req[r] EXCEPT !.pc = "list_vms", !.avoid = NetworkCIDRs(nets \ {req[r].net})]
<1>1. /\ req[r] \in Frame /\ Busy(r) /\ UNCHANGED <<rows, raced>> /\ Goto(r, g)
      /\ req[r].pc # "host_ports"
  BY DEF AllocInv, TypeOK, ListNetworks, Busy
<1>2. /\ g.op = req[r].op /\ g.vm = req[r].vm /\ g.net = req[r].net /\ g.before = req[r].before
      /\ g.port = req[r].port /\ g.pc # "write"
  BY <1>1 DEF Frame
<1> HIDE DEF g
<1> QED
  BY <1>1, <1>2, SolePlain

LEMMA SerialStart ==
    ASSUME AllocInv, SerialInv, NEW r \in Requests, Start(r)
    PROVE  SerialInv'
<1>0. TypeOK /\ req[r] \in Frame
  BY DEF AllocInv, TypeOK
<1>1. CASE StartArrive(r)
  <2> DEFINE q(v) == [IdleFrame EXCEPT !.op = "start", !.vm = v, !.net = vm[v].net]
             g(v) == IF v \in Routed
                     THEN [q(v) EXCEPT !.pc = "list_nets", !.cidr = vmRoutedCIDR(v)]
                     ELSE [q(v) EXCEPT !.pc = "mode"]
  <2>1. PICK v \in vms : Arrive(r, g(v))
    BY <1>1 DEF StartArrive
  <2>2. q(v) \in Frame /\ q(v).op = "start"
    <3>1. v \in VMs /\ vm[v].net \in Nets \cup {NoId}
      BY DEF AllocInv, TypeOK, VMRow
    <3> QED
      BY <3>1, IdleType DEF Frame, Ops
  <2>3. g(v) \in Frame /\ g(v).op = "start"
    <3>1. vmRoutedCIDR(v) \in Interval
      BY <1>0, RoutedType
    <3> HIDE DEF q
    <3> QED
      BY <2>2, <3>1 DEF Frame, PCs
  <2> HIDE DEF g
  <2> QED
    BY <2>1, <2>3, SerialArrive
<1>2. CASE StartShared(r)
  <2> DEFINE g == [req[r] EXCEPT !.pc = "list_nets", !.cidr = net[req[r].net].cidr]
  <2>0. Busy(r) /\ UNCHANGED <<rows, raced>> /\ req[r].pc # "host_ports"
    BY <1>2 DEF StartShared, At, Busy
  <2>1. CASE Finish(r)
    BY <2>0, <2>1, SerialFinish
  <2>2. CASE Goto(r, g)
    <3>1. /\ g.op = req[r].op /\ g.vm = req[r].vm /\ g.net = req[r].net /\ g.before = req[r].before
          /\ g.port = req[r].port /\ g.pc # "write"
      BY <1>0 DEF Frame
    <3> HIDE DEF g
    <3> QED
      BY <2>0, <2>2, <3>1, SolePlain
  <2> QED
    BY <1>2, <2>1, <2>2 DEF StartShared
<1>3. CASE StartUsable(r)
  <2> DEFINE g == [req[r] EXCEPT !.pc = "proceed", !.avoid = {}]
  <2>0. Busy(r) /\ UNCHANGED <<rows, raced>> /\ req[r].pc # "host_ports"
    BY <1>3 DEF StartUsable, At, Busy
  <2>1. CASE Finish(r)
    BY <2>0, <2>1, SerialFinish
  <2>2. CASE Goto(r, g)
    <3>1. /\ g.op = req[r].op /\ g.vm = req[r].vm /\ g.net = req[r].net /\ g.before = req[r].before
          /\ g.port = req[r].port /\ g.pc # "write"
      BY <1>0 DEF Frame
    <3> HIDE DEF g
    <3> QED
      BY <2>0, <2>2, <3>1, SolePlain
  <2> QED
    BY <1>3, <2>1, <2>2 DEF StartUsable
<1>4. CASE StartProceed(r)
  BY <1>4, SerialFinish DEF StartProceed, At, Busy
<1> QED
  BY <1>1, <1>2, <1>3, <1>4 DEF Start

LEMMA OverlapSymmetric ==
    ASSUME NEW a \in Interval, NEW b \in Interval
    PROVE  cidrOverlaps(a, b) <=> cidrOverlaps(b, a)
BY DEF cidrOverlaps, Interval

LEMMA OwnerType ==
    ASSUME TypeOK, NEW o \in Owners
    PROVE  OwnerCIDR(o) \in Interval
<1>1. o \in nets => net[o].cidr \in Interval /\ o \in Nets
  BY DEF TypeOK, NetRow
<1>2. o \in Routed /\ o \notin nets => o \in vms /\ o \notin Nets
  BY AllocAssumption DEF Routed, TypeOK
<1> QED
  BY <1>1, <1>2, RoutedType DEF Owners, OwnerCIDR

OwnersTyped == \A o \in Owners : OwnerCIDR(o) \in Interval
LEMMA OwnerTypes == TypeOK => OwnersTyped
BY OwnerType DEF OwnersTyped

\* One more owner, which overlaps none.
LEMMA OneMoreOwner ==
    ASSUME TypeOK, TypeOK', OwnersDisjoint, NEW x, Owners' \subseteq Owners \cup {x},
           \A o \in Owners : o # x => OwnerCIDR(o)' = OwnerCIDR(o),
           x \in Owners' => \A o \in Owners : o # x => ~cidrOverlaps(OwnerCIDR(x)', OwnerCIDR(o))
    PROVE  OwnersDisjoint'
<1> SUFFICES ASSUME NEW o \in Owners', NEW p \in Owners', o # p
             PROVE  ~cidrOverlaps(OwnerCIDR(o)', OwnerCIDR(p)')
  BY DEF OwnersDisjoint, cidrOverlaps
<1>1. CASE o # x /\ p # x
  BY <1>1 DEF OwnersDisjoint
<1>2. CASE o = x
  BY <1>2
<1>3. CASE p = x
  <2>1. ~cidrOverlaps(OwnerCIDR(p)', OwnerCIDR(o)')
    BY <1>3
  <2>2. OwnerCIDR(p)' \in Interval /\ OwnerCIDR(o)' \in Interval
    <3>1. OwnersTyped'
      BY OwnerTypes, PTL
    <3> QED
      BY <3>1 DEF OwnersTyped
  <2> QED
    BY <2>1, <2>2, OverlapSymmetric
<1> QED
  BY <1>1, <1>2, <1>3

LEMMA SerialInsertVM ==
    ASSUME AllocInv, TypeOK', SerialInv, NEW r \in Requests, InsertVM(r)
    PROVE  SerialInv'
<1> SUFFICES ASSUME ~raced' PROVE SerialInv'
  BY DEF SerialInv
<1> DEFINE row == [port |-> req[r].port, net |-> req[r].net,
                   host |-> req[r].host, guest |-> req[r].guest]
<1>0. /\ TypeOK /\ req[r] \in Frame /\ Busy(r) /\ Finish(r) /\ UNCHANGED <<nets, net, rules, rule, raced>>
      /\ req[r].op = "create" /\ req[r].pc = "write" /\ Clear(r)
  BY DEF AllocInv, FrameOK, TypeOK, InsertVM, At, Busy
<1>1. ~raced /\ Alone /\ Consistent /\ Sole(r)
  BY <1>0 DEF SerialInv
<1>2. req'[r] = IdleFrame /\ ~Busy(r)' /\ \A q \in Requests \ {r} : req'[q] = req[q]
  BY <1>0, FinishFrame DEF Busy, IdleFrame
<1>3. CASE UNCHANGED <<vms, vm>>
  BY <1>0, <1>3, SerialFinish DEF rows
<1>4. CASE \E v \in NewVM : vms' = vms \cup {v} /\ vm' = [vm EXCEPT ![v] = row]
  <2>1. PICK v \in NewVM : vms' = vms \cup {v} /\ vm' = [vm EXCEPT ![v] = row]
    BY <1>4
  <2>2. /\ v \in VMs /\ v \notin vms /\ vm'[v] = row /\ \A w \in vms : vm'[w] = vm[w]
        /\ v \notin Nets /\ v \notin nets
    BY <1>0, <2>1, AllocAssumption DEF NewVM, TypeOK
  <2>3. row.port = req[r].port /\ row.net = req[r].net /\ row.host = req[r].host
    OBVIOUS
  <2> HIDE DEF row
  <2>4. OwnersDisjoint'
    <3>1. Owners' \subseteq Owners \cup {v} /\ (v \in Owners' => row.net = NoId)
      BY <1>0, <2>1, <2>2 DEF Owners, Routed
    <3>2. ASSUME NEW o \in Owners, o # v PROVE OwnerCIDR(o)' = OwnerCIDR(o)
      <4>1. o \in nets => o \in Nets
        BY <1>0 DEF TypeOK
      <4>2. o \notin nets => o \in vms
        BY DEF Owners, Routed
      <4> QED
        BY <1>0, <2>2, <4>1, <4>2 DEF OwnerCIDR, vmRoutedCIDR
    <3>3. ASSUME v \in Owners', NEW o \in Owners
          PROVE  ~cidrOverlaps(OwnerCIDR(v)', OwnerCIDR(o))
      <4>1. OwnerCIDR(v)' = req[r].cidr
        BY <1>0, <1>1, <2>2, <2>3, <3>1, <3>3 DEF OwnerCIDR, vmRoutedCIDR, Sole
      <4>2. o \in req[r].before
        BY <1>1 DEF Sole, Owners, Routed
      <4>3. o # req[r].vm /\ o # req[r].net
        <5>1. o \in Nets \cup VMs
          BY <1>0 DEF Owners, Routed, TypeOK
        <5>2. req[r].vm = NoId /\ req[r].net = NoId
          BY <1>0, <1>1, <2>3, <3>1, <3>3 DEF Sole
        <5> QED
          BY <5>1, <5>2, AllocAssumption
      <4> QED
        BY <1>0, <4>1, <4>2, <4>3 DEF Clear, Decided, Lasting
    <3>4. OwnersDisjoint
      BY <1>1 DEF Consistent
    <3> QED
      BY <1>0, <3>1, <3>2, <3>3, <3>4, OneMoreOwner
  <2>5. PortsDisjoint'
    <3>1. row.port \notin UsedIngressHostPorts
      BY <1>0, <1>1, <2>3 DEF Sole
    <3> QED
      BY <1>0, <1>1, <2>1, <2>2, <3>1 DEF PortsDisjoint, Consistent, UsedSSHPorts, UsedIngressHostPorts
  <2>6. RulesHaveVM'
    BY <1>0, <1>1, <2>1 DEF RulesHaveVM, Consistent
  <2>7. VMsHaveNetwork'
    <3>1. row.net # NoId => row.net \in nets
      BY <1>0, <1>1, <2>3 DEF Sole
    <3> QED
      BY <1>0, <1>1, <2>1, <2>2, <3>1 DEF VMsHaveNetwork, Consistent, Routed
  <2> QED
    BY <1>0, <1>1, <1>2, <2>4, <2>5, <2>6, <2>7, StaysAlone DEF Consistent
<1> QED
  BY <1>3, <1>4 DEF InsertVM

LEMMA SerialInsertNetwork ==
    ASSUME AllocInv, TypeOK', SerialInv, NEW r \in Requests, InsertNetwork(r)
    PROVE  SerialInv'
<1> SUFFICES ASSUME ~raced' PROVE SerialInv'
  BY DEF SerialInv
<1> DEFINE row == [cidr |-> req[r].cidr, gateway |-> req[r].host]
<1>0. /\ TypeOK /\ req[r] \in Frame /\ Busy(r) /\ Finish(r) /\ UNCHANGED <<vms, vm, rules, rule, raced>>
      /\ req[r].op = "network" /\ req[r].pc = "write" /\ Clear(r)
  BY DEF AllocInv, FrameOK, TypeOK, InsertNetwork, At, Busy
<1>1. ~raced /\ Alone /\ Consistent /\ Sole(r)
  BY <1>0 DEF SerialInv
<1>2. req'[r] = IdleFrame /\ ~Busy(r)' /\ \A q \in Requests \ {r} : req'[q] = req[q]
  BY <1>0, FinishFrame DEF Busy, IdleFrame
<1>3. CASE UNCHANGED <<nets, net>>
  BY <1>0, <1>3, SerialFinish DEF rows
<1>4. CASE \E n \in NewNet : nets' = nets \cup {n} /\ net' = [net EXCEPT ![n] = row]
  <2>1. PICK n \in NewNet : nets' = nets \cup {n} /\ net' = [net EXCEPT ![n] = row]
    BY <1>4
  <2>2. n \in Nets /\ n \notin nets /\ net'[n].cidr = req[r].cidr /\ \A m \in nets : net'[m] = net[m]
    BY <1>0, <2>1 DEF NewNet, TypeOK
  <2> HIDE DEF row
  <2>4. OwnersDisjoint'
    <3>1. Owners' \subseteq Owners \cup {n}
      BY <1>0, <2>1 DEF Owners, Routed
    <3>2. ASSUME NEW o \in Owners, o # n PROVE OwnerCIDR(o)' = OwnerCIDR(o)
      <4>1. o \in Nets => o \in nets
        BY <1>0, AllocAssumption DEF TypeOK, Owners, Routed
      <4> QED
        BY <1>0, <2>2, <4>1 DEF OwnerCIDR, vmRoutedCIDR
    <3>3. ASSUME NEW o \in Owners
          PROVE  ~cidrOverlaps(OwnerCIDR(n)', OwnerCIDR(o))
      <4>1. OwnerCIDR(n)' = req[r].cidr
        BY <2>2 DEF OwnerCIDR
      <4>2. o \in req[r].before
        BY <1>1 DEF Sole, Owners, Routed
      <4>3. o # req[r].vm /\ o # req[r].net
        <5>1. o \in Nets \cup VMs
          BY <1>0 DEF Owners, Routed, TypeOK
        <5>2. req[r].vm = NoId /\ req[r].net = NoId
          BY <1>0, <1>1 DEF Sole
        <5> QED
          BY <5>1, <5>2, AllocAssumption
      <4> QED
        BY <1>0, <4>1, <4>2, <4>3 DEF Clear, Decided, Lasting
    <3>4. OwnersDisjoint
      BY <1>1 DEF Consistent
    <3> QED
      BY <1>0, <3>1, <3>2, <3>3, <3>4, OneMoreOwner
  <2>5. PortsDisjoint' /\ RulesHaveVM'
    BY <1>0, <1>1 DEF PortsDisjoint, RulesHaveVM, Consistent, UsedSSHPorts, UsedIngressHostPorts
  <2>6. VMsHaveNetwork'
    BY <1>0, <1>1, <2>1 DEF VMsHaveNetwork, Consistent, Routed
  <2> QED
    BY <1>0, <1>1, <1>2, <2>4, <2>5, <2>6, StaysAlone DEF Consistent
<1> QED
  BY <1>3, <1>4 DEF InsertNetwork

\* Fewer owners, and those that are left as they were.
LEMMA FewerOwners ==
    ASSUME OwnersDisjoint, Owners' \subseteq Owners,
           \A o \in Owners' : OwnerCIDR(o)' = OwnerCIDR(o)
    PROVE  OwnersDisjoint'
BY DEF OwnersDisjoint, cidrOverlaps

LEMMA SerialDelete ==
    ASSUME AllocInv, SerialInv, NEW r \in Requests, Delete(r)
    PROVE  SerialInv'
<1> SUFFICES ASSUME ~raced' PROVE SerialInv'
  BY DEF SerialInv
<1>0. TypeOK /\ req[r] \in Frame
  BY DEF AllocInv, TypeOK
<1>1. CASE DeleteArrive(r)
  <2> DEFINE g(v) == [IdleFrame EXCEPT !.op = "delete", !.pc = "delete_rules", !.vm = v]
  <2>1. PICK v \in vms : Arrive(r, g(v))
    BY <1>1 DEF DeleteArrive
  <2>2. g(v) \in Frame
    BY <1>0, IdleType DEF Frame, Ops, PCs, TypeOK
  <2>3. g(v).op = "delete" /\ g(v).pc = "delete_rules"
    BY DEF IdleFrame
  <2> HIDE DEF g
  <2> QED
    BY <2>1, <2>2, <2>3, SerialArrive
<1>2. CASE DeleteRules(r)
  <2> DEFINE gone == {i \in rules : rule[i].vm = req[r].vm}
  <2>1. /\ UNCHANGED <<vms, vm, nets, net, raced>> /\ rules' = rules \ gone
        /\ rule' = [i \in Rules |-> IF i \in gone THEN NoRule ELSE rule[i]]
        /\ req[r].op = "delete" /\ Busy(r)
        /\ req' = [q \in Requests |->
                     [req[q] EXCEPT !.before = @ \ gone, !.pc = IF q = r THEN "write" ELSE @]]
    BY <1>2 DEF DeleteRules, At, Busy
  <2>2. ~raced /\ Alone /\ Consistent /\ Sole(r)
    BY <2>1 DEF SerialInv
  <2>3. \A i \in rules' : i \in rules /\ rule'[i] = rule[i] /\ rule[i].vm # req[r].vm
    BY <1>0, <2>1 DEF TypeOK
  <2>4. gone \subseteq Rules
    BY <1>0 DEF TypeOK
  <2> HIDE DEF gone
  <2>5. /\ req'[r].op = "delete" /\ req'[r].vm = req[r].vm /\ req'[r].before = req[r].before \ gone
        /\ \A q \in Requests \ {r} : req'[q].pc = req[q].pc
    BY <1>0, <2>1 DEF Frame, TypeOK
  <2>6. req'[r].before = (vms \cup nets \cup rules)'
    BY <1>0, <2>1, <2>2, <2>4, <2>5, AllocAssumption DEF Sole, TypeOK
  <2>7. Sole(r)'
    BY <2>3, <2>5, <2>6 DEF Sole
  <2>8. Consistent'
    <3>1. Owners' = Owners /\ \A o : OwnerCIDR(o)' = OwnerCIDR(o)
      BY <2>1 DEF Owners, Routed, OwnerCIDR, vmRoutedCIDR
    <3>2. OwnersDisjoint'
      BY <2>2, <3>1, FewerOwners DEF Consistent
    <3>3. PortsDisjoint'
      <4>1. UsedSSHPorts' = UsedSSHPorts
        BY <2>1 DEF UsedSSHPorts
      <4>2. UsedIngressHostPorts' \subseteq UsedIngressHostPorts
        BY <2>3 DEF UsedIngressHostPorts
      <4> QED
        BY <2>2, <4>1, <4>2 DEF Consistent, PortsDisjoint
    <3>4. RulesHaveVM'
      <4>1. vms' = vms
        BY <2>1
      <4> QED
        BY <2>2, <2>3, <4>1 DEF Consistent, RulesHaveVM
    <3>5. VMsHaveNetwork'
      <4>1. vms' = vms /\ vm' = vm /\ nets' = nets
        BY <2>1
      <4> QED
        BY <2>2, <4>1 DEF Consistent, VMsHaveNetwork, Routed
    <3> QED
      BY <3>2, <3>3, <3>4, <3>5 DEF Consistent
  <2> QED
    BY <2>1, <2>2, <2>5, <2>7, <2>8, StaysAlone
<1>3. CASE DeleteRow(r)
  <2> DEFINE v == req[r].vm
  <2>1. /\ vms' = vms \ {v} /\ FinishAndForget(r, {v}) /\ Busy(r)
        /\ UNCHANGED <<nets, net, rules, rule, raced>>
        /\ \A w \in vms' : vm'[w] = vm[w]
        /\ req[r].op = "delete" /\ req[r].pc = "write"
    BY <1>0, <1>3 DEF DeleteRow, TypeOK, At, Busy
  <2>2. ~raced /\ Alone /\ Consistent /\ Sole(r)
    BY <2>1 DEF SerialInv
  <2>3. ~Busy(r)' /\ \A q \in Requests \ {r} : req'[q].pc = req[q].pc
    BY <2>1, Forgets DEF Busy, IdleFrame, Idles
  <2>4. \A i \in rules : rule[i].vm # v
    BY <2>1, <2>2 DEF Sole
  <2> HIDE DEF v
  <2>5. Consistent'
    <3>1. /\ Owners' \subseteq Owners
          /\ \A o \in Owners' : OwnerCIDR(o)' = OwnerCIDR(o)
      <4>1. Owners' \subseteq Owners
        BY <2>1 DEF Owners, Routed
      <4>2. ASSUME NEW o \in Owners', o \notin Nets PROVE o \in vms'
        BY <1>0, <2>1, <4>2 DEF Owners, Routed, TypeOK
      <4>3. \A o \in Owners' : OwnerCIDR(o)' = OwnerCIDR(o)
        BY <2>1, <4>2 DEF OwnerCIDR, vmRoutedCIDR
      <4> QED
        BY <4>1, <4>3
    <3>2. OwnersDisjoint'
      BY <2>2, <3>1, FewerOwners DEF Consistent
    <3>3. PortsDisjoint' /\ RulesHaveVM' /\ VMsHaveNetwork'
      BY <2>1, <2>2, <2>4 DEF Consistent, PortsDisjoint, RulesHaveVM, VMsHaveNetwork, Routed,
                              UsedSSHPorts, UsedIngressHostPorts
    <3> QED
      BY <3>2, <3>3 DEF Consistent
  <2> QED
    BY <2>1, <2>2, <2>3, <2>5, StaysAlone
<1> QED
  BY <1>1, <1>2, <1>3 DEF Delete

LEMMA SerialIngress ==
    ASSUME AllocInv, SerialInv, NEW r \in Requests, Ingress(r)
    PROVE  SerialInv'
<1> SUFFICES ASSUME ~raced' PROVE SerialInv'
  BY DEF SerialInv
<1>0. TypeOK /\ req[r] \in Frame
  BY DEF AllocInv, TypeOK
<1>1. CASE IngressArrive(r)
  <2> DEFINE g(v) == [IdleFrame EXCEPT !.op = "ingress", !.pc = "check_port", !.vm = v]
  <2>1. PICK v \in vms : Arrive(r, g(v))
    BY <1>1 DEF IngressArrive
  <2>2. g(v) \in Frame
    BY <1>0, IdleType DEF Frame, Ops, PCs, TypeOK
  <2>3. g(v).op = "ingress" /\ g(v).pc = "check_port" /\ g(v).vm = v
    BY DEF IdleFrame
  <2> HIDE DEF g
  <2> QED
    BY <2>1, <2>2, <2>3, SerialArrive
<1>2. CASE IngressPort(r)
  <2>0. Busy(r) /\ UNCHANGED <<rows, raced>> /\ req[r].op = "ingress"
    BY <1>2 DEF IngressPort, At, Busy
  <2>1. CASE Finish(r)
    BY <2>0, <2>1, SerialFinish
  <2>2. ASSUME NEW p, p \notin UsedSSHPorts, Goto(r, [req[r] EXCEPT !.pc = "write", !.port = p])
        PROVE  SerialInv'
    <3> DEFINE g == [req[r] EXCEPT !.pc = "write", !.port = p]
    <3>1. req'[r] = g
      BY <1>0, <2>2, GotoFrame
    <3>2. /\ g.op = "ingress" /\ g.vm = req[r].vm /\ g.net = req[r].net
          /\ g.before = req[r].before /\ g.port = p
      BY <1>0, <2>0 DEF Frame
    <3>3. Goto(r, g)
      BY <2>2
    <3> HIDE DEF g
    <3>4. Sole(r) => Sole(r)'
      BY <2>0, <2>2, <3>1, <3>2 DEF Sole, rows, UsedSSHPorts
    <3> QED
      BY <2>0, <3>3, <3>4, SerialGoto
  <2> QED
    BY <1>2, <2>1, <2>2 DEF IngressPort
<1>3. CASE InsertRule(r)
  <2>1. /\ UNCHANGED <<vms, vm, nets, net, raced>> /\ Finish(r) /\ Busy(r)
        /\ req[r].op = "ingress" /\ req[r].pc = "write"
        /\ \A i \in rules' : \/ i \in rules /\ rule'[i] = rule[i]
                             \/ rule'[i] = [vm |-> req[r].vm, port |-> req[r].port]
    BY <1>0, <1>3 DEF InsertRule, NewRule, TypeOK, At, Busy
  <2>2. ~raced /\ Alone /\ Consistent /\ Sole(r)
    BY <2>1 DEF SerialInv
  <2>3. ~Busy(r)' /\ \A q \in Requests \ {r} : req'[q].pc = req[q].pc
    BY <1>0, <2>1, FinishFrame DEF Busy, IdleFrame
  <2>4. req[r].vm \in vms /\ req[r].port \notin UsedSSHPorts
    BY <2>1, <2>2 DEF Sole
  <2>5. Consistent'
    <3>1. Owners' = Owners /\ \A o : OwnerCIDR(o)' = OwnerCIDR(o)
      BY <2>1 DEF Owners, Routed, OwnerCIDR, vmRoutedCIDR
    <3>2. OwnersDisjoint'
      BY <2>2, <3>1, FewerOwners DEF Consistent
    <3>3. RulesHaveVM' /\ VMsHaveNetwork'
      BY <2>1, <2>2, <2>4 DEF Consistent, RulesHaveVM, VMsHaveNetwork, Routed
    <3>4. PortsDisjoint'
      BY <2>1, <2>2, <2>4 DEF Consistent, PortsDisjoint, UsedSSHPorts, UsedIngressHostPorts
    <3> QED
      BY <3>2, <3>3, <3>4 DEF Consistent
  <2> QED
    BY <2>1, <2>2, <2>3, <2>5, StaysAlone
<1>4. CASE UnruleArrive(r)
  <2> DEFINE g(v, i) == [IdleFrame EXCEPT !.op = "unrule", !.pc = "write", !.vm = v, !.rule = i]
  <2>1. PICK v \in vms, i \in rules : Arrive(r, g(v, i))
    BY <1>4 DEF UnruleArrive
  <2>2. g(v, i) \in Frame
    BY <1>0, IdleType DEF Frame, Ops, PCs, TypeOK
  <2>3. g(v, i).op = "unrule"
    BY DEF IdleFrame
  <2> HIDE DEF g
  <2> QED
    BY <2>1, <2>2, <2>3, SerialArrive
<1>5. CASE DeleteRule(r)
  <2> DEFINE gone == {i \in rules : i = req[r].rule /\ rule[i].vm = req[r].vm}
  <2>1. /\ UNCHANGED <<vms, vm, nets, net, raced>> /\ FinishAndForget(r, gone) /\ Busy(r)
        /\ rules' = rules \ gone
        /\ rule' = [i \in Rules |-> IF i \in gone THEN NoRule ELSE rule[i]]
    BY <1>5 DEF DeleteRule, At, Busy
  <2> HIDE DEF gone
  <2>2. ~raced /\ Alone /\ Consistent
    BY <2>1 DEF SerialInv
  <2>3. ~Busy(r)' /\ \A q \in Requests \ {r} : req'[q].pc = req[q].pc
    BY <2>1, Forgets DEF Busy, IdleFrame, Idles
  <2>4. \A i \in rules' : i \in rules /\ rule'[i] = rule[i]
    BY <1>0, <2>1 DEF TypeOK
  <2>5. Consistent'
    <3>1. Owners' = Owners /\ \A o : OwnerCIDR(o)' = OwnerCIDR(o)
      BY <2>1 DEF Owners, Routed, OwnerCIDR, vmRoutedCIDR
    <3>2. OwnersDisjoint'
      BY <2>2, <3>1, FewerOwners DEF Consistent
    <3>3. PortsDisjoint' /\ RulesHaveVM' /\ VMsHaveNetwork'
      BY <2>1, <2>2, <2>4 DEF Consistent, PortsDisjoint, RulesHaveVM, VMsHaveNetwork, Routed,
                              UsedSSHPorts, UsedIngressHostPorts
    <3> QED
      BY <3>2, <3>3 DEF Consistent
  <2> QED
    BY <2>1, <2>2, <2>3, <2>5, StaysAlone
<1> QED
  BY <1>1, <1>2, <1>3, <1>4, <1>5 DEF Ingress

LEMMA SerialNetwork ==
    ASSUME AllocInv, TypeOK', SerialInv, NEW r \in Requests, Network(r)
    PROVE  SerialInv'
<1> SUFFICES ASSUME ~raced' PROVE SerialInv'
  BY DEF SerialInv
<1>0. TypeOK /\ req[r] \in Frame
  BY DEF AllocInv, TypeOK
<1>1. CASE NetworkArrive(r)
  <2> DEFINE g == [IdleFrame EXCEPT !.op = "network", !.pc = "list_vms", !.avoid = NetworkCIDRs(nets)]
  <2>1. g \in Frame
    <3>1. NetworkCIDRs(nets) \in SUBSET Interval
      BY <1>0, UsedType
    <3> QED
      BY <3>1, IdleType DEF Frame, Ops, PCs
  <2>2. g.op = "network" /\ g.net = NoId /\ g.vm = NoId
    BY DEF IdleFrame
  <2>3. Arrive(r, g)
    BY <1>1 DEF NetworkArrive
  <2> HIDE DEF g
  <2> QED
    BY <2>1, <2>2, <2>3, SerialArrive
<1>2. CASE NetworkCheck(r)
  <2>0. Busy(r) /\ UNCHANGED <<rows, raced>> /\ req[r].op = "network"
    BY <1>2 DEF NetworkCheck, At, Busy
  <2>1. CASE Finish(r)
    BY <2>0, <2>1, SerialFinish
  <2>2. ASSUME NEW c, NEW h,
               Goto(r, [req[r] EXCEPT !.pc = "write", !.cidr = c, !.host = h, !.avoid = {}])
        PROVE  SerialInv'
    <3> DEFINE g == [req[r] EXCEPT !.pc = "write", !.cidr = c, !.host = h, !.avoid = {}]
    <3>1. req'[r] = g
      BY <1>0, <2>2, GotoFrame
    <3>2. g.op = "network" /\ g.vm = req[r].vm /\ g.net = req[r].net /\ g.before = req[r].before
      BY <1>0, <2>0 DEF Frame
    <3>3. Goto(r, g)
      BY <2>2
    <3> HIDE DEF g
    <3>4. Sole(r) => Sole(r)'
      BY <2>0, <3>1, <3>2 DEF Sole, rows
    <3> QED
      BY <2>0, <3>3, <3>4, SerialGoto
  <2> QED
    BY <1>2, <2>1, <2>2 DEF NetworkCheck
<1>3. CASE InsertNetwork(r)
  BY <1>3, SerialInsertNetwork
<1>4. CASE UnnetArrive(r)
  <2> DEFINE g(n) == [IdleFrame EXCEPT !.op = "unnet", !.pc = "count", !.net = n]
  <2>1. PICK n \in nets : Arrive(r, g(n))
    BY <1>4 DEF UnnetArrive
  <2>2. g(n) \in Frame
    BY <1>0, IdleType DEF Frame, Ops, PCs, TypeOK
  <2>3. g(n).op = "unnet" /\ g(n).pc = "count"
    BY DEF IdleFrame
  <2> HIDE DEF g
  <2> QED
    BY <2>1, <2>2, <2>3, SerialArrive
<1>5. CASE CountVMs(r)
  <2> DEFINE g == [req[r] EXCEPT !.pc = "write"]
  <2>0. Busy(r) /\ UNCHANGED <<rows, raced>> /\ req[r].op = "unnet"
    BY <1>5 DEF CountVMs, At, Busy
  <2>1. CASE Finish(r)
    BY <2>0, <2>1, SerialFinish
  <2>2. CASE (\A v \in vms : vm[v].net # req[r].net) /\ Goto(r, g)
    <3>1. req'[r] = g
      BY <1>0, <2>2, GotoFrame
    <3>2. g.op = "unnet" /\ g.vm = req[r].vm /\ g.net = req[r].net /\ g.before = req[r].before
      BY <1>0, <2>0 DEF Frame
    <3>3. Goto(r, g)
      BY <2>2
    <3> HIDE DEF g
    <3>4. Sole(r) => Sole(r)'
      BY <2>0, <2>2, <3>1, <3>2 DEF Sole, rows
    <3> QED
      BY <2>0, <3>3, <3>4, SerialGoto
  <2> QED
    BY <1>5, <2>1, <2>2 DEF CountVMs
<1>6. CASE DeleteNetwork(r)
  <2> DEFINE n == req[r].net
  <2>1. /\ nets' = nets \ {n} /\ FinishAndForget(r, {n}) /\ Busy(r)
        /\ UNCHANGED <<vms, vm, rules, rule, raced>>
        /\ \A m \in nets' : net'[m] = net[m]
        /\ req[r].op = "unnet" /\ req[r].pc = "write"
    BY <1>0, <1>6 DEF DeleteNetwork, TypeOK, At, Busy
  <2>2. ~raced /\ Alone /\ Consistent /\ Sole(r)
    BY <2>1 DEF SerialInv
  <2>3. ~Busy(r)' /\ \A q \in Requests \ {r} : req'[q].pc = req[q].pc
    BY <2>1, Forgets DEF Busy, IdleFrame, Idles
  <2>4. \A v \in vms : vm[v].net # n
    BY <2>1, <2>2 DEF Sole
  <2> HIDE DEF n
  <2>5. Consistent'
    <3>1. /\ Owners' \subseteq Owners
          /\ \A o \in Owners' : OwnerCIDR(o)' = OwnerCIDR(o)
      <4>1. Owners' \subseteq Owners
        BY <2>1 DEF Owners, Routed
      <4>2. ASSUME NEW o \in Owners', o \in Nets PROVE o \in nets'
        BY <1>0, <2>1, <4>2, AllocAssumption DEF Owners, Routed, TypeOK
      <4>3. \A o \in Owners' : OwnerCIDR(o)' = OwnerCIDR(o)
        BY <2>1, <4>2 DEF OwnerCIDR, vmRoutedCIDR
      <4> QED
        BY <4>1, <4>3
    <3>2. OwnersDisjoint'
      BY <2>2, <3>1, FewerOwners DEF Consistent
    <3>3. PortsDisjoint' /\ RulesHaveVM' /\ VMsHaveNetwork'
      BY <2>1, <2>2, <2>4 DEF Consistent, PortsDisjoint, RulesHaveVM, VMsHaveNetwork, Routed,
                              UsedSSHPorts, UsedIngressHostPorts
    <3> QED
      BY <3>2, <3>3 DEF Consistent
  <2> QED
    BY <2>1, <2>2, <2>3, <2>5, StaysAlone
<1> QED
  BY <1>1, <1>2, <1>3, <1>4, <1>5, <1>6 DEF Network

LEMMA SerialStep == AllocInv /\ AllocInv' /\ SerialInv /\ [Next]_vars => SerialInv'
<1> SUFFICES ASSUME AllocInv, AllocInv', SerialInv, [Next]_vars PROVE SerialInv'
  OBVIOUS
<1>0. TypeOK'
  BY DEF AllocInv
<1>1. CASE UNCHANGED vars
  <2> SUFFICES ASSUME ~raced' PROVE SerialInv'
    BY DEF SerialInv
  <2>1. UNCHANGED rows /\ req' = req /\ ~raced
    BY <1>1 DEF vars, rows
  <2>2. Consistent'
    BY <2>1, ConsistentStays DEF SerialInv
  <2>3. \A r \in Requests : (Busy(r)' <=> Busy(r)) /\ (Sole(r) => Sole(r)')
    BY <2>1 DEF Busy, Sole, rows, UsedSSHPorts, UsedIngressHostPorts
  <2> QED
    BY <2>1, <2>2, <2>3 DEF SerialInv, Alone
<1>2. ASSUME NEW r \in Requests, Create(r) PROVE SerialInv'
  BY <1>0, <1>2, SerialCreate, SerialInsertVM
<1>3. ASSUME NEW r \in Requests, Fail(r) PROVE SerialInv'
  BY <1>3, SerialFinish DEF Fail, Busy, rows
<1> QED
  BY <1>0, <1>1, <1>2, <1>3, SerialStart, SerialDelete, SerialIngress, SerialNetwork, SerialList
     DEF Next

LEMMA SerialInit == Init => SerialInv
<1> SUFFICES ASSUME Init PROVE SerialInv
  OBVIOUS
<1>1. \A r \in Requests : ~Busy(r)
  BY DEF Init, Busy, IdleFrame
<1>2. Consistent
  BY DEF Init, Consistent, OwnersDisjoint, PortsDisjoint, RulesHaveVM, VMsHaveNetwork,
         Owners, Routed, UsedSSHPorts, UsedIngressHostPorts
<1> QED
  BY <1>1, <1>2 DEF SerialInv, Alone

LEMMA SerialInvariant == Spec => []SerialInv
BY AllocInvariant, SerialInit, SerialStep, PTL DEF Spec

\* As long as no two requests overlap in time, no two networks or routed VMs
\* share an address, no VM's SSH port is a rule's, no rule outlives its VM and
\* no VM its network.
THEOREM SerialAllocationsSound == Spec => []SerialSound
<1>1. SerialInv => SerialSound
  BY DEF SerialInv, SerialSound
<1> QED
  BY <1>1, SerialInvariant, PTL

\* A block of vm_cidr that is free overlaps nothing that holds addresses.
LEMMA FreeIsFree ==
    ASSUME AllocInv, NEW b \in FreeBlocks(UsedGuestIPs, NetworkCIDRs(nets)), NEW o \in Owners
    PROVE  ~cidrOverlaps([first |-> b, last |-> b + 3], OwnerCIDR(o))
<1>1. /\ b \in Nat /\ b % 4 = 0 /\ b + 2 \notin UsedGuestIPs
      /\ \A c \in NetworkCIDRs(nets) : ~cidrOverlaps(Slash30(b), c)
  BY FreeBlocksType
<1>2. Slash30(b) = [first |-> b, last |-> b + 3]
  BY <1>1 DEF Slash30
<1>3. CASE o \in nets
  <2>1. OwnerCIDR(o) \in NetworkCIDRs(nets)
    BY <1>3 DEF OwnerCIDR, NetworkCIDRs, AllocInv, TypeOK
  <2> QED
    BY <1>1, <1>2, <2>1
<1>4. CASE o \in Routed /\ o \notin nets
  <2>1. o \in vms /\ o \notin Nets /\ vm[o].host \in Nat /\ vm[o].guest \in Nat
    BY <1>4, AllocAssumption DEF Routed, AllocInv, TypeOK, VMRow
  <2>2. Aligned(vm[o].host, vm[o].guest)
    BY <1>4 DEF AllocInv, RowsAligned
  <2> DEFINE a == vm[o].guest - 2
  <2>3. OwnerCIDR(o) = [first |-> a, last |-> vm[o].guest + 1] /\ a % 4 = 0
    BY <2>1, <2>2, AlignedBlock DEF OwnerCIDR, vmRoutedCIDR
  <2>4. a \in Int /\ vm[o].guest + 1 = a + 3 /\ a # b
    BY <1>1, <2>1 DEF UsedGuestIPs
  <2> HIDE DEF a
  <2> QED
    BY <1>1, <2>3, <2>4, BlocksDisjoint
<1> QED
  BY <1>3, <1>4 DEF Owners

\* A block of vm_cidr that is not free overlaps something that holds addresses.
LEMMA TakenIsTaken ==
    ASSUME AllocInv, VMsHaveNetwork, NEW b \in Nat, b % 4 = 0, b + 3 < Size,
           b \notin FreeBlocks(UsedGuestIPs, NetworkCIDRs(nets))
    PROVE  \E o \in Owners : cidrOverlaps([first |-> b, last |-> b + 3], OwnerCIDR(o))
<1>1. Slash30(b) = [first |-> b, last |-> b + 3]
  BY DEF Slash30
<1>2. b \in {o \in 0..Size-1 : o % 4 = 0 /\ o + 3 < Size}
  BY AllocAssumption
<1>3. b + 2 \in UsedGuestIPs \/ \E c \in NetworkCIDRs(nets) : cidrOverlaps(Slash30(b), c)
  BY <1>2 DEF FreeBlocks
<1>4. CASE \E c \in NetworkCIDRs(nets) : cidrOverlaps(Slash30(b), c)
  <2>1. PICK n \in nets : cidrOverlaps(Slash30(b), net[n].cidr)
    BY <1>4 DEF NetworkCIDRs
  <2>2. n \in Owners /\ OwnerCIDR(n) = net[n].cidr
    BY <2>1 DEF Owners, OwnerCIDR, AllocInv, TypeOK
  <2> QED
    BY <1>1, <2>1, <2>2
<1>5. CASE b + 2 \in UsedGuestIPs
  <2>1. PICK v \in vms : vm[v].guest = b + 2
    BY <1>5 DEF UsedGuestIPs
  <2>2. v \in VMs /\ v \notin Nets /\ vm[v].host \in Nat
    BY AllocAssumption DEF AllocInv, TypeOK, VMRow
  <2>3. CASE v \in Routed
    <3>1. Aligned(vm[v].host, b + 2)
      BY <2>1, <2>3 DEF AllocInv, RowsAligned
    <3>2. OwnerCIDR(v) = [first |-> b + 2 - 2, last |-> b + 2 + 1]
      BY <2>2, <3>1, AlignedBlock DEF OwnerCIDR, vmRoutedCIDR
    <3> QED
      BY <2>3, <3>2 DEF Owners, cidrOverlaps
  <2>4. CASE v \notin Routed
    <3>1. vm[v].net \in nets
      BY <2>4 DEF VMsHaveNetwork
    <3>2. vm[v].net \in Owners /\ OwnerCIDR(vm[v].net) = net[vm[v].net].cidr
      BY <3>1 DEF Owners, OwnerCIDR, AllocInv, TypeOK
    <3>3. net[vm[v].net].cidr.first < b + 2 /\ b + 2 < net[vm[v].net].cidr.last
      BY <2>1, <3>1 DEF AllocInv, GuestUsable
    <3>4. net[vm[v].net].cidr.first \in Nat /\ net[vm[v].net].cidr.last \in Nat
      BY <3>1 DEF AllocInv, TypeOK, NetRow, Interval
    <3>5. cidrOverlaps([first |-> b, last |-> b + 3], net[vm[v].net].cidr)
      BY <3>3, <3>4 DEF cidrOverlaps
    <3> QED
      BY <3>2, <3>5
  <2> QED
    BY <2>3, <2>4
<1> QED
  BY <1>3, <1>4, <1>5

\* The blocks of vm_cidr are the multiples of four that leave room for three more.
LEMMA BlockNumbers ==
    /\ \A k \in 0..(Size \div 4) - 1 : 4*k \in Nat /\ (4*k) % 4 = 0 /\ 4*k + 3 < Size
    /\ \A b \in Nat : b % 4 = 0 /\ b + 3 < Size => \E k \in 0..(Size \div 4) - 1 : b = 4*k
<1>0. Size \in Nat /\ Size \div 4 \in Nat /\ 4 * (Size \div 4) <= Size /\ Size < 4 * (Size \div 4) + 4
  BY AllocAssumption
<1>1. ASSUME NEW k \in 0..(Size \div 4) - 1
      PROVE  4*k \in Nat /\ (4*k) % 4 = 0 /\ 4*k + 3 < Size
  BY <1>0
<1>2. ASSUME NEW b \in Nat, b % 4 = 0, b + 3 < Size
      PROVE  \E k \in 0..(Size \div 4) - 1 : b = 4*k
  <2>1. b = 4 * (b \div 4) /\ b \div 4 \in Nat
    BY <1>2
  <2>2. b \div 4 <= (Size \div 4) - 1
    BY <1>0, <1>2, <2>1
  <2> QED
    BY <1>0, <2>1, <2>2
<1> QED
  BY <1>1, <1>2

\* As long as no two requests overlap in time, allocateP2P finds a /30 exactly
\* when one is left in vm_cidr.
THEOREM RoomAlwaysFound == Spec => []RoomFound
<1>1. AllocInv /\ SerialInv => RoomFound
  <2> SUFFICES ASSUME AllocInv, VMsHaveNetwork
               PROVE  FreeBlocks(UsedGuestIPs, NetworkCIDRs(nets)) = {}
                      <=> \A k \in 0..(Size \div 4) - 1 :
                            \E o \in Owners :
                              cidrOverlaps([first |-> 4*k, last |-> 4*k + 3], OwnerCIDR(o))
    BY DEF SerialInv, Consistent, RoomFound
  <2>1. ASSUME FreeBlocks(UsedGuestIPs, NetworkCIDRs(nets)) = {}, NEW k \in 0..(Size \div 4) - 1
        PROVE  \E o \in Owners : cidrOverlaps([first |-> 4*k, last |-> 4*k + 3], OwnerCIDR(o))
    BY <2>1, BlockNumbers, TakenIsTaken
  <2>2. ASSUME NEW b \in FreeBlocks(UsedGuestIPs, NetworkCIDRs(nets))
        PROVE  \E k \in 0..(Size \div 4) - 1 : \A o \in Owners :
                  ~cidrOverlaps([first |-> 4*k, last |-> 4*k + 3], OwnerCIDR(o))
    <3>1. b \in Nat /\ b % 4 = 0 /\ b + 3 < Size
      BY FreeBlocksType
    <3>2. PICK k \in 0..(Size \div 4) - 1 : b = 4*k
      BY <3>1, BlockNumbers
    <3>3. \A o \in Owners : ~cidrOverlaps([first |-> b, last |-> b + 3], OwnerCIDR(o))
      BY FreeIsFree
    <3> QED
      BY <3>2, <3>3
  <2> QED
    BY <2>1, <2>2
<1> QED
  BY <1>1, AllocInvariant, SerialInvariant, PTL

=============================================================================
