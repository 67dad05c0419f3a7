----------------------------- MODULE Allocation -----------------------------
(***************************************************************************)
(* Ports and addresses: what CreateVM, AddIngressRule and CreateNetwork     *)
(* take from the host, what DeleteVM, DeleteIngressRule and DeleteNetwork   *)
(* give back, and the check of StartVM that a VM's network is usable.       *)
(*                                                                         *)
(* The tables vms, networks and ingress_rules are read and written one      *)
(* statement at a time, through one connection and without a transaction.   *)
(* Every handler reads first, decides in memory and writes last, in CreateVM *)
(* seconds later; UNIQUE columns are all that the database adds.            *)
(*                                                                         *)
(* Addresses are offsets from the base of vm_cidr, a CIDR is the interval   *)
(* of its addresses.  An input of a request is chosen at the step that      *)
(* first looks at it.  vm_cidr and ssh_port_range do not change.            *)
(***************************************************************************)
EXTENDS Integers, FiniteSets

CONSTANTS
    VMs, Nets, Rules,   \* ids that random.Hex may draw
    NoId,               \* no id
    Requests,           \* handler goroutines
    Size,               \* addresses in network.vm_cidr
    CIDRs, Gateways,    \* what clients ask for as a shared network
    SSHFirst, SSHLast,  \* network.ssh_port_range
    HostPorts           \* what clients ask for as host_port or ssh_port

ASSUME AllocAssumption ==
    /\ NoId \notin VMs \cup Nets \cup Rules
    /\ VMs \cap Nets = {} /\ VMs \cap Rules = {} /\ Nets \cap Rules = {}
    /\ Size \in Nat
    /\ CIDRs \subseteq {c \in [first : Nat, last : Nat] : c.first <= c.last}
    /\ Gateways \subseteq Nat
    /\ SSHFirst \in Nat \ {0} /\ SSHLast \in Nat
    /\ HostPorts \subseteq Nat \ {0}

VARIABLES
    vms, vm,      \* the rows of vms: which there are, and their columns
    nets, net,    \* the rows of networks
    rules, rule,  \* the rows of ingress_rules
    req,          \* the frame of each handler
    raced         \* history: two handlers have been at work at once

vars == <<vms, vm, nets, net, rules, rule, req, raced>>
rows == <<vms, vm, nets, net, rules, rule>>

-----------------------------------------------------------------------------
(* CIDRs.                                                                  *)

Interval == [first : Nat, last : Nat]
NoCIDR == [first |-> 0, last |-> 0]

cidrOverlaps(a, b) == a.first <= b.last /\ b.first <= a.last
cidrWithin(c) == c.last < Size

\* Mutant: the block before the one the mask gives.
Slash30Before(a) == LET b == a - (a % 4) IN [first |-> b - 4, last |-> b - 1]

\* The /30 around an address: the address under the mask, and three more.
Slash30(a) == LET b == a - (a % 4) IN [first |-> b, last |-> b + 3]

-----------------------------------------------------------------------------
(* Rows.  A network_id on a routed_ptp VM only makes CountVMs refuse: Fail. *)

VMRow == [port : Nat, net : Nets \cup {NoId}, host : Nat, guest : Nat]
NetRow == [cidr : Interval, gateway : Nat]
RuleRow == [vm : VMs \cup {NoId}, port : Nat]
NoVM == [port |-> 0, net |-> NoId, host |-> 0, guest |-> 0]
NoNet == [cidr |-> NoCIDR, gateway |-> 0]
NoRule == [vm |-> NoId, port |-> 0]

Routed == {v \in vms : vm[v].net = NoId}
vmRoutedCIDR(v) == Slash30(vm[v].host)

UsedSSHPorts == {vm[v].port : v \in vms}
UsedIngressHostPorts == {rule[i].port : i \in rules}
UsedGuestIPs == {vm[v].guest : v \in vms}
NetworkCIDRs(ns) == {net[n].cidr : n \in ns}

\* networkCIDROwners: what holds addresses, and which.
Owners == nets \cup Routed
OwnerCIDR(o) == IF o \in Nets THEN net[o].cidr ELSE vmRoutedCIDR(o)

-----------------------------------------------------------------------------
(* The frame of a handler.                                                 *)

Ops == {"none", "create", "delete", "ingress", "unrule", "network", "unnet", "start"}
PCs == {"idle", "host_ports", "mode", "list_nets_p2p", "list_nets", "list_vms",
        "guest_ips", "check_port", "count", "delete_rules", "write", "proceed"}

Frame == [op : Ops, pc : PCs, vm : VMs \cup {NoId}, net : Nets \cup {NoId},
          rule : Rules \cup {NoId}, port : Nat, cidr : Interval, host : Nat, guest : Nat,
          used : SUBSET Nat, avoid : SUBSET Interval,
          before : SUBSET (VMs \cup Nets \cup Rules)]

IdleFrame == [op |-> "none", pc |-> "idle", vm |-> NoId, net |-> NoId, rule |-> NoId,
              port |-> 0, cidr |-> NoCIDR, host |-> 0, guest |-> 0,
              used |-> {}, avoid |-> {}, before |-> {}]

TypeOK ==
    /\ vms \subseteq VMs /\ nets \subseteq Nets /\ rules \subseteq Rules
    /\ vm \in [VMs -> VMRow] /\ net \in [Nets -> NetRow] /\ rule \in [Rules -> RuleRow]
    /\ req \in [Requests -> Frame]
    /\ raced \in BOOLEAN

Init ==
    /\ vms = {} /\ nets = {} /\ rules = {}
    /\ vm = [v \in VMs |-> NoVM]
    /\ net = [n \in Nets |-> NoNet]
    /\ rule = [i \in Rules |-> NoRule]
    /\ req = [r \in Requests |-> IdleFrame]
    /\ raced = FALSE

\* random.Hex: an id that no row and no handler knows.
NewVM == {v \in VMs \ vms : /\ \A q \in Requests : req[q].vm # v
                            /\ \A i \in rules : rule[i].vm # v}
NewNet == {n \in Nets \ nets : /\ \A q \in Requests : req[q].net # n
                               /\ \A v \in vms : vm[v].net # n}
NewRule == {i \in Rules \ rules : \A q \in Requests : req[q].rule # i}

\* A request arrives; frame g is what its first statement leaves.
Arrive(r, g) ==
    /\ req[r].pc = "idle"
    /\ req' = [req EXCEPT ![r] = [g EXCEPT !.before = vms \cup nets \cup rules]]
    /\ raced' = (raced \/ \E q \in Requests \ {r} : req[q].pc # "idle")
    /\ UNCHANGED rows

At(r, op, pc) == req[r].op = op /\ req[r].pc = pc
Goto(r, g) == req' = [req EXCEPT ![r] = g]
Finish(r) == req' = [req EXCEPT ![r] = IdleFrame]

\* The request ends, and row x with it: no request knows it any more as one
\* that has been there since before it arrived.
FinishAndForget(r, gone) ==
    req' = [q \in Requests |->
              IF q = r THEN IdleFrame ELSE [req[q] EXCEPT !.before = @ \ gone]]

\* The client went away, or a statement or a host command failed.
Fail(r) ==
    /\ req[r].pc # "idle"
    /\ Finish(r)
    /\ UNCHANGED <<vms, vm, nets, net, rules, rule, raced>>

Least(S) == CHOOSE x \in S : \A y \in S : x <= y

-----------------------------------------------------------------------------
(* CreateVM: a port, then an address, then the row.                         *)

CreateArrive(r) ==
    Arrive(r, [IdleFrame EXCEPT !.op = "create", !.pc = "host_ports", !.used = UsedSSHPorts])

\* Mutant: the ingress rules' ports are not asked for.
CreatePortBlind(r) ==
    /\ At(r, "create", "host_ports")
    /\ \E asked \in HostPorts \cup {0}, open \in SUBSET (SSHFirst..SSHLast) :
         LET free == {p \in SSHFirst..SSHLast : p \notin req[r].used \cup open /\ asked \in {0, p}}
         IN IF free = {} THEN Finish(r)
            ELSE Goto(r, [req[r] EXCEPT !.pc = "mode", !.port = Least(free), !.used = {}])
    /\ UNCHANGED <<rows, raced>>

\* allocatePort.  A port somebody listens on (portOpen) is no use either.
CreatePort(r) ==
    /\ At(r, "create", "host_ports")
    /\ \E asked \in HostPorts \cup {0}, open \in SUBSET (SSHFirst..SSHLast) :
         LET taken == req[r].used \cup UsedIngressHostPorts \cup open
             free == {p \in SSHFirst..SSHLast : p \notin taken /\ asked \in {0, p}}
         IN IF free = {} THEN Finish(r)
            ELSE Goto(r, [req[r] EXCEPT !.pc = "mode", !.port = Least(free), !.used = {}])
    /\ UNCHANGED <<rows, raced>>

CreateRouted(r) ==
    /\ At(r, "create", "mode")
    /\ Goto(r, [req[r] EXCEPT !.pc = "list_nets_p2p", !.used = UsedGuestIPs])
    /\ UNCHANGED <<rows, raced>>

\* Mutants: every address may begin a block; the last block is left out.
FreeBlocksUnaligned(used, avoid) ==
    {b \in 0..Size-4 : b + 2 \notin used /\ \A c \in avoid : ~cidrOverlaps(Slash30(b), c)}
FreeBlocksShort(used, avoid) ==
    {b \in {o \in 0..Size-1 : o % 4 = 0 /\ o + 4 < Size} :
        b + 2 \notin used /\ \A c \in avoid : ~cidrOverlaps(Slash30(b), c)}

\* The /30 blocks of vm_cidr that allocateP2P finds free.
FreeBlocks(used, avoid) ==
    {b \in {o \in 0..Size-1 : o % 4 = 0 /\ o + 3 < Size} :
        b + 2 \notin used /\ \A c \in avoid : ~cidrOverlaps(Slash30(b), c)}

allocateP2P(r) ==
    /\ At(r, "create", "list_nets_p2p")
    /\ LET free == FreeBlocks(req[r].used, NetworkCIDRs(nets))
           b == Least(free)
       IN IF free = {} THEN Finish(r)
          ELSE Goto(r, [req[r] EXCEPT !.pc = "write", !.cidr = Slash30(b),
                                      !.host = b + 1, !.guest = b + 2, !.used = {}])
    /\ UNCHANGED <<rows, raced>>

\* shared_bridge: the network is read first; one that is not there is refused.
CreateShared(r) ==
    /\ At(r, "create", "mode")
    /\ \E n \in nets :
         Goto(r, [req[r] EXCEPT !.pc = "list_nets", !.net = n,
                                !.cidr = net[n].cidr, !.host = net[n].gateway])
    /\ UNCHANGED <<rows, raced>>

\* Mutant: the last address of the network is given away as well.
allocateSharedLast(r) ==
    /\ At(r, "create", "guest_ips")
    /\ LET c == req[r].cidr
           free == {a \in (c.first + 1)..c.last :
                      a # req[r].host /\ a \notin UsedGuestIPs}
       IN IF free = {} THEN Finish(r)
          ELSE Goto(r, [req[r] EXCEPT !.pc = "write", !.guest = Least(free)])
    /\ UNCHANGED <<rows, raced>>

allocateShared(r) ==
    /\ At(r, "create", "guest_ips")
    /\ LET c == req[r].cidr
           free == {a \in (c.first + 1)..(c.last - 1) :
                      a # req[r].host /\ a \notin UsedGuestIPs}
       IN IF free = {} THEN Finish(r)
          ELSE Goto(r, [req[r] EXCEPT !.pc = "write", !.guest = Least(free)])
    /\ UNCHANGED <<rows, raced>>

\* INSERT, after the rootfs was copied; ssh_port and guest_ip are UNIQUE.
InsertVM(r) ==
    LET q == req[r]
    IN /\ At(r, "create", "write")
       /\ IF q.port \in UsedSSHPorts \/ q.guest \in UsedGuestIPs
          THEN UNCHANGED <<vms, vm>>
          ELSE \E v \in NewVM :
                 /\ vms' = vms \cup {v}
                 /\ vm' = [vm EXCEPT ![v] = [port |-> q.port, net |-> q.net,
                                             host |-> q.host, guest |-> q.guest]]
       /\ Finish(r)
       /\ UNCHANGED <<nets, net, rules, rule, raced>>

-----------------------------------------------------------------------------
(* findCIDROverlap, for CreateVM in a shared network, StartVM, CreateNetwork *)
(* (there the first statement, see NetworkArrive): two reads, then a verdict. *)

ListNetworks(r) ==
    /\ req[r].pc = "list_nets"
    /\ Goto(r, [req[r] EXCEPT !.pc = "list_vms", !.avoid = NetworkCIDRs(nets \ {req[r].net})])
    /\ UNCHANGED <<rows, raced>>

\* Mutant: routed VMs are not looked at.
TakenByNetworks(r) == req[r].avoid

\* What the rows that were read hold, but for the VM that asks.
Taken(r) == req[r].avoid \cup {vmRoutedCIDR(v) : v \in Routed \ {req[r].vm}}
Conflict(r, c) == \E t \in Taken(r) : cidrOverlaps(c, t)

CreateUsable(r) ==
    /\ At(r, "create", "list_vms")
    /\ IF Conflict(r, req[r].cidr) THEN Finish(r)
       ELSE Goto(r, [req[r] EXCEPT !.pc = "guest_ips", !.avoid = {}])
    /\ UNCHANGED <<rows, raced>>

-----------------------------------------------------------------------------
(* StartVM, as far as ensureVMNetworkUsable.                                *)

StartArrive(r) ==
    \E v \in vms :
      LET q == [IdleFrame EXCEPT !.op = "start", !.vm = v, !.net = vm[v].net]
      IN Arrive(r, IF v \in Routed
                   THEN [q EXCEPT !.pc = "list_nets", !.cidr = vmRoutedCIDR(v)]
                   ELSE [q EXCEPT !.pc = "mode"])

StartShared(r) ==
    /\ At(r, "start", "mode")
    /\ IF req[r].net \in nets
       THEN Goto(r, [req[r] EXCEPT !.pc = "list_nets", !.cidr = net[req[r].net].cidr])
       ELSE Finish(r)
    /\ UNCHANGED <<rows, raced>>

StartUsable(r) ==
    /\ At(r, "start", "list_vms")
    /\ IF Conflict(r, req[r].cidr) THEN Finish(r)
       ELSE Goto(r, [req[r] EXCEPT !.pc = "proceed", !.avoid = {}])
    /\ UNCHANGED <<rows, raced>>

\* The rest of StartVM takes no port and no address.
StartProceed(r) ==
    /\ At(r, "start", "proceed")
    /\ Finish(r)
    /\ UNCHANGED <<rows, raced>>

-----------------------------------------------------------------------------
(* DeleteVM, from where it has stopped the VM.                              *)

DeleteArrive(r) ==
    \E v \in vms : Arrive(r, [IdleFrame EXCEPT !.op = "delete", !.pc = "delete_rules", !.vm = v])

DeleteRules(r) ==
    LET gone == {i \in rules : rule[i].vm = req[r].vm}
    IN /\ At(r, "delete", "delete_rules")
       /\ rules' = rules \ gone
       /\ rule' = [i \in Rules |-> IF i \in gone THEN NoRule ELSE rule[i]]
       /\ req' = [q \in Requests |->
                    [req[q] EXCEPT !.before = @ \ gone, !.pc = IF q = r THEN "write" ELSE @]]
       /\ UNCHANGED <<vms, vm, nets, net, raced>>

DeleteRow(r) ==
    LET v == req[r].vm
    IN /\ At(r, "delete", "write")
       /\ vms' = vms \ {v}
       /\ vm' = [vm EXCEPT ![v] = NoVM]
       /\ FinishAndForget(r, {v})
       /\ UNCHANGED <<nets, net, rules, rule, raced>>

-----------------------------------------------------------------------------
(* AddIngressRule and DeleteIngressRule.                                    *)

IngressArrive(r) ==
    \E v \in vms : Arrive(r, [IdleFrame EXCEPT !.op = "ingress", !.pc = "check_port", !.vm = v])

\* A port that is open is refused too: Fail.
IngressPort(r) ==
    /\ At(r, "ingress", "check_port")
    /\ \E p \in HostPorts :
         IF p \in UsedSSHPorts THEN Finish(r)
         ELSE Goto(r, [req[r] EXCEPT !.pc = "write", !.port = p])
    /\ UNCHANGED <<rows, raced>>

\* INSERT; host_port is UNIQUE.
InsertRule(r) ==
    /\ At(r, "ingress", "write")
    /\ IF req[r].port \in UsedIngressHostPorts
       THEN UNCHANGED <<rules, rule>>
       ELSE \E i \in NewRule :
              /\ rules' = rules \cup {i}
              /\ rule' = [rule EXCEPT ![i] = [vm |-> req[r].vm, port |-> req[r].port]]
    /\ Finish(r)
    /\ UNCHANGED <<vms, vm, nets, net, raced>>

UnruleArrive(r) ==
    \E v \in vms, i \in rules :
      Arrive(r, [IdleFrame EXCEPT !.op = "unrule", !.pc = "write", !.vm = v, !.rule = i])

DeleteRule(r) ==
    LET gone == {i \in rules : i = req[r].rule /\ rule[i].vm = req[r].vm}
    IN /\ At(r, "unrule", "write")
       /\ rules' = rules \ gone
       /\ rule' = [i \in Rules |-> IF i \in gone THEN NoRule ELSE rule[i]]
       /\ FinishAndForget(r, gone)
       /\ UNCHANGED <<vms, vm, nets, net, raced>>

-----------------------------------------------------------------------------
(* CreateNetwork and DeleteNetwork.                                         *)

NetworkArrive(r) ==
    Arrive(r, [IdleFrame EXCEPT !.op = "network", !.pc = "list_vms", !.avoid = NetworkCIDRs(nets)])

\* validateSharedNetwork: at least a /30, inside vm_cidr, free, and a gateway
\* that is neither the network's nor the broadcast address; one that is not
\* given is the first after the network's.
NetworkCheck(r) ==
    /\ At(r, "network", "list_vms")
    /\ \/ \E c \in CIDRs : \E g \in Gateways \cup {c.first + 1} :
            /\ c.last - c.first >= 3 /\ cidrWithin(c) /\ ~Conflict(r, c)
            /\ c.first < g /\ g < c.last
            /\ Goto(r, [req[r] EXCEPT !.pc = "write", !.cidr = c, !.host = g, !.avoid = {}])
       \/ Finish(r)
    /\ UNCHANGED <<rows, raced>>

\* INSERT; cidr is UNIQUE.
InsertNetwork(r) ==
    /\ At(r, "network", "write")
    /\ IF req[r].cidr \in NetworkCIDRs(nets)
       THEN UNCHANGED <<nets, net>>
       ELSE \E n \in NewNet :
              /\ nets' = nets \cup {n}
              /\ net' = [net EXCEPT ![n] = [cidr |-> req[r].cidr, gateway |-> req[r].host]]
    /\ Finish(r)
    /\ UNCHANGED <<vms, vm, rules, rule, raced>>

UnnetArrive(r) ==
    \E n \in nets : Arrive(r, [IdleFrame EXCEPT !.op = "unnet", !.pc = "count", !.net = n])

CountVMs(r) ==
    /\ At(r, "unnet", "count")
    /\ IF \E v \in vms : vm[v].net = req[r].net THEN Finish(r)
       ELSE Goto(r, [req[r] EXCEPT !.pc = "write"])
    /\ UNCHANGED <<rows, raced>>

DeleteNetwork(r) ==
    LET n == req[r].net
    IN /\ At(r, "unnet", "write")
       /\ nets' = nets \ {n}
       /\ net' = [net EXCEPT ![n] = NoNet]
       /\ FinishAndForget(r, {n})
       /\ UNCHANGED <<vms, vm, rules, rule, raced>>

-----------------------------------------------------------------------------
Create(r) ==
    \/ CreateArrive(r) \/ CreatePort(r)
    \/ CreateRouted(r) \/ allocateP2P(r)
    \/ CreateShared(r) \/ CreateUsable(r) \/ allocateShared(r)
    \/ InsertVM(r)
Start(r) == StartArrive(r) \/ StartShared(r) \/ StartUsable(r) \/ StartProceed(r)
Delete(r) == DeleteArrive(r) \/ DeleteRules(r) \/ DeleteRow(r)
Ingress(r) == IngressArrive(r) \/ IngressPort(r) \/ InsertRule(r) \/ UnruleArrive(r) \/ DeleteRule(r)
Network(r) == NetworkArrive(r) \/ NetworkCheck(r) \/ InsertNetwork(r)
              \/ UnnetArrive(r) \/ CountVMs(r) \/ DeleteNetwork(r)

Next == \E r \in Requests :
    Create(r) \/ Start(r) \/ Delete(r) \/ Ingress(r) \/ Network(r) \/ ListNetworks(r) \/ Fail(r)

Spec == Init /\ [][Next]_vars

-----------------------------------------------------------------------------
(* Properties.                                                             *)

\* No two routed VMs share an address of their /30s, however requests
\* interleave: allocateP2P looks at the guest addresses in use only, a step
\* of four and UNIQUE(guest_ip) must do the rest.
RoutedDisjoint ==
    \A v, w \in Routed : v # w => ~cidrOverlaps(vmRoutedCIDR(v), vmRoutedCIDR(w))

\* A VM in a shared network that is still there has an address a guest can
\* use: inside, not the network's, not the broadcast address, not the
\* gateway's, although network and address were read long before the INSERT.
GuestUsable ==
    \A v \in vms : vm[v].net \in nets =>
        LET n == net[vm[v].net]
        IN n.cidr.first < vm[v].guest /\ vm[v].guest < n.cidr.last /\ vm[v].guest # n.gateway

\* A request that goes on to write, or to start, a range of addresses has
\* found every network and every routed VM that was there when it arrived and
\* still is: findCIDROverlap and allocateP2P miss nothing that lasts.
LastingRespected ==
    \A r \in Requests :
        (req[r].pc = "proceed" \/ (req[r].pc = "write" /\ req[r].op \in {"create", "network"}))
        => \A o \in (req[r].before \cap Owners) \ {req[r].vm, req[r].net} :
              ~cidrOverlaps(req[r].cidr, OwnerCIDR(o))

\* API_FOR_AGENTS.md: CIDRs do not overlap, a host_port does not collide with
\* a VM's SSH port, a rule goes with its VM, a network stays while a VM uses it.
OwnersDisjoint ==
    \A o, p \in Owners : o # p => ~cidrOverlaps(OwnerCIDR(o), OwnerCIDR(p))
PortsDisjoint == UsedSSHPorts \cap UsedIngressHostPorts = {}
RulesHaveVM == \A i \in rules : rule[i].vm \in vms
VMsHaveNetwork == \A v \in vms \ Routed : vm[v].net \in nets
Consistent == OwnersDisjoint /\ PortsDisjoint /\ RulesHaveVM /\ VMsHaveNetwork

\* As long as no two requests overlap in time, the tables are consistent: the
\* checks that a handler makes before it writes suffice, whatever came before
\* and wherever a handler gave up.
SerialSound == ~raced => Consistent

\* As long as no two requests overlap in time, allocateP2P refuses only when
\* every /30 of vm_cidr overlaps a network or a routed VM, the last one too.
RoomFound ==
    ~raced =>
        (FreeBlocks(UsedGuestIPs, NetworkCIDRs(nets)) = {}
           <=> \A b \in 0..(Size \div 4) - 1 :
                 \E o \in Owners : cidrOverlaps([first |-> 4*b, last |-> 4*b + 3], OwnerCIDR(o)))
=============================================================================
