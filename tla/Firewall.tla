------------------------------ MODULE Firewall ------------------------------
(***************************************************************************)
(* The nftables table bap_web.  applyNFT lists the VMs, deletes the table,  *)
(* and fills a new one command by command from the rows; StartVM, StopVM,   *)
(* DeleteVM, SetVMEgressPolicy, both operations on ingress rules, orphan    *)
(* clean-up and Reconcile call it.  No lock is held: any number of rebuilds *)
(* interleave, and each handler writes back the whole VM row from the copy  *)
(* it has read.                                                             *)
(*                                                                         *)
(* A handler is cut at its statements and its groups of nft commands.  The  *)
(* rules of one VM are: the drop of foreign source addresses, the routes    *)
(* (metadata, SSH port, masquerading, protected hosts), one per ingress     *)
(* rule, and those of its egress mode or policy.                            *)
(***************************************************************************)
EXTENDS Naturals

CONSTANTS
    VMs, Policies, Rules,  \* ids of VMs, egress policies and ingress rules
    Modes,                 \* egress modes that need no policy
    NoId,
    Requests,              \* handler goroutines
    Boot,                  \* the goroutine that runs New
    Ops,                   \* operations that clients ask for
    MaxFaults              \* bound on failed commands and crashes of the daemon

AllOps == {"create", "start", "stop", "delete", "set", "resize", "allow", "revoke",
           "orphans", "drop_policy"}

ASSUME FirewallAssumption ==
    /\ NoId \notin VMs \cup Policies \cup Rules \cup Modes
    /\ "allow_all" \in Modes /\ Modes \cap Policies = {}
    /\ {"spoof", "route"} \cap (Rules \cup Policies \cup Modes) = {}
    /\ Rules \cap (Policies \cup Modes) = {}
    /\ Boot \notin Requests
    /\ Ops \subseteq AllOps
    /\ MaxFaults \in Nat

VARIABLES
    policy,   \* egress_policies: none, live, gone
    vm,       \* vms: state and egress choice of each row
    rule,     \* ingress_rules: the VM of each rule, NoId if there is no such row
    table,    \* the table: is it there, and its rules
    req,      \* the frame of each handler
    faults,
    \* What has happened so far; no action looks at it.
    alone,    \* handlers whose rebuild has not failed in part, and since which began no
              \* other has changed what the rows ask for, or the table it fills
    synced,   \* such a rebuild has ended, and nothing has changed since
    overtaken \* handlers that hold something they read and another has changed

vars == <<policy, vm, rule, table, req, faults, alone, synced, overtaken>>

-----------------------------------------------------------------------------
Handlers == Requests \cup {Boot}
Egress == Policies \cup Modes
States == {"none", "stopped", "starting", "running", "stopping", "error", "gone"}
Row == [state : States, egress : Egress]
NewRow == [state |-> "none", egress |-> "allow_all"]

Entries == VMs \X ({"spoof", "route"} \cup Rules \cup Egress)

ApplyPCs == {"drop", "raise", "next", "egress", "fill"}
PCs == {"idle", "read", "check", "mark", "commit", "write", "forget", "erase", "failed",
        "count", "delete", "list", "boot", "sweep"} \cup ApplyPCs

Frame == [op : AllOps \cup {"none", "apply"}, pc : PCs,
          vm : VMs \cup {NoId}, row : Row,
          choice : Egress, rule : Rules \cup {NoId},
          seen : [VMs -> Egress \cup {NoId}],  \* what a rebuild still has to do
          cur : VMs \cup {NoId}, open : SUBSET Rules]
Nothing == [v \in VMs |-> NoId]
Ask(op, l) == [op |-> op, pc |-> l, vm |-> NoId, row |-> NewRow,
               choice |-> "allow_all", rule |-> NoId,
               seen |-> Nothing, cur |-> NoId, open |-> {}]
IdleFrame == Ask("none", "idle")

TypeOK ==
    /\ policy \in [Policies -> {"none", "live", "gone"}]
    /\ vm \in [VMs -> Row]
    /\ rule \in [Rules -> VMs \cup {NoId}]
    /\ table \in [up : BOOLEAN, rules : SUBSET Entries]
    /\ req \in [Handlers -> Frame]
    /\ faults \in 0 .. MaxFaults
    /\ alone \subseteq Handlers /\ synced \in BOOLEAN
    /\ overtaken \subseteq Handlers

Init ==
    /\ policy = [p \in Policies |-> "none"]
    /\ vm = [v \in VMs |-> NewRow]
    /\ rule = [i \in Rules |-> NoId]
    /\ table = [up |-> FALSE, rules |-> {}]
    /\ req = [r \in Handlers |-> IdleFrame]
    /\ faults = 0
    /\ alone = {} /\ synced = FALSE /\ overtaken = {}

Present(v) == vm[v].state \notin {"none", "gone"}
ActiveState(s) == s \in {"running", "starting"}
Active(v) == ActiveState(vm[v].state)
Available(e) == e \in Policies => policy[e] = "live"
Users(p) == {v \in VMs : Present(v) /\ vm[v].egress = p}

\* The rules that the rows ask for.
Kinds(v) == {"spoof", "route"} \cup {i \in Rules : rule[i] = v} \cup {vm[v].egress}
Wanted == {e \in Entries : Active(e[1]) /\ e[2] \in Kinds(e[1])}

\* UPDATE vms ... WHERE id = ?, which matches nothing if the row is gone.
Saved(v, row) == IF Present(v) THEN [vm EXCEPT ![v] = row] ELSE vm

Become(r, f) == req' = [req EXCEPT ![r] = f]
Goto(r, l) == Become(r, [req[r] EXCEPT !.pc = l])
Finish(r) == Become(r, IdleFrame)

-----------------------------------------------------------------------------
(* Requests.  The listener opens when Reconcile has returned.              *)

Request(r) ==
    /\ r \in Requests /\ req[r].pc = "idle" /\ req[Boot].pc = "idle"
    /\ \E op \in Ops :
         \/ /\ op = "create"
            /\ \E e \in Egress : Become(r, [Ask(op, "check") EXCEPT !.choice = e])
         \/ /\ op \in {"start", "stop", "delete", "resize", "allow"}
            /\ \E v \in VMs : Present(v) /\ Become(r, [Ask(op, "read") EXCEPT !.vm = v])
         \/ /\ op = "set"
            /\ \E v \in VMs, e \in Egress :
                 Present(v) /\ Become(r, [Ask(op, "read") EXCEPT !.vm = v, !.choice = e])
         \/ /\ op = "revoke"
            /\ \E i \in Rules :
                 /\ rule[i] # NoId
                 /\ Become(r, [Ask(op, "read") EXCEPT !.vm = rule[i], !.rule = i])
         \/ op = "orphans" /\ Become(r, Ask("apply", "list"))
         \/ /\ op = "drop_policy"
            /\ \E p \in Policies :
                 /\ policy[p] = "live"
                 /\ Become(r, [Ask(op, "count") EXCEPT !.choice = p])
    /\ UNCHANGED <<policy, vm, rule, table, faults>>

\* A statement or a command fails, mostly since the client has gone away.
\* failVM then records the error, unless that write fails as well.
\* StopVM does not look at the outcome of its first write, and applyNFT not at
\* that of the deletion of the table.
Fail(r) ==
    /\ req[r].pc # "idle"
    /\ faults < MaxFaults /\ faults' = faults + 1
    /\ \/ Finish(r)
       \/ /\ req[r].op = "start" /\ req[r].pc \in ApplyPCs \cup {"list", "commit"}
          /\ Goto(r, "failed")
       \/ /\ req[r].op \in {"stop", "delete"} /\ req[r].pc = "mark"
          /\ Goto(r, "commit")
       \/ req[r].pc = "drop" /\ Goto(r, "raise")
    /\ UNCHANGED <<policy, vm, rule, table>>

-----------------------------------------------------------------------------
(* Operations.                                                             *)

\* StartVM has nothing to do if it finds the process of a running VM there.
Read(r) ==
    LET v == req[r].vm
        refused == ~Present(v) \/ (req[r].op = "resize" /\ Active(v))
        then == CASE req[r].op \in {"start", "stop", "delete"} -> "mark"
                  [] req[r].op = "set" -> "check"
                  [] OTHER -> "write"
    IN /\ req[r].pc = "read"
       /\ \/ refused /\ Finish(r)
          \/ ~refused /\ Become(r, [req[r] EXCEPT !.row = vm[v], !.pc = then])
          \/ req[r].op = "start" /\ vm[v].state = "running" /\ Finish(r)
       /\ UNCHANGED <<policy, vm, rule, table, faults>>

\* CreateVM and SetVMEgressPolicy look the policy up before they write.
Check(r) ==
    /\ req[r].pc = "check"
    /\ IF Available(req[r].choice) THEN Goto(r, "write") ELSE Finish(r)
    /\ UNCHANGED <<policy, vm, rule, table, faults>>

CreateWrite(r) ==
    /\ req[r].pc = "write" /\ req[r].op = "create"
    /\ \/ \E v \in VMs : /\ vm[v].state = "none"
                         /\ vm' = [vm EXCEPT ![v] = [state |-> "stopped",
                                                     egress |-> req[r].choice]]
       \/ (\A v \in VMs : vm[v].state # "none") /\ UNCHANGED vm
    /\ Finish(r)
    /\ UNCHANGED <<policy, rule, table, faults>>

\* Every other handler that has written applies, if its copy is of an active
\* VM; it does not write the row again.
ThenApply(r) ==
    IF ActiveState(req[r].row.state) THEN Become(r, Ask("apply", "list")) ELSE Finish(r)

SetWrite(r) ==
    LET row == [req[r].row EXCEPT !.egress = req[r].choice]
    IN /\ req[r].pc = "write" /\ req[r].op = "set"
       /\ vm' = Saved(req[r].vm, row)
       /\ ThenApply(r)
       /\ UNCHANGED <<policy, rule, table, faults>>

\* Mutant: the choice that the request does not have is written as well.
ResizeWriteDefault(r) ==
    /\ req[r].pc = "write" /\ req[r].op = "resize"
    /\ vm' = Saved(req[r].vm, [req[r].row EXCEPT !.egress = req[r].choice])
    /\ Finish(r)
    /\ UNCHANGED <<policy, rule, table, faults>>

ResizeWrite(r) ==
    /\ req[r].pc = "write" /\ req[r].op = "resize"
    /\ vm' = Saved(req[r].vm, req[r].row)
    /\ Finish(r)
    /\ UNCHANGED <<policy, rule, table, faults>>

AllowWrite(r) ==
    /\ req[r].pc = "write" /\ req[r].op = "allow"
    /\ \/ /\ \E i \in Rules : rule[i] = NoId /\ rule' = [rule EXCEPT ![i] = req[r].vm]
          /\ ThenApply(r)
       \/ /\ \A i \in Rules : rule[i] # NoId
          /\ Finish(r) /\ UNCHANGED rule
    /\ UNCHANGED <<policy, vm, table, faults>>

RevokeWrite(r) ==
    /\ req[r].pc = "write" /\ req[r].op = "revoke"
    /\ rule' = [i \in Rules |-> IF i = req[r].rule /\ rule[i] = req[r].vm THEN NoId ELSE rule[i]]
    /\ ThenApply(r)
    /\ UNCHANGED <<policy, vm, table, faults>>

\* StartVM writes starting and applies; StopVM writes stopping, ends the VM,
\* writes stopped and applies.
Mark(r) ==
    LET row == [req[r].row EXCEPT !.state = IF req[r].op = "start" THEN "starting" ELSE "stopping"]
    IN /\ req[r].pc = "mark"
       /\ vm' = Saved(req[r].vm, row)
       /\ Become(r, [req[r] EXCEPT !.row = row,
                                   !.pc = IF req[r].op = "start" THEN "list" ELSE "commit"])
       /\ UNCHANGED <<policy, rule, table, faults>>

Commit(r) ==
    LET row == [req[r].row EXCEPT !.state = IF req[r].op = "start" THEN "running" ELSE "stopped"]
    IN /\ req[r].pc = "commit"
       /\ vm' = Saved(req[r].vm, row)
       /\ CASE req[r].op = "start"  -> Finish(r)
            [] req[r].op = "stop"   -> Become(r, Ask("apply", "list"))
            [] req[r].op = "delete" -> Become(r, [Ask("delete", "list") EXCEPT !.vm = req[r].vm])
       /\ UNCHANGED <<policy, rule, table, faults>>

Failed(r) ==
    /\ req[r].pc = "failed"
    /\ vm' = Saved(req[r].vm, [req[r].row EXCEPT !.state = "error"])
    /\ Finish(r)
    /\ UNCHANGED <<policy, rule, table, faults>>

\* Store.DeleteVM: the VM's ingress rules, then the VM.
Forget(r) ==
    /\ req[r].pc = "forget"
    /\ rule' = [i \in Rules |-> IF rule[i] = req[r].vm THEN NoId ELSE rule[i]]
    /\ Goto(r, "erase")
    /\ UNCHANGED <<policy, vm, table, faults>>

Erase(r) ==
    /\ req[r].pc = "erase"
    /\ vm' = Saved(req[r].vm, [NewRow EXCEPT !.state = "gone"])
    /\ Finish(r)
    /\ UNCHANGED <<policy, rule, table, faults>>

NewPolicy(r) ==
    /\ r \in Requests /\ req[r].pc = "idle" /\ req[Boot].pc = "idle"
    /\ \E p \in Policies : policy[p] = "none" /\ policy' = [policy EXCEPT ![p] = "live"]
    /\ UNCHANGED <<vm, rule, table, req, faults>>

\* Mutant: a policy is deleted whoever uses it.
DeleteUncounted(r) ==
    /\ req[r].pc = "count"
    /\ Goto(r, "delete")
    /\ UNCHANGED <<policy, vm, rule, table, faults>>

\* Store.DeleteEgressPolicy: count the VMs, then delete.
CountUsers(r) ==
    /\ req[r].pc = "count"
    /\ IF Users(req[r].choice) = {} THEN Goto(r, "delete") ELSE Finish(r)
    /\ UNCHANGED <<policy, vm, rule, table, faults>>

DropPolicy(r) ==
    /\ req[r].pc = "delete"
    /\ policy' = [policy EXCEPT ![req[r].choice] = "gone"]
    /\ Finish(r)
    /\ UNCHANGED <<vm, rule, table, faults>>

-----------------------------------------------------------------------------
(* applyNFT.                                                               *)

List(r) ==
    /\ req[r].pc = "list"
    /\ Become(r, [req[r] EXCEPT
                      !.pc = "drop",
                      !.seen = [v \in VMs |-> IF Active(v) THEN vm[v].egress ELSE NoId]])
    /\ UNCHANGED <<policy, vm, rule, table, faults>>

\* Mutant: the rules are added to those that are there.
DropNothing(r) ==
    /\ req[r].pc = "drop"
    /\ Goto(r, "raise")
    /\ UNCHANGED <<policy, vm, rule, table, faults>>

Drop(r) ==
    /\ req[r].pc = "drop"
    /\ table' = [up |-> FALSE, rules |-> {}]
    /\ Goto(r, "raise")
    /\ UNCHANGED <<policy, vm, rule, faults>>

\* nft add table and add chain leave alone what is there already.
Raise(r) ==
    /\ req[r].pc = "raise"
    /\ table' = [table EXCEPT !.up = TRUE]
    /\ Goto(r, "next")
    /\ UNCHANGED <<policy, vm, rule, faults>>

\* What the caller does with an error: StartVM records it.
ApplyError(r) == IF req[r].op = "start" THEN Goto(r, "failed") ELSE Finish(r)

\* Mutant: VMs that are not active get rules as well.
NextVMAny(r) ==
    /\ req[r].pc = "next" /\ table.up
    /\ \E v \in VMs :
         /\ table' = [table EXCEPT !.rules = @ \cup {<<v, "spoof">>}]
         /\ Become(r, [req[r] EXCEPT !.pc = "egress", !.cur = v,
                                     !.open = {i \in Rules : rule[i] = v}])
    /\ UNCHANGED <<policy, vm, rule, faults>>

\* nft add rule fails if the table is not there.
NextVM(r) ==
    /\ req[r].pc = "next"
    /\ \E v \in VMs :
         /\ req[r].seen[v] # NoId
         /\ IF table.up
            THEN /\ table' = [table EXCEPT !.rules = @ \cup {<<v, "spoof">>}]
                 /\ Become(r, [req[r] EXCEPT !.pc = "egress", !.cur = v,
                                             !.open = {i \in Rules : rule[i] = v}])
            ELSE ApplyError(r) /\ UNCHANGED table
    /\ UNCHANGED <<policy, vm, rule, faults>>

\* egressNFTRules: a policy that is gone ends the rebuild.
ReadEgress(r) ==
    /\ req[r].pc = "egress"
    /\ IF Available(req[r].seen[req[r].cur]) THEN Goto(r, "fill") ELSE ApplyError(r)
    /\ UNCHANGED <<policy, vm, rule, table, faults>>

Fill(r) ==
    LET v == req[r].cur
        kinds == {"route"} \cup req[r].open \cup {req[r].seen[v]}
    IN /\ req[r].pc = "fill"
       /\ IF table.up
          THEN /\ table' = [table EXCEPT !.rules = @ \cup {<<v, k>> : k \in kinds}]
               /\ Become(r, [req[r] EXCEPT !.pc = "next", !.cur = NoId, !.open = {},
                                           !.seen = [req[r].seen EXCEPT ![v] = NoId]])
          ELSE ApplyError(r) /\ UNCHANGED table
       /\ UNCHANGED <<policy, vm, rule, faults>>

\* What the callers do next: StartVM boots the VM, DeleteVM removes its rows.
Applied(r) ==
    /\ req[r].pc = "next" /\ req[r].seen = Nothing
    /\ CASE req[r].op = "start"  -> Goto(r, "commit")
         [] req[r].op = "delete" -> Goto(r, "forget")
         [] OTHER                -> Finish(r)
    /\ UNCHANGED <<policy, vm, rule, table, faults>>

-----------------------------------------------------------------------------
(* The daemon.                                                             *)

\* All handlers are gone; the table, like the VMs, outlives the daemon.
Crash ==
    /\ faults < MaxFaults
    /\ faults' = faults + 1
    /\ req' = [r \in Handlers |-> IF r = Boot THEN Ask("apply", "boot") ELSE IdleFrame]
    /\ UNCHANGED <<policy, vm, rule, table>>

\* Reconcile looks at the rows that claim a process.
BootList ==
    /\ req[Boot].pc = "boot"
    /\ LET claims == {v \in VMs : vm[v].state \in {"running", "starting", "stopping"}}
       IN IF claims = {} THEN Finish(Boot)
          ELSE Become(Boot, [req[Boot] EXCEPT
                                !.pc = "sweep",
                                !.seen = [v \in VMs |-> IF v \in claims THEN vm[v].egress
                                                       ELSE NoId]])
    /\ UNCHANGED <<policy, vm, rule, table, faults>>

\* The process of a row is there, or the row becomes stopped.
BootRow ==
    /\ req[Boot].pc = "sweep"
    /\ \E v \in VMs :
         /\ req[Boot].seen[v] # NoId
         /\ \/ UNCHANGED vm
            \/ vm' = Saved(v, [vm[v] EXCEPT !.state = "stopped"])
         /\ Become(Boot, [req[Boot] EXCEPT !.seen = [req[Boot].seen EXCEPT ![v] = NoId]])
    /\ UNCHANGED <<policy, rule, table, faults>>

BootApply ==
    /\ req[Boot].pc = "sweep" /\ req[Boot].seen = Nothing
    /\ Goto(Boot, "list")
    /\ UNCHANGED <<policy, vm, rule, table, faults>>

-----------------------------------------------------------------------------
Step(r) ==
    \/ Request(r) \/ Fail(r) \/ Read(r) \/ Check(r)
    \/ CreateWrite(r) \/ SetWrite(r) \/ ResizeWrite(r) \/ AllowWrite(r) \/ RevokeWrite(r)
    \/ Mark(r) \/ Commit(r) \/ Failed(r) \/ Forget(r) \/ Erase(r)
    \/ NewPolicy(r) \/ CountUsers(r) \/ DropPolicy(r)
    \/ List(r) \/ Drop(r) \/ Raise(r) \/ NextVM(r) \/ ReadEgress(r)
    \/ Fill(r) \/ Applied(r)

BootStep == BootList \/ BootRow \/ BootApply \/ Crash

\* The history variables, for a step of handler r.
Calm == table' = table /\ Wanted' = Wanted

\* A handler decides and writes from a copy of a row, from a policy it has
\* looked up, or from a count of the VMs that use a policy.
Holds(r) == req[r].row.state # "none" \/ req[r].pc \in {"write", "delete"}
Outdated(r) ==
    \/ req[r].row.state # "none" /\ vm'[req[r].vm] # vm[req[r].vm]
    \/ req[r].pc = "write" /\ Available(req[r].choice)' # Available(req[r].choice)
    \/ req[r].pc = "delete" /\ Users(req[r].choice)' # Users(req[r].choice)

Observe(r) ==
    /\ alone' = {q \in Handlers :
                    /\ req'[q].pc \in ApplyPCs
                    /\ IF q = r THEN req[q].pc = "list" \/ (q \in alone /\ ~Fail(r))
                       ELSE /\ q \in alone /\ Wanted' = Wanted
                            /\ req[q].pc = "drop" \/ table' = table}
    /\ synced' = \/ r \in alone /\ Applied(r)
                 \/ synced /\ Calm
    /\ overtaken' = {q \in Handlers : /\ Holds(q)'
                                       /\ \/ q \in overtaken
                                          \/ q # r /\ Holds(q) /\ Outdated(q)}

Next ==
    \/ \E r \in Handlers : Step(r) /\ Observe(r)
    \/ BootStep /\ Observe(Boot)

Spec == Init /\ [][Next]_vars

-----------------------------------------------------------------------------
(* Properties.                                                             *)

\* The module as an implementation of PacketFilter: a rebuild that nobody
\* disturbs ends with exactly the rules that the rows ask for, whatever other
\* rebuilds did before it listed them, and until a row or the table changes
\* the table stays so.
Filter == INSTANCE PacketFilter WITH
              wanted <- Wanted,
              force <- IF synced THEN table.rules ELSE NoId,
              Unsettled <- NoId
Implements == Filter!Spec

\* The whole-row writes of start, stop, delete and resize change the choice
\* that SetVMEgressPolicy has made only when they come from a copy that somebody
\* has overtaken (service.go:668).
Kept(r) == r \in overtaken \/ \A v \in VMs :
    (Present(v) /\ Present(v)' /\ vm'[v].egress # vm[v].egress)
        => req[r].op = "set" /\ req[r].vm = v /\ vm'[v].egress = req[r].choice
ChoiceHolds == [][\A r \in Handlers : req'[r] # req[r] => Kept(r)]_vars

\* A VM comes to name a policy that is gone only by a handler whose look at the
\* policy, at the VM or at the policy's users has been overtaken; such a VM ends
\* every later rebuild (service.go:1657).
Named(v) == Present(v) => Available(vm[v].egress)
PoliciesThere ==
    [][\A r \in Handlers : req'[r] # req[r] =>
           r \in overtaken \/ \A v \in VMs : Named(v) => Named(v)']_vars
=============================================================================
