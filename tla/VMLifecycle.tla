---------------------------- MODULE VMLifecycle ----------------------------
(***************************************************************************)
(* The lifecycle of microVMs in bap-web: what lifecycle.Service does to    *)
(* the rows of the vms table and to the host when it creates, starts,      *)
(* stops, restarts, resizes and deletes a VM, when it cleans orphaned TAPs *)
(* up, and when the daemon restarts and reconciles.                        *)
(*                                                                         *)
(* Every HTTP request runs in a goroutine of its own and takes no lock, so *)
(* a request is a process here: a frame with a program counter and the Go  *)
(* locals that matter.  A request is cut at each access to something that  *)
(* others see: a statement of the database (atomic: the pool has one       *)
(* connection), a process, a TAP, a mount, a file.  UpdateVM writes the    *)
(* whole row from the copy that the handler read earlier (snap).           *)
(*                                                                         *)
(* Rows and TAPs are keyed by the VM's id, which is random and never       *)
(* reused; the Firecracker process, the jail directory with its bind       *)
(* mounts and the rootfs file are keyed by the VM's name, which is free    *)
(* again once a VM is deleted.                                             *)
(***************************************************************************)
EXTENDS Integers

CONSTANTS
    VMs,        \* ids that random.Hex may draw
    NoVM,       \* no id: the target of an orphan cleanup
    Names,      \* VM names
    NameOf,     \* the name each id is created with
    MatchedBy,  \* the names whose command line matches pkill's pattern for a name
    Sizes,      \* vcpu and memory settings, as one number
    Requests,   \* handler goroutines
    Ops,        \* the operations clients ask for
    Exclusive,  \* TRUE: clients keep one request in flight per VM name
    Faults,     \* what may go wrong besides a failing start (FaultKinds)
    MaxCrashes  \* bound on daemon crashes

AllOps == {"create", "start", "stop", "delete", "restart", "resize", "orphans"}

\* "disconnect": a client goes away and its request context is cancelled.
\* "busy": umount reports "target is busy".
FaultKinds == {"disconnect", "busy"}

ASSUME ConstantsAssumption ==
    /\ NoVM \notin VMs
    /\ NameOf \in [VMs -> Names]
    /\ MatchedBy \in [Names -> SUBSET Names]
    /\ \A n \in Names : n \in MatchedBy[n]
    /\ Sizes \subseteq Nat \ {0}
    /\ Ops \subseteq AllOps
    /\ Exclusive \in BOOLEAN
    /\ Faults \subseteq FaultKinds
    /\ MaxCrashes \in Nat

VARIABLES
    row,      \* the vms table: state, size, and whether last_error is set
    born,     \* ids drawn so far
    proc,     \* Firecracker by name: none, api (not booted), up, exited by itself
    cfg,      \* the size a booted Firecracker was configured with
    tap,      \* the TAP device of an id exists
    mounted,  \* kernel dir and rootfs dir are bind-mounted in the jail of a name
    disk,     \* the rootfs file of a name
    kernels,  \* the shared kernel directory still holds its files
    phase,    \* the daemon: down, reconciling, serving
    todo,     \* rows Reconcile has still to look at
    fix,      \* where Reconcile stands with a VM whose process is gone
    crashes,  \* crashes so far
    req       \* the frame of each handler

host == <<proc, cfg, tap, mounted, disk, kernels>>
daemon == <<phase, todo, fix, crashes>>
vars == <<row, born, host, daemon, req>>

-----------------------------------------------------------------------------
States == {"absent", "stopped", "starting", "running", "stopping", "error"}
RowType == [state : States, size : Sizes \cup {0}, err : BOOLEAN]
NoRow == [state |-> "absent", size |-> 0, err |-> FALSE]

PCs == {"idle",
        "create_check", "create_rootfs", "create_insert",
        "start_read", "start_mark", "start_net", "start_kill", "start_umount",
        "start_wipe", "start_spawn", "start_mount", "start_boot",
        "start_commit", "start_fail",
        "stop_read", "stop_mark", "stop_kill", "stop_umount", "stop_wipe",
        "stop_tap", "stop_commit",
        "delete_read", "delete_files", "delete_row",
        "resize_read", "resize_reread", "resize_write", "restart_check",
        "orphan_rows", "orphan_links", "orphan_delete"}

\* A frame: the operation, where it stands, the VM, the row as last read, the
\* requested size (0: none given), the restart flag of UpdateResources, its
\* local "running", the errors cleanupVMRuntime collected, whether the context
\* is still live, and the TAP set of an orphan cleanup.
Frame == [op : AllOps, pc : PCs, vm : VMs \cup {NoVM}, snap : RowType,
          size : Sizes \cup {0}, restart : BOOLEAN, running : BOOLEAN,
          bad : BOOLEAN, live : BOOLEAN, keep : SUBSET VMs]

IdleFrame == [op |-> "stop", pc |-> "idle", vm |-> NoVM, snap |-> NoRow,
              size |-> 0, restart |-> FALSE, running |-> FALSE, bad |-> FALSE,
              live |-> TRUE, keep |-> {}]

\* Reconcile's place in its loop: the row it looks at, or the step of the
\* clean-up of a VM it found without a process.
FixPCs == {"look", "umount", "wipe", "tap", "write"}
Fix == [pc : FixPCs, vm : VMs \cup {NoVM}]
Looking == [pc |-> "look", vm |-> NoVM]

TypeOK ==
    /\ row \in [VMs -> RowType]
    /\ born \subseteq VMs
    /\ proc \in [Names -> {"none", "api", "up", "exited"}]
    /\ cfg \in [Names -> Sizes \cup {0}]
    /\ tap \in [VMs -> BOOLEAN]
    /\ mounted \in [Names -> BOOLEAN]
    /\ disk \in [Names -> {"none", "file", "wiped"}]
    /\ kernels \in BOOLEAN
    /\ phase \in {"down", "reconciling", "serving"}
    /\ todo \subseteq VMs
    /\ fix \in Fix
    /\ crashes \in 0..MaxCrashes
    /\ req \in [Requests -> Frame]

Init ==
    /\ row = [v \in VMs |-> NoRow]
    /\ born = {}
    /\ proc = [n \in Names |-> "none"]
    /\ cfg = [n \in Names |-> 0]
    /\ tap = [v \in VMs |-> FALSE]
    /\ mounted = [n \in Names |-> FALSE]
    /\ disk = [n \in Names |-> "none"]
    /\ kernels = TRUE
    /\ phase = "down"
    /\ todo = {}
    /\ fix = Looking
    /\ crashes = 0
    /\ req = [r \in Requests |-> IdleFrame]

-----------------------------------------------------------------------------
(* Helpers.                                                                *)

Present(v) == row[v].state # "absent"
NameTaken(n) == \E v \in VMs : Present(v) /\ NameOf[v] = n
Name(r) == NameOf[req[r].vm]

Alive(n) == proc[n] \in {"api", "up"}

\* processRunning: pgrep with a pattern that other names may match too.
PGrep(n) == \E m \in MatchedBy[n] : Alive(m)

\* Some process that the pattern of a name matches is alive, or exited by itself.
Traces(n) == \E m \in MatchedBy[n] : proc[m] # "none"

\* Another VM's pkill may reach the process of a name.
KilledByOthers(n) == \E m \in Names \ {n} : n \in MatchedBy[m]

\* pkill -9 with the same pattern.
Killed(n) == [m \in Names |-> IF m \in MatchedBy[n] THEN "none" ELSE proc[m]]

\* os.RemoveAll of the jail directory.  It asks no context, and it goes through
\* a bind mount that is still there, into the rootfs directory and the kernel
\* directory.
RemoveJail(n) ==
    /\ disk' = IF mounted[n] /\ disk[n] # "none"
               THEN [disk EXCEPT ![n] = "wiped"] ELSE disk
    /\ kernels' = (kernels /\ ~mounted[n])

At(r, l) == req[r].pc = l
Goto(r, l) == req' = [req EXCEPT ![r].pc = l]
Finish(r) == req' = [req EXCEPT ![r] = IdleFrame]

\* Mutant: INSERT OR REPLACE.
Upserted(v, rec) == [row EXCEPT ![v] = rec]

\* UpdateVM: UPDATE ... WHERE id = ?, which matches nothing if the row is gone.
Saved(v, rec) == IF Present(v) THEN [row EXCEPT ![v] = rec] ELSE row

\* UpdateResources is what the request is in (RestartVM calls it when it is
\* given a size).
Resizing(f) == f.op = "resize" \/ (f.op = "restart" /\ f.size # 0)

\* Where StopVM and StartVM return to when they succeed.
AfterStop(f) == CASE f.op = "stop"   -> "idle"
                  [] f.op = "delete" -> "delete_files"
                  [] Resizing(f)     -> "resize_reread"
                  [] OTHER           -> "start_read"
AfterStart(f) == IF f.op = "restart" /\ f.size # 0 THEN "restart_check" ELSE "idle"
Return(r, l) == IF l = "idle" THEN Finish(r) ELSE Goto(r, l)

-----------------------------------------------------------------------------
(* Clients.                                                                *)

\* Some request is under way on a VM of this name, or on the whole host.
InFlight(n) == \E q \in Requests : /\ ~At(q, "idle")
                                   /\ req[q].vm = NoVM \/ NameOf[req[q].vm] = n

FirstStep(o) == CASE o = "create"  -> "create_check"
                  [] o = "start"   -> "start_read"
                  [] o = "stop"    -> "stop_read"
                  [] o = "delete"  -> "delete_read"
                  [] o = "restart" -> "stop_read"
                  [] o = "resize"  -> "resize_read"
                  [] o = "orphans" -> "orphan_rows"

\* A handler takes a request in.  RestartVM goes through UpdateResources with
\* restart = TRUE when it is given a size.
Accept(r, o, v, s, again) ==
    req' = [req EXCEPT ![r] =
              [IdleFrame EXCEPT !.op = o, !.vm = v, !.size = s, !.restart = again,
                                !.pc = IF o = "restart" /\ s # 0
                                       THEN "resize_read" ELSE FirstStep(o)]]

\* POST /api/vms: CreateVM draws a new id.
RequestCreate(r, v, s) ==
    /\ "create" \in Ops
    /\ v \notin born
    /\ Exclusive => ~InFlight(NameOf[v])
    /\ born' = born \cup {v}
    /\ Accept(r, "create", v, s, FALSE)

\* Start, stop, delete, restart and resize name a VM by its id.
RequestVM(r, o, v, s, again) ==
    /\ o \in Ops
    /\ v \in born
    /\ Exclusive => ~InFlight(NameOf[v])
    /\ Accept(r, o, v, s, again)
    /\ UNCHANGED born

\* POST /api/host/orphans/cleanup.
RequestOrphans(r) ==
    /\ "orphans" \in Ops
    /\ Exclusive => \A q \in Requests : At(q, "idle")
    /\ Accept(r, "orphans", NoVM, 0, FALSE)
    /\ UNCHANGED born

Request(r) ==
    /\ phase = "serving"
    /\ At(r, "idle")
    /\ \/ \E v \in VMs, s \in Sizes : RequestCreate(r, v, s)
       \/ \E v \in VMs, o \in {"start", "stop", "delete"} : RequestVM(r, o, v, 0, FALSE)
       \/ \E v \in VMs, s \in Sizes \cup {0} : RequestVM(r, "restart", v, s, TRUE)
       \/ \E v \in VMs, s \in Sizes, again \in BOOLEAN : RequestVM(r, "resize", v, s, again)
       \/ RequestOrphans(r)
    /\ UNCHANGED <<row, host, daemon>>

\* The client goes away: net/http cancels r.Context(), and with it every
\* database statement and every command the handler has still to run.
Disconnect(r) ==
    /\ "disconnect" \in Faults
    /\ ~At(r, "idle") /\ req[r].live
    /\ req' = [req EXCEPT ![r].live = FALSE]
    /\ UNCHANGED <<row, born, host, daemon>>

-----------------------------------------------------------------------------
(* CreateVM.                                                               *)

\* The checks before anything is written: GetVMByName and the look-ups.
CreateCheck(r) ==
    /\ At(r, "create_check")
    /\ IF req[r].live /\ ~NameTaken(Name(r)) THEN Goto(r, "create_rootfs") ELSE Finish(r)
    /\ UNCHANGED <<row, born, host, daemon>>

\* prepareRootFS: cp the base image unless the file is there already, then
\* mount it and write the guest's files.  The file that a failed attempt wrote,
\* even half of it, stays, and the next CreateVM of that name takes it.
CreateRootFS(r) ==
    LET written == [disk EXCEPT ![Name(r)] = "file"]
    IN /\ At(r, "create_rootfs")
       /\ \/ /\ req[r].live
             /\ disk' = written
             /\ Goto(r, "create_insert")
          \/ /\ disk' = disk \/ (req[r].live /\ disk' = written)
             /\ Finish(r)
       /\ UNCHANGED <<row, born, proc, cfg, tap, mounted, kernels, daemon>>

\* INSERT INTO vms: the name is UNIQUE.
CreateInsert(r) ==
    /\ At(r, "create_insert")
    /\ IF req[r].live /\ ~NameTaken(Name(r))
       THEN row' = [row EXCEPT ![req[r].vm] =
                      [state |-> "stopped", size |-> req[r].size, err |-> FALSE]]
       ELSE UNCHANGED row
    /\ Finish(r)
    /\ UNCHANGED <<born, host, daemon>>

-----------------------------------------------------------------------------
(* Steps that StartVM and StopVM share.                                    *)

\* GetVM, and where to go with the row; a missing row or a cancelled context
\* ends the request.
ReadRow(r, l) ==
    IF req[r].live /\ Present(req[r].vm)
    THEN req' = [req EXCEPT ![r].pc = l, ![r].snap = row[req[r].vm]]
    ELSE Finish(r)

\* pkill -9 firecracker and jailer.
Kill(r, from, to) ==
    /\ At(r, from)
    /\ proc' = IF req[r].live THEN Killed(Name(r)) ELSE proc
    /\ Goto(r, to)
    /\ UNCHANGED <<row, born, cfg, tap, mounted, disk, kernels, daemon>>

\* umount both binds of the jail.  The result is only collected, by
\* cleanupVMRuntime, or ignored, by startFirecracker.
Umount(r, from, to) ==
    LET n == Name(r)
    IN /\ At(r, from)
       /\ \/ /\ req[r].live
             /\ mounted' = [mounted EXCEPT ![n] = FALSE]
             /\ Goto(r, to)
          \/ /\ ~req[r].live \/ ("busy" \in Faults /\ mounted[n])
             /\ UNCHANGED mounted
             /\ req' = [req EXCEPT ![r].pc = to, ![r].bad = TRUE]
       /\ UNCHANGED <<row, born, proc, cfg, tap, disk, kernels, daemon>>

\* Removing the jail: a mount point in it is busy, which is an error.
Wipe(r, from, to) ==
    /\ At(r, from)
    /\ RemoveJail(Name(r))
    /\ req' = [req EXCEPT ![r].pc = to, ![r].bad = @ \/ mounted[Name(r)]]
    /\ UNCHANGED <<row, born, proc, cfg, tap, mounted, daemon>>

-----------------------------------------------------------------------------
(* StartVM.                                                                *)

\* GetVM and ensureVMNetworkUsable; an overlapping CIDR ends the request.
StartRead(r) ==
    /\ At(r, "start_read")
    /\ ReadRow(r, "start_mark") \/ Finish(r)
    /\ UNCHANGED <<row, born, host, daemon>>

\* A running VM whose process is there is left alone; any other is marked
\* starting, with last_error cleared.
StartMark(r) ==
    LET f == req[r]
        marked == [f.snap EXCEPT !.state = "starting", !.err = FALSE]
    IN /\ At(r, "start_mark")
       /\ IF ~f.live
          THEN Finish(r) /\ UNCHANGED row
          ELSE IF f.snap.state = "running" /\ PGrep(Name(r))
               THEN Return(r, AfterStart(f)) /\ UNCHANGED row
               ELSE /\ row' = Saved(f.vm, marked)
                    /\ req' = [req EXCEPT ![r].pc = "start_net", ![r].snap = marked]
       /\ UNCHANGED <<born, host, daemon>>

\* setupTap and applyNFT.
StartNet(r) ==
    LET v == req[r].vm
    IN /\ At(r, "start_net")
       /\ \/ /\ req[r].live
             /\ tap' = [tap EXCEPT ![v] = TRUE]
             /\ Goto(r, "start_kill")
          \/ /\ \/ UNCHANGED tap
                \/ req[r].live /\ tap' = [tap EXCEPT ![v] = TRUE]
             /\ Goto(r, "start_fail")
       /\ UNCHANGED <<row, born, proc, cfg, mounted, disk, kernels, daemon>>

\* Mutant: startFirecracker forgets to unmount what an earlier run left.
StartNoUmount(r) ==
    /\ At(r, "start_umount")
    /\ Goto(r, "start_wipe")
    /\ UNCHANGED <<row, born, host, daemon>>

\* startFirecracker, first half: kill what may be left, unmount, remove the
\* jail, and exec the jailer.  The command takes no context.  A jail whose
\* process is alive refuses a second one.
StartKill(r) == Kill(r, "start_kill", "start_umount")
StartUmount(r) == Umount(r, "start_umount", "start_wipe")
StartWipe(r) == Wipe(r, "start_wipe", "start_spawn")

StartSpawn(r) ==
    LET n == Name(r)
    IN /\ At(r, "start_spawn")
       /\ \/ /\ proc' = [proc EXCEPT ![n] = IF Alive(n) THEN @ ELSE "api"]
             /\ Goto(r, "start_mount")
          \/ Goto(r, "start_fail") /\ UNCHANGED proc
       /\ UNCHANGED <<row, born, cfg, tap, mounted, disk, kernels, daemon>>

\* waitSocket, 15 s at most, then the two bind mounts into the jail.
StartMount(r) ==
    LET n == Name(r)
        up == req[r].live /\ Alive(n)
    IN /\ At(r, "start_mount")
       /\ \/ /\ up
             /\ mounted' = [mounted EXCEPT ![n] = TRUE]
             /\ Goto(r, "start_boot")
          \/ /\ \/ UNCHANGED mounted
                \/ up /\ mounted' = [mounted EXCEPT ![n] = TRUE]
             /\ Goto(r, "start_fail")
       /\ UNCHANGED <<row, born, proc, cfg, tap, disk, kernels, daemon>>

\* The PUTs to Firecracker's socket up to InstanceStart.  Firecracker takes no
\* machine-config once it has booted.
StartBoot(r) ==
    LET n == Name(r)
    IN /\ At(r, "start_boot")
       /\ \/ /\ req[r].live /\ proc[n] = "api"
             /\ disk[n] = "file" /\ kernels
             /\ proc' = [proc EXCEPT ![n] = "up"]
             /\ cfg' = [cfg EXCEPT ![n] = req[r].snap.size]
             /\ Goto(r, "start_commit")
          \/ Goto(r, "start_fail") /\ UNCHANGED <<proc, cfg>>
       /\ UNCHANGED <<row, born, tap, mounted, disk, kernels, daemon>>

\* The last UpdateVM, which is lost with the context.
StartCommit(r) ==
    LET f == req[r]
    IN /\ At(r, "start_commit")
       /\ IF f.live
          THEN /\ row' = Saved(f.vm, [f.snap EXCEPT !.state = "running"])
               /\ Return(r, AfterStart(f))
          ELSE Finish(r) /\ UNCHANGED row
       /\ UNCHANGED <<born, host, daemon>>

\* Mutant: the error is returned as it is, without failVM.
StartFailUnsaved(r) ==
    /\ At(r, "start_fail")
    /\ Finish(r)
    /\ UNCHANGED <<row, born, host, daemon>>

\* failVM: state error, through the same context, its own error ignored.
StartFail(r) ==
    LET f == req[r]
    IN /\ At(r, "start_fail")
       /\ row' = IF f.live
                 THEN Saved(f.vm, [f.snap EXCEPT !.state = "error", !.err = TRUE])
                 ELSE row
       /\ Finish(r)
       /\ UNCHANGED <<born, host, daemon>>

-----------------------------------------------------------------------------
(* StopVM.                                                                 *)

StopRead(r) ==
    /\ At(r, "stop_read")
    /\ ReadRow(r, "stop_mark")
    /\ UNCHANGED <<row, born, host, daemon>>

\* The write of stopping is best effort; so is SendCtrlAltDel, and the two
\* seconds the guest gets pass whatever the context says.
StopMark(r) ==
    LET f == req[r]
        marked == [f.snap EXCEPT !.state = "stopping"]
    IN /\ At(r, "stop_mark")
       /\ row' = IF f.live THEN Saved(f.vm, marked) ELSE row
       /\ req' = [req EXCEPT ![r].pc = "stop_kill", ![r].snap = marked, ![r].bad = FALSE]
       /\ UNCHANGED <<born, host, daemon>>

\* cleanupVMRuntime: unmount, remove the jail, remove the TAP.
StopKill(r) == Kill(r, "stop_kill", "stop_umount")
StopUmount(r) == Umount(r, "stop_umount", "stop_wipe")
StopWipe(r) == Wipe(r, "stop_wipe", "stop_tap")

StopTap(r) ==
    LET v == req[r].vm
    IN /\ At(r, "stop_tap")
       /\ \/ /\ req[r].live
             /\ tap' = [tap EXCEPT ![v] = FALSE]
             /\ Goto(r, "stop_commit")
          \/ /\ ~req[r].live \/ tap[v]
             /\ UNCHANGED tap
             /\ req' = [req EXCEPT ![r].pc = "stop_commit", ![r].bad = TRUE]
       /\ UNCHANGED <<row, born, proc, cfg, mounted, disk, kernels, daemon>>

\* Mutant: last_error is not set from the clean-up's error.
StopCommitSilent(r) ==
    LET f == req[r]
    IN /\ At(r, "stop_commit")
       /\ IF f.live
          THEN /\ row' = Saved(f.vm, [f.snap EXCEPT !.state = "stopped", !.err = FALSE])
               /\ \/ ~f.bad /\ Return(r, AfterStop(f))
                  \/ Finish(r)
          ELSE Finish(r) /\ UNCHANGED row
       /\ UNCHANGED <<born, host, daemon>>

\* Mutant: StopVM returns nil where it returns cleanupErr.
StopCommitNil(r) ==
    LET f == req[r]
    IN /\ At(r, "stop_commit")
       /\ IF f.live
          THEN /\ row' = Saved(f.vm, [f.snap EXCEPT !.state = "stopped", !.err = f.bad])
               /\ Return(r, AfterStop(f)) \/ Finish(r)
          ELSE Finish(r) /\ UNCHANGED row
       /\ UNCHANGED <<born, host, daemon>>

\* The VM is recorded stopped, with the clean-up's error.  applyNFT may fail
\* after that; either error ends the request that called StopVM.
StopCommit(r) ==
    LET f == req[r]
    IN /\ At(r, "stop_commit")
       /\ IF f.live
          THEN /\ row' = Saved(f.vm, [f.snap EXCEPT !.state = "stopped", !.err = f.bad])
               /\ \/ ~f.bad /\ Return(r, AfterStop(f))
                  \/ Finish(r)
          ELSE Finish(r) /\ UNCHANGED row
       /\ UNCHANGED <<born, host, daemon>>

-----------------------------------------------------------------------------
(* DeleteVM, UpdateResources and the tail of RestartVM.                    *)

DeleteRead(r) ==
    /\ At(r, "delete_read")
    /\ ReadRow(r, "stop_read")
    /\ UNCHANGED <<row, born, host, daemon>>

\* os.Remove of the rootfs file, by the path the name gives.
DeleteFiles(r) ==
    /\ At(r, "delete_files")
    /\ disk' = [disk EXCEPT ![Name(r)] = "none"]
    /\ Goto(r, "delete_row")
    /\ UNCHANGED <<row, born, proc, cfg, tap, mounted, kernels, daemon>>

DeleteRow(r) ==
    /\ At(r, "delete_row")
    /\ row' = IF req[r].live THEN [row EXCEPT ![req[r].vm] = NoRow] ELSE row
    /\ Finish(r)
    /\ UNCHANGED <<born, host, daemon>>

\* A running or starting VM is resized only by way of StopVM, if the request
\* allows a restart.
ResizeRead(r) ==
    LET v == req[r].vm
        running == row[v].state \in {"running", "starting"}
    IN /\ At(r, "resize_read")
       /\ IF req[r].live /\ Present(v) /\ (running => req[r].restart)
          THEN req' = [req EXCEPT ![r].pc = IF running THEN "stop_read" ELSE "resize_write",
                                  ![r].snap = row[v], ![r].running = running]
          ELSE Finish(r)
       /\ UNCHANGED <<row, born, host, daemon>>

ResizeReread(r) ==
    /\ At(r, "resize_reread")
    /\ ReadRow(r, "resize_write")
    /\ UNCHANGED <<row, born, host, daemon>>

\* Mutant: the requested size is added to the row's.
ResizeWriteAdded(r) ==
    LET f == req[r]
    IN /\ At(r, "resize_write")
       /\ IF f.live
          THEN /\ row' = Saved(f.vm, [f.snap EXCEPT !.size = f.snap.size + f.size])
               /\ Return(r, IF f.running THEN "start_read" ELSE AfterStart(f))
          ELSE Finish(r) /\ UNCHANGED row
       /\ UNCHANGED <<born, host, daemon>>

ResizeWrite(r) ==
    LET f == req[r]
    IN /\ At(r, "resize_write")
       /\ IF f.live
          THEN /\ row' = Saved(f.vm, [f.snap EXCEPT !.size = f.size])
               /\ Return(r, IF f.running THEN "start_read" ELSE AfterStart(f))
          ELSE Finish(r) /\ UNCHANGED row
       /\ UNCHANGED <<born, host, daemon>>

\* RestartVM after UpdateResources: unless the VM is running now, stop and
\* start it.
RestartCheck(r) ==
    LET v == req[r].vm
    IN /\ At(r, "restart_check")
       /\ IF req[r].live /\ row[v].state # "running"
          THEN req' = [req EXCEPT ![r].pc = "stop_read", ![r].size = 0]
          ELSE Finish(r)
       /\ UNCHANGED <<row, born, host, daemon>>

-----------------------------------------------------------------------------
(* CleanupHostOrphans: rows first, then the links of the host, then one    *)
(* deletion per TAP that no running or starting row had.                   *)

OrphanRows(r) ==
    /\ At(r, "orphan_rows")
    /\ IF req[r].live
       THEN req' = [req EXCEPT ![r].pc = "orphan_links",
                      ![r].keep = {v \in VMs : row[v].state \in {"running", "starting"}}]
       ELSE Finish(r)
    /\ UNCHANGED <<row, born, host, daemon>>

OrphanLinks(r) ==
    /\ At(r, "orphan_links")
    /\ IF req[r].live
       THEN req' = [req EXCEPT ![r].pc = "orphan_delete",
                      ![r].keep = {v \in VMs : tap[v]} \ @]
       ELSE Finish(r)
    /\ UNCHANGED <<row, born, host, daemon>>

\* Each deletion may fail; a cancelled context fails them all.
OrphanDelete(r) ==
    /\ At(r, "orphan_delete")
    /\ \E gone \in SUBSET req[r].keep :
         /\ ~req[r].live => gone = {}
         /\ tap' = [v \in VMs |-> tap[v] /\ v \notin gone]
    /\ Finish(r)
    /\ UNCHANGED <<row, born, proc, cfg, mounted, disk, kernels, daemon>>

-----------------------------------------------------------------------------
(* The daemon and the guests.                                              *)

\* The process dies or is told to stop; requests, or Reconcile, die with it.  systemd runs it
\* with KillMode=process: the microVMs live on.
Crash ==
    /\ phase # "down" /\ crashes < MaxCrashes
    /\ phase' = "down" /\ todo' = {} /\ fix' = Looking /\ crashes' = crashes + 1
    /\ req' = [r \in Requests |-> IdleFrame]
    /\ UNCHANGED <<row, born, host>>

\* app.New: Reconcile lists the rows before the listener is opened.
Boot ==
    /\ phase = "down"
    /\ phase' = "reconciling"
    /\ todo' = {v \in VMs : Present(v)}
    /\ UNCHANGED <<row, born, host, fix, crashes, req>>

\* Mutant: Reconcile leaves rows that were stopping alone.
ReconcileLookNotStopping(v) ==
    /\ phase = "reconciling" /\ fix = Looking /\ v \in todo
    /\ todo' = todo \ {v}
    /\ fix' = IF row[v].state \in {"running", "starting"} /\ ~PGrep(NameOf[v])
              THEN [pc |-> "umount", vm |-> v] ELSE fix
    /\ UNCHANGED <<row, born, host, phase, crashes, req>>

\* Reconcile looks at the next row: one in a running or passing state without a
\* process is to be cleaned up and recorded.
ReconcileLook(v) ==
    /\ phase = "reconciling" /\ fix = Looking /\ v \in todo
    /\ todo' = todo \ {v}
    /\ fix' = IF row[v].state \in {"running", "starting", "stopping"} /\ ~PGrep(NameOf[v])
              THEN [pc |-> "umount", vm |-> v] ELSE fix
    /\ UNCHANGED <<row, born, host, phase, crashes, req>>

FixAt(l) == fix.pc = l
FixGoto(l) == fix' = [fix EXCEPT !.pc = l]

\* cleanupVMRuntime, whose errors Reconcile only writes into last_error.
ReconcileUmount ==
    LET n == NameOf[fix.vm]
    IN /\ FixAt("umount")
       /\ \/ mounted' = [mounted EXCEPT ![n] = FALSE]
          \/ "busy" \in Faults /\ mounted[n] /\ UNCHANGED mounted
       /\ FixGoto("wipe")
       /\ UNCHANGED <<row, born, proc, cfg, tap, disk, kernels, phase, todo, crashes, req>>

ReconcileWipe ==
    /\ FixAt("wipe")
    /\ RemoveJail(NameOf[fix.vm])
    /\ FixGoto("tap")
    /\ UNCHANGED <<row, born, proc, cfg, tap, mounted, phase, todo, crashes, req>>

ReconcileTap ==
    /\ FixAt("tap")
    /\ tap' \in {tap, [tap EXCEPT ![fix.vm] = FALSE]}
    /\ FixGoto("write")
    /\ UNCHANGED <<row, born, proc, cfg, mounted, disk, kernels, phase, todo, crashes, req>>

\* Mutant: last_error is left as it was.
ReconcileWriteSilent ==
    /\ FixAt("write")
    /\ row' = Saved(fix.vm, [row[fix.vm] EXCEPT !.state = "stopped"])
    /\ fix' = Looking
    /\ UNCHANGED <<born, host, phase, todo, crashes, req>>

\* UpdateVM: stopped, with a last_error in any case.
ReconcileWrite ==
    /\ FixAt("write")
    /\ row' = Saved(fix.vm, [row[fix.vm] EXCEPT !.state = "stopped", !.err = TRUE])
    /\ fix' = Looking
    /\ UNCHANGED <<born, host, phase, todo, crashes, req>>

\* The next step of Reconcile, which the daemon takes before anything else.
Reconcile ==
    \/ \E v \in VMs : ReconcileLook(v)
    \/ ReconcileUmount \/ ReconcileWipe \/ ReconcileTap \/ ReconcileWrite

Serve ==
    /\ phase = "reconciling" /\ todo = {} /\ fix = Looking
    /\ phase' = "serving"
    /\ UNCHANGED <<row, born, host, todo, fix, crashes, req>>

\* A guest powers off or its Firecracker dies: nobody tells the daemon.
GuestExit(n) ==
    /\ Alive(n)
    /\ proc' = [proc EXCEPT ![n] = "exited"]
    /\ UNCHANGED <<row, born, cfg, tap, mounted, disk, kernels, daemon, req>>

-----------------------------------------------------------------------------
\* What a handler does next.
Step(r) ==
    \/ CreateCheck(r) \/ CreateRootFS(r) \/ CreateInsert(r)
    \/ StartRead(r) \/ StartMark(r) \/ StartNet(r) \/ StartKill(r)
    \/ StartUmount(r) \/ StartWipe(r) \/ StartSpawn(r) \/ StartMount(r)
    \/ StartBoot(r) \/ StartCommit(r) \/ StartFail(r)
    \/ StopRead(r) \/ StopMark(r) \/ StopKill(r) \/ StopUmount(r)
    \/ StopWipe(r) \/ StopTap(r) \/ StopCommit(r)
    \/ DeleteRead(r) \/ DeleteFiles(r) \/ DeleteRow(r)
    \/ ResizeRead(r) \/ ResizeReread(r) \/ ResizeWrite(r) \/ RestartCheck(r)
    \/ OrphanRows(r) \/ OrphanLinks(r) \/ OrphanDelete(r)

Next ==
    \/ \E r \in Requests : Request(r) \/ Disconnect(r) \/ Step(r)
    \/ Crash \/ Boot \/ Reconcile \/ Serve
    \/ \E n \in Names : GuestExit(n)

Spec == Init /\ [][Next]_vars

\* A goroutine that can go on goes on (none of these steps waits for another
\* handler) and the daemon comes up again; clients, guests and crashes owe
\* nothing.
Fairness ==
    /\ \A r \in Requests : WF_vars(Step(r))
    /\ WF_vars(Boot) /\ WF_vars(Reconcile) /\ WF_vars(Serve)

FairSpec == Spec /\ Fairness

-----------------------------------------------------------------------------
(* Properties.                                                             *)

\* A row that is not in a passing state tells the truth about the host, at every
\* step of every request and of Reconcile and across crashes, whatever clients and
\* umount did to the requests before (StartVM, StopVM, UpdateResources, Reconcile).
\* A running VM was booted with the size the row shows.  It has its TAP, and a
\* Firecracker or one that exited by itself, with two exceptions: pkill for a name
\* that matches its own may have taken the process, and while the daemon is not
\* serving yet Reconcile may have cleared the TAP of a process that is gone away,
\* which it does before it writes the row.  A stopped VM has no process, and without
\* a last_error neither TAP nor mounts.
SettledConsistent ==
    \A v \in VMs :
        LET n == NameOf[v]
        IN /\ row[v].state = "running" =>
                /\ proc[n] \in {"up", "exited"} \/ (proc[n] = "none" /\ KilledByOthers(n))
                /\ cfg[n] = row[v].size
                /\ tap[v] \/ (phase # "serving" /\ ~PGrep(n))
           /\ row[v].state = "stopped" =>
                ~Alive(n) /\ (~row[v].err => ~tap[v] /\ ~mounted[n])

\* While no VM has a name, nothing of one that had it is on the host: DeleteVM
\* deletes the row only after a StopVM whose clean-up went through.
NothingLeftBehind ==
    \A n \in Names :
        ~NameTaken(n) =>
            /\ ~Alive(n) /\ ~mounted[n]
            /\ \A v \in VMs : NameOf[v] = n => ~tap[v]

\* Removing a jail never reaches through its bind mounts: a start, a stop, a
\* delete or a reconciliation loses no VM its rootfs and the host no kernel.
DisksIntact == kernels /\ \A n \in Names : disk[n] # "wiped"

\* A VM that is starting or stopping gets out of it: every way out of StartVM and
\* StopVM writes the row, and if the daemon dies before that, Reconcile does, unless
\* there is something left for pgrep to find, which nobody follows up.
TransitResolves ==
    \A v \in VMs :
        LET transit == row[v].state \in {"starting", "stopping"}
            traces == Traces(NameOf[v])
        IN transit /\ (crashes = 0 \/ (phase # "serving" /\ ~traces))
             ~> ~transit \/ (crashes > 0 /\ traces)

\* A deleted VM stays deleted: a handler that still holds a copy of the row
\* does not bring it back with its whole-row write.
DeletedStaysDeleted ==
    [][\A v \in VMs : ~Present(v) /\ row'[v].state # "absent" =>
          \E r \in Requests : At(r, "create_insert") /\ req[r].vm = v]_vars

\* When the daemon opens for requests, no row claims a process of which pgrep's
\* pattern finds nothing, but for one that exited since Reconcile looked: it looked
\* at every row of those states, and recorded the VM before it went on.
ServesReconciled ==
    [][phase = "reconciling" /\ phase' = "serving" =>
         \A v \in VMs : row[v].state \in {"running", "starting", "stopping"} =>
             Traces(NameOf[v])]_vars
=============================================================================
