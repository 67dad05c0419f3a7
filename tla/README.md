# A TLA+ development of bap-web

bap-web is a Go control plane for Firecracker microVMs: a web UI and a JSON API
over one SQLite database, which create, start, stop, resize and delete VMs on one
host, run commands in them, and manage their networks, kernels and images. This
directory holds TLA+ modules of its core, the TLC configurations that check them
on small instances, and proofs of the main results that TLAPS checks for every
value of the constants. Paths below are relative to the repository's `internal/`.

## The system

| component | state | operations | what is hard about it |
|---|---|---|---|
| VM lifecycle (`lifecycle/service.go`) | rows of `vms`; per VM a Firecracker process, a TAP, a jail with two bind mounts, a rootfs file | CreateVM, StartVM, StopVM, RestartVM, UpdateResources, DeleteVM, CleanupHostOrphans, Reconcile | no lock per VM; `UpdateVM` writes whole rows from old copies; host commands die with the request's context, `os.RemoveAll` does not; daemon crash |
| Exec jobs (`lifecycle/service.go`) | `vm_exec_jobs`, `execCancels`, a log file per job, a goroutine per job | StartVMExecJob, CancelVMExecJob, runVMExecJob | cancel against runner, deletion under a runner, disconnects |
| Allocation (`lifecycle/service.go`, `store/store.go`) | `vms.ssh_port`, `guest_ip`, `networks`, `ingress_rules` | allocatePort, allocateP2P, allocateShared, CreateNetwork, DeleteNetwork, AddIngressRule | check first, insert seconds later; uint32 arithmetic |
| Firewall (`lifecycle/service.go`) | the nftables table `bap_web` | applyNFT, SetVMEgressPolicy, ingress and egress operations | rebuilt command by command from a list of rows, by any handler, without a lock |
| Web terminal (`lifecycle/service.go`) | `terminalKeys`, two channels and six goroutines per session | SSHTerminal, newEphemeralTerminalSigner, AuthorizedKeys | results arriving in any order, full channels, keys that expire |
| Kernel registry (`lifecycle/kernels.go`) | `kernels`, `kernel_test_jobs`, discovery jobs and items, files | import, upload, test, discover, update, delete | tests and admins write whole rows; jobs survive no restart |
| Base images (`lifecycle/images.go`) | `base_images`, `image_build_jobs`, `image_hooks`, files | register, build, status, delete, hooks | one build at a time, timeout after the lock |
| Sessions and tokens (`app/app.go`, `store/store.go`) | `users`, `sessions`, `api_tokens` | setup, login, logout, token create and revoke, requireAuth | check then act, expiry, revocation |
| Store (`store/store.go`) | one SQLite connection | one statement per call | atomic statements, hardly any transaction |
| HTTP layer, daemon, UI, configuration, key generation | none that lasts | routing, decoding, rendering, start-up | contexts that die with their client |

Everything meets in two places: the database, where each statement is atomic
(`SetMaxOpenConns(1)`) and nothing wider is, and the host, where processes, TAPs,
mounts and files outlive both the request and the daemon (`KillMode=process`).
Handlers call the lifecycle service directly, in the goroutine of the request; exec
jobs, kernel tests, builds and discovery run in goroutines of their own. The one
callback is the guest's: it fetches its authorized keys from the metadata server.

What makes each component correct:

* VM lifecycle: a row in a settled state tells the truth about the host; a deleted VM
  leaves nothing on the host and does not come back; no operation loses a disk;
  transient states end.
* Exec jobs: every job ends; a cancel holds; log and row agree.
* Allocation: no two VMs or rules share a port or an address; networks do not
  overlap; what a VM refers to exists.
* Firewall: once handlers are quiet, the table is the one the rows describe.
* Terminal: all goroutines end; output is delivered, in order.
* Kernels, images: only tested kernels are offered; jobs end; files in use stay.
* Sessions, tokens: one first administrator; nothing is accepted after revocation,
  logout or expiry.

## Modules

`VMLifecycle.tla` is the host and the `vms` table with any number of request handlers.
A handler is a frame `req[r]`: the operation, a program counter, the VM, the row as
last read (`snap`, the Go `vm` variable), the parameters, the collected clean-up errors
(`bad`) and whether its context is live (`live`). Its steps are cut at each access that
others can see, in source order:

| Go | actions |
|---|---|
| CreateVM, prepareRootFS | CreateCheck, CreateRootFS, CreateInsert |
| StartVM, startFirecracker, failVM | StartRead, StartMark, StartNet, StartKill, StartUmount, StartWipe, StartSpawn, StartMount, StartBoot, StartCommit, StartFail |
| StopVM, cleanupVMRuntime | StopRead, StopMark, StopKill, StopUmount, StopWipe, StopTap, StopCommit |
| DeleteVM | DeleteRead, all of StopVM, DeleteFiles, DeleteRow |
| UpdateResources | ResizeRead, StopVM, ResizeReread, ResizeWrite, StartVM |
| RestartVM | StopVM, StartVM; with a size UpdateResources, then RestartCheck |
| HostOrphans, CleanupHostOrphans | OrphanRows, OrphanLinks, OrphanDelete |
| Reconcile, cleanupVMRuntime | Boot; per row ReconcileLook and, without a process, ReconcileUmount, ReconcileWipe, ReconcileTap, ReconcileWrite; Serve |
| daemon | Crash |
| outside | Request, Disconnect, GuestExit |

A VM's row and TAP are keyed by its id; the process, the jail's mounts and the rootfs
file by its name, as in the code, so that a second VM that takes a name over meets what
the first one left. `MatchedBy` is what `pkill -f` and `pgrep -f` match for a name.
`disk[n]` is "wiped" when `os.RemoveAll` went through a live bind mount, and `kernels`
turns FALSE when it did so into the kernel directory. `Faults` switches disconnects and
busy unmounts on; failures of the other commands of a start are always possible.
Reconcile has a frame of its own, `fix`: the VM it cleans up, and the step. It goes on
whatever its clean-up says, and the daemon may die between any two of its steps. It runs
under context.Background (app.go:82), so that nothing cancels it but the end of the
process, which is a Crash; errors of its own statements, which app.go only logs, are left out.

`ExecJobs.tla` is the exec jobs of one VM: handlers that start and cancel, a runner per
job, the `execCancels` map, the context of each runner (`dead`), the row and the log
file. StartVM, StopVM and DeleteVM appear as what jobs see of them; since requests may
overlap, the VM may be running again when DeleteVM removes its jobs.

`Allocation.tla` is what handlers take from the host's ports and from `vm_cidr`: the
tables `vms`, `networks` and `ingress_rules` (their port and address columns), and one
step per statement that reads or writes them:

| Go | actions |
|---|---|
| CreateVM: allocatePort | CreateArrive (SSH ports), CreatePort (ingress ports, verdict) |
| CreateVM: allocateP2P | CreateRouted (guest addresses), allocateP2P (networks, verdict) |
| CreateVM: shared_bridge | CreateShared, ListNetworks, CreateUsable, allocateShared |
| CreateVM: the row | InsertVM |
| StartVM: ensureVMNetworkUsable | StartArrive, StartShared, ListNetworks, StartUsable, StartProceed |
| DeleteVM: Store.DeleteVM | DeleteArrive, DeleteRules, DeleteRow |
| AddIngressRule, DeleteIngressRule | IngressArrive, IngressPort, InsertRule; UnruleArrive, DeleteRule |
| CreateNetwork, DeleteNetwork | NetworkArrive, NetworkCheck, InsertNetwork; UnnetArrive, CountVMs, DeleteNetwork |
| an error or a disconnect, anywhere | Fail |

An address is its offset in `vm_cidr`, a CIDR the interval of its addresses; `Slash30` is
what masking does. A handler's frame holds what it has read: ports or guest addresses
(`used`), networks (`avoid`), the place it is about to take (`port`, `cidr`, `host`,
`guest`). Two parts of the state are history: `before`, the rows that were there when a
request arrived and still are, and `raced`, whether two requests were ever at work at once.

`KernelRegistry.tla` is the table `kernels` and the directories behind it, the test jobs
with the VM each of them boots, the discovery jobs with their items, and the `vms` rows as
far as they name a kernel. Handlers (`req`), tests (`test`) and scans (`finder`) are
goroutines of their own; the last two outlive the request that started them.

| Go | actions |
|---|---|
| UploadKernel, ImportFirecrackerCIKernel, RegisterKernel | AddArrive or ItemArrive and ImportLook, Fetch, Register, MarkItem |
| UpdateKernel | UpdateArrive, UpdateKernel |
| DeleteKernel, Store.DeleteKernel | DeleteArrive, DeleteSelect, DeleteCount, DeleteJobs, DeleteRow, DeleteFiles |
| CreateVM (resolveKernelForVM, the row), DeleteVM | CreateArrive, CreateInsert; DeleteVM |
| StartKernelTest, runKernelTest | TestArrive, StartKernelTest; TestMark, TestResolve, TestInsertVM, TestBoot, TestFail, TestCleanup, TestSaveWon, TestSetActive, TestSetFailed, TestSaveLost |
| StartKernelDiscovery, runKernelDiscovery | StartKernelDiscovery; ScanLock, ScanList, ScanReplace, ScanEnd |
| an error or a disconnect, anywhere | Fail |
| daemon, EnsureDefaultKernel | Crash |

A kernel's directory has its id, since the code draws a new one for each; the configured
kernel's file (`Configured`) lies in none of them and always exists. Of a row, only the status
ever changes, so that a stale copy is a stale status. Tests and scans draw their ids from
one pool. Two parts of the state are history: `vouched`, the kernels that an
administrator, the configuration or a successful boot has called good; and `cut`, the jobs
a crash or a failed clean-up has cut and the kernels whose directory was left behind.

`ImageBuild.tla` is the table `base_images` with the files behind it, the build jobs with
their mounts, and the `vms` rows as far as they name an image. A build (`build`) holds
imageBuildMu from BuildLock to BuildEnd.

| Go | actions |
|---|---|
| RegisterBaseImage | RegisterArrive, RegisterBaseImage |
| UpdateBaseImageStatus | UpdateArrive, UpdateBaseImageStatus |
| DeleteBaseImage, Store.DeleteBaseImage | DeleteArrive, DeleteCount, DeleteRow, DeleteFile |
| CreateVM (resolveBaseImageForVM, the row), DeleteVM | CreateArrive, CreateInsert; DeleteVM |
| StartImageBuild, runImageBuild | StartImageBuild; BuildLock, BuildEnd |
| buildBaseImage | BuildCreate, BuildMount, BuildBind, MountFail, BuildHooks, BuildUnbind, BuildUmount, BuildInsert, BuildFail, BuildCleanup |
| an error or a disconnect, anywhere | Fail |
| daemon, EnsureDefaultBaseImage | Crash |

What is really mounted (`mnt`) and what the build remembers to undo (`held`: the Go
variables mounted, devBinds and pseudoMounts) are kept apart. A file is "raw" while it is
filled, "ok" once it is unmounted, and "wiped" when os.RemoveAll of the build directory
went through its mount. Three sets are history: `died`, the jobs a crash has cut;
`stuck`, those with an umount that failed or a mount nobody remembered; and `late`, the VMs
that were inserted after a deletion of their image had counted its users.

`Firewall.tla` is the nftables table `bap_web` and everything that makes somebody rebuild
it: rows of `vms` (state and egress choice), `egress_policies` and `ingress_rules`.

| Go | actions |
|---|---|
| applyNFT, egressNFTRules | List, Drop, Raise, then per VM NextVM, ReadEgress, Fill; Applied |
| StartVM, failVM | Read, Mark, applyNFT, Commit, Failed |
| StopVM, DeleteVM, Store.DeleteVM | Read, Mark, Commit, applyNFT, Forget, Erase |
| SetVMEgressPolicy | Read, Check, SetWrite, applyNFT |
| UpdateResources of a VM that is not running | Read, ResizeWrite |
| CreateVM, as far as it names a policy | Check, CreateWrite |
| AddIngressRule, DeleteIngressRule | Read, AllowWrite or RevokeWrite, applyNFT |
| CleanupHostOrphans | applyNFT |
| CreateEgressPolicy, DeleteEgressPolicy | NewPolicy; CountUsers, DropPolicy |
| an error or a disconnect, anywhere | Fail |
| daemon, Reconcile | Crash, BootList, BootRow, BootApply |

A handler's frame holds its copy of the row (`row`, the Go `vm`), and during a rebuild the
VMs still to do with the egress choice that was listed (`seen`), the VM in progress (`cur`)
and its ingress rules (`open`). The commands for one VM form two groups, since the code
reads two tables between them. Three parts of the state are history and no action looks at
them: `alone`, the rebuilds that nobody has disturbed; `synced`, whether one of them has
ended with nothing changed since; `overtaken`, the handlers that hold something that
another has changed. `PacketFilter.tla` is what applyNFT promises, without table or
handlers: the rows ask for rules (`wanted`), and the filter either has no settled contents
or has exactly those. Firewall implements it with `wanted` as the rules that the rows ask
for, and `force` as the table while `synced`.

`Access.tla` is who gets in: `users`, `sessions`, `api_tokens` and a clock. A handler has
what it is asked for (`ask`: operation, credential, target), a program counter, the time or
deadline it has read (`time`), and its requestUser (`who`).

| Go | actions |
|---|---|
| setupPost | SetupCheck, SetupCreate |
| loginPost | LoginLookup, LoginOpen |
| currentUser, requireAuth | SessionRead, SessionCheck, SessionExpire, SessionUser, TouchSession |
| currentTokenUser, requireAuth | TokenRead, TokenCheck |
| logoutPost | Logout |
| createAPIToken, revokeAPIToken | MintCheck, MintInsert; RevokeRead, RevokeWrite |
| any other page | ServePage |
| an error or a disconnect, anywhere | Fail |

`entitled` is history: the handlers whose session, token or setup was in order at some
moment since they began.

`Terminal.tla` is one web terminal: the goroutines of wsTerminal and SSHTerminal, the SSH
channel (`remote`, and per stream the chunks that have arrived and been read), the
channels `outputCh` and `errCh`, the WebSocket (`conn`, `sent`), and whether the daemon
lives.

| Go | actions |
|---|---|
| wsTerminal, SSHTerminal | Dial, Select, the deferred CloseDone and CloseClient, Report, ReportEnd, CloseConn |
| readerToTerminalOutput, twice | ReaderRead, ReaderPut |
| the goroutine behind outputWG | CloseOutput |
| terminalOutputToWS | WriterTake, WriterBegin, WriterEnd, sendTerminalResult |
| wsToWriter | InputRead, InputWrite, sendTerminalResult |
| the goroutine of session.Wait | Wait, sendTerminalResult |
| outside | Arrive, ShellEnds, BrowserLeaves |

A select with both cases ready may take either. WriteMessage takes time: the library
panics when it notices that another goroutine is in it, and nothing makes it notice.

`MCVMLifecycle.tla`, `MCAllocation.tla`, `MCKernelRegistry.tla`, `MCFirewall.tla` and
`MCAccess.tla` give their modules small instances; ExecJobs, ImageBuild and Terminal are
checked as they are. The modules whose names end in `_proofs` hold the theorems.

## What the runs check

| run | instance | result |
|---|---|---|
| `vm_settled` (VMSettled.cfg) | two ids in turn under one name, two sizes, one request at a time, all operations, disconnects, busy unmounts, two crashes | TypeOK, SettledConsistent, NothingLeftBehind hold (1.7 million states) |
| `vm_pair` (VMPair.cfg) | two names, one of which matches the other's process too, one size, creates, starts and stops, two requests on different names, no faults, two crashes, fairness | SettledConsistent, DisksIntact, TransitResolves hold (950 thousand states) |
| `vm_overlap` (VMOverlap.cfg) | two ids of one name, two overlapping requests, two crashes | DeletedStaysDeleted, ServesReconciled hold (2.4 million states) |
| `vm_disconnect_disk` | one request, disconnects | DisksIntact is violated |
| `exec_jobs` (ExecJobs.cfg) | one job, two handlers, disconnects, one crash, deletion, fairness | TypeOK, LogAgrees, JobsResolve, CancelHolds hold (118 thousand states) |
| `alloc_shared` (AllocShared.cfg) | a vm_cidr of two /30s, two VMs, two networks out of five CIDRs, a rule, two ports, two overlapping requests of any kind, failures | TypeOK, RoutedDisjoint, GuestUsable, LastingRespected, SerialSound, RoomFound hold (2.5 million states) |
| `kernel_tests` (KernelTests.cfg) | two kernels, a VM, a test job, two overlapping requests, two goroutines at work at once, one crash | TypeOK, OnlyVouched, TestsSettle hold (4.7 million states) |
| `kernel_imports` (KernelImports.cfg) | two kernels, a kernel in the bucket, a scan or test job, the same bounds | FilesMatch, ScansSettle hold (3.7 million states) |
| `image_builds` (ImageBuild.cfg) | an image id, a VM, two builds, two overlapping requests, two goroutines at work at once, one crash, fairness | TypeOK, BuiltIntact, BuildsSettle, VMsHaveImage, BuildsEnd hold (545 thousand states) |
| `firewall` (Firewall.cfg) | a VM, a policy, a rule, two overlapping handlers of any operation and the one that reconciles, one failure or crash | TypeOK, Implements, ChoiceHolds, PoliciesThere hold (4.5 million states) |
| `access` (Access.cfg) | two users, a session, a token, two overlapping requests, idle timeout and token lifetime of one tick, absolute timeout of two, three ticks | TypeOK, ServedEntitled, EndsForGood, NoEarlyEnd hold (4.9 million states) |
| `terminal` (Terminal.cfg) | two chunks per stream, an outputCh of one, an errCh of five, fairness | TypeOK, Delivered, Flows hold (400 thousand states) |

What the passing ones mean:

* SettledConsistent: a row in state running has a process (or had one that exited by
  itself) configured with the row's size, and a TAP; a stopped row has no process, and
  unless it carries a `last_error` neither TAP nor mounts. It holds at every step, in the
  middle of requests too, and survives disconnects, failing clean-ups and crashes: a
  handler writes a passing state before it touches the host, and every error path either
  leaves another state or sets `last_error`. Two exceptions are part of it. Reconcile
  removes the TAP of a VM whose process is gone before it writes the row, so that until
  the daemon serves, across any number of crashes, a running row without a process may
  lack its TAP. And pkill for another name may have taken the process (`KilledByOthers`);
  `vm_pair` has two such names.
* NothingLeftBehind: while a name is free, it has no process, mounts or TAP on the host;
  DeleteVM goes on only after a StopVM that returned nil.
* DisksIntact: no removal of a jail, by a request or by Reconcile, reaches a disk, even if
  the daemon died with the jail's mounts in place.
* TransitResolves: starting and stopping end. A crash leaves such a row behind, and the
  next Reconcile writes it, unless there is a process of the VM, which nobody then follows up.
* DeletedStaysDeleted: holds even when requests overlap, by UPDATE matching no row.
* ServesReconciled: when the listener opens, no row in a running or passing state is
  one for which pgrep's pattern finds nothing, not even a process that exited after
  Reconcile looked, whatever overlapping requests and an earlier Reconcile had left when
  the daemon died.
* JobsResolve, CancelHolds, LogAgrees: jobs end in the ways the code provides for;
  a cancel written while the runner can still see it is final; log and row agree.
* RoutedDisjoint, GuestUsable: hold however requests interleave. Two routed VMs stay
  apart although allocateP2P never looks at another VM's /30: blocks start at multiples
  of four, and UNIQUE(guest_ip) has the last word. A VM in a shared network keeps an
  address that is neither the network's, the broadcast nor the gateway's.
* LastingRespected: a request that goes on to write, or to start, a range of addresses
  has found everything that was there when it arrived and still is, although it read
  networks and VMs in two statements.
* SerialSound, RoomFound: while no two requests overlap in time, ranges and ports are
  disjoint, rules have their VM and VMs their network, whatever sequence of requests
  and failures came before; and allocateP2P refuses only a vm_cidr that is full.
* OnlyVouched: KERNELS.md says that only active kernels are offered. A kernel is active,
  and a client's VM uses it, only if somebody or something has vouched for it, however
  tests, renames with a stale status, deletions and restarts mix.
* TestsSettle, ScansSettle: a test or scan that has returned has ended its job, a test's
  VM is gone, and a job that succeeded has its result. Crashes and failed clean-ups are
  exempt, and only for the job they cut.
* FilesMatch: a row's file is there, and a directory without a row belongs to a handler
  at work or was left by a crash or a failed removal, even with two deletions of one kernel.
* VMsHaveImage: DeleteBaseImage counts the VMs of an image and deletes it in a later
  statement, and vms.base_image_id is no foreign key. A VM whose image is gone was inserted
  after that count: however creates, failing and concurrent deletions, registrations and
  restarts mix, no VM that was there to be counted loses its image.
* BuiltIntact: the row of a built image stands for a file that was filled, unmounted and
  wiped by nobody, although every umount may fail and nobody looks at most of them.
* BuildsSettle, BuildsEnd: a build that has returned has ended, with an image if and only
  if it succeeded, and without mounts unless an umount failed; every queued build ends.
* Implements: Firewall implements PacketFilter. A rebuild that has not failed and during
  which no row and no part of the table was changed by others ends with exactly the rules
  that the rows ask for, whatever half-done rebuilds were there before; and the table stays
  so until somebody changes one of them.
* ChoiceHolds, PoliciesThere: there is no lock, so a stale write may undo an egress choice,
  or bring in a policy that is gone; but only one by a handler that really has been
  overtaken between its read and its write. Any single-threaded sequence of operations,
  failures and crashes keeps both.
* ServedEntitled: a handler that goes past its checks was entitled to at some moment since
  it began. So a request that begins after a logout, revocation, timeout or setup is
  refused; only one that was in flight may still be served.
* EndsForGood, NoEarlyEnd: no touch brings a deleted session back, nor one past its
  absolute timeout; and a live session is deleted only by its logout, or by a request that
  read the row, saw that the idle timeout had passed, and deletes it although another
  request has extended it since.
* Delivered, Flows: each stream reaches the browser in order and without gaps; when the
  session ends well all of it has; output flows while both sides last; and after the first
  result every goroutine of the session ends, wherever it was blocked, unless the daemon dies
  of two goroutines in WriteMessage.

Properties are stated where the code can keep them. SettledConsistent,
NothingLeftBehind and DisksIntact assume that clients keep one request in flight per
VM name (`Exclusive`): nothing in the code serialises overlapping requests, and then
a delete can pass a start and leave its process, or a wipe can meet a new mount; these
are listed as hazards. DisksIntact and TransitResolves are also false under
disconnects (the finding below, and the first of the limits after it). JobsResolve
exempts daemon crashes (nothing looks at jobs at start-up) and the window between
CancelVMExecJob's call of the cancel function and its write.

SerialSound and RoomFound assume requests that do not overlap (`raced` is FALSE): the
handlers check first and insert last, and only UNIQUE columns guard the insert. With
overlapping requests a network may meet a routed VM, a rule may outlive its VM, a VM its
network, and a port may be given away twice; they are listed as hazards.

The registries count the VMs that use a row and delete it in a later statement, while
CreateVM inserts its row long after it has read kernel and image: a VM that comes in
between refers to nothing. VMsHaveImage leaves out exactly these VMs (`late`); the race
is listed as a hazard.

### Finding

*A stop whose client goes away can delete the VM's disk* (`vm_disconnect_disk`). pkill and
both umounts run under the request's context and fail at once when it is cancelled;
`os.RemoveAll` of the jail does not ask it and descends into the bind mounts.
API_FOR_AGENTS.md:227 recommends stop to pause a VM.

### Limits met on the way

No run is kept for these; each is what a property above had to leave out.

* A client that goes away strands a VM: the last write of StartVM, StopVM and failVM uses
  the cancelled context, and the row stays starting or stopping, although
  API_FOR_AGENTS.md:191 tells clients to poll until the state is running or error.
* A cancel can be overwritten: runVMExecJob writes "running" from a copy read before it.
  CancelHolds speaks of cancels that the runner can still see.
* One host port for two guests: CreateVM and AddIngressRule each check the other's table and
  insert later, and no constraint relates the tables (API_FOR_AGENTS.md:176 says that a
  host_port must not collide). PortsDisjoint, a part of SerialSound, holds without overlaps.
* pkill and pgrep match any command line in which the name occurs: with VMs web and web2, a
  stop of web kills web2, whose row goes on saying running, and Reconcile takes web2's
  process for web's. Nothing keeps names from containing each other. SettledConsistent and
  ServesReconciled say what holds all the same.
* Two rebuilds at once may leave the table with rules missing, or with those of older rows,
  until the next one; so may a rebuild whose `nft delete table` failed, since its outcome
  is ignored. After a crash between StopVM's last write and its rebuild, Reconcile does not
  rebuild at all if no row claims a process, and the rules of the stopped VM stay.
* Two imports of one discovered kernel at once, under different names, both fetch and
  register it: findKernelByProvenance looks, the INSERT comes after the download, and only
  name and path are UNIQUE.
* A VM that names a deleted egress policy ends every rebuild, and so every start.
* Two setups at once may both create an admin. logoutPost does not look at the outcome of
  DeleteSession, so a logout may leave the session alive; expired sessions that nobody
  presents again are never removed.
* wsTerminal's error message may meet the writer goroutine in WriteMessage, and the panic in
  the latter ends the daemon. A shell's exit status other than 0 may overtake its last output.

### Bounds

Two ids and two names or one name cover every interaction: the code relates two VMs
only through pkill's pattern, the name's uniqueness, and what a name leaves to its next
owner. Two sizes are enough to tell a stale configuration from the current one. Two
requests give every pairwise overlap; one crash and the restart after it meet every
point of a request, and a second crash every point of that restart. `vm_pair` leaves
deletion and the requests made of other ones out, to fit two VMs, two crashes and liveness;
`vm_settled` has them all, and the proof of DisksIntact covers them.
Each id is created once, so the state space is finite. A single job
is enough for exec jobs: jobs share only the map, by distinct keys. Values that no
property tells apart (in VMLifecycle and ExecJobs ports and addresses, outside the
registries kernel and image, everywhere timestamps and error texts) are left out. `Alike`
(permutations of the two handlers and of two ids of one name) is used in `vm_overlap`, which
checks no liveness.

For Allocation, a vm_cidr of two /30s has a first and a last block; the CIDRs asked for
are each block, the whole, a /31 (too small) and one outside, so that routed VMs and
networks compete for the same addresses and a /30 network has room for one guest. The
gateways tried are one at a usable address and one at a broadcast address, besides the
default. Two ports in the range, one of them asked for by ingress rules, make both
tables meet. Ids are reused once no row or frame knows them, which keeps the state
space finite without a cap. The proofs lift all of these bounds.

For KernelRegistry, two kernels are the configured and another one, or two of any source.
`MaxAtWork` = 2 limits handlers, tests and scans at work at once to pairs, and there are two
handlers, so that every pair of operations overlaps. The two configurations leave out the
bucket and the VMs in turn; a test job without VMs in `kernel_imports` fails early, and
scans need no VM. Ids of kernels are reused once nothing knows them, but a directory that a
crash has left behind keeps its id for ever: when both are used up the model stops, not the
program, hence CHECK_DEADLOCK FALSE. `MCSymmetry` permutes kernels and handlers, which no
definition names; no liveness is checked there.

For Firewall, one VM, one rule, one policy and one mode are enough: rebuilds interact
through the one table and the rows of a VM, and VMs only through the policy they name. Two
handlers and Reconcile give every overlap of two operations; one fault meets every point of
them. For Access, a session and a token are credential and target of both requests at once;
the clock passes the idle timeout, then the absolute one. With two users there is an owner
other than the one who asks. The proofs lift the bounds of both modules. For Terminal, an
outputCh of one chunk is full at once, as 64 are after a while; two chunks per stream show
order and gaps; errCh has its five places, of which at most five are ever taken, one per
goroutine that reports.

For ImageBuild, two builds queue up, and one image id is enough: rows meet only in
UNIQUE(path), and a build or a registration that finds the id taken fails as it would on a
taken name. `MaxAtWork` = 2 again gives every pair of builds and requests.

### Fairness

Weak fairness of each handler's and runner's next step, of Boot, Serve and of each turn
of Reconcile. A goroutine that can run is run by the Go scheduler; no step waits for
another handler (the database's connection and the mutexes are held for one step); each
command or socket wait is bounded (`waitSocket`: 15 seconds; commands end or are killed
with their context). A guest's command ends by itself, by its timeout, or when TCP gives
up on the guest. The daemon is restarted by systemd. Requests, disconnects, guests and
crashes have no fairness. In ImageBuild the steps of a build are weakly fair (its commands
run under BuildTimeout), and taking imageBuildMu is strongly fair: a sync.Mutex that
somebody has waited for longer than a millisecond is handed to the longest waiter. In
Terminal each goroutine is weakly fair, but for reading input that the browser never sends;
an open WebSocket takes what is written to it. Firewall and Access check safety only.

## What is proved

For every value of the constants (sets of VMs, names, requests, users and so on, timeouts,
numbers of crashes):

| theorem | statement | argument |
|---|---|---|
| VMLifecycle_proofs!TypeCorrect | TypeOK | TypeInv, with what the frames need: a handler on a VM has one that was drawn |
| DeletedForGood | DeletedStaysDeleted | every other write goes through Saved |
| DisksKept | DisksIntact | assuming `Exclusive` and no faults; see below |
| RowsSettled, NothingLeft | SettledConsistent, NothingLeftBehind | SettledInv, assuming `Exclusive`, under any faults and for any names; see below |
| ReconciledFirst | ServesReconciled | ReconcileInv, assuming nothing; see below |
| ExecJobs_proofs!TypeCorrect | TypeOK | TypeInv: a cancelling handler has a started job, a runner that commits has an outcome |
| LogsAgree | LogAgrees | LogInv: an outcome is in the row only from the commit on, and equals the runner's outcome until the log is written |
| CancelsHold | CancelHolds | Held: the set of row and runner positions from which no write follows is closed under every step |
| Allocation_proofs!TypeCorrect | TypeOK | the sets that the handlers read are sets of numbers and intervals |
| RoutedNeverOverlap, GuestsUsable, LastingHeeded | RoutedDisjoint, GuestUsable, LastingRespected | AllocInv; see below |
| SerialAllocationsSound, RoomAlwaysFound | SerialSound, RoomFound | SerialInv, on top of AllocInv; see below |
| ImageBuild_proofs!TypeCorrect, BuiltImagesWhole, BuildsDoSettle, ImagesOfVMs | TypeOK, BuiltIntact, BuildsSettle, VMsHaveImage | IInv, and Kept for the last; see below |
| Firewall_proofs!TypeCorrect, FirewallImplements | TypeOK, Implements | TypeInv (`Shape` of each frame), Tight; see below |
| ChoicesHold, PoliciesKept | ChoiceHolds, PoliciesThere | Held: what a handler holds is true until it is overtaken; see below |
| KernelRegistry_proofs!TypeCorrect, FilesDoMatch, OnlyVouchedUsed, TestsDoSettle, ScansDoSettle | TypeOK, FilesMatch, OnlyVouched, TestsSettle, ScansSettle | IInv; see below |
| Terminal_proofs!TypeCorrect, OutputDelivered | TypeOK, Delivered | TypeInv, Flow; see below |
| Access_proofs!TypeCorrect | TypeOK | TypeInv: program counter and request fit (`Fits`) |
| ServedRight, EndsHold, LiveStays | ServedEntitled, EndsForGood, NoEarlyEnd | ServedInv; see below |

ReconcileInv says that no handler is at work unless the daemon serves (`Served`); that a VM
that Reconcile cleans up has a row that claims a process, and none (`Fixing`), which lasts
through its steps because nothing starts a process before the daemon serves; and that the
rows it is done with have one, or one that exited (`LookedAt`).

DisksKept needs the strengthening
`DiskInv == Live /\ Alone /\ Unmounted /\ FixUnmounted /\ DisksIntact`, on top of
ReconcileInv: contexts stay live without disconnects; requests on one name exclude each
other, so that nobody mounts between a handler's umount and its wipe; a handler at a wipe
has its jail unmounted, and so has Reconcile at its own, during which nobody mounts either.
A crash between any two of these steps leaves no handler at a wipe, and every start, stop
and Reconcile unmounts again before it removes.

SettledConsistent and NothingLeftBehind are not inductive: that a VM may be recorded
running depends on what its handler did four steps before. SettledInv says for each
program counter what the handler has done (`HandlerOK`): from its mark on a start has the
row in state starting and a copy that agrees with it, from StartNet on it has the TAP, and
at its commit a process with the row's size; a stop that is still connected has the row in
state stopping and, unless it has noticed an error, has undone what it is past; DeleteVM
gets beyond StopVM only with a row that is stopped without error; and an orphan clean-up
holds no TAP of a running VM. Handlers stay apart (`Alone`, `Exclusive`), so that a step
touches what only its own row speaks of. A disconnected stop is the case to look at: its
row may be in any state, and it then does nothing to processes, mounts or TAPs. `Told` adds
that an absent VM has no TAP, `Free` that a free name has neither process nor mounts, and
`OneEach` that names are unique; they are what an insert relies on. After a crash no
handler is left, and rows in a passing state say nothing until Reconcile looks at them.
Between Reconcile's removal of a TAP and its write of the row, and after a crash there, the
row is `Cleared`: its process is gone, and it is still to be looked at, so that the daemon
does not serve before it is written. `Ran` carries the other exception, a pkill for another
name, through a start that is about to commit. No assumption on names is needed.

AllocInv adds to TypeOK what a row and a frame must be for the properties to survive an
interleaving: guest addresses are unique, a routed VM's host and guest address are the
two middle ones of an aligned /30 (`RowsAligned`), and for each frame that what it knew at
its arrival is still there (`Known`), that its copies hold everything lasting (`Looking`),
that the place it chose is aligned, or inside the network it names, if that is still
there (`Placing`), and that a range it decided on is clear of everything lasting
(`Clear`). SerialInv says that while `raced` is FALSE at most one request is at work, the
tables are consistent, and that request knows all there is (`Sole`), so that what is clear
of everything lasting is clear of everything. RoomAlwaysFound follows from both and from
arithmetic: two blocks at multiples of four that overlap are one. Assumed of the
constants: kinds of ids are disjoint, CIDRs are intervals, ports are positive.

IInv ties each image that a build has made to that build. A row names one build and no
other row does (`Rows`); a build with a row has inserted it, holds nothing mounted and
will succeed (`Made`), so that its cleanup finds nothing to go through; a build that may
insert has just unmounted its image (`BuildOK`), and what is mounted is what it holds
unless the job is in `died` or `stuck`. A deletion that will remove a file has removed the
row first, and a build makes one row only, so no row stands for that file any more
(`Sound`). BuiltIntact alone is not inductive: it does not say that the file of a build
that has not inserted yet is out of the reach of deletions. Assumed of the constants: the
configured path is nobody's job. VMsHaveImage needs `Kept`: of no image of a VM that is not
late a deletion is past its count. A deletion gets there only when no VM is on the image,
and takes the row only from there.

FirewallImplements needs `Tight`: of each rebuild in `alone`, the table holds exactly the
rules wanted by the VMs that its frame has done with, plus what it has added for the VM in
progress, and its copies of egress choices and ingress rules agree with the rows; and while
`synced` the table is what the rows ask for. A disturbed rebuild leaves `alone`, so nothing
need be said of it. When an undisturbed one has no VM left, Tight is the refinement's step;
every other step either changes nothing that PacketFilter sees or unsettles it.

ChoicesHold and PoliciesKept rest on `Held`: until a handler is overtaken, the row it holds
is the row in the table, the policy it has looked up is there, and the policy it is about to
delete has no users. Assumed of the constants: kinds of ids and of rules are disjoint.

ServedInv adds to ServedEntitled what a handler knows while it is at its look at the clock:
if it will pass it has been entitled already, since the row it read was live then and the
clock has only moved on; and one that is about to delete a session has found its deadline
passed (`Due`). So the session it deletes, if it is live, was extended after it was read.

KernelRegistry's IInv ties rows, directories and goroutines together. `Handlers` says what a
handler past its first look relies on: a kernel that is being added has a directory but no
row, and nothing else names it; a kernel whose row has gone and whose directory is to go is
not registered; and a status of active that a handler carries has been vouched for.
`FilesOK` adds that every directory has a row, a handler or a history. `VouchedFor` is about
rows and client VMs, `Tests` about each runner: the kernel it tests is its job's, and from
the boot that wins on that kernel has been vouched for, unless deletions have taken its row
in between. `Finders` says that a scan has items only
once it has replaced them. OnlyVouched alone is not inductive: a stale write brings back the
status that a frame holds, and a test the one it is about to save.

Terminal's `Delivered` speaks of the browser; `Flow` says where every chunk is on its way: what
has been sent, then what the writer holds, then what is in outputCh, then what a reader is
about to put, is each stream from its first chunk to the last that was read. `Readers` and
`Places` say when a reader may have stopped: in a session without a result only at the end of
its stream, with the shell gone. So when the writer finds outputCh closed and empty and
reports nil, everything has been sent; a result from anybody else is an error.

Only model-checked: TransitResolves, JobsResolve, BuildsEnd and Flows, which are liveness
under fairness and out of the prover's reach. The passing runs' safety properties all have
a theorem.

## Plan

Done: all nine modules with the proofs of their safety properties. What is left, in this
order:

1. *Hooks* in ImageBuild: CreateImageHook, DeleteImageHook, and the copies that a queued
   build takes of them.
2. The ephemeral keys of terminals and execs, and the guest that fetches them.

## Not modelled

Routing, decoding, rendering, audit records and error texts keep no state that a
property speaks of. Configuration is read once. Key and id generation are taken as
collision-free. Schema migrations and MigrateSSHAccess run before the listener opens, alone. In VMLifecycle and ExecJobs, errors of the database other than through
a cancelled context are not modelled, nor is a reboot of the host. The content of a rootfs
file is abstracted to whether it is there: a partial file that a failed create left is
taken over by the next create of that name (hazard at `lifecycle/images.go:905`).
Firewall leaves out shared networks (their own drop rule, and applyNFT's look-up of the
network), firewalld's rich rules, and the interface of the default route; the protected
hosts, SSH and metadata rules of a VM are one entry. A restart is a stop followed by a
start. Access leaves out passwords, hashes, CSRF tokens and cookies but for whether they are
accepted, `last_used_at`, audit rows, tokens without an owner (of older schemas), and
requireAuth's look for users, who are there whenever a credential is. Terminal leaves out
the keys that the guest fetches and their expiry, window sizes, flow control of the input,
and ctx.Done: the context of a hijacked connection lives as long as its handler.
Allocation leaves out changes of the configuration between two runs of the daemon, a
vm_cidr of /0 (whose size does not fit the code's uint32), and protocol and guest port of
a rule; a network_id on a routed VM, which the code keeps and ignores but for
DeleteNetwork's count, is covered by Fail at that count. KernelRegistry
leaves out BackfillVMKernelID (rows of older schemas, alone before the listener opens),
names, versions, configs and boot arguments, and what the bucket's listing looks like;
ImageBuild leaves out hooks beyond their being commands that may fail, packages, sizes and
checksums, and a provenance that an administrator makes up to look like a build's. In both,
statements of the background goroutines do not fail. The remaining components are listed with their status in `PROJECT.json`.
