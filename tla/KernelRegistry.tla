--------------------------- MODULE KernelRegistry ---------------------------
(***************************************************************************)
(* The kernel registry: rows of kernels and the files behind them, uploads  *)
(* and imports, changes by an admin, deletion, the VMs that use a kernel,    *)
(* the background tests that give a kernel its status, and the background    *)
(* scans of the Firecracker CI bucket.                                      *)
(*                                                                         *)
(* The steps of a handler or a runner are its statements and file accesses  *)
(* that others can tell apart.  A kernel's directory has the kernel's id     *)
(* here; source_type, path and provenance of a row never change, so a copy   *)
(* of a row differs from the row in its status only.  Names, versions,       *)
(* configs and boot arguments are left out; a name that is taken, a file     *)
(* that is no kernel, a disconnect or a timeout is one of the failures.      *)
(***************************************************************************)
EXTENDS Integers, FiniteSets

CONSTANTS
    Kernels, VMs, Jobs,         \* ids that random.Hex may draw, Jobs for tests and scans
    NoId,                       \* no id, no URL
    Configured,                 \* paths.kernel_image, in no kernel's own directory
    URLs,                       \* the kernels in the bucket
    Requests,                   \* handler goroutines
    MaxAtWork,                  \* bound: goroutines at work at once
    MaxCrashes                  \* bound: how often the daemon may die

ASSUME KernelAssumption ==
    /\ NoId \notin Kernels \cup VMs \cup Jobs \cup URLs
    /\ Configured \notin Kernels \cup {NoId}
    /\ Jobs \cap (Kernels \cup Requests) = {} /\ Kernels \cap Requests = {}
    /\ MaxAtWork \in Nat \ {0} /\ MaxCrashes \in Nat

VARIABLES
    kernel,   \* the rows of kernels
    files,    \* the directories of kernel_dir, by kernel
    vm,       \* the rows of vms: kernel_id, kernel_path, and the test they are for
    job,      \* the rows of kernel_test_jobs
    test,     \* the goroutines in runKernelTest
    scan,     \* the rows of kernel_discovery_jobs: their status
    items,    \* the rows of kernel_discovery_items, by scan and URL
    finder,   \* the goroutines in runKernelDiscovery
    req,      \* the frames of the handlers
    crashes,
    vouched,  \* history: the kernels that someone or something has vouched are good
    cut       \* history: what a crash or a failed clean-up has left behind

vars == <<kernel, files, vm, job, test, scan, items, finder, req, crashes, vouched, cut>>
testing == <<vm, job, test>>
scanning == <<scan, finder>>

-----------------------------------------------------------------------------
(* Rows.                                                                   *)

KernelStatus == {"pending", "active", "failed", "archived"}
JobStatus == {"queued", "running", "succeeded", "failed"}

KernelRow == [status : KernelStatus \cup {"none"},
              source : {"configured", "firecracker-ci", "upload"},
              url : URLs \cup {NoId}]
NoKernel == [status |-> "none", source |-> "upload", url |-> NoId]
VMRow == [kernel : Kernels \cup {NoId}, path : Kernels \cup {Configured, NoId},
          job : Jobs \cup {NoId}]
NoVM == [kernel |-> NoId, path |-> NoId, job |-> NoId]
JobRow == [kernel : Kernels \cup {NoId}, status : JobStatus \cup {"none"}]
NoJob == [kernel |-> NoId, status |-> "none"]

Registered == {k \in Kernels : kernel[k].status # "none"}
Path(k) == IF kernel[k].source = "configured" THEN Configured ELSE k
requireFile(p) == p \in files \cup {Configured}

\* findKernelByProvenance: the kernels that came from a URL.
FromURL(u) == {k \in Registered : kernel[k].url = u}

\* COUNT of the VMs that are assigned a kernel, by id or by path.
UsedBy(k, path) == {v \in VMs : vm[v] # NoVM /\ (vm[v].kernel = k \/ vm[v].path = path)}

-----------------------------------------------------------------------------
(* Goroutines: handlers, tests and scans.                                   *)

ReqFrame == [pc : {"idle", "look", "fetch", "register", "flag", "update", "select", "count",
                   "drop_jobs", "drop_row", "drop_files", "create", "enqueue"},
             kernel : Kernels \cup {NoId}, path : Kernels \cup {Configured, NoId},
             status : KernelStatus \cup {"none"}, url : URLs \cup {NoId},
             scan : Jobs \cup {NoId}]
IdleReq == [pc |-> "idle", kernel |-> NoId, path |-> NoId, status |-> "none", url |-> NoId,
            scan |-> NoId]

TestFrame == [pc : {"idle", "mark", "resolve", "insert", "boot", "cleanup",
                    "save_won", "set_active", "set_failed", "save_lost"},
              kernel : Kernels \cup {NoId}, vm : VMs \cup {NoId}, path : Kernels \cup {Configured, NoId},
              won : BOOLEAN]
IdleTest == [pc |-> "idle", kernel |-> NoId, vm |-> NoId, path |-> NoId, won |-> FALSE]

FindFrame == [pc : {"idle", "lock", "list", "replace", "end"},
              found : SUBSET URLs, known : SUBSET URLs, won : BOOLEAN]
IdleFind == [pc |-> "idle", found |-> {}, known |-> {}, won |-> FALSE]

TypeOK ==
    /\ kernel \in [Kernels -> KernelRow] /\ files \subseteq Kernels
    /\ vm \in [VMs -> VMRow] /\ job \in [Jobs -> JobRow]
    /\ \A j \in Jobs : job[j].status = "none" <=> job[j].kernel = NoId
    /\ test \in [Jobs -> TestFrame]
    /\ scan \in [Jobs -> JobStatus \cup {"none"}]
    /\ items \in [Jobs -> [URLs -> {"none", "new", "registered"}]]
    /\ finder \in [Jobs -> FindFrame]
    /\ req \in [Requests -> ReqFrame]
    /\ crashes \in 0..MaxCrashes
    /\ vouched \subseteq Kernels
    /\ cut \subseteq Jobs \cup Kernels

\* random.Hex: an id that nobody knows.
NewKernel == {k \in Kernels \ (Registered \cup files) :
                /\ \A r \in Requests : req[r].kernel # k
                /\ \A j \in Jobs : test[j].kernel # k /\ job[j].kernel # k
                /\ \A v \in VMs : vm[v].kernel # k}
NewVM == {v \in VMs : vm[v] = NoVM /\ \A j \in Jobs : test[j].vm # v}
NewJob == {j \in Jobs : /\ job[j] = NoJob /\ test[j] = IdleTest
                        /\ scan[j] = "none" /\ \A v \in VMs : vm[v].job # j}

AtWork == {r \in Requests : req[r].pc # "idle"} \cup {j \in Jobs : test[j].pc # "idle" \/ finder[j].pc # "idle"}

\* The kernels whose directory a handler is about to register or to remove.
InHand == {req[r].kernel : r \in {q \in Requests :
                                    req[q].pc \in {"fetch", "register", "drop_files"}}}

\* A row for kernel k.
Inserted(k, status, source, url) ==
    /\ kernel' = [kernel EXCEPT ![k] = [status |-> status, source |-> source, url |-> url]]
    /\ vouched' = IF source = "configured" THEN vouched \cup {k} ELSE vouched \ {k}

\* Mutant: an upsert.
SavedUpsert(k, status) == kernel' = [kernel EXCEPT ![k].status = status]

\* UpdateKernel of the store: an UPDATE, which makes no row.
Saved(k, status) ==
    kernel' = IF k \in Registered THEN [kernel EXCEPT ![k].status = status] ELSE kernel

\* EnsureDefaultKernel: one kernel for the configured path, whatever it is called.
EnsureDefaultKernel ==
    \/ UNCHANGED <<kernel, vouched>>
    \/ /\ \A k \in Registered : kernel[k].source # "configured"
       /\ \E k \in NewKernel : Inserted(k, "active", "configured", NoId)

\* The first start of the daemon registers the configured kernel, if it is there.
Init ==
    /\ \E S \in SUBSET Kernels :
         /\ Cardinality(S) <= 1
         /\ kernel = [k \in Kernels |-> IF k \in S THEN [NoKernel EXCEPT !.status = "active",
                                                                         !.source = "configured"]
                                        ELSE NoKernel]
         /\ vouched = S
    /\ files = {}
    /\ vm = [v \in VMs |-> NoVM]
    /\ job = [j \in Jobs |-> NoJob] /\ test = [j \in Jobs |-> IdleTest]
    /\ scan = [s \in Jobs |-> "none"] /\ finder = [s \in Jobs |-> IdleFind]
    /\ items = [s \in Jobs |-> [u \in URLs |-> "none"]]
    /\ req = [r \in Requests |-> IdleReq]
    /\ crashes = 0 /\ cut = {}

\* Another goroutine starts to work.
Begin == Cardinality(AtWork) < MaxAtWork

Arrive(r, g) ==
    /\ req[r].pc = "idle"
    /\ req' = [req EXCEPT ![r] = g]
    /\ Begin

Goto(r, pc) == req' = [req EXCEPT ![r].pc = pc]
Finish(r) == req' = [req EXCEPT ![r] = IdleReq]

\* The client went away, or a statement, a download or a check failed: the
\* handler returns.  A kernel that was not registered loses its directory.
Fail(r) ==
    /\ req[r].pc # "idle"
    /\ Finish(r)
    /\ files' = IF req[r].pc \in {"fetch", "register"} THEN files \ {req[r].kernel} ELSE files
    /\ cut' = IF req[r].pc = "drop_files" THEN cut \cup {req[r].kernel} ELSE cut
    /\ UNCHANGED <<kernel, testing, scanning, items, crashes, vouched>>

-----------------------------------------------------------------------------
(* UploadKernel and ImportFirecrackerCIKernel.                              *)

\* A directory for the kernel comes first.
Adding(r, k, u) == [IdleReq EXCEPT !.pc = "fetch", !.kernel = k, !.url = u]

\* An upload, or an import by version, which asks for no other kernel of that URL.
AddArrive(r) ==
    \E k \in NewKernel, u \in URLs \cup {NoId} :
      /\ Arrive(r, Adding(r, k, u))
      /\ files' = files \cup {k}
      /\ UNCHANGED <<kernel, testing, scanning, items, crashes, vouched, cut>>

\* An import of a discovered kernel; an item that says registered is refused.
ItemArrive(r) ==
    \E s \in Jobs, u \in URLs :
      /\ items[s][u] = "new"
      /\ Arrive(r, [IdleReq EXCEPT !.pc = "look", !.url = u, !.scan = s])
      /\ UNCHANGED <<kernel, files, testing, scanning, items, crashes, vouched, cut>>

\* Whether the URL has been registered is asked once more; if it has, the item is
\* marked and nothing is fetched.
ImportLook(r) ==
    /\ req[r].pc = "look"
    /\ IF FromURL(req[r].url) # {}
       THEN /\ items' = [items EXCEPT ![req[r].scan][req[r].url] = "registered"]
            /\ Finish(r)
            /\ UNCHANGED files
       ELSE \E k \in NewKernel :
              /\ req' = [req EXCEPT ![r].pc = "fetch", ![r].kernel = k]
              /\ files' = files \cup {k}
              /\ UNCHANGED items
    /\ UNCHANGED <<kernel, testing, scanning, crashes, vouched, cut>>

Fetch(r) ==
    /\ req[r].pc = "fetch"
    /\ Goto(r, "register")
    /\ UNCHANGED <<kernel, files, testing, scanning, items, crashes, vouched, cut>>

\* RegisterKernel: checks of the file, then the INSERT.
Register(r) ==
    LET q == req[r]
    IN /\ q.pc = "register"
       /\ Inserted(q.kernel, "pending", IF q.url = NoId THEN "upload" ELSE "firecracker-ci", q.url)
       /\ IF q.scan = NoId THEN Finish(r) ELSE Goto(r, "flag")
       /\ UNCHANGED <<files, testing, scanning, items, crashes, cut>>

MarkItem(r) ==
    /\ req[r].pc = "flag"
    /\ items' = [items EXCEPT ![req[r].scan][req[r].url] = "registered"]
    /\ Finish(r)
    /\ UNCHANGED <<kernel, files, testing, scanning, crashes, vouched, cut>>

-----------------------------------------------------------------------------
(* UpdateKernel and DeleteKernel.                                           *)

\* What a handler that has read a row needs of it later.
Holding(pc, k) == [IdleReq EXCEPT !.pc = pc, !.kernel = k, !.path = Path(k)]

UpdateArrive(r) ==
    \E k \in Registered :
      /\ Arrive(r, [IdleReq EXCEPT !.pc = "update", !.kernel = k, !.status = kernel[k].status])
      /\ UNCHANGED <<kernel, files, testing, scanning, items, crashes, vouched, cut>>

\* The whole row is written, with another status only if the request names one.
UpdateKernel(r) ==
    LET k == req[r].kernel
    IN /\ req[r].pc = "update"
       /\ \/ Saved(k, req[r].status) /\ UNCHANGED vouched
          \/ \E status \in KernelStatus :
               /\ Saved(k, status)
               /\ vouched' = IF status = "active" THEN vouched \cup {k} ELSE vouched
       /\ Finish(r)
       /\ UNCHANGED <<files, testing, scanning, items, crashes, cut>>

DeleteArrive(r) ==
    \E k \in Registered :
      /\ Arrive(r, Holding("select", k))
      /\ UNCHANGED <<kernel, files, testing, scanning, items, crashes, vouched, cut>>

\* A kernel that is gone by now still has its files removed.
DeleteSelect(r) ==
    /\ req[r].pc = "select"
    /\ Goto(r, IF req[r].kernel \in Registered THEN "count" ELSE "drop_files")
    /\ UNCHANGED <<kernel, files, testing, scanning, items, crashes, vouched, cut>>

DeleteCount(r) ==
    /\ req[r].pc = "count"
    /\ IF UsedBy(req[r].kernel, req[r].path) = {} THEN Goto(r, "drop_jobs") ELSE Finish(r)
    /\ UNCHANGED <<kernel, files, testing, scanning, items, crashes, vouched, cut>>

DeleteJobs(r) ==
    /\ req[r].pc = "drop_jobs"
    /\ job' = [j \in Jobs |-> IF job[j].kernel = req[r].kernel THEN NoJob ELSE job[j]]
    /\ Goto(r, "drop_row")
    /\ UNCHANGED <<kernel, files, vm, test, scanning, items, crashes, vouched, cut>>

DeleteRow(r) ==
    /\ req[r].pc = "drop_row"
    /\ kernel' = [kernel EXCEPT ![req[r].kernel] = NoKernel]
    /\ vouched' = vouched \ {req[r].kernel}
    /\ Goto(r, "drop_files")
    /\ UNCHANGED <<files, testing, scanning, items, crashes, cut>>

DeleteFiles(r) ==
    /\ req[r].pc = "drop_files"
    /\ files' = files \ {req[r].path}
    /\ Finish(r)
    /\ UNCHANGED <<kernel, testing, scanning, items, crashes, vouched, cut>>

-----------------------------------------------------------------------------
(* VMs that clients create and delete.                                      *)

\* Mutant: pending kernels are offered to everyone.
OfferedPending(k) == kernel[k].status \in {"active", "pending", "failed"}

\* resolveKernelForVM without allowPending, for a kernel asked for by id or by default.
Offered(k) == kernel[k].status = "active"

CreateArrive(r) ==
    \E k \in Registered :
      /\ Offered(k) /\ requireFile(Path(k))
      /\ Arrive(r, Holding("create", k))
      /\ UNCHANGED <<kernel, files, testing, scanning, items, crashes, vouched, cut>>

CreateInsert(r) ==
    /\ req[r].pc = "create"
    /\ \E v \in NewVM :
         vm' = [vm EXCEPT ![v] = [kernel |-> req[r].kernel, job |-> NoId,
                                  path |-> req[r].path]]
    /\ Finish(r)
    /\ UNCHANGED <<kernel, files, job, test, scanning, items, crashes, vouched, cut>>

\* DeleteVM, the DELETE; a test's VM is one like any other.
DeleteVM ==
    /\ \E v \in VMs : vm[v] # NoVM /\ vm' = [vm EXCEPT ![v] = NoVM]
    /\ UNCHANGED <<kernel, files, job, test, scanning, items, req, crashes, vouched, cut>>

-----------------------------------------------------------------------------
(* StartKernelTest and runKernelTest, which runs with a context of its own.  *)

TestArrive(r) ==
    \E k \in Registered :
      /\ Arrive(r, [IdleReq EXCEPT !.pc = "enqueue", !.kernel = k])
      /\ UNCHANGED <<kernel, files, testing, scanning, items, crashes, vouched, cut>>

StartKernelTest(r) ==
    /\ req[r].pc = "enqueue"
    /\ \E j \in NewJob :
         /\ job' = [job EXCEPT ![j] = [kernel |-> req[r].kernel, status |-> "queued"]]
         /\ test' = [test EXCEPT ![j].pc = "mark"]
         /\ cut' = cut \ {j}
    /\ Finish(r)
    /\ UNCHANGED <<kernel, files, vm, scanning, items, crashes, vouched>>

TestAt(j, pc) == test[j].pc = pc
TestGoto(j, pc) == test' = [test EXCEPT ![j].pc = pc]

\* Mutant: an upsert.
JobUpserted(j, status) == job' = [job EXCEPT ![j].status = status]

\* UpdateKernelTestJob of the store: an UPDATE, which makes no row.
JobSaved(j, status) ==
    job' = IF job[j] = NoJob THEN job ELSE [job EXCEPT ![j].status = status]

\* The job is read and written back as running; if it is gone, so is the runner.
TestMark(j) ==
    /\ TestAt(j, "mark")
    /\ JobSaved(j, "running")
    /\ test' = [test EXCEPT ![j] = IF job[j] = NoJob THEN IdleTest
                                  ELSE [@ EXCEPT !.pc = "resolve", !.kernel = job[j].kernel]]
    /\ UNCHANGED <<kernel, files, vm, scanning, items, req, crashes, vouched, cut>>

\* resolveKernelForVM with allowPending.
Testable(k) == /\ kernel[k].status \in {"active", "pending", "failed"}
               /\ requireFile(Path(k))

TestResolve(j) ==
    LET k == test[j].kernel
    IN /\ TestAt(j, "resolve") /\ Testable(k)
       /\ test' = [test EXCEPT ![j].pc = "insert", ![j].path = Path(k)]
       /\ UNCHANGED <<kernel, files, vm, job, scanning, items, req, crashes, vouched, cut>>

TestInsertVM(j) ==
    /\ TestAt(j, "insert")
    /\ \E v \in NewVM :
         /\ vm' = [vm EXCEPT ![v] = [kernel |-> test[j].kernel, path |-> test[j].path, job |-> j]]
         /\ test' = [test EXCEPT ![j].pc = "boot", ![j].vm = v]
    /\ UNCHANGED <<kernel, files, job, scanning, items, req, crashes, vouched, cut>>

\* The VM has started and answered over SSH.
TestBoot(j) ==
    /\ TestAt(j, "boot")
    /\ vm[test[j].vm] # NoVM /\ requireFile(test[j].path)
    /\ vouched' = vouched \cup {test[j].kernel}
    /\ test' = [test EXCEPT ![j].pc = "cleanup", ![j].won = TRUE]
    /\ UNCHANGED <<kernel, files, vm, job, scanning, items, req, crashes, cut>>

\* Anything before that may fail or time out; a VM that is there is cleaned up.
TestFail(j) ==
    /\ test[j].pc \in {"resolve", "insert", "boot"}
    /\ TestGoto(j, IF TestAt(j, "boot") THEN "cleanup" ELSE "set_failed")
    /\ UNCHANGED <<kernel, files, vm, job, scanning, items, req, crashes, vouched, cut>>

\* Mutant: the VM is deleted after a success only.
TestCleanupWon(j) ==
    /\ TestAt(j, "cleanup")
    /\ vm' = IF test[j].won THEN [vm EXCEPT ![test[j].vm] = NoVM] ELSE vm
    /\ TestGoto(j, IF test[j].won THEN "save_won" ELSE "set_failed")
    /\ UNCHANGED <<kernel, files, job, scanning, items, req, crashes, vouched, cut>>

\* The deferred DeleteVM; if it fails the log says so, and nothing else.
TestCleanup(j) ==
    /\ TestAt(j, "cleanup")
    /\ \/ vm' = [vm EXCEPT ![test[j].vm] = NoVM] /\ UNCHANGED cut
       \/ cut' = cut \cup {j} /\ UNCHANGED vm
    /\ TestGoto(j, IF test[j].won THEN "save_won" ELSE "set_failed")
    /\ UNCHANGED <<kernel, files, job, scanning, items, req, crashes, vouched>>

TestSaveWon(j) ==
    /\ TestAt(j, "save_won")
    /\ JobSaved(j, "succeeded")
    /\ TestGoto(j, "set_active")
    /\ UNCHANGED <<kernel, files, vm, scanning, items, req, crashes, vouched, cut>>

\* The row is read afresh and written as a whole, but for its new status.
TestSetActive(j) ==
    /\ TestAt(j, "set_active")
    /\ Saved(test[j].kernel, "active")
    /\ test' = [test EXCEPT ![j] = IdleTest]
    /\ UNCHANGED <<files, vm, job, scanning, items, req, crashes, vouched, cut>>

TestSetFailed(j) ==
    /\ TestAt(j, "set_failed")
    /\ Saved(test[j].kernel, "failed")
    /\ TestGoto(j, "save_lost")
    /\ UNCHANGED <<files, vm, job, scanning, items, req, crashes, vouched, cut>>

TestSaveLost(j) ==
    /\ TestAt(j, "save_lost")
    /\ JobSaved(j, "failed")
    /\ test' = [test EXCEPT ![j] = IdleTest]
    /\ UNCHANGED <<kernel, files, vm, scanning, items, req, crashes, vouched, cut>>

-----------------------------------------------------------------------------
(* StartKernelDiscovery and runKernelDiscovery.                             *)

StartKernelDiscovery ==
    /\ \E s \in NewJob :
         /\ scan' = [scan EXCEPT ![s] = "queued"]
         /\ finder' = [finder EXCEPT ![s].pc = "lock"]
         /\ cut' = cut \ {s}
    /\ Begin
    /\ UNCHANGED <<kernel, files, testing, items, req, crashes, vouched>>

\* kernelDiscoveryMu: one scan at a time, from here to ScanEnd.
ScanLock(s) ==
    /\ finder[s].pc = "lock"
    /\ \A t \in Jobs : finder[t].pc \in {"idle", "lock"}
    /\ scan' = [scan EXCEPT ![s] = "running"]
    /\ finder' = [finder EXCEPT ![s].pc = "list"]
    /\ UNCHANGED <<kernel, files, testing, items, req, crashes, vouched, cut>>

\* What the bucket may list under the prefix: any of its kernels.
Listings == SUBSET URLs

\* What is listed, and which of it is registered; nothing at all is an error.
ScanList(s) ==
    /\ finder[s].pc = "list"
    /\ \E found \in Listings :
         finder' = [finder EXCEPT ![s] =
                      [pc |-> IF found = {} THEN "end" ELSE "replace", found |-> found,
                       known |-> {u \in found : FromURL(u) # {}}, won |-> FALSE]]
    /\ UNCHANGED <<kernel, files, testing, scan, items, req, crashes, vouched, cut>>

\* ReplaceKernelDiscoveryItems, a transaction, if the scan has time left.
ScanReplace(s) ==
    /\ finder[s].pc = "replace"
    /\ \/ /\ items' = [items EXCEPT ![s] = [u \in URLs |->
                         IF u \in finder[s].known THEN "registered"
                         ELSE IF u \in finder[s].found THEN "new" ELSE "none"]]
          /\ finder' = [finder EXCEPT ![s].pc = "end", ![s].won = TRUE]
       \/ /\ finder' = [finder EXCEPT ![s].pc = "end"]
          /\ UNCHANGED items
    /\ UNCHANGED <<kernel, files, testing, scan, req, crashes, vouched, cut>>

\* Mutant: a scan has succeeded if it found something.
ScanEndFound(s) ==
    /\ finder[s].pc = "end"
    /\ scan' = [scan EXCEPT ![s] = IF finder[s].found # {} THEN "succeeded" ELSE "failed"]
    /\ finder' = [finder EXCEPT ![s] = IdleFind]
    /\ UNCHANGED <<kernel, files, testing, items, req, crashes, vouched, cut>>

ScanEnd(s) ==
    /\ finder[s].pc = "end"
    /\ scan' = [scan EXCEPT ![s] = IF finder[s].won THEN "succeeded" ELSE "failed"]
    /\ finder' = [finder EXCEPT ![s] = IdleFind]
    /\ UNCHANGED <<kernel, files, testing, items, req, crashes, vouched, cut>>

-----------------------------------------------------------------------------
(* The daemon dies at any step and starts again.                            *)

Crash ==
    /\ crashes < MaxCrashes
    /\ crashes' = crashes + 1
    /\ req' = [r \in Requests |-> IdleReq]
    /\ test' = [j \in Jobs |-> IdleTest]
    /\ finder' = [s \in Jobs |-> IdleFind]
    /\ cut' = cut \cup (AtWork \ Requests) \cup InHand
    /\ EnsureDefaultKernel
    /\ UNCHANGED <<files, vm, job, scan, items>>

Add(r) == AddArrive(r) \/ ItemArrive(r) \/ ImportLook(r) \/ Fetch(r) \/ Register(r) \/ MarkItem(r)
Update(r) == UpdateArrive(r) \/ UpdateKernel(r)
Delete(r) == \/ DeleteArrive(r) \/ DeleteSelect(r) \/ DeleteCount(r)
             \/ DeleteJobs(r) \/ DeleteRow(r) \/ DeleteFiles(r)
Create(r) == CreateArrive(r) \/ CreateInsert(r)
Enqueue(r) == TestArrive(r) \/ StartKernelTest(r)
Test(j) == \/ TestMark(j) \/ TestResolve(j) \/ TestInsertVM(j)
           \/ TestBoot(j) \/ TestFail(j) \/ TestCleanup(j)
           \/ TestSaveWon(j) \/ TestSetActive(j) \/ TestSetFailed(j) \/ TestSaveLost(j)
Find(s) == ScanLock(s) \/ ScanList(s) \/ ScanReplace(s) \/ ScanEnd(s)

Next ==
    \/ \E r \in Requests : \/ Add(r) \/ Update(r) \/ Delete(r)
                           \/ Create(r) \/ Enqueue(r) \/ Fail(r)
    \/ \E j \in Jobs : Test(j)
    \/ \E s \in Jobs : Find(s)
    \/ StartKernelDiscovery \/ DeleteVM \/ Crash

Spec == Init /\ [][Next]_vars

-----------------------------------------------------------------------------
(* Properties.                                                             *)

\* A row never refers to a file that is gone: RegisterKernel inserts after the
\* file is complete and DeleteKernel removes it after the row, across crashes,
\* failures and two deletions of one kernel.  And no directory is left over that
\* no row and no handler accounts for, but where a crash or a failed removal left it.
FilesMatch ==
    /\ \A k \in Registered : requireFile(Path(k))
    /\ files \subseteq cut \cup Registered \cup InHand

\* KERNELS.md: only active kernels are offered in normal VM creation.  However
\* tests, renames with a stale copy of the row and restarts mix, a kernel is active,
\* and a client's VM uses it, only if an admin, the configuration or a VM that booted
\* with it vouches for it.
OnlyVouched ==
    /\ \A k \in Registered : kernel[k].status = "active" => k \in vouched
    /\ \A v \in VMs : /\ vm[v] # NoVM /\ vm[v].job = NoId
                     /\ vm[v].kernel \in Registered
                     => vm[v].kernel \in vouched

\* runKernelTest leaves nothing half done: once it has returned its job has ended,
\* successfully only if the kernel has booted, and its VM is gone.
TestsSettle ==
    \A j \in Jobs \ cut :
      /\ test[j].pc = "idle" => job[j].status \in {"none", "succeeded", "failed"}
      /\ job[j].status = "succeeded" /\ job[j].kernel \in Registered => job[j].kernel \in vouched
      /\ \A v \in VMs : vm[v].job = j => test[j].pc \in {"boot", "cleanup"}

\* runKernelDiscovery likewise: a scan that has returned has ended, and has items
\* if and only if it has succeeded.
ScansSettle ==
    \A s \in Jobs \ cut :
      finder[s].pc = "idle" =>
        \/ scan[s] = "none"
        \/ scan[s] = "succeeded" /\ \E u \in URLs : items[s][u] # "none"
        \/ scan[s] = "failed" /\ \A u \in URLs : items[s][u] = "none"
=============================================================================
