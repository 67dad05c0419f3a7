----------------------------- MODULE ImageBuild -----------------------------
(***************************************************************************)
(* Base images: their rows and files, registration, status and deletion, the *)
(* VMs that use them, and the build jobs, which run in goroutines of their   *)
(* own behind imageBuildMu and mount each image while they fill it.          *)
(*                                                                         *)
(* The steps of a build are its commands, as far as they change a mount, a   *)
(* file or a row; a command that fails, a timeout and a name that is taken    *)
(* end a build at that step.  An image's file is named by its path, which    *)
(* for a managed image is the id of its job.  Image hooks are commands of a   *)
(* build here; packages, sizes, checksums, names and logs are left out.      *)
(***************************************************************************)
EXTENDS Integers, FiniteSets

CONSTANTS
    Images, VMs, Jobs,          \* ids that random.Hex may draw
    NoId,
    Configured,                 \* paths.base_rootfs
    Requests,                   \* handler goroutines
    MaxAtWork,                  \* bound: goroutines at work at once
    MaxCrashes                  \* bound: how often the daemon may die

ASSUME ImageAssumption ==
    /\ NoId \notin Images \cup Jobs \cup {Configured}
    /\ Configured \notin Jobs /\ Jobs \cap Requests = {}
    /\ MaxAtWork \in Nat \ {0} /\ MaxCrashes \in Nat

VARIABLES
    image,    \* the rows of base_images
    file,     \* the files under base_image_dir, by path
    vm,       \* the base_image_id of each row of vms
    job,      \* the rows of image_build_jobs: their status
    mnt,      \* what is mounted for a job: its image, and devices, proc and sysfs in it
    build,    \* the goroutines in runImageBuild
    req,      \* the frames of the handlers
    crashes,
    died,     \* history: the jobs whose goroutine died with the daemon
    stuck,    \* history: the jobs that could not unmount all, or did not know of it
    late      \* history: the VMs inserted after a deletion of their image had counted

vars == <<image, file, vm, job, mnt, build, req, crashes, died, stuck, late>>
building == <<job, mnt, build>>
history == <<died, stuck, late>>

-----------------------------------------------------------------------------
(* Rows, files and frames.                                                 *)

Paths == Jobs \cup {Configured}
ImageStatus == {"active", "retired"}      \* retired: deprecated or archived
ImageRow == [status : ImageStatus \cup {"none"}, path : Paths \cup {NoId}, managed : BOOLEAN]
NoImage == [status |-> "none", path |-> NoId, managed |-> FALSE]

Registered == {i \in Images : image[i].status # "none"}
PathTaken(p) == \E i \in Registered : image[i].path = p
UsedBy(i) == {v \in VMs : vm[v] = i}
requireFile(p) == file[p] # "none"

\* "raw" while it is built, "wiped" if os.RemoveAll went through its mount.
FileState == {"none", "raw", "ok", "wiped"}
Mounts == {"root", "inner"}

BuildFrame == [pc : {"idle", "lock", "create", "mount", "bind", "hooks", "unbind", "umount", "insert",
                     "cleanup", "end"},
               held : SUBSET Mounts,            \* mounted, devBinds, pseudoMounts
               won : BOOLEAN]
IdleBuild == [pc |-> "idle", held |-> {}, won |-> FALSE]

ReqFrame == [pc : {"idle", "register", "update", "count", "drop_row", "drop_file", "create"},
             id : Images \cup {NoId}, path : Paths \cup {NoId}]
IdleReq == [pc |-> "idle", id |-> NoId, path |-> NoId]

TypeOK ==
    /\ image \in [Images -> ImageRow]
    /\ \A i \in Images : image[i].status = "none" <=> image[i].path = NoId
    /\ file \in [Paths -> FileState]
    /\ vm \in [VMs -> Images \cup {NoId}]
    /\ job \in [Jobs -> {"none", "queued", "running", "succeeded", "failed"}]
    /\ mnt \in [Jobs -> SUBSET Mounts] /\ build \in [Jobs -> BuildFrame]
    /\ req \in [Requests -> ReqFrame]
    /\ crashes \in 0..MaxCrashes /\ died \subseteq Jobs /\ stuck \subseteq Jobs
    /\ late \subseteq VMs

\* random.Hex: an id that nobody knows.
NewImage == {i \in Images \ Registered : /\ \A r \in Requests : req[r].id # i
                                         /\ UsedBy(i) = {}}

AtWork == {r \in Requests : req[r].pc # "idle"} \cup {j \in Jobs : build[j].pc # "idle"}
Begin == Cardinality(AtWork) < MaxAtWork

Inserted(i, status, path, managed) ==
    image' = [image EXCEPT ![i] = [status |-> status, path |-> path, managed |-> managed]]

\* EnsureDefaultBaseImage: a row for the configured path, if it has none.
EnsureDefaultBaseImage ==
    \/ UNCHANGED image
    \/ ~PathTaken(Configured) /\ \E i \in NewImage : Inserted(i, "active", Configured, FALSE)

\* The first start of the daemon.
Init ==
    /\ \E S \in SUBSET Images :
         /\ Cardinality(S) <= 1
         /\ image = [i \in Images |-> IF i \in S
                                      THEN [status |-> "active", path |-> Configured, managed |-> FALSE]
                                      ELSE NoImage]
    /\ file = [p \in Paths |-> IF p = Configured THEN "ok" ELSE "none"]
    /\ vm = [v \in VMs |-> NoId]
    /\ job = [j \in Jobs |-> "none"] /\ mnt = [j \in Jobs |-> {}]
    /\ build = [j \in Jobs |-> IdleBuild] /\ req = [r \in Requests |-> IdleReq]
    /\ crashes = 0 /\ died = {} /\ stuck = {} /\ late = {}

Arrive(r, g) ==
    /\ req[r].pc = "idle" /\ Begin
    /\ req' = [req EXCEPT ![r] = g]

Goto(r, pc) == req' = [req EXCEPT ![r].pc = pc]
Finish(r) == req' = [req EXCEPT ![r] = IdleReq]

\* A statement or a check failed, or the client went away: the handler returns.
Fail(r) ==
    /\ req[r].pc # "idle"
    /\ Finish(r)
    /\ UNCHANGED <<image, file, vm, building, crashes, history>>

-----------------------------------------------------------------------------
(* Handlers on images.                                                     *)

\* RegisterBaseImage up to the checks of the file, which may be half built.
RegisterArrive(r) ==
    \E p \in Paths :
      /\ requireFile(p)
      /\ Arrive(r, [IdleReq EXCEPT !.pc = "register", !.path = p])
      /\ UNCHANGED <<image, file, vm, building, crashes, history>>

\* UNIQUE(path) has the last word.
RegisterBaseImage(r) ==
    /\ req[r].pc = "register" /\ ~PathTaken(req[r].path)
    /\ \E i \in NewImage, status \in ImageStatus : Inserted(i, status, req[r].path, FALSE)
    /\ Finish(r)
    /\ UNCHANGED <<file, vm, building, crashes, history>>

UpdateArrive(r) ==
    \E i \in Registered :
      /\ Arrive(r, [IdleReq EXCEPT !.pc = "update", !.id = i])
      /\ UNCHANGED <<image, file, vm, building, crashes, history>>

\* Mutant: an upsert.
UpdateUpserted(r) ==
    /\ req[r].pc = "update"
    /\ \E status \in ImageStatus : image' = [image EXCEPT ![req[r].id].status = status]
    /\ Finish(r)
    /\ UNCHANGED <<file, vm, building, crashes, history>>

\* The whole row is written; nothing but its status ever changes.
UpdateBaseImageStatus(r) ==
    LET i == req[r].id
    IN /\ req[r].pc = "update"
       /\ \E status \in ImageStatus :
            image' = IF i \in Registered THEN [image EXCEPT ![i].status = status] ELSE image
       /\ Finish(r)
       /\ UNCHANGED <<file, vm, building, crashes, history>>

DeleteArrive(r) ==
    \E i \in Registered :
      /\ Arrive(r, [pc |-> "count", id |-> i,
                    path |-> IF image[i].managed THEN image[i].path ELSE NoId])
      /\ UNCHANGED <<image, file, vm, building, crashes, history>>

\* Mutant: nobody counts.
DeleteUncounted(r) ==
    /\ req[r].pc = "count"
    /\ Goto(r, "drop_row")
    /\ UNCHANGED <<image, file, vm, building, crashes, history>>

DeleteCount(r) ==
    /\ req[r].pc = "count"
    /\ IF UsedBy(req[r].id) = {} THEN Goto(r, "drop_row") ELSE Finish(r)
    /\ UNCHANGED <<image, file, vm, building, crashes, history>>

DeleteRow(r) ==
    /\ req[r].pc = "drop_row"
    /\ image' = [image EXCEPT ![req[r].id] = NoImage]
    /\ IF req[r].path = NoId THEN Finish(r) ELSE Goto(r, "drop_file")
    /\ UNCHANGED <<file, vm, building, crashes, history>>

DeleteFile(r) ==
    /\ req[r].pc = "drop_file"
    /\ file' = [file EXCEPT ![req[r].path] = "none"]
    /\ Finish(r)
    /\ UNCHANGED <<image, vm, building, crashes, history>>

\* resolveBaseImageForVM, for an image asked for by id or by default.
CreateArrive(r) ==
    \E i \in Registered :
      /\ image[i].status = "active" /\ requireFile(image[i].path)
      /\ Arrive(r, [IdleReq EXCEPT !.pc = "create", !.id = i])
      /\ UNCHANGED <<image, file, vm, building, crashes, history>>

\* A deletion of image i has counted the VMs that use it, and found none.
Counted(i) == i \notin Registered \/ \E q \in Requests : req[q].pc = "drop_row" /\ req[q].id = i

\* The VM's row, after the image has been copied; base_image_id is no foreign key.
CreateInsert(r) ==
    /\ req[r].pc = "create"
    /\ \E v \in VMs : /\ vm[v] = NoId
                     /\ vm' = [vm EXCEPT ![v] = req[r].id]
                     /\ late' = IF Counted(req[r].id) THEN late \cup {v} ELSE late
    /\ Finish(r)
    /\ UNCHANGED <<image, file, building, crashes, died, stuck>>

\* DeleteVM, the DELETE.
DeleteVM ==
    /\ \E v \in VMs : /\ vm[v] # NoId
                     /\ vm' = [vm EXCEPT ![v] = NoId]
                     /\ late' = late \ {v}
    /\ UNCHANGED <<image, file, req, building, crashes, died, stuck>>

-----------------------------------------------------------------------------
(* Build jobs.                                                             *)

StartImageBuild ==
    /\ Begin
    /\ \E j \in Jobs : /\ job[j] = "none"
                     /\ job' = [job EXCEPT ![j] = "queued"]
                     /\ build' = [build EXCEPT ![j].pc = "lock"]
    /\ UNCHANGED <<image, file, vm, mnt, req, crashes, history>>

BuildAt(j, pc) == build[j].pc = pc
BuildGoto(j, pc) == build' = [build EXCEPT ![j].pc = pc]

\* Mutant: a job that failed goes without unlocking.
BuildLockKept(j) ==
    /\ BuildAt(j, "lock")
    /\ \A k \in Jobs : build[k].pc \in {"idle", "lock"} /\ job[k] # "failed"
    /\ job' = [job EXCEPT ![j] = "running"]
    /\ BuildGoto(j, "create")
    /\ UNCHANGED <<image, file, vm, mnt, req, crashes, history>>

\* imageBuildMu: one build at a time, from here to BuildEnd.
BuildLock(j) ==
    /\ BuildAt(j, "lock")
    /\ \A k \in Jobs : build[k].pc \in {"idle", "lock"}
    /\ job' = [job EXCEPT ![j] = "running"]
    /\ BuildGoto(j, "create")
    /\ UNCHANGED <<image, file, vm, mnt, req, crashes, history>>

\* The directories, and the image file with an empty file system.
BuildCreate(j) ==
    /\ BuildAt(j, "create")
    /\ file' = [file EXCEPT ![j] = "raw"]
    /\ BuildGoto(j, "mount")
    /\ UNCHANGED <<image, vm, job, mnt, req, crashes, history>>

\* A command mounts m, and the build remembers that it has to undo it.
Mounting(j, m) ==
    /\ mnt' = [mnt EXCEPT ![j] = @ \cup {m}]
    /\ build' = [build EXCEPT ![j].pc = IF m = "root" THEN "bind" ELSE "hooks", ![j].held = @ \cup {m}]
    /\ UNCHANGED <<image, file, vm, job, req, crashes, history>>

\* Mutant: mounted is not set.
BuildMountForgot(j) ==
    /\ BuildAt(j, "mount")
    /\ mnt' = [mnt EXCEPT ![j] = @ \cup {"root"}]
    /\ BuildGoto(j, "bind")
    /\ UNCHANGED <<image, file, vm, job, req, crashes, history>>

BuildMount(j) == BuildAt(j, "mount") /\ Mounting(j, "root")

\* bindMinimalDevices and mountBuildPseudoFilesystems, after the packages.
BuildBind(j) == BuildAt(j, "bind") /\ Mounting(j, "inner")

\* The command is killed after it has mounted, or some of the mounts are made when
\* another one fails: nobody remembers these.
MountFail(j) ==
    /\ \E m \in Mounts :
         /\ BuildAt(j, IF m = "root" THEN "mount" ELSE "bind")
         /\ mnt' = [mnt EXCEPT ![j] = @ \cup {m}]
    /\ stuck' = stuck \cup {j}
    /\ BuildGoto(j, "cleanup")
    /\ UNCHANGED <<image, file, vm, job, req, crashes, died, late>>

\* The configure script, the hooks and the clean-up of the package cache.
BuildHooks(j) ==
    /\ BuildAt(j, "hooks")
    /\ BuildGoto(j, "unbind")
    /\ UNCHANGED <<image, file, vm, job, mnt, req, crashes, history>>

\* The umounts inside the image; nobody looks whether they succeed.
BuildUnbind(j) ==
    /\ BuildAt(j, "unbind")
    /\ \/ mnt' = [mnt EXCEPT ![j] = {"root"}] /\ UNCHANGED stuck
       \/ stuck' = stuck \cup {j} /\ UNCHANGED mnt
    /\ build' = [build EXCEPT ![j].pc = "umount", ![j].held = {"root"}]
    /\ UNCHANGED <<image, file, vm, job, req, crashes, died, late>>

\* Mutant: the error of this umount is ignored like the others'.
BuildUmountIgnored(j) ==
    /\ BuildAt(j, "umount")
    /\ mnt' = IF mnt[j] = {"root"} THEN [mnt EXCEPT ![j] = {}] ELSE mnt
    /\ file' = [file EXCEPT ![j] = "ok"]
    /\ build' = [build EXCEPT ![j].pc = "insert", ![j].held = {}]
    /\ UNCHANGED <<image, vm, job, req, crashes, history>>

\* The image must be unmounted, which it cannot be if something is mounted in it.
BuildUmount(j) ==
    /\ BuildAt(j, "umount") /\ mnt[j] = {"root"}
    /\ mnt' = [mnt EXCEPT ![j] = {}]
    /\ file' = [file EXCEPT ![j] = "ok"]
    /\ build' = [build EXCEPT ![j].pc = "insert", ![j].held = {}]
    /\ UNCHANGED <<image, vm, job, req, crashes, history>>

\* CreateBaseImage.
BuildInsert(j) ==
    /\ BuildAt(j, "insert") /\ ~PathTaken(j)
    /\ \E i \in NewImage : Inserted(i, "active", j, TRUE)
    /\ build' = [build EXCEPT ![j].pc = "cleanup", ![j].won = TRUE]
    /\ UNCHANGED <<file, vm, job, mnt, req, crashes, history>>

\* A command failed or the build timed out.
BuildFail(j) ==
    /\ build[j].pc \in {"create", "mount", "bind", "hooks", "umount", "insert"}
    /\ BuildGoto(j, "cleanup")
    /\ UNCHANGED <<image, file, vm, job, mnt, req, crashes, history>>

\* The deferred cleanup: what is held is unmounted from the inside out, as far as
\* that succeeds, and then os.RemoveAll goes through whatever is still mounted.
BuildCleanup(j) ==
    /\ BuildAt(j, "cleanup")
    /\ \E gone \in SUBSET build[j].held :
         LET left == mnt[j] \ gone
         IN /\ "root" \in gone => left = {}
            /\ mnt' = [mnt EXCEPT ![j] = left]
            /\ file' = IF "root" \in left THEN [file EXCEPT ![j] = "wiped"] ELSE file
            /\ stuck' = IF gone = build[j].held THEN stuck ELSE stuck \cup {j}
    /\ build' = [build EXCEPT ![j].pc = "end", ![j].held = {}]
    /\ UNCHANGED <<image, vm, job, req, crashes, died, late>>

BuildEnd(j) ==
    /\ BuildAt(j, "end")
    /\ job' = [job EXCEPT ![j] = IF build[j].won THEN "succeeded" ELSE "failed"]
    /\ build' = [build EXCEPT ![j] = IdleBuild]
    /\ UNCHANGED <<image, file, vm, mnt, req, crashes, history>>

-----------------------------------------------------------------------------
(* The daemon dies at any step and starts again; mounts stay.               *)

Crash ==
    /\ crashes < MaxCrashes
    /\ crashes' = crashes + 1
    /\ died' = died \cup (AtWork \cap Jobs)
    /\ req' = [r \in Requests |-> IdleReq] /\ build' = [j \in Jobs |-> IdleBuild]
    /\ EnsureDefaultBaseImage
    /\ UNCHANGED <<file, vm, job, mnt, stuck, late>>

Register(r) == RegisterArrive(r) \/ RegisterBaseImage(r)
Update(r) == UpdateArrive(r) \/ UpdateBaseImageStatus(r)
Delete(r) == DeleteArrive(r) \/ DeleteCount(r) \/ DeleteRow(r) \/ DeleteFile(r)
Create(r) == CreateArrive(r) \/ CreateInsert(r)
Build(j) == \/ BuildCreate(j) \/ BuildMount(j) \/ BuildBind(j) \/ MountFail(j)
            \/ BuildHooks(j)
            \/ BuildUnbind(j) \/ BuildUmount(j) \/ BuildInsert(j)
            \/ BuildFail(j) \/ BuildCleanup(j) \/ BuildEnd(j)

Next ==
    \/ \E r \in Requests : \/ Register(r) \/ Update(r) \/ Delete(r)
                           \/ Create(r) \/ Fail(r)
    \/ \E j \in Jobs : BuildLock(j) \/ Build(j)
    \/ StartImageBuild \/ DeleteVM \/ Crash

\* A goroutine that can run does, every command ends by itself or by the timeout,
\* and a sync.Mutex hands itself to whoever has waited for a millisecond.
Fairness == \A j \in Jobs : SF_vars(BuildLock(j)) /\ WF_vars(Build(j))

Spec == Init /\ [][Next]_vars /\ Fairness

-----------------------------------------------------------------------------
(* Properties.                                                             *)

\* An image that a build has made is whole: whatever failed, timed out, was deleted
\* or registered meanwhile, its row stands for a file that was filled and unmounted
\* and that no cleanup has gone through.
BuiltIntact ==
    \A i \in Registered : image[i].managed => /\ file[image[i].path] = "ok"
                                              /\ mnt[image[i].path] = {}

\* runImageBuild leaves nothing half done: once it has returned, its job has ended,
\* successfully if and only if it has made an image, and its mounts are gone, but
\* for what it could not unmount or did not know of.  Only the latter costs an image.
BuildsSettle ==
    \A j \in Jobs \ died :
      /\ build[j].pc = "idle" =>
           /\ job[j] \in {"none", "succeeded", "failed"}
           /\ job[j] = "succeeded" => file[j] \in {"ok", "none"} /\ mnt[j] = {}
           /\ job[j] = "failed" => \A i \in Registered : ~(image[i].managed /\ image[i].path = j)
           /\ mnt[j] # {} => j \in stuck
      /\ file[j] = "wiped" => j \in stuck

\* A VM names an image that is gone only if its row was inserted after the deletion
\* had counted the image's users: from the count to the DELETE, and on, nothing else
\* loses an image, whatever fails, restarts or is deleted twice.
VMsHaveImage ==
    \A v \in VMs \ late : vm[v] # NoId => vm[v] \in Registered

\* A build that was queued behind others runs and reports, unless the daemon dies.
BuildsEnd ==
    \A j \in Jobs : job[j] = "queued" ~> job[j] \in {"succeeded", "failed"} \/ j \in died
=============================================================================
