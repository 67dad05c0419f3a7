------------------------------ MODULE ExecJobs ------------------------------
(***************************************************************************)
(* Exec jobs of one VM: commands that run in the guest while nobody waits   *)
(* for them.  StartVMExecJob inserts a row and starts a goroutine, the      *)
(* runner; CancelVMExecJob calls the cancel function that the runner has    *)
(* registered in execCancels and writes the row; DeleteVM removes the rows. *)
(*                                                                         *)
(* Handlers and runners share no lock but execMu, which covers one access   *)
(* to the map.  UpdateVMExecJob writes the whole row from a copy read       *)
(* earlier.  Nothing looks at the jobs when the daemon starts again.        *)
(***************************************************************************)
EXTENDS Naturals

CONSTANTS
    Jobs,       \* job ids that random.Hex may draw
    NoJob,      \* no job: the frame of a handler that has none yet
    Requests,   \* handler goroutines
    Disconnects,\* TRUE: clients may go away before the answer
    MaxCrashes  \* bound on daemon crashes

ASSUME ExecAssumption ==
    NoJob \notin Jobs /\ Disconnects \in BOOLEAN /\ MaxCrashes \in Nat

VARIABLES
    vm,       \* the VM's row: running, stopped, absent
    emptied,  \* a DeleteVM has removed the jobs and not yet the VM
    status,   \* vm_exec_jobs
    run,      \* the runner of each job: where it stands, whether its context
              \* is cancelled, and the outcome of its command
    cancels,  \* execCancels: the jobs that have a cancel function there
    logged,   \* the status each job's log file shows
    req,      \* the frame of each handler
    crashes   \* crashes so far

vars == <<vm, emptied, status, run, cancels, logged, req, crashes>>

-----------------------------------------------------------------------------
Ended == {"succeeded", "failed", "canceled"}
Statuses == {"absent", "queued", "running"} \cup Ended

RunnerPCs == {"none", "register", "read", "mark", "check", "exec", "reread",
              "commit", "log", "unregister", "done", "lost"}
RequestPCs == {"idle", "start_check", "start_insert",
               "cancel_read", "cancel_call", "cancel_write"}

Runner == [pc : RunnerPCs, dead : BOOLEAN, outcome : {"none", "succeeded", "failed"}]
Frame == [pc : RequestPCs, job : Jobs \cup {NoJob}, live : BOOLEAN]
IdleFrame == [pc |-> "idle", job |-> NoJob, live |-> TRUE]

TypeOK ==
    /\ vm \in {"running", "stopped", "absent"}
    /\ emptied \in BOOLEAN
    /\ status \in [Jobs -> Statuses]
    /\ run \in [Jobs -> Runner]
    /\ cancels \subseteq Jobs
    /\ logged \in [Jobs -> Statuses]
    /\ req \in [Requests -> Frame]
    /\ crashes \in 0..MaxCrashes

Init ==
    /\ vm = "running"
    /\ emptied = FALSE
    /\ status = [j \in Jobs |-> "absent"]
    /\ run = [j \in Jobs |-> [pc |-> "none", dead |-> FALSE, outcome |-> "none"]]
    /\ cancels = {}
    /\ logged = [j \in Jobs |-> "absent"]
    /\ req = [r \in Requests |-> IdleFrame]
    /\ crashes = 0

\* UPDATE ... WHERE id = ?, which matches nothing if the row is gone.
Saved(j, s) == IF status[j] = "absent" THEN status ELSE [status EXCEPT ![j] = s]

Goto(r, l) == req' = [req EXCEPT ![r].pc = l]
Finish(r) == req' = [req EXCEPT ![r] = IdleFrame]
Advance(j, l) == run' = [run EXCEPT ![j].pc = l]

-----------------------------------------------------------------------------
(* Handlers.                                                               *)

Request(r) ==
    /\ req[r].pc = "idle"
    /\ \/ req' = [req EXCEPT ![r].pc = "start_check"]
       \/ \E j \in Jobs : /\ run[j].pc # "none"
                          /\ req' = [req EXCEPT ![r].pc = "cancel_read", ![r].job = j]
    /\ UNCHANGED <<vm, emptied, status, run, cancels, logged, crashes>>

\* net/http cancels the request's context.
Disconnect(r) ==
    /\ Disconnects
    /\ req[r].pc # "idle" /\ req[r].live
    /\ req' = [req EXCEPT ![r].live = FALSE]
    /\ UNCHANGED <<vm, emptied, status, run, cancels, logged, crashes>>

\* StartVMExecJob: the VM must be running when its row is read.
StartCheck(r) ==
    /\ req[r].pc = "start_check"
    /\ IF req[r].live /\ vm = "running" THEN Goto(r, "start_insert") ELSE Finish(r)
    /\ UNCHANGED <<vm, emptied, status, run, cancels, logged, crashes>>

\* Draw an id, insert the row, start the runner.
StartInsert(r) ==
    /\ req[r].pc = "start_insert"
    /\ \/ \E j \in Jobs :
             /\ req[r].live /\ run[j].pc = "none"
             /\ status' = [status EXCEPT ![j] = "queued"]
             /\ Advance(j, "register")
       \/ /\ ~req[r].live \/ \A j \in Jobs : run[j].pc # "none"
          /\ UNCHANGED <<status, run>>
    /\ Finish(r)
    /\ UNCHANGED <<vm, emptied, cancels, logged, crashes>>

\* CancelVMExecJob: a job that is gone or has ended is answered as it is.
CancelRead(r) ==
    /\ req[r].pc = "cancel_read"
    /\ IF req[r].live /\ status[req[r].job] \in {"queued", "running"}
       THEN Goto(r, "cancel_call") ELSE Finish(r)
    /\ UNCHANGED <<vm, emptied, status, run, cancels, logged, crashes>>

\* Call the runner's cancel function, if it is in the map.
CancelCall(r) ==
    LET j == req[r].job
    IN /\ req[r].pc = "cancel_call"
       /\ run' = [run EXCEPT ![j].dead = @ \/ j \in cancels]
       /\ Goto(r, "cancel_write")
       /\ UNCHANGED <<vm, emptied, status, cancels, logged, crashes>>

CancelWrite(r) ==
    /\ req[r].pc = "cancel_write"
    /\ status' = IF req[r].live THEN Saved(req[r].job, "canceled") ELSE status
    /\ Finish(r)
    /\ UNCHANGED <<vm, emptied, run, cancels, logged, crashes>>

-----------------------------------------------------------------------------
(* runVMExecJob.                                                           *)

RunRegister(j) ==
    /\ run[j].pc = "register"
    /\ cancels' = cancels \cup {j}
    /\ Advance(j, "read")
    /\ UNCHANGED <<vm, emptied, status, logged, req, crashes>>

\* The first read is through the runner's own context.
RunRead(j) ==
    /\ run[j].pc = "read"
    /\ \/ /\ run[j].dead \/ status[j] = "absent"
          /\ Advance(j, "unregister") /\ UNCHANGED logged
       \/ /\ ~run[j].dead /\ status[j] = "canceled"
          /\ Advance(j, "unregister") /\ logged' = [logged EXCEPT ![j] = "canceled"]
       \/ /\ ~run[j].dead /\ status[j] \notin {"absent", "canceled"}
          /\ Advance(j, "mark") /\ UNCHANGED logged
    /\ UNCHANGED <<vm, emptied, status, cancels, req, crashes>>

\* The write of running is best effort.
RunMark(j) ==
    /\ run[j].pc = "mark"
    /\ status' = IF run[j].dead THEN status ELSE Saved(j, "running")
    /\ Advance(j, "check")
    /\ UNCHANGED <<vm, emptied, cancels, logged, req, crashes>>

\* Mutant: an error of ExecuteVMCommand is returned like the first read's.
RunCheckReturn(j) ==
    /\ run[j].pc = "check"
    /\ IF run[j].dead \/ vm # "running" THEN Advance(j, "unregister") ELSE Advance(j, "exec")
    /\ UNCHANGED <<vm, emptied, status, cancels, logged, req, crashes>>

\* Mutant: its error is dropped.
RunCheckDropped(j) ==
    /\ run[j].pc = "check"
    /\ IF run[j].dead \/ vm # "running" THEN Advance(j, "reread") ELSE Advance(j, "exec")
    /\ UNCHANGED <<vm, emptied, status, cancels, logged, req, crashes>>

\* ExecuteVMCommand reads the VM and refuses one that is not running.
RunCheck(j) ==
    /\ run[j].pc = "check"
    /\ IF run[j].dead \/ vm # "running"
       THEN run' = [run EXCEPT ![j].pc = "reread", ![j].outcome = "failed"]
       ELSE Advance(j, "exec")
    /\ UNCHANGED <<vm, emptied, status, cancels, logged, req, crashes>>

\* The command ends, or its timeout or the cancelled context ends it; the two
\* may come together, so a cancelled command may still succeed.
RunExec(j) ==
    /\ run[j].pc = "exec"
    /\ \E o \in {"succeeded", "failed"} :
         run' = [run EXCEPT ![j].pc = "reread", ![j].outcome = o]
    /\ UNCHANGED <<vm, emptied, status, cancels, logged, req, crashes>>

\* Mutant: the runner does not look at the row again.
RunRereadBlind(j) ==
    /\ run[j].pc = "reread"
    /\ Advance(j, "commit")
    /\ UNCHANGED <<vm, emptied, status, cancels, logged, req, crashes>>

\* A job that was cancelled meanwhile stays as it is.
RunReread(j) ==
    /\ run[j].pc = "reread"
    /\ IF status[j] = "canceled"
       THEN Advance(j, "unregister") /\ logged' = [logged EXCEPT ![j] = "canceled"]
       ELSE Advance(j, "commit") /\ UNCHANGED logged
    /\ UNCHANGED <<vm, emptied, status, cancels, req, crashes>>

RunCommit(j) ==
    /\ run[j].pc = "commit"
    /\ status' = Saved(j, run[j].outcome)
    /\ Advance(j, "log")
    /\ UNCHANGED <<vm, emptied, cancels, logged, req, crashes>>

\* Mutant: the log is written from the row as it was when the command began.
RunLogEarly(j) ==
    /\ run[j].pc = "log"
    /\ logged' = [logged EXCEPT ![j] = "running"]
    /\ Advance(j, "unregister")
    /\ UNCHANGED <<vm, emptied, status, cancels, req, crashes>>

RunLog(j) ==
    /\ run[j].pc = "log"
    /\ logged' = [logged EXCEPT ![j] = run[j].outcome]
    /\ Advance(j, "unregister")
    /\ UNCHANGED <<vm, emptied, status, cancels, req, crashes>>

\* The deferred function.
RunUnregister(j) ==
    /\ run[j].pc = "unregister"
    /\ cancels' = cancels \ {j}
    /\ run' = [run EXCEPT ![j].pc = "done", ![j].dead = TRUE]
    /\ UNCHANGED <<vm, emptied, status, logged, req, crashes>>

-----------------------------------------------------------------------------
(* The VM and the daemon.                                                  *)

\* StartVM and StopVM, as far as exec jobs see them.
VMSwitch ==
    /\ \/ vm = "running" /\ vm' = "stopped"
       \/ vm = "stopped" /\ vm' = "running"
    /\ UNCHANGED <<emptied, status, run, cancels, logged, req, crashes>>

\* Store.DeleteVM, after StopVM: first the jobs, then the VM.  A StartVM that
\* overlaps may have the VM running again at either step, and a job inserted
\* between the two outlives it.
DeleteJobs ==
    /\ vm # "absent"
    /\ emptied' = TRUE
    /\ status' = [j \in Jobs |-> "absent"]
    /\ UNCHANGED <<vm, run, cancels, logged, req, crashes>>

DeleteVMRow ==
    /\ emptied
    /\ vm' = "absent"
    /\ emptied' = FALSE
    /\ UNCHANGED <<status, run, cancels, logged, req, crashes>>

\* Handlers, runners and the map die with the daemon; rows and logs stay.
Crash ==
    /\ crashes < MaxCrashes
    /\ crashes' = crashes + 1
    /\ run' = [j \in Jobs |-> IF run[j].pc \in {"none", "done"} THEN run[j]
                              ELSE [run[j] EXCEPT !.pc = "lost"]]
    /\ cancels' = {}
    /\ emptied' = FALSE
    /\ req' = [r \in Requests |-> IdleFrame]
    /\ UNCHANGED <<vm, status, logged>>

-----------------------------------------------------------------------------
Handle(r) ==
    \/ StartCheck(r) \/ StartInsert(r)
    \/ CancelRead(r) \/ CancelCall(r) \/ CancelWrite(r)

Run(j) ==
    \/ RunRegister(j) \/ RunRead(j) \/ RunMark(j) \/ RunCheck(j) \/ RunExec(j)
    \/ RunReread(j) \/ RunCommit(j) \/ RunLog(j) \/ RunUnregister(j)

Next ==
    \/ \E r \in Requests : Request(r) \/ Disconnect(r) \/ Handle(r)
    \/ \E j \in Jobs : Run(j)
    \/ VMSwitch \/ DeleteJobs \/ DeleteVMRow \/ Crash

Spec == Init /\ [][Next]_vars

\* Goroutines go on, and a command ends: by itself, by its timeout, or at the
\* latest when TCP gives up on a guest that is gone, since executeVMCommand waits
\* for session.Run even after the timeout.  Clients, VMs and crashes owe nothing.
Fairness ==
    /\ \A r \in Requests : WF_vars(Handle(r))
    /\ \A j \in Jobs : WF_vars(Run(j))

FairSpec == Spec /\ Fairness

-----------------------------------------------------------------------------
(* Properties.                                                             *)

\* A job whose context is live does not stay queued or running: the runner or
\* the handler that cancels it writes how it ended, or DeleteVM removes it,
\* unless the daemon crashes, or the client that cancelled it goes away before
\* the row is written (runVMExecJob, CancelVMExecJob).
JobsResolve ==
    \A j \in Jobs :
        status[j] \in {"queued", "running"} /\ ~run[j].dead ~>
            \/ status[j] \in {"absent"} \cup Ended
            \/ crashes > 0
            \/ \E r \in Requests : /\ req[r].pc = "cancel_write" /\ req[r].job = j
                                    /\ ~req[r].live

\* The runner will yet see that its job is cancelled: in its next read of the
\* row, or because its context keeps it from writing running.
Heeds(j) == \/ run[j].pc \in {"register", "read", "check", "exec", "reread"}
            \/ run[j].pc = "mark" /\ run[j].dead

\* A cancel that is written while the runner can still see it holds: the
\* job's status never changes again (the re-read in runVMExecJob).
CancelHolds ==
    \A j \in Jobs :
        [](status[j] = "canceled" /\ Heeds(j) => [](status[j] \in {"canceled", "absent"}))

\* When the runner is done with a job that it recorded succeeded or failed, the
\* log file says the same (runVMExecJob, writeVMExecJobLog).
LogAgrees ==
    \A j \in Jobs :
        run[j].pc = "done" /\ status[j] \in {"succeeded", "failed"} => logged[j] = status[j]
=============================================================================
