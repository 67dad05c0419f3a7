-------------------------- MODULE ExecJobs_proofs --------------------------
(***************************************************************************)
(* Theorems about ExecJobs for every value of its constants.               *)
(***************************************************************************)
EXTENDS ExecJobs, TLAPS

-----------------------------------------------------------------------------
(* Types.                                                                  *)

\* A handler that cancels has a job, and its runner was started.
Canceling == {"cancel_read", "cancel_call", "cancel_write"}
OnJob == \A r \in Requests : req[r].pc \in Canceling =>
            req[r].job \in Jobs /\ run[req[r].job].pc # "none"

\* A runner about to record an outcome has one.
HasOutcome == \A j \in Jobs : run[j].pc \in {"reread", "commit", "log"} =>
                  run[j].outcome # "none"

TypeInv == TypeOK /\ OnJob /\ HasOutcome

LEMMA AdvanceType ==
    ASSUME TypeInv, NEW j \in Jobs, NEW l \in RunnerPCs \ {"none"}, Advance(j, l)
    PROVE  run' \in [Jobs -> Runner] /\ \A i \in Jobs : run[i].pc # "none" => run'[i].pc # "none"
BY DEF TypeInv, TypeOK, Advance, Runner

\* Runners that were started stay started.
Kept == \A i \in Jobs : run[i].pc # "none" => run'[i].pc # "none"

LEMMA FrameType ==
    ASSUME TypeInv, Kept, NEW r \in Requests, NEW g \in Frame,
           g.pc \in Canceling => g.job \in Jobs /\ run[g.job].pc # "none",
           req' = [req EXCEPT ![r] = g]
    PROVE  req' \in [Requests -> Frame] /\ OnJob'
<1>1. \A q \in Requests : req'[q] = IF q = r THEN g ELSE req[q]
  BY DEF TypeInv, TypeOK
<1>2. req' \in [Requests -> Frame]
  BY DEF TypeInv, TypeOK
<1>3. ASSUME NEW q \in Requests, req'[q].pc \in Canceling
      PROVE  req'[q].job \in Jobs /\ run'[req'[q].job].pc # "none"
  <2>1. req'[q].job \in Jobs /\ run[req'[q].job].pc # "none"
    BY <1>1, <1>3 DEF TypeInv, OnJob
  <2> QED
    BY <2>1 DEF Kept
<1> QED
  BY <1>2, <1>3 DEF OnJob

LEMMA FinishType ==
    ASSUME TypeInv, Kept, NEW r \in Requests, Finish(r)
    PROVE  req' \in [Requests -> Frame] /\ OnJob'
<1>1. IdleFrame \in Frame /\ IdleFrame.pc \notin Canceling
  BY DEF IdleFrame, Frame, RequestPCs, Canceling
<1> QED
  BY <1>1, FrameType DEF Finish

LEMMA GotoType ==
    ASSUME TypeInv, Kept, NEW r \in Requests, NEW l \in RequestPCs, Goto(r, l),
           l \in Canceling => req[r].pc \in Canceling
    PROVE  req' \in [Requests -> Frame] /\ OnJob'
<1> DEFINE g == [req[r] EXCEPT !.pc = l]
<1>1. g \in Frame /\ g.job = req[r].job /\ g.pc = l
  BY DEF TypeInv, TypeOK, Frame
<1>2. req' = [req EXCEPT ![r] = g]
  BY DEF Goto
<1>3. l \in Canceling => req[r].job \in Jobs /\ run[req[r].job].pc # "none"
  BY DEF TypeInv, OnJob
<1> HIDE DEF g
<1> QED
  BY <1>1, <1>2, <1>3, FrameType

\* Nobody touches the frames.
LEMMA FramesSame ==
    ASSUME TypeInv, Kept, UNCHANGED req
    PROVE  req' \in [Requests -> Frame] /\ OnJob'
<1>1. ASSUME NEW q \in Requests, req[q].pc \in Canceling
      PROVE  req[q].job \in Jobs /\ run'[req[q].job].pc # "none"
  BY <1>1 DEF TypeInv, OnJob, Kept
<1> QED
  BY <1>1 DEF TypeInv, TypeOK, OnJob

LEMMA HandlerType ==
    ASSUME TypeInv, NEW r \in Requests, Request(r) \/ Disconnect(r) \/ Handle(r)
    PROVE  TypeInv'
<1>1. CASE Request(r)
  <2>1. Kept
    BY <1>1 DEF Request, Kept
  <2>2. req' \in [Requests -> Frame] /\ OnJob'
    <3>1. CASE req' = [req EXCEPT ![r].pc = "start_check"]
      BY <2>1, <3>1, GotoType DEF Goto, RequestPCs, Canceling
    <3>2. ASSUME NEW j \in Jobs, run[j].pc # "none",
                 req' = [req EXCEPT ![r].pc = "cancel_read", ![r].job = j]
          PROVE  req' \in [Requests -> Frame] /\ OnJob'
      <4> DEFINE g == [req[r] EXCEPT !.pc = "cancel_read", !.job = j]
      <4>1. g \in Frame /\ g.job = j
        BY DEF TypeInv, TypeOK, Frame, RequestPCs
      <4>2. req' = [req EXCEPT ![r] = g]
        BY <3>2
      <4> HIDE DEF g
      <4> QED
        BY <2>1, <3>2, <4>1, <4>2, FrameType
    <3> QED
      BY <1>1, <3>1, <3>2 DEF Request
  <2> QED
    BY <1>1, <2>2 DEF Request, TypeInv, TypeOK, HasOutcome
<1>2. CASE Disconnect(r)
  <2> DEFINE g == [req[r] EXCEPT !.live = FALSE]
  <2>1. g \in Frame /\ g.pc = req[r].pc /\ g.job = req[r].job
    BY DEF TypeInv, TypeOK, Frame
  <2>2. req' = [req EXCEPT ![r] = g] /\ Kept
    BY <1>2 DEF Disconnect, Kept
  <2>3. req' \in [Requests -> Frame] /\ OnJob'
    <3> HIDE DEF g
    <3> QED
      BY <2>1, <2>2, FrameType DEF TypeInv, OnJob
  <2> QED
    BY <1>2, <2>3 DEF Disconnect, TypeInv, TypeOK, HasOutcome
<1>3. CASE StartCheck(r)
  <2>1. Kept
    BY <1>3 DEF StartCheck, Kept
  <2>2. req' \in [Requests -> Frame] /\ OnJob'
    BY <1>3, <2>1, GotoType, FinishType DEF StartCheck, RequestPCs, Canceling
  <2> QED
    BY <1>3, <2>2 DEF StartCheck, TypeInv, TypeOK, HasOutcome
<1>4. CASE StartInsert(r)
  <2>1. status' \in [Jobs -> Statuses] /\ run' \in [Jobs -> Runner] /\ Kept
    BY <1>4, AdvanceType DEF StartInsert, Statuses, RunnerPCs, Kept, TypeInv, TypeOK
  <2>2. req' \in [Requests -> Frame] /\ OnJob'
    BY <1>4, <2>1, FinishType DEF StartInsert
  <2> QED
    <3>1. HasOutcome'
      BY <1>4 DEF StartInsert, Advance, HasOutcome, TypeInv, TypeOK, Runner
    <3> QED
      BY <1>4, <2>1, <2>2, <3>1 DEF StartInsert, TypeInv, TypeOK
<1>5. CASE CancelRead(r)
  <2>1. Kept
    BY <1>5 DEF CancelRead, Kept
  <2>2. req' \in [Requests -> Frame] /\ OnJob'
    <3>1. CASE Finish(r)
      BY <2>1, <3>1, FinishType
    <3>2. CASE ~Finish(r)
      BY <1>5, <2>1, <3>2, GotoType DEF CancelRead, RequestPCs, Canceling
    <3> QED
      BY <3>1, <3>2
  <2> QED
    BY <1>5, <2>2 DEF CancelRead, TypeInv, TypeOK, HasOutcome
<1>6. CASE CancelCall(r)
  <2> DEFINE j == req[r].job
             g == [run[j] EXCEPT !.dead = @ \/ j \in cancels]
  <2>1. run' \in [Jobs -> Runner] /\ Kept
    <3>1. run' = [run EXCEPT ![j] = g]
      BY <1>6 DEF CancelCall
    <3>2. j \in Jobs
      BY <1>6 DEF CancelCall, TypeInv, OnJob, Canceling
    <3>3. g \in Runner /\ g.pc = run[j].pc
      BY <3>2 DEF TypeInv, TypeOK, Runner
    <3> HIDE DEF g, j
    <3> QED
      BY <3>1, <3>2, <3>3 DEF Kept, TypeInv, TypeOK
  <2>2. req' \in [Requests -> Frame] /\ OnJob'
    BY <1>6, <2>1, GotoType DEF CancelCall, RequestPCs, Canceling
  <2> QED
    BY <1>6, <2>1, <2>2 DEF CancelCall, HasOutcome, TypeInv, TypeOK
<1>7. CASE CancelWrite(r)
  <2>1. status' \in [Jobs -> Statuses] /\ Kept
    BY <1>7 DEF CancelWrite, Saved, Statuses, Ended, Kept, TypeInv, TypeOK
  <2>2. req' \in [Requests -> Frame] /\ OnJob'
    BY <1>7, <2>1, FinishType DEF CancelWrite
  <2> QED
    BY <1>7, <2>1, <2>2 DEF CancelWrite, TypeInv, TypeOK, HasOutcome
<1> QED
  BY <1>1, <1>2, <1>3, <1>4, <1>5, <1>6, <1>7 DEF Handle

LEMMA AdvanceFacts ==
    ASSUME TypeInv, NEW i \in Jobs, NEW l, Advance(i, l)
    PROVE  /\ run'[i].pc = l /\ run'[i].dead = run[i].dead /\ run'[i].outcome = run[i].outcome
           /\ \A k \in Jobs : k # i => run'[k] = run[k]
BY DEF Advance, TypeInv, TypeOK, Runner

\* A runner goes on with an outcome.
LEMMA OutcomeSet ==
    ASSUME TypeInv, NEW j \in Jobs, NEW o \in {"succeeded", "failed"},
           run' = [run EXCEPT ![j].pc = "reread", ![j].outcome = o]
    PROVE  /\ run' \in [Jobs -> Runner] /\ HasOutcome'
           /\ \A i \in Jobs : run[i].pc # "none" => run'[i].pc # "none"
<1> DEFINE f == [run[j] EXCEPT !.pc = "reread"]
           g == [run[j] EXCEPT !.pc = "reread", !.outcome = o]
<1>1. f \in Runner /\ f.pc = "reread"
  BY DEF TypeInv, TypeOK, Runner, RunnerPCs
<1>2. g = [f EXCEPT !.outcome = o]
  OBVIOUS
<1>3. run' = [run EXCEPT ![j] = g]
  OBVIOUS
<1> HIDE DEF f
<1>4. g \in Runner /\ g.pc = "reread" /\ g.outcome = o
  BY <1>1, <1>2 DEF Runner
<1> HIDE DEF g
<1> QED
  BY <1>3, <1>4 DEF TypeInv, TypeOK, HasOutcome

LEMMA RunnerType ==
    ASSUME TypeInv, NEW j \in Jobs, Run(j)
    PROVE  TypeInv'
<1>1. /\ run' \in [Jobs -> Runner]
      /\ \A i \in Jobs : run[i].pc # "none" => run'[i].pc # "none"
  <2>1. CASE RunRegister(j) \/ RunRead(j) \/ RunMark(j) \/ RunReread(j) \/ RunCommit(j) \/ RunLog(j)
    BY <2>1, AdvanceType
       DEF RunRegister, RunRead, RunMark, RunReread, RunCommit, RunLog, RunnerPCs
  <2>2. CASE RunCheck(j)
    <3>1. CASE Advance(j, "exec")
      BY <3>1, AdvanceType DEF RunnerPCs
    <3>2. CASE run' = [run EXCEPT ![j].pc = "reread", ![j].outcome = "failed"]
      BY <3>2, OutcomeSet
    <3> QED
      BY <2>2, <3>1, <3>2 DEF RunCheck
  <2>3. CASE RunExec(j)
    BY <2>3, OutcomeSet DEF RunExec
  <2>4. CASE RunUnregister(j)
    BY <2>4 DEF RunUnregister, TypeInv, TypeOK, Runner, RunnerPCs
  <2> QED
    BY <2>1, <2>2, <2>3, <2>4 DEF Run
<1>2. status' \in [Jobs -> Statuses]
  <2>1. CASE RunCommit(j)
    <3>1. run[j].outcome \in {"succeeded", "failed"}
      BY <2>1 DEF RunCommit, TypeInv, TypeOK, HasOutcome, Runner
    <3> QED
      BY <2>1, <3>1 DEF RunCommit, Saved, Statuses, Ended, TypeInv, TypeOK
  <2>2. CASE RunMark(j)
    BY <2>2 DEF RunMark, Saved, Statuses, TypeInv, TypeOK
  <2>3. CASE ~RunCommit(j) /\ ~RunMark(j)
    BY <2>3 DEF Run, RunRegister, RunRead, RunCheck, RunExec, RunReread, RunLog,
                RunUnregister, TypeInv, TypeOK
  <2> QED
    BY <2>1, <2>2, <2>3
<1>3. logged' \in [Jobs -> Statuses]
  <2>1. run[j].pc = "log" => run[j].outcome \in Statuses
    BY DEF TypeInv, TypeOK, HasOutcome, Runner, Statuses, Ended
  <2> QED
    BY <2>1
       DEF Run, RunRegister, RunRead, RunMark, RunCheck, RunExec, RunReread, RunCommit,
           RunLog, RunUnregister, TypeInv, TypeOK, Statuses, Ended
<1>4. HasOutcome'
  <2>1. CASE RunRegister(j) \/ RunRead(j) \/ RunMark(j)
    BY <2>1, AdvanceFacts DEF RunRegister, RunRead, RunMark, HasOutcome, TypeInv
  <2>2. CASE RunCheck(j)
    <3>1. CASE Advance(j, "exec")
      BY <3>1 DEF Advance, HasOutcome, TypeInv, TypeOK, Runner
    <3>2. CASE run' = [run EXCEPT ![j].pc = "reread", ![j].outcome = "failed"]
      BY <3>2, OutcomeSet
    <3> QED
      BY <2>2, <3>1, <3>2 DEF RunCheck
  <2>3. CASE RunExec(j)
    BY <2>3, OutcomeSet DEF RunExec
  <2>4. CASE RunReread(j)
    BY <2>4, AdvanceFacts DEF RunReread, HasOutcome, TypeInv
  <2>5. CASE RunCommit(j) \/ RunLog(j)
    BY <2>5, AdvanceFacts DEF RunCommit, RunLog, HasOutcome, TypeInv
  <2>6. CASE RunUnregister(j)
    BY <2>6 DEF RunUnregister, HasOutcome, TypeInv, TypeOK, Runner
  <2> QED
    BY <2>1, <2>2, <2>3, <2>4, <2>5, <2>6 DEF Run
<1>5. /\ req' = req /\ vm' = vm /\ emptied' = emptied /\ crashes' = crashes /\ cancels' \subseteq Jobs
  BY DEF Run, RunRegister, RunRead, RunMark, RunCheck, RunExec, RunReread, RunCommit,
         RunLog, RunUnregister, TypeInv, TypeOK
<1>6. req' \in [Requests -> Frame] /\ OnJob'
  BY <1>1, <1>5, FramesSame DEF Kept
<1> QED
  BY <1>1, <1>2, <1>3, <1>4, <1>5, <1>6 DEF TypeInv, TypeOK

LEMMA TypeStep == TypeInv /\ [Next]_vars => TypeInv'
<1> SUFFICES ASSUME TypeInv, [Next]_vars PROVE TypeInv'
  OBVIOUS
<1>1. CASE VMSwitch \/ DeleteJobs \/ DeleteVMRow \/ UNCHANGED vars
  <2>1. Kept /\ UNCHANGED req
    BY <1>1 DEF VMSwitch, DeleteJobs, DeleteVMRow, vars, Kept
  <2>2. status' \in [Jobs -> Statuses]
    BY <1>1 DEF VMSwitch, DeleteJobs, DeleteVMRow, vars, Statuses, TypeInv, TypeOK
  <2> QED
    BY <1>1, <2>1, <2>2, FramesSame
       DEF VMSwitch, DeleteJobs, DeleteVMRow, vars, TypeInv, TypeOK, HasOutcome
<1>2. CASE Crash
  <2>1. run' \in [Jobs -> Runner] /\ HasOutcome'
    BY <1>2 DEF Crash, Runner, RunnerPCs, HasOutcome, TypeInv, TypeOK
  <2>2. req' \in [Requests -> Frame] /\ OnJob'
    BY <1>2 DEF Crash, IdleFrame, Frame, RequestPCs, OnJob, Canceling
  <2>3. crashes' \in 0..MaxCrashes
    BY <1>2, ExecAssumption DEF Crash, TypeInv, TypeOK
  <2> QED
    BY <1>2, <2>1, <2>2, <2>3 DEF Crash, TypeInv, TypeOK
<1> QED
  BY <1>1, <1>2, HandlerType, RunnerType DEF Next

\* Every variable keeps its type, however handlers, runners and deletions
\* interleave; a runner about to record an outcome has one (runVMExecJob).
THEOREM TypesHold == Spec => []TypeInv
<1>1. Init => TypeInv
  <2> SUFFICES ASSUME Init PROVE TypeInv
    OBVIOUS
  <2>1. status \in [Jobs -> Statuses] /\ logged \in [Jobs -> Statuses]
    BY DEF Init, Statuses
  <2>2. run \in [Jobs -> Runner] /\ HasOutcome
    BY DEF Init, Runner, RunnerPCs, HasOutcome
  <2>3. req \in [Requests -> Frame] /\ OnJob
    BY DEF Init, Frame, IdleFrame, RequestPCs, OnJob, Canceling
  <2>4. crashes \in 0..MaxCrashes
    BY ExecAssumption DEF Init
  <2>5. vm \in {"running", "stopped", "absent"} /\ emptied \in BOOLEAN /\ cancels \subseteq Jobs
    BY DEF Init
  <2> QED
    BY <2>1, <2>2, <2>3, <2>4, <2>5 DEF TypeInv, TypeOK
<1> QED
  BY <1>1, TypeStep, PTL DEF Spec

THEOREM TypeCorrect == Spec => []TypeOK
<1>1. TypeInv => TypeOK
  BY DEF TypeInv
<1> QED
  BY <1>1, TypesHold, PTL

-----------------------------------------------------------------------------
(* What the log shows.                                                     *)

Outcomes == {"succeeded", "failed"}

\* Only the runner writes an outcome into the row, at its commit, and the log
\* it writes next is of that outcome.
LogInv ==
    \A j \in Jobs :
        /\ run[j].pc = "none" => status[j] = "absent"
        /\ status[j] \in Outcomes =>
             /\ run[j].pc \in {"log", "unregister", "done", "lost"}
             /\ run[j].pc = "log" => status[j] = run[j].outcome
             /\ run[j].pc \in {"unregister", "done"} => logged[j] = status[j]

LEMMA LogStep == TypeInv /\ LogInv /\ [Next]_vars => LogInv'
<1> SUFFICES ASSUME TypeInv, LogInv, [Next]_vars PROVE LogInv'
  OBVIOUS
<1>1. ASSUME NEW r \in Requests, Request(r) \/ Disconnect(r) \/ StartCheck(r) \/ CancelRead(r)
      PROVE  LogInv'
  BY <1>1 DEF Request, Disconnect, StartCheck, CancelRead, LogInv
<1>2. ASSUME NEW r \in Requests, StartInsert(r) PROVE LogInv'
  BY <1>2 DEF StartInsert, Advance, LogInv, Outcomes, TypeInv, TypeOK, Runner
<1>3. ASSUME NEW r \in Requests, CancelCall(r) PROVE LogInv'
  BY <1>3 DEF CancelCall, LogInv, TypeInv, TypeOK, Runner
<1>4. ASSUME NEW r \in Requests, CancelWrite(r) PROVE LogInv'
  BY <1>4 DEF CancelWrite, Saved, LogInv, Outcomes, TypeInv, TypeOK
<1>5. ASSUME NEW j \in Jobs, RunMark(j) PROVE LogInv'
  BY <1>5 DEF RunMark, Saved, Advance, LogInv, Outcomes, TypeInv, TypeOK, Runner
<1>6. ASSUME NEW j \in Jobs, RunCommit(j) PROVE LogInv'
  BY <1>6 DEF RunCommit, Saved, Advance, LogInv, Outcomes, TypeInv, TypeOK, Runner
<1>7. ASSUME NEW j \in Jobs, RunLog(j) PROVE LogInv'
  BY <1>7 DEF RunLog, Advance, LogInv, Outcomes, TypeInv, TypeOK, Runner
<1>8. ASSUME NEW j \in Jobs, RunRead(j) \/ RunReread(j) PROVE LogInv'
  <2>1. CASE RunRead(j)
    BY <2>1, AdvanceFacts DEF RunRead, LogInv, Outcomes, TypeInv, TypeOK
  <2>2. CASE RunReread(j)
    BY <2>2, AdvanceFacts DEF RunReread, LogInv, Outcomes, TypeInv, TypeOK
  <2> QED
    BY <1>8, <2>1, <2>2
<1>9. ASSUME NEW j \in Jobs, RunRegister(j) \/ RunCheck(j) \/ RunExec(j) \/ RunUnregister(j)
      PROVE  LogInv'
  <2>1. CASE RunRegister(j) \/ RunUnregister(j)
    BY <2>1 DEF RunRegister, RunUnregister, Advance, LogInv, Outcomes, TypeInv, TypeOK, Runner
  <2>2. CASE RunCheck(j)
    BY <2>2 DEF RunCheck, Advance, LogInv, Outcomes, TypeInv, TypeOK, Runner
  <2>3. CASE RunExec(j)
    BY <2>3 DEF RunExec, LogInv, Outcomes, TypeInv, TypeOK, Runner
  <2> QED
    BY <1>9, <2>1, <2>2, <2>3
<1>10. CASE VMSwitch \/ DeleteJobs \/ DeleteVMRow \/ UNCHANGED vars
  BY <1>10 DEF VMSwitch, DeleteJobs, DeleteVMRow, vars, LogInv, Outcomes, TypeInv, TypeOK
<1>11. CASE Crash
  BY <1>11 DEF Crash, LogInv, Outcomes, TypeInv, TypeOK, Runner
<1> QED
  BY <1>1, <1>2, <1>3, <1>4, <1>5, <1>6, <1>7, <1>8, <1>9, <1>10, <1>11
     DEF Next, Handle, Run

\* A job recorded succeeded or failed has a log that says the same once its
\* runner is done, whoever cancelled it meanwhile (writeVMExecJobLog).
THEOREM LogsAgree == Spec => []LogAgrees
<1>1. Init => LogInv
  BY DEF Init, LogInv, Outcomes
<1>2. LogInv => LogAgrees
  BY DEF LogInv, LogAgrees, Outcomes
<1> QED
  BY <1>1, <1>2, TypesHold, LogStep, PTL DEF Spec

-----------------------------------------------------------------------------
(* Cancelled jobs.                                                         *)

\* The row of a job that was cancelled in time, and where its runner may be.
Held(j) ==
    \/ status[j] = "absent" /\ run[j].pc # "none"
    \/ status[j] = "canceled" /\ (Heeds(j) \/ run[j].pc \in {"unregister", "done", "lost"})

LEMMA HeldStep ==
    ASSUME NEW j \in Jobs
    PROVE  TypeInv /\ Held(j) /\ [Next]_vars => Held(j)'
<1> SUFFICES ASSUME TypeInv, Held(j), [Next]_vars PROVE Held(j)'
  OBVIOUS
<1>1. ASSUME NEW r \in Requests, Request(r) \/ Disconnect(r) \/ StartCheck(r) \/ CancelRead(r)
      PROVE  Held(j)'
  BY <1>1 DEF Request, Disconnect, StartCheck, CancelRead, Held, Heeds
<1>2. ASSUME NEW r \in Requests, StartInsert(r) PROVE Held(j)'
  BY <1>2 DEF StartInsert, Advance, Held, Heeds, TypeInv, TypeOK, Runner
<1>3. ASSUME NEW r \in Requests, CancelCall(r) PROVE Held(j)'
  BY <1>3 DEF CancelCall, Held, Heeds, TypeInv, TypeOK, Runner
<1>4. ASSUME NEW r \in Requests, CancelWrite(r) PROVE Held(j)'
  BY <1>4 DEF CancelWrite, Saved, Held, Heeds, TypeInv, TypeOK
<1>5. ASSUME NEW i \in Jobs, RunMark(i) \/ RunCommit(i) PROVE Held(j)'
  BY <1>5 DEF RunMark, RunCommit, Saved, Advance, Held, Heeds, TypeInv, TypeOK, Runner
<1>6. ASSUME NEW i \in Jobs, RunRead(i) \/ RunReread(i) \/ RunLog(i) PROVE Held(j)'
  BY <1>6, AdvanceFacts DEF RunRead, RunReread, RunLog, Held, Heeds
<1>7. ASSUME NEW i \in Jobs, RunRegister(i) \/ RunCheck(i) \/ RunExec(i) \/ RunUnregister(i)
      PROVE  Held(j)'
  <2>1. CASE RunRegister(i)
    BY <2>1, AdvanceFacts DEF RunRegister, Held, Heeds, TypeInv, TypeOK
  <2>2. CASE RunCheck(i)
    <3>1. CASE Advance(i, "exec")
      BY <2>2, <3>1, AdvanceFacts DEF RunCheck, Held, Heeds
    <3>2. CASE run' = [run EXCEPT ![i].pc = "reread", ![i].outcome = "failed"]
      BY <2>2, <3>2 DEF RunCheck, Held, Heeds, TypeInv, TypeOK, Runner
    <3> QED
      BY <2>2, <3>1, <3>2 DEF RunCheck
  <2>3. CASE RunExec(i)
    BY <2>3 DEF RunExec, Held, Heeds, TypeInv, TypeOK, Runner
  <2>4. CASE RunUnregister(i)
    BY <2>4 DEF RunUnregister, Held, Heeds, TypeInv, TypeOK, Runner
  <2> QED
    BY <1>7, <2>1, <2>2, <2>3, <2>4
<1>8. CASE VMSwitch \/ DeleteJobs \/ DeleteVMRow \/ UNCHANGED vars
  BY <1>8 DEF VMSwitch, DeleteJobs, DeleteVMRow, vars, Held, Heeds, TypeInv, TypeOK
<1>9. CASE Crash
  BY <1>9 DEF Crash, Held, Heeds, TypeInv, TypeOK, Runner
<1> QED
  BY <1>1, <1>2, <1>3, <1>4, <1>5, <1>6, <1>7, <1>8, <1>9 DEF Next, Handle, Run

\* A cancel that is written while the runner can still see it holds for good:
\* no write of the runner and no later handler undoes it (runVMExecJob).
THEOREM CancelsHold == Spec => CancelHolds
<1>1. ASSUME NEW j \in Jobs
      PROVE  Spec => [](status[j] = "canceled" /\ Heeds(j) =>
                          [](status[j] \in {"canceled", "absent"}))
  <2>1. status[j] = "canceled" /\ Heeds(j) => Held(j)
    BY DEF Held
  <2>2. Held(j) => status[j] \in {"canceled", "absent"}
    BY DEF Held
  <2>3. TypeInv /\ Held(j) /\ [Next]_vars => Held(j)'
    BY HeldStep
  <2> QED
    BY <2>1, <2>2, <2>3, TypesHold, PTL DEF Spec
<1> QED
  BY <1>1 DEF CancelHolds
=============================================================================
