------------------------ MODULE VMLifecycle_proofs ------------------------
(***************************************************************************)
(* Theorems about VMLifecycle for every value of its constants.            *)
(***************************************************************************)
EXTENDS VMLifecycle, TLAPS

USE DEF At

-----------------------------------------------------------------------------
(* Types.  TypeOK is not inductive by itself: a handler reads the row of    *)
(* its VM, so it must be known to have one.                                *)

\* The counters of handlers that work on a VM.
VMPCs == PCs \ {"idle", "orphan_rows", "orphan_links", "orphan_delete"}

\* Every such handler has one.
OnVM == \A r \in Requests : req[r].pc \in VMPCs => req[r].vm \in VMs

TypeInv == TypeOK /\ OnVM

LEMMA IdleFrameType == IdleFrame \in Frame /\ IdleFrame.pc \notin VMPCs
BY DEF IdleFrame, Frame, AllOps, PCs, RowType, NoRow, States, VMPCs

LEMMA FinishType ==
    ASSUME TypeInv, NEW r \in Requests, Finish(r)
    PROVE  req' \in [Requests -> Frame] /\ OnVM'
BY IdleFrameType DEF TypeInv, TypeOK, OnVM, Finish

LEMMA FrameType ==
    ASSUME TypeInv, NEW r \in Requests, NEW g \in Frame,
           g.pc \in VMPCs => g.vm \in VMs,
           req' = [req EXCEPT ![r] = g]
    PROVE  req' \in [Requests -> Frame] /\ OnVM'
BY DEF TypeInv, TypeOK, OnVM

\* A handler moves on within its VM.
LEMMA GotoType ==
    ASSUME TypeInv, NEW r \in Requests, req[r].pc \in VMPCs, NEW l \in PCs, Goto(r, l)
    PROVE  req' \in [Requests -> Frame] /\ OnVM'
<1> DEFINE g == [req[r] EXCEPT !.pc = l]
<1>1. g \in Frame /\ g.vm = req[r].vm
  BY DEF TypeInv, TypeOK, Frame
<1>2. req' = [req EXCEPT ![r] = g]
  BY DEF Goto
<1>3. req[r].vm \in VMs
  BY DEF TypeInv, OnVM
<1> HIDE DEF g
<1> QED
  BY <1>1, <1>2, <1>3, FrameType

LEMMA ReturnType ==
    ASSUME TypeInv, NEW r \in Requests, req[r].pc \in VMPCs, NEW l \in PCs, Return(r, l)
    PROVE  req' \in [Requests -> Frame] /\ OnVM'
BY FinishType, GotoType DEF Return

\* A frame with a new counter and one or two other fields is a frame on the same VM.
LEMMA FrameSet ==
    ASSUME NEW f \in Frame, NEW pc \in PCs
    PROVE  /\ \A snap \in RowType :
                 [f EXCEPT !.pc = pc, !.snap = snap] \in {g \in Frame : g.vm = f.vm}
           /\ \A bad \in BOOLEAN :
                 [f EXCEPT !.pc = pc, !.bad = bad] \in {g \in Frame : g.vm = f.vm}
           /\ \A size \in Sizes \cup {0} :
                 [f EXCEPT !.pc = pc, !.size = size] \in {g \in Frame : g.vm = f.vm}
           /\ \A snap \in RowType, bad \in BOOLEAN :
                 [f EXCEPT !.pc = pc, !.snap = snap, !.bad = bad] \in {g \in Frame : g.vm = f.vm}
<1> DEFINE Same == {g \in Frame : g.vm = f.vm}
<1>1. ASSUME NEW g \in Same PROVE [g EXCEPT !.pc = pc] \in Same
  BY DEF Frame
<1>2. ASSUME NEW g \in Same, NEW snap \in RowType PROVE [g EXCEPT !.snap = snap] \in Same
  BY DEF Frame
<1>3. ASSUME NEW g \in Same, NEW bad \in BOOLEAN PROVE [g EXCEPT !.bad = bad] \in Same
  BY DEF Frame
<1>4. ASSUME NEW g \in Same, NEW size \in Sizes \cup {0} PROVE [g EXCEPT !.size = size] \in Same
  BY DEF Frame
<1>5. f \in Same
  OBVIOUS
<1> HIDE DEF Same
<1>6. PICK h \in Same : h = [f EXCEPT !.pc = pc]
  BY <1>1, <1>5, Zenon
<1>7. ASSUME NEW snap \in RowType
      PROVE  /\ [f EXCEPT !.pc = pc, !.snap = snap] \in Same
             /\ \A bad \in BOOLEAN : [f EXCEPT !.pc = pc, !.snap = snap, !.bad = bad] \in Same
  <2>1. PICK k \in Same : k = [h EXCEPT !.snap = snap]
    BY <1>2, Zenon
  <2>2. k = [f EXCEPT !.pc = pc, !.snap = snap]
    BY <1>6, <2>1, Zenon
  <2>3. ASSUME NEW bad \in BOOLEAN
        PROVE  [f EXCEPT !.pc = pc, !.snap = snap, !.bad = bad] = [k EXCEPT !.bad = bad]
    BY <1>6, <2>1, Zenon
  <2> QED
    BY <1>3, <2>2, <2>3, Zenon
<1>8. ASSUME NEW bad \in BOOLEAN PROVE [f EXCEPT !.pc = pc, !.bad = bad] \in Same
  <2>1. [f EXCEPT !.pc = pc, !.bad = bad] = [h EXCEPT !.bad = bad]
    BY <1>6, Zenon
  <2> QED
    BY <1>3, <2>1, Zenon
<1>9. ASSUME NEW size \in Sizes \cup {0} PROVE [f EXCEPT !.pc = pc, !.size = size] \in Same
  <2>1. [f EXCEPT !.pc = pc, !.size = size] = [h EXCEPT !.size = size]
    BY <1>6, Zenon
  <2> QED
    BY <1>4, <2>1, Zenon
<1> QED
  BY <1>7, <1>8, <1>9, Zenon DEF Same

LEMMA ReadRowType ==
    ASSUME TypeInv, NEW r \in Requests, req[r].pc \in VMPCs, NEW l \in PCs, ReadRow(r, l)
    PROVE  req' \in [Requests -> Frame] /\ OnVM'
<1>1. req[r].vm \in VMs /\ row[req[r].vm] \in RowType
  BY DEF TypeInv, TypeOK, OnVM
<1>2. CASE Finish(r)
  BY <1>2, FinishType
<1>3. CASE req' = [req EXCEPT ![r].pc = l, ![r].snap = row[req[r].vm]]
  <2> DEFINE g == [req[r] EXCEPT !.pc = l, !.snap = row[req[r].vm]]
  <2>1. g \in Frame /\ g.vm = req[r].vm
    <3>1. req[r] \in Frame
      BY DEF TypeInv, TypeOK
    <3>2. g \in {f \in Frame : f.vm = req[r].vm}
      BY <1>1, <3>1, FrameSet, Zenon
    <3> QED
      BY <3>2, Zenon
  <2>2. req' = [req EXCEPT ![r] = g]
    BY <1>3
  <2> QED
    BY <1>1, <2>1, <2>2, FrameType
<1> QED
  BY <1>2, <1>3 DEF ReadRow

\* What a handler goes back to is a program counter.
LEMMA AfterPCs ==
    ASSUME NEW f PROVE AfterStop(f) \in PCs /\ AfterStart(f) \in PCs
BY DEF AfterStop, AfterStart, PCs

LEMMA SavedType ==
    ASSUME TypeInv, NEW v \in VMs, NEW rec \in RowType
    PROVE  Saved(v, rec) \in [VMs -> RowType]
BY DEF TypeInv, TypeOK, Saved

LEMMA KilledType ==
    ASSUME TypeInv, NEW n
    PROVE  Killed(n) \in [Names -> {"none", "api", "up", "exited"}]
BY DEF TypeInv, TypeOK, Killed

LEMMA KillType ==
    ASSUME TypeInv, NEW r \in Requests, NEW from \in VMPCs, NEW to \in PCs,
           Kill(r, from, to)
    PROVE  TypeInv'
<1>1. req' \in [Requests -> Frame] /\ OnVM'
  BY GotoType DEF Kill
<1>2. proc' \in [Names -> {"none", "api", "up", "exited"}]
  BY KilledType DEF Kill, TypeInv, TypeOK
<1> QED
  BY <1>1, <1>2 DEF Kill, TypeInv, TypeOK, daemon

LEMMA UmountType ==
    ASSUME TypeInv, NEW r \in Requests, NEW from \in VMPCs, NEW to \in PCs,
           Umount(r, from, to)
    PROVE  TypeInv'
<1>1. req' \in [Requests -> Frame] /\ OnVM'
  <2>1. CASE Goto(r, to)
    BY <2>1, GotoType DEF Umount
  <2>2. CASE req' = [req EXCEPT ![r].pc = to, ![r].bad = TRUE]
    <3> DEFINE g == [req[r] EXCEPT !.pc = to, !.bad = TRUE]
    <3>1. g \in Frame /\ g.vm = req[r].vm
      <4>1. req[r] \in Frame /\ TRUE \in BOOLEAN
        BY DEF TypeInv, TypeOK
      <4>2. g \in {f \in Frame : f.vm = req[r].vm}
        BY <4>1, FrameSet, Zenon
      <4> QED
        BY <4>2, Zenon
    <3>2. req' = [req EXCEPT ![r] = g]
      BY <2>2
    <3>3. req[r].vm \in VMs
      BY DEF Umount, TypeInv, OnVM
    <3> QED
      BY <3>1, <3>2, <3>3, FrameType
  <2> QED
    BY <2>1, <2>2 DEF Umount
<1>2. mounted' \in [Names -> BOOLEAN]
  BY DEF Umount, TypeInv, TypeOK
<1> QED
  BY <1>1, <1>2 DEF Umount, TypeInv, TypeOK, daemon

LEMMA WipeType ==
    ASSUME TypeInv, NEW r \in Requests, NEW from \in VMPCs, NEW to \in PCs,
           Wipe(r, from, to)
    PROVE  TypeInv'
<1>1. Name(r) \in Names
  BY ConstantsAssumption DEF Wipe, Name, TypeInv, OnVM
<1>2. mounted[Name(r)] \in BOOLEAN
  BY <1>1 DEF TypeInv, TypeOK
<1>3. req' \in [Requests -> Frame] /\ OnVM'
  <2> DEFINE g == [req[r] EXCEPT !.pc = to, !.bad = @ \/ mounted[Name(r)]]
  <2>1. g \in Frame /\ g.vm = req[r].vm
    <3>1. req[r] \in Frame /\ (req[r].bad \/ mounted[Name(r)]) \in BOOLEAN
      BY <1>2 DEF TypeInv, TypeOK, Frame
    <3>2. g \in {f \in Frame : f.vm = req[r].vm}
      BY <3>1, FrameSet, Zenon
    <3> QED
      BY <3>2, Zenon
  <2>2. req' = [req EXCEPT ![r] = g]
    BY DEF Wipe
  <2>3. req[r].vm \in VMs
    BY DEF Wipe, TypeInv, OnVM
  <2> QED
    BY <2>1, <2>2, <2>3, FrameType
<1>4. disk' \in [Names -> {"none", "file", "wiped"}] /\ kernels' \in BOOLEAN
  BY DEF Wipe, RemoveJail, TypeInv, TypeOK
<1> QED
  BY <1>3, <1>4 DEF Wipe, TypeInv, TypeOK, daemon

LEMMA RequestType ==
    ASSUME TypeInv, NEW r \in Requests, Request(r)
    PROVE  TypeInv'
<1>1. ASSUME NEW o \in AllOps, NEW v \in VMs \cup {NoVM}, NEW s \in Sizes \cup {0},
             NEW again \in BOOLEAN, Accept(r, o, v, s, again),
             o = "orphans" \/ v \in VMs
      PROVE  req' \in [Requests -> Frame] /\ OnVM'
  <2> DEFINE l == IF o = "restart" /\ s # 0 THEN "resize_read" ELSE FirstStep(o)
             g == [IdleFrame EXCEPT !.op = o, !.vm = v, !.size = s,
                                    !.restart = again, !.pc = l]
  <2>1. l \in PCs /\ (o = "orphans" => l \notin VMPCs)
    <3>1. FirstStep(o) \in PCs /\ (o = "orphans" => FirstStep(o) = "orphan_rows")
      BY DEF FirstStep, AllOps, PCs
    <3> QED
      BY <3>1 DEF PCs, VMPCs
  <2>2. g \in Frame /\ g.vm = v /\ g.pc = l
    <3> HIDE DEF l
    <3> QED
      BY <2>1, IdleFrameType DEF Frame
  <2>3. req' = [req EXCEPT ![r] = g]
    BY <1>1 DEF Accept
  <2> HIDE DEF g, l
  <2> QED
    BY <1>1, <2>1, <2>2, <2>3, FrameType
<1>2. req' \in [Requests -> Frame] /\ OnVM' /\ born' \subseteq VMs
  <2>1. CASE \E v \in VMs, s \in Sizes : RequestCreate(r, v, s)
    BY <1>1, <2>1 DEF RequestCreate, AllOps, TypeInv, TypeOK
  <2>2. CASE \E v \in VMs, o \in {"start", "stop", "delete"} : RequestVM(r, o, v, 0, FALSE)
    BY <1>1, <2>2 DEF RequestVM, AllOps, TypeInv, TypeOK
  <2>3. CASE \E v \in VMs, s \in Sizes \cup {0} : RequestVM(r, "restart", v, s, TRUE)
    BY <1>1, <2>3 DEF RequestVM, AllOps, TypeInv, TypeOK
  <2>4. CASE \E v \in VMs, s \in Sizes, again \in BOOLEAN : RequestVM(r, "resize", v, s, again)
    BY <1>1, <2>4 DEF RequestVM, AllOps, TypeInv, TypeOK
  <2>5. CASE RequestOrphans(r)
    BY <1>1, <2>5 DEF RequestOrphans, AllOps, TypeInv, TypeOK
  <2> QED
    BY <2>1, <2>2, <2>3, <2>4, <2>5 DEF Request
<1>3. UNCHANGED <<row, host, daemon>>
  BY DEF Request
<1> QED
  BY <1>2, <1>3 DEF host, daemon, TypeInv, TypeOK

LEMMA DisconnectType ==
    ASSUME TypeInv, NEW r \in Requests, Disconnect(r)
    PROVE  TypeInv'
<1> DEFINE g == [req[r] EXCEPT !.live = FALSE]
<1>1. g \in Frame /\ g.vm = req[r].vm /\ g.pc = req[r].pc
  BY DEF TypeInv, TypeOK, Frame
<1>2. req' = [req EXCEPT ![r] = g]
  BY DEF Disconnect
<1>3. req' \in [Requests -> Frame] /\ OnVM'
  BY <1>1, <1>2, FrameType DEF TypeInv, OnVM
<1> QED
  BY <1>3 DEF Disconnect, host, daemon, TypeInv, TypeOK

LEMMA CreateType ==
    ASSUME TypeInv, NEW r \in Requests,
           CreateCheck(r) \/ CreateRootFS(r) \/ CreateInsert(r)
    PROVE  TypeInv'
<1>1. CASE CreateCheck(r)
  <2>1. req' \in [Requests -> Frame] /\ OnVM'
    BY <1>1, GotoType, FinishType DEF CreateCheck, PCs, VMPCs
  <2> QED
    BY <1>1, <2>1 DEF CreateCheck, host, daemon, TypeInv, TypeOK
<1>2. CASE CreateRootFS(r)
  <2>1. req' \in [Requests -> Frame] /\ OnVM'
    BY <1>2, GotoType, FinishType DEF CreateRootFS, PCs, VMPCs
  <2>2. disk' \in [Names -> {"none", "file", "wiped"}]
    BY <1>2 DEF CreateRootFS, TypeInv, TypeOK
  <2> QED
    BY <1>2, <2>1, <2>2 DEF CreateRootFS, daemon, TypeInv, TypeOK
<1>3. CASE CreateInsert(r)
  <2>1. req' \in [Requests -> Frame] /\ OnVM'
    BY <1>3, FinishType DEF CreateInsert
  <2>2. [state |-> "stopped", size |-> req[r].size, err |-> FALSE] \in RowType
    BY DEF RowType, States, TypeInv, TypeOK, Frame
  <2>3. row' \in [VMs -> RowType]
    BY <1>3, <2>2 DEF CreateInsert, TypeInv, TypeOK
  <2> QED
    BY <1>3, <2>1, <2>3 DEF CreateInsert, host, daemon, TypeInv, TypeOK
<1> QED
  BY <1>1, <1>2, <1>3

\* A handler that works on a VM has it, and its snap is a row.
LEMMA FrameFacts ==
    ASSUME TypeInv, NEW r \in Requests, req[r].pc \in VMPCs
    PROVE  /\ req[r] \in Frame
           /\ req[r].vm \in VMs /\ Name(r) \in Names
           /\ req[r].snap \in RowType /\ req[r].size \in Sizes \cup {0}
BY ConstantsAssumption DEF TypeInv, TypeOK, OnVM, Frame, Name

LEMMA StartType ==
    ASSUME TypeInv, NEW r \in Requests,
           \/ StartRead(r) \/ StartMark(r) \/ StartNet(r) \/ StartKill(r)
           \/ StartUmount(r) \/ StartWipe(r) \/ StartSpawn(r) \/ StartMount(r)
           \/ StartBoot(r) \/ StartCommit(r) \/ StartFail(r)
    PROVE  TypeInv'
<1>1. CASE StartRead(r)
  <2>1. req' \in [Requests -> Frame] /\ OnVM'
    BY <1>1, ReadRowType, FinishType DEF StartRead, PCs, VMPCs
  <2> QED
    BY <1>1, <2>1 DEF StartRead, host, daemon, TypeInv, TypeOK
<1>2. CASE StartMark(r)
  <2> DEFINE marked == [req[r].snap EXCEPT !.state = "starting", !.err = FALSE]
             g == [req[r] EXCEPT !.pc = "start_net", !.snap = marked]
  <2>1. req[r].pc \in VMPCs
    BY <1>2 DEF StartMark, VMPCs, PCs
  <2>2. marked \in RowType
    BY <2>1, FrameFacts DEF RowType, States
  <2>3. g \in Frame /\ g.vm = req[r].vm
    <3>1. req[r] \in Frame /\ "start_net" \in PCs
      BY <2>1, FrameFacts DEF PCs
    <3> HIDE DEF marked
    <3>2. g \in {f \in Frame : f.vm = req[r].vm}
      BY <2>2, <3>1, FrameSet, Zenon
    <3> QED
      BY <3>2, Zenon
  <2>4. CASE Finish(r) /\ UNCHANGED row
    BY <1>2, <2>4, FinishType DEF StartMark, host, daemon, TypeInv, TypeOK
  <2>5. CASE Return(r, AfterStart(req[r])) /\ UNCHANGED row
    <3>1. req' \in [Requests -> Frame] /\ OnVM'
      BY <2>1, <2>5, ReturnType, AfterPCs
    <3> QED
      BY <1>2, <2>5, <3>1 DEF StartMark, host, daemon, TypeInv, TypeOK
  <2>6. CASE row' = Saved(req[r].vm, marked) /\ req' = [req EXCEPT ![r] = g]
    <3> HIDE DEF marked, g
    <3>1. req' \in [Requests -> Frame] /\ OnVM'
      BY <2>1, <2>3, <2>6, FrameFacts, FrameType
    <3>2. row' \in [VMs -> RowType]
      BY <2>1, <2>2, <2>6, FrameFacts, SavedType
    <3> QED
      BY <1>2, <3>1, <3>2 DEF StartMark, host, daemon, TypeInv, TypeOK
  <2> QED
    BY <1>2, <2>4, <2>5, <2>6 DEF StartMark
<1>3. CASE StartNet(r)
  <2>1. req' \in [Requests -> Frame] /\ OnVM'
    BY <1>3, GotoType DEF StartNet, PCs, VMPCs
  <2>2. tap' \in [VMs -> BOOLEAN]
    BY <1>3 DEF StartNet, TypeInv, TypeOK
  <2> QED
    BY <1>3, <2>1, <2>2 DEF StartNet, daemon, TypeInv, TypeOK
<1>4. CASE StartKill(r)
  BY <1>4, KillType DEF StartKill, PCs, VMPCs
<1>5. CASE StartUmount(r)
  BY <1>5, UmountType DEF StartUmount, PCs, VMPCs
<1>6. CASE StartWipe(r)
  BY <1>6, WipeType DEF StartWipe, PCs, VMPCs
<1>7. CASE StartSpawn(r)
  <2>1. req' \in [Requests -> Frame] /\ OnVM'
    BY <1>7, GotoType DEF StartSpawn, PCs, VMPCs
  <2>2. proc' \in [Names -> {"none", "api", "up", "exited"}]
    BY <1>7 DEF StartSpawn, TypeInv, TypeOK
  <2> QED
    BY <1>7, <2>1, <2>2 DEF StartSpawn, daemon, TypeInv, TypeOK
<1>8. CASE StartMount(r)
  <2>1. req' \in [Requests -> Frame] /\ OnVM'
    BY <1>8, GotoType DEF StartMount, PCs, VMPCs
  <2>2. mounted' \in [Names -> BOOLEAN]
    BY <1>8 DEF StartMount, TypeInv, TypeOK
  <2> QED
    BY <1>8, <2>1, <2>2 DEF StartMount, daemon, TypeInv, TypeOK
<1>9. CASE StartBoot(r)
  <2>1. req' \in [Requests -> Frame] /\ OnVM'
    BY <1>9, GotoType DEF StartBoot, PCs, VMPCs
  <2>2. req[r].snap.size \in Sizes \cup {0}
    BY <1>9, FrameFacts DEF StartBoot, RowType, PCs, VMPCs
  <2>3. proc' \in [Names -> {"none", "api", "up", "exited"}] /\ cfg' \in [Names -> Sizes \cup {0}]
    BY <1>9, <2>2 DEF StartBoot, TypeInv, TypeOK
  <2> QED
    BY <1>9, <2>1, <2>3 DEF StartBoot, daemon, TypeInv, TypeOK
<1>10. CASE StartCommit(r)
  <2>1. req[r].pc \in VMPCs
    BY <1>10 DEF StartCommit, VMPCs, PCs
  <2>2. [req[r].snap EXCEPT !.state = "running"] \in RowType
    BY <2>1, FrameFacts DEF RowType, States
  <2>3. row' \in [VMs -> RowType]
    BY <1>10, <2>1, <2>2, FrameFacts, SavedType DEF StartCommit, TypeInv, TypeOK
  <2>4. req' \in [Requests -> Frame] /\ OnVM'
    BY <1>10, <2>1, FinishType, ReturnType, AfterPCs DEF StartCommit
  <2> QED
    BY <1>10, <2>3, <2>4 DEF StartCommit, host, daemon, TypeInv, TypeOK
<1>11. CASE StartFail(r)
  <2>1. req[r].pc \in VMPCs
    BY <1>11 DEF StartFail, VMPCs, PCs
  <2>2. [req[r].snap EXCEPT !.state = "error", !.err = TRUE] \in RowType
    BY <2>1, FrameFacts DEF RowType, States
  <2>3. row' \in [VMs -> RowType]
    BY <1>11, <2>1, <2>2, FrameFacts, SavedType DEF StartFail, TypeInv, TypeOK
  <2>4. req' \in [Requests -> Frame] /\ OnVM'
    BY <1>11, FinishType DEF StartFail
  <2> QED
    BY <1>11, <2>3, <2>4 DEF StartFail, host, daemon, TypeInv, TypeOK
<1> QED
  BY <1>1, <1>2, <1>3, <1>4, <1>5, <1>6, <1>7, <1>8, <1>9, <1>10, <1>11

LEMMA StopType ==
    ASSUME TypeInv, NEW r \in Requests,
           \/ StopRead(r) \/ StopMark(r) \/ StopKill(r) \/ StopUmount(r)
           \/ StopWipe(r) \/ StopTap(r) \/ StopCommit(r)
    PROVE  TypeInv'
<1>1. CASE StopRead(r)
  BY <1>1, ReadRowType DEF StopRead, PCs, VMPCs, host, daemon, TypeInv, TypeOK
<1>2. CASE StopMark(r)
  <2> DEFINE marked == [req[r].snap EXCEPT !.state = "stopping"]
             g == [req[r] EXCEPT !.pc = "stop_kill", !.snap = marked, !.bad = FALSE]
  <2>1. req[r].pc \in VMPCs
    BY <1>2 DEF StopMark, VMPCs, PCs
  <2>2. marked \in RowType
    BY <2>1, FrameFacts DEF RowType, States
  <2>3. row' \in [VMs -> RowType]
    BY <1>2, <2>1, <2>2, FrameFacts, SavedType DEF StopMark, TypeInv, TypeOK
  <2>4. req' = [req EXCEPT ![r] = g]
    BY <1>2 DEF StopMark
  <2>5. g \in Frame /\ g.vm = req[r].vm
    <3>1. req[r] \in Frame /\ "stop_kill" \in PCs /\ FALSE \in BOOLEAN
      BY <2>1, FrameFacts DEF PCs
    <3> HIDE DEF marked
    <3>2. g \in {f \in Frame : f.vm = req[r].vm}
      BY <2>2, <3>1, FrameSet, Zenon
    <3> QED
      BY <3>2, Zenon
  <2>6. req' \in [Requests -> Frame] /\ OnVM'
    <3> HIDE DEF g
    <3> QED
      BY <2>1, <2>4, <2>5, FrameFacts, FrameType
  <2> QED
    BY <1>2, <2>3, <2>6 DEF StopMark, host, daemon, TypeInv, TypeOK
<1>3. CASE StopKill(r)
  BY <1>3, KillType DEF StopKill, PCs, VMPCs
<1>4. CASE StopUmount(r)
  BY <1>4, UmountType DEF StopUmount, PCs, VMPCs
<1>5. CASE StopWipe(r)
  BY <1>5, WipeType DEF StopWipe, PCs, VMPCs
<1>6. CASE StopTap(r)
  <2> DEFINE g == [req[r] EXCEPT !.pc = "stop_commit", !.bad = TRUE]
  <2>1. req[r].pc \in VMPCs
    BY <1>6 DEF StopTap, VMPCs, PCs
  <2>2. g \in Frame /\ g.vm = req[r].vm
    <3>1. req[r] \in Frame /\ "stop_commit" \in PCs /\ TRUE \in BOOLEAN
      BY <2>1, FrameFacts DEF PCs
    <3>2. g \in {f \in Frame : f.vm = req[r].vm}
      BY <3>1, FrameSet, Zenon
    <3> QED
      BY <3>2, Zenon
  <2>3. ASSUME Goto(r, "stop_commit") PROVE req' \in [Requests -> Frame] /\ OnVM'
    BY <2>1, <2>3, GotoType DEF PCs
  <2>4. ASSUME req' = [req EXCEPT ![r] = g] PROVE req' \in [Requests -> Frame] /\ OnVM'
    BY <2>1, <2>2, <2>4, FrameFacts, FrameType
  <2>5. tap' \in [VMs -> BOOLEAN]
    BY <1>6 DEF StopTap, TypeInv, TypeOK
  <2>6. req' \in [Requests -> Frame] /\ OnVM'
    BY <1>6, <2>3, <2>4 DEF StopTap
  <2> QED
    BY <1>6, <2>5, <2>6 DEF StopTap, daemon, TypeInv, TypeOK
<1>7. CASE StopCommit(r)
  <2> DEFINE saved == [req[r].snap EXCEPT !.state = "stopped", !.err = req[r].bad]
  <2>1. req[r].pc \in VMPCs
    BY <1>7 DEF StopCommit, VMPCs, PCs
  <2>2. saved \in RowType
    BY <2>1, FrameFacts DEF RowType, States, Frame
  <2>3. row' \in [VMs -> RowType]
    BY <1>7, <2>1, <2>2, FrameFacts, SavedType DEF StopCommit, TypeInv, TypeOK
  <2>4. req' \in [Requests -> Frame] /\ OnVM'
    BY <1>7, <2>1, FinishType, ReturnType, AfterPCs DEF StopCommit
  <2> QED
    BY <1>7, <2>3, <2>4 DEF StopCommit, host, daemon, TypeInv, TypeOK
<1> QED
  BY <1>1, <1>2, <1>3, <1>4, <1>5, <1>6, <1>7

LEMMA DeleteType ==
    ASSUME TypeInv, NEW r \in Requests,
           DeleteRead(r) \/ DeleteFiles(r) \/ DeleteRow(r)
    PROVE  TypeInv'
<1>1. CASE DeleteRead(r)
  BY <1>1, ReadRowType DEF DeleteRead, PCs, VMPCs, host, daemon, TypeInv, TypeOK
<1>2. CASE DeleteFiles(r)
  <2>1. req' \in [Requests -> Frame] /\ OnVM'
    BY <1>2, GotoType DEF DeleteFiles, PCs, VMPCs
  <2>2. disk' \in [Names -> {"none", "file", "wiped"}]
    BY <1>2 DEF DeleteFiles, TypeInv, TypeOK
  <2> QED
    BY <1>2, <2>1, <2>2 DEF DeleteFiles, daemon, TypeInv, TypeOK
<1>3. CASE DeleteRow(r)
  <2>1. NoRow \in RowType
    BY DEF NoRow, RowType, States
  <2>2. row' \in [VMs -> RowType]
    BY <1>3, <2>1 DEF DeleteRow, TypeInv, TypeOK
  <2> QED
    BY <1>3, <2>2, FinishType DEF DeleteRow, host, daemon, TypeInv, TypeOK
<1> QED
  BY <1>1, <1>2, <1>3

LEMMA ResizeType ==
    ASSUME TypeInv, NEW r \in Requests,
           ResizeRead(r) \/ ResizeReread(r) \/ ResizeWrite(r) \/ RestartCheck(r)
    PROVE  TypeInv'
<1>1. CASE ResizeRead(r)
  <2> DEFINE running == row[req[r].vm].state \in {"running", "starting"}
             l == IF running THEN "stop_read" ELSE "resize_write"
             s == row[req[r].vm]
             g == [req[r] EXCEPT !.pc = l, !.snap = s, !.running = running]
  <2>1. req[r].pc \in VMPCs
    BY <1>1 DEF ResizeRead, VMPCs, PCs
  <2>2. s \in RowType /\ running \in BOOLEAN /\ l \in PCs
    BY <2>1, FrameFacts DEF TypeInv, TypeOK, PCs
  <2>3. g \in Frame /\ g.vm = req[r].vm
    <3> HIDE DEF running, l, s
    <3> QED
      BY <2>1, <2>2, FrameFacts DEF Frame
  <2>4. ASSUME req' = [req EXCEPT ![r] = g] PROVE req' \in [Requests -> Frame] /\ OnVM'
    <3> HIDE DEF g
    <3> QED
      BY <2>1, <2>3, <2>4, FrameFacts, FrameType
  <2>5. ASSUME Finish(r) PROVE req' \in [Requests -> Frame] /\ OnVM'
    BY <2>5, FinishType
  <2>6. req' = [req EXCEPT ![r] = g] \/ Finish(r)
    BY <1>1 DEF ResizeRead
  <2>7. req' \in [Requests -> Frame] /\ OnVM'
    BY <2>4, <2>5, <2>6
  <2> QED
    BY <1>1, <2>7 DEF ResizeRead, host, daemon, TypeInv, TypeOK
<1>2. CASE ResizeReread(r)
  BY <1>2, ReadRowType DEF ResizeReread, PCs, VMPCs, host, daemon, TypeInv, TypeOK
<1>3. CASE ResizeWrite(r)
  <2> DEFINE saved == [req[r].snap EXCEPT !.size = req[r].size]
  <2>1. req[r].pc \in VMPCs
    BY <1>3 DEF ResizeWrite, VMPCs, PCs
  <2>2. saved \in RowType
    BY <2>1, FrameFacts DEF RowType
  <2>3. row' \in [VMs -> RowType]
    BY <1>3, <2>1, <2>2, FrameFacts, SavedType DEF ResizeWrite, TypeInv, TypeOK
  <2>4. (IF req[r].running THEN "start_read" ELSE AfterStart(req[r])) \in PCs
    BY AfterPCs DEF PCs
  <2>5. req' \in [Requests -> Frame] /\ OnVM'
    BY <1>3, <2>1, <2>4, FinishType, ReturnType DEF ResizeWrite
  <2> QED
    BY <1>3, <2>3, <2>5 DEF ResizeWrite, host, daemon, TypeInv, TypeOK
<1>4. CASE RestartCheck(r)
  <2> DEFINE g == [req[r] EXCEPT !.pc = "stop_read", !.size = 0]
  <2>1. req[r].pc \in VMPCs
    BY <1>4 DEF RestartCheck, VMPCs, PCs
  <2>2. g \in Frame /\ g.vm = req[r].vm
    <3>1. req[r] \in Frame /\ "stop_read" \in PCs /\ 0 \in Sizes \cup {0}
      BY <2>1, FrameFacts DEF PCs
    <3>2. g \in {f \in Frame : f.vm = req[r].vm}
      BY <3>1, FrameSet, Zenon
    <3> QED
      BY <3>2, Zenon
  <2>3. req' = [req EXCEPT ![r] = g] \/ Finish(r)
    BY <1>4 DEF RestartCheck
  <2>4. req' \in [Requests -> Frame] /\ OnVM'
    <3> HIDE DEF g
    <3> QED
      BY <2>1, <2>2, <2>3, FrameFacts, FrameType, FinishType
  <2> QED
    BY <1>4, <2>4 DEF RestartCheck, host, daemon, TypeInv, TypeOK
<1> QED
  BY <1>1, <1>2, <1>3, <1>4

LEMMA OrphanType ==
    ASSUME TypeInv, NEW r \in Requests,
           OrphanRows(r) \/ OrphanLinks(r) \/ OrphanDelete(r)
    PROVE  TypeInv'
<1>1. ASSUME NEW l \in {"orphan_links", "orphan_delete"}, NEW K \in SUBSET VMs,
             req' = [req EXCEPT ![r].pc = l, ![r].keep = K]
      PROVE  req' \in [Requests -> Frame] /\ OnVM'
  <2> DEFINE g == [req[r] EXCEPT !.pc = l, !.keep = K]
  <2>1. l \in PCs /\ l \notin VMPCs
    BY DEF PCs, VMPCs
  <2>2. g \in Frame /\ g.pc = l
    <3>1. PICK f \in Frame : f = req[r]
      BY DEF TypeInv, TypeOK
    <3>2. [f EXCEPT !.pc = l] \in Frame /\ [f EXCEPT !.pc = l].pc = l
      BY <2>1 DEF Frame
    <3>3. PICK h \in Frame : h = [f EXCEPT !.pc = l] /\ h.pc = l
      BY <3>2, Zenon
    <3>4. [h EXCEPT !.keep = K] \in Frame /\ [h EXCEPT !.keep = K].pc = h.pc
      BY DEF Frame
    <3>5. g = [h EXCEPT !.keep = K]
      BY <3>1, <3>3, Zenon
    <3> QED
      BY <3>3, <3>4, <3>5
  <2>3. req' = [req EXCEPT ![r] = g]
    BY <1>1
  <2> HIDE DEF g
  <2> QED
    BY <2>1, <2>2, <2>3, FrameType
<1>2. CASE OrphanRows(r)
  <2>1. req' \in [Requests -> Frame] /\ OnVM'
    BY <1>1, <1>2, FinishType DEF OrphanRows
  <2> QED
    BY <1>2, <2>1 DEF OrphanRows, host, daemon, TypeInv, TypeOK
<1>3. CASE OrphanLinks(r)
  <2>1. req' \in [Requests -> Frame] /\ OnVM'
    BY <1>1, <1>3, FinishType DEF OrphanLinks
  <2> QED
    BY <1>3, <2>1 DEF OrphanLinks, host, daemon, TypeInv, TypeOK
<1>4. CASE OrphanDelete(r)
  <2>1. tap' \in [VMs -> BOOLEAN]
    BY <1>4 DEF OrphanDelete, TypeInv, TypeOK
  <2> QED
    BY <1>4, <2>1, FinishType DEF OrphanDelete, daemon, TypeInv, TypeOK
<1> QED
  BY <1>2, <1>3, <1>4

\* The daemon's own steps and the guests' leave the handlers alone, but a crash
\* ends them all.
LEMMA DaemonType ==
    ASSUME TypeInv, Crash \/ Boot \/ Serve \/ \E n \in Names : GuestExit(n)
    PROVE  TypeInv'
<1>1. CASE Crash
  <2>1. crashes' \in 0..MaxCrashes
    BY <1>1, ConstantsAssumption DEF Crash, TypeInv, TypeOK
  <2>2. req' \in [Requests -> Frame] /\ OnVM'
    BY <1>1, IdleFrameType DEF Crash, OnVM
  <2>3. fix' \in Fix
    BY <1>1 DEF Crash, Looking, Fix, FixPCs
  <2> QED
    BY <1>1, <2>1, <2>2, <2>3 DEF Crash, host, TypeInv, TypeOK
<1>2. CASE Boot
  BY <1>2 DEF Boot, host, TypeInv, TypeOK, OnVM
<1>3. CASE Serve
  BY <1>3 DEF Serve, host, TypeInv, TypeOK, OnVM
<1>4. ASSUME NEW n \in Names, GuestExit(n)
      PROVE  TypeInv'
  BY <1>4 DEF GuestExit, daemon, TypeInv, TypeOK, OnVM
<1> QED
  BY <1>1, <1>2, <1>3, <1>4

LEMMA ReconcileType ==
    ASSUME TypeInv, Reconcile
    PROVE  TypeInv'
<1>1. fix \in Fix /\ \A l \in FixPCs : FixGoto(l) => fix' \in Fix
  BY DEF TypeInv, TypeOK, Fix, FixGoto
<1>2. ASSUME NEW v \in VMs, ReconcileLook(v)
      PROVE  TypeInv'
  <2>1. fix' \in Fix /\ todo' \subseteq VMs
    BY <1>1, <1>2 DEF ReconcileLook, Fix, FixPCs, TypeInv, TypeOK
  <2> QED
    BY <1>2, <2>1 DEF ReconcileLook, host, TypeInv, TypeOK, OnVM
<1>3. CASE ReconcileUmount
  <2>1. fix' \in Fix /\ mounted' \in [Names -> BOOLEAN]
    BY <1>1, <1>3 DEF ReconcileUmount, FixPCs, TypeInv, TypeOK
  <2> QED
    BY <1>3, <2>1 DEF ReconcileUmount, TypeInv, TypeOK, OnVM
<1>4. CASE ReconcileWipe
  <2>1. fix' \in Fix /\ disk' \in [Names -> {"none", "file", "wiped"}] /\ kernels' \in BOOLEAN
    BY <1>1, <1>4 DEF ReconcileWipe, RemoveJail, FixPCs, TypeInv, TypeOK
  <2> QED
    BY <1>4, <2>1 DEF ReconcileWipe, TypeInv, TypeOK, OnVM
<1>5. CASE ReconcileTap
  <2>1. fix' \in Fix /\ tap' \in [VMs -> BOOLEAN]
    BY <1>1, <1>5 DEF ReconcileTap, FixPCs, TypeInv, TypeOK
  <2> QED
    BY <1>5, <2>1 DEF ReconcileTap, TypeInv, TypeOK, OnVM
<1>6. CASE ReconcileWrite
  <2> DEFINE rec == [row[fix.vm] EXCEPT !.state = "stopped", !.err = TRUE]
  <2>1. fix' \in Fix
    BY <1>6 DEF ReconcileWrite, Looking, Fix, FixPCs
  <2>2. ASSUME fix.vm \in VMs PROVE rec \in RowType
    <3>1. PICK s \in RowType : s = row[fix.vm]
      BY <2>2 DEF TypeInv, TypeOK
    <3>2. [s EXCEPT !.state = "stopped", !.err = TRUE] \in RowType
      BY DEF RowType, States
    <3> QED
      BY <3>1, <3>2
  <2> HIDE DEF rec
  <2>3. row' = Saved(fix.vm, rec)
    BY <1>6 DEF ReconcileWrite, rec
  <2>4. row' \in [VMs -> RowType]
    BY <2>2, <2>3 DEF Saved, TypeInv, TypeOK
  <2> QED
    BY <1>6, <2>1, <2>4 DEF ReconcileWrite, host, TypeInv, TypeOK, OnVM
<1> QED
  BY <1>2, <1>3, <1>4, <1>5, <1>6 DEF Reconcile

LEMMA TypeStep == TypeInv /\ [Next]_vars => TypeInv'
<1> SUFFICES ASSUME TypeInv, [Next]_vars PROVE TypeInv'
  OBVIOUS
<1>1. ASSUME NEW r \in Requests, Step(r)
      PROVE  TypeInv'
  BY <1>1, CreateType, StartType, StopType, DeleteType, ResizeType, OrphanType DEF Step
<1>2. CASE UNCHANGED vars
  BY <1>2 DEF vars, host, daemon, TypeInv, TypeOK, OnVM
<1> QED
  BY <1>1, <1>2, RequestType, DisconnectType, DaemonType, ReconcileType DEF Next

\* Whatever clients ask and however their requests overlap, fail or are cut
\* short, every variable keeps its type, and a handler that works on a VM has
\* one (all handlers of lifecycle.Service).
THEOREM TypesHold == Spec => []TypeInv
<1>1. Init => TypeInv
  BY ConstantsAssumption, IdleFrameType
     DEF Init, TypeInv, TypeOK, OnVM, RowType, NoRow, States, Looking, Fix, FixPCs
<1> QED
  BY <1>1, TypeStep, PTL DEF Spec

THEOREM TypeCorrect == Spec => []TypeOK
<1>1. TypeInv => TypeOK
  BY DEF TypeInv
<1> QED
  BY <1>1, TypesHold, PTL

-----------------------------------------------------------------------------
(* Rows.                                                                   *)

\* UpdateVM brings no row back.
LEMMA SavedAbsent ==
    ASSUME TypeInv, NEW v \in VMs, ~Present(v), NEW w \in VMs, NEW rec
    PROVE  Saved(w, rec)[v].state = "absent"
BY DEF Saved, Present, TypeInv, TypeOK

\* Only the INSERT of CreateVM adds a row, and only under a free name.
LEMMA RowsAppear ==
    ASSUME TypeInv, [Next]_vars, NEW v \in VMs, ~Present(v), row'[v].state # "absent"
    PROVE  \E r \in Requests : /\ At(r, "create_insert") /\ req[r].vm = v
                               /\ ~NameTaken(NameOf[v])
                               /\ \A w \in VMs \ {v} : row'[w] = row[w]
<1>1. row[v].state = "absent" /\ row' # row
  BY DEF Present
<1>2. ASSUME NEW r \in Requests, CreateCheck(r) \/ CreateRootFS(r) \/ CreateInsert(r)
      PROVE  /\ At(r, "create_insert") /\ req[r].vm = v /\ ~NameTaken(NameOf[v])
             /\ \A w \in VMs \ {v} : row'[w] = row[w]
  BY <1>1, <1>2 DEF CreateCheck, CreateRootFS, CreateInsert, Name, host, TypeInv, TypeOK
<1>3. ASSUME NEW r \in Requests,
             \/ StartRead(r) \/ StartMark(r) \/ StartNet(r) \/ StartKill(r)
             \/ StartUmount(r) \/ StartWipe(r) \/ StartSpawn(r) \/ StartMount(r)
             \/ StartBoot(r) \/ StartCommit(r) \/ StartFail(r)
      PROVE  FALSE
  <2>1. CASE StartMark(r)
    BY <1>1, <2>1, SavedAbsent, FrameFacts DEF StartMark, PCs, VMPCs
  <2>2. CASE StartCommit(r)
    BY <1>1, <2>2, SavedAbsent, FrameFacts DEF StartCommit, PCs, VMPCs
  <2>3. CASE StartFail(r)
    BY <1>1, <2>3, SavedAbsent, FrameFacts DEF StartFail, PCs, VMPCs
  <2> QED
    BY <1>1, <1>3, <2>1, <2>2, <2>3
       DEF StartRead, StartNet, StartKill, StartUmount, StartWipe, StartSpawn,
           StartMount, StartBoot, Kill, Umount, Wipe
<1>4. ASSUME NEW r \in Requests,
             \/ StopRead(r) \/ StopMark(r) \/ StopKill(r) \/ StopUmount(r)
             \/ StopWipe(r) \/ StopTap(r) \/ StopCommit(r)
      PROVE  FALSE
  <2>1. CASE StopMark(r)
    BY <1>1, <2>1, SavedAbsent, FrameFacts DEF StopMark, PCs, VMPCs
  <2>2. CASE StopCommit(r)
    BY <1>1, <2>2, SavedAbsent, FrameFacts DEF StopCommit, PCs, VMPCs
  <2> QED
    BY <1>1, <1>4, <2>1, <2>2
       DEF StopRead, StopKill, StopUmount, StopWipe, StopTap, Kill, Umount, Wipe
<1>5. ASSUME NEW r \in Requests, DeleteRead(r) \/ DeleteFiles(r) \/ DeleteRow(r)
      PROVE  FALSE
  BY <1>1, <1>5 DEF DeleteRead, DeleteFiles, DeleteRow, NoRow, TypeInv, TypeOK
<1>6. ASSUME NEW r \in Requests,
             ResizeRead(r) \/ ResizeReread(r) \/ ResizeWrite(r) \/ RestartCheck(r)
      PROVE  FALSE
  <2>1. CASE ResizeWrite(r)
    BY <1>1, <2>1, SavedAbsent, FrameFacts DEF ResizeWrite, PCs, VMPCs
  <2> QED
    BY <1>1, <1>6, <2>1 DEF ResizeRead, ResizeReread, RestartCheck
<1>7. ASSUME NEW r \in Requests, OrphanRows(r) \/ OrphanLinks(r) \/ OrphanDelete(r)
      PROVE  FALSE
  BY <1>1, <1>7 DEF OrphanRows, OrphanLinks, OrphanDelete
<1>8. CASE Reconcile
  <2>1. ReconcileWrite
    BY <1>1, <1>8
       DEF Reconcile, ReconcileLook, ReconcileUmount, ReconcileWipe, ReconcileTap
  <2> QED
    BY <1>1, <2>1 DEF ReconcileWrite, Saved, Present, TypeInv, TypeOK
<1>9. ASSUME \/ Crash \/ Boot \/ Serve
             \/ \E n \in Names : GuestExit(n)
             \/ \E r \in Requests : Request(r) \/ Disconnect(r)
             \/ UNCHANGED vars
      PROVE  FALSE
  BY <1>1, <1>9 DEF Crash, Boot, Serve, GuestExit, Request, Disconnect, vars
<1> QED
  BY <1>2, <1>3, <1>4, <1>5, <1>6, <1>7, <1>8, <1>9 DEF Next, Step

\* No whole-row write brings a deleted VM back, for any number of overlapping
\* handlers (UpdateVM is an UPDATE, never an upsert).
THEOREM DeletedForGood == Spec => DeletedStaysDeleted
<1>1. TypeInv /\ [Next]_vars =>
        [\A v \in VMs : ~Present(v) /\ row'[v].state # "absent" =>
            \E r \in Requests : At(r, "create_insert") /\ req[r].vm = v]_vars
  BY RowsAppear
<1> QED
  BY <1>1, TypesHold, PTL DEF Spec, DeletedStaysDeleted

-----------------------------------------------------------------------------
(* Reconcile.  It runs before any handler does, and cleans a VM up only     *)
(* while its row is in one of three states and pgrep finds nothing.        *)

Claiming(v) == row[v].state \in {"running", "starting", "stopping"}

\* Requests are served only while the daemon serves.
Served == phase # "serving" => \A r \in Requests : At(r, "idle")

\* Where Reconcile stands in its loop.
Fixing == \/ fix = Looking
          \/ /\ fix.vm \in VMs /\ fix.pc # "look" /\ phase = "reconciling"
             /\ Claiming(fix.vm) /\ ~PGrep(NameOf[fix.vm])

\* A row that Reconcile is done with claims no process of which nothing is left.
LookedAt == phase = "reconciling" =>
              \A v \in VMs \ todo : fix.vm # v /\ Claiming(v) => Traces(NameOf[v])

ReconcileInv == Served /\ Fixing /\ LookedAt

\* A step of a handler keeps to its frame, its VM and its context, or ends.
LEMMA StepFrame ==
    ASSUME TypeInv, NEW r \in Requests, Step(r)
    PROVE  /\ ~At(r, "idle")
           /\ \A q \in Requests \ {r} : req'[q] = req[q]
           /\ \/ req'[r] = IdleFrame
              \/ req'[r].vm = req[r].vm /\ req'[r].live = req[r].live
<1>1. req \in [Requests -> Frame] /\ req[r] \in Frame
  BY DEF TypeInv, TypeOK
<1>2. ASSUME Finish(r)
      PROVE  (\A q \in Requests \ {r} : req'[q] = req[q]) /\ req'[r] = IdleFrame
  BY <1>1, <1>2 DEF Finish
<1>3. ASSUME NEW l, Goto(r, l)
      PROVE  /\ \A q \in Requests \ {r} : req'[q] = req[q]
             /\ req'[r].vm = req[r].vm /\ req'[r].live = req[r].live
  BY <1>1, <1>3 DEF Goto, Frame
<1>4. ASSUME NEW l, Return(r, l)
      PROVE  /\ \A q \in Requests \ {r} : req'[q] = req[q]
             /\ \/ req'[r] = IdleFrame
                \/ req'[r].vm = req[r].vm /\ req'[r].live = req[r].live
  BY <1>2, <1>3, <1>4 DEF Return
<1>5. ASSUME NEW l, ReadRow(r, l)
      PROVE  /\ \A q \in Requests \ {r} : req'[q] = req[q]
             /\ \/ req'[r] = IdleFrame
                \/ req'[r].vm = req[r].vm /\ req'[r].live = req[r].live
  BY <1>1, <1>2, <1>5 DEF ReadRow, Frame
<1>6. CASE CreateCheck(r) \/ CreateRootFS(r) \/ CreateInsert(r)
  BY <1>2, <1>3, <1>6 DEF CreateCheck, CreateRootFS, CreateInsert
<1>7. CASE StartRead(r) \/ StartMark(r) \/ StartNet(r)
  BY <1>1, <1>2, <1>3, <1>4, <1>5, <1>7 DEF StartRead, StartMark, StartNet, Frame
<1>8. CASE StartKill(r) \/ StartUmount(r) \/ StartWipe(r)
  BY <1>1, <1>3, <1>8 DEF StartKill, StartUmount, StartWipe, Kill, Umount, Wipe, Frame
<1>9. CASE StartSpawn(r) \/ StartMount(r) \/ StartBoot(r)
  BY <1>3, <1>9 DEF StartSpawn, StartMount, StartBoot
<1>10. CASE StartCommit(r) \/ StartFail(r)
  BY <1>2, <1>4, <1>10 DEF StartCommit, StartFail
<1>11. CASE StopRead(r) \/ StopMark(r)
  BY <1>1, <1>5, <1>11 DEF StopRead, StopMark, Frame
<1>12. CASE StopKill(r) \/ StopUmount(r) \/ StopWipe(r)
  BY <1>1, <1>3, <1>12 DEF StopKill, StopUmount, StopWipe, Kill, Umount, Wipe, Frame
<1>13. CASE StopTap(r) \/ StopCommit(r)
  BY <1>1, <1>2, <1>3, <1>4, <1>13 DEF StopTap, StopCommit, Frame
<1>14. CASE DeleteRead(r) \/ DeleteFiles(r) \/ DeleteRow(r)
  BY <1>2, <1>3, <1>5, <1>14 DEF DeleteRead, DeleteFiles, DeleteRow
<1>15. CASE ResizeRead(r) \/ ResizeReread(r)
  BY <1>1, <1>2, <1>5, <1>15 DEF ResizeRead, ResizeReread, Frame
<1>16. CASE ResizeWrite(r) \/ RestartCheck(r)
  BY <1>1, <1>2, <1>4, <1>16 DEF ResizeWrite, RestartCheck, Frame
<1>17. CASE OrphanRows(r) \/ OrphanLinks(r) \/ OrphanDelete(r)
  BY <1>1, <1>2, <1>17 DEF OrphanRows, OrphanLinks, OrphanDelete, Frame
<1> QED
  BY <1>6, <1>7, <1>8, <1>9, <1>10, <1>11, <1>12, <1>13, <1>14, <1>15, <1>16, <1>17
     DEF Step

LEMMA StepServes ==
    ASSUME TypeInv, NEW r \in Requests, Step(r)
    PROVE  ~At(r, "idle") /\ UNCHANGED daemon
<1>1. UNCHANGED daemon
  BY DEF Step, CreateCheck, CreateRootFS, CreateInsert, StartRead, StartMark,
         StartNet, StartKill, StartUmount, StartWipe, StartSpawn, StartMount,
         StartBoot, StartCommit, StartFail, StopRead, StopMark, StopKill,
         StopUmount, StopWipe, StopTap, StopCommit, DeleteRead, DeleteFiles,
         DeleteRow, ResizeRead, ResizeReread, ResizeWrite, RestartCheck,
         OrphanRows, OrphanLinks, OrphanDelete, Kill, Umount, Wipe
<1> QED
  BY <1>1, StepFrame

\* While Reconcile cleans up, nothing else runs but guests that exit.
LEMMA CleaningUp ==
    ASSUME TypeInv, ReconcileInv,
           ReconcileUmount \/ ReconcileWipe \/ ReconcileTap \/ ReconcileWrite
    PROVE  /\ fix.vm \in VMs /\ NameOf[fix.vm] \in Names
           /\ Claiming(fix.vm) /\ ~PGrep(NameOf[fix.vm])
           /\ UNCHANGED <<proc, cfg, phase, todo, req>> /\ phase = "reconciling"
           /\ \A r \in Requests : At(r, "idle")
<1>1. fix # Looking
  BY DEF ReconcileUmount, ReconcileWipe, ReconcileTap, ReconcileWrite, FixAt, Looking
<1>2. UNCHANGED <<proc, cfg, phase, todo, req>>
  BY DEF ReconcileUmount, ReconcileWipe, ReconcileTap, ReconcileWrite, host
<1> QED
  BY <1>1, <1>2, ConstantsAssumption DEF ReconcileInv, Fixing, Served

\* UpdateVM at the end of a clean-up.
LEMMA FixWrites ==
    ASSUME TypeInv, ReconcileInv, ReconcileWrite
    PROVE  /\ row'[fix.vm].state = "stopped" /\ row'[fix.vm].err
           /\ \A w \in VMs \ {fix.vm} : row'[w] = row[w]
<1> DEFINE rec == [row[fix.vm] EXCEPT !.state = "stopped", !.err = TRUE]
<1>1. fix.vm \in VMs /\ Present(fix.vm) /\ row[fix.vm] \in RowType
  BY CleaningUp DEF Claiming, Present, TypeInv, TypeOK
<1>2. rec.state = "stopped" /\ rec.err
  BY <1>1 DEF RowType
<1> HIDE DEF rec
<1>3. row' = Saved(fix.vm, rec)
  BY DEF ReconcileWrite, rec
<1>4. row'[fix.vm] = rec /\ \A w \in VMs \ {fix.vm} : row'[w] = row[w]
  BY <1>1, <1>3 DEF Saved, TypeInv, TypeOK
<1> QED
  BY <1>2, <1>4

LEMMA CleanUpStep ==
    ASSUME TypeInv, TypeInv', ReconcileInv,
           ReconcileUmount \/ ReconcileWipe \/ ReconcileTap \/ ReconcileWrite
    PROVE  ReconcileInv'
<1>1. /\ fix.vm \in VMs /\ Claiming(fix.vm) /\ ~PGrep(NameOf[fix.vm])
      /\ UNCHANGED <<proc, phase, todo, req>> /\ phase = "reconciling"
  BY CleaningUp
<1>2. Served'
  BY <1>1 DEF ReconcileInv, Served
<1>3. CASE ReconcileUmount \/ ReconcileWipe \/ ReconcileTap
  <2>1. fix'.vm = fix.vm /\ fix'.pc # "look" /\ UNCHANGED row
    BY <1>3 DEF ReconcileUmount, ReconcileWipe, ReconcileTap, FixGoto, TypeInv, TypeOK, Fix
  <2> QED
    BY <1>1, <1>2, <2>1 DEF ReconcileInv, Fixing, LookedAt, Claiming, PGrep, Alive, Traces
<1>4. CASE ReconcileWrite
  <2>1. fix' = Looking
    BY <1>4 DEF ReconcileWrite
  <2>2. LookedAt'
    BY <1>1, <1>4, FixWrites DEF ReconcileInv, LookedAt, Claiming, Traces
  <2> QED
    BY <1>2, <2>1, <2>2 DEF ReconcileInv, Fixing
<1> QED
  BY <1>3, <1>4

LEMMA ReconcileStep ==
    ASSUME TypeInv, TypeInv', ReconcileInv, [Next]_vars
    PROVE  ReconcileInv'
<1>1. Looking.vm = NoVM
  BY DEF Looking
<1>2. ASSUME NEW r \in Requests, Step(r)
      PROVE  ReconcileInv'
  <2>1. phase = "serving" /\ UNCHANGED daemon
    BY <1>2, StepServes DEF ReconcileInv, Served
  <2> QED
    BY <2>1 DEF ReconcileInv, Served, Fixing, LookedAt, daemon
<1>3. ASSUME NEW r \in Requests, Request(r) \/ Disconnect(r)
      PROVE  ReconcileInv'
  <2>1. phase = "serving" /\ UNCHANGED daemon
    BY <1>3 DEF Request, Disconnect, ReconcileInv, Served
  <2> QED
    BY <2>1 DEF ReconcileInv, Served, Fixing, LookedAt, daemon
<1>4. CASE Crash
  BY <1>4 DEF Crash, IdleFrame, ReconcileInv, Served, Fixing, LookedAt
<1>5. CASE Boot
  <2>1. \A v \in VMs \ todo' : ~Claiming(v)'
    BY <1>5 DEF Boot, Present, Claiming
  <2> QED
    BY <1>5, <2>1 DEF Boot, ReconcileInv, Served, Fixing, LookedAt
<1>6. CASE Serve
  BY <1>6 DEF Serve, ReconcileInv, Served, Fixing, LookedAt
<1>7. ASSUME NEW v \in VMs, ReconcileLook(v)
      PROVE  ReconcileInv'
  <2>1. UNCHANGED <<row, proc, phase, req>> /\ todo' = todo \ {v} /\ phase = "reconciling"
    BY <1>7 DEF ReconcileLook, host
  <2>2. \A w \in VMs : fix.vm # w
    BY <1>1, <1>7, ConstantsAssumption DEF ReconcileLook
  <2>3. \/ fix' = Looking /\ (Claiming(v) => PGrep(NameOf[v]))
        \/ /\ fix'.vm = v /\ fix'.pc # "look"
           /\ Claiming(v) /\ ~PGrep(NameOf[v])
    BY <1>7 DEF ReconcileLook, Claiming
  <2>4. PGrep(NameOf[v]) => Traces(NameOf[v])
    BY DEF PGrep, Alive, Traces
  <2>5. Served' /\ Fixing'
    BY <2>1, <2>3 DEF ReconcileInv, Served, Fixing, Claiming, PGrep, Alive
  <2>6. ASSUME NEW w \in VMs \ todo', fix'.vm # w, Claiming(w)'
        PROVE  Traces(NameOf[w])'
    BY <2>1, <2>2, <2>3, <2>4, <2>6 DEF ReconcileInv, LookedAt, Claiming, Traces
  <2> QED
    BY <2>5, <2>6 DEF ReconcileInv, LookedAt
<1>8. ASSUME NEW n \in Names, GuestExit(n)
      PROVE  ReconcileInv'
  <2>1. /\ \A m \in Names : proc'[m] = proc[m] \/ proc'[m] = "exited"
        /\ UNCHANGED <<row, daemon, req>>
    BY <1>8 DEF GuestExit, TypeInv, TypeOK
  <2>2. \A m \in Names : (PGrep(m)' => PGrep(m)) /\ (Traces(m) => Traces(m)')
    BY <2>1, ConstantsAssumption DEF PGrep, Traces, Alive
  <2> QED
    BY <2>1, <2>2, ConstantsAssumption
       DEF ReconcileInv, Served, Fixing, LookedAt, Claiming, daemon
<1>9. CASE UNCHANGED vars
  BY <1>9
     DEF vars, host, daemon, ReconcileInv, Served, Fixing, LookedAt, Claiming, PGrep,
         Alive, Traces
<1> QED
  BY <1>2, <1>3, <1>4, <1>5, <1>6, <1>7, <1>8, <1>9, CleanUpStep DEF Next, Reconcile

LEMMA Reconciling == Spec => []ReconcileInv
<1>1. Init => ReconcileInv
  BY DEF Init, ReconcileInv, Served, Fixing, LookedAt, IdleFrame
<1>2. TypeInv /\ TypeInv' /\ ReconcileInv /\ [Next]_vars => ReconcileInv'
  BY ReconcileStep
<1> QED
  BY <1>1, <1>2, TypesHold, PTL DEF Spec

\* The daemon opens for requests only with rows of whose process pgrep's pattern
\* finds something, or found it until it exited by itself: whatever was under way
\* when it crashed, and however often it crashed while it cleaned up, Reconcile has
\* looked at every row of those states since it came up, and nothing else ran in
\* between (app.New, Reconcile).
THEOREM ReconciledFirst == Spec => ServesReconciled
<1> DEFINE Opened == phase = "reconciling" /\ phase' = "serving" =>
                       \A v \in VMs : row[v].state \in {"running", "starting", "stopping"} =>
                           Traces(NameOf[v])
<1>1. ASSUME TypeInv, ReconcileInv, [Next]_vars, phase = "reconciling", phase' = "serving"
      PROVE  Serve
  <2>1. \A r \in Requests : ~Request(r) /\ ~Disconnect(r) /\ ~Step(r)
    BY <1>1, StepServes DEF ReconcileInv, Served, Request, Disconnect
  <2> QED
    BY <1>1, <2>1
       DEF Next, Crash, Boot, Reconcile, ReconcileLook, ReconcileUmount, ReconcileWipe,
           ReconcileTap, ReconcileWrite, GuestExit, vars, daemon
<1>2. TypeInv /\ ReconcileInv /\ [Next]_vars => [Opened]_vars
  BY <1>1, ConstantsAssumption DEF Serve, ReconcileInv, LookedAt, Claiming, Looking
<1> QED
  BY <1>2, Reconciling, TypesHold, PTL DEF Spec, ServesReconciled

-----------------------------------------------------------------------------
(* Disks.  A jail is removed with its bind mounts gone: umount comes first  *)
(* (Unmounted, FixUnmounted), nobody mounts again in between (Alone, and    *)
(* Served during a reconciliation), and no umount was skipped (Live).       *)

\* No request was cut short.
Live == \A r \in Requests : req[r].live

\* Two requests under way work on VMs of different names.
Alone == \A q, r \in Requests :
            q # r /\ ~At(q, "idle") /\ ~At(r, "idle") =>
                req[q].vm # NoVM /\ req[r].vm # NoVM /\ Name(q) # Name(r)

\* A request about to remove a jail has unmounted it.
Unmounted == \A r \in Requests :
                req[r].pc \in {"start_wipe", "stop_wipe"} => ~mounted[Name(r)]

\* So has Reconcile.
FixUnmounted == FixAt("wipe") => ~mounted[NameOf[fix.vm]]

DiskInv == Live /\ Alone /\ Unmounted /\ FixUnmounted /\ DisksIntact

\* What handlers do on their own leaves them apart.
LEMMA AloneStep ==
    ASSUME TypeInv, Alone, NEW r \in Requests, Step(r)
    PROVE  Alone'
<1>1. /\ ~At(r, "idle")
      /\ \A q \in Requests \ {r} : req'[q] = req[q]
      /\ req'[r] = IdleFrame \/ (req'[r].vm = req[r].vm /\ req'[r].live = req[r].live)
  BY StepFrame
<1> SUFFICES ASSUME NEW p \in Requests, NEW q \in Requests, p # q,
                    req'[p].pc # "idle", req'[q].pc # "idle"
             PROVE  /\ req'[p].vm # NoVM /\ req'[q].vm # NoVM
                    /\ NameOf[req'[p].vm] # NameOf[req'[q].vm]
  BY DEF Alone, Name
<1>2. req'[p].vm = req[p].vm /\ ~At(p, "idle")
  BY <1>1 DEF IdleFrame
<1>3. req'[q].vm = req[q].vm /\ ~At(q, "idle")
  BY <1>1 DEF IdleFrame
<1> QED
  BY <1>2, <1>3 DEF Alone, Name

\* A handler comes to the removal of a jail only by unmounting.
LEMMA ToWipe ==
    ASSUME TypeInv, NEW r \in Requests, Step(r),
           req'[r].pc \in {"start_wipe", "stop_wipe"}
    PROVE  StartUmount(r) \/ StopUmount(r)
<1>1. req \in [Requests -> Frame] /\ req[r] \in Frame
  BY DEF TypeInv, TypeOK
<1>2. ~Finish(r)
  BY <1>1 DEF Finish, IdleFrame
<1>3. ASSUME NEW l, Goto(r, l) PROVE l \in {"start_wipe", "stop_wipe"}
  BY <1>1, <1>3 DEF Goto, Frame
<1>4. ~Return(r, AfterStop(req[r])) /\ ~Return(r, AfterStart(req[r]))
      /\ ~Return(r, IF req[r].running THEN "start_read" ELSE AfterStart(req[r]))
  BY <1>2, <1>3 DEF Return, AfterStop, AfterStart
<1>5. ASSUME NEW l, ReadRow(r, l) PROVE l \in {"start_wipe", "stop_wipe"}
  BY <1>1, <1>2, <1>5 DEF ReadRow, Frame
<1>6. ~(CreateCheck(r) \/ CreateRootFS(r) \/ CreateInsert(r))
  BY <1>2, <1>3 DEF CreateCheck, CreateRootFS, CreateInsert
<1>7. ~(StartRead(r) \/ StartMark(r) \/ StartNet(r))
  BY <1>1, <1>2, <1>3, <1>4, <1>5 DEF StartRead, StartMark, StartNet, Frame
<1>8. ~(StartKill(r) \/ StartWipe(r) \/ StopKill(r) \/ StopWipe(r))
  BY <1>1, <1>3 DEF StartKill, StartWipe, StopKill, StopWipe, Kill, Wipe, Frame
<1>9. ~(StartSpawn(r) \/ StartMount(r) \/ StartBoot(r) \/ StartCommit(r) \/ StartFail(r))
  BY <1>2, <1>3, <1>4 DEF StartSpawn, StartMount, StartBoot, StartCommit, StartFail
<1>10. ~(StopRead(r) \/ StopMark(r) \/ StopTap(r) \/ StopCommit(r))
  BY <1>1, <1>2, <1>3, <1>4, <1>5 DEF StopRead, StopMark, StopTap, StopCommit, Frame
<1>11. ~(DeleteRead(r) \/ DeleteFiles(r) \/ DeleteRow(r))
  BY <1>2, <1>3, <1>5 DEF DeleteRead, DeleteFiles, DeleteRow
<1>12. ~(ResizeRead(r) \/ ResizeReread(r) \/ ResizeWrite(r) \/ RestartCheck(r))
  BY <1>1, <1>2, <1>4, <1>5 DEF ResizeRead, ResizeReread, ResizeWrite, RestartCheck, Frame
<1>13. ~(OrphanRows(r) \/ OrphanLinks(r) \/ OrphanDelete(r))
  BY <1>1, <1>2 DEF OrphanRows, OrphanLinks, OrphanDelete, Frame
<1> QED
  BY <1>6, <1>7, <1>8, <1>9, <1>10, <1>11, <1>12, <1>13 DEF Step

\* Only startFirecracker mounts, and only in the jail of its VM.
LEMMA MountedBy ==
    ASSUME TypeInv, [Next]_vars, NEW n \in Names, mounted'[n], ~mounted[n]
    PROVE  \E r \in Requests : StartMount(r) /\ Name(r) = n
<1>1. mounted' # mounted /\ mounted \in [Names -> BOOLEAN]
  BY DEF TypeInv, TypeOK
<1>2. ASSUME NEW r \in Requests, Step(r)
      PROVE  StartMount(r) /\ Name(r) = n
  BY <1>1, <1>2
     DEF Step, CreateCheck, CreateRootFS, CreateInsert, StartRead, StartMark,
         StartNet, StartKill, StartUmount, StartWipe, StartSpawn, StartMount,
         StartBoot, StartCommit, StartFail, StopRead, StopMark, StopKill,
         StopUmount, StopWipe, StopTap, StopCommit, DeleteRead, DeleteFiles,
         DeleteRow, ResizeRead, ResizeReread, ResizeWrite, RestartCheck,
         OrphanRows, OrphanLinks, OrphanDelete, Kill, Umount, Wipe, host
<1>3. ~Reconcile
  BY <1>1
     DEF Reconcile, ReconcileLook, ReconcileUmount, ReconcileWipe, ReconcileTap,
         ReconcileWrite, host
<1> QED
  BY <1>1, <1>2, <1>3
     DEF Next, Request, Disconnect, Crash, Boot, Serve, GuestExit, vars, host

\* What a new request looks like.
LEMMA Accepted ==
    ASSUME TypeInv, NEW r \in Requests, Request(r), Exclusive
    PROVE  /\ \A q \in Requests \ {r} : req'[q] = req[q]
           /\ req'[r].live /\ req'[r].pc \notin {"start_wipe", "stop_wipe"}
           /\ \A q \in Requests \ {r} :
                ~At(q, "idle") =>
                    /\ req'[r].vm \in VMs /\ req[q].vm # NoVM
                    /\ NameOf[req'[r].vm] # Name(q)
<1>1. req \in [Requests -> Frame]
  BY DEF TypeInv, TypeOK
<1>2. ASSUME NEW o \in AllOps, NEW v, NEW s, NEW again, Accept(r, o, v, s, again)
      PROVE  /\ \A q \in Requests \ {r} : req'[q] = req[q]
             /\ req'[r].live /\ req'[r].pc \notin {"start_wipe", "stop_wipe"}
             /\ req'[r].vm = v
  BY <1>1, <1>2 DEF Accept, IdleFrame, FirstStep, AllOps
<1>3. ASSUME NEW o \in AllOps, NEW v \in VMs, NEW s, NEW again,
             Accept(r, o, v, s, again), ~InFlight(NameOf[v])
      PROVE  /\ \A q \in Requests \ {r} : req'[q] = req[q]
             /\ req'[r].live /\ req'[r].pc \notin {"start_wipe", "stop_wipe"}
             /\ \A q \in Requests \ {r} :
                ~At(q, "idle") =>
                    /\ req'[r].vm \in VMs /\ req[q].vm # NoVM
                    /\ NameOf[req'[r].vm] # Name(q)
  BY <1>2, <1>3 DEF InFlight, Name
<1>4. CASE \E v \in VMs, s \in Sizes : RequestCreate(r, v, s)
  BY <1>3, <1>4 DEF RequestCreate, AllOps
<1>5. CASE \/ \E v \in VMs, o \in {"start", "stop", "delete"} : RequestVM(r, o, v, 0, FALSE)
           \/ \E v \in VMs, s \in Sizes \cup {0} : RequestVM(r, "restart", v, s, TRUE)
           \/ \E v \in VMs, s \in Sizes, again \in BOOLEAN : RequestVM(r, "resize", v, s, again)
  BY <1>3, <1>5 DEF RequestVM, AllOps
<1>6. CASE RequestOrphans(r)
  BY <1>2, <1>6 DEF RequestOrphans, AllOps
<1> QED
  BY <1>4, <1>5, <1>6 DEF Request

LEMMA DiskStep ==
    ASSUME Exclusive, Faults = {}, TypeInv, TypeInv', ReconcileInv, DiskInv, [Next]_vars
    PROVE  DiskInv'
<1> USE DEF DiskInv
<1>1. ASSUME NEW r \in Requests, Step(r)
      PROVE  Live' /\ Alone' /\ FixUnmounted'
  <2>1. Live'
    BY <1>1, StepFrame DEF Live, IdleFrame
  <2>2. phase = "serving" /\ UNCHANGED fix
    BY <1>1, StepServes DEF ReconcileInv, Served, daemon
  <2>3. FixUnmounted'
    BY <2>2 DEF ReconcileInv, Fixing, FixUnmounted, FixAt, Looking
  <2> QED
    BY <1>1, <2>1, <2>3, AloneStep
<1>2. ASSUME NEW r \in Requests, Step(r)
      PROVE  Unmounted'
  <2> SUFFICES ASSUME NEW q \in Requests, req'[q].pc \in {"start_wipe", "stop_wipe"}
               PROVE  ~mounted'[NameOf[req'[q].vm]]
    BY DEF Unmounted, Name
  <2>1. CASE q = r
    <3>1. StartUmount(r) \/ StopUmount(r)
      BY <1>2, <2>1, ToWipe
    <3>2. req[r].live /\ req[r].pc \in VMPCs
      BY <3>1 DEF Live, StartUmount, StopUmount, Umount, VMPCs, PCs
    <3>3. Name(r) \in Names /\ mounted' = [mounted EXCEPT ![Name(r)] = FALSE]
      BY <3>1, <3>2, FrameFacts DEF StartUmount, StopUmount, Umount
    <3>4. req'[r].vm = req[r].vm
      BY <1>2, <2>1, StepFrame DEF IdleFrame
    <3> QED
      BY <2>1, <3>3, <3>4 DEF Name, TypeInv, TypeOK
  <2>2. CASE q # r
    <3>1. /\ req'[q] = req[q]
          /\ req[q].pc \in {"start_wipe", "stop_wipe"} /\ req[q].pc \in VMPCs
      BY <1>2, <2>2, StepFrame DEF VMPCs, PCs
    <3>2. Name(q) \in Names /\ ~mounted[Name(q)]
      BY <3>1, FrameFacts DEF Unmounted
    <3>3. ASSUME mounted'[Name(q)]
          PROVE  FALSE
      <4>1. PICK p \in Requests : StartMount(p) /\ Name(p) = Name(q)
        BY <3>2, <3>3, MountedBy
      <4>2. req[p].pc = "start_mount"
        BY <4>1 DEF StartMount
      <4>3. p # q /\ ~At(p, "idle")
        BY <3>1, <4>2
      <4> QED
        BY <3>1, <4>1, <4>3 DEF Alone
    <3> QED
      BY <3>1, <3>3 DEF Name
  <2> QED
    BY <2>1, <2>2
<1>3. ASSUME NEW r \in Requests, Step(r)
      PROVE  DisksIntact'
  <2>1. ASSUME NEW from \in {"start_wipe", "stop_wipe"}, NEW to, Wipe(r, from, to)
        PROVE  DisksIntact'
    <3>1. ~mounted[Name(r)]
      BY <2>1 DEF Wipe, Unmounted
    <3> QED
      BY <2>1, <3>1 DEF Wipe, RemoveJail, DisksIntact
  <2>2. CASE StartWipe(r) \/ StopWipe(r)
    BY <2>1, <2>2 DEF StartWipe, StopWipe
  <2>3. CASE ~StartWipe(r) /\ ~StopWipe(r)
    <3>1. /\ kernels' = kernels
          /\ \/ disk' = disk
             \/ disk' = [disk EXCEPT ![Name(r)] = "file"]
             \/ disk' = [disk EXCEPT ![Name(r)] = "none"]
      BY <1>3, <2>3
         DEF Step, CreateCheck, CreateRootFS, CreateInsert, StartRead, StartMark,
             StartNet, StartKill, StartUmount, StartSpawn, StartMount,
             StartBoot, StartCommit, StartFail, StopRead, StopMark, StopKill,
             StopUmount, StopTap, StopCommit, DeleteRead, DeleteFiles,
             DeleteRow, ResizeRead, ResizeReread, ResizeWrite, RestartCheck,
             OrphanRows, OrphanLinks, OrphanDelete, Kill, Umount, host
    <3> QED
      BY <3>1 DEF DisksIntact, TypeInv, TypeOK
  <2> QED
    BY <2>2, <2>3
<1>4. ASSUME NEW r \in Requests, Request(r) \/ Disconnect(r)
      PROVE  DiskInv'
  <2>1. Request(r)
    BY <1>4 DEF Disconnect
  <2>2. Live'
    BY <2>1, Accepted DEF Live
  <2>3. Alone'
    BY <2>1, Accepted, ConstantsAssumption DEF Alone, Name
  <2>4. Unmounted' /\ FixUnmounted' /\ DisksIntact'
    BY <2>1, Accepted
       DEF Unmounted, FixUnmounted, FixAt, DisksIntact, Name, Request, host, daemon
  <2> QED
    BY <2>2, <2>3, <2>4
<1>5. CASE Reconcile
  <2>1. phase = "reconciling" /\ \A q \in Requests : At(q, "idle") /\ req'[q] = req[q]
    BY <1>5, CleaningUp DEF Reconcile, ReconcileLook, ReconcileInv, Served
  <2>2. Live' /\ Alone' /\ Unmounted'
    BY <2>1 DEF Live, Alone, Unmounted
  <2>3. ASSUME NEW v \in VMs, ReconcileLook(v)
        PROVE  FixUnmounted' /\ DisksIntact'
    BY <2>3 DEF ReconcileLook, Looking, FixUnmounted, FixAt, DisksIntact, host
  <2>4. ASSUME ReconcileUmount PROVE FixUnmounted' /\ DisksIntact'
    <3>1. NameOf[fix.vm] \in Names
      BY <2>4, CleaningUp
    <3>2. ~mounted'[NameOf[fix.vm]] /\ fix'.vm = fix.vm
      BY <2>4, <3>1 DEF ReconcileUmount, FixGoto, TypeInv, TypeOK, Fix
    <3> QED
      BY <2>4, <3>2 DEF ReconcileUmount, FixUnmounted, DisksIntact
  <2>5. ASSUME ReconcileWipe PROVE FixUnmounted' /\ DisksIntact'
    <3>1. fix'.pc = "tap"
      BY <2>5 DEF ReconcileWipe, FixGoto, TypeInv, TypeOK, Fix
    <3>2. UNCHANGED <<disk, kernels>>
      BY <2>5 DEF ReconcileWipe, RemoveJail, FixUnmounted, TypeInv, TypeOK
    <3> QED
      BY <3>1, <3>2 DEF FixUnmounted, FixAt, DisksIntact
  <2>6. ASSUME ReconcileTap \/ ReconcileWrite PROVE FixUnmounted' /\ DisksIntact'
    <3>1. fix'.pc # "wipe" /\ UNCHANGED <<disk, kernels>>
      BY <2>6
         DEF ReconcileTap, ReconcileWrite, FixGoto, Looking, TypeInv, TypeOK, Fix, host
    <3> QED
      BY <3>1 DEF FixUnmounted, FixAt, DisksIntact
  <2> QED
    BY <1>5, <2>2, <2>3, <2>4, <2>5, <2>6 DEF Reconcile
<1>6. CASE Crash
  BY <1>6
     DEF Crash, host, Live, Alone, Unmounted, FixUnmounted, FixAt, Looking, DisksIntact,
         IdleFrame
<1>7. CASE Boot \/ Serve \/ (\E n \in Names : GuestExit(n)) \/ UNCHANGED vars
  BY <1>7
     DEF Boot, Serve, GuestExit, host, daemon, vars, Live, Alone, Unmounted, FixUnmounted,
         FixAt, DisksIntact, Name
<1> QED
  BY <1>1, <1>2, <1>3, <1>4, <1>5, <1>6, <1>7 DEF Next

\* As long as clients keep one request in flight per VM name, wait for its
\* answer, and umount works, no RemoveAll of a start, a stop, a delete or a
\* reconciliation removes a rootfs or a kernel with the jail, whatever start
\* failures occur and wherever the daemon crashes, in Reconcile too
\* (cleanupVMRuntime, startFirecracker, Reconcile).
THEOREM DisksKept ==
    ASSUME Exclusive, Faults = {}
    PROVE  Spec => []DisksIntact
<1>1. Init => DiskInv
  BY DEF Init, DiskInv, Live, Alone, Unmounted, FixUnmounted, FixAt, Looking, DisksIntact,
         IdleFrame
<1>2. TypeInv /\ TypeInv' /\ ReconcileInv /\ DiskInv /\ [Next]_vars => DiskInv'
  BY DiskStep
<1>3. DiskInv => DisksIntact
  BY DEF DiskInv
<1> QED
  BY <1>1, <1>2, <1>3, Reconciling, TypesHold, PTL DEF Spec

-----------------------------------------------------------------------------
(* Rows and host.  StartVM and StopVM write a passing state before they     *)
(* touch the host, so what they have done to it is known from where they    *)
(* stand (HandlerOK), and a settled row speaks of a host nobody works on.   *)

StartPCs == {"start_net", "start_kill", "start_umount", "start_wipe", "start_spawn",
             "start_mount", "start_boot", "start_commit", "start_fail"}
StopPCs == {"stop_kill", "stop_umount", "stop_wipe", "stop_tap", "stop_commit"}
OrphanPCs == {"orphan_rows", "orphan_links", "orphan_delete"}

\* A microVM of a name was booted: it is there still, or it exited by itself, or the
\* pkill of another name took it.
Ran(n) == proc[n] \in {"up", "exited"} \/ (proc[n] = "none" /\ KilledByOthers(n))

\* A handler that writes a row has its latest copy; one in the middle of a start or
\* stop has it in the passing state, unless its context was cancelled before, and has
\* done to the host what its place in the code says.
HandlerOK(f) ==
    LET v == f.vm
        n == NameOf[v]
    IN /\ f.pc \in {"start_mark", "stop_mark", "resize_write"} \cup StartPCs =>
            Present(v) /\ f.snap = row[v]
       /\ f.pc \in StartPCs => row[v].state = "starting"
       /\ f.pc \in StartPCs \ {"start_net", "start_fail"} => tap[v]
       /\ f.pc = "start_commit" => Ran(n) /\ cfg[n] = row[v].size
       /\ f.pc \in StopPCs => Present(v) /\ (f.live => row[v].state = "stopping")
       /\ f.pc \in StopPCs \ {"stop_kill"} /\ f.live => ~Alive(n)
       /\ f.pc \in {"stop_wipe", "stop_tap", "stop_commit"} /\ f.live /\ ~f.bad => ~mounted[n]
       /\ f.pc = "stop_commit" /\ f.live /\ ~f.bad => ~tap[v]
       /\ f.pc \in {"delete_files", "delete_row"} => row[v].state = "stopped" /\ ~row[v].err
       /\ f.pc = "resize_reread" => row[v].state = "stopped"
       /\ f.pc = "resize_write" => row[v].state \notin {"running", "starting"}
       /\ f.pc \in OrphanPCs => f.vm = NoVM
       /\ f.pc = "orphan_links" => \A w \in VMs : row[w].state = "running" => w \in f.keep
       /\ f.pc = "orphan_delete" => \A w \in f.keep : row[w].state # "running"

\* Reconcile may have removed the TAP of a VM and not yet written its row, or the
\* daemon died in between: its process is gone, and it is still to be looked at.
Cleared(v) == /\ ~PGrep(NameOf[v])
              /\ \/ phase = "down"
                 \/ phase = "reconciling" /\ (v \in todo \/ fix.vm = v)

\* What the row of a VM, or its absence, says of the host.
Told(v) ==
    LET n == NameOf[v]
    IN /\ row[v].state = "running" => Ran(n) /\ cfg[n] = row[v].size
       /\ row[v].state = "running" => tap[v] \/ Cleared(v)
       /\ row[v].state = "stopped" => ~Alive(n) /\ (~row[v].err => ~tap[v] /\ ~mounted[n])
       /\ row[v].state = "absent" => ~tap[v]

\* What is left of the VMs of a name that nobody has.
Free(n) == ~NameTaken(n) => ~Alive(n) /\ ~mounted[n]

\* vms.name is UNIQUE.
OneEach == \A v, w \in VMs : Present(v) /\ Present(w) /\ NameOf[v] = NameOf[w] => v = w

SettledInv ==
    /\ Alone /\ Served /\ OneEach
    /\ \A r \in Requests : HandlerOK(req[r])
    /\ \A v \in VMs : Told(v)
    /\ \A n \in Names : Free(n)

LEMMA IdleOK == ASSUME NEW f, f.pc = "idle" PROVE HandlerOK(f)
BY DEF HandlerOK, StartPCs, StopPCs, OrphanPCs

\* A step of handler r on its VM v spoils nothing for the others if it keeps what
\* v's row says and stays on what v's name gives, or takes a process that pkill for
\* some other name may take.
LEMMA OwnStep ==
    ASSUME TypeInv, TypeInv', SettledInv, NEW r \in Requests, Step(r), req[r].pc \in VMPCs,
           NEW v \in VMs, req[r].vm = v,
           HandlerOK(req[r])', Told(v)', Free(NameOf[v])', UNCHANGED phase,
           \A w \in VMs \ {v} : row'[w] = row[w] /\ tap'[w] = tap[w],
           \A m \in Names \ {NameOf[v]} : cfg'[m] = cfg[m] /\ mounted'[m] = mounted[m],
           \A m \in Names \ {NameOf[v]} :
             proc'[m] = proc[m] \/ (proc'[m] = "none" /\ KilledByOthers(m)),
           Present(v)' => Present(v) \/ ~NameTaken(NameOf[v]),
           Present(v) \/ UNCHANGED <<proc, cfg, mounted>>
    PROVE  SettledInv'
<1>1. /\ ~At(r, "idle") /\ req[r].vm # NoVM
      /\ \A q \in Requests \ {r} : req'[q] = req[q]
  BY StepFrame, ConstantsAssumption
<1>2. Alone'
  BY AloneStep DEF SettledInv
<1>3. Served' /\ phase = "serving" /\ phase' = "serving"
  BY <1>1 DEF SettledInv, Served
<1>4. \A w \in VMs \ {v} : Present(w)' = Present(w)
  BY DEF Present
<1>5. \A w \in VMs \ {v} : Present(w) /\ NameOf[w] = NameOf[v] => ~Present(v) /\ ~Present(v)'
  BY DEF SettledInv, OneEach, NameTaken
<1>6. OneEach'
  BY <1>4, <1>5 DEF SettledInv, OneEach
<1>7. ASSUME NEW q \in Requests PROVE HandlerOK(req[q])'
  <2>1. CASE q = r
    BY <2>1
  <2>2. CASE q # r
    <3> DEFINE f == req[q]
    <3>1. UNCHANGED f /\ HandlerOK(f)
      BY <1>1, <2>2 DEF SettledInv
    <3>2. CASE f.pc = "idle"
      BY <3>1, <3>2, IdleOK DEF HandlerOK, StartPCs, StopPCs, OrphanPCs
    <3>3. CASE f.pc # "idle"
      <4>1. f.vm # NoVM /\ NameOf[f.vm] # NameOf[v]
        BY <1>1, <2>2, <3>3 DEF SettledInv, Alone, Name
      <4>2. f.pc \notin OrphanPCs
        BY <3>1, <4>1 DEF HandlerOK
      <4>3. f.pc \in VMPCs
        BY <3>3, <4>2 DEF VMPCs, OrphanPCs, TypeInv, TypeOK, Frame
      <4>4. PICK w \in VMs : w = f.vm
        BY <4>3 DEF TypeInv, OnVM
      <4>5. w # v /\ NameOf[w] \in Names \ {NameOf[v]}
        BY <4>1, <4>4, ConstantsAssumption
      <4>6. /\ UNCHANGED <<row[w], tap[w], cfg[NameOf[w]], mounted[NameOf[w]]>>
            /\ Present(w)' = Present(w) /\ (Alive(NameOf[w])' => Alive(NameOf[w]))
            /\ Ran(NameOf[w]) => Ran(NameOf[w])'
        BY <1>4, <4>5 DEF Alive, Ran
      <4> HIDE DEF f
      <4>7. HandlerOK(f)'
        BY <3>1, <4>2, <4>4, <4>6 DEF HandlerOK, OrphanPCs
      <4> QED
        BY <4>7 DEF f
    <3> QED
      BY <3>2, <3>3
  <2> QED
    BY <2>1, <2>2
<1>8. ASSUME NEW w \in VMs PROVE Told(w)'
  <2>1. CASE NameOf[w] = NameOf[v] /\ w # v
    <3>1. CASE Present(v)
      BY <1>4, <1>5, <2>1, <3>1 DEF SettledInv, Told, Present
    <3>2. CASE UNCHANGED <<proc, cfg, mounted>>
      BY <1>3, <2>1, <3>2 DEF SettledInv, Told, Alive, Ran, Cleared
    <3> QED
      BY <3>1, <3>2
  <2>2. CASE NameOf[w] # NameOf[v]
    <3>1. NameOf[w] \in Names \ {NameOf[v]} /\ w # v
      BY <2>2, ConstantsAssumption
    <3> QED
      BY <1>3, <3>1 DEF SettledInv, Told, Alive, Ran, Cleared
  <2> QED
    BY <2>1, <2>2
<1>9. ASSUME NEW n \in Names PROVE Free(n)'
  <2>1. CASE n # NameOf[v]
    BY <1>4, <2>1 DEF SettledInv, Free, NameTaken, Alive
  <2> QED
    BY <2>1
<1> QED
  BY <1>2, <1>3, <1>6, <1>7, <1>8, <1>9 DEF SettledInv

\* A step that only moves the handler.
LEMMA FrameOnly ==
    ASSUME TypeInv, TypeInv', SettledInv, NEW r \in Requests, Step(r), req[r].pc \in VMPCs,
           HandlerOK(req[r])', UNCHANGED <<row, proc, cfg, tap, mounted, phase>>
    PROVE  SettledInv'
<1>1. PICK v \in VMs : req[r].vm = v
  BY DEF TypeInv, OnVM
<1>2. NameOf[v] \in Names
  BY ConstantsAssumption
<1>3. phase = "serving"
  BY StepFrame DEF SettledInv, Served
<1>4. Told(v)' /\ Free(NameOf[v])' /\ (Present(v)' => Present(v))
  BY <1>2, <1>3 DEF SettledInv, Told, Free, NameTaken, Present, Alive, Ran, Cleared
<1> QED
  BY <1>1, <1>4, OwnStep

\* Where a handler relies on nothing.
FreePCs == {"idle", "create_check", "create_rootfs", "create_insert", "start_read",
            "stop_read", "delete_read", "resize_read", "restart_check"}

LEMMA FreeOK == ASSUME NEW r \in Requests, req'[r].pc \in FreePCs PROVE HandlerOK(req[r])'
BY DEF HandlerOK, FreePCs, StartPCs, StopPCs, OrphanPCs

\* Where a handler goes.
LEMMA Going ==
    ASSUME TypeInv, NEW r \in Requests
    PROVE  /\ Finish(r) => req'[r].pc = "idle"
           /\ \A l : Goto(r, l) => /\ req'[r].pc = l /\ req'[r].vm = req[r].vm
                                   /\ req'[r].snap = req[r].snap /\ req'[r].live = req[r].live
                                   /\ req'[r].bad = req[r].bad /\ req'[r].keep = req[r].keep
           /\ \A l : ReadRow(r, l) => \/ req'[r].pc = "idle"
                                      \/ /\ Present(req[r].vm) /\ req'[r].pc = l
                                         /\ req'[r].vm = req[r].vm /\ req'[r].snap = row[req[r].vm]
           /\ \A l : Return(r, l) => req'[r].pc = l /\ (l # "idle" => req'[r].vm = req[r].vm)
<1>1. req \in [Requests -> Frame] /\ req[r] \in Frame
  BY DEF TypeInv, TypeOK
<1>2. Finish(r) => req'[r].pc = "idle"
  BY <1>1 DEF Finish, IdleFrame
<1>3. ASSUME NEW l, Goto(r, l)
      PROVE  /\ req'[r].pc = l /\ req'[r].vm = req[r].vm
             /\ req'[r].snap = req[r].snap /\ req'[r].live = req[r].live
             /\ req'[r].bad = req[r].bad /\ req'[r].keep = req[r].keep
  BY <1>1, <1>3 DEF Goto, Frame
<1>4. ASSUME NEW l, ReadRow(r, l)
      PROVE  \/ req'[r].pc = "idle"
             \/ /\ Present(req[r].vm) /\ req'[r].pc = l
                /\ req'[r].vm = req[r].vm /\ req'[r].snap = row[req[r].vm]
  BY <1>1, <1>2, <1>4 DEF ReadRow, Frame
<1>5. ASSUME NEW l, Return(r, l)
      PROVE  req'[r].pc = l /\ (l # "idle" => req'[r].vm = req[r].vm)
  BY <1>2, <1>3, <1>5 DEF Return
<1> QED
  BY <1>2, <1>3, <1>4, <1>5

\* Steps that only move the handler, to where it relies on nothing.
LEMMA EasyInv ==
    ASSUME TypeInv, TypeInv', SettledInv, NEW r \in Requests,
           \/ CreateCheck(r) \/ CreateRootFS(r) \/ DeleteRead(r) \/ RestartCheck(r)
    PROVE  SettledInv'
<1>1. Step(r) /\ req[r].pc \in VMPCs
  BY DEF Step, CreateCheck, CreateRootFS, DeleteRead, RestartCheck, VMPCs, PCs
<1>2. req'[r].pc \in FreePCs
  <2>1. CASE CreateCheck(r)
    BY <2>1, Going DEF CreateCheck, FreePCs
  <2>2. CASE CreateRootFS(r)
    BY <2>2, Going DEF CreateRootFS, FreePCs
  <2>3. CASE DeleteRead(r)
    BY <2>3, Going DEF DeleteRead, FreePCs
  <2>4. CASE RestartCheck(r)
    <3>1. req \in [Requests -> Frame] /\ req[r] \in Frame
      BY DEF TypeInv, TypeOK
    <3> QED
      BY <2>4, <3>1, Going DEF RestartCheck, FreePCs, Frame
  <2> QED
    BY <2>1, <2>2, <2>3, <2>4
<1>3. UNCHANGED <<row, proc, cfg, tap, mounted, phase>>
  BY DEF CreateCheck, CreateRootFS, DeleteRead, RestartCheck, host, daemon
<1> QED
  BY <1>1, <1>2, <1>3, FreeOK, FrameOnly

\* Steps that take the row in.
LEMMA ReadInv ==
    ASSUME TypeInv, TypeInv', SettledInv, NEW r \in Requests,
           \/ StartRead(r) \/ StopRead(r) \/ ResizeRead(r) \/ ResizeReread(r)
    PROVE  SettledInv'
<1>1. Step(r) /\ req[r].pc \in VMPCs
  BY DEF Step, StartRead, StopRead, ResizeRead, ResizeReread, VMPCs, PCs
<1>2. UNCHANGED <<row, proc, cfg, tap, mounted, phase>>
  BY DEF StartRead, StopRead, ResizeRead, ResizeReread, host, daemon
<1>3. req \in [Requests -> Frame] /\ req[r] \in Frame /\ HandlerOK(req[r])
  BY DEF TypeInv, TypeOK, SettledInv
<1>4. \/ req'[r].pc \in FreePCs
      \/ /\ Present(req[r].vm) /\ req'[r].vm = req[r].vm /\ req'[r].snap = row[req[r].vm]
         /\ \/ req'[r].pc \in {"start_mark", "stop_mark"}
            \/ req'[r].pc = "resize_write" /\ row[req[r].vm].state \notin {"running", "starting"}
  <2>1. CASE StartRead(r) \/ StopRead(r)
    BY <2>1, Going DEF StartRead, StopRead, FreePCs
  <2>2. CASE ResizeRead(r)
    BY <1>3, <2>2, Going DEF ResizeRead, FreePCs, Frame
  <2>3. CASE ResizeReread(r)
    BY <1>3, <2>3, Going DEF ResizeReread, HandlerOK, FreePCs
  <2> QED
    BY <2>1, <2>2, <2>3
<1>5. HandlerOK(req[r])'
  BY <1>2, <1>4, FreeOK DEF HandlerOK, StartPCs, StopPCs, OrphanPCs, Present
<1> QED
  BY <1>1, <1>2, <1>5, FrameOnly

LEMMA CreateInsertSettled ==
    ASSUME TypeInv, TypeInv', SettledInv, NEW r \in Requests, CreateInsert(r)
    PROVE  SettledInv'
<1>1. Step(r) /\ req[r].pc \in VMPCs
  BY DEF Step, CreateInsert, VMPCs, PCs
<1>2. PICK v \in VMs : req[r].vm = v
  BY <1>1 DEF TypeInv, OnVM
<1>3. HandlerOK(req[r])' /\ UNCHANGED <<proc, cfg, tap, mounted, phase>>
  BY Going, FreeOK DEF CreateInsert, FreePCs, host, daemon
<1>4. CASE UNCHANGED row
  BY <1>1, <1>3, <1>4, FrameOnly
<1>5. CASE ~NameTaken(NameOf[v])
           /\ row' = [row EXCEPT ![v] = [state |-> "stopped", size |-> req[r].size, err |-> FALSE]]
  <2>1. /\ row'[v].state = "stopped" /\ ~row'[v].err
        /\ \A w \in VMs \ {v} : row'[w] = row[w]
    BY <1>5 DEF TypeInv, TypeOK
  <2>2. NameOf[v] \in Names /\ ~Alive(NameOf[v]) /\ ~mounted[NameOf[v]]
    BY <1>5, ConstantsAssumption DEF SettledInv, Free
  <2>3. row[v].state = "absent" /\ ~tap[v]
    BY <1>5 DEF NameTaken, Present, SettledInv, Told
  <2>4. Told(v)' /\ Free(NameOf[v])'
    BY <1>3, <2>1, <2>2, <2>3 DEF Told, Free, NameTaken, Present, Alive
  <2> QED
    BY <1>1, <1>2, <1>3, <1>5, <2>1, <2>4, OwnStep
<1> QED
  BY <1>2, <1>4, <1>5 DEF CreateInsert, Name

\* In a passing state a row says nothing of the host, and no other VM has the name.
LEMMA PassingStep ==
    ASSUME TypeInv, TypeInv', SettledInv, NEW r \in Requests, Step(r), req[r].pc \in VMPCs,
           NEW v \in VMs, req[r].vm = v,
           Present(v), row'[v].state \in {"starting", "stopping", "error"},
           HandlerOK(req[r])', UNCHANGED phase,
           \A w \in VMs \ {v} : row'[w] = row[w] /\ tap'[w] = tap[w],
           \A m \in Names \ {NameOf[v]} : cfg'[m] = cfg[m] /\ mounted'[m] = mounted[m],
           \A m \in Names \ {NameOf[v]} :
             proc'[m] = proc[m] \/ (proc'[m] = "none" /\ KilledByOthers(m))
    PROVE  SettledInv'
<1>1. Told(v)'
  BY DEF Told
<1>2. Free(NameOf[v])'
  BY DEF Free, NameTaken, Present
<1> QED
  BY <1>1, <1>2, OwnStep

\* UpdateVM on a row that is there.
LEMMA SavedRow ==
    ASSUME TypeInv, NEW v \in VMs, Present(v), NEW rec, row' = Saved(v, rec)
    PROVE  row'[v] = rec /\ \A w \in VMs \ {v} : row'[w] = row[w]
BY DEF TypeInv, TypeOK, Saved

LEMMA StartMarkInv ==
    ASSUME TypeInv, TypeInv', SettledInv, NEW r \in Requests, StartMark(r)
    PROVE  SettledInv'
<1>1. Step(r) /\ req[r].pc \in VMPCs /\ req[r].pc = "start_mark"
  BY DEF Step, StartMark, VMPCs, PCs
<1>2. PICK v \in VMs : req[r].vm = v
  BY <1>1 DEF TypeInv, OnVM
<1> DEFINE marked == [req[r].snap EXCEPT !.state = "starting", !.err = FALSE]
<1>3. UNCHANGED <<proc, cfg, tap, mounted, phase>>
  BY DEF StartMark, host, daemon
<1>4. CASE UNCHANGED row /\ (Finish(r) \/ Return(r, AfterStart(req[r])))
  <2>1. req'[r].pc \in FreePCs
    BY <1>4, Going DEF AfterStart, FreePCs
  <2> QED
    BY <1>1, <1>3, <1>4, <2>1, FreeOK, FrameOnly
<1>5. CASE row' = Saved(v, marked) /\ req' = [req EXCEPT ![r].pc = "start_net", ![r].snap = marked]
  <2>1. Present(v) /\ req[r] \in Frame /\ req \in [Requests -> Frame]
    BY <1>1, <1>2 DEF SettledInv, HandlerOK, TypeInv, TypeOK
  <2>2. marked.state = "starting"
    BY <2>1 DEF Frame, RowType
  <2> HIDE DEF marked
  <2>3. row'[v] = marked /\ \A w \in VMs \ {v} : row'[w] = row[w]
    BY <1>5, <2>1, SavedRow
  <2>4. req'[r].pc = "start_net" /\ req'[r].vm = v /\ req'[r].snap = marked
    BY <1>2, <1>5, <2>1 DEF Frame
  <2>5. HandlerOK(req[r])'
    BY <2>2, <2>3, <2>4 DEF HandlerOK, StartPCs, StopPCs, OrphanPCs, Present
  <2> QED
    BY <1>1, <1>2, <1>3, <2>1, <2>2, <2>3, <2>5, PassingStep
<1> QED
  BY <1>2, <1>4, <1>5 DEF StartMark

\* The steps of a start that work on the host.
LEMMA StartingInv ==
    ASSUME TypeInv, TypeInv', SettledInv, NEW r \in Requests,
           \/ StartNet(r) \/ StartKill(r) \/ StartUmount(r) \/ StartWipe(r)
           \/ StartSpawn(r) \/ StartMount(r) \/ StartBoot(r)
    PROVE  SettledInv'
<1>1. Step(r) /\ req[r].pc \in StartPCs /\ req[r].pc \in VMPCs
  BY DEF Step, StartNet, StartKill, StartUmount, StartWipe, StartSpawn, StartMount,
         StartBoot, Kill, Umount, Wipe, VMPCs, PCs, StartPCs
<1>2. PICK v \in VMs : req[r].vm = v
  BY <1>1 DEF TypeInv, OnVM
<1> DEFINE n == NameOf[v]
<1>3. /\ HandlerOK(req[r]) /\ Present(v) /\ row[v].state = "starting" /\ req[r].snap = row[v]
      /\ req[r] \in Frame /\ req \in [Requests -> Frame] /\ n \in Names /\ Name(r) = n
      /\ tap \in [VMs -> BOOLEAN] /\ proc \in [Names -> {"none", "api", "up", "exited"}]
  BY <1>1, <1>2, ConstantsAssumption DEF SettledInv, HandlerOK, TypeInv, TypeOK, Name
<1>4. UNCHANGED <<row, phase>>
  BY DEF StartNet, StartKill, StartUmount, StartWipe, StartSpawn, StartMount,
         StartBoot, Kill, Umount, Wipe, daemon
<1>5. \A w \in VMs \ {v} : tap'[w] = tap[w]
  BY <1>2, <1>3
     DEF StartNet, StartKill, StartUmount, StartWipe, StartSpawn, StartMount,
         StartBoot, Kill, Umount, Wipe
<1>6. ASSUME NEW m \in Names \ {n}
      PROVE  /\ cfg'[m] = cfg[m] /\ mounted'[m] = mounted[m]
             /\ proc'[m] = proc[m] \/ (proc'[m] = "none" /\ KilledByOthers(m))
  <2>1. CASE StartNet(r)
    BY <2>1 DEF StartNet
  <2>2. CASE StartKill(r)
    BY <1>3, <2>2 DEF StartKill, Kill, Killed, KilledByOthers
  <2>3. CASE StartUmount(r) \/ StartWipe(r) \/ StartMount(r)
    BY <1>3, <2>3 DEF StartUmount, Umount, StartWipe, Wipe, StartMount, TypeInv, TypeOK
  <2>4. CASE StartSpawn(r) \/ StartBoot(r)
    BY <1>3, <2>4 DEF StartSpawn, StartBoot, TypeInv, TypeOK
  <2> QED
    BY <2>1, <2>2, <2>3, <2>4
<1>7. /\ req'[r].vm = v /\ req'[r].snap = row[v] /\ req'[r].pc \in StartPCs
      /\ req'[r].pc \notin {"start_net", "start_fail"} => tap'[v]
      /\ req'[r].pc = "start_commit" => proc'[n] = "up" /\ cfg'[n] = row[v].size
  <2>1. CASE StartNet(r)
    BY <1>2, <1>3, <2>1, Going DEF StartNet, StartPCs
  <2>2. CASE StartKill(r)
    BY <1>2, <1>3, <2>2, Going DEF StartKill, Kill, StartPCs, HandlerOK
  <2>3. CASE StartUmount(r)
    BY <1>2, <1>3, <2>3, Going DEF StartUmount, Umount, StartPCs, HandlerOK, Frame
  <2>4. CASE StartWipe(r)
    BY <1>2, <1>3, <2>4 DEF StartWipe, Wipe, StartPCs, HandlerOK, Frame
  <2>5. CASE StartSpawn(r)
    BY <1>2, <1>3, <2>5, Going DEF StartSpawn, StartPCs, HandlerOK
  <2>6. CASE StartMount(r)
    BY <1>2, <1>3, <2>6, Going DEF StartMount, StartPCs, HandlerOK
  <2>7. CASE StartBoot(r)
    BY <1>2, <1>3, <2>7, Going DEF StartBoot, StartPCs, HandlerOK, TypeInv, TypeOK
  <2> QED
    BY <2>1, <2>2, <2>3, <2>4, <2>5, <2>6, <2>7
<1>8. HandlerOK(req[r])'
  BY <1>3, <1>4, <1>7 DEF HandlerOK, Ran, StartPCs, StopPCs, OrphanPCs, Present
<1> QED
  BY <1>1, <1>2, <1>3, <1>4, <1>5, <1>6, <1>8, PassingStep

\* A start ends.
LEMMA StartEndsInv ==
    ASSUME TypeInv, TypeInv', SettledInv, NEW r \in Requests, StartCommit(r) \/ StartFail(r)
    PROVE  SettledInv'
<1>1. Step(r) /\ req[r].pc \in StartPCs /\ req[r].pc \in VMPCs
  BY DEF Step, StartCommit, StartFail, VMPCs, PCs, StartPCs
<1>2. PICK v \in VMs : req[r].vm = v
  BY <1>1 DEF TypeInv, OnVM
<1>3. HandlerOK(req[r]) /\ Present(v) /\ req[r].snap = row[v] /\ row[v] \in RowType
  BY <1>1, <1>2 DEF SettledInv, HandlerOK, TypeInv, TypeOK
<1>4. HandlerOK(req[r])'
  BY Going, FreeOK DEF StartCommit, StartFail, AfterStart, FreePCs
<1>5. UNCHANGED <<proc, cfg, tap, mounted, phase>>
  BY DEF StartCommit, StartFail, host, daemon
<1>6. CASE UNCHANGED row
  BY <1>1, <1>4, <1>5, <1>6, FrameOnly
<1>7. CASE StartCommit(r) /\ row' = Saved(v, [req[r].snap EXCEPT !.state = "running"])
  <2> DEFINE rec == [row[v] EXCEPT !.state = "running"]
  <2>1. rec.state = "running" /\ rec.size = row[v].size
    BY <1>3 DEF RowType
  <2> HIDE DEF rec
  <2>2. row' = Saved(v, rec)
    BY <1>3, <1>7 DEF rec
  <2>3. row'[v] = rec /\ \A w \in VMs \ {v} : row'[w] = row[w]
    BY <1>3, <2>2, SavedRow
  <2>4. Ran(NameOf[v]) /\ cfg[NameOf[v]] = row[v].size /\ tap[v]
    BY <1>2, <1>3, <1>7 DEF StartCommit, HandlerOK, StartPCs
  <2>5. Told(v)'
    BY <1>5, <2>1, <2>3, <2>4 DEF Told, Ran
  <2>6. Free(NameOf[v])'
    BY <2>1, <2>3 DEF Free, NameTaken, Present
  <2> QED
    BY <1>1, <1>2, <1>3, <1>4, <1>5, <2>3, <2>5, <2>6, OwnStep
<1>8. CASE row' = Saved(v, [req[r].snap EXCEPT !.state = "error", !.err = TRUE])
  <2> DEFINE rec == [row[v] EXCEPT !.state = "error", !.err = TRUE]
  <2>1. rec.state = "error"
    BY <1>3 DEF RowType
  <2> HIDE DEF rec
  <2>2. row' = Saved(v, rec)
    BY <1>3, <1>8 DEF rec
  <2>3. row'[v] = rec /\ \A w \in VMs \ {v} : row'[w] = row[w]
    BY <1>3, <2>2, SavedRow
  <2> QED
    BY <1>1, <1>2, <1>3, <1>4, <1>5, <2>1, <2>3, PassingStep
<1> QED
  BY <1>2, <1>6, <1>7, <1>8 DEF StartCommit, StartFail

LEMMA StopMarkInv ==
    ASSUME TypeInv, TypeInv', SettledInv, NEW r \in Requests, StopMark(r)
    PROVE  SettledInv'
<1>1. Step(r) /\ req[r].pc \in VMPCs /\ req[r].pc = "stop_mark"
  BY DEF Step, StopMark, VMPCs, PCs
<1>2. PICK v \in VMs : req[r].vm = v
  BY <1>1 DEF TypeInv, OnVM
<1> DEFINE marked == [req[r].snap EXCEPT !.state = "stopping"]
<1>3. UNCHANGED <<proc, cfg, tap, mounted, phase>>
  BY DEF StopMark, host, daemon
<1>4. Present(v) /\ req[r] \in Frame /\ req \in [Requests -> Frame]
  BY <1>1, <1>2 DEF SettledInv, HandlerOK, TypeInv, TypeOK
<1>5. marked.state = "stopping"
  BY <1>4 DEF Frame, RowType
<1>6. req'[r].pc = "stop_kill" /\ req'[r].vm = v /\ req'[r].live = req[r].live
  BY <1>2, <1>4 DEF StopMark, Frame
<1> HIDE DEF marked
<1>7. row' = IF req[r].live THEN Saved(v, marked) ELSE row
  BY <1>2 DEF StopMark, marked
<1>8. CASE req[r].live
  <2>1. row'[v] = marked /\ \A w \in VMs \ {v} : row'[w] = row[w]
    BY <1>4, <1>7, <1>8, SavedRow
  <2>2. HandlerOK(req[r])'
    BY <1>5, <1>6, <2>1 DEF HandlerOK, StartPCs, StopPCs, OrphanPCs, Present
  <2> QED
    BY <1>1, <1>2, <1>3, <1>4, <1>5, <2>1, <2>2, PassingStep
<1>9. CASE ~req[r].live
  <2>1. HandlerOK(req[r])'
    BY <1>4, <1>6, <1>7, <1>9 DEF HandlerOK, StartPCs, StopPCs, OrphanPCs, Present
  <2> QED
    BY <1>1, <1>3, <1>7, <1>9, <2>1, FrameOnly
<1> QED
  BY <1>8, <1>9

\* cleanupVMRuntime.  With its context cancelled it does nothing that the row speaks of.
LEMMA StoppingInv ==
    ASSUME TypeInv, TypeInv', SettledInv, NEW r \in Requests,
           StopKill(r) \/ StopUmount(r) \/ StopWipe(r) \/ StopTap(r)
    PROVE  SettledInv'
<1>1. Step(r) /\ req[r].pc \in StopPCs /\ req[r].pc \in VMPCs
  BY DEF Step, StopKill, StopUmount, StopWipe, StopTap, Kill, Umount, Wipe, VMPCs, PCs, StopPCs
<1>2. PICK v \in VMs : req[r].vm = v
  BY <1>1 DEF TypeInv, OnVM
<1> DEFINE n == NameOf[v]
<1>3. /\ HandlerOK(req[r]) /\ Present(v) /\ (req[r].live => row[v].state = "stopping")
      /\ req[r] \in Frame /\ req \in [Requests -> Frame] /\ n \in Names /\ Name(r) = n
      /\ tap \in [VMs -> BOOLEAN] /\ proc \in [Names -> {"none", "api", "up", "exited"}]
      /\ mounted \in [Names -> BOOLEAN]
  BY <1>1, <1>2, ConstantsAssumption DEF SettledInv, HandlerOK, TypeInv, TypeOK, Name
<1>4. UNCHANGED <<row, cfg, phase>>
  BY DEF StopKill, StopUmount, StopWipe, StopTap, Kill, Umount, Wipe, daemon
<1>5. /\ \A w \in VMs \ {v} : tap'[w] = tap[w]
      /\ \A m \in Names \ {n} : mounted'[m] = mounted[m]
      /\ \A m \in Names \ {n} :
           proc'[m] = proc[m] \/ (proc'[m] = "none" /\ KilledByOthers(m))
  <2>1. CASE StopKill(r)
    BY <1>3, <2>1 DEF StopKill, Kill, Killed, KilledByOthers
  <2>2. CASE StopUmount(r) \/ StopWipe(r)
    BY <1>3, <2>2 DEF StopUmount, Umount, StopWipe, Wipe
  <2>3. CASE StopTap(r)
    BY <1>2, <1>3, <2>3 DEF StopTap
  <2> QED
    BY <2>1, <2>2, <2>3
<1>6. ~req[r].live => UNCHANGED <<proc, mounted, tap>>
  BY <1>3 DEF StopKill, Kill, StopUmount, Umount, StopWipe, Wipe, StopTap
<1>7. /\ req'[r].vm = v /\ req'[r].live = req[r].live /\ req'[r].pc \in StopPCs \ {"stop_kill"}
      /\ req[r].live => ~Alive(n)'
      /\ req[r].live /\ ~req'[r].bad /\ req'[r].pc # "stop_umount" => ~mounted'[n]
      /\ req[r].live /\ ~req'[r].bad /\ req'[r].pc = "stop_commit" => ~tap'[v]
  <2>1. CASE StopKill(r)
    <3>1. n \in MatchedBy[n]
      BY <1>3, ConstantsAssumption
    <3> QED
      BY <1>2, <1>3, <2>1, <3>1, Going DEF StopKill, Kill, Killed, Alive, StopPCs
  <2>2. CASE StopUmount(r)
    BY <1>2, <1>3, <2>2, Going DEF StopUmount, Umount, Alive, HandlerOK, StopPCs, Frame
  <2>3. CASE StopWipe(r)
    BY <1>2, <1>3, <2>3 DEF StopWipe, Wipe, Alive, HandlerOK, StopPCs, Frame
  <2>4. CASE StopTap(r)
    BY <1>2, <1>3, <2>4, Going DEF StopTap, Alive, HandlerOK, StopPCs, Frame
  <2> QED
    BY <2>1, <2>2, <2>3, <2>4
<1>8. HandlerOK(req[r])'
  BY <1>3, <1>4, <1>7 DEF HandlerOK, StartPCs, StopPCs, OrphanPCs, Present
<1>9. CASE req[r].live
  BY <1>1, <1>2, <1>3, <1>4, <1>5, <1>8, <1>9, PassingStep
<1>10. CASE ~req[r].live
  BY <1>1, <1>4, <1>6, <1>8, <1>10, FrameOnly
<1> QED
  BY <1>9, <1>10

LEMMA StopCommitInv ==
    ASSUME TypeInv, TypeInv', SettledInv, NEW r \in Requests, StopCommit(r)
    PROVE  SettledInv'
<1>1. Step(r) /\ req[r].pc = "stop_commit" /\ req[r].pc \in VMPCs
  BY DEF Step, StopCommit, VMPCs, PCs
<1>2. PICK v \in VMs : req[r].vm = v
  BY <1>1 DEF TypeInv, OnVM
<1>3. HandlerOK(req[r]) /\ Present(v) /\ req[r] \in Frame
  BY <1>1, <1>2 DEF SettledInv, HandlerOK, TypeInv, TypeOK, StopPCs
<1>4. UNCHANGED <<proc, cfg, tap, mounted, phase>>
  BY DEF StopCommit, host, daemon
<1>5. CASE ~req[r].live
  <2>1. HandlerOK(req[r])'
    BY <1>5, Going, FreeOK DEF StopCommit, FreePCs
  <2> QED
    BY <1>1, <1>4, <1>5, <2>1, FrameOnly DEF StopCommit
<1>6. CASE req[r].live
  <2> DEFINE rec == [req[r].snap EXCEPT !.state = "stopped", !.err = req[r].bad]
  <2>1. rec.state = "stopped" /\ rec.err = req[r].bad
    BY <1>3 DEF Frame, RowType
  <2>2. row' = Saved(v, rec)
    BY <1>2, <1>6 DEF StopCommit
  <2>3. \/ Finish(r)
        \/ ~req[r].bad /\ Return(r, AfterStop(req[r]))
    BY <1>6 DEF StopCommit
  <2> HIDE DEF rec
  <2>4. row'[v] = rec /\ \A w \in VMs \ {v} : row'[w] = row[w]
    BY <1>3, <2>2, SavedRow
  <2>5. HandlerOK(req[r])'
    <3>1. CASE Finish(r)
      BY <3>1, Going, FreeOK DEF FreePCs
    <3>2. CASE ~req[r].bad /\ Return(r, AfterStop(req[r]))
      <4>1. \/ req'[r].pc \in FreePCs
            \/ req'[r].pc \in {"delete_files", "resize_reread"} /\ req'[r].vm = v
        BY <1>2, <3>2, Going DEF AfterStop, FreePCs
      <4> QED
        BY <2>1, <2>4, <3>2, <4>1, FreeOK DEF HandlerOK, StartPCs, StopPCs, OrphanPCs
    <3> QED
      BY <2>3, <3>1, <3>2
  <2>6. ~Alive(NameOf[v]) /\ (~req[r].bad => ~tap[v] /\ ~mounted[NameOf[v]])
    BY <1>1, <1>2, <1>3, <1>6 DEF HandlerOK, StopPCs
  <2>7. Told(v)'
    BY <1>4, <2>1, <2>4, <2>6 DEF Told, Alive
  <2>8. Free(NameOf[v])'
    BY <2>1, <2>4 DEF Free, NameTaken, Present
  <2> QED
    BY <1>1, <1>2, <1>3, <1>4, <2>4, <2>5, <2>7, <2>8, OwnStep
<1> QED
  BY <1>5, <1>6

\* DeleteVM comes to its DELETE only from a stop whose clean-up went through.
LEMMA DeletingInv ==
    ASSUME TypeInv, TypeInv', SettledInv, NEW r \in Requests, DeleteFiles(r) \/ DeleteRow(r)
    PROVE  SettledInv'
<1>1. Step(r) /\ req[r].pc \in {"delete_files", "delete_row"} /\ req[r].pc \in VMPCs
  BY DEF Step, DeleteFiles, DeleteRow, VMPCs, PCs
<1>2. PICK v \in VMs : req[r].vm = v
  BY <1>1 DEF TypeInv, OnVM
<1>3. /\ row[v].state = "stopped" /\ ~row[v].err
      /\ ~Alive(NameOf[v]) /\ ~tap[v] /\ ~mounted[NameOf[v]]
  BY <1>1, <1>2 DEF SettledInv, HandlerOK, Told
<1>4. UNCHANGED <<proc, cfg, tap, mounted, phase>>
  BY DEF DeleteFiles, DeleteRow, host, daemon
<1>5. CASE DeleteFiles(r)
  <2>1. HandlerOK(req[r])'
    BY <1>2, <1>3, <1>5, Going DEF DeleteFiles, HandlerOK, StartPCs, StopPCs, OrphanPCs
  <2> QED
    BY <1>1, <1>4, <1>5, <2>1, FrameOnly DEF DeleteFiles
<1>6. CASE DeleteRow(r)
  <2>1. HandlerOK(req[r])'
    BY <1>6, Going, FreeOK DEF DeleteRow, FreePCs
  <2>2. CASE UNCHANGED row
    BY <1>1, <1>4, <2>1, <2>2, FrameOnly
  <2>3. CASE row' = [row EXCEPT ![v] = NoRow]
    <3>1. row'[v].state = "absent" /\ \A w \in VMs \ {v} : row'[w] = row[w]
      BY <2>3 DEF TypeInv, TypeOK, NoRow
    <3>2. Told(v)' /\ Free(NameOf[v])' /\ ~Present(v)'
      BY <1>3, <1>4, <3>1 DEF Told, Free, Alive, Present
    <3>3. Present(v)
      BY <1>3 DEF Present
    <3> QED
      BY <1>1, <1>2, <1>4, <2>1, <3>1, <3>2, <3>3, OwnStep
  <2> QED
    BY <1>2, <1>6, <2>2, <2>3 DEF DeleteRow
<1> QED
  BY <1>5, <1>6

\* A row in state running or starting is not resized where it is.
LEMMA ResizeWriteInv ==
    ASSUME TypeInv, TypeInv', SettledInv, NEW r \in Requests, ResizeWrite(r)
    PROVE  SettledInv'
<1>1. Step(r) /\ req[r].pc = "resize_write" /\ req[r].pc \in VMPCs
  BY DEF Step, ResizeWrite, VMPCs, PCs
<1>2. PICK v \in VMs : req[r].vm = v
  BY <1>1 DEF TypeInv, OnVM
<1>3. /\ Present(v) /\ req[r].snap = row[v] /\ row[v].state \notin {"running", "starting"}
      /\ row[v] \in RowType
  BY <1>1, <1>2 DEF SettledInv, HandlerOK, TypeInv, TypeOK
<1>4. UNCHANGED <<proc, cfg, tap, mounted, phase>>
  BY DEF ResizeWrite, host, daemon
<1>5. HandlerOK(req[r])'
  BY Going, FreeOK DEF ResizeWrite, AfterStart, FreePCs
<1>6. CASE UNCHANGED row
  BY <1>1, <1>4, <1>5, <1>6, FrameOnly
<1>7. CASE row' = Saved(v, [req[r].snap EXCEPT !.size = req[r].size])
  <2> DEFINE rec == [row[v] EXCEPT !.size = req[r].size]
  <2>1. rec.state = row[v].state /\ rec.err = row[v].err
    BY <1>3 DEF RowType
  <2>2. row' = Saved(v, rec)
    BY <1>3, <1>7
  <2> HIDE DEF rec
  <2>3. row'[v] = rec /\ \A w \in VMs \ {v} : row'[w] = row[w]
    BY <1>3, <2>2, SavedRow
  <2>4. Told(v)'
    BY <1>3, <1>4, <2>1, <2>3 DEF SettledInv, Told, Alive
  <2>5. Free(NameOf[v])'
    BY <1>3, <2>1, <2>3 DEF Free, NameTaken, Present
  <2> QED
    BY <1>1, <1>2, <1>3, <1>4, <1>5, <2>3, <2>4, <2>5, OwnStep
<1> QED
  BY <1>2, <1>6, <1>7 DEF ResizeWrite

\* An orphan cleanup has the host for itself, and spares the TAPs of running VMs.
LEMMA OrphanInv ==
    ASSUME TypeInv, TypeInv', SettledInv, NEW r \in Requests,
           OrphanRows(r) \/ OrphanLinks(r) \/ OrphanDelete(r)
    PROVE  SettledInv'
<1>1. Step(r) /\ req[r].pc \in OrphanPCs
  BY DEF Step, OrphanRows, OrphanLinks, OrphanDelete, OrphanPCs
<1>2. /\ HandlerOK(req[r]) /\ req[r].vm = NoVM
      /\ req[r] \in Frame /\ req \in [Requests -> Frame] /\ tap \in [VMs -> BOOLEAN]
  BY <1>1 DEF SettledInv, HandlerOK, TypeInv, TypeOK
<1>3. \A q \in Requests \ {r} : At(q, "idle") /\ req'[q] = req[q]
  BY <1>1, <1>2, StepFrame DEF SettledInv, Alone
<1>4. UNCHANGED <<row, proc, cfg, mounted, phase>>
  BY DEF OrphanRows, OrphanLinks, OrphanDelete, host, daemon
<1>5. \A v \in VMs : (tap'[v] => tap[v]) /\ (row[v].state = "running" => tap'[v] = tap[v])
  <2>1. CASE OrphanRows(r) \/ OrphanLinks(r)
    BY <2>1 DEF OrphanRows, OrphanLinks, host
  <2>2. CASE OrphanDelete(r)
    <3>1. PICK gone \in SUBSET req[r].keep : tap' = [v \in VMs |-> tap[v] /\ v \notin gone]
      BY <2>2 DEF OrphanDelete
    <3>2. \A v \in gone : row[v].state # "running"
      BY <1>2, <2>2, <3>1 DEF OrphanDelete, HandlerOK
    <3> QED
      BY <1>2, <3>1, <3>2
  <2> QED
    BY <2>1, <2>2
<1>6. HandlerOK(req[r])'
  <2>1. CASE Finish(r)
    BY <2>1, Going, FreeOK DEF FreePCs
  <2>2. CASE OrphanRows(r) /\ ~Finish(r)
    <3>1. /\ req'[r].pc = "orphan_links" /\ req'[r].vm = NoVM
          /\ req'[r].keep = {v \in VMs : row[v].state \in {"running", "starting"}}
      BY <1>2, <2>2 DEF OrphanRows, Frame
    <3> QED
      BY <1>4, <3>1 DEF HandlerOK, StartPCs, StopPCs, OrphanPCs
  <2>3. CASE OrphanLinks(r) /\ ~Finish(r)
    <3>1. /\ req'[r].pc = "orphan_delete" /\ req'[r].vm = NoVM
          /\ req'[r].keep = {v \in VMs : tap[v]} \ req[r].keep
      BY <1>2, <2>3 DEF OrphanLinks, Frame
    <3>2. \A w \in VMs : row[w].state = "running" => w \in req[r].keep
      BY <1>2, <2>3 DEF OrphanLinks, HandlerOK
    <3> QED
      BY <1>4, <3>1, <3>2 DEF HandlerOK, StartPCs, StopPCs, OrphanPCs
  <2> QED
    BY <2>1, <2>2, <2>3 DEF OrphanDelete
<1>7. ASSUME NEW q \in Requests PROVE HandlerOK(req[q])'
  BY <1>3, <1>6 DEF HandlerOK, StartPCs, StopPCs, OrphanPCs
<1>8. ASSUME NEW v \in VMs PROVE Told(v)'
  <2>1. phase = "serving"
    BY <1>1, StepFrame DEF SettledInv, Served
  <2> QED
    BY <1>4, <1>5, <2>1 DEF SettledInv, Told, Alive, Ran, Cleared
<1>9. Alone' /\ Served'
  BY <1>1, <1>4, AloneStep, StepFrame DEF SettledInv, Served
<1>10. OneEach' /\ \A n \in Names : Free(n)'
  BY <1>4 DEF SettledInv, OneEach, Free, NameTaken, Present, Alive
<1> QED
  BY <1>7, <1>8, <1>9, <1>10 DEF SettledInv

\* Rows and host stay, and so does what the handlers have seen of them.
LEMMA RequestInv ==
    ASSUME TypeInv, Exclusive, SettledInv, NEW r \in Requests, Request(r)
    PROVE  SettledInv'
<1>1. UNCHANGED <<row, proc, cfg, tap, mounted, phase>> /\ phase = "serving"
  BY DEF Request, host, daemon
<1>2. req \in [Requests -> Frame]
  BY DEF TypeInv, TypeOK
<1>3. ASSUME NEW o \in AllOps, NEW v, NEW s, NEW again, Accept(r, o, v, s, again),
             o = "orphans" => v = NoVM
      PROVE  HandlerOK(req[r])'
  <2>1. \/ req'[r].pc \in FreePCs
        \/ req'[r].pc = "orphan_rows" /\ req'[r].vm = NoVM
    BY <1>2, <1>3 DEF Accept, IdleFrame, FirstStep, AllOps, FreePCs
  <2> QED
    BY <2>1, FreeOK DEF HandlerOK, StartPCs, StopPCs, OrphanPCs
<1>4. HandlerOK(req[r])'
  <2>1. CASE \E v \in VMs, s \in Sizes : RequestCreate(r, v, s)
    BY <1>3, <2>1 DEF RequestCreate, AllOps
  <2>2. CASE \/ \E v \in VMs, o \in {"start", "stop", "delete"} : RequestVM(r, o, v, 0, FALSE)
             \/ \E v \in VMs, s \in Sizes \cup {0} : RequestVM(r, "restart", v, s, TRUE)
             \/ \E v \in VMs, s \in Sizes, again \in BOOLEAN : RequestVM(r, "resize", v, s, again)
    BY <1>3, <2>2 DEF RequestVM, AllOps
  <2>3. CASE RequestOrphans(r)
    BY <1>3, <2>3 DEF RequestOrphans, AllOps
  <2> QED
    BY <2>1, <2>2, <2>3 DEF Request
<1>5. ASSUME NEW q \in Requests \ {r} PROVE HandlerOK(req[q])'
  BY <1>1, Accepted DEF SettledInv, HandlerOK, Present, Alive, Ran
<1>6. Alone'
  BY Accepted, ConstantsAssumption DEF SettledInv, Alone, Name
<1> QED
  BY <1>1, <1>4, <1>5, <1>6
     DEF SettledInv, Served, OneEach, Told, Free, NameTaken, Present, Alive, Ran, Cleared

LEMMA DisconnectInv ==
    ASSUME TypeInv, SettledInv, NEW r \in Requests, Disconnect(r)
    PROVE  SettledInv'
<1>1. UNCHANGED <<row, proc, cfg, tap, mounted, phase>> /\ phase = "serving"
  BY DEF Disconnect, host, daemon, SettledInv, Served
<1>2. /\ \A q \in Requests \ {r} : req'[q] = req[q]
      /\ req'[r].pc = req[r].pc /\ req'[r].vm = req[r].vm /\ req'[r].snap = req[r].snap
      /\ req'[r].keep = req[r].keep /\ ~req'[r].live
  BY DEF Disconnect, TypeInv, TypeOK, Frame
<1>3. HandlerOK(req[r])'
  BY <1>1, <1>2 DEF SettledInv, HandlerOK, Present, Ran
<1>4. ASSUME NEW q \in Requests \ {r} PROVE HandlerOK(req[q])'
  BY <1>1, <1>2 DEF SettledInv, HandlerOK, Present, Alive, Ran
<1>5. Alone' /\ Served'
  BY <1>1, <1>2 DEF SettledInv, Alone, Served, Name
<1> QED
  BY <1>1, <1>3, <1>4, <1>5
     DEF SettledInv, OneEach, Told, Free, NameTaken, Present, Alive, Ran, Cleared

\* Reconcile runs before any handler does.
LEMMA LookSettled ==
    ASSUME TypeInv, ReconcileInv, SettledInv, NEW v \in VMs, ReconcileLook(v)
    PROVE  SettledInv'
<1>1. /\ UNCHANGED <<row, proc, cfg, tap, mounted, phase, req>>
      /\ phase = "reconciling" /\ todo' = todo \ {v}
  BY DEF ReconcileLook, host
<1>2. \A w \in VMs : fix.vm # w
  BY ConstantsAssumption DEF ReconcileLook, Looking
<1>3. row[v].state = "running" /\ ~PGrep(NameOf[v]) => fix'.vm = v
  BY DEF ReconcileLook
<1>4. ASSUME NEW w \in VMs, row[w].state = "running", Cleared(w) PROVE Cleared(w)'
  BY <1>1, <1>2, <1>3, <1>4 DEF Cleared, PGrep, Alive
<1>5. ASSUME NEW w \in VMs PROVE Told(w)'
  BY <1>1, <1>4 DEF SettledInv, Told, Alive, Ran
<1>6. Alone' /\ Served' /\ \A q \in Requests : HandlerOK(req[q])'
  BY <1>1 DEF SettledInv, Served, Alone, HandlerOK, StartPCs, StopPCs, OrphanPCs
<1> QED
  BY <1>1, <1>5, <1>6 DEF SettledInv, OneEach, Free, NameTaken, Present, Alive

LEMMA CleanUpSettled ==
    ASSUME TypeInv, ReconcileInv, SettledInv,
           ReconcileUmount \/ ReconcileWipe \/ ReconcileTap \/ ReconcileWrite
    PROVE  SettledInv'
<1>1. PICK v \in VMs : fix.vm = v
  BY CleaningUp
<1>2. /\ NameOf[v] \in Names /\ Claiming(v) /\ ~PGrep(NameOf[v])
      /\ UNCHANGED <<proc, cfg, phase, todo, req>> /\ phase = "reconciling"
      /\ \A q \in Requests : req[q].pc = "idle"
  BY <1>1, CleaningUp
<1>3. Alone' /\ Served' /\ \A q \in Requests : HandlerOK(req[q])'
  BY <1>2 DEF SettledInv, Alone, Served, HandlerOK, StartPCs, StopPCs, OrphanPCs
<1>4. /\ \A m \in Names : mounted'[m] => mounted[m]
      /\ \A w \in VMs : tap'[w] => tap[w]
      /\ \A w \in VMs \ {v} : row'[w] = row[w] /\ tap'[w] = tap[w]
      /\ \/ fix'.vm = v /\ UNCHANGED row
         \/ row'[v].state = "stopped" /\ row'[v].err
  <2>1. CASE ReconcileUmount \/ ReconcileWipe \/ ReconcileTap
    BY <1>1, <2>1
       DEF ReconcileUmount, ReconcileWipe, ReconcileTap, FixGoto, TypeInv, TypeOK, Fix
  <2>2. CASE ReconcileWrite
    BY <1>1, <2>2, FixWrites DEF ReconcileWrite, host
  <2> QED
    BY <2>1, <2>2
<1>5. \A w \in VMs : Present(w)' = Present(w)
  BY <1>2, <1>4 DEF Claiming, Present
<1>6. ~Alive(NameOf[v])
  BY <1>2, ConstantsAssumption DEF PGrep
<1>7. ASSUME NEW w \in VMs PROVE Told(w)'
  <2>1. CASE w = v
    BY <1>1, <1>2, <1>4, <1>6, <2>1
       DEF SettledInv, Told, Alive, Ran, Cleared, PGrep, Claiming
  <2>2. CASE w # v
    <3>1. NameOf[w] \in Names /\ (Cleared(w) => Cleared(w)')
      BY <1>1, <1>2, <2>2, ConstantsAssumption DEF Cleared, PGrep, Alive
    <3> QED
      BY <1>2, <1>4, <2>2, <3>1 DEF SettledInv, Told, Alive, Ran
  <2> QED
    BY <2>1, <2>2
<1>8. OneEach' /\ \A n \in Names : Free(n)'
  BY <1>2, <1>4, <1>5 DEF SettledInv, OneEach, Free, NameTaken, Alive
<1> QED
  BY <1>3, <1>7, <1>8 DEF SettledInv

\* The rest of what the daemon and the guests do.
LEMMA DaemonInv ==
    ASSUME TypeInv, ReconcileInv, SettledInv,
           Crash \/ Boot \/ Serve \/ (\E n \in Names : GuestExit(n)) \/ UNCHANGED vars
    PROVE  SettledInv'
<1>1. UNCHANGED <<row, cfg, tap, mounted>>
  BY DEF Crash, Boot, Serve, GuestExit, vars, host
<1>2. \A m \in Names : proc'[m] = proc[m] \/ (proc'[m] = "exited" /\ Alive(m))
  BY DEF Crash, Boot, Serve, GuestExit, vars, host, TypeInv, TypeOK
<1>3. /\ \A m \in Names : (Alive(m)' => Alive(m)) /\ (Ran(m) => Ran(m)')
      /\ \A m \in Names : PGrep(m)' => PGrep(m)
  BY <1>2, ConstantsAssumption DEF Alive, Ran, PGrep
<1>4. ASSUME NEW v \in VMs, row[v].state = "running", Cleared(v) PROVE Cleared(v)'
  <2>1. ~PGrep(NameOf[v])'
    BY <1>3, <1>4, ConstantsAssumption DEF Cleared
  <2>2. CASE Crash
    BY <2>1, <2>2 DEF Crash, Cleared
  <2>3. CASE Boot
    BY <1>4, <2>1, <2>3 DEF Boot, Cleared, Present
  <2>4. CASE Serve
    BY <1>4, <2>4, ConstantsAssumption DEF Serve, Cleared, Looking
  <2>5. CASE (\E n \in Names : GuestExit(n)) \/ UNCHANGED vars
    BY <1>4, <2>1, <2>5 DEF GuestExit, vars, daemon, Cleared
  <2> QED
    BY <2>2, <2>3, <2>4, <2>5
<1>5. ASSUME NEW v \in VMs PROVE Told(v)'
  <2>1. NameOf[v] \in Names
    BY ConstantsAssumption
  <2> QED
    BY <1>1, <1>3, <1>4, <2>1 DEF SettledInv, Told
<1>6. OneEach' /\ \A n \in Names : Free(n)'
  BY <1>1, <1>3 DEF SettledInv, OneEach, Free, NameTaken, Present
<1>7. CASE Crash
  <2>1. \A q \in Requests : req'[q].pc = "idle"
    BY <1>7 DEF Crash, IdleFrame
  <2>2. \A q \in Requests : HandlerOK(req[q])'
    BY <2>1 DEF HandlerOK, StartPCs, StopPCs, OrphanPCs
  <2> QED
    BY <1>5, <1>6, <2>1, <2>2 DEF SettledInv, Alone, Served
<1>8. CASE ~Crash
  <2>1. req' = req /\ (phase' # "serving" => phase # "serving")
    BY <1>8 DEF Boot, Serve, GuestExit, vars, daemon
  <2>2. ASSUME NEW q \in Requests PROVE HandlerOK(req[q])'
    <3>1. CASE req[q].pc \in VMPCs
      <4>1. PICK v \in VMs : req[q].vm = v
        BY <3>1 DEF TypeInv, OnVM
      <4>2. NameOf[v] \in Names
        BY ConstantsAssumption
      <4> QED
        BY <1>1, <1>3, <2>1, <4>1, <4>2 DEF SettledInv, HandlerOK, Present
    <3>2. CASE req[q].pc \notin VMPCs
      <4>1. req[q].pc \in OrphanPCs \cup {"idle"}
        BY <3>2 DEF TypeInv, TypeOK, Frame, VMPCs, OrphanPCs
      <4> QED
        BY <1>1, <2>1, <4>1 DEF SettledInv, HandlerOK, StartPCs, StopPCs, OrphanPCs
    <3> QED
      BY <3>1, <3>2
  <2> QED
    BY <1>5, <1>6, <2>1, <2>2 DEF SettledInv, Alone, Served, Name
<1> QED
  BY <1>7, <1>8

LEMMA SettledStep ==
    ASSUME Exclusive, TypeInv, TypeInv', ReconcileInv, SettledInv, [Next]_vars
    PROVE  SettledInv'
<1>1. ASSUME NEW r \in Requests, Step(r)
      PROVE  SettledInv'
  BY <1>1, EasyInv, CreateInsertSettled, ReadInv, StartMarkInv, StartingInv, StartEndsInv,
     StopMarkInv, StoppingInv, StopCommitInv, DeletingInv, ResizeWriteInv, OrphanInv DEF Step
<1>2. CASE Reconcile
  BY <1>2, LookSettled, CleanUpSettled DEF Reconcile
<1> QED
  BY <1>1, <1>2, RequestInv, DisconnectInv, DaemonInv DEF Next

THEOREM SettledAlways ==
    ASSUME Exclusive
    PROVE  Spec => []SettledInv
<1>1. Init => SettledInv
  BY DEF Init, SettledInv, Alone, Served, OneEach, HandlerOK, Told, Free, Present, Alive,
         NameTaken, NoRow, IdleFrame, StartPCs, StopPCs, OrphanPCs
<1>2. TypeInv /\ TypeInv' /\ ReconcileInv /\ SettledInv /\ [Next]_vars => SettledInv'
  BY SettledStep
<1> QED
  BY <1>1, <1>2, Reconciling, TypesHold, PTL DEF Spec

\* As long as clients keep one request in flight per VM name, a row in a settled
\* state says of the host what SettledConsistent has it say, at every step of the
\* handlers and of Reconcile, for any number of VMs, names and handlers, whatever
\* fails, crashes or is cut short by its client, and whichever names match each
\* other's patterns (StartVM, StopVM, UpdateResources, RestartVM,
\* CleanupHostOrphans, Reconcile).
THEOREM RowsSettled ==
    ASSUME Exclusive
    PROVE  Spec => []SettledConsistent
<1>1. SettledInv => SettledConsistent
  BY DEF SettledInv, Told, SettledConsistent, Ran, Cleared
<1> QED
  BY <1>1, SettledAlways, PTL

\* Under the same condition nothing of a deleted VM, or of one that was never
\* inserted, is on the host while its name is free (DeleteVM, CreateVM).
THEOREM NothingLeft ==
    ASSUME Exclusive
    PROVE  Spec => []NothingLeftBehind
<1>1. SettledInv => NothingLeftBehind
  BY DEF SettledInv, Told, Free, NameTaken, Present, NothingLeftBehind
<1> QED
  BY <1>1, SettledAlways, PTL

=============================================================================
