------------------------ MODULE KernelRegistry_proofs ------------------------
(***************************************************************************)
(* Proofs about KernelRegistry: for any number of kernels, VMs, jobs and      *)
(* requests, rows and files match, only vouched-for kernels are used, and     *)
(* tests and scans settle.                                                    *)
(***************************************************************************)
EXTENDS KernelRegistry, TLAPS

-----------------------------------------------------------------------------
(* The inductive invariant.                                                *)

\* The kernels that nobody has vouched for.
Unvouched == Registered \ vouched

\* Kernel k is named by a row or by a test.
Named(k) == \/ \E j \in Jobs : test[j].kernel = k \/ job[j].kernel = k
            \/ \E v \in VMs : vm[v].kernel = k

Claiming == {"fetch", "register"}
Deleting == {"select", "count", "drop_jobs", "drop_row", "drop_files"}

\* A handler past its first look has what it needs.  A kernel that is being added is known
\* to its handler only; one whose row is about to be removed has no directory unless that
\* is its path; a kernel that will be used or set active has been vouched for.
HandlerOK(g) ==
    /\ g.pc \in Claiming \cup Deleting \cup {"update", "create", "enqueue"} => g.kernel \in Kernels
    /\ g.pc \in {"look", "flag"} \/ (g.pc \in Claiming /\ g.scan # NoId) =>
         g.scan \in Jobs /\ g.url \in URLs /\ items[g.scan][g.url] # "none"
    /\ g.pc \in Claiming => g.kernel \in files \ Registered /\ ~Named(g.kernel)
    /\ g.pc = "update" => /\ g.status # "none"
                          /\ g.status = "active" => g.kernel \notin Unvouched
    /\ g.pc = "create" => g.kernel \notin Unvouched
    /\ g.pc \in Deleting => g.path = g.kernel \/ (g.path = Configured /\ g.kernel \notin files)
    /\ g.pc = "drop_files" => g.kernel \notin Registered

Handlers ==
    /\ \A r \in Requests : HandlerOK(req[r])
    /\ \A r, q \in Requests : r # q /\ req[r].pc \in Claiming => req[q].kernel # req[r].kernel

\* A directory belongs to a row, to a handler or to what was left behind.
FilesOK ==
    /\ \A k \in Registered : k \in files <=> kernel[k].source # "configured"
    /\ files \subseteq cut \cup Registered \cup InHand

VouchedFor ==
    /\ \A k \in Unvouched : kernel[k].status # "active"
    /\ \A v \in VMs : vm[v].job = NoId => vm[v].kernel \notin Unvouched

\* A test is about its job's kernel; one that has won has vouched for it.
TestOK(j) ==
    /\ test[j].pc \notin {"idle", "mark"} =>
         test[j].kernel \in Kernels /\ job[j].kernel \in {NoId, test[j].kernel}
    /\ test[j].pc \in {"boot", "cleanup"} => test[j].vm \in VMs
    /\ test[j].pc \in {"mark", "resolve", "insert", "boot"} => ~test[j].won
    /\ test[j].pc \in {"save_won", "set_active"} \/ (test[j].pc = "cleanup" /\ test[j].won) =>
         test[j].kernel \notin Unvouched
    /\ test[j].pc = "set_active" => job[j].status \in {"none", "succeeded"}
    /\ job[j].status = "succeeded" => job[j].kernel \notin Unvouched
    /\ j \in cut \/ (test[j].pc = "idle" => job[j].status \in {"none", "succeeded", "failed"})
    /\ j \in cut \/ \A v \in VMs : vm[v].job = j => test[j].pc \in {"boot", "cleanup"} /\ test[j].vm = v

Tests == \A j \in Jobs : TestOK(j)

NoItems(s) == \A u \in URLs : items[s][u] = "none"

\* A scan has no items before it has replaced them.
FindOK(s) ==
    /\ finder[s].pc \in {"lock", "list", "replace"} => NoItems(s)
    /\ finder[s].pc # "end" => ~finder[s].won
    /\ finder[s].pc = "replace" => finder[s].found # {}
    /\ finder[s].pc = "end" => (finder[s].won <=> ~NoItems(s))
    /\ finder[s].pc # "idle" => scan[s] \in {"queued", "running"}
    /\ scan[s] = "none" => NoItems(s)
    /\ s \in cut \/ (finder[s].pc = "idle" =>
                       \/ scan[s] = "none"
                       \/ scan[s] = "succeeded" /\ ~NoItems(s)
                       \/ scan[s] = "failed" /\ NoItems(s))

Finders == \A s \in Jobs : FindOK(s)

IInv == TypeOK /\ Handlers /\ FilesOK /\ VouchedFor /\ Tests /\ Finders

-----------------------------------------------------------------------------
(* Frames.                                                                 *)

Frame(pc, k, path, status, url, scn) ==
    [pc |-> pc, kernel |-> k, path |-> path, status |-> status, url |-> url, scan |-> scn]

\* A record with one field changed.
SetPc(f, x) == [f EXCEPT !.pc = x]
SetKernel(f, x) == [f EXCEPT !.kernel = x]
SetPath(f, x) == [f EXCEPT !.path = x]
SetStatus(f, x) == [f EXCEPT !.status = x]
SetSource(f, x) == [f EXCEPT !.source = x]
SetUrl(f, x) == [f EXCEPT !.url = x]
SetScan(f, x) == [f EXCEPT !.scan = x]
SetVM(f, x) == [f EXCEPT !.vm = x]
SetWon(f, x) == [f EXCEPT !.won = x]

LEMMA FrameFields ==
  ASSUME NEW pc, NEW k, NEW p, NEW st, NEW u, NEW s
  PROVE  \A x : /\ SetPc(Frame(pc, k, p, st, u, s), x) = Frame(x, k, p, st, u, s)
                /\ SetKernel(Frame(pc, k, p, st, u, s), x) = Frame(pc, x, p, st, u, s)
                /\ SetPath(Frame(pc, k, p, st, u, s), x) = Frame(pc, k, x, st, u, s)
                /\ SetStatus(Frame(pc, k, p, st, u, s), x) = Frame(pc, k, p, x, u, s)
                /\ SetUrl(Frame(pc, k, p, st, u, s), x) = Frame(pc, k, p, st, x, s)
                /\ SetScan(Frame(pc, k, p, st, u, s), x) = Frame(pc, k, p, st, u, x)
BY DEF Frame, SetPc, SetKernel, SetPath, SetStatus, SetUrl, SetScan

LEMMA IdleFrame == IdleReq = Frame("idle", NoId, NoId, "none", NoId, NoId)
BY DEF IdleReq, Frame

\* The frames of handlers that arrive.
LEMMA AddFrame ==
  ASSUME NEW r, NEW k, NEW u
  PROVE  Adding(r, k, u) = Frame("fetch", k, NoId, "none", u, NoId)
<1>1. Adding(r, k, u) = SetUrl(SetKernel(SetPc(IdleReq, "fetch"), k), u)
  BY DEF Adding, SetUrl, SetKernel, SetPc
<1> QED
  BY <1>1, IdleFrame, FrameFields

LEMMA LookFrame ==
  ASSUME NEW u, NEW s
  PROVE  [IdleReq EXCEPT !.pc = "look", !.url = u, !.scan = s]
           = Frame("look", NoId, NoId, "none", u, s)
<1>1. [IdleReq EXCEPT !.pc = "look", !.url = u, !.scan = s]
        = SetScan(SetUrl(SetPc(IdleReq, "look"), u), s)
  BY DEF SetPc, SetScan, SetUrl
<1> QED
  BY <1>1, IdleFrame, FrameFields

LEMMA UpdateFrame ==
  ASSUME NEW k, NEW s
  PROVE  [IdleReq EXCEPT !.pc = "update", !.kernel = k, !.status = s]
           = Frame("update", k, NoId, s, NoId, NoId)
<1>1. [IdleReq EXCEPT !.pc = "update", !.kernel = k, !.status = s]
        = SetStatus(SetKernel(SetPc(IdleReq, "update"), k), s)
  BY DEF SetKernel, SetPc, SetStatus
<1> QED
  BY <1>1, IdleFrame, FrameFields

LEMMA EnqueueFrame ==
  ASSUME NEW k
  PROVE  [IdleReq EXCEPT !.pc = "enqueue", !.kernel = k]
           = Frame("enqueue", k, NoId, "none", NoId, NoId)
<1>1. [IdleReq EXCEPT !.pc = "enqueue", !.kernel = k]
        = SetKernel(SetPc(IdleReq, "enqueue"), k)
  BY DEF SetKernel, SetPc
<1> QED
  BY <1>1, IdleFrame, FrameFields

LEMMA HoldFrame ==
  ASSUME NEW pc, NEW k
  PROVE  Holding(pc, k) = Frame(pc, k, Path(k), "none", NoId, NoId)
<1>1. Holding(pc, k) = SetPath(SetKernel(SetPc(IdleReq, pc), k), Path(k))
  BY DEF Holding, SetPath, SetKernel, SetPc
<1> QED
  BY <1>1, IdleFrame, FrameFields

\* A handler that goes on.
LEMMA OldFrame ==
  ASSUME NEW f \in ReqFrame
  PROVE  /\ f = Frame(f.pc, f.kernel, f.path, f.status, f.url, f.scan)
         /\ \A pc : [f EXCEPT !.pc = pc] = Frame(pc, f.kernel, f.path, f.status, f.url, f.scan)
         /\ \A pc, k : [f EXCEPT !.pc = pc, !.kernel = k]
                         = Frame(pc, k, f.path, f.status, f.url, f.scan)
<1>1. f = Frame(f.pc, f.kernel, f.path, f.status, f.url, f.scan)
  BY DEF Frame, ReqFrame
<1>2. \A pc : [f EXCEPT !.pc = pc] = Frame(pc, f.kernel, f.path, f.status, f.url, f.scan)
  BY DEF Frame, ReqFrame
<1>3. ASSUME NEW pc, NEW k
      PROVE  [f EXCEPT !.pc = pc, !.kernel = k] = Frame(pc, k, f.path, f.status, f.url, f.scan)
  <2>1. [f EXCEPT !.pc = pc, !.kernel = k] = SetKernel(SetPc(f, pc), k)
    BY DEF SetKernel, SetPc
  <2>2. SetPc(f, pc) = Frame(pc, f.kernel, f.path, f.status, f.url, f.scan)
    BY <1>2 DEF SetPc
  <2> QED
    BY <2>1, <2>2, FrameFields
<1> QED
  BY <1>1, <1>2, <1>3

\* The frames of tests.
TFrame(pc, k, v, path, won) == [pc |-> pc, kernel |-> k, vm |-> v, path |-> path, won |-> won]

LEMMA TestFields ==
  ASSUME NEW pc, NEW k, NEW v, NEW p, NEW w
  PROVE  \A x : /\ SetKernel(TFrame(pc, k, v, p, w), x) = TFrame(pc, x, v, p, w)
                /\ SetVM(TFrame(pc, k, v, p, w), x) = TFrame(pc, k, x, p, w)
                /\ SetPath(TFrame(pc, k, v, p, w), x) = TFrame(pc, k, v, x, w)
                /\ SetWon(TFrame(pc, k, v, p, w), x) = TFrame(pc, k, v, p, x)
BY DEF TFrame, SetKernel, SetVM, SetPath, SetWon

LEMMA OldTest ==
  ASSUME NEW f \in TestFrame
  PROVE  /\ \A pc : [f EXCEPT !.pc = pc] = TFrame(pc, f.kernel, f.vm, f.path, f.won)
         /\ \A pc, x : [f EXCEPT !.pc = pc, !.kernel = x] = TFrame(pc, x, f.vm, f.path, f.won)
         /\ \A pc, x : [f EXCEPT !.pc = pc, !.path = x] = TFrame(pc, f.kernel, f.vm, x, f.won)
         /\ \A pc, x : [f EXCEPT !.pc = pc, !.vm = x] = TFrame(pc, f.kernel, x, f.path, f.won)
         /\ \A pc, x : [f EXCEPT !.pc = pc, !.won = x] = TFrame(pc, f.kernel, f.vm, f.path, x)
<1>1. \A pc : [f EXCEPT !.pc = pc] = TFrame(pc, f.kernel, f.vm, f.path, f.won)
  BY DEF TFrame, TestFrame
<1>2. ASSUME NEW pc, NEW x
      PROVE  /\ [f EXCEPT !.pc = pc, !.kernel = x] = TFrame(pc, x, f.vm, f.path, f.won)
             /\ [f EXCEPT !.pc = pc, !.path = x] = TFrame(pc, f.kernel, f.vm, x, f.won)
             /\ [f EXCEPT !.pc = pc, !.vm = x] = TFrame(pc, f.kernel, x, f.path, f.won)
             /\ [f EXCEPT !.pc = pc, !.won = x] = TFrame(pc, f.kernel, f.vm, f.path, x)
  <2>1. /\ [f EXCEPT !.pc = pc, !.kernel = x] = SetKernel(SetPc(f, pc), x)
        /\ [f EXCEPT !.pc = pc, !.path = x] = SetPath(SetPc(f, pc), x)
        /\ [f EXCEPT !.pc = pc, !.vm = x] = SetVM(SetPc(f, pc), x)
        /\ [f EXCEPT !.pc = pc, !.won = x] = SetWon(SetPc(f, pc), x)
    BY DEF SetKernel, SetPath, SetPc, SetVM, SetWon
  <2>2. SetPc(f, pc) = TFrame(pc, f.kernel, f.vm, f.path, f.won)
    BY <1>1 DEF SetPc
  <2> QED
    BY <2>1, <2>2, TestFields
<1> QED
  BY <1>1, <1>2

-----------------------------------------------------------------------------
(* The first start of the daemon.                                           *)

LEMMA InitInv == Init => IInv
<1> SUFFICES ASSUME Init PROVE IInv
  OBVIOUS
<1>1. PICK S \in SUBSET Kernels :
        /\ kernel = [k \in Kernels |-> IF k \in S THEN [NoKernel EXCEPT !.status = "active",
                                                                       !.source = "configured"]
                                      ELSE NoKernel]
        /\ vouched = S
  BY DEF Init
<1> DEFINE conf == [status |-> "active", source |-> "configured", url |-> NoId]
<1>2. [NoKernel EXCEPT !.status = "active", !.source = "configured"] = conf
  <2>1. SetStatus(NoKernel, "active") = [status |-> "active", source |-> "upload", url |-> NoId]
    BY DEF NoKernel, SetStatus
  <2>2. SetSource([status |-> "active", source |-> "upload", url |-> NoId], "configured") = conf
    BY DEF SetSource
  <2>3. [NoKernel EXCEPT !.status = "active", !.source = "configured"]
          = SetSource(SetStatus(NoKernel, "active"), "configured")
    BY DEF SetSource, SetStatus
  <2> QED
    BY <2>1, <2>2, <2>3
<1>3. /\ kernel \in [Kernels -> KernelRow]
      /\ \A k \in Kernels : IF k \in S THEN kernel[k] = conf ELSE kernel[k] = NoKernel
  BY <1>1, <1>2 DEF NoKernel, KernelRow, KernelStatus
<1>4. TypeOK
  <2>1. NoVM \in VMRow /\ NoJob \in JobRow /\ IdleTest \in TestFrame /\ IdleFind \in FindFrame
        /\ IdleReq \in ReqFrame /\ 0 \in 0..MaxCrashes
    BY KernelAssumption DEF NoVM, VMRow, NoJob, JobRow, IdleTest, TestFrame, IdleFind, FindFrame,
         IdleReq, ReqFrame
  <2>2. \A j \in Jobs : job[j] = NoJob
    BY DEF Init
  <2> QED
    BY <1>1, <1>3, <2>1, <2>2 DEF Init, TypeOK, NoJob
<1>5. Registered = S /\ Unvouched = {}
  BY <1>1, <1>3 DEF Registered, Unvouched, NoKernel
<1>6. Handlers
  BY DEF Init, Handlers, HandlerOK, IdleReq, Claiming, Deleting
<1>7. FilesOK
  BY <1>3, <1>5 DEF Init, FilesOK
<1>8. VouchedFor /\ Tests
  BY <1>5, KernelAssumption DEF Init, VouchedFor, Tests, TestOK, IdleTest, NoJob, NoVM
<1>9. Finders
  BY DEF Init, Finders, FindOK, NoItems, IdleFind
<1> QED
  BY <1>4, <1>6, <1>7, <1>8, <1>9 DEF IInv

-----------------------------------------------------------------------------
(* What a step must show of what it touches.                                *)

\* A handler that does not move: what others may do to what it relies on.
LEMMA HandlerKept ==
  ASSUME IInv, NEW q \in Requests, UNCHANGED req[q],
         \A k \in Kernels : k = req[q].kernel =>
           /\ k \in Registered' => k \in Registered
           /\ k \in Unvouched' => k \in Unvouched
           /\ k \in files' => k \in files
           /\ req[q].pc \in Claiming => k \in files' /\ ~Named(k)',
         \A s \in Jobs, u \in URLs : items[s][u] # "none" => items'[s][u] # "none"
  PROVE  HandlerOK(req[q])'
<1>1. HandlerOK(req[q])
  BY DEF IInv, Handlers
<1> QED
  BY <1>1 DEF HandlerOK, Claiming, Deleting

\* The step of handler r, to frame g.
LEMMA HandlersStep ==
  ASSUME IInv, NEW r \in Requests, NEW g \in ReqFrame, req' = [req EXCEPT ![r] = g],
         HandlerOK(g)', \A q \in Requests \ {r} : HandlerOK(req[q])',
         \A q \in Requests \ {r} :
           g.kernel = req[q].kernel => req[q].pc \notin Claiming /\ g.pc \notin Claiming
  PROVE  Handlers'
<1>1. req'[r] = g /\ \A q \in Requests \ {r} : req'[q] = req[q]
  BY DEF IInv, TypeOK
<1>2. ASSUME NEW q \in Requests PROVE HandlerOK(req[q])'
  BY <1>1 DEF HandlerOK
<1>3. ASSUME NEW p \in Requests, NEW q \in Requests, p # q, req'[p].pc \in Claiming
      PROVE  req'[q].kernel # req'[p].kernel
  BY <1>1, <1>3 DEF IInv, Handlers
<1> QED
  BY <1>2, <1>3 DEF Handlers

LEMMA FilesApart ==
  ASSUME IInv, UNCHANGED <<kernel, files>>, cut \ Jobs \subseteq cut',
         \A k \in InHand : k \in files => k \in InHand' \cup cut' \cup Registered
  PROVE  FilesOK'
<1>1. cut \cap Kernels \subseteq cut'
  BY KernelAssumption
<1>2. files \subseteq Kernels
  BY DEF IInv, TypeOK
<1> QED
  BY <1>1, <1>2 DEF IInv, FilesOK, Registered

\* Kernels change, and who vouches for them.
LEMMA VouchedApart ==
  ASSUME IInv, UNCHANGED vm,
         \A k \in Unvouched' : kernel'[k].status # "active" /\ (k \in Unvouched \/ ~Named(k))
  PROVE  VouchedFor'
BY DEF IInv, VouchedFor, Named

LEMMA TestsApart ==
  ASSUME IInv, UNCHANGED <<vm, job, test>>, cut \cap Jobs \subseteq cut',
         \A k \in Unvouched' : k \in Unvouched \/ ~Named(k)
  PROVE  Tests'
<1> SUFFICES ASSUME NEW j \in Jobs PROVE TestOK(j)'
  BY DEF Tests
<1>1. TestOK(j)
  BY DEF IInv, Tests
<1> QED
  BY <1>1 DEF TestOK, Named

LEMMA FindersApart ==
  ASSUME IInv, UNCHANGED <<scan, finder>>, cut \cap Jobs \subseteq cut',
         \A s \in Jobs, u \in URLs : items[s][u] = "none" <=> items'[s][u] = "none"
  PROVE  Finders'
<1> SUFFICES ASSUME NEW s \in Jobs PROVE FindOK(s)'
  BY DEF Finders
<1>1. FindOK(s) /\ (NoItems(s)' <=> NoItems(s))
  BY DEF IInv, Finders, NoItems
<1> QED
  BY <1>1 DEF FindOK

-----------------------------------------------------------------------------
(* Steps of handlers that change nothing but their frame.                   *)

LEMMA InHandOf == \A k : k \in InHand <=> \E q \in Requests : req[q].pc \in Claiming \cup {"drop_files"} /\ req[q].kernel = k
BY DEF InHand, Claiming

\* What handler r holds in hand, it goes on to hold, or someone else answers for it.
LEMMA InHandStep ==
  ASSUME IInv, NEW r \in Requests, NEW g \in ReqFrame, req' = [req EXCEPT ![r] = g],
         NEW k \in InHand,
         k = req[r].kernel /\ req[r].pc \in Claiming \cup {"drop_files"} =>
           g.pc \in Claiming \cup {"drop_files"} /\ g.kernel = k
  PROVE  k \in InHand'
<1>1. req'[r] = g /\ \A q \in Requests \ {r} : req'[q] = req[q]
  BY DEF IInv, TypeOK
<1>2. PICK q \in Requests : req[q].pc \in Claiming \cup {"drop_files"} /\ req[q].kernel = k
  BY InHandOf
<1>3. req'[q].pc \in Claiming \cup {"drop_files"} /\ req'[q].kernel = k
  BY <1>1, <1>2
<1> QED
  BY <1>3 DEF InHand, Claiming

LEMMA HandlerOnly ==
  ASSUME IInv, NEW r \in Requests, NEW g \in ReqFrame, req' = [req EXCEPT ![r] = g], HandlerOK(g),
         UNCHANGED <<kernel, files, testing, scanning, items, crashes, vouched, cut>>,
         \A q \in Requests \ {r} :
           g.kernel = req[q].kernel => req[q].pc \notin Claiming /\ g.pc \notin Claiming,
         req[r].pc \in Claiming \cup {"drop_files"} =>
           g.pc \in Claiming \cup {"drop_files"} /\ g.kernel = req[r].kernel
  PROVE  IInv'
<1>1. TypeOK'
  BY DEF IInv, TypeOK, testing, scanning
<1>2. /\ Registered' = Registered /\ Unvouched' = Unvouched
      /\ \A k : Named(k)' = Named(k)
  BY DEF Registered, Unvouched, Named, testing
<1>3. HandlerOK(g)'
  BY <1>2 DEF HandlerOK
<1>4. ASSUME NEW q \in Requests \ {r} PROVE HandlerOK(req[q])'
  <2>1. UNCHANGED req[q] /\ HandlerOK(req[q])
    BY DEF IInv, TypeOK, Handlers
  <2> QED
    BY <1>2, <2>1 DEF HandlerOK
<1>5. Handlers'
  BY <1>3, <1>4, HandlersStep
<1>6. FilesOK'
  BY InHandStep, FilesApart
<1>7. VouchedFor'
  BY <1>2 DEF IInv, VouchedFor, testing
<1>8. Tests'
  BY <1>2, TestsApart DEF testing
<1>9. Finders'
  BY FindersApart DEF scanning
<1> QED
  BY <1>1, <1>5, <1>6, <1>7, <1>8, <1>9 DEF IInv

\* Its frame is idle in the end.
LEMMA IdleOK == IdleReq \in ReqFrame /\ HandlerOK(IdleReq) /\ IdleReq.pc = "idle" /\ IdleReq.kernel = NoId
BY DEF IdleReq, ReqFrame, HandlerOK, Claiming, Deleting

\* What the handlers know.
LEMMA Known ==
  ASSUME IInv, NEW r \in Requests
  PROVE  /\ req[r] \in ReqFrame /\ HandlerOK(req[r])
         /\ \A q \in Requests \ {r} : req[q].pc \in Claiming => req[r].kernel # req[q].kernel
         /\ \A q \in Requests \ {r} : req[r].pc \in Claiming => req[r].kernel # req[q].kernel
         /\ \A q \in Requests : req[q].pc \in Claiming => req[q].kernel \notin Registered \cup {NoId}
<1>1. req[r] \in ReqFrame /\ HandlerOK(req[r])
  BY DEF IInv, TypeOK, Handlers
<1>2. \A q \in Requests : req[q].pc \in Claiming => req[q].kernel \notin Registered \cup {NoId}
  BY KernelAssumption DEF IInv, Handlers, HandlerOK
<1> QED
  BY <1>1, <1>2 DEF IInv, Handlers

\* A handler that returns with nothing in hand.
LEMMA FinishOnly ==
  ASSUME IInv, NEW r \in Requests, Finish(r), req[r].pc \notin Claiming \cup {"drop_files"},
         UNCHANGED <<kernel, files, testing, scanning, items, crashes, vouched, cut>>
  PROVE  IInv'
<1>1. \A q \in Requests \ {r} : IdleReq.kernel = req[q].kernel => req[q].pc \notin Claiming
  BY IdleOK, Known
<1>2. IdleReq.pc \notin Claiming
  BY IdleOK DEF Claiming
<1> QED
  BY <1>1, <1>2, IdleOK, HandlerOnly DEF Finish

\* A handler that arrives with frame g, for a registered kernel or for none.
LEMMA ArriveInv ==
  ASSUME IInv, NEW r \in Requests, NEW g \in ReqFrame, Arrive(r, g), HandlerOK(g),
         g.kernel \in Registered \cup {NoId}, g.pc \notin Claiming,
         UNCHANGED <<kernel, files, testing, scanning, items, crashes, vouched, cut>>
  PROVE  IInv'
<1>1. req[r].pc \notin Claiming \cup {"drop_files"} /\ req' = [req EXCEPT ![r] = g]
  BY DEF Arrive, Claiming
<1>2. \A q \in Requests \ {r} : g.kernel = req[q].kernel => req[q].pc \notin Claiming
  BY Known
<1> QED
  BY <1>1, <1>2, HandlerOnly

\* A handler that reads a row and goes on with it.
LEMMA HoldInv ==
  ASSUME IInv, NEW r \in Requests, NEW k \in Registered, NEW pc \in {"select", "create"},
         pc = "create" => kernel[k].status = "active", Arrive(r, Holding(pc, k)),
         UNCHANGED <<kernel, files, testing, scanning, items, crashes, vouched, cut>>
  PROVE  IInv'
<1> DEFINE g == Frame(pc, k, Path(k), "none", NoId, NoId)
<1>1. Holding(pc, k) = g
  BY HoldFrame
<1>2. k \in Kernels
  BY DEF Registered
<1>3. g \in ReqFrame
  BY <1>2 DEF Frame, ReqFrame, Path
<1>4. HandlerOK(g)
  BY <1>2 DEF IInv, HandlerOK, Frame, Path, FilesOK, VouchedFor, Claiming, Deleting
<1>5. g.kernel = k /\ g.pc = pc
  BY DEF Frame
<1> QED
  BY <1>1, <1>3, <1>4, <1>5, ArriveInv DEF Claiming

LEMMA ArrivalsInv ==
  ASSUME IInv, NEW r \in Requests,
         ItemArrive(r) \/ UpdateArrive(r) \/ DeleteArrive(r) \/ CreateArrive(r) \/ TestArrive(r)
  PROVE  IInv'
<1>1. CASE ItemArrive(r)
  <2>1. PICK s \in Jobs, u \in URLs :
          /\ items[s][u] = "new"
          /\ Arrive(r, [IdleReq EXCEPT !.pc = "look", !.url = u, !.scan = s])
    BY <1>1 DEF ItemArrive
  <2> DEFINE g == Frame("look", NoId, NoId, "none", u, s)
  <2>2. Arrive(r, g)
    BY <2>1, LookFrame
  <2>3. g \in ReqFrame
    BY DEF Frame, ReqFrame
  <2>4. HandlerOK(g)
    BY <2>1 DEF Frame, HandlerOK, Claiming, Deleting
  <2>5. g.kernel = NoId /\ g.pc = "look"
    BY DEF Frame
  <2> QED
    BY <1>1, <2>2, <2>3, <2>4, <2>5, ArriveInv DEF ItemArrive, Claiming
<1>2. CASE UpdateArrive(r)
  <2>1. PICK k \in Registered :
          Arrive(r, [IdleReq EXCEPT !.pc = "update", !.kernel = k, !.status = kernel[k].status])
    BY <1>2 DEF UpdateArrive
  <2> DEFINE g == Frame("update", k, NoId, kernel[k].status, NoId, NoId)
  <2>2. Arrive(r, g)
    BY <2>1, UpdateFrame
  <2>3. k \in Kernels /\ kernel[k] \in KernelRow /\ kernel[k].status # "none"
    BY DEF Registered, IInv, TypeOK
  <2>4. g \in ReqFrame
    BY <2>3 DEF Frame, ReqFrame, KernelRow
  <2>5. HandlerOK(g)
    BY <2>3 DEF IInv, VouchedFor, Frame, HandlerOK, Claiming, Deleting
  <2>6. g.kernel = k /\ g.pc = "update"
    BY DEF Frame
  <2> QED
    BY <1>2, <2>2, <2>4, <2>5, <2>6, ArriveInv DEF UpdateArrive, Claiming
<1>3. CASE DeleteArrive(r)
  BY <1>3, HoldInv DEF DeleteArrive
<1>4. CASE CreateArrive(r)
  BY <1>4, HoldInv DEF CreateArrive, Offered
<1>5. CASE TestArrive(r)
  <2>1. PICK k \in Registered : Arrive(r, [IdleReq EXCEPT !.pc = "enqueue", !.kernel = k])
    BY <1>5 DEF TestArrive
  <2> DEFINE g == Frame("enqueue", k, NoId, "none", NoId, NoId)
  <2>2. Arrive(r, g)
    BY <2>1, EnqueueFrame
  <2>3. g \in ReqFrame /\ HandlerOK(g)
    BY DEF Frame, ReqFrame, HandlerOK, Claiming, Deleting, Registered
  <2>4. g.kernel = k /\ g.pc = "enqueue"
    BY DEF Frame
  <2> QED
    BY <1>5, <2>2, <2>3, <2>4, ArriveInv DEF TestArrive, Claiming
<1> QED
  BY <1>1, <1>2, <1>3, <1>4, <1>5

\* A handler that goes on with its frame.
LEMMA GotoInv ==
  ASSUME IInv, NEW r \in Requests, NEW pc, Goto(r, pc),
         Frame(pc, req[r].kernel, req[r].path, req[r].status, req[r].url, req[r].scan)
           \in ReqFrame,
         HandlerOK(Frame(pc, req[r].kernel, req[r].path, req[r].status, req[r].url, req[r].scan)),
         pc \in Claiming => req[r].pc \in Claiming,
         req[r].pc \in Claiming \cup {"drop_files"} => pc \in Claiming \cup {"drop_files"},
         UNCHANGED <<kernel, files, testing, scanning, items, crashes, vouched, cut>>
  PROVE  IInv'
<1> DEFINE f == req[r]
           g == Frame(pc, f.kernel, f.path, f.status, f.url, f.scan)
<1>1. f \in ReqFrame /\ HandlerOK(f)
  BY Known
<1>2. req' = [req EXCEPT ![r] = g]
  BY <1>1, OldFrame DEF Goto
<1>3. g.kernel = f.kernel /\ g.pc = pc
  BY DEF Frame
<1>4. \A q \in Requests \ {r} : g.kernel = req[q].kernel => req[q].pc \notin Claiming /\ g.pc \notin Claiming
  BY <1>3, Known
<1>5. req[r].pc \in Claiming \cup {"drop_files"} =>
        g.pc \in Claiming \cup {"drop_files"} /\ g.kernel = req[r].kernel
  BY <1>3
<1>6. g \in ReqFrame /\ HandlerOK(g)
  OBVIOUS
<1> HIDE DEF f, g
<1> QED
  BY <1>2, <1>4, <1>5, <1>6, HandlerOnly

LEMMA MovesInv ==
  ASSUME IInv, NEW r \in Requests, Fetch(r) \/ DeleteSelect(r) \/ DeleteCount(r)
  PROVE  IInv'
<1> DEFINE f == req[r]
           G(pc) == Frame(pc, f.kernel, f.path, f.status, f.url, f.scan)
<1>1. f \in ReqFrame /\ HandlerOK(f)
  BY Known
<1>2. \A pc \in {"register", "count", "drop_files", "drop_jobs"} : G(pc) \in ReqFrame
  BY <1>1 DEF ReqFrame, Frame
<1>3. CASE Fetch(r)
  <2>1. HandlerOK(G("register"))
    BY <1>1, <1>3 DEF Fetch, HandlerOK, Frame, Claiming, Deleting
  <2> QED
    BY <1>2, <1>3, <2>1, GotoInv DEF Fetch, Claiming
<1>4. CASE DeleteSelect(r)
  <2>1. HandlerOK(G("count"))
    BY <1>1, <1>4 DEF DeleteSelect, HandlerOK, Frame, Claiming, Deleting
  <2>2. f.kernel \notin Registered => HandlerOK(G("drop_files"))
    BY <1>1, <1>4 DEF DeleteSelect, HandlerOK, Frame, Claiming, Deleting
  <2>3. CASE f.kernel \in Registered
    BY <1>2, <1>4, <2>1, <2>3, GotoInv DEF DeleteSelect, Claiming
  <2>4. CASE f.kernel \notin Registered
    BY <1>2, <1>4, <2>2, <2>4, GotoInv DEF DeleteSelect, Claiming
  <2> QED
    BY <2>3, <2>4
<1>5. CASE DeleteCount(r)
  <2>1. HandlerOK(G("drop_jobs"))
    BY <1>1, <1>5 DEF DeleteCount, HandlerOK, Frame, Claiming, Deleting
  <2>2. CASE Goto(r, "drop_jobs")
    BY <1>2, <1>5, <2>1, <2>2, GotoInv DEF DeleteCount, Claiming
  <2>3. CASE Finish(r)
    BY <1>5, <2>3, FinishOnly DEF DeleteCount, Claiming
  <2> QED
    BY <1>5, <2>2, <2>3 DEF DeleteCount
<1> QED
  BY <1>3, <1>4, <1>5

-----------------------------------------------------------------------------
(* Uploads and imports.                                                     *)

\* A handler with frame g has made the directory of kernel k.
LEMMA ClaimInv ==
  ASSUME IInv, NEW r \in Requests, NEW k \in NewKernel, NEW g \in ReqFrame,
         req' = [req EXCEPT ![r] = g], g.pc = "fetch", g.kernel = k,
         g.scan # NoId => g.scan \in Jobs /\ g.url \in URLs /\ items[g.scan][g.url] # "none",
         req[r].pc \notin Claiming \cup {"drop_files"}, files' = files \cup {k},
         UNCHANGED <<kernel, testing, scanning, items, crashes, vouched, cut>>
  PROVE  IInv'
<1>1. /\ k \in Kernels /\ k \notin Registered /\ k \notin files /\ ~Named(k)
      /\ \A q \in Requests : req[q].kernel # k
  BY DEF NewKernel, Named
<1>2. TypeOK'
  BY <1>1 DEF IInv, TypeOK, testing, scanning
<1>3. /\ Registered' = Registered /\ Unvouched' = Unvouched
      /\ \A x : Named(x)' = Named(x)
  BY DEF Registered, Unvouched, Named, testing
<1>4. HandlerOK(g)'
  BY <1>1, <1>3 DEF HandlerOK, Claiming, Deleting
<1>5. ASSUME NEW q \in Requests \ {r} PROVE HandlerOK(req[q])'
  <2>1. UNCHANGED req[q] /\ HandlerOK(req[q])
    BY DEF IInv, TypeOK, Handlers
  <2> QED
    BY <1>1, <1>3, <2>1 DEF HandlerOK
<1>6. Handlers'
  <2>1. \A q \in Requests \ {r} :
          g.kernel = req[q].kernel => req[q].pc \notin Claiming /\ g.pc \notin Claiming
    BY <1>1
  <2> QED
    BY <1>4, <1>5, <2>1, HandlersStep
<1>7. FilesOK'
  <2>1. k \in InHand'
    BY DEF InHand, IInv, TypeOK
  <2>2. InHand \subseteq InHand'
    BY InHandStep
  <2>3. \A x \in Registered' : x \in files' <=> kernel'[x].source # "configured"
    BY <1>1, <1>3 DEF IInv, FilesOK
  <2> QED
    BY <1>3, <2>1, <2>2, <2>3 DEF IInv, FilesOK
<1>8. VouchedFor'
  BY <1>3 DEF IInv, VouchedFor, testing
<1>9. Tests'
  BY <1>3, TestsApart DEF testing
<1>10. Finders'
  BY FindersApart DEF scanning
<1> QED
  BY <1>2, <1>6, <1>7, <1>8, <1>9, <1>10 DEF IInv

LEMMA AddArriveInv == ASSUME IInv, NEW r \in Requests, AddArrive(r) PROVE IInv'
<1>1. PICK k \in NewKernel, u \in URLs \cup {NoId} : Arrive(r, Adding(r, k, u)) /\ files' = files \cup {k}
  BY DEF AddArrive
<1> DEFINE g == Frame("fetch", k, NoId, "none", u, NoId)
<1>2. req[r].pc = "idle" /\ req' = [req EXCEPT ![r] = g]
  BY <1>1, AddFrame DEF Arrive
<1>3. k \in Kernels
  BY DEF NewKernel
<1>4. g \in ReqFrame
  BY <1>3 DEF Frame, ReqFrame
<1>5. g.pc = "fetch" /\ g.kernel = k /\ g.scan = NoId
  BY DEF Frame
<1> QED
  BY <1>1, <1>2, <1>4, <1>5, ClaimInv DEF AddArrive, Claiming

\* An item is marked, and the handler returns.
LEMMA MarkInv ==
  ASSUME IInv, NEW r \in Requests, Finish(r), req[r].pc \in {"look", "flag"},
         items' = [items EXCEPT ![req[r].scan][req[r].url] = "registered"],
         UNCHANGED <<kernel, files, testing, scanning, crashes, vouched, cut>>
  PROVE  IInv'
<1> DEFINE s == req[r].scan
           u == req[r].url
<1>1. s \in Jobs /\ u \in URLs /\ items[s][u] # "none"
  BY Known DEF HandlerOK
<1>2. /\ items' \in [Jobs -> [URLs -> {"none", "new", "registered"}]]
      /\ \A t \in Jobs, x \in URLs : items[t][x] = "none" <=> items'[t][x] = "none"
  BY <1>1 DEF IInv, TypeOK
<1>3. req' = [req EXCEPT ![r] = IdleReq]
  BY DEF Finish
<1>4. TypeOK'
  BY <1>2, <1>3, IdleOK DEF IInv, TypeOK, testing, scanning
<1>5. /\ Registered' = Registered /\ Unvouched' = Unvouched
      /\ \A x : Named(x)' = Named(x)
  BY DEF Registered, Unvouched, Named, testing
<1>6. HandlerOK(IdleReq)'
  BY DEF HandlerOK, IdleReq, Claiming, Deleting
<1>7. ASSUME NEW q \in Requests \ {r} PROVE HandlerOK(req[q])'
  <2>1. UNCHANGED req[q] /\ HandlerOK(req[q])
    BY <1>3 DEF IInv, TypeOK, Handlers
  <2> QED
    BY <1>2, <1>5, <2>1 DEF HandlerOK
<1>8. \A q \in Requests \ {r} : IdleReq.kernel = req[q].kernel => req[q].pc \notin Claiming
  BY IdleOK, Known
<1>9. Handlers'
  BY <1>3, <1>6, <1>7, <1>8, IdleOK, HandlersStep DEF Claiming
<1>10. FilesOK'
  <2>1. InHand \subseteq InHand'
    BY <1>3, IdleOK, InHandStep DEF Claiming
  <2> QED
    BY <2>1, FilesApart
<1>11. VouchedFor'
  BY <1>5 DEF IInv, VouchedFor, testing
<1>12. Tests'
  BY <1>5, TestsApart DEF testing
<1>13. Finders'
  BY <1>2, FindersApart DEF scanning
<1> QED
  BY <1>4, <1>9, <1>10, <1>11, <1>12, <1>13 DEF IInv

LEMMA ImportLookInv == ASSUME IInv, NEW r \in Requests, ImportLook(r) PROVE IInv'
<1> DEFINE f == req[r]
<1>1. f \in ReqFrame /\ HandlerOK(f) /\ f.pc = "look"
  BY Known DEF ImportLook
<1>2. CASE FromURL(f.url) # {}
  BY <1>1, <1>2, MarkInv DEF ImportLook
<1>3. CASE FromURL(f.url) = {}
  <2>1. PICK k \in NewKernel : /\ req' = [req EXCEPT ![r].pc = "fetch", ![r].kernel = k]
                               /\ files' = files \cup {k}
    BY <1>3 DEF ImportLook
  <2> DEFINE g == Frame("fetch", k, f.path, f.status, f.url, f.scan)
  <2>2. req' = [req EXCEPT ![r] = g]
    <3>1. [f EXCEPT !.pc = "fetch", !.kernel = k] = g
      BY <1>1, OldFrame
    <3>2. req' = [req EXCEPT ![r] = [f EXCEPT !.pc = "fetch", !.kernel = k]]
      <4>1. req' = [[req EXCEPT ![r] = SetPc(req[r], "fetch")]
                      EXCEPT ![r] = SetKernel([req EXCEPT ![r] = SetPc(req[r], "fetch")][r], k)]
        BY <2>1 DEF SetPc, SetKernel
      <4>2. req' = [req EXCEPT ![r] = SetKernel(SetPc(req[r], "fetch"), k)]
        BY <4>1 DEF IInv, TypeOK
      <4> QED
        BY <4>2 DEF SetPc, SetKernel
    <3> QED
      BY <3>1, <3>2
  <2>3. k \in Kernels
    BY DEF NewKernel
  <2>4. g \in ReqFrame
    BY <1>1, <2>3 DEF Frame, ReqFrame
  <2>5. g.pc = "fetch" /\ g.kernel = k /\ g.scan = f.scan /\ g.url = f.url
    BY DEF Frame
  <2>6. f.scan \in Jobs /\ f.url \in URLs /\ items[f.scan][f.url] # "none"
    BY <1>1, <1>3 DEF HandlerOK
  <2>7. req[r].pc \notin Claiming \cup {"drop_files"}
    BY <1>1 DEF Claiming
  <2>8. UNCHANGED <<kernel, testing, scanning, items, crashes, vouched, cut>>
    BY <1>3 DEF ImportLook
  <2>9. g.scan # NoId => g.scan \in Jobs /\ g.url \in URLs /\ items[g.scan][g.url] # "none"
    BY <2>5, <2>6
  <2> HIDE DEF f, g
  <2> QED
    BY <2>1, <2>2, <2>4, <2>5, <2>7, <2>8, <2>9, ClaimInv
<1> QED
  BY <1>2, <1>3

\* The row of kernel k is inserted, and handler r is the only one that knows k.
LEMMA RegisterInv == ASSUME IInv, NEW r \in Requests, Register(r) PROVE IInv'
<1>0. PICK f : f = req[r]
  OBVIOUS
<1> DEFINE k == f.kernel
           source == IF f.url = NoId THEN "upload" ELSE "firecracker-ci"
           g == IF f.scan = NoId THEN IdleReq
                ELSE Frame("flag", f.kernel, f.path, f.status, f.url, f.scan)
           row == [status |-> "pending", source |-> source, url |-> f.url]
<1>1. f \in ReqFrame /\ HandlerOK(f) /\ f.pc = "register"
  BY <1>0, Known DEF Register
<1>2. /\ k \in Kernels /\ k \notin Registered /\ k \in files /\ ~Named(k)
      /\ \A q \in Requests \ {r} : req[q].kernel # k
  BY <1>0, <1>1, Known DEF HandlerOK, Claiming
<1>3. req' = [req EXCEPT ![r] = g]
  BY <1>0, <1>1, OldFrame DEF Register, Finish, Goto
<1>4. /\ kernel' = [kernel EXCEPT ![k] = row] /\ vouched' = vouched \ {k}
      /\ UNCHANGED <<files, testing, scanning, items, crashes, cut>>
  BY <1>0 DEF Register, Inserted
<1>5. g \in ReqFrame
  BY <1>1, IdleOK DEF ReqFrame, Frame
<1>6. row \in KernelRow
  BY <1>1 DEF KernelRow, KernelStatus, ReqFrame
<1>7. TypeOK'
  BY <1>2, <1>3, <1>4, <1>5, <1>6 DEF IInv, TypeOK, testing, scanning
<1>8. kernel'[k] = row /\ \A x \in Kernels \ {k} : kernel'[x] = kernel[x]
  BY <1>2, <1>4 DEF IInv, TypeOK
<1>9. /\ Registered' = Registered \cup {k} /\ Unvouched' = Unvouched \cup {k}
      /\ \A x : Named(x)' = Named(x)
  BY <1>2, <1>4, <1>8 DEF Registered, Unvouched, Named, testing
<1>10. HandlerOK(g)'
  <2>1. HandlerOK(IdleReq)'
    BY DEF HandlerOK, IdleReq, Claiming, Deleting
  <2>2. f.scan # NoId => HandlerOK(Frame("flag", f.kernel, f.path, f.status, f.url, f.scan))'
    BY <1>1, <1>4 DEF HandlerOK, Frame, Claiming, Deleting
  <2> QED
    BY <2>1, <2>2
<1>11. ASSUME NEW q \in Requests \ {r} PROVE HandlerOK(req[q])'
  <2>1. UNCHANGED req[q] /\ req[q].kernel # k
    BY <1>2, <1>3 DEF IInv, TypeOK
  <2>2. HandlerOK(req[q])
    BY Known
  <2>3. req[q].pc \in Claiming => req[q].kernel \in files /\ ~Named(req[q].kernel)
    BY <2>2 DEF HandlerOK
  <2> HIDE DEF k
  <2> QED
    BY <1>4, <1>9, <2>1, <2>3, HandlerKept
<1>12. g.pc \notin Claiming /\ g.kernel \in {k, NoId}
  BY IdleOK DEF Frame, Claiming
<1>13. \A q \in Requests \ {r} : g.kernel = req[q].kernel => req[q].pc \notin Claiming
  BY <1>2, <1>12, Known
<1>14. Handlers'
  <2>1. \A q \in Requests \ {r} :
          g.kernel = req[q].kernel => req[q].pc \notin Claiming /\ g.pc \notin Claiming
    BY <1>12, <1>13
  <2> HIDE DEF g
  <2> QED
    BY <1>3, <1>5, <1>10, <1>11, <2>1, HandlersStep
<1>15. FilesOK'
  <2>1. \A x \in Registered' : x \in files' <=> kernel'[x].source # "configured"
    BY <1>2, <1>4, <1>8, <1>9 DEF IInv, FilesOK
  <2>2. \A x \in InHand : x \in InHand' \cup {k}
    <3> HIDE DEF g
    <3> QED
      BY <1>0, <1>3, <1>5, InHandStep
  <2> QED
    BY <1>4, <1>9, <2>1, <2>2 DEF IInv, FilesOK
<1>16. VouchedFor' /\ Tests'
  <2>1. \A x \in Unvouched' : x \in Unvouched \/ ~Named(x)
    BY <1>2, <1>9
  <2>2. \A x \in Unvouched' : kernel'[x].status # "active"
    BY <1>8, <1>9 DEF IInv, VouchedFor, Unvouched, Registered
  <2>3. UNCHANGED <<vm, job, test>> /\ UNCHANGED cut
    BY <1>4 DEF testing
  <2> QED
    BY <2>1, <2>2, <2>3, VouchedApart, TestsApart
<1>17. Finders'
  BY <1>4, FindersApart DEF scanning
<1> QED
  BY <1>7, <1>14, <1>15, <1>16, <1>17 DEF IInv

LEMMA AddInv == ASSUME IInv, NEW r \in Requests, AddArrive(r) \/ ImportLook(r) \/ Register(r) \/ MarkItem(r) PROVE IInv'
<1>1. CASE MarkItem(r)
  BY <1>1, MarkInv DEF MarkItem
<1> QED
  BY <1>1, AddArriveInv, ImportLookInv, RegisterInv

-----------------------------------------------------------------------------
(* A kernel's status changes.                                               *)

LEMMA SavedKernel ==
  ASSUME IInv, NEW k \in Kernels, NEW status \in KernelStatus, Saved(k, status),
         vouched \subseteq vouched', status = "active" /\ k \in Registered => k \in vouched'
  PROVE  /\ kernel' \in [Kernels -> KernelRow]
         /\ Registered' = Registered /\ Unvouched' \subseteq Unvouched
         /\ \A x \in Kernels : kernel'[x].source = kernel[x].source
         /\ \A x \in Unvouched' : kernel'[x].status # "active"
<1>0. PICK old \in KernelRow : old = kernel[k]
  BY DEF IInv, TypeOK
<1> DEFINE row == [old EXCEPT !.status = status]
<1>1. /\ row \in KernelRow /\ row.status = status
      /\ row.source = kernel[k].source /\ row.url = kernel[k].url
  <2>1. row = [status |-> status, source |-> old.source, url |-> old.url]
    BY DEF KernelRow
  <2> QED
    BY <1>0, <2>1 DEF KernelRow
<1>2. kernel' = IF k \in Registered THEN [kernel EXCEPT ![k] = row] ELSE kernel
  BY <1>0 DEF Saved
<1> HIDE DEF row
<1>3. /\ kernel' \in [Kernels -> KernelRow]
      /\ \A x \in Kernels : IF x = k /\ k \in Registered THEN kernel'[x] = row ELSE kernel'[x] = kernel[x]
  BY <1>1, <1>2 DEF IInv, TypeOK
<1>4. /\ \A x \in Kernels : kernel'[x].source = kernel[x].source /\ kernel'[x].url = kernel[x].url
      /\ \A x \in Kernels : kernel'[x].status = "none" <=> kernel[x].status = "none"
  BY <1>1, <1>3 DEF Registered, KernelStatus
<1>5. Registered' = Registered
  BY <1>4 DEF Registered
<1>6. Unvouched' \subseteq Unvouched
  BY <1>5 DEF Unvouched
<1>7. \A x \in Unvouched' : kernel'[x].status # "active"
  BY <1>1, <1>3, <1>5, <1>6 DEF IInv, VouchedFor, Unvouched, Registered
<1> QED
  BY <1>3, <1>4, <1>5, <1>6, <1>7

\* What a saved status leaves of the invariant.
LEMMA SavedApart ==
  ASSUME IInv, kernel' \in [Kernels -> KernelRow],
         Registered' = Registered, Unvouched' \subseteq Unvouched,
         \A x \in Kernels : kernel'[x].source = kernel[x].source,
         UNCHANGED <<files, items>>, cut \ Jobs \subseteq cut', \A x \in Kernels : Named(x)' => Named(x)
  PROVE  /\ \A q \in Requests : UNCHANGED req[q] => HandlerOK(req[q])'
         /\ InHand \subseteq InHand' => FilesOK'
<1>1. ASSUME NEW q \in Requests, UNCHANGED req[q] PROVE HandlerOK(req[q])'
  <2>1. HandlerOK(req[q])
    BY Known
  <2> QED
    BY <1>1, <2>1 DEF HandlerOK, Claiming
<1>2. InHand \subseteq InHand' => FilesOK'
  <2>1. cut \cap Kernels \subseteq cut' /\ files \subseteq Kernels
    BY KernelAssumption DEF IInv, TypeOK
  <2> QED
    BY <2>1 DEF IInv, FilesOK, Registered
<1> QED
  BY <1>1, <1>2

LEMMA UpdateKernelInv == ASSUME IInv, NEW r \in Requests, UpdateKernel(r) PROVE IInv'
<1> DEFINE k == req[r].kernel
<1>1. req[r] \in ReqFrame /\ HandlerOK(req[r]) /\ req[r].pc = "update" /\ k \in Kernels
  BY Known DEF UpdateKernel, HandlerOK
<1>2. UNCHANGED <<files, testing, scanning, items, crashes, cut>> /\ req' = [req EXCEPT ![r] = IdleReq]
  BY DEF UpdateKernel, Finish
<1>3. PICK status \in KernelStatus : /\ Saved(k, status) /\ vouched' \in {vouched, vouched \cup {k}}
                                     /\ status = "active" /\ k \in Registered => k \in vouched'
  <2>1. req[r].status \in KernelStatus /\ (req[r].status = "active" /\ k \in Registered => k \in vouched)
    BY <1>1 DEF HandlerOK, ReqFrame, Unvouched
  <2> QED
    BY <2>1 DEF UpdateKernel
<1> HIDE DEF k
<1>4. /\ kernel' \in [Kernels -> KernelRow]
      /\ Registered' = Registered /\ Unvouched' \subseteq Unvouched
      /\ \A x \in Kernels : kernel'[x].source = kernel[x].source
      /\ \A x \in Unvouched' : kernel'[x].status # "active"
  BY <1>1, <1>3, SavedKernel
<1>5. TypeOK'
  BY <1>1, <1>2, <1>3, <1>4, IdleOK DEF IInv, TypeOK, testing, scanning
<1>6. \A x : Named(x)' = Named(x)
  BY <1>2 DEF Named, testing
<1>7. HandlerOK(IdleReq)'
  BY DEF HandlerOK, IdleReq, Claiming, Deleting
<1>8. \A q \in Requests \ {r} : UNCHANGED req[q]
  BY <1>2 DEF IInv, TypeOK
<1>9. \A q \in Requests \ {r} : HandlerOK(req[q])'
  BY <1>2, <1>4, <1>6, <1>8, SavedApart
<1>10. \A q \in Requests \ {r} : IdleReq.kernel = req[q].kernel => req[q].pc \notin Claiming
  BY IdleOK, Known
<1>11. Handlers'
  BY <1>2, <1>7, <1>9, <1>10, IdleOK, HandlersStep DEF Claiming
<1>12. FilesOK'
  <2>1. InHand \subseteq InHand'
    BY <1>1, <1>2, IdleOK, InHandStep DEF Claiming
  <2> QED
    BY <1>2, <1>4, <1>6, <2>1, SavedApart
<1>13. VouchedFor' /\ Tests'
  BY <1>2, <1>4, VouchedApart, TestsApart DEF testing
<1>14. Finders'
  BY <1>2, FindersApart DEF scanning
<1> QED
  BY <1>5, <1>11, <1>12, <1>13, <1>14 DEF IInv

-----------------------------------------------------------------------------
(* Deletion.                                                               *)

\* A handler returns with kernel k in hand, which is not registered: the directory goes,
\* or is left behind.
LEMMA DropInv ==
  ASSUME IInv, NEW r \in Requests, Finish(r), NEW k, k = req[r].kernel,
         req[r].pc \in Claiming \cup {"drop_files"},
         files' \in {files, files \ {k}}, cut' \in {cut, cut \cup {k}}, k \in cut' \/ k \notin files',
         UNCHANGED <<kernel, testing, scanning, items, crashes, vouched>>
  PROVE  IInv'
<1>1. /\ k \in Kernels \ Registered /\ req[r] \in ReqFrame
      /\ \A q \in Requests \ {r} : req[q].pc \in Claiming => req[q].kernel # k
  BY Known DEF HandlerOK, Claiming, Deleting
<1>2. req' = [req EXCEPT ![r] = IdleReq]
  BY DEF Finish
<1>3. TypeOK'
  BY <1>1, <1>2, IdleOK DEF IInv, TypeOK, testing, scanning
<1>4. /\ Registered' = Registered /\ Unvouched' = Unvouched
      /\ \A x : Named(x)' = Named(x)
  BY DEF Registered, Unvouched, Named, testing
<1>5. HandlerOK(IdleReq)'
  BY DEF HandlerOK, IdleReq, Claiming, Deleting
<1>6. ASSUME NEW q \in Requests \ {r} PROVE HandlerOK(req[q])'
  <2>1. UNCHANGED req[q] /\ HandlerOK(req[q])
    BY <1>2 DEF IInv, TypeOK, Handlers
  <2> QED
    BY <1>1, <1>4, <2>1 DEF HandlerOK
<1>7. \A q \in Requests \ {r} : IdleReq.kernel = req[q].kernel => req[q].pc \notin Claiming
  BY IdleOK, Known
<1>8. Handlers'
  BY <1>2, <1>5, <1>6, <1>7, IdleOK, HandlersStep DEF Claiming
<1>9. FilesOK'
  <2>1. \A x \in InHand : x # k => x \in InHand'
    BY <1>2, IdleOK, InHandStep DEF Claiming
  <2>2. \A x \in files' : x \in cut' \cup Registered' \cup InHand'
    BY <1>4, <2>1 DEF IInv, FilesOK
  <2> QED
    BY <1>1, <1>4, <2>2 DEF IInv, FilesOK
<1>10. VouchedFor'
  BY <1>4 DEF IInv, VouchedFor, testing
<1>11. Tests' /\ Finders'
  BY <1>4, TestsApart, FindersApart DEF testing, scanning
<1> QED
  BY <1>3, <1>8, <1>9, <1>10, <1>11 DEF IInv

LEMMA DeleteFilesInv == ASSUME IInv, NEW r \in Requests, DeleteFiles(r) PROVE IInv'
<1>1. HandlerOK(req[r]) /\ req[r].pc = "drop_files" /\ files \subseteq Kernels
  BY Known DEF DeleteFiles, IInv, TypeOK
<1>2. req[r].path = req[r].kernel \/ (req[r].path = Configured /\ req[r].kernel \notin files)
  BY <1>1 DEF HandlerOK, Deleting
<1>3. files' \in {files, files \ {req[r].kernel}} /\ req[r].kernel \notin files'
  BY <1>1, <1>2, KernelAssumption DEF DeleteFiles
<1> QED
  BY <1>1, <1>3, DropInv DEF DeleteFiles

LEMMA FailInv == ASSUME IInv, NEW r \in Requests, Fail(r) PROVE IInv'
<1>1. CASE req[r].pc \in Claiming \cup {"drop_files"}
  BY <1>1, DropInv DEF Fail, Claiming
<1>2. CASE req[r].pc \notin Claiming \cup {"drop_files"}
  BY <1>2, FinishOnly DEF Fail, Claiming
<1> QED
  BY <1>1, <1>2

LEMMA DeleteJobsInv == ASSUME IInv, NEW r \in Requests, DeleteJobs(r) PROVE IInv'
<1>0. PICK f : f = req[r]
  OBVIOUS
<1> DEFINE k == f.kernel
           g == Frame("drop_row", f.kernel, f.path, f.status, f.url, f.scan)
<1>1. f \in ReqFrame /\ HandlerOK(f) /\ f.pc = "drop_jobs"
  BY <1>0, Known DEF DeleteJobs
<1>2. req' = [req EXCEPT ![r] = g]
  BY <1>0, <1>1, OldFrame DEF DeleteJobs, Goto
<1>3. g \in ReqFrame /\ g.pc = "drop_row" /\ g.kernel = k
  BY <1>1 DEF ReqFrame, Frame
<1>4. /\ job' = [j \in Jobs |-> IF job[j].kernel = k THEN NoJob ELSE job[j]]
      /\ UNCHANGED <<kernel, files, vm, test, scanning, items, crashes, vouched, cut>>
  BY <1>0 DEF DeleteJobs
<1>5. TypeOK'
  <2>1. NoJob \in JobRow /\ NoJob.status = "none" /\ NoJob.kernel = NoId
    BY DEF NoJob, JobRow
  <2>2. job' \in [Jobs -> JobRow] /\ \A j \in Jobs : job'[j].status = "none" <=> job'[j].kernel = NoId
    BY <1>4, <2>1 DEF IInv, TypeOK
  <2> HIDE DEF g
  <2> QED
    BY <1>2, <1>3, <1>4, <2>2 DEF IInv, TypeOK, scanning
<1>6. /\ Registered' = Registered /\ Unvouched' = Unvouched
      /\ \A x \in Kernels : Named(x)' => Named(x)
  <2>1. \A j \in Jobs : job'[j].kernel \in {NoId, job[j].kernel}
    BY <1>4 DEF NoJob
  <2> QED
    BY <1>4, <2>1, KernelAssumption DEF Registered, Unvouched, Named
<1>7. HandlerOK(g)'
  BY <1>1, <1>4, <1>6 DEF HandlerOK, Frame, Claiming, Deleting
<1>8. ASSUME NEW q \in Requests \ {r} PROVE HandlerOK(req[q])'
  <2>1. UNCHANGED req[q] /\ HandlerOK(req[q])
    BY <1>2 DEF IInv, TypeOK, Handlers
  <2> QED
    BY <1>4, <1>6, <2>1 DEF HandlerOK, Claiming
<1>9. Handlers'
  <2>1. \A q \in Requests \ {r} :
          g.kernel = req[q].kernel => req[q].pc \notin Claiming /\ g.pc \notin Claiming
    BY <1>0, <1>3, Known DEF Claiming
  <2> HIDE DEF g
  <2> QED
    BY <1>2, <1>3, <1>7, <1>8, <2>1, HandlersStep
<1>10. FilesOK'
  <2>1. \A x \in InHand : x \in InHand'
    <3> HIDE DEF g
    <3> QED
      BY <1>0, <1>1, <1>2, <1>3, InHandStep DEF Claiming
  <2> QED
    BY <1>4, <2>1, FilesApart
<1>11. VouchedFor'
  BY <1>4, <1>6 DEF IInv, VouchedFor
<1>12. Tests'
  <2> SUFFICES ASSUME NEW j \in Jobs PROVE TestOK(j)'
    BY DEF Tests
  <2>1. TestOK(j)
    BY DEF IInv, Tests
  <2>2. job'[j] = job[j] \/ (job'[j].kernel = NoId /\ job'[j].status = "none")
    BY <1>4 DEF NoJob
  <2> QED
    BY <1>4, <1>6, <2>1, <2>2 DEF TestOK
<1>13. Finders'
  BY <1>4, FindersApart DEF scanning
<1> QED
  BY <1>5, <1>9, <1>10, <1>11, <1>12, <1>13 DEF IInv

\* The row goes.
LEMMA DeleteRowInv == ASSUME IInv, NEW r \in Requests, DeleteRow(r) PROVE IInv'
<1>0. PICK f : f = req[r]
  OBVIOUS
<1> DEFINE k == f.kernel
           g == Frame("drop_files", f.kernel, f.path, f.status, f.url, f.scan)
<1>1. f \in ReqFrame /\ HandlerOK(f) /\ f.pc = "drop_row" /\ k \in Kernels
  BY <1>0, Known DEF DeleteRow, HandlerOK, Deleting
<1>2. /\ kernel' = [kernel EXCEPT ![k] = NoKernel] /\ vouched' = vouched \ {k}
      /\ UNCHANGED <<files, vm, job, test, scanning, items, crashes, cut>>
  BY <1>0 DEF DeleteRow, testing
<1>3. /\ req' \in [Requests -> ReqFrame] /\ req'[r] = g
      /\ \A q \in Requests \ {r} : req'[q] = req[q]
  <2>1. g \in ReqFrame
    BY <1>1 DEF Frame, ReqFrame
  <2>2. req' = [req EXCEPT ![r] = g]
    BY <1>0, <1>1, OldFrame DEF DeleteRow, Goto
  <2> HIDE DEF g
  <2> QED
    BY <2>1, <2>2 DEF IInv, TypeOK
<1>4. kernel'[k] = NoKernel /\ \A x \in Kernels \ {k} : kernel'[x] = kernel[x]
  BY <1>1, <1>2 DEF IInv, TypeOK
<1>5. TypeOK'
  <2>1. kernel' \in [Kernels -> KernelRow]
    BY <1>1, <1>2 DEF IInv, TypeOK, NoKernel, KernelRow
  <2> QED
    BY <1>2, <1>3, <2>1 DEF IInv, TypeOK, scanning
<1>6. /\ Registered' = Registered \ {k} /\ Unvouched' = Unvouched \ {k}
      /\ \A x : Named(x)' = Named(x)
  BY <1>1, <1>2, <1>4 DEF Registered, Unvouched, Named, NoKernel
<1>7. ASSUME NEW q \in Requests
      PROVE  /\ req'[q].kernel = req[q].kernel /\ req'[q].path = req[q].path
             /\ req'[q].status = req[q].status /\ req'[q].url = req[q].url
             /\ req'[q].scan = req[q].scan
             /\ req'[q].pc = IF q = r THEN "drop_files" ELSE req[q].pc
  BY <1>0, <1>3 DEF Frame
<1>8. Handlers'
  <2>1. ASSUME NEW q \in Requests PROVE HandlerOK(req[q])'
    <3>1. HandlerOK(req[q])
      BY Known
    <3>2. CASE q # r
      BY <1>2, <1>6, <1>7, <3>1, <3>2 DEF HandlerOK
    <3>3. CASE q = r
      BY <1>0, <1>1, <1>2, <1>6, <1>7, <3>1, <3>3 DEF HandlerOK, Claiming, Deleting
    <3> QED
      BY <3>2, <3>3
  <2>2. ASSUME NEW p \in Requests, NEW q \in Requests, p # q, req'[p].pc \in Claiming
        PROVE  req'[q].kernel # req'[p].kernel
    BY <1>7, <2>2 DEF IInv, Handlers, Claiming
  <2> QED
    BY <2>1, <2>2 DEF Handlers
<1>9. FilesOK'
  <2>1. \A x \in Registered' : x \in files' <=> kernel'[x].source # "configured"
    BY <1>2, <1>4, <1>6 DEF IInv, FilesOK, Registered
  <2>2. \A x \in InHand : x \in InHand'
    BY <1>0, <1>1, <1>7 DEF InHand
  <2>3. k \in InHand'
    BY <1>0, <1>7 DEF InHand
  <2> QED
    BY <1>2, <1>6, <2>1, <2>2, <2>3 DEF IInv, FilesOK
<1>10. VouchedFor' /\ Tests'
  <2>1. \A x \in Unvouched' : kernel'[x].status # "active" /\ x \in Unvouched
    BY <1>4, <1>6 DEF IInv, VouchedFor, Unvouched, Registered
  <2> QED
    BY <1>2, <2>1, VouchedApart, TestsApart
<1>11. Finders'
  BY <1>2, FindersApart DEF scanning
<1> QED
  BY <1>5, <1>8, <1>9, <1>10, <1>11 DEF IInv

-----------------------------------------------------------------------------
(* VMs.                                                                    *)

\* A row of vms is written that no test is about, or removed.
LEMMA CreateInsertInv == ASSUME IInv, NEW r \in Requests, CreateInsert(r) PROVE IInv'
<1> DEFINE k == req[r].kernel
<1>1. req[r] \in ReqFrame /\ HandlerOK(req[r]) /\ req[r].pc = "create"
      /\ k \in Kernels /\ k \notin Unvouched
      /\ \A q \in Requests \ {r} : req[q].pc \in Claiming => req[q].kernel # k
  BY Known DEF CreateInsert, HandlerOK
<1> DEFINE row == [kernel |-> k, job |-> NoId, path |-> req[r].path]
<1>2. PICK v \in NewVM : vm' = [vm EXCEPT ![v] = row]
  BY DEF CreateInsert
<1>3. row \in VMRow /\ row.kernel = k /\ row.job = NoId
  BY <1>1 DEF VMRow, ReqFrame
<1>4. v \in VMs /\ vm'[v] = row /\ \A w \in VMs \ {v} : vm'[w] = vm[w]
  BY <1>2 DEF IInv, TypeOK, NewVM
<1>5. /\ req' = [req EXCEPT ![r] = IdleReq]
      /\ UNCHANGED <<kernel, files, job, test, scanning, items, crashes, vouched, cut>>
  BY DEF CreateInsert, Finish
<1> HIDE DEF row
<1>6. TypeOK'
  BY <1>2, <1>3, <1>4, <1>5, IdleOK DEF IInv, TypeOK, scanning
<1>7. /\ Registered' = Registered /\ Unvouched' = Unvouched
  BY <1>5 DEF Registered, Unvouched
<1>8. \A x \in Kernels \ {k} : Named(x)' => Named(x)
  BY <1>3, <1>4, <1>5 DEF Named
<1>9. HandlerOK(IdleReq)'
  BY DEF HandlerOK, IdleReq, Claiming, Deleting
<1>10. ASSUME NEW q \in Requests \ {r} PROVE HandlerOK(req[q])'
  <2>1. UNCHANGED req[q] /\ HandlerOK(req[q])
    BY <1>5 DEF IInv, TypeOK, Handlers
  <2> QED
    BY <1>1, <1>5, <1>7, <1>8, <2>1 DEF HandlerOK, Claiming
<1>11. Handlers'
  <2>1. \A q \in Requests \ {r} : IdleReq.kernel = req[q].kernel => req[q].pc \notin Claiming
    BY IdleOK, Known
  <2> QED
    BY <1>5, <1>9, <1>10, <2>1, IdleOK, HandlersStep DEF Claiming
<1>12. FilesOK'
  <2>1. InHand \subseteq InHand'
    BY <1>1, <1>5, IdleOK, InHandStep DEF Claiming
  <2> QED
    BY <1>5, <2>1, FilesApart
<1>13. VouchedFor'
  BY <1>1, <1>3, <1>4, <1>5, <1>7 DEF IInv, VouchedFor
<1>14. Tests'
  <2> SUFFICES ASSUME NEW j \in Jobs PROVE TestOK(j)'
    BY DEF Tests
  <2>1. TestOK(j) /\ j # NoId
    BY KernelAssumption DEF IInv, Tests
  <2> QED
    BY <1>3, <1>4, <1>5, <1>7, <2>1 DEF TestOK
<1>15. Finders'
  BY <1>5, FindersApart DEF scanning
<1> QED
  BY <1>6, <1>11, <1>12, <1>13, <1>14, <1>15 DEF IInv

LEMMA NoVMIs == NoVM \in VMRow /\ NoVM.kernel = NoId /\ NoVM.job = NoId
BY DEF NoVM, VMRow

\* What tests and deletions of VMs leave alone.
LEMMA TestApart ==
  ASSUME IInv, UNCHANGED <<req, files, items, scanning>>, cut \subseteq cut',
         kernel' \in [Kernels -> KernelRow],
         Registered' = Registered, Unvouched' \subseteq Unvouched,
         \A x \in Kernels : kernel'[x].source = kernel[x].source,
         \A x \in Kernels : Named(x)' => Named(x)
  PROVE  Handlers' /\ FilesOK' /\ Finders'
<1>1. \A q \in Requests : UNCHANGED req[q]
  OBVIOUS
<1>2. InHand' = InHand
  BY DEF InHand
<1>3. (\A q \in Requests : HandlerOK(req[q])') /\ FilesOK'
  BY <1>1, <1>2, SavedApart
<1>4. Handlers'
  BY <1>3 DEF IInv, Handlers
<1>5. Finders'
  BY FindersApart DEF scanning
<1> QED
  BY <1>3, <1>4, <1>5

LEMMA OtherTests ==
  ASSUME IInv, NEW i \in Jobs, UNCHANGED <<test[i], job[i]>>, cut \cap {i} \subseteq cut',
         Unvouched' \subseteq Unvouched,
         \A v \in VMs : vm'[v].job = i => vm[v].job = i
  PROVE  TestOK(i)'
<1>1. TestOK(i)
  BY DEF IInv, Tests
<1> QED
  BY <1>1 DEF TestOK

LEMMA DeleteVMInv == ASSUME IInv, DeleteVM PROVE IInv'
<1>1. PICK v \in VMs : vm' = [vm EXCEPT ![v] = NoVM]
  BY DEF DeleteVM
<1>2. UNCHANGED <<kernel, files, job, test, scanning, items, req, crashes, vouched, cut>>
  BY DEF DeleteVM
<1>3. \A w \in VMs : vm'[w] = IF w = v THEN NoVM ELSE vm[w]
  BY <1>1 DEF IInv, TypeOK
<1>4. TypeOK'
  BY <1>1, <1>2, NoVMIs DEF IInv, TypeOK, scanning
<1>5. /\ Registered' = Registered /\ Unvouched' = Unvouched
      /\ \A x \in Kernels : Named(x)' => Named(x)
  BY <1>2, <1>3, NoVMIs, KernelAssumption DEF Registered, Unvouched, Named
<1>6. Handlers' /\ FilesOK' /\ Finders'
  BY <1>2, <1>5, TestApart DEF IInv, TypeOK
<1>7. VouchedFor'
  BY <1>2, <1>3, <1>5, NoVMIs, KernelAssumption DEF IInv, VouchedFor, Unvouched, Registered
<1>8. \A w \in VMs, i \in Jobs : vm'[w].job = i => vm[w].job = i
  BY <1>3, NoVMIs, KernelAssumption
<1>9. Tests'
  BY <1>2, <1>5, <1>8, OtherTests DEF Tests
<1> QED
  BY <1>4, <1>6, <1>7, <1>9 DEF IInv

-----------------------------------------------------------------------------
(* Tests.                                                                  *)

\* A step of test j that leaves the kernels alone: its new frame t and its job's row.
LEMMA TestStep ==
  ASSUME IInv, NEW j \in Jobs, NEW t \in TestFrame, test' = [test EXCEPT ![j] = t],
         NEW row \in JobRow, job' = [job EXCEPT ![j] = row],
         row.status = "none" <=> row.kernel = NoId,
         row.kernel = job[j].kernel, t.kernel \in {NoId, test[j].kernel, job[j].kernel},
         UNCHANGED <<kernel, files, scanning, items, req, crashes>>,
         vouched \subseteq vouched', vouched' \subseteq Kernels,
         cut' \in {cut, cut \cup {j}},
         vm' \in [VMs -> VMRow],
         \A v \in VMs : vm'[v].kernel \in {NoId, vm[v].kernel, test[j].kernel},
         \A v \in VMs : vm'[v] = vm[v] \/ vm'[v].job # NoId \/ vm'[v] = NoVM,
         \A v \in VMs, i \in Jobs \ {j} : vm'[v].job = i => vm[v].job = i,
         TestOK(j)'
  PROVE  IInv'
<1>1. /\ test'[j] = t /\ job'[j] = row
      /\ \A i \in Jobs \ {j} : test'[i] = test[i] /\ job'[i] = job[i]
  BY DEF IInv, TypeOK
<1>2. TypeOK'
  <2>1. \A i \in Jobs : job'[i].status = "none" <=> job'[i].kernel = NoId
    BY <1>1 DEF IInv, TypeOK
  <2>2. test' \in [Jobs -> TestFrame] /\ job' \in [Jobs -> JobRow] /\ cut' \subseteq Jobs \cup Kernels
    BY DEF IInv, TypeOK
  <2> QED
    BY <2>1, <2>2 DEF IInv, TypeOK, scanning
<1>3. /\ Registered' = Registered /\ Unvouched' \subseteq Unvouched
  BY DEF Registered, Unvouched
<1>4. \A x \in Kernels : Named(x)' => Named(x)
  <2>1. \A i \in Jobs : job'[i].kernel = job[i].kernel
    BY <1>1
  <2>2. \A i \in Jobs : test'[i].kernel \in {NoId, test[j].kernel, job[j].kernel, test[i].kernel}
    BY <1>1
  <2> QED
    BY <2>1, <2>2, KernelAssumption DEF Named
<1>5. Handlers' /\ FilesOK' /\ Finders'
  BY <1>3, <1>4, TestApart DEF IInv, TypeOK
<1>6. VouchedFor'
  <2>1. \A x \in Unvouched' : kernel'[x].status # "active"
    BY <1>3 DEF IInv, VouchedFor
  <2>2. ASSUME NEW v \in VMs, vm'[v].job = NoId PROVE vm'[v].kernel \notin Unvouched'
    BY <1>3, <2>2, NoVMIs, KernelAssumption DEF IInv, VouchedFor, Unvouched, Registered
  <2> QED
    BY <2>1, <2>2 DEF VouchedFor
<1>7. Tests'
  <2>1. ASSUME NEW i \in Jobs \ {j} PROVE TestOK(i)'
    BY <1>1, <1>3, OtherTests
  <2> QED
    BY <2>1 DEF Tests
<1> QED
  BY <1>2, <1>5, <1>6, <1>7 DEF IInv

\* A job that is saved.
LEMMA JobSavedRow ==
  ASSUME IInv, NEW j \in Jobs, NEW status \in JobStatus, JobSaved(j, status)
  PROVE  \E row \in JobRow :
           /\ job' = [job EXCEPT ![j] = row] /\ job'[j] = row
           /\ row.kernel = job[j].kernel /\ (row.status = "none" <=> row.kernel = NoId)
           /\ row.status = IF job[j] = NoJob THEN "none" ELSE status
           /\ job[j] = NoJob <=> job[j].status = "none"
<1>1. job \in [Jobs -> JobRow] /\ job[j] \in JobRow /\ (job[j].status = "none" <=> job[j].kernel = NoId)
  BY DEF IInv, TypeOK
<1>2. job[j] = NoJob <=> job[j].status = "none"
  BY <1>1 DEF JobRow, NoJob
<1>3. CASE job[j] = NoJob
  <2>1. job' = [job EXCEPT ![j] = job[j]]
    BY <1>1, <1>3 DEF JobSaved
  <2> QED
    BY <1>1, <1>2, <1>3, <2>1
<1>4. CASE job[j] # NoJob
  <2> DEFINE row == [job[j] EXCEPT !.status = status]
  <2>1. row \in JobRow /\ row.kernel = job[j].kernel /\ row.status = status
    BY <1>1 DEF JobRow
  <2>2. job' = [job EXCEPT ![j] = row]
    BY <1>4 DEF JobSaved
  <2> HIDE DEF row
  <2> QED
    BY <1>1, <1>2, <1>4, <2>1, <2>2 DEF JobStatus
<1> QED
  BY <1>3, <1>4

LEMMA OldJob ==
  ASSUME IInv, NEW j \in Jobs, UNCHANGED job
  PROVE  /\ job[j] \in JobRow /\ job' = [job EXCEPT ![j] = job[j]]
         /\ job[j].status = "none" <=> job[j].kernel = NoId
BY DEF IInv, TypeOK

LEMMA IdleTestIs == IdleTest \in TestFrame /\ IdleTest.pc = "idle" /\ IdleTest.kernel = NoId
BY DEF IdleTest, TestFrame

LEMMA TestMarkInv == ASSUME IInv, NEW j \in Jobs, TestMark(j) PROVE IInv'
<1>1. TestOK(j) /\ test[j].pc = "mark" /\ test[j] \in TestFrame /\ job[j] \in JobRow
  BY DEF TestMark, TestAt, IInv, Tests, TypeOK
<1>2. PICK row \in JobRow :
           /\ job' = [job EXCEPT ![j] = row] /\ job'[j] = row
           /\ row.kernel = job[j].kernel /\ (row.status = "none" <=> row.kernel = NoId)
           /\ row.status = IF job[j] = NoJob THEN "none" ELSE "running"
           /\ job[j] = NoJob <=> job[j].status = "none"
  BY JobSavedRow DEF TestMark, JobStatus
<1>3. PICK t \in TestFrame :
        /\ test' = [test EXCEPT ![j] = t] /\ test'[j] = t
        /\ t.pc = IF job[j] = NoJob THEN "idle" ELSE "resolve"
        /\ t.kernel = IF job[j] = NoJob THEN NoId ELSE job[j].kernel
        /\ job[j] = NoJob \/ t.won = test[j].won
  <2> DEFINE t == IF job[j] = NoJob THEN IdleTest
                  ELSE TFrame("resolve", job[j].kernel, test[j].vm, test[j].path, test[j].won)
  <2>1. t \in TestFrame
    BY <1>1, IdleTestIs DEF TFrame, TestFrame, JobRow
  <2>2. test' = [test EXCEPT ![j] = t]
    <3>1. [test[j] EXCEPT !.pc = "resolve", !.kernel = job[j].kernel]
            = TFrame("resolve", job[j].kernel, test[j].vm, test[j].path, test[j].won)
      BY <1>1, OldTest
    <3>2. test' = [test EXCEPT ![j] = IF job[j] = NoJob THEN IdleTest
                     ELSE [test[j] EXCEPT !.pc = "resolve", !.kernel = job[j].kernel]]
      BY DEF TestMark
    <3> QED
      BY <3>1, <3>2
  <2>3. /\ t.pc = IF job[j] = NoJob THEN "idle" ELSE "resolve"
        /\ t.kernel = IF job[j] = NoJob THEN NoId ELSE job[j].kernel
        /\ job[j] = NoJob \/ t.won = test[j].won
    BY IdleTestIs DEF TFrame
  <2> HIDE DEF t
  <2> QED
    BY <2>1, <2>2, <2>3 DEF IInv, TypeOK
<1>4. UNCHANGED <<kernel, files, vm, scanning, items, req, crashes, vouched, cut>>
  BY DEF TestMark
<1>5. TestOK(j)'
  <2>1. job[j] # NoJob => job[j].kernel \in Kernels
    BY <1>1, <1>2 DEF JobRow, IInv, TypeOK
  <2> QED
    BY <1>1, <1>2, <1>3, <1>4, <2>1 DEF TestOK
<1>6. vouched \subseteq Kernels /\ vm \in [VMs -> VMRow]
  BY DEF IInv, TypeOK
<1> QED
  BY <1>2, <1>3, <1>4, <1>5, <1>6, TestStep

\* The frame that test j gets.
LEMMA TestGoes ==
  ASSUME IInv, NEW j \in Jobs, NEW pc, TestGoto(j, pc), pc \in {"cleanup", "save_won", "set_active",
           "set_failed", "save_lost"}
  PROVE  \E t \in TestFrame :
           /\ test' = [test EXCEPT ![j] = t] /\ test'[j] = t
           /\ t.pc = pc /\ t.kernel = test[j].kernel /\ t.vm = test[j].vm /\ t.won = test[j].won
<1>1. test[j] \in TestFrame /\ test \in [Jobs -> TestFrame]
  BY DEF IInv, TypeOK
<1> DEFINE t == [test[j] EXCEPT !.pc = pc]
<1>2. t \in TestFrame /\ t.pc = pc /\ t.kernel = test[j].kernel /\ t.vm = test[j].vm /\ t.won = test[j].won
  BY <1>1 DEF TestFrame
<1>3. test' = [test EXCEPT ![j] = t]
  BY DEF TestGoto
<1> HIDE DEF t
<1> QED
  BY <1>1, <1>2, <1>3

LEMMA ResolveFrame ==
  ASSUME IInv, NEW j \in Jobs, test[j].kernel \in Kernels, TestResolve(j)
  PROVE  \E t \in TestFrame :
           /\ test' = [test EXCEPT ![j] = t] /\ test'[j] = t
           /\ t.pc = "insert" /\ t.kernel = test[j].kernel /\ t.vm = test[j].vm /\ t.won = test[j].won
<1> DEFINE one == [test EXCEPT ![j] = SetPc(test[j], "insert")]
           t == TFrame("insert", test[j].kernel, test[j].vm, Path(test[j].kernel), test[j].won)
<1>1. test[j] \in TestFrame /\ test \in [Jobs -> TestFrame]
  BY DEF IInv, TypeOK
<1>2. test' = [one EXCEPT ![j] = SetPath(one[j], Path(test[j].kernel))]
  BY DEF TestResolve, SetPc, SetPath
<1>3. test' = [test EXCEPT ![j] = SetPath(SetPc(test[j], "insert"), Path(test[j].kernel))]
  BY <1>1, <1>2
<1>4. SetPc(test[j], "insert") = TFrame("insert", test[j].kernel, test[j].vm, test[j].path, test[j].won)
  BY <1>1, OldTest DEF SetPc
<1>5. SetPath(SetPc(test[j], "insert"), Path(test[j].kernel)) = t
  BY <1>4, TestFields
<1>6. t \in TestFrame /\ t.pc = "insert" /\ t.kernel = test[j].kernel /\ t.vm = test[j].vm /\ t.won = test[j].won
  BY <1>1 DEF TFrame, TestFrame, Path
<1> HIDE DEF t
<1> QED
  BY <1>1, <1>3, <1>5, <1>6

LEMMA BootFrame ==
  ASSUME IInv, NEW j \in Jobs, TestBoot(j)
  PROVE  \E t \in TestFrame :
           /\ test' = [test EXCEPT ![j] = t] /\ test'[j] = t
           /\ t.pc = "cleanup" /\ t.kernel = test[j].kernel /\ t.vm = test[j].vm
<1>0. PICK w \in BOOLEAN : w = TRUE
  OBVIOUS
<1> DEFINE one == [test EXCEPT ![j] = SetPc(test[j], "cleanup")]
           t == TFrame("cleanup", test[j].kernel, test[j].vm, test[j].path, w)
<1>1. test[j] \in TestFrame /\ test \in [Jobs -> TestFrame]
  BY DEF IInv, TypeOK
<1>2. test' = [one EXCEPT ![j] = SetWon(one[j], w)]
  BY <1>0 DEF TestBoot, SetPc, SetWon
<1>3. test' = [test EXCEPT ![j] = SetWon(SetPc(test[j], "cleanup"), w)]
  BY <1>1, <1>2
<1>4. SetPc(test[j], "cleanup") = TFrame("cleanup", test[j].kernel, test[j].vm, test[j].path, test[j].won)
  BY <1>1, OldTest DEF SetPc
<1>5. SetWon(SetPc(test[j], "cleanup"), w) = t
  BY <1>4, TestFields
<1>6. t \in TestFrame /\ t.pc = "cleanup" /\ t.kernel = test[j].kernel /\ t.vm = test[j].vm
  BY <1>0, <1>1 DEF TFrame, TestFrame
<1> HIDE DEF t
<1> QED
  BY <1>1, <1>3, <1>5, <1>6

\* A test's step that leaves its job alone.
LEMMA TestTo ==
  ASSUME IInv, NEW j \in Jobs, NEW t \in TestFrame, test' = [test EXCEPT ![j] = t],
         t.kernel = test[j].kernel,
         UNCHANGED <<kernel, files, job, scanning, items, req, crashes>>,
         vouched \subseteq vouched', vouched' \subseteq Kernels,
         cut' \in {cut, cut \cup {j}},
         vm' \in [VMs -> VMRow],
         \A v \in VMs : vm'[v].kernel \in {NoId, vm[v].kernel, test[j].kernel},
         \A v \in VMs : vm'[v] = vm[v] \/ vm'[v].job # NoId \/ vm'[v] = NoVM,
         \A v \in VMs, i \in Jobs \ {j} : vm'[v].job = i => vm[v].job = i,
         TestOK(j)'
  PROVE  IInv'
<1>1. /\ job[j] \in JobRow /\ job' = [job EXCEPT ![j] = job[j]]
      /\ job[j].status = "none" <=> job[j].kernel = NoId
  BY OldJob
<1> QED
  BY <1>1, TestStep

LEMMA TestRunsInv ==
  ASSUME IInv, NEW j \in Jobs, TestResolve(j) \/ TestBoot(j) \/ TestFail(j)
  PROVE  IInv'
<1>0. PICK f : f = test[j]
  OBVIOUS
<1>1. TestOK(j) /\ f \in TestFrame /\ vouched \subseteq Kernels /\ vm \in [VMs -> VMRow]
      /\ test \in [Jobs -> TestFrame]
  BY <1>0 DEF IInv, Tests, TypeOK
<1>2. UNCHANGED <<kernel, files, vm, job, scanning, items, req, crashes, cut>>
  BY DEF TestResolve, TestBoot, TestFail
<1>3. ASSUME NEW t \in TestFrame, test' = [test EXCEPT ![j] = t], t.kernel = f.kernel,
             vouched \subseteq vouched', vouched' \subseteq Kernels, TestOK(j)'
      PROVE  IInv'
  BY <1>0, <1>1, <1>2, <1>3, TestTo
<1>4. CASE TestResolve(j)
  <2>1. f.kernel \in Kernels /\ f.pc = "resolve" /\ UNCHANGED vouched
    BY <1>0, <1>1, <1>4 DEF TestOK, TestResolve, TestAt
  <2>2. PICK t \in TestFrame :
           /\ test' = [test EXCEPT ![j] = t] /\ test'[j] = t
           /\ t.pc = "insert" /\ t.kernel = f.kernel /\ t.vm = f.vm /\ t.won = f.won
    BY <1>0, <1>4, <2>1, ResolveFrame
  <2>3. TestOK(j)'
    BY <1>0, <1>1, <1>2, <2>1, <2>2 DEF TestOK, Unvouched, Registered
  <2> QED
    BY <1>1, <1>3, <2>1, <2>2, <2>3
<1>5. CASE TestBoot(j)
  <2>1. /\ f.kernel \in Kernels /\ f.pc = "boot" /\ vouched' = vouched \cup {f.kernel}
    BY <1>0, <1>1, <1>5 DEF TestOK, TestBoot, TestAt
  <2>2. PICK t \in TestFrame :
           /\ test' = [test EXCEPT ![j] = t] /\ test'[j] = t
           /\ t.pc = "cleanup" /\ t.kernel = f.kernel /\ t.vm = f.vm
    BY <1>0, <1>5, BootFrame
  <2>3. Unvouched' = Unvouched \ {f.kernel}
    BY <1>2, <2>1 DEF Unvouched, Registered
  <2>4. TestOK(j)'
    BY <1>0, <1>1, <1>2, <2>1, <2>2, <2>3 DEF TestOK
  <2> QED
    BY <1>1, <1>3, <2>1, <2>2, <2>4
<1>6. CASE TestFail(j)
  <2>1. /\ f.pc \in {"resolve", "insert", "boot"} /\ UNCHANGED vouched
        /\ TestGoto(j, IF f.pc = "boot" THEN "cleanup" ELSE "set_failed")
    BY <1>0, <1>6 DEF TestFail, TestAt
  <2>2. PICK t \in TestFrame :
           /\ test' = [test EXCEPT ![j] = t] /\ test'[j] = t
           /\ t.pc = IF f.pc = "boot" THEN "cleanup" ELSE "set_failed"
           /\ t.kernel = f.kernel /\ t.vm = f.vm /\ t.won = f.won
    BY <1>0, <2>1, TestGoes
  <2>3. TestOK(j)'
    BY <1>0, <1>1, <1>2, <2>1, <2>2 DEF TestOK, Unvouched, Registered
  <2> QED
    BY <1>1, <1>3, <2>1, <2>2, <2>3
<1> QED
  BY <1>4, <1>5, <1>6

\* The VM of a test.
LEMMA TestInsertFrame ==
  ASSUME IInv, NEW j \in Jobs, TestInsertVM(j)
  PROVE  \E v \in NewVM : \E t \in TestFrame :
           /\ vm' = [vm EXCEPT ![v] = [kernel |-> test[j].kernel, path |-> test[j].path, job |-> j]]
           /\ test' = [test EXCEPT ![j] = t] /\ test'[j] = t
           /\ t.pc = "boot" /\ t.kernel = test[j].kernel /\ t.vm = v /\ t.won = test[j].won
<1>0. PICK v \in NewVM :
        /\ vm' = [vm EXCEPT ![v] = [kernel |-> test[j].kernel, path |-> test[j].path, job |-> j]]
        /\ test' = [test EXCEPT ![j].pc = "boot", ![j].vm = v]
  BY DEF TestInsertVM
<1> DEFINE one == [test EXCEPT ![j] = SetPc(test[j], "boot")]
           t == TFrame("boot", test[j].kernel, v, test[j].path, test[j].won)
<1>1. test[j] \in TestFrame /\ test \in [Jobs -> TestFrame]
  BY DEF IInv, TypeOK
<1>2. test' = [one EXCEPT ![j] = SetVM(one[j], v)]
  BY <1>0 DEF SetPc, SetVM
<1>3. test' = [test EXCEPT ![j] = SetVM(SetPc(test[j], "boot"), v)]
  BY <1>1, <1>2
<1>4. SetPc(test[j], "boot") = TFrame("boot", test[j].kernel, test[j].vm, test[j].path, test[j].won)
  BY <1>1, OldTest DEF SetPc
<1>5. SetVM(SetPc(test[j], "boot"), v) = t
  BY <1>4, TestFields
<1>6. t \in TestFrame /\ t.pc = "boot" /\ t.kernel = test[j].kernel /\ t.vm = v /\ t.won = test[j].won
  BY <1>1 DEF TFrame, TestFrame, NewVM
<1> HIDE DEF t
<1> QED
  BY <1>0, <1>1, <1>3, <1>5, <1>6

LEMMA TestInsertInv == ASSUME IInv, NEW j \in Jobs, TestInsertVM(j) PROVE IInv'
<1>0. PICK f : f = test[j]
  OBVIOUS
<1>1. /\ TestOK(j) /\ f \in TestFrame /\ f.pc = "insert" /\ f.kernel \in Kernels /\ j # NoId
      /\ vouched \subseteq Kernels /\ vm \in [VMs -> VMRow]
  <2>1. TestOK(j) /\ test[j].pc = "insert"
    BY DEF IInv, Tests, TestInsertVM, TestAt
  <2>2. test[j] \in TestFrame /\ vouched \subseteq Kernels /\ vm \in [VMs -> VMRow]
    BY DEF IInv, TypeOK
  <2>3. test[j].kernel \in Kernels
    BY <2>1 DEF TestOK
  <2>4. j # NoId
    BY KernelAssumption
  <2> QED
    BY <1>0, <2>1, <2>2, <2>3, <2>4, Zenon
<1>2. UNCHANGED <<kernel, files, job, scanning, items, req, crashes, vouched, cut>>
  BY DEF TestInsertVM
<1> DEFINE row == [kernel |-> f.kernel, path |-> f.path, job |-> j]
<1>3. PICK v \in NewVM : \E t \in TestFrame :
           /\ vm' = [vm EXCEPT ![v] = row]
           /\ test' = [test EXCEPT ![j] = t] /\ test'[j] = t
           /\ t.pc = "boot" /\ t.kernel = f.kernel /\ t.vm = v /\ t.won = f.won
  BY <1>0, TestInsertFrame
<1>4. PICK t \in TestFrame :
           /\ vm' = [vm EXCEPT ![v] = row]
           /\ test' = [test EXCEPT ![j] = t] /\ test'[j] = t
           /\ t.pc = "boot" /\ t.kernel = f.kernel /\ t.vm = v /\ t.won = f.won
  BY <1>3
<1>5. row \in VMRow /\ row.kernel = f.kernel /\ row.job = j
  BY <1>1 DEF VMRow, TestFrame
<1> HIDE DEF row
<1>6. /\ v \in VMs /\ vm'[v] = row /\ vm' \in [VMs -> VMRow]
      /\ \A w \in VMs \ {v} : vm'[w] = vm[w]
  BY <1>1, <1>4, <1>5 DEF NewVM
<1>7. TestOK(j)'
  BY <1>0, <1>1, <1>2, <1>4, <1>5, <1>6 DEF TestOK, Unvouched, Registered
<1>8. /\ \A w \in VMs : vm'[w].kernel \in {NoId, vm[w].kernel, test[j].kernel}
      /\ \A w \in VMs : vm'[w] = vm[w] \/ vm'[w].job # NoId \/ vm'[w] = NoVM
      /\ \A w \in VMs, i \in Jobs \ {j} : vm'[w].job = i => vm[w].job = i
  BY <1>0, <1>1, <1>5, <1>6
<1> QED
  BY <1>0, <1>1, <1>2, <1>4, <1>6, <1>7, <1>8, TestTo

LEMMA TestCleanupInv == ASSUME IInv, NEW j \in Jobs, TestCleanup(j) PROVE IInv'
<1>0. PICK f : f = test[j]
  OBVIOUS
<1>1. /\ TestOK(j) /\ f \in TestFrame /\ f.pc = "cleanup" /\ f.vm \in VMs /\ j # NoId
      /\ vouched \subseteq Kernels /\ vm \in [VMs -> VMRow]
  BY <1>0, KernelAssumption DEF IInv, Tests, TypeOK, TestOK, TestCleanup, TestAt
<1>2. UNCHANGED <<kernel, files, job, scanning, items, req, crashes, vouched>>
  BY DEF TestCleanup
<1>3. TestGoto(j, IF f.won THEN "save_won" ELSE "set_failed")
  BY <1>0 DEF TestCleanup
<1>4. PICK t \in TestFrame :
           /\ test' = [test EXCEPT ![j] = t] /\ test'[j] = t
           /\ t.pc = IF f.won THEN "save_won" ELSE "set_failed"
           /\ t.kernel = f.kernel /\ t.vm = f.vm /\ t.won = f.won
  BY <1>0, <1>3, TestGoes
<1>5. /\ cut' \in {cut, cut \cup {j}} /\ vm' \in [VMs -> VMRow]
      /\ j \in cut' \/ vm'[f.vm] = NoVM
      /\ \A w \in VMs : vm'[w] = vm[w] \/ vm'[w] = NoVM
  <2>1. CASE vm' = [vm EXCEPT ![f.vm] = NoVM] /\ UNCHANGED cut
    BY <1>1, <2>1, NoVMIs
  <2>2. CASE cut' = cut \cup {j} /\ UNCHANGED vm
    BY <1>1, <2>2
  <2> QED
    BY <1>0, <2>1, <2>2 DEF TestCleanup
<1>6. TestOK(j)'
  BY <1>0, <1>1, <1>2, <1>4, <1>5, NoVMIs DEF TestOK, Unvouched, Registered
<1>7. /\ \A w \in VMs : vm'[w].kernel \in {NoId, vm[w].kernel, test[j].kernel}
      /\ \A w \in VMs, i \in Jobs \ {j} : vm'[w].job = i => vm[w].job = i
  BY <1>5, NoVMIs, KernelAssumption
<1> QED
  BY <1>0, <1>1, <1>2, <1>4, <1>5, <1>6, <1>7, TestTo

LEMMA TestSaveInv ==
  ASSUME IInv, NEW j \in Jobs, TestSaveWon(j) \/ TestSaveLost(j)
  PROVE  IInv'
<1>0. PICK f : f = test[j]
  OBVIOUS
<1>1. /\ TestOK(j) /\ f \in TestFrame /\ vouched \subseteq Kernels /\ vm \in [VMs -> VMRow]
      /\ test \in [Jobs -> TestFrame]
  BY <1>0 DEF IInv, Tests, TypeOK
<1>2. UNCHANGED <<kernel, files, vm, scanning, items, req, crashes, vouched, cut>>
  BY DEF TestSaveWon, TestSaveLost
<1>3. NoId \notin Unvouched
  BY KernelAssumption DEF Unvouched, Registered
<1>4. CASE TestSaveWon(j)
  <2>1. PICK row \in JobRow :
           /\ job' = [job EXCEPT ![j] = row] /\ job'[j] = row
           /\ row.kernel = job[j].kernel /\ (row.status = "none" <=> row.kernel = NoId)
           /\ row.status = IF job[j] = NoJob THEN "none" ELSE "succeeded"
           /\ job[j] = NoJob <=> job[j].status = "none"
    BY <1>4, JobSavedRow DEF TestSaveWon, JobStatus
  <2>2. PICK t \in TestFrame :
           /\ test' = [test EXCEPT ![j] = t] /\ test'[j] = t
           /\ t.pc = "set_active" /\ t.kernel = f.kernel /\ t.vm = f.vm /\ t.won = f.won
    BY <1>0, <1>4, TestGoes DEF TestSaveWon
  <2>3. f.pc = "save_won"
    BY <1>0, <1>4 DEF TestSaveWon, TestAt
  <2>4. TestOK(j)'
    BY <1>0, <1>1, <1>2, <1>3, <2>1, <2>2, <2>3 DEF TestOK, Unvouched, Registered
  <2> QED
    BY <1>0, <1>1, <1>2, <2>1, <2>2, <2>4, TestStep
<1>5. CASE TestSaveLost(j)
  <2>1. PICK row \in JobRow :
           /\ job' = [job EXCEPT ![j] = row] /\ job'[j] = row
           /\ row.kernel = job[j].kernel /\ (row.status = "none" <=> row.kernel = NoId)
           /\ row.status = IF job[j] = NoJob THEN "none" ELSE "failed"
           /\ job[j] = NoJob <=> job[j].status = "none"
    BY <1>5, JobSavedRow DEF TestSaveLost, JobStatus
  <2>2. test' = [test EXCEPT ![j] = IdleTest] /\ test'[j] = IdleTest /\ f.pc = "save_lost"
    BY <1>0, <1>1, <1>5 DEF TestSaveLost, TestAt
  <2>3. TestOK(j)'
    BY <1>0, <1>1, <1>2, <2>1, <2>2, IdleTestIs DEF TestOK
  <2> QED
    BY <1>0, <1>1, <1>2, <2>1, <2>2, <2>3, IdleTestIs, TestStep
<1> QED
  BY <1>4, <1>5

\* The result of a test is written to its kernel.
LEMMA TestResultInv ==
  ASSUME IInv, NEW j \in Jobs, TestSetActive(j) \/ TestSetFailed(j)
  PROVE  IInv'
<1>0. PICK f : f = test[j]
  OBVIOUS
<1> DEFINE k == f.kernel
<1>1. /\ TestOK(j) /\ f \in TestFrame /\ f.pc \in {"set_active", "set_failed"} /\ k \in Kernels
      /\ test \in [Jobs -> TestFrame]
  BY <1>0 DEF IInv, Tests, TypeOK, TestOK, TestSetActive, TestSetFailed, TestAt
<1>2. UNCHANGED <<files, vm, job, scanning, items, req, crashes, vouched, cut>>
  BY DEF TestSetActive, TestSetFailed
<1>3. PICK status \in KernelStatus : Saved(k, status) /\ (status = "active" => f.pc = "set_active")
  BY <1>0 DEF TestSetActive, TestSetFailed, TestAt, KernelStatus
<1>4. status = "active" /\ k \in Registered => k \in vouched
  BY <1>0, <1>1, <1>3 DEF TestOK, Unvouched
<1>5. /\ kernel' \in [Kernels -> KernelRow]
      /\ Registered' = Registered /\ Unvouched' \subseteq Unvouched
      /\ \A x \in Kernels : kernel'[x].source = kernel[x].source
      /\ \A x \in Unvouched' : kernel'[x].status # "active"
  BY <1>1, <1>2, <1>3, <1>4, SavedKernel
<1>6. PICK t \in TestFrame :
        /\ test' = [test EXCEPT ![j] = t] /\ test'[j] = t
        /\ t.pc = IF f.pc = "set_active" THEN "idle" ELSE "save_lost"
        /\ t.kernel = IF f.pc = "set_active" THEN NoId ELSE k
  <2>1. CASE TestSetActive(j)
    BY <1>0, <1>1, <2>1, IdleTestIs DEF TestSetActive, TestAt
  <2>2. CASE TestSetFailed(j)
    BY <1>0, <2>2, TestGoes DEF TestSetFailed, TestAt
  <2> QED
    BY <2>1, <2>2
<1>7. TypeOK'
  BY <1>2, <1>5, <1>6 DEF IInv, TypeOK, scanning
<1>8. \A x \in Kernels : Named(x)' => Named(x)
  <2>1. \A i \in Jobs : test'[i].kernel \in {NoId, test[i].kernel}
    BY <1>0, <1>1, <1>6
  <2> QED
    BY <1>2, <2>1, KernelAssumption DEF Named
<1>9. Handlers' /\ FilesOK' /\ Finders'
  BY <1>2, <1>5, <1>8, TestApart
<1>10. VouchedFor'
  BY <1>2, <1>5, VouchedApart
<1>11. Tests'
  <2>1. ASSUME NEW i \in Jobs \ {j} PROVE TestOK(i)'
    <3>1. UNCHANGED <<test[i], job[i]>>
      BY <1>1, <1>2, <1>6
    <3> QED
      BY <1>2, <1>5, <3>1, OtherTests
  <2>2. TestOK(j)'
    BY <1>0, <1>1, <1>2, <1>5, <1>6 DEF TestOK
  <2> QED
    BY <2>1, <2>2 DEF Tests
<1> QED
  BY <1>7, <1>9, <1>10, <1>11 DEF IInv

\* A test is queued.
LEMMA StartTestInv == ASSUME IInv, NEW r \in Requests, StartKernelTest(r) PROVE IInv'
<1>0. PICK k : k = req[r].kernel
  OBVIOUS
<1>1. /\ req[r] \in ReqFrame /\ req[r].pc = "enqueue" /\ k \in Kernels /\ k # NoId
      /\ \A q \in Requests \ {r} : req[q].pc \in Claiming => req[q].kernel # k
  BY <1>0, Known, KernelAssumption DEF StartKernelTest, HandlerOK
<1> DEFINE row == [kernel |-> k, status |-> "queued"]
           t == [IdleTest EXCEPT !.pc = "mark"]
<1>2. PICK j \in NewJob : /\ job' = [job EXCEPT ![j] = row]
                          /\ test' = [test EXCEPT ![j].pc = "mark"]
                          /\ cut' = cut \ {j}
  BY <1>0 DEF StartKernelTest
<1>3. /\ j \in Jobs /\ job[j] = NoJob /\ test[j] = IdleTest /\ scan[j] = "none"
      /\ \A v \in VMs : vm[v].job # j
  BY DEF NewJob
<1>4. row \in JobRow /\ row.kernel = k /\ row.status = "queued"
  BY <1>1 DEF JobRow, JobStatus
<1>5. t \in TestFrame /\ t.pc = "mark" /\ t.kernel = NoId /\ ~t.won
  BY DEF TestFrame, IdleTest
<1>6. test' = [test EXCEPT ![j] = t]
  BY <1>2, <1>3
<1>7. /\ UNCHANGED <<kernel, files, vm, scanning, items, crashes, vouched>>
      /\ req' = [req EXCEPT ![r] = IdleReq]
  BY DEF StartKernelTest, Finish
<1> HIDE DEF row, t
<1>8. /\ job'[j] = row /\ test'[j] = t
      /\ \A i \in Jobs \ {j} : job'[i] = job[i] /\ test'[i] = test[i]
  BY <1>2, <1>3, <1>6 DEF IInv, TypeOK
<1>9. TypeOK'
  <2>1. \A i \in Jobs : job'[i].status = "none" <=> job'[i].kernel = NoId
    BY <1>1, <1>4, <1>8 DEF IInv, TypeOK
  <2>2. job' \in [Jobs -> JobRow] /\ test' \in [Jobs -> TestFrame]
    BY <1>2, <1>4, <1>5, <1>6 DEF IInv, TypeOK
  <2>3. req' \in [Requests -> ReqFrame] /\ cut' \subseteq Jobs \cup Kernels
    BY <1>2, <1>7, IdleOK DEF IInv, TypeOK
  <2> QED
    BY <1>7, <2>1, <2>2, <2>3 DEF IInv, TypeOK, scanning
<1>10. /\ Registered' = Registered /\ Unvouched' = Unvouched
  BY <1>7 DEF Registered, Unvouched
<1>11. \A x \in Kernels \ {k} : Named(x)' => Named(x)
  BY <1>4, <1>5, <1>7, <1>8, KernelAssumption DEF Named
<1>12. HandlerOK(IdleReq)'
  BY DEF HandlerOK, IdleReq, Claiming, Deleting
<1>13. ASSUME NEW q \in Requests \ {r} PROVE HandlerOK(req[q])'
  <2>1. UNCHANGED req[q] /\ HandlerOK(req[q])
    BY <1>7 DEF IInv, TypeOK, Handlers
  <2> QED
    BY <1>1, <1>7, <1>10, <1>11, <2>1 DEF HandlerOK, Claiming
<1>14. Handlers'
  <2>1. \A q \in Requests \ {r} : IdleReq.kernel = req[q].kernel => req[q].pc \notin Claiming
    BY IdleOK, Known
  <2> QED
    BY <1>7, <1>12, <1>13, <2>1, IdleOK, HandlersStep DEF Claiming
<1>15. FilesOK'
  <2>1. InHand \subseteq InHand'
    BY <1>1, <1>7, IdleOK, InHandStep DEF Claiming
  <2> QED
    BY <1>2, <1>3, <1>7, <2>1, FilesApart
<1>16. VouchedFor'
  BY <1>7, <1>10 DEF IInv, VouchedFor
<1>17. Tests'
  <2>1. ASSUME NEW i \in Jobs \ {j} PROVE TestOK(i)'
    BY <1>2, <1>7, <1>8, <1>10, <2>1, OtherTests
  <2>2. TestOK(j)'
    BY <1>3, <1>4, <1>5, <1>7, <1>8 DEF TestOK
  <2> QED
    BY <2>1, <2>2 DEF Tests
<1>18. Finders'
  <2> SUFFICES ASSUME NEW s \in Jobs PROVE FindOK(s)'
    BY DEF Finders
  <2>1. FindOK(s)
    BY DEF IInv, Finders
  <2> QED
    BY <1>2, <1>3, <1>7, <2>1 DEF FindOK, NoItems, scanning
<1> QED
  BY <1>9, <1>14, <1>15, <1>16, <1>17, <1>18 DEF IInv

LEMMA TestInv == ASSUME IInv, NEW j \in Jobs, Test(j) PROVE IInv'
BY TestMarkInv, TestRunsInv, TestInsertInv, TestCleanupInv, TestSaveInv, TestResultInv DEF Test

-----------------------------------------------------------------------------
(* Scans.                                                                  *)

\* A step of scan s: its frame h, its row and its items.
LEMMA FindStep ==
  ASSUME IInv, NEW s \in Jobs, NEW h \in FindFrame, finder' = [finder EXCEPT ![s] = h],
         NEW status \in JobStatus, scan' = [scan EXCEPT ![s] = status],
         items' \in [Jobs -> [URLs -> {"none", "new", "registered"}]],
         \A i \in Jobs \ {s} : items'[i] = items[i],
         NoItems(s) \/ UNCHANGED items,
         UNCHANGED <<kernel, files, testing, req, crashes, vouched>>,
         cut' \in {cut, cut \ {s}}, cut' = cut \/ (test[s].pc = "idle" /\ job[s] = NoJob),
         cut' = cut \/ \A v \in VMs : vm[v].job # s,
         FindOK(s)'
  PROVE  IInv'
<1>1. /\ finder'[s] = h /\ scan'[s] = status
      /\ \A i \in Jobs \ {s} : finder'[i] = finder[i] /\ scan'[i] = scan[i]
  BY DEF IInv, TypeOK
<1>2. TypeOK'
  <2>1. status \in JobStatus \cup {"none"} /\ cut' \subseteq Jobs \cup Kernels
    BY DEF IInv, TypeOK
  <2> QED
    BY <2>1 DEF IInv, TypeOK, testing
<1>3. /\ Registered' = Registered /\ Unvouched' = Unvouched
      /\ \A x : Named(x)' = Named(x)
  BY DEF Registered, Unvouched, Named, testing
<1>4. \A i \in Jobs, u \in URLs : items[i][u] # "none" => items'[i][u] # "none"
  BY DEF NoItems
<1>5. ASSUME NEW q \in Requests PROVE HandlerOK(req[q])'
  <2>1. HandlerOK(req[q])
    BY Known
  <2> QED
    BY <1>3, <1>4, <2>1 DEF HandlerOK
<1>6. Handlers'
  BY <1>5 DEF IInv, Handlers
<1>7. FilesOK'
  <2>1. InHand' = InHand
    BY DEF InHand
  <2> QED
    BY <2>1, FilesApart
<1>8. VouchedFor'
  BY <1>3 DEF IInv, VouchedFor, testing
<1>9. Tests'
  <2> SUFFICES ASSUME NEW j \in Jobs PROVE TestOK(j)'
    BY DEF Tests
  <2>1. TestOK(j)
    BY DEF IInv, Tests
  <2>2. NoJob.status = "none"
    BY DEF NoJob
  <2> QED
    BY <1>3, <2>1, <2>2 DEF TestOK, testing
<1>10. Finders'
  <2> SUFFICES ASSUME NEW i \in Jobs \ {s} PROVE FindOK(i)'
    BY DEF Finders
  <2>1. FindOK(i)
    BY DEF IInv, Finders
  <2> QED
    BY <1>1, <2>1 DEF FindOK, NoItems
<1> QED
  BY <1>2, <1>6, <1>7, <1>8, <1>9, <1>10 DEF IInv

\* The scan's row stays.
LEMMA OldScan ==
  ASSUME IInv, NEW s \in Jobs, finder[s].pc # "idle", UNCHANGED scan
  PROVE  scan[s] \in JobStatus /\ scan' = [scan EXCEPT ![s] = scan[s]]
<1>1. FindOK(s) /\ scan \in [Jobs -> JobStatus \cup {"none"}]
  BY DEF IInv, Finders, TypeOK
<1> QED
  BY <1>1 DEF FindOK, JobStatus

LEMMA FindFrameIs ==
  /\ IdleFind \in FindFrame /\ IdleFind.pc = "idle"
  /\ \A h \in FindFrame, pc \in {"lock", "list", "replace", "end"} :
       /\ [h EXCEPT !.pc = pc] \in FindFrame /\ [h EXCEPT !.pc = pc].pc = pc
       /\ [h EXCEPT !.pc = pc].won = h.won /\ [h EXCEPT !.pc = pc].found = h.found
BY DEF IdleFind, FindFrame

LEMMA StartScanInv == ASSUME IInv, StartKernelDiscovery PROVE IInv'
<1>1. PICK s \in NewJob : /\ scan' = [scan EXCEPT ![s] = "queued"]
                          /\ finder' = [finder EXCEPT ![s].pc = "lock"]
                          /\ cut' = cut \ {s}
  BY DEF StartKernelDiscovery
<1>2. /\ s \in Jobs /\ job[s] = NoJob /\ test[s] = IdleTest /\ scan[s] = "none"
      /\ \A v \in VMs : vm[v].job # s
  BY DEF NewJob
<1>3. finder[s] \in FindFrame /\ FindOK(s)
  BY <1>2 DEF IInv, TypeOK, Finders
<1> DEFINE h == [finder[s] EXCEPT !.pc = "lock"]
<1>4. h \in FindFrame /\ h.pc = "lock" /\ h.won = finder[s].won
  BY <1>3, FindFrameIs
<1>5. finder' = [finder EXCEPT ![s] = h]
  BY <1>1
<1> HIDE DEF h
<1>6. UNCHANGED <<kernel, files, testing, items, req, crashes, vouched>>
  BY DEF StartKernelDiscovery
<1>7. finder'[s] = h /\ scan'[s] = "queued"
  BY <1>1, <1>2, <1>5 DEF IInv, TypeOK
<1>8. FindOK(s)'
  BY <1>2, <1>3, <1>4, <1>6, <1>7 DEF FindOK, NoItems
<1>9. items \in [Jobs -> [URLs -> {"none", "new", "registered"}]] /\ test[s].pc = "idle"
  BY <1>2, IdleTestIs DEF IInv, TypeOK
<1> QED
  BY <1>1, <1>2, <1>4, <1>5, <1>6, <1>8, <1>9, FindStep DEF JobStatus

LEMMA ScanLockInv == ASSUME IInv, NEW s \in Jobs, ScanLock(s) PROVE IInv'
<1>1. /\ finder[s].pc = "lock" /\ scan' = [scan EXCEPT ![s] = "running"]
      /\ finder' = [finder EXCEPT ![s].pc = "list"]
      /\ UNCHANGED <<kernel, files, testing, items, req, crashes, vouched, cut>>
  BY DEF ScanLock
<1>2. /\ finder[s] \in FindFrame /\ FindOK(s)
      /\ items \in [Jobs -> [URLs -> {"none", "new", "registered"}]]
  BY DEF IInv, TypeOK, Finders
<1> DEFINE h == [finder[s] EXCEPT !.pc = "list"]
<1>3. h \in FindFrame /\ h.pc = "list" /\ h.won = finder[s].won
  BY <1>2, FindFrameIs
<1>4. finder' = [finder EXCEPT ![s] = h]
  BY <1>1
<1> HIDE DEF h
<1>5. finder'[s] = h /\ scan'[s] = "running"
  BY <1>1, <1>4 DEF IInv, TypeOK
<1>6. FindOK(s)'
  BY <1>1, <1>2, <1>3, <1>5 DEF FindOK, NoItems
<1> QED
  BY <1>1, <1>2, <1>3, <1>4, <1>6, FindStep DEF JobStatus

LEMMA ScanListInv == ASSUME IInv, NEW s \in Jobs, ScanList(s) PROVE IInv'
<1>1. PICK found \in Listings :
        finder' = [finder EXCEPT ![s] =
                      [pc |-> IF found = {} THEN "end" ELSE "replace", found |-> found,
                       known |-> {u \in found : FromURL(u) # {}}, won |-> FALSE]]
  BY DEF ScanList
<1> DEFINE h == [pc |-> IF found = {} THEN "end" ELSE "replace", found |-> found,
                 known |-> {u \in found : FromURL(u) # {}}, won |-> FALSE]
<1>2. /\ finder[s].pc = "list" /\ FindOK(s)
      /\ UNCHANGED <<kernel, files, testing, scan, items, req, crashes, vouched, cut>>
      /\ items \in [Jobs -> [URLs -> {"none", "new", "registered"}]]
  BY DEF ScanList, IInv, TypeOK, Finders
<1>3. /\ h \in FindFrame /\ ~h.won /\ h.found = found
      /\ h.pc = IF found = {} THEN "end" ELSE "replace"
  BY DEF FindFrame, Listings
<1>4. scan[s] \in JobStatus /\ scan' = [scan EXCEPT ![s] = scan[s]]
  BY <1>2, OldScan
<1> HIDE DEF h
<1>5. finder' = [finder EXCEPT ![s] = h] /\ finder'[s] = h
  BY <1>1 DEF IInv, TypeOK, h
<1>6. FindOK(s)'
  BY <1>2, <1>3, <1>5 DEF FindOK, NoItems
<1> QED
  BY <1>2, <1>3, <1>4, <1>5, <1>6, FindStep

LEMMA ScanReplaceInv == ASSUME IInv, NEW s \in Jobs, ScanReplace(s) PROVE IInv'
<1>1. /\ finder[s].pc = "replace" /\ FindOK(s)
      /\ UNCHANGED <<kernel, files, testing, scan, req, crashes, vouched, cut>>
      /\ items \in [Jobs -> [URLs -> {"none", "new", "registered"}]]
      /\ finder[s] \in FindFrame /\ finder \in [Jobs -> FindFrame]
  BY DEF ScanReplace, IInv, TypeOK, Finders
<1>2. scan[s] \in JobStatus /\ scan' = [scan EXCEPT ![s] = scan[s]]
  BY <1>1, OldScan
<1> DEFINE one == [finder[s] EXCEPT !.pc = "end"]
           row == [u \in URLs |-> IF u \in finder[s].known THEN "registered"
                                  ELSE IF u \in finder[s].found THEN "new" ELSE "none"]
<1>3. one \in FindFrame /\ one.pc = "end" /\ one.won = finder[s].won
  BY <1>1, FindFrameIs
<1>4. CASE items' = [items EXCEPT ![s] = row] /\ finder' = [finder EXCEPT ![s].pc = "end", ![s].won = TRUE]
  <2>0. PICK w \in BOOLEAN : w = TRUE
    OBVIOUS
  <2> DEFINE h == SetWon(one, w)
  <2>1. h \in FindFrame /\ h.pc = "end" /\ h.won
    BY <1>3, <2>0 DEF SetWon, FindFrame
  <2>2. finder' = [[finder EXCEPT ![s] = one] EXCEPT ![s] = SetWon([finder EXCEPT ![s] = one][s], w)]
    BY <1>4, <2>0 DEF SetWon
  <2>3. finder' = [finder EXCEPT ![s] = h] /\ finder'[s] = h
    <3> HIDE DEF one
    <3> QED
      BY <1>1, <2>2
  <2>4. row \in [URLs -> {"none", "new", "registered"}]
    OBVIOUS
  <2>5. \E u \in URLs : row[u] # "none"
    BY <1>1 DEF FindOK, FindFrame
  <2> HIDE DEF h, row
  <2>6. /\ items' \in [Jobs -> [URLs -> {"none", "new", "registered"}]] /\ items'[s] = row
        /\ \A i \in Jobs \ {s} : items'[i] = items[i]
    BY <1>1, <1>4, <2>4
  <2>7. FindOK(s)'
    BY <1>1, <2>1, <2>3, <2>5, <2>6 DEF FindOK, NoItems
  <2>8. NoItems(s)
    BY <1>1 DEF FindOK
  <2> QED
    BY <1>1, <1>2, <2>1, <2>3, <2>6, <2>7, <2>8, FindStep
<1>5. CASE UNCHANGED items /\ finder' = [finder EXCEPT ![s].pc = "end"]
  <2>1. finder' = [finder EXCEPT ![s] = one] /\ finder'[s] = one
    BY <1>1, <1>5
  <2> HIDE DEF one
  <2>2. FindOK(s)'
    BY <1>1, <1>3, <1>5, <2>1 DEF FindOK, NoItems
  <2> QED
    BY <1>1, <1>2, <1>3, <1>5, <2>1, <2>2, FindStep
<1> QED
  BY <1>4, <1>5 DEF ScanReplace

LEMMA ScanEndInv == ASSUME IInv, NEW s \in Jobs, ScanEnd(s) PROVE IInv'
<1> DEFINE status == IF finder[s].won THEN "succeeded" ELSE "failed"
<1>1. /\ finder[s].pc = "end" /\ FindOK(s)
      /\ UNCHANGED <<kernel, files, testing, items, req, crashes, vouched, cut>>
      /\ items \in [Jobs -> [URLs -> {"none", "new", "registered"}]]
      /\ scan' = [scan EXCEPT ![s] = status] /\ finder' = [finder EXCEPT ![s] = IdleFind]
  BY DEF ScanEnd, IInv, TypeOK, Finders
<1>2. finder'[s] = IdleFind /\ scan'[s] = status /\ ~IdleFind.won
  BY <1>1 DEF IInv, TypeOK, IdleFind
<1>3. FindOK(s)'
  BY <1>1, <1>2, FindFrameIs DEF FindOK, NoItems
<1>4. status \in JobStatus
  BY DEF JobStatus
<1> HIDE DEF status
<1> QED
  BY <1>1, <1>3, <1>4, FindFrameIs, FindStep

LEMMA FindInv == ASSUME IInv, NEW s \in Jobs, Find(s) PROVE IInv'
BY ScanLockInv, ScanListInv, ScanReplaceInv, ScanEndInv DEF Find

-----------------------------------------------------------------------------
(* The daemon dies, and what starts again.                                  *)

\* The configured kernel, once it is registered, is vouched for and has no directory.
LEMMA DefaultKernel ==
  ASSUME IInv, EnsureDefaultKernel, UNCHANGED files
  PROVE  /\ kernel' \in [Kernels -> KernelRow] /\ vouched' \subseteq Kernels
         /\ Registered \subseteq Registered' /\ Unvouched' \subseteq Unvouched
         /\ \A k \in Registered' : k \in files <=> kernel'[k].source # "configured"
         /\ \A k \in Unvouched' : kernel'[k].status # "active"
<1>0. UNCHANGED <<kernel, vouched>> \/ \E k \in NewKernel : Inserted(k, "active", "configured", NoId)
  BY DEF EnsureDefaultKernel
<1>1. /\ kernel \in [Kernels -> KernelRow] /\ vouched \subseteq Kernels
      /\ \A k \in Registered : k \in files <=> kernel[k].source # "configured"
      /\ \A k \in Unvouched : kernel[k].status # "active"
  BY DEF IInv, TypeOK, FilesOK, VouchedFor
<1>2. CASE UNCHANGED <<kernel, vouched>>
  <2>1. Registered' = Registered /\ Unvouched' = Unvouched
    BY <1>2 DEF Unvouched, Registered
  <2> QED
    BY <1>1, <1>2, <2>1
<1>3. CASE \E k \in NewKernel : Inserted(k, "active", "configured", NoId)
  <2>1. PICK k \in NewKernel : Inserted(k, "active", "configured", NoId)
    BY <1>3
  <2> DEFINE row == [status |-> "active", source |-> "configured", url |-> NoId]
  <2>2. row \in KernelRow /\ row.status = "active" /\ row.source = "configured"
    BY DEF KernelRow, KernelStatus
  <2>3. k \in Kernels \ (Registered \cup files) /\ vouched' = vouched \cup {k}
    BY <2>1 DEF NewKernel, Inserted
  <2>4. kernel' = [kernel EXCEPT ![k] = row]
    BY <2>1 DEF Inserted
  <2> HIDE DEF row
  <2>5. /\ kernel' \in [Kernels -> KernelRow] /\ kernel'[k] = row
        /\ \A x \in Kernels \ {k} : kernel'[x] = kernel[x]
    BY <1>1, <2>2, <2>3, <2>4
  <2>6. Registered' = Registered \cup {k}
    BY <2>2, <2>3, <2>5 DEF Registered
  <2>7. Unvouched' \subseteq Unvouched \ {k}
    BY <2>3, <2>6 DEF Unvouched
  <2>8. \A x \in Registered' : x \in files <=> kernel'[x].source # "configured"
    BY <1>1, <2>2, <2>3, <2>5, <2>6 DEF Registered
  <2>9. \A x \in Unvouched' : kernel'[x].status # "active"
    BY <1>1, <2>5, <2>7 DEF Unvouched, Registered
  <2> QED
    BY <1>1, <2>3, <2>5, <2>6, <2>7, <2>8, <2>9
<1> QED
  BY <1>0, <1>2, <1>3

LEMMA CrashInv == ASSUME IInv, Crash PROVE IInv'
<1>1. /\ EnsureDefaultKernel /\ UNCHANGED <<files, vm, job, scan, items>>
      /\ req' = [r \in Requests |-> IdleReq] /\ test' = [j \in Jobs |-> IdleTest]
      /\ finder' = [s \in Jobs |-> IdleFind]
      /\ cut' = cut \cup (AtWork \ Requests) \cup InHand
      /\ crashes < MaxCrashes /\ crashes' = crashes + 1
  BY DEF Crash
<1>2. /\ kernel' \in [Kernels -> KernelRow] /\ vouched' \subseteq Kernels
      /\ Registered \subseteq Registered' /\ Unvouched' \subseteq Unvouched
      /\ \A k \in Registered' : k \in files <=> kernel'[k].source # "configured"
      /\ \A k \in Unvouched' : kernel'[k].status # "active"
  BY <1>1, DefaultKernel
<1>3. \A j \in Jobs : j \in cut' \/ (j \notin cut /\ test[j].pc = "idle" /\ finder[j].pc = "idle")
  BY <1>1, KernelAssumption DEF AtWork
<1>4. TypeOK'
  <2>1. InHand \subseteq Kernels
    <3>1. \A q \in Requests : req[q].pc \in Claiming \cup {"drop_files"} => req[q].kernel \in Kernels
      BY DEF IInv, Handlers, HandlerOK, Deleting
    <3> QED
      BY <3>1, InHandOf
  <2>2. AtWork \ Requests \subseteq Jobs
    BY DEF AtWork
  <2>3. cut' \subseteq Jobs \cup Kernels /\ crashes' \in 0..MaxCrashes
    BY <1>1, <2>1, <2>2, KernelAssumption DEF IInv, TypeOK
  <2>4. /\ req' \in [Requests -> ReqFrame] /\ test' \in [Jobs -> TestFrame]
        /\ finder' \in [Jobs -> FindFrame]
    BY <1>1, IdleOK, IdleTestIs, FindFrameIs
  <2> QED
    BY <1>1, <1>2, <2>3, <2>4 DEF IInv, TypeOK
<1>5. Handlers'
  BY <1>1 DEF Handlers, HandlerOK, IdleReq, Claiming, Deleting
<1>6. FilesOK'
  BY <1>1, <1>2 DEF IInv, FilesOK
<1>7. VouchedFor'
  BY <1>1, <1>2 DEF IInv, VouchedFor
<1>8. Tests'
  <2> SUFFICES ASSUME NEW j \in Jobs PROVE TestOK(j)'
    BY DEF Tests
  <2>1. TestOK(j) /\ test'[j] = IdleTest /\ UNCHANGED job[j]
    BY <1>1 DEF IInv, Tests
  <2>2. job[j].status = "succeeded" => job[j].kernel \notin Unvouched'
    BY <1>2, <2>1 DEF TestOK
  <2>3. \/ j \in cut'
        \/ /\ job[j].status \in {"none", "succeeded", "failed"}
           /\ \A v \in VMs : vm[v].job # j
    BY <1>3, <2>1 DEF TestOK
  <2> QED
    BY <1>1, <2>1, <2>2, <2>3, IdleTestIs DEF TestOK
<1>9. Finders'
  <2> SUFFICES ASSUME NEW s \in Jobs PROVE FindOK(s)'
    BY DEF Finders
  <2>1. FindOK(s) /\ finder'[s] = IdleFind /\ ~IdleFind.won
    BY <1>1 DEF IInv, Finders, IdleFind
  <2> QED
    BY <1>1, <1>3, <2>1, FindFrameIs DEF FindOK, NoItems
<1> QED
  BY <1>4, <1>5, <1>6, <1>7, <1>8, <1>9 DEF IInv

\* Nothing happens.
LEMMA StutterInv == ASSUME IInv, UNCHANGED vars PROVE IInv'
<1>1. /\ UNCHANGED <<kernel, files, vm, job, test, scan, items, finder, req, crashes, vouched, cut>>
      /\ UNCHANGED <<testing, scanning>>
  BY DEF vars, testing, scanning
<1>2. /\ Registered' = Registered /\ Unvouched' = Unvouched /\ InHand' = InHand
      /\ \A x : Named(x)' = Named(x)
  BY <1>1 DEF Registered, Unvouched, Named, InHand
<1>3. Handlers'
  BY <1>1, <1>2 DEF IInv, Handlers, HandlerOK
<1>4. FilesOK' /\ VouchedFor' /\ Tests' /\ Finders'
  BY <1>1, <1>2, FilesApart, VouchedApart, TestsApart, FindersApart DEF IInv, VouchedFor
<1>5. TypeOK'
  BY <1>1 DEF IInv, TypeOK
<1> QED
  BY <1>3, <1>4, <1>5 DEF IInv

LEMMA NextInv == ASSUME IInv, [Next]_vars PROVE IInv'
<1>1. ASSUME NEW r \in Requests, Add(r) PROVE IInv'
  BY <1>1, AddInv, ArrivalsInv, MovesInv DEF Add
<1>2. ASSUME NEW r \in Requests, Update(r) PROVE IInv'
  BY <1>2, ArrivalsInv, UpdateKernelInv DEF Update
<1>3. ASSUME NEW r \in Requests, Delete(r) PROVE IInv'
  BY <1>3, ArrivalsInv, MovesInv, DeleteJobsInv, DeleteRowInv, DeleteFilesInv DEF Delete
<1>4. ASSUME NEW r \in Requests, Create(r) PROVE IInv'
  BY <1>4, ArrivalsInv, CreateInsertInv DEF Create
<1>5. ASSUME NEW r \in Requests, Enqueue(r) PROVE IInv'
  BY <1>5, ArrivalsInv, StartTestInv DEF Enqueue
<1>6. ASSUME NEW r \in Requests, Fail(r) PROVE IInv'
  BY <1>6, FailInv
<1>7. ASSUME NEW j \in Jobs, Test(j) \/ Find(j) PROVE IInv'
  BY <1>7, TestInv, FindInv
<1> QED
  BY <1>1, <1>2, <1>3, <1>4, <1>5, <1>6, <1>7,
     StartScanInv, DeleteVMInv, CrashInv, StutterInv DEF Next

LEMMA Inductive == Spec => []IInv
<1>1. IInv /\ [Next]_vars => IInv'
  BY NextInv
<1> QED
  BY InitInv, <1>1, PTL DEF Spec

-----------------------------------------------------------------------------
(* What holds of every behaviour.                                          *)

\* The rows, frames of goroutines and histories of the registry keep their types, and a
\* job row that StartKernelTest has inserted always names its kernel.
THEOREM TypeCorrect == Spec => []TypeOK
<1>1. IInv => TypeOK
  BY DEF IInv
<1> QED
  BY Inductive, <1>1, PTL

\* RegisterKernel inserts after the file is complete and DeleteKernel removes it after
\* the row: a row's file is there, and a directory without a row is in a handler's hand
\* or was left by a crash or a failed removal, for any number of kernels and requests.
THEOREM FilesDoMatch == Spec => []FilesMatch
<1>1. IInv => FilesMatch
  <2> SUFFICES ASSUME IInv PROVE FilesMatch
    OBVIOUS
  <2>1. ASSUME NEW k \in Registered PROVE requireFile(Path(k))
    BY <2>1 DEF IInv, FilesOK, requireFile, Path
  <2> QED
    BY <2>1 DEF IInv, FilesOK, FilesMatch
<1> QED
  BY Inductive, <1>1, PTL

\* KERNELS.md: only active kernels are offered.  However runKernelTest, UpdateKernel with
\* its stale copy of the row, DeleteKernel, resolveKernelForVM and restarts mix, a kernel
\* is active, and a client's VM has it, only if somebody or something vouched for it.
THEOREM OnlyVouchedUsed == Spec => []OnlyVouched
<1>1. IInv => OnlyVouched
  BY DEF IInv, VouchedFor, OnlyVouched, Unvouched
<1> QED
  BY Inductive, <1>1, PTL

\* runKernelTest leaves nothing half done: a job whose runner has returned has ended, its
\* VM is gone, and success means that the kernel has booted, unless a crash or a failed
\* clean-up has cut the job.
THEOREM TestsDoSettle == Spec => []TestsSettle
<1>1. IInv => TestsSettle
  <2> SUFFICES ASSUME IInv, NEW j \in Jobs \ cut
               PROVE  /\ test[j].pc = "idle" => job[j].status \in {"none", "succeeded", "failed"}
                      /\ job[j].status = "succeeded" /\ job[j].kernel \in Registered => job[j].kernel \in vouched
                      /\ \A v \in VMs : vm[v].job = j => test[j].pc \in {"boot", "cleanup"}
    BY DEF TestsSettle
  <2>1. TestOK(j)
    BY DEF IInv, Tests
  <2> QED
    BY <2>1 DEF TestOK, Unvouched
<1> QED
  BY Inductive, <1>1, PTL

\* runKernelDiscovery likewise: a scan that has returned has ended, with items if and only
\* if it has succeeded, however ReplaceKernelDiscoveryItems and UpdateKernelDiscoveryJob
\* mix with other scans under kernelDiscoveryMu.
THEOREM ScansDoSettle == Spec => []ScansSettle
<1>1. IInv => ScansSettle
  <2> SUFFICES ASSUME IInv, NEW s \in Jobs \ cut, finder[s].pc = "idle"
               PROVE  \/ scan[s] = "none"
                      \/ scan[s] = "succeeded" /\ \E u \in URLs : items[s][u] # "none"
                      \/ scan[s] = "failed" /\ \A u \in URLs : items[s][u] = "none"
    BY DEF ScansSettle
  <2>1. FindOK(s)
    BY DEF IInv, Finders
  <2> QED
    BY <2>1 DEF FindOK, NoItems
<1> QED
  BY Inductive, <1>1, PTL

=============================================================================
