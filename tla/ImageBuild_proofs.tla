-------------------------- MODULE ImageBuild_proofs --------------------------
(***************************************************************************)
(* Proofs about ImageBuild: for any number of images, VMs, builds, handlers  *)
(* and crashes, the image that a build has made is whole, builds settle, and *)
(* no VM loses its image but to a deletion that had counted before it came. *)
(***************************************************************************)
EXTENDS ImageBuild, TLAPS

-----------------------------------------------------------------------------
(* The inductive invariant.                                                *)

\* Where a build is that has no image yet.
Working == {"lock", "create", "mount", "bind", "hooks", "unbind", "umount", "insert"}
Fresh(j) == job[j] = "none" \/ build[j].pc \in Working

\* Image i is what build j has made.
MadeBy(i, j) == image[i].managed /\ image[i].path = j

\* A build makes one image at most.
Rows ==
    \A i \in Images : image[i].managed =>
      /\ image[i].path \in Jobs /\ image[i].status # "none"
      /\ \A k \in Images : MadeBy(k, image[i].path) => k = i

\* A deletion is about a build that has made its image, and about that image.
Sound(g) ==
    /\ g.pc = "register" => g.path \in Paths
    /\ g.pc \in {"count", "drop_row"} => g.id \in Images
    /\ g.pc \in {"count", "drop_row", "drop_file"} /\ g.path # NoId =>
         /\ g.path \in Jobs /\ ~Fresh(g.path)
         /\ \A i \in Images : MadeBy(i, g.path) => g.pc # "drop_file" /\ i = g.id
    /\ g.pc = "drop_file" => g.path # NoId

Frames == \A r \in Requests : Sound(req[r])

\* A build that may insert has its file whole and nothing mounted, and so has one that
\* has succeeded; what it has mounted, it holds, unless something got stuck.
BuildOK(j) ==
    /\ build[j].pc # "idle" => job[j] \in {"queued", "running"}
    /\ build[j].pc \in {"idle", "end"} => build[j].held = {}
    /\ build[j].won => build[j].pc \in {"cleanup", "end"}
    /\ build[j].pc = "insert" => file[j] = "ok" /\ mnt[j] = {} /\ build[j].held = {}
    /\ build[j].won \/ job[j] = "succeeded" =>
         file[j] \in {"ok", "none"} /\ mnt[j] = {} /\ build[j].held = {}
    /\ j \in died \/ (build[j].pc = "idle" => job[j] \in {"none", "succeeded", "failed"})
    /\ j \in died \cup stuck \/ (mnt[j] = build[j].held /\ file[j] # "wiped")

Builds == \A j \in Jobs : BuildOK(j)

\* A build that has its image is through with it, and the image's file is whole.
MadeOK(j) ==
    /\ ~Fresh(j) /\ job[j] # "failed"
    /\ file[j] = "ok" /\ mnt[j] = {} /\ build[j].held = {}
    /\ build[j].pc \in {"cleanup", "end"} => build[j].won

Made == \A j \in Jobs, i \in Images : MadeBy(i, j) => MadeOK(j)

IInv == TypeOK /\ Rows /\ Frames /\ Builds /\ Made

-----------------------------------------------------------------------------
(* The invariant holds initially and under every step.                      *)

\* The first start of the daemon: nothing is built, nobody is at work.
LEMMA InitInv == Init => IInv
<1> SUFFICES ASSUME Init PROVE IInv
  OBVIOUS
<1>1. PICK S \in SUBSET Images :
        image = [i \in Images |-> IF i \in S
                                  THEN [status |-> "active", path |-> Configured, managed |-> FALSE]
                                  ELSE NoImage]
  BY DEF Init
<1>2. \A i \in Images : image[i] \in ImageRow /\ ~image[i].managed
                        /\ (image[i].status = "none" <=> image[i].path = NoId)
  BY <1>1, ImageAssumption DEF ImageRow, ImageStatus, NoImage, Paths
<1>3. TypeOK
  <2>1. image \in [Images -> ImageRow]
    BY <1>1, <1>2
  <2>2. IdleBuild \in BuildFrame /\ IdleReq \in ReqFrame
    BY DEF IdleBuild, BuildFrame, IdleReq, ReqFrame
  <2>3. 0 \in 0..MaxCrashes
    BY ImageAssumption
  <2> QED
    BY <1>2, <2>1, <2>2, <2>3 DEF Init, TypeOK, FileState, Paths
<1>4. Rows /\ Made
  BY <1>2 DEF Rows, Made, MadeBy
<1>5. Frames
  BY DEF Init, Frames, Sound, IdleReq
<1>6. Builds
  BY DEF Init, Builds, BuildOK, IdleBuild, Paths
<1> QED
  BY <1>3, <1>4, <1>5, <1>6 DEF IInv

\* What a step of a handler that writes neither images nor files leaves as it is.
LEMMA HandlersApart ==
  ASSUME IInv, UNCHANGED <<image, file, building, died, stuck>>
  PROVE  Rows' /\ Builds' /\ Made'
BY DEF IInv, building, Rows, Builds, BuildOK, Made, MadeBy, MadeOK, Fresh

\* A handler gets a new frame, which must be sound.
LEMMA NewFrame ==
  ASSUME IInv, NEW r \in Requests, NEW g \in ReqFrame, Sound(g),
         req' = [req EXCEPT ![r] = g],
         UNCHANGED <<image, file, vm, building, crashes, history>>
  PROVE  IInv'
<1>1. TypeOK'
  BY DEF IInv, TypeOK, building, history
<1>2. Frames'
  <2> SUFFICES ASSUME NEW q \in Requests PROVE Sound(req[q])'
    BY DEF Frames
  <2>1. Sound(req'[q])
    BY DEF IInv, TypeOK, Frames
  <2> QED
    BY <2>1 DEF Sound, Fresh, MadeBy, building, history
<1> QED
  BY <1>1, <1>2, HandlersApart DEF IInv, history

\* The handler returns.
LEMMA FinishInv ==
  ASSUME IInv, NEW r \in Requests, Finish(r),
         UNCHANGED <<image, file, vm, building, crashes, history>>
  PROVE  IInv'
<1>1. IdleReq \in ReqFrame /\ Sound(IdleReq)
  BY DEF IdleReq, ReqFrame, Sound
<1> QED
  BY <1>1, NewFrame DEF Finish

\* A step of a build that inserts no row: deletions and rows look at nothing that it
\* changes but whether the build has an image yet.
LEMMA BuildsApart ==
  ASSUME IInv, UNCHANGED <<image, vm, req>>, \A j \in Jobs : Fresh(j)' => Fresh(j)
  PROVE  Rows' /\ Frames'
<1>1. Rows'
  BY DEF IInv, Rows, MadeBy
<1>2. ASSUME NEW r \in Requests PROVE Sound(req[r])'
  <2>1. Sound(req[r])
    BY DEF IInv, Frames
  <2> QED
    BY <2>1 DEF Sound, MadeBy
<1> QED
  BY <1>1, <1>2 DEF Frames

\* The frame of a build that goes on.
LEMMA BuildTo ==
  ASSUME TypeOK, NEW j \in Jobs, NEW pc, BuildGoto(j, pc)
  PROVE  build' = [build EXCEPT ![j] = [pc |-> pc, held |-> build[j].held, won |-> build[j].won]]
<1>1. build[j] \in BuildFrame
  BY DEF TypeOK
<1>2. [build[j] EXCEPT !.pc = pc] = [pc |-> pc, held |-> build[j].held, won |-> build[j].won]
  BY <1>1 DEF BuildFrame
<1> QED
  BY <1>2, Zenon DEF BuildGoto

\* A build is queued.
LEMMA StartInv == ASSUME IInv, StartImageBuild PROVE IInv'
<1>1. PICK j \in Jobs : job[j] = "none" /\ job' = [job EXCEPT ![j] = "queued"] /\ BuildGoto(j, "lock")
  BY DEF StartImageBuild, BuildGoto
<1> DEFINE b == [pc |-> "lock", held |-> build[j].held, won |-> build[j].won]
<1>2. TypeOK /\ build[j] \in BuildFrame /\ b \in BuildFrame
  BY DEF IInv, TypeOK, BuildFrame
<1>3. build' = [build EXCEPT ![j] = b]
  BY <1>1, <1>2, BuildTo
<1>4. UNCHANGED <<image, file, vm, mnt, req, crashes, history>>
  BY DEF StartImageBuild
<1>5. /\ build'[j].pc = "lock" /\ build'[j].held = build[j].held /\ build'[j].won = build[j].won
      /\ job'[j] = "queued"
      /\ \A k \in Jobs : k # j => build'[k] = build[k] /\ job'[k] = job[k]
  BY <1>1, <1>2, <1>3 DEF TypeOK
<1>6. \A k \in Jobs : Fresh(k)' => Fresh(k)
  BY <1>1, <1>5 DEF Fresh
<1>7. TypeOK'
  BY <1>1, <1>2, <1>3, <1>4 DEF TypeOK, history
<1>8. Builds'
  <2> SUFFICES ASSUME NEW k \in Jobs PROVE BuildOK(k)'
    BY DEF Builds
  <2>1. BuildOK(k)
    BY DEF IInv, Builds
  <2>2. CASE k = j
    BY <1>1, <1>4, <1>5, <2>1, <2>2 DEF BuildOK, history
  <2>3. CASE k # j
    BY <1>4, <1>5, <2>1, <2>3 DEF BuildOK, history
  <2> QED
    BY <2>2, <2>3
<1>9. Made'
  <2> SUFFICES ASSUME NEW k \in Jobs, NEW i \in Images, MadeBy(i, k) PROVE MadeOK(k)'
    BY <1>4 DEF Made, MadeBy
  <2>1. MadeOK(k) /\ k # j
    BY <1>1 DEF IInv, Made, MadeOK, Fresh
  <2> QED
    BY <1>4, <1>5, <1>6, <2>1 DEF MadeOK
<1> QED
  BY <1>4, <1>6, <1>7, <1>8, <1>9, BuildsApart DEF IInv

\* A step of build j that inserts no row: its new frame, status, mounts and file.
LEMMA BuildStep ==
  ASSUME IInv, NEW j \in Jobs, build[j].pc # "idle",
         NEW b \in BuildFrame, NEW s \in {"queued", "running", "succeeded", "failed"},
         NEW m \in SUBSET Mounts, NEW f \in FileState,
         build' = [build EXCEPT ![j] = b], job' = [job EXCEPT ![j] = s],
         mnt' = [mnt EXCEPT ![j] = m], file' = [file EXCEPT ![j] = f],
         stuck' \in {stuck, stuck \cup {j}},
         UNCHANGED <<image, vm, req, crashes, died, late>>,
         b.pc \in Working => build[j].pc \in Working,
         b.pc # "idle" => s \in {"queued", "running"},
         b.pc = "idle" => s \in {"succeeded", "failed"},
         b.pc \in {"idle", "end"} => b.held = {},
         b.won => b.pc \in {"cleanup", "end"},
         b.pc = "insert" => f = "ok" /\ m = {} /\ b.held = {},
         b.won \/ s = "succeeded" => f \in {"ok", "none"} /\ m = {} /\ b.held = {},
         j \in died \cup stuck' \/ (m = b.held /\ f # "wiped"),
         build[j].pc \notin Working /\ (\E i \in Images : MadeBy(i, j)) =>
           /\ f = "ok" /\ m = {} /\ b.held = {} /\ s # "failed"
           /\ b.pc \in {"cleanup", "end"} => b.won
  PROVE  IInv'
<1>1. /\ build'[j] = b /\ job'[j] = s /\ mnt'[j] = m /\ file'[j] = f
      /\ \A k \in Jobs : k # j => /\ build'[k] = build[k] /\ job'[k] = job[k]
                                 /\ mnt'[k] = mnt[k] /\ file'[k] = file[k]
                                 /\ k \in stuck' <=> k \in stuck
  BY DEF IInv, TypeOK, Paths
<1>2. \A k \in Jobs : Fresh(k)' => Fresh(k)
  BY <1>1 DEF Fresh
<1>3. TypeOK'
  BY DEF IInv, TypeOK, Paths
<1>4. Builds'
  <2> SUFFICES ASSUME NEW k \in Jobs PROVE BuildOK(k)'
    BY DEF Builds
  <2>1. CASE k = j
    BY <1>1, <2>1 DEF BuildOK
  <2>2. CASE k # j
    BY <1>1, <2>2 DEF IInv, Builds, BuildOK
  <2> QED
    BY <2>1, <2>2
<1>5. Made'
  <2> SUFFICES ASSUME NEW k \in Jobs, NEW i \in Images, MadeBy(i, k) PROVE MadeOK(k)'
    BY DEF Made, MadeBy
  <2>1. MadeOK(k)
    BY DEF IInv, Made
  <2>2. CASE k = j
    BY <1>1, <1>2, <2>1, <2>2 DEF MadeOK, Fresh
  <2>3. CASE k # j
    BY <1>1, <1>2, <2>1, <2>3 DEF MadeOK
  <2> QED
    BY <2>2, <2>3
<1> QED
  BY <1>2, <1>3, <1>4, <1>5, BuildsApart DEF IInv
\* The frame of a handler that arrives.
LEMMA FrameOf ==
  ASSUME NEW f \in ReqFrame, NEW pc,
         [pc |-> pc, id |-> f.id, path |-> f.path] \in ReqFrame
  PROVE  /\ [f EXCEPT !.pc = pc] = [pc |-> pc, id |-> f.id, path |-> f.path]
         /\ \A i : [f EXCEPT !.pc = pc, !.id = i]
                     = [pc |-> pc, id |-> i, path |-> f.path]
         /\ \A p : [f EXCEPT !.pc = pc, !.path = p]
                     = [pc |-> pc, id |-> f.id, path |-> p]
<1> DEFINE g == [pc |-> pc, id |-> f.id, path |-> f.path]
<1>1. [f EXCEPT !.pc = pc] = g
  BY DEF ReqFrame
<1>2. g \in ReqFrame /\ g.pc = pc /\ g.id = f.id /\ g.path = f.path
  OBVIOUS
<1> HIDE DEF g
<1>3. ASSUME NEW i
      PROVE  [f EXCEPT !.pc = pc, !.id = i]
               = [pc |-> pc, id |-> i, path |-> f.path]
  <2>1. [f EXCEPT !.pc = pc, !.id = i] = [[f EXCEPT !.pc = pc] EXCEPT !.id = i]
    OBVIOUS
  <2>2. [g EXCEPT !.id = i] = [pc |-> g.pc, id |-> i, path |-> g.path]
    BY <1>2 DEF ReqFrame
  <2> QED
    BY <1>1, <1>2, <2>1, <2>2, Zenon
<1>4. ASSUME NEW p
      PROVE  [f EXCEPT !.pc = pc, !.path = p]
               = [pc |-> pc, id |-> f.id, path |-> p]
  <2>1. [f EXCEPT !.pc = pc, !.path = p] = [[f EXCEPT !.pc = pc] EXCEPT !.path = p]
    OBVIOUS
  <2>2. [g EXCEPT !.path = p] = [pc |-> g.pc, id |-> g.id, path |-> p]
    BY <1>2 DEF ReqFrame
  <2> QED
    BY <1>1, <1>2, <2>1, <2>2, Zenon
<1> QED
  BY <1>1, <1>2, <1>3, <1>4 DEF g

LEMMA IdleFrame ==
  IdleReq \in ReqFrame /\ IdleReq.id = NoId /\ IdleReq.path = NoId
BY DEF IdleReq, ReqFrame

\* The arrival of a handler, and its first checks.
LEMMA ArriveInv ==
  ASSUME IInv, NEW r \in Requests,
         RegisterArrive(r) \/ UpdateArrive(r) \/ DeleteArrive(r) \/ CreateArrive(r)
  PROVE  IInv'
<1>1. TypeOK /\ Rows /\ Made
  BY DEF IInv
<1>2. CASE RegisterArrive(r)
  <2>1. PICK p \in Paths : Arrive(r, [IdleReq EXCEPT !.pc = "register", !.path = p])
    BY <1>2 DEF RegisterArrive
  <2> DEFINE g == [pc |-> "register", id |-> NoId, path |-> p]
  <2>2. g = [IdleReq EXCEPT !.pc = "register", !.path = p]
    <3>1. [pc |-> "register", id |-> IdleReq.id, path |-> IdleReq.path] \in ReqFrame
      BY IdleFrame DEF ReqFrame
    <3>2. [IdleReq EXCEPT !.pc = "register", !.path = p]
            = [pc |-> "register", id |-> IdleReq.id, path |-> p]
      BY <3>1, FrameOf, IdleFrame, Zenon
    <3> QED
      BY <3>2, IdleFrame, Zenon
  <2>3. g \in ReqFrame /\ Sound(g)
    BY DEF ReqFrame, Sound
  <2>4. req' = [req EXCEPT ![r] = g]
    BY <2>1, <2>2, Zenon DEF Arrive
  <2> HIDE DEF g
  <2> QED
    BY <1>2, <2>3, <2>4, NewFrame DEF RegisterArrive
<1>3. ASSUME NEW i \in Images, NEW pc \in {"update", "create"},
             Arrive(r, [IdleReq EXCEPT !.pc = pc, !.id = i]),
             UNCHANGED <<image, file, vm, building, crashes, history>>
      PROVE  IInv'
  <2> DEFINE g == [pc |-> pc, id |-> i, path |-> NoId]
  <2>1. g = [IdleReq EXCEPT !.pc = pc, !.id = i]
    <3>1. [pc |-> pc, id |-> IdleReq.id, path |-> IdleReq.path] \in ReqFrame
      BY IdleFrame DEF ReqFrame
    <3>2. IdleReq \in ReqFrame
      BY IdleFrame
    <3>3. \A x : [IdleReq EXCEPT !.pc = pc, !.id = x] = [pc |-> pc, id |-> x, path |-> IdleReq.path]
      BY <3>1, <3>2, FrameOf, Zenon
    <3> QED
      BY <3>3, IdleFrame, Zenon
  <2>2. g \in ReqFrame /\ Sound(g)
    BY DEF ReqFrame, Sound
  <2>3. req' = [req EXCEPT ![r] = g]
    BY <1>3, <2>1, Zenon DEF Arrive
  <2> HIDE DEF g
  <2> QED
    BY <1>3, <2>2, <2>3, NewFrame
<1>4. CASE DeleteArrive(r)
  <2>1. PICK i \in Registered :
               Arrive(r, [pc |-> "count", id |-> i,
                          path |-> IF image[i].managed THEN image[i].path ELSE NoId])
    BY <1>4 DEF DeleteArrive
  <2> DEFINE p == IF image[i].managed THEN image[i].path ELSE NoId
             g == [pc |-> "count", id |-> i, path |-> p]
  <2>2. i \in Images /\ p \in Paths \cup {NoId}
    BY <1>1 DEF Registered, TypeOK, ImageRow
  <2>3. p # NoId => /\ p \in Jobs /\ ~Fresh(p)
                    /\ \A k \in Images : MadeBy(k, p) => k = i
    BY <1>1, <2>2 DEF Rows, Made, MadeBy, MadeOK
  <2>4. g \in ReqFrame
    BY <2>2 DEF ReqFrame
  <2>5. Sound(g)
    BY <2>2, <2>3 DEF Sound
  <2>6. req' = [req EXCEPT ![r] = g]
    BY <2>1 DEF Arrive
  <2> HIDE DEF g
  <2> QED
    BY <1>4, <2>4, <2>5, <2>6, NewFrame DEF DeleteArrive
<1>5. CASE UpdateArrive(r)
  BY <1>3, <1>5 DEF UpdateArrive, Registered
<1>6. CASE CreateArrive(r)
  BY <1>3, <1>6 DEF CreateArrive, Registered
<1> QED
  BY <1>2, <1>4, <1>5, <1>6

\* An unused image may go; a used one stays.
LEMMA CountInv == ASSUME IInv, NEW r \in Requests, DeleteCount(r) PROVE IInv'
<1>1. CASE UsedBy(req[r].id) # {}
  BY <1>1, FinishInv DEF DeleteCount
<1>2. CASE UsedBy(req[r].id) = {}
  <2> DEFINE g == [pc |-> "drop_row", id |-> req[r].id, path |-> req[r].path]
  <2>1. req[r] \in ReqFrame /\ Sound(req[r]) /\ req[r].pc = "count"
    BY DEF IInv, TypeOK, Frames, DeleteCount
  <2>2. g \in ReqFrame /\ g = [req[r] EXCEPT !.pc = "drop_row"]
    BY <2>1 DEF ReqFrame
  <2>3. Sound(g)
    BY <1>2, <2>1 DEF Sound
  <2>4. req' = [req EXCEPT ![r] = g]
    BY <1>2, <2>2, Zenon DEF DeleteCount, Goto
  <2> HIDE DEF g
  <2> QED
    BY <2>2, <2>3, <2>4, NewFrame DEF DeleteCount
<1> QED
  BY <1>1, <1>2

\* What a new or rewritten row must respect.
LEMMA RowsKept ==
  ASSUME IInv, NEW i \in Images, NEW w \in ImageRow, w.status = "none" <=> w.path = NoId,
         image' = [image EXCEPT ![i] = w],
         w.managed => image[i].managed /\ w.path = image[i].path /\ w.status # "none"
  PROVE  /\ image' \in [Images -> ImageRow]
         /\ \A k \in Images : image'[k].status = "none" <=> image'[k].path = NoId
         /\ Rows'
         /\ \A j : \A k \in Images : (MadeBy(k, j))' => MadeBy(k, j)
<1>1. /\ image'[i] = w /\ image \in [Images -> ImageRow]
      /\ \A k \in Images : k # i => image'[k] = image[k]
  BY DEF IInv, TypeOK
<1>2. \A j : \A k \in Images : (MadeBy(k, j))' => MadeBy(k, j)
  BY <1>1 DEF MadeBy
<1>3. \A k \in Images : image'[k].status = "none" <=> image'[k].path = NoId
  BY <1>1 DEF IInv, TypeOK
<1>4. Rows'
  BY <1>1 DEF IInv, Rows, MadeBy
<1> QED
  BY <1>1, <1>2, <1>3, <1>4
\* A step that writes or removes a row with the last step of its handler.
LEMMA ImageStep ==
  ASSUME IInv, NEW i \in Images, NEW w \in ImageRow, w.status = "none" <=> w.path = NoId,
         image' = [image EXCEPT ![i] = w],
         w.managed => image[i].managed /\ w.path = image[i].path /\ w.status # "none",
         NEW r \in Requests, NEW g \in ReqFrame, req' = [req EXCEPT ![r] = g], Sound(g)',
         UNCHANGED <<file, vm, building, crashes, history>>
  PROVE  IInv'
<1>1. /\ image' \in [Images -> ImageRow] /\ Rows'
      /\ \A k \in Images : image'[k].status = "none" <=> image'[k].path = NoId
      /\ \A j : \A k \in Images : (MadeBy(k, j))' => MadeBy(k, j)
  BY RowsKept
<1>2. TypeOK'
  BY <1>1 DEF IInv, TypeOK, building, history
<1>3. Frames'
  <2> SUFFICES ASSUME NEW q \in Requests PROVE Sound(req[q])'
    BY DEF Frames
  <2>1. CASE q = r
    BY <2>1 DEF IInv, TypeOK, Sound
  <2>2. CASE q # r
    <3>1. req'[q] = req[q] /\ Sound(req[q])
      BY <2>2 DEF IInv, TypeOK, Frames
    <3> QED
      BY <1>1, <3>1 DEF Sound, Fresh, building, history
  <2> QED
    BY <2>1, <2>2
<1>4. Builds'
  BY DEF IInv, building, history, Builds, BuildOK
<1>5. Made'
  <2> SUFFICES ASSUME NEW j \in Jobs, NEW k \in Images, MadeBy(k, j)' PROVE MadeOK(j)'
    BY DEF Made
  <2>1. MadeOK(j)
    BY <1>1 DEF IInv, Made
  <2> QED
    BY <2>1 DEF MadeOK, Fresh, building, history
<1> QED
  BY <1>1, <1>2, <1>3, <1>4, <1>5 DEF IInv

LEMMA RegisterInv == ASSUME IInv, NEW r \in Requests, RegisterBaseImage(r) PROVE IInv'
<1>1. PICK i \in NewImage, status \in ImageStatus : Inserted(i, status, req[r].path, FALSE)
  BY DEF RegisterBaseImage
<1> DEFINE w == [status |-> status, path |-> req[r].path, managed |-> FALSE]
<1>2. i \in Images /\ req[r].path \in Paths
  BY <1>1 DEF NewImage, IInv, Frames, Sound, RegisterBaseImage
<1>3. w \in ImageRow /\ w.status # "none" /\ w.path # NoId /\ ~w.managed
  BY <1>2, ImageAssumption DEF ImageRow, ImageStatus, Paths
<1>4. image' = [image EXCEPT ![i] = w]
  BY <1>1 DEF Inserted
<1>5. IdleReq \in ReqFrame /\ Sound(IdleReq)' /\ req' = [req EXCEPT ![r] = IdleReq]
  BY DEF IdleReq, ReqFrame, Sound, RegisterBaseImage, Finish
<1> HIDE DEF w
<1> QED
  BY <1>2, <1>3, <1>4, <1>5, ImageStep DEF RegisterBaseImage

LEMMA UpdateInv == ASSUME IInv, NEW r \in Requests, UpdateBaseImageStatus(r) PROVE IInv'
<1> DEFINE i == req[r].id
<1>1. CASE i \notin Registered
  <2>1. UNCHANGED image
    BY <1>1 DEF UpdateBaseImageStatus
  <2> QED
    BY <2>1, FinishInv DEF UpdateBaseImageStatus
<1>2. CASE i \in Registered
  <2>1. PICK status \in ImageStatus : image' = [image EXCEPT ![i].status = status]
    BY <1>2 DEF UpdateBaseImageStatus
  <2> DEFINE w == [status |-> status, path |-> image[i].path, managed |-> image[i].managed]
  <2>2. i \in Images /\ image[i] \in ImageRow /\ image[i].path # NoId
    BY <1>2 DEF Registered, IInv, TypeOK
  <2>3. w \in ImageRow /\ w.status # "none" /\ w.path = image[i].path
        /\ (w.managed <=> image[i].managed)
    BY <2>2 DEF ImageRow, ImageStatus
  <2>4. [image[i] EXCEPT !.status = status] = w
    BY <2>2 DEF ImageRow
  <2>5. image' = [image EXCEPT ![i] = w]
    BY <2>1, <2>4, Zenon
  <2>6. IdleReq \in ReqFrame /\ Sound(IdleReq)' /\ req' = [req EXCEPT ![r] = IdleReq]
    BY DEF IdleReq, ReqFrame, Sound, UpdateBaseImageStatus, Finish
  <2> HIDE DEF w
  <2> QED
    BY <2>2, <2>3, <2>5, <2>6, ImageStep DEF UpdateBaseImageStatus
<1> QED
  BY <1>1, <1>2

LEMMA DeleteRowInv == ASSUME IInv, NEW r \in Requests, DeleteRow(r) PROVE IInv'
<1>1. req[r] \in ReqFrame /\ Sound(req[r]) /\ req[r].pc = "drop_row" /\ req[r].id \in Images
  BY DEF IInv, TypeOK, Frames, Sound, DeleteRow
<1>2. PICK i \in Images, p \in Paths \cup {NoId} : req[r].id = i /\ req[r].path = p
  BY <1>1 DEF ReqFrame
<1>3. NoImage \in ImageRow /\ NoImage.status = "none" /\ NoImage.path = NoId /\ ~NoImage.managed
  BY DEF NoImage, ImageRow
<1>4. image' = [image EXCEPT ![i] = NoImage] /\ UNCHANGED <<file, vm, building, crashes, history>>
  BY <1>2 DEF DeleteRow
<1>5. CASE p = NoId
  <2>1. IdleReq \in ReqFrame /\ Sound(IdleReq)' /\ req' = [req EXCEPT ![r] = IdleReq]
    BY <1>2, <1>5 DEF IdleReq, ReqFrame, Sound, DeleteRow, Finish
  <2> QED
    BY <1>3, <1>4, <2>1, ImageStep
<1>6. CASE p # NoId
  <2> DEFINE g == [pc |-> "drop_file", id |-> i, path |-> p]
  <2>1. g \in ReqFrame /\ g = [req[r] EXCEPT !.pc = "drop_file"]
    BY <1>1, <1>2 DEF ReqFrame
  <2>2. req' = [req EXCEPT ![r] = g]
    BY <1>2, <1>6, <2>1, Zenon DEF DeleteRow, Goto
  <2>3. p \in Jobs /\ ~Fresh(p) /\ \A k \in Images : MadeBy(k, p) => k = i
    BY <1>1, <1>2, <1>6 DEF Sound
  <2>4. \A k \in Images : ~MadeBy(k, p)'
    BY <1>3, <1>4, <2>3 DEF MadeBy, IInv, TypeOK
  <2>5. Sound(g)'
    BY <1>4, <1>6, <2>3, <2>4 DEF Sound, Fresh, building, history
  <2> HIDE DEF g
  <2> QED
    BY <1>3, <1>4, <2>1, <2>2, <2>5, ImageStep
<1> QED
  BY <1>5, <1>6

\* The file goes after the row: no image stands for it.
LEMMA DeleteFileInv == ASSUME IInv, NEW r \in Requests, DeleteFile(r) PROVE IInv'
<1>1. PICK p \in Paths \cup {NoId} : req[r].path = p
  BY DEF IInv, TypeOK, ReqFrame
<1>2. p \in Jobs /\ ~Fresh(p) /\ \A k \in Images : ~MadeBy(k, p)
  BY <1>1 DEF IInv, Frames, Sound, DeleteFile
<1>3. /\ file' = [file EXCEPT ![p] = "none"] /\ req' = [req EXCEPT ![r] = IdleReq]
      /\ UNCHANGED <<image, vm, job, mnt, build, crashes, died, stuck, late>>
  BY <1>1 DEF DeleteFile, Finish, building, history
<1>4. /\ IdleReq \in ReqFrame /\ req'[r] = IdleReq
      /\ \A q \in Requests : q # r => req'[q] = req[q]
      /\ file'[p] = "none" /\ \A k \in Jobs : k # p => file'[k] = file[k]
  BY <1>2, <1>3, IdleFrame DEF IInv, TypeOK, Paths
<1>5. TypeOK'
  BY <1>3, <1>4 DEF IInv, TypeOK, FileState, history
<1>6. Rows'
  BY <1>3 DEF IInv, Rows, MadeBy
<1>7. Frames'
  <2> SUFFICES ASSUME NEW q \in Requests PROVE Sound(req[q])'
    BY DEF Frames
  <2>1. Sound(IdleReq)'
    BY DEF Sound, IdleReq
  <2>2. CASE q # r
    BY <1>3, <1>4, <2>2 DEF IInv, Frames, Sound, Fresh, MadeBy
  <2> QED
    BY <1>4, <2>1, <2>2 DEF Sound
<1>8. Builds'
  <2> SUFFICES ASSUME NEW j \in Jobs PROVE BuildOK(j)'
    BY DEF Builds
  <2>1. BuildOK(j)
    BY DEF IInv, Builds
  <2>2. CASE j = p
    BY <1>2, <1>3, <1>4, <2>1, <2>2 DEF BuildOK, Fresh, Working
  <2>3. CASE j # p
    BY <1>3, <1>4, <2>1, <2>3 DEF BuildOK
  <2> QED
    BY <2>2, <2>3
<1>9. Made'
  BY <1>2, <1>3, <1>4 DEF IInv, Made, MadeBy, MadeOK, Fresh
<1> QED
  BY <1>5, <1>6, <1>7, <1>8, <1>9 DEF IInv

\* A VM comes: no deletion and no build looks at it.
LEMMA CreateInv == ASSUME IInv, NEW r \in Requests, CreateInsert(r) PROVE IInv'
<1>1. /\ \E v \in VMs : vm' = [vm EXCEPT ![v] = req[r].id]
      /\ late' \subseteq VMs
  BY DEF CreateInsert, IInv, TypeOK
<1>2. /\ req' = [req EXCEPT ![r] = IdleReq]
      /\ UNCHANGED <<image, file, job, mnt, build, crashes, died, stuck>>
  BY DEF CreateInsert, Finish, building, history
<1>3. /\ req'[r] = IdleReq /\ req[r].id \in Images \cup {NoId}
      /\ \A q \in Requests : q # r => req'[q] = req[q]
  BY <1>2 DEF IInv, TypeOK, ReqFrame
<1>4. TypeOK'
  BY <1>1, <1>2, <1>3, IdleFrame DEF IInv, TypeOK
<1>5. Rows' /\ Builds' /\ Made'
  BY <1>2, HandlersApart DEF building, history
<1>6. Frames'
  <2> SUFFICES ASSUME NEW q \in Requests PROVE Sound(req[q])'
    BY DEF Frames
  <2>1. CASE q = r
    BY <1>3, <2>1 DEF Sound, IdleReq
  <2>2. CASE q # r
    BY <1>2, <1>3, <2>2 DEF IInv, Frames, Sound, Fresh, MadeBy
  <2> QED
    BY <2>1, <2>2
<1> QED
  BY <1>4, <1>5, <1>6 DEF IInv

\* A VM goes.
LEMMA DeleteVMInv == ASSUME IInv, DeleteVM PROVE IInv'
<1>1. UNCHANGED <<image, file, req, job, mnt, build, crashes, died, stuck>>
  BY DEF DeleteVM, building, history
<1>2. TypeOK'
  BY <1>1 DEF DeleteVM, IInv, TypeOK
<1>3. Rows' /\ Builds' /\ Made'
  BY <1>1, HandlersApart DEF building, history
<1>4. Frames'
  BY <1>1 DEF IInv, Frames, Sound, Fresh, MadeBy
<1> QED
  BY <1>2, <1>3, <1>4 DEF IInv

\* Two fields of a build's frame at once.
HoldTo(j, pc, x) == build' = [build EXCEPT ![j].pc = pc, ![j].held = x]
WinTo(j, pc, x) == build' = [build EXCEPT ![j].pc = pc, ![j].won = x]

LEMMA BuildHold ==
  ASSUME TypeOK, NEW j \in Jobs, NEW pc, NEW x,
         [pc |-> pc, held |-> build[j].held, won |-> build[j].won] \in BuildFrame,
         HoldTo(j, pc, x)
  PROVE  build' = [build EXCEPT ![j] = [pc |-> pc, held |-> x, won |-> build[j].won]]
<1>1. PICK f \in BuildFrame : f = build[j]
  BY DEF TypeOK
<1>2. PICK g \in BuildFrame : g = [pc |-> pc, held |-> f.held, won |-> f.won]
  BY <1>1
<1>3. [f EXCEPT !.pc = pc] = g
  BY <1>2 DEF BuildFrame
<1>4. [g EXCEPT !.held = x] = [pc |-> g.pc, held |-> x, won |-> g.won]
  BY DEF BuildFrame
<1>5. g.pc = pc /\ g.held = f.held /\ g.won = f.won
  BY <1>2
<1>6. [build EXCEPT ![j].pc = pc] = [build EXCEPT ![j] = g]
  BY <1>1, <1>3, Zenon
<1>7. [build EXCEPT ![j] = g][j] = g
  BY DEF TypeOK
<1>8. \A y : [[build EXCEPT ![j] = g] EXCEPT ![j] = y] = [build EXCEPT ![j] = y]
  BY DEF TypeOK
<1>9. [build EXCEPT ![j].pc = pc, ![j].held = x]
        = [[build EXCEPT ![j] = g] EXCEPT ![j] = [g EXCEPT !.held = x]]
  BY <1>6, <1>7, Zenon
<1> QED
  BY <1>1, <1>4, <1>5, <1>8, <1>9, Zenon DEF HoldTo

LEMMA BuildWin ==
  ASSUME TypeOK, NEW j \in Jobs, NEW pc, NEW x,
         [pc |-> pc, held |-> build[j].held, won |-> build[j].won] \in BuildFrame,
         WinTo(j, pc, x)
  PROVE  build' = [build EXCEPT ![j] = [pc |-> pc, held |-> build[j].held, won |-> x]]
<1>1. PICK f \in BuildFrame : f = build[j]
  BY DEF TypeOK
<1>2. PICK g \in BuildFrame : g = [pc |-> pc, held |-> f.held, won |-> f.won]
  BY <1>1
<1>3. [f EXCEPT !.pc = pc] = g
  BY <1>2 DEF BuildFrame
<1>4. [g EXCEPT !.won = x] = [pc |-> g.pc, held |-> g.held, won |-> x]
  BY DEF BuildFrame
<1>5. g.pc = pc /\ g.held = f.held /\ g.won = f.won
  BY <1>2
<1>6. [build EXCEPT ![j].pc = pc] = [build EXCEPT ![j] = g]
  BY <1>1, <1>3, Zenon
<1>7. [build EXCEPT ![j] = g][j] = g
  BY DEF TypeOK
<1>8. \A y : [[build EXCEPT ![j] = g] EXCEPT ![j] = y] = [build EXCEPT ![j] = y]
  BY DEF TypeOK
<1>9. [build EXCEPT ![j].pc = pc, ![j].won = x]
        = [[build EXCEPT ![j] = g] EXCEPT ![j] = [g EXCEPT !.won = x]]
  BY <1>6, <1>7, Zenon
<1> QED
  BY <1>1, <1>4, <1>5, <1>8, <1>9, Zenon DEF WinTo

\* A build makes its image.
LEMMA InsertInv == ASSUME IInv, NEW j \in Jobs, BuildInsert(j) PROVE IInv'
<1>1. PICK i \in NewImage : Inserted(i, "active", j, TRUE)
  BY DEF BuildInsert
<1>2. build[j].pc = "insert" /\ BuildOK(j) /\ build[j] \in BuildFrame /\ TypeOK
  BY DEF BuildInsert, BuildAt, IInv, Builds, TypeOK
<1> DEFINE b == [pc |-> "cleanup", held |-> build[j].held, won |-> TRUE]
           w == [status |-> "active", path |-> j, managed |-> TRUE]
<1>3. b \in BuildFrame /\ [pc |-> "cleanup", held |-> build[j].held, won |-> build[j].won] \in BuildFrame
  BY <1>2 DEF BuildFrame
<1>4. build' = [build EXCEPT ![j] = b]
  <2>1. WinTo(j, "cleanup", TRUE)
    BY DEF BuildInsert, WinTo
  <2> QED
    BY <1>2, <1>3, <2>1, BuildWin
<1>5. /\ i \in Images /\ image[i].status = "none" /\ UsedBy(i) = {}
      /\ \A r \in Requests : req[r].id # i
  BY <1>1 DEF NewImage, Registered
<1>6. \A k \in Images : ~MadeBy(k, j)
  BY DEF BuildInsert, PathTaken, Registered, MadeBy, IInv, Rows
<1>7. /\ image' = [image EXCEPT ![i] = w]
      /\ UNCHANGED <<file, vm, job, mnt, req, crashes, history>>
  BY <1>1 DEF Inserted, BuildInsert
<1>8. /\ image'[i].managed /\ image'[i].path = j /\ image'[i].status = "active"
      /\ \A k \in Images : k # i => image'[k] = image[k]
      /\ build'[j].pc = "cleanup" /\ build'[j].held = build[j].held /\ build'[j].won
      /\ \A k \in Jobs : k # j => build'[k] = build[k]
  BY <1>2, <1>4, <1>5, <1>7 DEF TypeOK
<1>9. TypeOK'
  <2>1. w \in ImageRow /\ w.status # "none" /\ w.path # NoId
    BY ImageAssumption DEF ImageRow, ImageStatus, Paths
  <2> HIDE DEF w, b
  <2>2. image' \in [Images -> ImageRow] /\ build' \in [Jobs -> BuildFrame]
    BY <1>2, <1>3, <1>4, <1>7, <2>1 DEF TypeOK
  <2>3. \A k \in Images : image'[k].status = "none" <=> image'[k].path = NoId
    BY <1>2, <1>5, <1>7, <2>1 DEF TypeOK
  <2> QED
    BY <1>2, <1>7, <2>2, <2>3 DEF TypeOK, history
<1>10. \A k \in Images, l \in Jobs : MadeBy(k, l)' => (k = i /\ l = j) \/ (l # j /\ MadeBy(k, l))
  BY <1>6, <1>8 DEF MadeBy
<1>11. Rows'
  <2> SUFFICES ASSUME NEW k \in Images, image'[k].managed
               PROVE  /\ image'[k].path \in Jobs /\ image'[k].status # "none"
                      /\ \A l \in Images : MadeBy(l, image[k].path)' => l = k
    BY DEF Rows
  <2>1. CASE k = i
    BY <1>8, <1>10, <2>1 DEF MadeBy
  <2>2. CASE k # i
    BY <1>6, <1>8, <1>10, <2>2 DEF IInv, Rows, MadeBy
  <2> QED
    BY <2>1, <2>2
<1>12. Frames'
  <2> SUFFICES ASSUME NEW r \in Requests PROVE Sound(req[r])'
    BY DEF Frames
  <2>1. Sound(req[r])
    BY DEF IInv, Frames
  <2>2. ASSUME NEW p \in Jobs, ~Fresh(p)
        PROVE  ~Fresh(p)' /\ \A k \in Images : MadeBy(k, p)' => MadeBy(k, p)
    <3>1. p # j
      BY <1>2, <2>2 DEF Fresh, Working
    <3> QED
      BY <1>7, <1>8, <1>10, <2>2, <3>1 DEF Fresh
  <2> QED
    BY <1>7, <2>1, <2>2 DEF Sound, UsedBy
<1>13. Builds'
  <2> SUFFICES ASSUME NEW k \in Jobs PROVE BuildOK(k)'
    BY DEF Builds
  <2>1. BuildOK(k)
    BY DEF IInv, Builds
  <2>2. CASE k = j
    BY <1>2, <1>7, <1>8, <2>2 DEF BuildOK, history
  <2>3. CASE k # j
    BY <1>7, <1>8, <2>1, <2>3 DEF BuildOK, history
  <2> QED
    BY <2>2, <2>3
<1>14. Made'
  <2> SUFFICES ASSUME NEW l \in Jobs, NEW k \in Images, MadeBy(k, l)' PROVE MadeOK(l)'
    BY DEF Made
  <2>1. CASE l = j
    BY <1>2, <1>7, <1>8, <2>1 DEF BuildOK, MadeOK, Fresh, Working
  <2>2. CASE l # j
    <3>1. MadeOK(l)
      BY <1>10, <2>2 DEF IInv, Made
    <3> QED
      BY <1>7, <1>8, <2>2, <3>1 DEF MadeOK, Fresh
  <2> QED
    BY <2>1, <2>2
<1> QED
  BY <1>9, <1>11, <1>12, <1>13, <1>14 DEF IInv

\* The daemon dies with all its goroutines, and starts again.
LEMMA CrashInv == ASSUME IInv, Crash PROVE IInv'
<1>1. /\ image' \in [Images -> ImageRow] /\ Rows'
      /\ \A k \in Images : image'[k].status = "none" <=> image'[k].path = NoId
      /\ \A j : \A k \in Images : MadeBy(k, j)' => MadeBy(k, j)
  <2>1. CASE UNCHANGED image
    BY <2>1 DEF IInv, TypeOK, Rows, MadeBy
  <2>2. ASSUME NEW i \in NewImage, Inserted(i, "active", Configured, FALSE)
        PROVE  /\ image' \in [Images -> ImageRow] /\ Rows'
               /\ \A k \in Images : image'[k].status = "none" <=> image'[k].path = NoId
               /\ \A j : \A k \in Images : MadeBy(k, j)' => MadeBy(k, j)
    <3> DEFINE w == [status |-> "active", path |-> Configured, managed |-> FALSE]
    <3>1. w \in ImageRow /\ w.status # "none" /\ w.path # NoId /\ ~w.managed
      BY ImageAssumption DEF ImageRow, ImageStatus, Paths
    <3>2. image' = [image EXCEPT ![i] = w] /\ i \in Images
      BY <2>2 DEF Inserted, NewImage
    <3> HIDE DEF w
    <3> QED
      BY <3>1, <3>2, RowsKept
  <2> QED
    BY <2>1, <2>2 DEF Crash, EnsureDefaultBaseImage
<1>2. /\ req' = [r \in Requests |-> IdleReq] /\ build' = [j \in Jobs |-> IdleBuild]
      /\ UNCHANGED <<file, vm, job, mnt, stuck, late>>
  BY DEF Crash
<1>3. /\ \A j \in Jobs : build'[j].pc = "idle" /\ build'[j].held = {} /\ ~build'[j].won
      /\ build' \in [Jobs -> BuildFrame]
  BY <1>2 DEF IdleBuild, BuildFrame
<1>4. /\ died \subseteq died' /\ died' \subseteq Jobs
      /\ \A j \in Jobs : j \notin died' => build[j].pc = "idle"
  BY DEF Crash, AtWork, IInv, TypeOK
<1>5. TypeOK'
  <2>1. crashes' \in 0..MaxCrashes
    BY ImageAssumption DEF Crash, IInv, TypeOK
  <2> QED
    BY <1>1, <1>2, <1>3, <1>4, <2>1, IdleFrame DEF IInv, TypeOK
<1>6. Frames'
  BY <1>2 DEF Frames, Sound, IdleReq
<1>7. Builds'
  <2> SUFFICES ASSUME NEW j \in Jobs PROVE BuildOK(j)'
    BY DEF Builds
  <2>1. BuildOK(j)
    BY DEF IInv, Builds
  <2> QED
    BY <1>2, <1>3, <1>4, <2>1 DEF BuildOK
<1>8. Made'
  <2> SUFFICES ASSUME NEW j \in Jobs, NEW k \in Images, MadeBy(k, j)' PROVE MadeOK(j)'
    BY DEF Made
  <2>1. MadeOK(j)
    BY <1>1 DEF IInv, Made
  <2> QED
    BY <1>2, <1>3, <2>1 DEF MadeOK, Fresh, Working
<1> QED
  BY <1>1, <1>5, <1>6, <1>7, <1>8 DEF IInv

\* The steps of a build that only make it go on.
LEMMA GoInv ==
  ASSUME IInv, NEW j \in Jobs, NEW pc \in Working \cup {"cleanup"}, pc # "insert",
         build[j].pc \in Working, BuildGoto(j, pc),
         NEW s \in {"queued", "running"}, job' = [job EXCEPT ![j] = s],
         NEW m \in SUBSET Mounts, mnt' = [mnt EXCEPT ![j] = m],
         NEW f \in {file[j], "raw"}, file' = [file EXCEPT ![j] = f],
         stuck' \in {stuck, stuck \cup {j}}, m = mnt[j] \/ j \in stuck',
         UNCHANGED <<image, vm, req, crashes, died, late>>
  PROVE  IInv'
<1> DEFINE b == [pc |-> pc, held |-> build[j].held, won |-> build[j].won]
<1>1. TypeOK /\ BuildOK(j) /\ build[j] \in BuildFrame /\ mnt[j] \in SUBSET Mounts
  BY DEF IInv, Builds, TypeOK
<1>2. /\ build[j].pc \notin {"idle", "cleanup", "end"} /\ ~build[j].won
      /\ pc \notin {"idle", "end"}
  BY <1>1 DEF Working, BuildOK
<1>3. b \in BuildFrame /\ b.pc = pc /\ b.held = build[j].held /\ b.won = build[j].won
  BY <1>1 DEF BuildFrame, Working
<1>4. build' = [build EXCEPT ![j] = b]
  BY <1>1, BuildTo
<1>5. j \in died \cup stuck' \/ (m = b.held /\ f # "wiped")
  BY <1>1, <1>3 DEF BuildOK
<1>6. f \in FileState
  BY DEF IInv, TypeOK, FileState, Paths
<1> HIDE DEF b
<1> QED
  BY <1>1, <1>2, <1>3, <1>4, <1>5, <1>6, BuildStep

LEMMA RunInv ==
  ASSUME IInv, NEW j \in Jobs,
         BuildLock(j) \/ BuildCreate(j) \/ BuildHooks(j) \/ BuildFail(j) \/ MountFail(j)
  PROVE  IInv'
<1>1. /\ mnt[j] \in SUBSET Mounts /\ mnt = [mnt EXCEPT ![j] = mnt[j]]
      /\ job = [job EXCEPT ![j] = job[j]] /\ file = [file EXCEPT ![j] = file[j]]
  BY DEF IInv, TypeOK, Paths
<1>2. build[j].pc # "idle" => job[j] \in {"queued", "running"}
  BY DEF IInv, Builds, BuildOK
<1>3. CASE BuildLock(j)
  <2>1. build[j].pc \in Working /\ "create" \in Working /\ BuildGoto(j, "create")
    BY <1>3 DEF BuildLock, BuildAt, Working
  <2> QED
    BY <1>1, <1>3, <2>1, GoInv DEF BuildLock, history
<1>4. CASE BuildCreate(j)
  <2>1. /\ build[j].pc \in Working /\ "mount" \in Working /\ BuildGoto(j, "mount")
        /\ job[j] \in {"queued", "running"}
    BY <1>2, <1>4 DEF BuildCreate, BuildAt, Working
  <2> QED
    BY <1>1, <1>4, <2>1, GoInv DEF BuildCreate, history
<1>5. CASE BuildHooks(j)
  <2>1. /\ build[j].pc \in Working /\ "unbind" \in Working /\ BuildGoto(j, "unbind")
        /\ job[j] \in {"queued", "running"}
    BY <1>2, <1>5 DEF BuildHooks, BuildAt, Working
  <2> QED
    BY <1>1, <1>5, <2>1, GoInv DEF BuildHooks, history
<1>6. CASE BuildFail(j)
  <2>1. /\ build[j].pc \in Working /\ BuildGoto(j, "cleanup")
        /\ job[j] \in {"queued", "running"}
    BY <1>2, <1>6 DEF BuildFail, Working
  <2> QED
    BY <1>1, <1>6, <2>1, GoInv DEF BuildFail, history
<1>7. CASE MountFail(j)
  <2>1. PICK m \in SUBSET Mounts : mnt' = [mnt EXCEPT ![j] = m]
    BY <1>1, <1>7 DEF MountFail
  <2>2. /\ build[j].pc \in Working /\ BuildGoto(j, "cleanup")
        /\ job[j] \in {"queued", "running"}
    BY <1>2, <1>7 DEF MountFail, BuildAt, Working
  <2> QED
    BY <1>1, <1>7, <2>1, <2>2, GoInv DEF MountFail
<1> QED
  BY <1>3, <1>4, <1>5, <1>6, <1>7

\* A mount is made, and remembered.
LEMMA MountingInv ==
  ASSUME IInv, NEW j \in Jobs, NEW x \in Mounts, Mounting(j, x),
         BuildAt(j, IF x = "root" THEN "mount" ELSE "bind")
  PROVE  IInv'
<1> DEFINE pc == IF x = "root" THEN "bind" ELSE "hooks"
           h == build[j].held \cup {x}
           b == [pc |-> pc, held |-> h, won |-> build[j].won]
           m == mnt[j] \cup {x}
<1>1. TypeOK /\ BuildOK(j) /\ build[j] \in BuildFrame /\ mnt[j] \in SUBSET Mounts
  BY DEF IInv, Builds, TypeOK
<1>2. build[j].pc \in {"mount", "bind"} /\ ~build[j].won
  BY <1>1 DEF BuildAt, BuildOK
<1>3. /\ b \in BuildFrame /\ b.pc = pc /\ b.held = h /\ b.won = build[j].won
      /\ [pc |-> pc, held |-> build[j].held, won |-> build[j].won] \in BuildFrame
  BY <1>1 DEF BuildFrame
<1>4. HoldTo(j, pc, h)
  BY DEF Mounting, HoldTo
<1>5. build' = [build EXCEPT ![j] = b]
  BY <1>1, <1>3, <1>4, BuildHold
<1>6. m \in SUBSET Mounts /\ mnt' = [mnt EXCEPT ![j] = m]
  BY <1>1 DEF Mounting
<1>7. /\ job[j] \in {"queued", "running"} /\ job' = [job EXCEPT ![j] = job[j]]
      /\ file[j] \in FileState /\ file' = [file EXCEPT ![j] = file[j]]
      /\ UNCHANGED <<image, vm, req, crashes, history>>
  BY <1>1, <1>2 DEF Mounting, TypeOK, Paths, BuildOK
<1>8. j \in died \cup stuck \/ (m = b.held /\ file[j] # "wiped")
  BY <1>1, <1>3 DEF BuildOK
<1>9. build[j].pc \in Working /\ pc \in {"bind", "hooks"}
  BY <1>2 DEF Working
<1> HIDE DEF b, m, h, pc
<1> QED
  BY <1>1, <1>2, <1>3, <1>5, <1>6, <1>7, <1>8, <1>9, BuildStep DEF history

\* What was mounted in the image is unmounted, or not.
LEMMA UnbindInv == ASSUME IInv, NEW j \in Jobs, BuildUnbind(j) PROVE IInv'
<1> DEFINE b == [pc |-> "umount", held |-> {"root"}, won |-> build[j].won]
<1>1. TypeOK /\ BuildOK(j) /\ build[j] \in BuildFrame /\ mnt[j] \in SUBSET Mounts
  BY DEF IInv, Builds, TypeOK
<1>2. build[j].pc = "unbind" /\ ~build[j].won
  BY <1>1 DEF BuildUnbind, BuildAt, BuildOK
<1>3. /\ b \in BuildFrame /\ b.pc = "umount" /\ b.held = {"root"} /\ b.won = build[j].won
      /\ [pc |-> "umount", held |-> build[j].held, won |-> build[j].won] \in BuildFrame
  BY <1>1 DEF BuildFrame, Mounts
<1>4. build' = [build EXCEPT ![j] = b]
  <2>1. HoldTo(j, "umount", {"root"})
    BY DEF BuildUnbind, HoldTo
  <2> QED
    BY <1>1, <1>3, <2>1, BuildHold
<1>5. PICK m \in SUBSET Mounts : /\ mnt' = [mnt EXCEPT ![j] = m]
                                 /\ stuck' \in {stuck, stuck \cup {j}}
                                 /\ m = {"root"} \/ j \in stuck'
  <2>1. CASE mnt' = [mnt EXCEPT ![j] = {"root"}] /\ UNCHANGED stuck
    BY <2>1 DEF Mounts
  <2>2. CASE stuck' = stuck \cup {j} /\ UNCHANGED mnt
    BY <1>1, <2>2 DEF TypeOK
  <2> QED
    BY <2>1, <2>2 DEF BuildUnbind
<1>6. /\ job[j] \in {"queued", "running"} /\ job' = [job EXCEPT ![j] = job[j]]
      /\ file[j] \in FileState /\ file' = [file EXCEPT ![j] = file[j]]
      /\ UNCHANGED <<image, vm, req, crashes, died, late>>
  BY <1>1, <1>2 DEF BuildUnbind, TypeOK, Paths, BuildOK
<1>7. j \in died \cup stuck' \/ (m = b.held /\ file[j] # "wiped")
  BY <1>1, <1>3, <1>5 DEF BuildOK
<1>8. build[j].pc \in Working
  BY <1>2 DEF Working
<1> HIDE DEF b
<1> QED
  BY <1>1, <1>2, <1>3, <1>4, <1>5, <1>6, <1>7, <1>8, BuildStep

\* The image is unmounted: it is whole.
LEMMA UmountInv == ASSUME IInv, NEW j \in Jobs, BuildUmount(j) PROVE IInv'
<1> DEFINE b == [pc |-> "insert", held |-> {}, won |-> build[j].won]
<1>1. TypeOK /\ BuildOK(j) /\ build[j] \in BuildFrame
  BY DEF IInv, Builds, TypeOK
<1>2. build[j].pc = "umount" /\ ~build[j].won
  BY <1>1 DEF BuildUmount, BuildAt, BuildOK
<1>3. /\ b \in BuildFrame /\ b.pc = "insert" /\ b.held = {} /\ b.won = build[j].won
      /\ [pc |-> "insert", held |-> build[j].held, won |-> build[j].won] \in BuildFrame
  BY <1>1 DEF BuildFrame
<1>4. build' = [build EXCEPT ![j] = b]
  <2>1. HoldTo(j, "insert", {})
    BY DEF BuildUmount, HoldTo
  <2> QED
    BY <1>1, <1>3, <2>1, BuildHold
<1>5. /\ job[j] \in {"queued", "running"} /\ job' = [job EXCEPT ![j] = job[j]]
      /\ mnt' = [mnt EXCEPT ![j] = {}] /\ file' = [file EXCEPT ![j] = "ok"] /\ "ok" \in FileState
      /\ UNCHANGED <<image, vm, req, crashes, history>>
  BY <1>1, <1>2 DEF BuildUmount, TypeOK, BuildOK, FileState
<1>6. build[j].pc \in Working
  BY <1>2 DEF Working
<1> HIDE DEF b
<1> QED
  BY <1>1, <1>2, <1>3, <1>4, <1>5, <1>6, BuildStep DEF history

\* The cleanup: whatever it leaves behind is known to be stuck.
LEMMA CleanupInv == ASSUME IInv, NEW j \in Jobs, BuildCleanup(j) PROVE IInv'
<1> DEFINE b == [pc |-> "end", held |-> {}, won |-> build[j].won]
<1>1. TypeOK /\ BuildOK(j) /\ build[j] \in BuildFrame /\ mnt[j] \in SUBSET Mounts
      /\ file[j] \in FileState
  BY DEF IInv, Builds, TypeOK, Paths
<1>2. build[j].pc = "cleanup"
  BY DEF BuildCleanup, BuildAt
<1>3. /\ b \in BuildFrame /\ b.pc = "end" /\ b.held = {} /\ b.won = build[j].won
      /\ [pc |-> "end", held |-> build[j].held, won |-> build[j].won] \in BuildFrame
  BY <1>1 DEF BuildFrame
<1>4. build' = [build EXCEPT ![j] = b]
  <2>1. HoldTo(j, "end", {})
    BY DEF BuildCleanup, HoldTo
  <2> QED
    BY <1>1, <1>3, <2>1, BuildHold
<1>5. PICK gone \in SUBSET build[j].held :
        /\ mnt' = [mnt EXCEPT ![j] = mnt[j] \ gone]
        /\ file' = IF "root" \in mnt[j] \ gone THEN [file EXCEPT ![j] = "wiped"] ELSE file
        /\ stuck' = IF gone = build[j].held THEN stuck ELSE stuck \cup {j}
  BY DEF BuildCleanup
<1>6. PICK m \in SUBSET Mounts, f \in FileState :
        /\ m = mnt[j] \ gone /\ f = IF "root" \in m THEN "wiped" ELSE file[j]
  BY <1>1 DEF FileState
<1>7. mnt' = [mnt EXCEPT ![j] = m] /\ file' = [file EXCEPT ![j] = f]
  BY <1>1, <1>5, <1>6 DEF TypeOK
<1>8. j \in died \cup stuck' \/ (m = {} /\ f # "wiped")
  BY <1>1, <1>5, <1>6 DEF BuildOK
<1>9. /\ job[j] \in {"queued", "running"} /\ job' = [job EXCEPT ![j] = job[j]]
      /\ UNCHANGED <<image, vm, req, crashes, died, late>>
  BY <1>1, <1>2 DEF BuildCleanup, TypeOK, BuildOK
<1>10. build[j].won => f \in {"ok", "none"} /\ m = {}
  BY <1>1, <1>6 DEF BuildOK
<1>11. ASSUME NEW i \in Images, MadeBy(i, j)
       PROVE  f = "ok" /\ m = {} /\ build[j].won
  BY <1>2, <1>6, <1>11 DEF IInv, Made, MadeOK
<1>12. stuck' \in {stuck, stuck \cup {j}} /\ "end" \notin Working
  BY <1>5 DEF Working
<1> HIDE DEF b
<1> QED
  BY <1>1, <1>2, <1>3, <1>4, <1>7, <1>8, <1>9, <1>10, <1>11, <1>12, BuildStep

\* The build returns, and its job ends.
LEMMA EndInv == ASSUME IInv, NEW j \in Jobs, BuildEnd(j) PROVE IInv'
<1>1. TypeOK /\ BuildOK(j) /\ mnt[j] \in SUBSET Mounts /\ file[j] \in FileState
  BY DEF IInv, Builds, TypeOK, Paths
<1>2. build[j].pc = "end" /\ build[j].held = {}
  BY <1>1 DEF BuildEnd, BuildAt, BuildOK
<1>3. /\ IdleBuild \in BuildFrame /\ IdleBuild.pc = "idle" /\ IdleBuild.held = {} /\ ~IdleBuild.won
      /\ "idle" \notin Working
  BY DEF IdleBuild, BuildFrame, Working
<1>4. PICK s \in {"succeeded", "failed"} : s = IF build[j].won THEN "succeeded" ELSE "failed"
  OBVIOUS
<1>5. /\ job' = [job EXCEPT ![j] = s] /\ build' = [build EXCEPT ![j] = IdleBuild]
      /\ mnt' = [mnt EXCEPT ![j] = mnt[j]] /\ file' = [file EXCEPT ![j] = file[j]]
      /\ UNCHANGED <<image, vm, req, crashes, history>>
  BY <1>4 DEF BuildEnd, IInv, TypeOK
<1>6. j \in died \cup stuck \/ (mnt[j] = {} /\ file[j] # "wiped")
  BY <1>1, <1>2 DEF BuildOK
<1>7. s = "succeeded" => file[j] \in {"ok", "none"} /\ mnt[j] = {}
  BY <1>1, <1>4 DEF BuildOK
<1>8. ASSUME NEW i \in Images, MadeBy(i, j)
      PROVE  file[j] = "ok" /\ mnt[j] = {} /\ s # "failed"
  BY <1>2, <1>4, <1>8 DEF IInv, Made, MadeOK
<1> QED
  BY <1>1, <1>2, <1>3, <1>5, <1>6, <1>7, <1>8, BuildStep DEF history

LEMMA NextInv == ASSUME IInv, Next PROVE IInv'
<1>1. ASSUME NEW r \in Requests,
             Register(r) \/ Update(r) \/ Delete(r) \/ Create(r) \/ Fail(r)
      PROVE  IInv'
  <2>1. CASE Fail(r)
    BY <2>1, FinishInv DEF Fail
  <2> QED
    BY <1>1, <2>1, ArriveInv, RegisterInv, UpdateInv, CountInv, DeleteRowInv, DeleteFileInv,
       CreateInv DEF Register, Update, Delete, Create
<1>2. ASSUME NEW j \in Jobs, BuildLock(j) \/ Build(j) PROVE IInv'
  <2>1. CASE BuildMount(j)
    <3>1. "root" \in Mounts /\ Mounting(j, "root")
          /\ BuildAt(j, IF "root" = "root" THEN "mount" ELSE "bind")
      BY <2>1 DEF BuildMount, Mounts
    <3> QED
      BY <3>1, MountingInv
  <2>2. CASE BuildBind(j)
    <3>1. "inner" \in Mounts /\ Mounting(j, "inner")
          /\ BuildAt(j, IF "inner" = "root" THEN "mount" ELSE "bind")
      BY <2>2 DEF BuildBind, Mounts
    <3> QED
      BY <3>1, MountingInv
  <2> QED
    BY <1>2, <2>1, <2>2, RunInv, UnbindInv, UmountInv, InsertInv, CleanupInv, EndInv DEF Build
<1> QED
  BY <1>1, <1>2, StartInv, DeleteVMInv, CrashInv DEF Next

LEMMA Invariant == Spec => []IInv
<1>1. IInv /\ [Next]_vars => IInv'
  <2> SUFFICES ASSUME IInv, UNCHANGED vars PROVE IInv'
    BY NextInv
  <2>1. UNCHANGED <<image, file, vm, job, mnt, build, req, crashes, died, stuck, late>>
    BY DEF vars
  <2>2. Rows' /\ Builds' /\ Made'
    BY <2>1, HandlersApart DEF building, history
  <2>3. TypeOK' /\ Frames'
    BY <2>1 DEF IInv, TypeOK, Frames, Sound, Fresh, MadeBy
  <2> QED
    BY <2>2, <2>3 DEF IInv
<1> QED
  BY <1>1, InitInv, PTL DEF Spec

-----------------------------------------------------------------------------
(* The theorems.                                                            *)

\* Rows, files, mounts and frames keep their types under every step.
THEOREM TypeCorrect == Spec => []TypeOK
<1>1. IInv => TypeOK
  BY DEF IInv
<1> QED
  BY <1>1, Invariant, PTL

\* The row that a build has made stands for a file that was filled and unmounted and
\* that no cleanup has gone through, whatever fails, is deleted or registered meanwhile.
THEOREM BuiltImagesWhole == Spec => []BuiltIntact
<1>1. IInv => BuiltIntact
  BY DEF IInv, BuiltIntact, Rows, Made, MadeBy, MadeOK, Registered
<1> QED
  BY <1>1, Invariant, PTL

\* A build that has returned has ended its job, successfully if and only if it has made
\* an image, and leaves mounted only what it could not unmount or did not know of.
THEOREM BuildsDoSettle == Spec => []BuildsSettle
<1>1. ASSUME IInv PROVE BuildsSettle
  <2>1. SUFFICES ASSUME NEW j \in Jobs \ died
                 PROVE  /\ build[j].pc = "idle" =>
                             /\ job[j] \in {"none", "succeeded", "failed"}
                             /\ job[j] = "succeeded" => file[j] \in {"ok", "none"} /\ mnt[j] = {}
                             /\ job[j] = "failed" => \A i \in Images : ~MadeBy(i, j)
                             /\ mnt[j] # {} => j \in stuck
                        /\ file[j] = "wiped" => j \in stuck
    BY DEF BuildsSettle, MadeBy, Registered
  <2>2. BuildOK(j) /\ \A i \in Images : MadeBy(i, j) => job[j] # "failed"
    BY <1>1, <2>1 DEF IInv, Builds, Made, MadeOK
  <2> QED
    BY <2>1, <2>2 DEF BuildOK
<1> QED
  BY <1>1, Invariant, PTL

-----------------------------------------------------------------------------
(* The images of VMs.  A deletion that has counted has found no VM on the    *)
(* image, and whoever is inserted from then on is late.                     *)

Kept == \A v \in VMs \ late : vm[v] # NoId => ~Counted(vm[v])

\* A row stays registered, or a deletion that has counted takes it.
Registering == \A i \in Registered : i \in Registered' \/ Counted(i)

\* A step that brings no deletion past its count and inserts or deletes no VM.
LEMMA KeptApart ==
  ASSUME IInv, Kept, UNCHANGED <<vm, late>>, Registering,
         \A q \in Requests, i \in Images :
           (req[q].pc = "drop_row" /\ req[q].id = i)' => req[q].pc = "drop_row" /\ req[q].id = i
  PROVE  Kept'
<1> SUFFICES ASSUME NEW v \in VMs \ late, vm[v] # NoId PROVE ~Counted(vm[v])'
  BY DEF Kept
<1>1. vm[v] \in Images /\ ~Counted(vm[v])
  BY DEF Kept, IInv, TypeOK
<1>2. vm[v] \in Registered'
  BY <1>1 DEF Registering, Counted
<1>3. \A q \in Requests : ~(req[q].pc = "drop_row" /\ req[q].id = vm[v])'
  BY <1>1 DEF Counted
<1> QED
  BY <1>2, <1>3 DEF Counted

\* A new row, or a new status of a row.
LEMMA RowRegisters ==
  ASSUME IInv, NEW i \in Images, NEW w, w.status # "none", image' = [image EXCEPT ![i] = w]
  PROVE  Registering
BY DEF Registering, Registered, IInv, TypeOK

\* A handler's frame that is not past a count.
LEMMA FrameKept ==
  ASSUME IInv, Kept, NEW r \in Requests, NEW g, g.pc # "drop_row",
         req' = [req EXCEPT ![r] = g], UNCHANGED <<vm, late>>, Registering
  PROVE  Kept'
<1>1. \A q \in Requests : req'[q] = IF q = r THEN g ELSE req[q]
  BY DEF IInv, TypeOK
<1>2. \A q \in Requests, i \in Images :
        (req[q].pc = "drop_row" /\ req[q].id = i)' => req[q].pc = "drop_row" /\ req[q].id = i
  BY <1>1
<1> QED
  BY <1>2, KeptApart

LEMMA FinishKept ==
  ASSUME IInv, Kept, NEW r \in Requests, Finish(r), UNCHANGED <<vm, late>>, Registering
  PROVE  Kept'
BY FrameKept DEF Finish, IdleReq

\* The images' handlers, up to the deletion's count.
LEMMA HandlerKept ==
  ASSUME IInv, Kept, NEW r \in Requests, Register(r) \/ Update(r) \/ CreateArrive(r) \/ Fail(r)
  PROVE  Kept'
<1>1. UNCHANGED <<vm, late>>
  BY DEF Register, RegisterArrive, RegisterBaseImage, Update, UpdateArrive, UpdateBaseImageStatus,
         CreateArrive, Fail, history
<1>2. CASE UNCHANGED image /\ \E g : g.pc # "drop_row" /\ req' = [req EXCEPT ![r] = g]
  BY <1>1, <1>2, FrameKept DEF Registering, Registered
<1>3. CASE Fail(r)
  BY <1>2, <1>3 DEF Fail, Finish, IdleReq
<1>4. ASSUME NEW g, g.pc # "drop_row", Arrive(r, g), UNCHANGED image PROVE Kept'
  BY <1>2, <1>4 DEF Arrive
<1>5. CASE RegisterArrive(r)
  <2>1. PICK p \in Paths : Arrive(r, [IdleReq EXCEPT !.pc = "register", !.path = p])
    BY <1>5 DEF RegisterArrive
  <2>2. [IdleReq EXCEPT !.pc = "register", !.path = p].pc = "register"
    BY DEF IdleReq
  <2> QED
    BY <1>4, <1>5, <2>1, <2>2 DEF RegisterArrive
<1>6. ASSUME NEW i, NEW pc \in {"update", "create"},
             Arrive(r, [IdleReq EXCEPT !.pc = pc, !.id = i]), UNCHANGED image
      PROVE  Kept'
  <2>1. [IdleReq EXCEPT !.pc = pc, !.id = i].pc = pc
    BY DEF IdleReq
  <2> QED
    BY <1>4, <1>6, <2>1
<1>7. CASE UpdateArrive(r)
  BY <1>6, <1>7 DEF UpdateArrive
<1>8. CASE CreateArrive(r)
  BY <1>6, <1>8 DEF CreateArrive
<1>9. CASE RegisterBaseImage(r)
  <2>1. PICK i \in NewImage, status \in ImageStatus : Inserted(i, status, req[r].path, FALSE)
    BY <1>9 DEF RegisterBaseImage
  <2>2. Registering
    BY <2>1, RowRegisters DEF Inserted, NewImage, ImageStatus
  <2> QED
    BY <1>1, <1>9, <2>2, FinishKept DEF RegisterBaseImage
<1>10. CASE UpdateBaseImageStatus(r)
  <2>1. Registering
    BY <1>10 DEF UpdateBaseImageStatus, ImageStatus, Registering, Registered, IInv, TypeOK, ImageRow
  <2> QED
    BY <1>1, <1>10, <2>1, FinishKept DEF UpdateBaseImageStatus
<1> QED
  BY <1>3, <1>5, <1>7, <1>8, <1>9, <1>10 DEF Register, Update

\* The deletion: no VM is on the image when it counts, and it takes the row only after.
LEMMA DeleteKept == ASSUME IInv, Kept, NEW r \in Requests, Delete(r) PROVE Kept'
<1>1. UNCHANGED <<vm, late>>
  BY DEF Delete, DeleteArrive, DeleteCount, DeleteRow, DeleteFile, history
<1>2. CASE DeleteArrive(r)
  <2>1. PICK g : g.pc # "drop_row" /\ req' = [req EXCEPT ![r] = g]
    BY <1>2 DEF DeleteArrive, Arrive
  <2> QED
    BY <1>1, <1>2, <2>1, FrameKept DEF DeleteArrive, Registering, Registered
<1>3. CASE DeleteCount(r) /\ UsedBy(req[r].id) # {}
  BY <1>1, <1>3, FinishKept DEF DeleteCount, Registering, Registered
<1>4. CASE DeleteCount(r) /\ UsedBy(req[r].id) = {}
  <2>1. /\ req' = [req EXCEPT ![r].pc = "drop_row"] /\ UNCHANGED image
        /\ req[r] \in ReqFrame
    BY <1>4 DEF DeleteCount, Goto, IInv, TypeOK
  <2>2. \A q \in Requests : req'[q].id = req[q].id /\ (q # r => req'[q].pc = req[q].pc)
    BY <2>1 DEF IInv, TypeOK, ReqFrame
  <2> SUFFICES ASSUME NEW v \in VMs \ late, vm[v] # NoId PROVE ~Counted(vm[v])'
    BY <1>1 DEF Kept
  <2>3. ~Counted(vm[v]) /\ vm[v] # req[r].id
    BY <1>4 DEF Kept, UsedBy
  <2> QED
    BY <1>1, <2>1, <2>2, <2>3 DEF Counted, Registered
<1>5. CASE DeleteRow(r)
  <2>1. Registering
    BY <1>5 DEF DeleteRow, Registering, Registered, Counted, IInv, TypeOK
  <2>2. CASE req[r].path = NoId
    BY <1>1, <1>5, <2>1, <2>2, FinishKept DEF DeleteRow
  <2>3. CASE req[r].path # NoId
    <3>1. /\ req' = [req EXCEPT ![r].pc = "drop_file"] /\ req[r] \in ReqFrame
      BY <1>5, <2>3 DEF DeleteRow, Goto, IInv, TypeOK
    <3>2. \A q \in Requests : req'[q].pc = "drop_row" =>
                                req[q].pc = "drop_row" /\ req'[q].id = req[q].id
      BY <3>1 DEF IInv, TypeOK, ReqFrame
    <3> QED
      BY <1>1, <2>1, <3>2, KeptApart
  <2> QED
    BY <2>2, <2>3
<1>6. CASE DeleteFile(r)
  BY <1>1, <1>6, FinishKept DEF DeleteFile, Registering, Registered
<1> QED
  BY <1>2, <1>3, <1>4, <1>5, <1>6 DEF Delete

\* A VM that is inserted after a count is late, and one that goes no longer counts.
LEMMA VMsKept ==
  ASSUME IInv, Kept, DeleteVM \/ \E r \in Requests : CreateInsert(r)
  PROVE  Kept'
<1>1. CASE DeleteVM
  BY <1>1 DEF DeleteVM, Kept, Counted, Registered, IInv, TypeOK
<1>2. ASSUME NEW r \in Requests, CreateInsert(r) PROVE Kept'
  <2>1. PICK v \in VMs : /\ vm' = [vm EXCEPT ![v] = req[r].id]
                         /\ late' = IF Counted(req[r].id) THEN late \cup {v} ELSE late
    BY <1>2 DEF CreateInsert
  <2>2. /\ UNCHANGED image /\ req' = [req EXCEPT ![r] = IdleReq]
    BY <1>2 DEF CreateInsert, Finish
  <2>3. \A i : Counted(i)' => Counted(i)
    BY <2>2 DEF Counted, Registered, IdleReq, IInv, TypeOK
  <2> QED
    BY <2>1, <2>3 DEF Kept, IInv, TypeOK
<1> QED
  BY <1>1, <1>2

\* The builds register an image at most, and after a crash no deletion is under way.
LEMMA BuildsKept ==
  ASSUME IInv, Kept, Crash \/ StartImageBuild \/ \E j \in Jobs : BuildLock(j) \/ Build(j)
  PROVE  Kept'
<1>1. UNCHANGED <<vm, late>>
  BY DEF Crash, StartImageBuild, BuildLock, Build, BuildCreate, BuildMount, BuildBind, Mounting, MountFail,
         BuildHooks, BuildUnbind, BuildUmount, BuildInsert, BuildFail, BuildCleanup, BuildEnd, history
<1>2. Registering
  <2>1. CASE UNCHANGED image
    BY <2>1 DEF Registering, Registered
  <2>2. ASSUME NEW i \in NewImage, NEW p, NEW m, Inserted(i, "active", p, m) PROVE Registering
    BY <2>2, RowRegisters DEF Inserted, NewImage
  <2> QED
    BY <2>1, <2>2 DEF Crash, EnsureDefaultBaseImage, StartImageBuild, BuildLock, Build, BuildCreate,
       BuildMount, BuildBind, Mounting, MountFail, BuildHooks, BuildUnbind, BuildUmount, BuildInsert,
       BuildFail, BuildCleanup, BuildEnd
<1>3. \A q \in Requests : req'[q].pc = "drop_row" => req'[q] = req[q]
  <2>1. CASE Crash
    BY <2>1 DEF Crash, IdleReq
  <2>2. CASE StartImageBuild \/ \E j \in Jobs : BuildLock(j) \/ Build(j)
    <3>1. UNCHANGED req
      BY <2>2 DEF StartImageBuild, BuildLock, Build, BuildCreate, BuildMount, BuildBind, Mounting,
         MountFail, BuildHooks, BuildUnbind, BuildUmount, BuildInsert, BuildFail, BuildCleanup, BuildEnd
    <3> QED
      BY <3>1
  <2> QED
    BY <2>1, <2>2
<1> QED
  BY <1>1, <1>2, <1>3, KeptApart

\* A VM names an image that is gone only if its row was inserted after the deletion had
\* counted the image's users: a deletion that finds a user ends, and whatever has failed,
\* restarted or been deleted twice meanwhile, one that finds none takes no VM's image but
\* those inserted since.
THEOREM ImagesOfVMs == Spec => []VMsHaveImage
<1>1. Init => Kept
  BY DEF Init, Kept
<1>2. ASSUME IInv, Kept, [Next]_vars PROVE Kept'
  <2>1. CASE UNCHANGED vars
    BY <1>2, <2>1 DEF vars, Kept, Counted, Registered
  <2>2. CASE Next
    BY <1>2, <2>2, HandlerKept, DeleteKept, VMsKept, BuildsKept DEF Next, Create
  <2> QED
    BY <1>2, <2>1, <2>2
<1>3. IInv /\ Kept => VMsHaveImage
  BY DEF Kept, Counted, VMsHaveImage
<1> QED
  BY <1>1, <1>2, <1>3, Invariant, PTL DEF Spec
=============================================================================
