--------------------------- MODULE Firewall_proofs ---------------------------
(***************************************************************************)
(* Proofs about Firewall, for any number of VMs, policies, ingress rules,   *)
(* handlers and faults: every undisturbed rebuild of the table implements   *)
(* PacketFilter, and only a handler that has been overtaken loses an egress *)
(* choice or leaves a VM with a policy that is gone.                        *)
(***************************************************************************)
EXTENDS Firewall, TLAPS

(* Frames. *)

LEMMA NothingType == Nothing \in [VMs -> Egress \cup {NoId}]
  BY DEF Nothing

LEMMA NewRowType == NewRow \in Row
  BY FirewallAssumption DEF NewRow, Row, States, Egress

LEMMA AskType ==
    ASSUME NEW op \in AllOps \cup {"none", "apply"}, NEW l \in PCs
    PROVE  Ask(op, l) \in Frame
  <1>1. "allow_all" \in Egress
    BY FirewallAssumption DEF Egress
  <1> QED
    BY <1>1, NothingType, NewRowType DEF Frame, Ask

LEMMA IdleType == IdleFrame \in Frame
  BY AskType DEF IdleFrame, PCs

\* A frame after one of its fields has been set.
LEMMA FieldType ==
    ASSUME NEW f \in Frame
    PROVE  /\ \A l \in PCs : [f EXCEPT !.pc = l] \in Frame
           /\ \A v \in VMs \cup {NoId} : [f EXCEPT !.vm = v] \in Frame
           /\ \A x \in Row : [f EXCEPT !.row = x] \in Frame
           /\ \A e \in Egress : [f EXCEPT !.choice = e] \in Frame
           /\ \A i \in Rules \cup {NoId} : [f EXCEPT !.rule = i] \in Frame
           /\ \A s \in [VMs -> Egress \cup {NoId}] : [f EXCEPT !.seen = s] \in Frame
           /\ \A v \in VMs \cup {NoId} : [f EXCEPT !.cur = v] \in Frame
           /\ \A o \in SUBSET Rules : [f EXCEPT !.open = o] \in Frame
  BY DEF Frame

LEMMA Becomes ==
    ASSUME req \in [Handlers -> Frame], NEW r \in Handlers, NEW f \in Frame, Become(r, f)
    PROVE  /\ req' \in [Handlers -> Frame]
           /\ req'[r] = f
           /\ \A q \in Handlers \ {r} : req'[q] = req[q]
  BY DEF Become

\* A handler has read or written a row.
LEMMA SetRow ==
    ASSUME NEW f \in Frame, NEW x \in Row, NEW l \in PCs
    PROVE  /\ [f EXCEPT !.row = x, !.pc = l] \in Frame
           /\ [f EXCEPT !.row = x, !.pc = l] =
                [op |-> f.op, pc |-> l, vm |-> f.vm, row |-> x, choice |-> f.choice,
                 rule |-> f.rule, seen |-> f.seen, cur |-> f.cur, open |-> f.open]
  <1>1. PICK g1 \in Frame : g1 = [f EXCEPT !.row = x]
    BY FieldType
  <1>2. g1 =
        [op |-> f.op, pc |-> f.pc, vm |-> f.vm, row |-> x, choice |-> f.choice,
         rule |-> f.rule, seen |-> f.seen, cur |-> f.cur, open |-> f.open]
    BY <1>1 DEF Frame
  <1>3. PICK g2 \in Frame : g2 = [g1 EXCEPT !.pc = l]
    BY FieldType
  <1>4. g2 =
        [op |-> g1.op, pc |-> l, vm |-> g1.vm, row |-> g1.row, choice |-> g1.choice,
         rule |-> g1.rule, seen |-> g1.seen, cur |-> g1.cur, open |-> g1.open]
    BY <1>3 DEF Frame
  <1>5. g2 = [f EXCEPT !.row = x, !.pc = l]
    BY Zenon, <1>1, <1>3
  <1>6. g2 =
        [op |-> f.op, pc |-> l, vm |-> f.vm, row |-> x, choice |-> f.choice,
         rule |-> f.rule, seen |-> f.seen, cur |-> f.cur, open |-> f.open]
    BY <1>2, <1>4
  <1> QED
    BY <1>5, <1>6, g2 \in Frame

\* A request for an egress choice of a VM.
LEMMA SetEgress ==
    ASSUME NEW f \in Frame, NEW v \in VMs, NEW e \in Egress
    PROVE  /\ [f EXCEPT !.vm = v, !.choice = e] \in Frame
           /\ [f EXCEPT !.vm = v, !.choice = e] =
                [op |-> f.op, pc |-> f.pc, vm |-> v, row |-> f.row, choice |-> e,
                 rule |-> f.rule, seen |-> f.seen, cur |-> f.cur, open |-> f.open]
  <1>1. PICK g1 \in Frame : g1 = [f EXCEPT !.vm = v]
    BY FieldType
  <1>2. g1 =
        [op |-> f.op, pc |-> f.pc, vm |-> v, row |-> f.row, choice |-> f.choice,
         rule |-> f.rule, seen |-> f.seen, cur |-> f.cur, open |-> f.open]
    BY <1>1 DEF Frame
  <1>3. PICK g2 \in Frame : g2 = [g1 EXCEPT !.choice = e]
    BY FieldType
  <1>4. g2 =
        [op |-> g1.op, pc |-> g1.pc, vm |-> g1.vm, row |-> g1.row, choice |-> e,
         rule |-> g1.rule, seen |-> g1.seen, cur |-> g1.cur, open |-> g1.open]
    BY <1>3 DEF Frame
  <1>5. g2 = [f EXCEPT !.vm = v, !.choice = e]
    BY Zenon, <1>1, <1>3
  <1>6. g2 =
        [op |-> f.op, pc |-> f.pc, vm |-> v, row |-> f.row, choice |-> e,
         rule |-> f.rule, seen |-> f.seen, cur |-> f.cur, open |-> f.open]
    BY <1>2, <1>4
  <1> QED
    BY <1>5, <1>6, g2 \in Frame

\* A request about an ingress rule of a VM.
LEMMA SetRule ==
    ASSUME NEW f \in Frame, NEW v \in VMs, NEW i \in Rules
    PROVE  /\ [f EXCEPT !.vm = v, !.rule = i] \in Frame
           /\ [f EXCEPT !.vm = v, !.rule = i] =
                [op |-> f.op, pc |-> f.pc, vm |-> v, row |-> f.row, choice |-> f.choice,
                 rule |-> i, seen |-> f.seen, cur |-> f.cur, open |-> f.open]
  <1>1. PICK g1 \in Frame : g1 = [f EXCEPT !.vm = v]
    BY FieldType
  <1>2. g1 =
        [op |-> f.op, pc |-> f.pc, vm |-> v, row |-> f.row, choice |-> f.choice,
         rule |-> f.rule, seen |-> f.seen, cur |-> f.cur, open |-> f.open]
    BY <1>1 DEF Frame
  <1>3. PICK g2 \in Frame : g2 = [g1 EXCEPT !.rule = i]
    BY FieldType
  <1>4. g2 =
        [op |-> g1.op, pc |-> g1.pc, vm |-> g1.vm, row |-> g1.row, choice |-> g1.choice,
         rule |-> i, seen |-> g1.seen, cur |-> g1.cur, open |-> g1.open]
    BY <1>3 DEF Frame
  <1>5. g2 = [f EXCEPT !.vm = v, !.rule = i]
    BY Zenon, <1>1, <1>3
  <1>6. g2 =
        [op |-> f.op, pc |-> f.pc, vm |-> v, row |-> f.row, choice |-> f.choice,
         rule |-> i, seen |-> f.seen, cur |-> f.cur, open |-> f.open]
    BY <1>2, <1>4
  <1> QED
    BY <1>5, <1>6, g2 \in Frame

\* A handler has listed the VMs.
LEMMA SetSeen ==
    ASSUME NEW f \in Frame, NEW l \in PCs, NEW s \in [VMs -> Egress \cup {NoId}]
    PROVE  /\ [f EXCEPT !.pc = l, !.seen = s] \in Frame
           /\ [f EXCEPT !.pc = l, !.seen = s] =
                [op |-> f.op, pc |-> l, vm |-> f.vm, row |-> f.row, choice |-> f.choice,
                 rule |-> f.rule, seen |-> s, cur |-> f.cur, open |-> f.open]
  <1>1. PICK g1 \in Frame : g1 = [f EXCEPT !.pc = l]
    BY FieldType
  <1>2. g1 =
        [op |-> f.op, pc |-> l, vm |-> f.vm, row |-> f.row, choice |-> f.choice,
         rule |-> f.rule, seen |-> f.seen, cur |-> f.cur, open |-> f.open]
    BY <1>1 DEF Frame
  <1>3. PICK g2 \in Frame : g2 = [g1 EXCEPT !.seen = s]
    BY FieldType
  <1>4. g2 =
        [op |-> g1.op, pc |-> g1.pc, vm |-> g1.vm, row |-> g1.row, choice |-> g1.choice,
         rule |-> g1.rule, seen |-> s, cur |-> g1.cur, open |-> g1.open]
    BY <1>3 DEF Frame
  <1>5. g2 = [f EXCEPT !.pc = l, !.seen = s]
    BY Zenon, <1>1, <1>3
  <1>6. g2 =
        [op |-> f.op, pc |-> l, vm |-> f.vm, row |-> f.row, choice |-> f.choice,
         rule |-> f.rule, seen |-> s, cur |-> f.cur, open |-> f.open]
    BY <1>2, <1>4
  <1> QED
    BY <1>5, <1>6, g2 \in Frame

\* A rebuild begins with a VM, and ends with it.
LEMMA SetCur ==
    ASSUME NEW f \in Frame, NEW l \in PCs, NEW v \in VMs \cup {NoId}, NEW o \in SUBSET Rules
    PROVE  /\ [f EXCEPT !.pc = l, !.cur = v, !.open = o] \in Frame
           /\ [f EXCEPT !.pc = l, !.cur = v, !.open = o] =
                [op |-> f.op, pc |-> l, vm |-> f.vm, row |-> f.row, choice |-> f.choice,
                 rule |-> f.rule, seen |-> f.seen, cur |-> v, open |-> o]
  <1>1. PICK g1 \in Frame : g1 = [f EXCEPT !.pc = l]
    BY FieldType
  <1>2. g1 =
        [op |-> f.op, pc |-> l, vm |-> f.vm, row |-> f.row, choice |-> f.choice,
         rule |-> f.rule, seen |-> f.seen, cur |-> f.cur, open |-> f.open]
    BY <1>1 DEF Frame
  <1>3. PICK g2 \in Frame : g2 = [g1 EXCEPT !.cur = v]
    BY FieldType
  <1>4. g2 =
        [op |-> g1.op, pc |-> g1.pc, vm |-> g1.vm, row |-> g1.row, choice |-> g1.choice,
         rule |-> g1.rule, seen |-> g1.seen, cur |-> v, open |-> g1.open]
    BY <1>3 DEF Frame
  <1>5. PICK g3 \in Frame : g3 = [g2 EXCEPT !.open = o]
    BY FieldType
  <1>6. g3 =
        [op |-> g2.op, pc |-> g2.pc, vm |-> g2.vm, row |-> g2.row, choice |-> g2.choice,
         rule |-> g2.rule, seen |-> g2.seen, cur |-> g2.cur, open |-> o]
    BY <1>5 DEF Frame
  <1>7. g3 = [f EXCEPT !.pc = l, !.cur = v, !.open = o]
    BY Zenon, <1>1, <1>3, <1>5
  <1>8. g3 =
        [op |-> f.op, pc |-> l, vm |-> f.vm, row |-> f.row, choice |-> f.choice,
         rule |-> f.rule, seen |-> f.seen, cur |-> v, open |-> o]
    BY <1>2, <1>4, <1>6
  <1> QED
    BY <1>7, <1>8, g3 \in Frame

\* A rebuild has finished with a VM.
LEMMA SetDone ==
    ASSUME NEW f \in Frame, NEW l \in PCs, NEW v \in VMs \cup {NoId}, NEW o \in SUBSET Rules, NEW s \in [VMs -> Egress \cup {NoId}]
    PROVE  /\ [f EXCEPT !.pc = l, !.cur = v, !.open = o, !.seen = s] \in Frame
           /\ [f EXCEPT !.pc = l, !.cur = v, !.open = o, !.seen = s] =
                [op |-> f.op, pc |-> l, vm |-> f.vm, row |-> f.row, choice |-> f.choice,
                 rule |-> f.rule, seen |-> s, cur |-> v, open |-> o]
  <1>1. PICK g1 \in Frame : g1 = [f EXCEPT !.pc = l]
    BY FieldType
  <1>2. g1 =
        [op |-> f.op, pc |-> l, vm |-> f.vm, row |-> f.row, choice |-> f.choice,
         rule |-> f.rule, seen |-> f.seen, cur |-> f.cur, open |-> f.open]
    BY <1>1 DEF Frame
  <1>3. PICK g2 \in Frame : g2 = [g1 EXCEPT !.cur = v]
    BY FieldType
  <1>4. g2 =
        [op |-> g1.op, pc |-> g1.pc, vm |-> g1.vm, row |-> g1.row, choice |-> g1.choice,
         rule |-> g1.rule, seen |-> g1.seen, cur |-> v, open |-> g1.open]
    BY <1>3 DEF Frame
  <1>5. PICK g3 \in Frame : g3 = [g2 EXCEPT !.open = o]
    BY FieldType
  <1>6. g3 =
        [op |-> g2.op, pc |-> g2.pc, vm |-> g2.vm, row |-> g2.row, choice |-> g2.choice,
         rule |-> g2.rule, seen |-> g2.seen, cur |-> g2.cur, open |-> o]
    BY <1>5 DEF Frame
  <1>7. PICK g4 \in Frame : g4 = [g3 EXCEPT !.seen = s]
    BY FieldType
  <1>8. g4 =
        [op |-> g3.op, pc |-> g3.pc, vm |-> g3.vm, row |-> g3.row, choice |-> g3.choice,
         rule |-> g3.rule, seen |-> s, cur |-> g3.cur, open |-> g3.open]
    BY <1>7 DEF Frame
  <1>9. g4 = [f EXCEPT !.pc = l, !.cur = v, !.open = o, !.seen = s]
    BY Zenon, <1>1, <1>3, <1>5, <1>7
  <1>10. g4 =
        [op |-> f.op, pc |-> l, vm |-> f.vm, row |-> f.row, choice |-> f.choice,
         rule |-> f.rule, seen |-> s, cur |-> v, open |-> o]
    BY <1>2, <1>4, <1>6, <1>8
  <1> QED
    BY <1>9, <1>10, g4 \in Frame

-----------------------------------------------------------------------------
(* Types.                                                                  *)

\* What a frame holds where its handler stands.
Shape(f) ==
    /\ f.pc = "read" \/ f.row.state # "none" \/ f.op \in {"start", "stop", "delete"} =>
         f.vm \in VMs
    /\ f.pc = "read" => f.op # "create"
    /\ f.pc = "check" => f.op \in {"create", "set"}
    /\ f.pc \in {"mark", "commit"} => f.op \in {"start", "stop", "delete"}
    /\ \/ f.pc \in {"mark", "commit", "failed"}
       \/ f.op = "start" /\ f.pc # "read"
       \/ f.op = "set" /\ f.pc = "check"
       \/ f.op # "create" /\ f.pc = "write"
       => f.row.state # "none"
    /\ f.pc \in {"boot", "sweep"} => f.row.state = "none"
    /\ f.pc \in {"egress", "fill"} => f.cur \in VMs /\ f.seen[f.cur] # NoId

TypeInv == TypeOK /\ \A r \in Handlers : Shape(req[r])

DataOK ==
    /\ policy \in [Policies -> {"none", "live", "gone"}]
    /\ vm \in [VMs -> Row]
    /\ rule \in [Rules -> VMs \cup {NoId}]
    /\ table \in [up : BOOLEAN, rules : SUBSET Entries]

\* A step of handler r keeps the types and leaves the other frames alone.
Moves(r) ==
    /\ DataOK'
    /\ req' \in [Handlers -> Frame]
    /\ Shape(req'[r])
    /\ \A q \in Handlers \ {r} : req'[q] = req[q]

\* The frame of a handler becomes f.
LEMMA MoveFrame ==
    ASSUME TypeInv, DataOK', NEW r \in Handlers, NEW f \in Frame, Shape(f), Become(r, f)
    PROVE  Moves(r) /\ req'[r] = f
  <1>1. req \in [Handlers -> Frame]
    BY DEF TypeInv, TypeOK
  <1> QED
    BY <1>1, Becomes DEF Moves

LEMMA SameData == ASSUME TypeInv, UNCHANGED <<policy, vm, rule, table>> PROVE DataOK'
  BY DEF TypeInv, TypeOK, DataOK

LEMMA IdleShape == Shape(IdleFrame)
  BY DEF Shape, IdleFrame, Ask, NewRow

LEMMA MoveIdle ==
    ASSUME TypeInv, DataOK', NEW r \in Handlers, Finish(r)
    PROVE  Moves(r) /\ req'[r] = IdleFrame
  BY MoveFrame, IdleType, IdleShape DEF Finish

\* A handler moves on to a place that asks nothing of its frame.
LEMMA MoveOn ==
    ASSUME TypeInv, DataOK', NEW r \in Handlers, NEW l \in PCs, Goto(r, l),
           l \in {"mark", "commit"} => req[r].op \in {"start", "stop", "delete"},
           l \in {"egress", "fill"} => /\ req[r].cur \in VMs
                                       /\ req[r].seen[req[r].cur] # NoId,
           l \notin {"read", "check", "boot", "sweep"}, req[r].pc # "read",
           l \in {"mark", "commit", "failed", "write"} =>
               req[r].row.state # "none" \/ (l = "write" /\ req[r].op = "create")
    PROVE  Moves(r) /\ req'[r] = [req[r] EXCEPT !.pc = l]
  <1>1. PICK f \in Frame : f = req[r]
    BY DEF TypeInv, TypeOK
  <1>2. PICK g \in Frame : g = [f EXCEPT !.pc = l]
    BY FieldType
  <1>3. /\ g.pc = l /\ g.op = f.op /\ g.vm = f.vm /\ g.row = f.row
        /\ g.cur = f.cur /\ g.seen = f.seen
    BY <1>2 DEF Frame
  <1>4. Shape(f)
    BY <1>1 DEF TypeInv
  <1>5. Shape(g)
    BY <1>1, <1>3, <1>4 DEF Shape
  <1>6. Become(r, g)
    BY <1>1, <1>2 DEF Goto
  <1> QED
    BY <1>1, <1>2, <1>5, <1>6, MoveFrame

LEMMA SavedType ==
    ASSUME vm \in [VMs -> Row], NEW v, NEW x \in Row
    PROVE  Saved(v, x) \in [VMs -> Row]
  BY DEF Saved

LEMMA RowState ==
    ASSUME NEW x \in Row, NEW s \in States
    PROVE  /\ [x EXCEPT !.state = s] \in Row
           /\ [x EXCEPT !.state = s].egress = x.egress
           /\ [x EXCEPT !.state = s].state = s
  BY DEF Row

LEMMA RowEgress ==
    ASSUME NEW x \in Row, NEW e \in Egress
    PROVE  /\ [x EXCEPT !.egress = e] \in Row
           /\ [x EXCEPT !.egress = e].egress = e
           /\ [x EXCEPT !.egress = e].state = x.state
  BY DEF Row

LEMMA Typed ==
    ASSUME TypeInv, NEW r \in Handlers
    PROVE  /\ req[r] \in Frame
           /\ vm \in [VMs -> Row]
           /\ Shape(req[r])
           /\ req[r].op \in AllOps \cup {"none", "apply"}
           /\ req[r].pc \in PCs
           /\ req[r].vm \in VMs \cup {NoId}
           /\ req[r].row \in Row
           /\ req[r].choice \in Egress
           /\ req[r].rule \in Rules \cup {NoId}
           /\ req[r].seen \in [VMs -> Egress \cup {NoId}]
           /\ req[r].cur \in VMs \cup {NoId}
           /\ req[r].open \in SUBSET Rules
  <1>1. PICK f \in Frame : f = req[r]
    BY DEF TypeInv, TypeOK
  <1>2. /\ f.op \in AllOps \cup {"none", "apply"} /\ f.pc \in PCs
        /\ f.vm \in VMs \cup {NoId} /\ f.row \in Row /\ f.choice \in Egress
        /\ f.rule \in Rules \cup {NoId} /\ f.seen \in [VMs -> Egress \cup {NoId}]
        /\ f.cur \in VMs \cup {NoId} /\ f.open \in SUBSET Rules
    BY DEF Frame
  <1> QED
    BY <1>1, <1>2 DEF TypeInv, TypeOK

LEMMA RequestMoves ==
    ASSUME TypeInv, NEW r \in Handlers, Request(r)
    PROVE  Moves(r) /\ req'[r].row.state = "none" /\ req'[r].pc \notin {"write", "delete"}
  <1>1. DataOK'
    BY SameData DEF Request
  <1>2. /\ rule \in [Rules -> VMs \cup {NoId}]
        /\ "none" \in AllOps \cup {"none", "apply"} /\ NewRow.state = "none"
        /\ {"check", "read", "list", "count"} \subseteq PCs
    BY DEF TypeInv, TypeOK, PCs, NewRow
  <1> DEFINE Fresh(f) == /\ f \in Frame /\ Shape(f)
                         /\ f.row.state = "none" /\ f.pc \notin {"write", "delete"}
  <1>3. \A f : Fresh(f) /\ Become(r, f) => Moves(r) /\ Fresh(req'[r])
    BY <1>1, MoveFrame
  <1>4. PICK op \in Ops :
           \/ /\ op = "create"
              /\ \E e \in Egress : Become(r, [Ask(op, "check") EXCEPT !.choice = e])
           \/ /\ op \in {"start", "stop", "delete", "resize", "allow"}
              /\ \E v \in VMs : Present(v) /\ Become(r, [Ask(op, "read") EXCEPT !.vm = v])
           \/ /\ op = "set"
              /\ \E v \in VMs, e \in Egress :
                   Present(v) /\ Become(r, [Ask(op, "read") EXCEPT !.vm = v, !.choice = e])
           \/ /\ op = "revoke"
              /\ \E i \in Rules :
                   /\ rule[i] # NoId
                   /\ Become(r, [Ask(op, "read") EXCEPT !.vm = rule[i], !.rule = i])
           \/ op = "orphans" /\ Become(r, Ask("apply", "list"))
           \/ /\ op = "drop_policy"
              /\ \E p \in Policies :
                   /\ policy[p] = "live"
                   /\ Become(r, [Ask(op, "count") EXCEPT !.choice = p])
    BY DEF Request
  <1>5. op \in AllOps \cup {"none", "apply"}
    BY FirewallAssumption
  <1>6. \A l \in PCs : /\ Ask(op, l) \in Frame
                       /\ Ask(op, l).op = op /\ Ask(op, l).pc = l /\ Ask(op, l).row = NewRow
    BY <1>5, AskType DEF Ask
  <1>7. CASE op = "create" /\ \E e \in Egress : Become(r, [Ask(op, "check") EXCEPT !.choice = e])
    <2>1. PICK e \in Egress : Become(r, [Ask(op, "check") EXCEPT !.choice = e])
      BY <1>7
    <2>2. PICK g \in Frame : g = [Ask(op, "check") EXCEPT !.choice = e]
      BY <1>2, <1>6, FieldType
    <2>3. g.pc = "check" /\ g.row = NewRow /\ g.op = op
      BY <2>2 DEF Ask
    <2> QED
      BY <1>2, <1>3, <1>7, <2>1, <2>2, <2>3 DEF Shape
  <1>8. CASE /\ op \in {"start", "stop", "delete", "resize", "allow"}
             /\ \E v \in VMs : Present(v) /\ Become(r, [Ask(op, "read") EXCEPT !.vm = v])
    <2>1. PICK v \in VMs : Become(r, [Ask(op, "read") EXCEPT !.vm = v])
      BY <1>8
    <2>2. PICK g \in Frame : g = [Ask(op, "read") EXCEPT !.vm = v]
      BY <1>2, <1>6, FieldType
    <2>3. g.pc = "read" /\ g.row = NewRow /\ g.vm = v /\ g.op = op
      BY <2>2 DEF Ask
    <2> QED
      BY <1>2, <1>3, <1>8, <2>1, <2>2, <2>3 DEF Shape
  <1>9. CASE /\ op = "set"
             /\ \E v \in VMs, e \in Egress :
                  Present(v) /\ Become(r, [Ask(op, "read") EXCEPT !.vm = v, !.choice = e])
    <2>1. PICK v \in VMs, e \in Egress :
             Become(r, [Ask(op, "read") EXCEPT !.vm = v, !.choice = e])
      BY <1>9
    <2>2. PICK g \in Frame : g = [Ask(op, "read") EXCEPT !.vm = v, !.choice = e]
      BY <1>2, <1>6, SetEgress
    <2>3. PICK a \in Frame : a = Ask(op, "read")
      BY <1>2, <1>6
    <2>4. a.row = NewRow /\ a.op = op
      BY <2>3 DEF Ask
    <2>5. g = [op |-> a.op, pc |-> a.pc, vm |-> v, row |-> a.row, choice |-> e,
               rule |-> a.rule, seen |-> a.seen, cur |-> a.cur, open |-> a.open]
      <3>1. g = [a EXCEPT !.vm = v, !.choice = e]
        BY <2>2, <2>3, Zenon
      <3> QED
        BY <3>1, SetEgress
    <2>6. a.pc = "read"
      BY <2>3 DEF Ask
    <2>7. Fresh(g)
      BY <1>2, <1>9, <2>4, <2>5, <2>6 DEF Shape
    <2> QED
      BY <1>3, <2>1, <2>2, <2>7
  <1>10. CASE /\ op = "revoke"
              /\ \E i \in Rules :
                   /\ rule[i] # NoId
                   /\ Become(r, [Ask(op, "read") EXCEPT !.vm = rule[i], !.rule = i])
    <2>1. PICK i \in Rules : /\ rule[i] # NoId
                             /\ Become(r, [Ask(op, "read") EXCEPT !.vm = rule[i], !.rule = i])
      BY <1>10
    <2>2. PICK v \in VMs : v = rule[i]
      BY <1>2, <2>1
    <2>3. PICK g \in Frame : g = [Ask(op, "read") EXCEPT !.vm = v, !.rule = i]
      BY <1>2, <1>6, SetRule
    <2>4. PICK a \in Frame : a = Ask(op, "read")
      BY <1>2, <1>6
    <2>5. a.row = NewRow /\ a.op = op /\ a.pc = "read"
      BY <2>4 DEF Ask
    <2>6. g = [op |-> a.op, pc |-> a.pc, vm |-> v, row |-> a.row, choice |-> a.choice,
               rule |-> i, seen |-> a.seen, cur |-> a.cur, open |-> a.open]
      <3>1. g = [a EXCEPT !.vm = v, !.rule = i]
        BY <2>3, <2>4, Zenon
      <3> QED
        BY <3>1, SetRule
    <2>7. Fresh(g)
      BY <1>2, <1>10, <2>5, <2>6 DEF Shape
    <2> QED
      BY <1>3, <2>1, <2>2, <2>3, <2>7
  <1>11. CASE op = "orphans" /\ Become(r, Ask("apply", "list"))
    <2>1. Fresh(Ask("apply", "list"))
      BY <1>2, AskType DEF Shape, Ask
    <2> QED
      BY <1>3, <1>11, <2>1
  <1>12. CASE /\ op = "drop_policy"
              /\ \E p \in Policies :
                   /\ policy[p] = "live"
                   /\ Become(r, [Ask(op, "count") EXCEPT !.choice = p])
    <2>1. PICK p \in Egress : Become(r, [Ask(op, "count") EXCEPT !.choice = p])
      BY <1>12 DEF Egress
    <2>2. PICK g \in Frame : g = [Ask(op, "count") EXCEPT !.choice = p]
      BY <1>2, <1>6, FieldType
    <2>3. g.pc = "count" /\ g.row = NewRow /\ g.op = op
      BY <2>2 DEF Ask
    <2> QED
      BY <1>2, <1>3, <1>12, <2>1, <2>2, <2>3 DEF Shape
  <1> QED
    BY <1>4, <1>7, <1>8, <1>9, <1>10, <1>11, <1>12

LEMMA FailMoves ==
    ASSUME TypeInv, NEW r \in Handlers, Fail(r)
    PROVE  /\ Moves(r)
           /\ \/ req'[r] = IdleFrame
              \/ \E l \in {"failed", "commit", "raise"} : req'[r] = [req[r] EXCEPT !.pc = l]
  <1>1. DataOK'
    BY SameData DEF Fail
  <1>2. {"failed", "commit", "raise"} \subseteq PCs
    BY DEF PCs, ApplyPCs
  <1>3. CASE Finish(r)
    BY <1>1, <1>3, MoveIdle
  <1>4. CASE /\ req[r].op = "start" /\ req[r].pc \in ApplyPCs \cup {"list", "commit"}
             /\ Goto(r, "failed")
    <2>1. req[r].row.state # "none" /\ req[r].pc # "read"
      BY <1>4, Typed DEF Shape, ApplyPCs
    <2> QED
      BY <1>1, <1>2, <1>4, <2>1, MoveOn
  <1>5. CASE req[r].op \in {"stop", "delete"} /\ req[r].pc = "mark" /\ Goto(r, "commit")
    <2>1. req[r].row.state # "none"
      BY <1>5, Typed DEF Shape
    <2> QED
      BY <1>1, <1>2, <1>5, <2>1, MoveOn
  <1>6. CASE req[r].pc = "drop" /\ Goto(r, "raise")
    BY <1>1, <1>2, <1>6, MoveOn
  <1> QED
    BY Zenon, <1>3, <1>4, <1>5, <1>6 DEF Fail

\* Where a handler goes after it has read a row.
After(op) == CASE op \in {"start", "stop", "delete"} -> "mark"
               [] op = "set" -> "check"
               [] OTHER -> "write"

LEMMA ReadMoves ==
    ASSUME TypeInv, NEW r \in Handlers, Read(r)
    PROVE  /\ Moves(r)
           /\ \/ req'[r] = IdleFrame
              \/ /\ Present(req[r].vm)
                 /\ req'[r] = [req[r] EXCEPT !.row = vm[req[r].vm], !.pc = After(req[r].op)]
  <1>1. DataOK'
    BY SameData DEF Read
  <1>2. CASE Finish(r)
    BY <1>1, <1>2, MoveIdle
  <1>3. CASE /\ Present(req[r].vm)
             /\ Become(r, [req[r] EXCEPT !.row = vm[req[r].vm], !.pc = After(req[r].op)])
    <2>1. PICK f \in Frame : f = req[r]
      BY Typed
    <2>2. req[r].vm \in VMs
      BY Typed DEF Read, Shape
    <2>3. PICK x \in Row : x = vm[req[r].vm]
      BY <2>2, Typed
    <2>4. PICK l \in PCs : l = After(req[r].op)
      BY DEF After, PCs
    <2>5. PICK g \in Frame : g = [f EXCEPT !.row = x, !.pc = l]
      BY SetRow
    <2>6. g = [op |-> f.op, pc |-> l, vm |-> f.vm, row |-> x, choice |-> f.choice,
               rule |-> f.rule, seen |-> f.seen, cur |-> f.cur, open |-> f.open]
      BY <2>5, SetRow
    <2>7. l \in {"mark", "check", "write"} /\ (l = "mark" => f.op \in {"start", "stop", "delete"})
      BY <2>1, <2>4 DEF After
    <2>8. Shape(g)
      <3>1. x.state # "none"
        BY <1>3, <2>3 DEF Present
      <3>2. l = "check" => f.op = "set"
        BY <2>1, <2>4 DEF After
      <3> QED
        BY <2>1, <2>2, <2>6, <2>7, <3>1, <3>2 DEF Shape
    <2>9. g = [req[r] EXCEPT !.row = vm[req[r].vm], !.pc = After(req[r].op)]
      BY Zenon, <2>1, <2>3, <2>4, <2>5
    <2>10. Become(r, g)
      BY Zenon, <1>3, <2>9
    <2> QED
      BY <1>1, <1>3, <2>8, <2>9, <2>10, MoveFrame
  <1>4. \/ Finish(r)
        \/ /\ Present(req[r].vm)
           /\ Become(r, [req[r] EXCEPT !.row = vm[req[r].vm], !.pc = After(req[r].op)])
    BY Zenon DEF Read, After
  <1> QED
    BY <1>2, <1>3, <1>4

LEMMA CheckMoves ==
    ASSUME TypeInv, NEW r \in Handlers, Check(r)
    PROVE  /\ Moves(r)
           /\ \/ req'[r] = IdleFrame
              \/ Available(req[r].choice) /\ req'[r] = [req[r] EXCEPT !.pc = "write"]
  <1>1. DataOK'
    BY SameData DEF Check
  <1>2. "write" \in PCs
    BY DEF PCs
  <1>3. req[r].op = "create" \/ req[r].row.state # "none"
    BY Typed DEF Check, Shape
  <1> QED
    BY <1>1, <1>2, <1>3, MoveIdle, MoveOn DEF Check

LEMMA CountUsersMoves ==
    ASSUME TypeInv, NEW r \in Handlers, CountUsers(r)
    PROVE  /\ Moves(r)
           /\ \/ req'[r] = IdleFrame
              \/ Users(req[r].choice) = {} /\ req'[r] = [req[r] EXCEPT !.pc = "delete"]
  <1>1. DataOK'
    BY SameData DEF CountUsers
  <1>2. "delete" \in PCs
    BY DEF PCs
  <1> QED
    BY <1>1, <1>2, MoveIdle, MoveOn DEF CountUsers

LEMMA ThenApplyMoves ==
    ASSUME TypeInv, DataOK', NEW r \in Handlers, ThenApply(r)
    PROVE  Moves(r) /\ req'[r] \in {IdleFrame, Ask("apply", "list")}
  <1>1. Ask("apply", "list") \in Frame
    BY AskType DEF PCs
  <1>2. Shape(Ask("apply", "list"))
    BY DEF Shape, Ask, NewRow
  <1> QED
    BY <1>1, <1>2, MoveFrame, MoveIdle DEF ThenApply

\* The handlers that write to the store and are done, or apply.
LEMMA WriteMoves ==
    ASSUME TypeInv, NEW r \in Handlers,
           \/ CreateWrite(r) \/ SetWrite(r) \/ ResizeWrite(r)
           \/ AllowWrite(r) \/ RevokeWrite(r)
           \/ Failed(r) \/ Erase(r) \/ DropPolicy(r)
    PROVE  Moves(r) /\ req'[r] \in {IdleFrame, Ask("apply", "list")}
  <1>1. /\ policy \in [Policies -> {"none", "live", "gone"}]
        /\ vm \in [VMs -> Row] /\ rule \in [Rules -> VMs \cup {NoId}]
        /\ table \in [up : BOOLEAN, rules : SUBSET Entries]
    BY DEF TypeInv, TypeOK
  <1>2. CASE CreateWrite(r)
    <2>1. [state |-> "stopped", egress |-> req[r].choice] \in Row
      BY Typed DEF Row, States
    <2>2. vm' \in [VMs -> Row]
      BY <1>1, <1>2, <2>1 DEF CreateWrite
    <2> QED
      BY <1>1, <1>2, <2>2, MoveIdle DEF CreateWrite, DataOK
  <1>3. CASE SetWrite(r)
    <2>1. [req[r].row EXCEPT !.egress = req[r].choice] \in Row
      BY Typed, RowEgress
    <2>2. vm' \in [VMs -> Row]
      BY <1>1, <1>3, <2>1, SavedType DEF SetWrite
    <2> QED
      BY <1>1, <1>3, <2>2, ThenApplyMoves DEF SetWrite, DataOK
  <1>4. CASE ResizeWrite(r)
    <2>1. vm' \in [VMs -> Row]
      BY <1>1, <1>4, Typed, SavedType DEF ResizeWrite
    <2> QED
      BY <1>1, <1>4, <2>1, MoveIdle DEF ResizeWrite, DataOK
  <1>5. CASE AllowWrite(r)
    <2>1. rule' \in [Rules -> VMs \cup {NoId}]
      BY <1>1, <1>5, Typed DEF AllowWrite
    <2> QED
      BY <1>1, <1>5, <2>1, MoveIdle, ThenApplyMoves DEF AllowWrite, DataOK
  <1>6. CASE RevokeWrite(r)
    <2>1. rule' \in [Rules -> VMs \cup {NoId}]
      BY <1>1, <1>6 DEF RevokeWrite
    <2> QED
      BY <1>1, <1>6, <2>1, ThenApplyMoves DEF RevokeWrite, DataOK
  <1>7. CASE Failed(r)
    <2>1. [req[r].row EXCEPT !.state = "error"] \in Row
      BY Typed, RowState DEF States
    <2>2. vm' \in [VMs -> Row]
      BY <1>1, <1>7, <2>1, SavedType DEF Failed
    <2> QED
      BY <1>1, <1>7, <2>2, MoveIdle DEF Failed, DataOK
  <1>8. CASE Erase(r)
    <2>1. [NewRow EXCEPT !.state = "gone"] \in Row
      BY NewRowType, RowState DEF States
    <2>2. vm' \in [VMs -> Row]
      BY <1>1, <1>8, <2>1, SavedType DEF Erase
    <2> QED
      BY <1>1, <1>8, <2>2, MoveIdle DEF Erase, DataOK
  <1>9. CASE DropPolicy(r)
    <2>1. policy' \in [Policies -> {"none", "live", "gone"}]
      BY <1>1, <1>9 DEF DropPolicy
    <2> QED
      BY <1>1, <1>9, <2>1, MoveIdle DEF DropPolicy, DataOK
  <1> QED
    BY <1>2, <1>3, <1>4, <1>5, <1>6, <1>7, <1>8, <1>9

LEMMA MarkMoves ==
    ASSUME TypeInv, NEW r \in Handlers, Mark(r)
    PROVE  /\ Moves(r)
           /\ \E x \in Row, l \in {"list", "commit"} :
                /\ x.egress = req[r].row.egress /\ x.state \notin {"none", "gone"}
                /\ vm' = Saved(req[r].vm, x)
                /\ req'[r] = [req[r] EXCEPT !.row = x, !.pc = l]
  <1>1. PICK s \in {"starting", "stopping"} :
           s = IF req[r].op = "start" THEN "starting" ELSE "stopping"
    OBVIOUS
  <1>2. PICK x \in Row : x = [req[r].row EXCEPT !.state = s]
    BY Typed, RowState DEF States
  <1>3. x.egress = req[r].row.egress /\ x.state = s
    BY <1>2, Typed, RowState DEF States
  <1>4. PICK l \in {"list", "commit"} : l = IF req[r].op = "start" THEN "list" ELSE "commit"
    OBVIOUS
  <1>5. /\ req[r].pc = "mark"
        /\ vm' = Saved(req[r].vm, x)
        /\ Become(r, [req[r] EXCEPT !.row = x, !.pc = l])
        /\ UNCHANGED <<policy, rule, table, faults>>
    BY Zenon, <1>1, <1>2, <1>4 DEF Mark
  <1>6. PICK f \in Frame : f = req[r]
    BY Typed
  <1>7. l \in PCs
    BY <1>4 DEF PCs
  <1>8. PICK g \in Frame : g = [f EXCEPT !.row = x, !.pc = l]
    BY <1>7, SetRow
  <1>9. g = [op |-> f.op, pc |-> l, vm |-> f.vm, row |-> x, choice |-> f.choice,
             rule |-> f.rule, seen |-> f.seen, cur |-> f.cur, open |-> f.open]
    BY <1>7, <1>8, SetRow
  <1>10. f.op \in {"start", "stop", "delete"} /\ f.vm \in VMs
    BY <1>5, <1>6, Typed DEF Shape
  <1>11. Shape(g)
    BY <1>3, <1>4, <1>9, <1>10 DEF Shape
  <1>12. DataOK'
    BY <1>5, SavedType, Typed DEF DataOK, TypeInv, TypeOK
  <1>13. g = [req[r] EXCEPT !.row = x, !.pc = l]
    BY Zenon, <1>6, <1>8
  <1>14. Moves(r) /\ req'[r] = g
    BY <1>5, <1>11, <1>12, <1>13, MoveFrame
  <1>15. x.state \notin {"none", "gone"}
    BY <1>3
  <1> QED
    BY Zenon, <1>3, <1>5, <1>13, <1>14, <1>15

LEMMA CommitMoves ==
    ASSUME TypeInv, NEW r \in Handlers, Commit(r)
    PROVE  /\ Moves(r)
           /\ req'[r].row.state = "none" /\ req'[r].pc \in {"idle", "list"}
           /\ \E x \in Row : /\ x.egress = req[r].row.egress /\ x.state # "none"
                            /\ vm' = Saved(req[r].vm, x)
  <1>1. PICK s \in {"running", "stopped"} :
           s = IF req[r].op = "start" THEN "running" ELSE "stopped"
    OBVIOUS
  <1>2. PICK x \in Row : x = [req[r].row EXCEPT !.state = s]
    BY Typed, RowState DEF States
  <1>3. x.egress = req[r].row.egress /\ x.state = s
    BY <1>2, Typed, RowState DEF States
  <1>4. /\ req[r].pc = "commit"
        /\ vm' = Saved(req[r].vm, x)
        /\ CASE req[r].op = "start"  -> Finish(r)
             [] req[r].op = "stop"   -> Become(r, Ask("apply", "list"))
             [] req[r].op = "delete" -> Become(r, [Ask("delete", "list") EXCEPT !.vm = req[r].vm])
        /\ UNCHANGED <<policy, rule, table, faults>>
    BY Zenon, <1>1, <1>2 DEF Commit
  <1>5. req[r].op \in {"start", "stop", "delete"} /\ req[r].vm \in VMs
    BY <1>4, Typed DEF Shape
  <1>6. DataOK'
    BY <1>4, SavedType, Typed DEF DataOK, TypeInv, TypeOK
  <1>7. Moves(r) /\ req'[r].row.state = "none" /\ req'[r].pc \in {"idle", "list"}
    <2>1. CASE Finish(r)
      BY <1>6, <2>1, MoveIdle DEF IdleFrame, Ask, NewRow
    <2>2. CASE Become(r, Ask("apply", "list"))
      <3>1. Ask("apply", "list") \in Frame
        BY AskType DEF PCs
      <3>2. Shape(Ask("apply", "list"))
        BY DEF Shape, Ask, NewRow
      <3> QED
        BY <1>6, <2>2, <3>1, <3>2, MoveFrame DEF Ask, NewRow
    <2>3. CASE Become(r, [Ask("delete", "list") EXCEPT !.vm = req[r].vm])
      <3>1. PICK f \in Frame : f = Ask("delete", "list")
        BY AskType DEF PCs, AllOps
      <3>2. f.pc = "list" /\ f.row = NewRow /\ f.op = "delete"
        BY <3>1 DEF Ask
      <3>3. PICK g \in Frame : g = [f EXCEPT !.vm = req[r].vm]
        BY <1>5, FieldType
      <3>4. g.pc = f.pc /\ g.row = f.row /\ g.vm = req[r].vm /\ g.op = f.op
        BY <3>3 DEF Frame
      <3>5. Shape(g) /\ g.row.state = "none"
        BY <1>5, <3>2, <3>4 DEF Shape, NewRow
      <3>6. Become(r, g)
        BY Zenon, <2>3, <3>1, <3>3
      <3> QED
        BY <1>6, <3>2, <3>4, <3>5, <3>6, MoveFrame
    <2> QED
      BY <1>4, <1>5, <2>1, <2>2, <2>3
  <1>8. x.state # "none"
    BY <1>3
  <1> QED
    BY Zenon, <1>3, <1>4, <1>7, <1>8

LEMMA ForgetMoves ==
    ASSUME TypeInv, NEW r \in Handlers, Forget(r)
    PROVE  Moves(r) /\ req'[r] = [req[r] EXCEPT !.pc = "erase"]
  <1>1. rule' \in [Rules -> VMs \cup {NoId}]
    BY DEF Forget, TypeInv, TypeOK
  <1>2. DataOK'
    BY <1>1 DEF Forget, DataOK, TypeInv, TypeOK
  <1>3. "erase" \in PCs
    BY DEF PCs
  <1> QED
    BY <1>2, <1>3, MoveOn DEF Forget

LEMMA NewPolicyMoves ==
    ASSUME TypeInv, NEW r \in Handlers, NewPolicy(r)
    PROVE  Moves(r) /\ req' = req
  <1>1. policy' \in [Policies -> {"none", "live", "gone"}]
    BY DEF NewPolicy, TypeInv, TypeOK
  <1>2. DataOK'
    BY <1>1 DEF NewPolicy, DataOK, TypeInv, TypeOK
  <1> QED
    BY <1>2 DEF NewPolicy, Moves, TypeInv, TypeOK

LEMMA ListMoves ==
    ASSUME TypeInv, NEW r \in Handlers, List(r)
    PROVE  /\ Moves(r)
           /\ req'[r].pc = "drop" /\ req'[r].row = req[r].row /\ req'[r].vm = req[r].vm
           /\ req'[r].seen = [v \in VMs |-> IF Active(v) THEN vm[v].egress ELSE NoId]
  <1>1. PICK f \in Frame : f = req[r]
    BY Typed
  <1>2. \A v \in VMs : vm[v].egress \in Egress
    BY DEF TypeInv, TypeOK, Row
  <1>3. PICK s \in [VMs -> Egress \cup {NoId}] :
           s = [v \in VMs |-> IF Active(v) THEN vm[v].egress ELSE NoId]
    BY <1>2
  <1>4. "drop" \in PCs
    BY DEF PCs, ApplyPCs
  <1>5. PICK g \in Frame : g = [f EXCEPT !.pc = "drop", !.seen = s]
    BY <1>4, SetSeen
  <1>6. g = [op |-> f.op, pc |-> "drop", vm |-> f.vm, row |-> f.row, choice |-> f.choice,
             rule |-> f.rule, seen |-> s, cur |-> f.cur, open |-> f.open]
    BY <1>4, <1>5, SetSeen
  <1>7. Shape(g)
    BY <1>1, <1>6, Typed DEF Shape, List
  <1>8. Become(r, g)
    BY Zenon, <1>1, <1>3, <1>5 DEF List
  <1>9. DataOK'
    BY SameData DEF List
  <1>10. Moves(r) /\ req'[r] = g
    BY <1>7, <1>8, <1>9, MoveFrame
  <1> QED
    BY <1>1, <1>3, <1>6, <1>10

LEMMA ApplyErrorMoves ==
    ASSUME TypeInv, DataOK', NEW r \in Handlers, ApplyError(r), req[r].pc \in ApplyPCs
    PROVE  /\ Moves(r)
           /\ \/ req'[r] = IdleFrame
              \/ req'[r] = [req[r] EXCEPT !.pc = "failed"]
  <1>1. "failed" \in PCs
    BY DEF PCs
  <1>2. CASE req[r].op = "start" /\ Goto(r, "failed")
    <2>1. req[r].row.state # "none" /\ req[r].pc # "read"
      BY <1>2, Typed DEF Shape, ApplyPCs
    <2> QED
      BY <1>1, <1>2, <2>1, MoveOn
  <1>3. CASE Finish(r)
    BY <1>3, MoveIdle
  <1> QED
    BY <1>2, <1>3 DEF ApplyError

LEMMA NextVMMoves ==
    ASSUME TypeInv, NEW r \in Handlers, NextVM(r)
    PROVE  /\ Moves(r)
           /\ \/ req'[r] = IdleFrame
              \/ req'[r] = [req[r] EXCEPT !.pc = "failed"]
              \/ \E v \in VMs :
                   /\ req[r].seen[v] # NoId
                   /\ table' = [table EXCEPT !.rules = table.rules \cup {<<v, "spoof">>}]
                   /\ req'[r].pc = "egress" /\ req'[r].row = req[r].row
                   /\ req'[r].vm = req[r].vm
                   /\ req'[r].seen = req[r].seen /\ req'[r].cur = v
                   /\ req'[r].open = {i \in Rules : rule[i] = v}
  <1>1. PICK v \in VMs :
           /\ req[r].seen[v] # NoId
           /\ IF table.up
              THEN /\ table' = [table EXCEPT !.rules = table.rules \cup {<<v, "spoof">>}]
                   /\ Become(r, [req[r] EXCEPT !.pc = "egress", !.cur = v,
                                               !.open = {i \in Rules : rule[i] = v}])
              ELSE ApplyError(r) /\ UNCHANGED table
    BY DEF NextVM
  <1>2. UNCHANGED <<policy, vm, rule>> /\ req[r].pc = "next" /\ req[r].pc \in ApplyPCs
    BY DEF NextVM, ApplyPCs
  <1>3. CASE ApplyError(r) /\ UNCHANGED table
    BY <1>2, <1>3, ApplyErrorMoves, SameData
  <1>4. CASE /\ table' = [table EXCEPT !.rules = table.rules \cup {<<v, "spoof">>}]
             /\ Become(r, [req[r] EXCEPT !.pc = "egress", !.cur = v,
                                         !.open = {i \in Rules : rule[i] = v}])
    <2>1. PICK f \in Frame : f = req[r]
      BY Typed
    <2>2. PICK o \in SUBSET Rules : o = {i \in Rules : rule[i] = v}
      OBVIOUS
    <2>3. "egress" \in PCs
      BY DEF PCs, ApplyPCs
    <2>4. PICK g \in Frame : g = [f EXCEPT !.pc = "egress", !.cur = v, !.open = o]
      BY <2>3, SetCur
    <2>5. g = [op |-> f.op, pc |-> "egress", vm |-> f.vm, row |-> f.row, choice |-> f.choice,
               rule |-> f.rule, seen |-> f.seen, cur |-> v, open |-> o]
      BY <2>3, <2>4, SetCur
    <2>6. Shape(g)
      BY <1>1, <1>2, <2>1, <2>5, Typed DEF Shape
    <2>7. Become(r, g)
      BY Zenon, <1>4, <2>1, <2>2, <2>4
    <2>8. table' \in [up : BOOLEAN, rules : SUBSET Entries]
      BY <1>4 DEF TypeInv, TypeOK, Entries
    <2>9. DataOK'
      BY <1>2, <2>8 DEF TypeInv, TypeOK, DataOK
    <2>10. Moves(r) /\ req'[r] = g
      BY <2>6, <2>7, <2>9, MoveFrame
    <2>11. /\ req'[r].pc = "egress" /\ req'[r].row = req[r].row
           /\ req'[r].vm = req[r].vm
           /\ req'[r].seen = req[r].seen /\ req'[r].cur = v
           /\ req'[r].open = {i \in Rules : rule[i] = v}
      BY <2>1, <2>2, <2>5, <2>10
    <2> QED
      BY <1>1, <1>4, <2>10, <2>11
  <1> QED
    BY <1>1, <1>3, <1>4

LEMMA FillMoves ==
    ASSUME TypeInv, NEW r \in Handlers, Fill(r)
    PROVE  /\ Moves(r)
           /\ \/ req'[r] = IdleFrame
              \/ req'[r] = [req[r] EXCEPT !.pc = "failed"]
              \/ \E v \in VMs, s \in Egress :
                   /\ v = req[r].cur /\ s = req[r].seen[v]
                   /\ table' = [table EXCEPT !.rules = table.rules \cup
                                   {<<v, k>> : k \in {"route"} \cup req[r].open \cup {s}}]
                   /\ req'[r].pc = "next" /\ req'[r].row = req[r].row
                   /\ req'[r].vm = req[r].vm
                   /\ req'[r].seen = [req[r].seen EXCEPT ![v] = NoId]
  <1>1. /\ req[r].pc = "fill"
        /\ IF table.up
           THEN /\ table' = [table EXCEPT !.rules = table.rules \cup
                                {<<req[r].cur, k>> : k \in {"route"} \cup req[r].open
                                                        \cup {req[r].seen[req[r].cur]}}]
                /\ Become(r, [req[r] EXCEPT !.pc = "next", !.cur = NoId, !.open = {},
                                            !.seen = [req[r].seen EXCEPT ![req[r].cur] = NoId]])
           ELSE ApplyError(r) /\ UNCHANGED table
        /\ UNCHANGED <<policy, vm, rule>>
    BY DEF Fill
  <1>2. CASE ApplyError(r) /\ UNCHANGED table
    BY <1>1, <1>2, ApplyErrorMoves, SameData DEF ApplyPCs
  <1>3. CASE /\ table' = [table EXCEPT !.rules = table.rules \cup
                              {<<req[r].cur, k>> : k \in {"route"} \cup req[r].open
                                                      \cup {req[r].seen[req[r].cur]}}]
             /\ Become(r, [req[r] EXCEPT !.pc = "next", !.cur = NoId, !.open = {},
                                         !.seen = [req[r].seen EXCEPT ![req[r].cur] = NoId]])
    <2>1. PICK f \in Frame : f = req[r]
      BY Typed
    <2>2. /\ req[r].cur \in VMs /\ req[r].seen[req[r].cur] # NoId
          /\ req[r].seen \in [VMs -> Egress \cup {NoId}] /\ req[r].open \in SUBSET Rules
      BY <1>1, Typed DEF Shape
    <2>3. PICK v \in VMs : v = req[r].cur
      BY <2>2
    <2>4. PICK e \in Egress : e = req[r].seen[v]
      BY <2>2, <2>3
    <2>5. PICK s \in [VMs -> Egress \cup {NoId}] : s = [req[r].seen EXCEPT ![v] = NoId]
      BY <2>2
    <2>6. "next" \in PCs /\ NoId \in VMs \cup {NoId} /\ {} \in SUBSET Rules
      BY DEF PCs, ApplyPCs
    <2>7. PICK g \in Frame : g = [f EXCEPT !.pc = "next", !.cur = NoId, !.open = {}, !.seen = s]
      BY <2>6, SetDone
    <2>8. g = [op |-> f.op, pc |-> "next", vm |-> f.vm, row |-> f.row, choice |-> f.choice,
               rule |-> f.rule, seen |-> s, cur |-> NoId, open |-> {}]
      BY <2>6, <2>7, SetDone
    <2>9. Shape(g)
      BY <1>1, <2>1, <2>8, Typed DEF Shape
    <2>10. Become(r, g)
      BY Zenon, <1>3, <2>1, <2>3, <2>5, <2>7
    <2>11. table' = [table EXCEPT !.rules = table.rules \cup
                         {<<v, k>> : k \in {"route"} \cup req[r].open \cup {e}}]
      BY Zenon, <1>3, <2>3, <2>4
    <2>12. {<<v, k>> : k \in {"route"} \cup req[r].open \cup {e}} \subseteq Entries
      BY <2>2 DEF Entries
    <2>13. table' \in [up : BOOLEAN, rules : SUBSET Entries]
      BY <2>11, <2>12 DEF TypeInv, TypeOK
    <2>14. DataOK'
      BY <1>1, <2>13 DEF TypeInv, TypeOK, DataOK
    <2>15. Moves(r) /\ req'[r] = g
      BY <2>9, <2>10, <2>14, MoveFrame
    <2>16. /\ req'[r].pc = "next" /\ req'[r].row = req[r].row
           /\ req'[r].vm = req[r].vm /\ req'[r].seen = s
      BY <2>1, <2>8, <2>15
    <2> QED
      BY <2>3, <2>4, <2>5, <2>11, <2>15, <2>16
  <1> QED
    BY <1>1, <1>2, <1>3

LEMMA DropMoves ==
    ASSUME TypeInv, NEW r \in Handlers, Drop(r)
    PROVE  Moves(r) /\ req'[r] = [req[r] EXCEPT !.pc = "raise"]
  <1>1. DataOK'
    BY DEF Drop, TypeInv, TypeOK, DataOK
  <1>2. "raise" \in PCs
    BY DEF PCs, ApplyPCs
  <1> QED
    BY <1>1, <1>2, MoveOn DEF Drop

LEMMA RaiseMoves ==
    ASSUME TypeInv, NEW r \in Handlers, Raise(r)
    PROVE  Moves(r) /\ req'[r] = [req[r] EXCEPT !.pc = "next"]
  <1>1. table' \in [up : BOOLEAN, rules : SUBSET Entries]
    BY DEF Raise, TypeInv, TypeOK
  <1>2. DataOK'
    BY <1>1 DEF Raise, TypeInv, TypeOK, DataOK
  <1>3. "next" \in PCs
    BY DEF PCs, ApplyPCs
  <1> QED
    BY <1>2, <1>3, MoveOn DEF Raise

LEMMA ReadEgressMoves ==
    ASSUME TypeInv, NEW r \in Handlers, ReadEgress(r)
    PROVE  /\ Moves(r)
           /\ \/ req'[r] = IdleFrame
              \/ \E l \in {"fill", "failed"} : req'[r] = [req[r] EXCEPT !.pc = l]
  <1>1. DataOK'
    BY SameData DEF ReadEgress
  <1>2. "fill" \in PCs
    BY DEF PCs, ApplyPCs
  <1>3. /\ req[r].pc = "egress" /\ req[r].pc \in ApplyPCs
        /\ req[r].cur \in VMs /\ req[r].seen[req[r].cur] # NoId
    BY Typed DEF ReadEgress, Shape, ApplyPCs
  <1>4. CASE Goto(r, "fill")
    BY <1>1, <1>2, <1>3, <1>4, MoveOn
  <1>5. CASE ApplyError(r)
    BY <1>1, <1>3, <1>5, ApplyErrorMoves
  <1> QED
    BY <1>4, <1>5 DEF ReadEgress

LEMMA AppliedMoves ==
    ASSUME TypeInv, NEW r \in Handlers, Applied(r)
    PROVE  /\ Moves(r)
           /\ \/ req'[r] = IdleFrame
              \/ \E l \in {"commit", "forget"} : req'[r] = [req[r] EXCEPT !.pc = l]
  <1>1. DataOK'
    BY SameData DEF Applied
  <1>2. {"commit", "forget"} \subseteq PCs
    BY DEF PCs
  <1>3. /\ req[r].pc = "next"
        /\ \/ req[r].op = "start" /\ Goto(r, "commit")
           \/ Goto(r, "forget")
           \/ Finish(r)
    BY DEF Applied
  <1>4. CASE req[r].op = "start" /\ Goto(r, "commit")
    <2>1. req[r].row.state # "none"
      BY <1>3, <1>4, Typed DEF Shape
    <2> QED
      BY <1>1, <1>2, <1>3, <1>4, <2>1, MoveOn
  <1>5. CASE Goto(r, "forget")
    BY <1>1, <1>2, <1>3, <1>5, MoveOn
  <1>6. CASE Finish(r)
    BY <1>1, <1>6, MoveIdle
  <1> QED
    BY <1>3, <1>4, <1>5, <1>6

LEMMA BootListMoves ==
    ASSUME TypeInv, BootList
    PROVE  /\ Moves(Boot)
           /\ req'[Boot].pc \in {"idle", "sweep"}
           /\ req'[Boot].row \in {NewRow, req[Boot].row}
           /\ req'[Boot].vm \in {NoId, req[Boot].vm}
  <1> DEFINE claims == {v \in VMs : vm[v].state \in {"running", "starting", "stopping"}}
  <1>1. Boot \in Handlers
    BY DEF Handlers
  <1>2. DataOK'
    BY SameData DEF BootList
  <1>3. CASE Finish(Boot)
    BY <1>1, <1>2, <1>3, MoveIdle DEF IdleFrame, Ask
  <1>4. CASE Become(Boot, [req[Boot] EXCEPT
                              !.pc = "sweep",
                              !.seen = [v \in VMs |-> IF v \in claims THEN vm[v].egress ELSE NoId]])
    <2>1. PICK f \in Frame : f = req[Boot]
      BY <1>1, Typed
    <2>2. \A v \in VMs : vm[v].egress \in Egress
      BY DEF TypeInv, TypeOK, Row
    <2>3. PICK s \in [VMs -> Egress \cup {NoId}] :
             s = [v \in VMs |-> IF v \in claims THEN vm[v].egress ELSE NoId]
      BY <2>2
    <2>4. "sweep" \in PCs
      BY DEF PCs
    <2>5. PICK g \in Frame : g = [f EXCEPT !.pc = "sweep", !.seen = s]
      BY <2>4, SetSeen
    <2>6. g = [op |-> f.op, pc |-> "sweep", vm |-> f.vm, row |-> f.row, choice |-> f.choice,
               rule |-> f.rule, seen |-> s, cur |-> f.cur, open |-> f.open]
      BY <2>4, <2>5, SetSeen
    <2>7. Shape(g)
      BY <1>1, <2>1, <2>6, Typed DEF Shape, BootList
    <2>8. Become(Boot, g)
      BY Zenon, <1>4, <2>1, <2>3, <2>5
    <2> QED
      BY <1>1, <1>2, <2>1, <2>6, <2>7, <2>8, MoveFrame
  <1> QED
    BY Zenon, <1>3, <1>4 DEF BootList

LEMMA BootRowMoves ==
    ASSUME TypeInv, BootRow
    PROVE  /\ Moves(Boot)
           /\ req'[Boot].pc = "sweep"
           /\ req'[Boot].row = req[Boot].row /\ req'[Boot].vm = req[Boot].vm
           /\ \A v \in VMs : vm'[v].egress = vm[v].egress
           /\ \A v \in VMs : Present(v)' => Present(v)
  <1>1. PICK v \in VMs :
           /\ req[Boot].seen[v] # NoId
           /\ \/ UNCHANGED vm
              \/ vm' = Saved(v, [vm[v] EXCEPT !.state = "stopped"])
           /\ Become(Boot, [req[Boot] EXCEPT !.seen = [req[Boot].seen EXCEPT ![v] = NoId]])
    BY DEF BootRow
  <1>2. Boot \in Handlers /\ req[Boot].pc = "sweep"
    BY DEF BootRow, Handlers
  <1>3. vm \in [VMs -> Row]
    BY DEF TypeInv, TypeOK
  <1>4. PICK x \in Row : x = [vm[v] EXCEPT !.state = "stopped"]
    BY <1>3, RowState DEF States
  <1>5. x.egress = vm[v].egress /\ x.state = "stopped"
    BY <1>3, <1>4, RowState DEF States
  <1>6. vm' = vm \/ (Present(v) /\ vm' = [vm EXCEPT ![v] = x])
    BY <1>1, <1>4 DEF Saved
  <1>7. vm' \in [VMs -> Row]
    BY <1>3, <1>6
  <1>8. DataOK'
    BY <1>7 DEF BootRow, TypeInv, TypeOK, DataOK
  <1>9. PICK f \in Frame : f = req[Boot]
    BY <1>2, Typed
  <1>10. PICK s \in [VMs -> Egress \cup {NoId}] : s = [req[Boot].seen EXCEPT ![v] = NoId]
    BY <1>2, Typed
  <1>11. PICK g \in Frame : g = [f EXCEPT !.seen = s]
    BY FieldType
  <1>12. g = [op |-> f.op, pc |-> f.pc, vm |-> f.vm, row |-> f.row, choice |-> f.choice,
              rule |-> f.rule, seen |-> s, cur |-> f.cur, open |-> f.open]
    BY <1>11 DEF Frame
  <1>13. Shape(g)
    BY <1>2, <1>9, <1>12, Typed DEF Shape
  <1>14. Become(Boot, g)
    BY Zenon, <1>1, <1>9, <1>10, <1>11
  <1>15. Moves(Boot) /\ req'[Boot] = g
    BY <1>2, <1>8, <1>13, <1>14, MoveFrame
  <1>16. \A w \in VMs : vm'[w].egress = vm[w].egress /\ (Present(w)' => Present(w))
    BY <1>3, <1>5, <1>6 DEF Present
  <1> QED
    BY <1>2, <1>9, <1>12, <1>15, <1>16

LEMMA BootApplyMoves ==
    ASSUME TypeInv, BootApply
    PROVE  Moves(Boot) /\ req'[Boot] = [req[Boot] EXCEPT !.pc = "list"]
  <1>1. DataOK'
    BY SameData DEF BootApply
  <1>2. "list" \in PCs /\ Boot \in Handlers
    BY DEF PCs, Handlers
  <1> QED
    BY <1>1, <1>2, MoveOn DEF BootApply

LEMMA CrashMoves ==
    ASSUME TypeInv, Crash
    PROVE  /\ DataOK' /\ req' \in [Handlers -> Frame]
           /\ \A q \in Handlers : /\ Shape(req'[q]) /\ req'[q].row = NewRow
                                  /\ req'[q].pc \in {"idle", "boot"}
  <1>1. DataOK'
    BY SameData DEF Crash
  <1>2. Ask("apply", "boot") \in Frame /\ Shape(Ask("apply", "boot"))
    BY AskType DEF PCs, Shape, Ask, NewRow
  <1>3. \A q \in Handlers : req'[q] \in {IdleFrame, Ask("apply", "boot")}
    BY DEF Crash
  <1> QED
    BY <1>1, <1>2, <1>3, IdleType, IdleShape DEF Crash, IdleFrame, Ask

LEMMA StepMoves ==
    ASSUME TypeInv, NEW r \in Handlers, Step(r)
    PROVE  Moves(r)
  BY RequestMoves, FailMoves, ReadMoves, CheckMoves, WriteMoves, MarkMoves, CommitMoves,
     ForgetMoves, NewPolicyMoves, CountUsersMoves, ListMoves, DropMoves, RaiseMoves,
     NextVMMoves, ReadEgressMoves, FillMoves, AppliedMoves DEF Step

LEMMA BootMoves ==
    ASSUME TypeInv, BootList \/ BootRow \/ BootApply
    PROVE  Moves(Boot)
  BY BootListMoves, BootRowMoves, BootApplyMoves

LEMMA ObserveType ==
    ASSUME NEW r \in Handlers, Observe(r)
    PROVE  alone' \subseteq Handlers /\ overtaken' \subseteq Handlers /\ synced' \in BOOLEAN
  <1>1. synced' = ((r \in alone /\ Applied(r)) \/ (synced /\ Calm))
    BY DEF Observe
  <1>2. synced' \in BOOLEAN
    BY Zenon, <1>1
  <1> QED
    BY <1>2 DEF Observe

\* Faults are bounded.
LEMMA FaultsType == TypeInv /\ [Next]_vars => faults' \in 0 .. MaxFaults
  <1> SUFFICES ASSUME TypeInv, [Next]_vars
               PROVE  faults' \in 0 .. MaxFaults
    OBVIOUS
  <1>1. faults \in 0 .. MaxFaults /\ MaxFaults \in Nat
    BY FirewallAssumption DEF TypeInv, TypeOK
  <1>2. ASSUME NEW r \in Handlers, Step(r)
        PROVE  faults' = faults \/ (faults < MaxFaults /\ faults' = faults + 1)
    BY <1>2 DEF Step, Request, Fail, Read, Check, CreateWrite, SetWrite, ResizeWrite,
                AllowWrite, RevokeWrite, Mark, Commit, Failed, Forget, Erase, NewPolicy,
                CountUsers, DropPolicy, List, Drop, Raise, NextVM, ReadEgress, Fill, Applied
  <1>3. BootStep => faults' = faults \/ (faults < MaxFaults /\ faults' = faults + 1)
    BY DEF BootStep, BootList, BootRow, BootApply, Crash
  <1>4. UNCHANGED vars => faults' = faults
    BY DEF vars
  <1>5. faults' = faults \/ (faults < MaxFaults /\ faults' = faults + 1)
    BY <1>2, <1>3, <1>4 DEF Next
  <1> QED
    BY <1>1, <1>5

\* A step of handler r keeps TypeInv.
LEMMA MovesType ==
    ASSUME TypeInv, NEW r \in Handlers, Moves(r), Observe(r), faults' \in 0 .. MaxFaults
    PROVE  TypeInv'
  BY ObserveType DEF Moves, DataOK, TypeInv, TypeOK

LEMMA InitType == Init => TypeInv
  <1> SUFFICES ASSUME Init
               PROVE  TypeInv
    OBVIOUS
  <1>1. req = [r \in Handlers |-> IdleFrame] /\ vm = [v \in VMs |-> NewRow]
    BY DEF Init
  <1>2. faults \in 0 .. MaxFaults
    BY FirewallAssumption DEF Init
  <1>3. TypeOK
    BY <1>1, <1>2, IdleType, NewRowType DEF Init, TypeOK
  <1> QED
    BY <1>1, <1>3, IdleShape DEF TypeInv

LEMMA NextType == TypeInv /\ [Next]_vars => TypeInv'
  <1> SUFFICES ASSUME TypeInv, [Next]_vars
               PROVE  TypeInv'
    OBVIOUS
  <1>1. ASSUME NEW r \in Handlers, Step(r), Observe(r)
        PROVE  TypeInv'
    BY <1>1, StepMoves, MovesType, FaultsType
  <1>2. CASE (BootList \/ BootRow \/ BootApply) /\ Observe(Boot)
    <2>1. Boot \in Handlers
      BY DEF Handlers
    <2> QED
      BY <1>2, <2>1, BootMoves, MovesType, FaultsType
  <1>3. CASE Crash /\ Observe(Boot)
    <2>1. Boot \in Handlers
      BY DEF Handlers
    <2> QED
      BY <1>3, <2>1, CrashMoves, ObserveType, FaultsType DEF DataOK, TypeInv, TypeOK
  <1>4. CASE UNCHANGED vars
    BY <1>4 DEF vars, TypeInv, TypeOK, Shape
  <1> QED
    BY <1>1, <1>2, <1>3, <1>4 DEF Next, BootStep

\* Every reachable state is well typed: no handler writes a field of another's
\* kind, and the rebuild of service.go:1551 keeps to the rules there can be.
THEOREM TypeCorrect == Spec => []TypeOK
  <1>1. TypeInv => TypeOK
    BY DEF TypeInv
  <1> QED
    BY <1>1, InitType, NextType, PTL DEF Spec

-----------------------------------------------------------------------------
(* What a handler holds is true until it is overtaken.                     *)

HeldBy(q) ==
    /\ req[q].row.state # "none" => /\ vm[req[q].vm] = req[q].row
                                    /\ req[q].row.state # "gone"
    /\ req[q].pc = "write" /\ req[q].op \in {"create", "set"} => Available(req[q].choice)
    /\ req[q].pc = "delete" => Users(req[q].choice) = {}

Held == \A q \in Handlers \ overtaken : HeldBy(q)

\* The handlers that do not take this step.
LEMMA HeldOthers ==
    ASSUME TypeInv, Held, NEW r \in Handlers, Observe(r),
           NEW q \in Handlers \ {r}, q \notin overtaken', req'[q] = req[q]
    PROVE  HeldBy(q)'
  <1>1. ~Holds(q)' \/ (q \notin overtaken /\ ~(Holds(q) /\ Outdated(q)))
    BY DEF Observe
  <1>2. CASE ~Holds(q)'
    BY <1>2 DEF Holds, HeldBy
  <1>3. CASE Holds(q)' /\ q \notin overtaken /\ ~Outdated(q)
    <2>1. PICK f \in Frame : f = req[q] /\ f = req'[q]
      BY Typed
    <2>2. /\ f.row.state # "none" => vm[f.vm] = f.row /\ f.row.state # "gone"
          /\ f.pc = "write" /\ f.op \in {"create", "set"} => Available(f.choice)
          /\ f.pc = "delete" => Users(f.choice) = {}
      BY <1>3, <2>1 DEF Held, HeldBy
    <2>3. /\ f.row.state # "none" => vm'[f.vm] = vm[f.vm]
          /\ f.pc = "write" => Available(f.choice)' = Available(f.choice)
          /\ f.pc = "delete" => Users(f.choice)' = Users(f.choice)
      BY <1>3, <2>1 DEF Outdated, Available, Users, Present
    <2>4. /\ f.row.state # "none" => vm'[f.vm] = f.row /\ f.row.state # "gone"
          /\ f.pc = "write" /\ f.op \in {"create", "set"} => Available(f.choice)'
          /\ f.pc = "delete" => Users(f.choice)' = {}
      BY <2>2, <2>3
    <2> QED
      BY <2>1, <2>4 DEF HeldBy, Available, Users, Present
  <1>4. Holds(q)' = Holds(q)
    BY DEF Holds
  <1> QED
    BY <1>1, <1>2, <1>3, <1>4

LEMMA PcFields ==
    ASSUME NEW f \in Frame, NEW l
    PROVE  LET g == [f EXCEPT !.pc = l]
           IN  /\ g.pc = l /\ g.op = f.op /\ g.vm = f.vm /\ g.row = f.row /\ g.choice = f.choice
               /\ g.seen = f.seen /\ g.cur = f.cur /\ g.open = f.open
  BY DEF Frame

\* A handler that holds nothing after its step, and one that holds a row of a
\* table that the step has not written.
LEMMA HeldNothing ==
    ASSUME NEW r \in Handlers, req'[r].row.state = "none", req'[r].pc \notin {"write", "delete"}
    PROVE  HeldBy(r)'
  BY DEF HeldBy

LEMMA HeldRow ==
    ASSUME TypeInv, Held, NEW r \in Handlers, Observe(r), r \notin overtaken', vm' = vm,
           req'[r].row = req[r].row, req'[r].vm = req[r].vm,
           req'[r].pc \notin {"write", "delete"}
    PROVE  HeldBy(r)'
  <1>1. CASE req[r].row.state # "none"
    <2>1. Holds(r)'
      BY <1>1 DEF Holds
    <2>2. r \notin overtaken
      BY <2>1 DEF Observe
    <2> QED
      BY <1>1, <2>2 DEF Held, HeldBy
  <1>2. CASE req[r].row.state = "none"
    BY <1>2, HeldNothing
  <1> QED
    BY <1>1, <1>2

LEMMA HeldGoto ==
    ASSUME TypeInv, Held, NEW r \in Handlers, Observe(r), r \notin overtaken', vm' = vm,
           \/ req'[r] = IdleFrame
           \/ \E l : l \notin {"write", "delete"} /\ req'[r] = [req[r] EXCEPT !.pc = l]
    PROVE  HeldBy(r)'
  <1>1. CASE req'[r] = IdleFrame
    BY <1>1, HeldNothing DEF IdleFrame, Ask, NewRow
  <1>2. ASSUME NEW l, l \notin {"write", "delete"}, req'[r] = [req[r] EXCEPT !.pc = l]
        PROVE  HeldBy(r)'
    <2>1. req[r] \in Frame
      BY Typed
    <2>2. req'[r].pc = l /\ req'[r].row = req[r].row /\ req'[r].vm = req[r].vm
      BY <1>2, <2>1, PcFields
    <2> QED
      BY <1>2, <2>2, HeldRow
  <1> QED
    BY <1>1, <1>2

LEMMA HeldMover ==
    ASSUME TypeInv, Held, NEW r \in Handlers, Step(r), Observe(r), r \notin overtaken'
    PROVE  HeldBy(r)'
  <1>1. PICK f \in Frame : f = req[r]
    BY Typed
  <1>2. Holds(r)' => r \notin overtaken
    BY DEF Observe
  <1>3. CASE Request(r)
    BY <1>3, RequestMoves, HeldNothing
  <1>4. CASE Fail(r)
    BY <1>4, FailMoves, HeldGoto DEF Fail
  <1>5. CASE Read(r)
    <2>1. CASE req'[r] = IdleFrame
      BY <1>5, <2>1, HeldGoto DEF Read
    <2>2. CASE /\ Present(req[r].vm)
               /\ req'[r] = [req[r] EXCEPT !.row = vm[req[r].vm], !.pc = After(req[r].op)]
      <3>1. f.vm \in VMs /\ f.op # "create" /\ vm' = vm /\ policy' = policy
        BY <1>1, <1>5, Typed DEF Shape, Read
      <3>2. PICK x \in Row : x = vm[f.vm]
        BY <3>1, Typed
      <3>3. PICK l \in PCs : l = After(f.op)
        BY DEF After, PCs
      <3>4. PICK g \in Frame : g = [f EXCEPT !.row = x, !.pc = l]
        BY SetRow
      <3>5. g = [op |-> f.op, pc |-> l, vm |-> f.vm, row |-> x, choice |-> f.choice,
                 rule |-> f.rule, seen |-> f.seen, cur |-> f.cur, open |-> f.open]
        BY <3>4, SetRow
      <3>6. req'[r] = g
        BY Zenon, <1>1, <2>2, <3>2, <3>3, <3>4
      <3>7. x.state # "gone"
        BY <1>1, <2>2, <3>2 DEF Present
      <3>8. l # "delete" /\ (l = "write" => f.op \notin {"create", "set"})
        BY <3>1, <3>3 DEF After
      <3> QED
        BY <3>1, <3>2, <3>5, <3>6, <3>7, <3>8 DEF HeldBy
    <2> QED
      BY <1>5, <2>1, <2>2, ReadMoves
  <1>6. CASE Check(r)
    <2>1. CASE req'[r] = IdleFrame
      BY <1>6, <2>1, HeldGoto DEF Check
    <2>2. CASE Available(req[r].choice) /\ req'[r] = [req[r] EXCEPT !.pc = "write"]
      <3>1. PICK g \in Frame : g = [f EXCEPT !.pc = "write"]
        BY FieldType DEF PCs
      <3>2. g.pc = "write" /\ g.row = f.row /\ g.vm = f.vm /\ g.choice = f.choice
        BY <3>1, PcFields
      <3>3. req'[r] = g /\ vm' = vm /\ policy' = policy
        BY <1>1, <1>6, <2>2, <3>1 DEF Check
      <3>4. r \notin overtaken
        BY <1>2, <3>2, <3>3 DEF Holds
      <3>5. f.row.state # "none" => vm[f.vm] = f.row /\ f.row.state # "gone"
        BY <1>1, <3>4 DEF Held, HeldBy
      <3> QED
        BY <1>1, <2>2, <3>2, <3>3, <3>5 DEF HeldBy, Available
    <2> QED
      BY <1>6, <2>1, <2>2, CheckMoves
  <1>7. CASE \/ CreateWrite(r) \/ SetWrite(r) \/ ResizeWrite(r) \/ AllowWrite(r)
             \/ RevokeWrite(r) \/ Failed(r) \/ Erase(r) \/ DropPolicy(r)
    <2>1. req'[r] \in {IdleFrame, Ask("apply", "list")}
      BY <1>7, WriteMoves
    <2> QED
      BY <2>1, HeldNothing DEF IdleFrame, Ask, NewRow
  <1>8. CASE Mark(r)
    <2>1. PICK x \in Row, l \in {"list", "commit"} :
             /\ x.egress = req[r].row.egress /\ x.state \notin {"none", "gone"}
             /\ vm' = Saved(req[r].vm, x)
             /\ req'[r] = [req[r] EXCEPT !.row = x, !.pc = l]
      BY <1>8, MarkMoves
    <2>2. PICK g \in Frame : g = [f EXCEPT !.row = x, !.pc = l]
      BY SetRow DEF PCs
    <2>3. g = [op |-> f.op, pc |-> l, vm |-> f.vm, row |-> x, choice |-> f.choice,
               rule |-> f.rule, seen |-> f.seen, cur |-> f.cur, open |-> f.open]
      BY <2>2, SetRow DEF PCs
    <2>4. req'[r] = g
      BY <1>1, <2>1, <2>2, Zenon
    <2>5. r \notin overtaken
      BY <1>2, <2>1, <2>3, <2>4 DEF Holds
    <2>6. f.row.state # "none" /\ f.vm \in VMs
      BY <1>1, <1>8, Typed DEF Shape, Mark
    <2>7. Present(f.vm)
      BY <1>1, <2>5, <2>6 DEF Held, HeldBy, Present
    <2>8. vm'[f.vm] = x
      BY <1>1, <2>1, <2>6, <2>7, Typed DEF Saved
    <2>9. g.pc \notin {"write", "delete"}
      BY <2>3
    <2>10. g.row.state # "gone" /\ vm'[g.vm] = g.row
      BY <2>1, <2>3, <2>8
    <2> QED
      BY <2>4, <2>9, <2>10 DEF HeldBy
  <1>9. CASE Commit(r)
    BY <1>9, CommitMoves, HeldNothing
  <1>10. CASE Forget(r)
    BY <1>10, ForgetMoves, HeldGoto DEF Forget
  <1>11. CASE NewPolicy(r)
    <2>1. f.pc = "idle" /\ f = req'[r] /\ vm' = vm
      BY <1>1, <1>11 DEF NewPolicy
    <2> QED
      BY <1>1, <2>1, HeldRow
  <1>12. CASE CountUsers(r)
    <2>1. CASE req'[r] = IdleFrame
      BY <1>12, <2>1, HeldGoto DEF CountUsers
    <2>2. CASE Users(req[r].choice) = {} /\ req'[r] = [req[r] EXCEPT !.pc = "delete"]
      <3>1. PICK g \in Frame : g = [f EXCEPT !.pc = "delete"]
        BY FieldType DEF PCs
      <3>2. g.pc = "delete" /\ g.row = f.row /\ g.vm = f.vm /\ g.choice = f.choice
        BY <3>1, PcFields
      <3>3. req'[r] = g /\ vm' = vm
        BY <1>1, <1>12, <2>2, <3>1 DEF CountUsers
      <3>4. r \notin overtaken
        BY <1>2, <3>2, <3>3 DEF Holds
      <3>5. f.row.state # "none" => vm[f.vm] = f.row /\ f.row.state # "gone"
        BY <1>1, <3>4 DEF Held, HeldBy
      <3> QED
        BY <1>1, <2>2, <3>2, <3>3, <3>5 DEF HeldBy, Users, Present
    <2> QED
      BY <1>12, <2>1, <2>2, CountUsersMoves
  <1>13. CASE List(r)
    BY <1>13, ListMoves, HeldRow DEF List
  <1>14. CASE Drop(r) \/ Raise(r)
    BY <1>14, DropMoves, RaiseMoves, HeldGoto DEF Drop, Raise
  <1>15. CASE NextVM(r)
    BY <1>15, NextVMMoves, HeldGoto, HeldRow DEF NextVM
  <1>16. CASE ReadEgress(r)
    BY <1>16, ReadEgressMoves, HeldGoto DEF ReadEgress
  <1>17. CASE Fill(r)
    BY <1>17, FillMoves, HeldGoto, HeldRow DEF Fill
  <1>18. CASE Applied(r)
    BY <1>18, AppliedMoves, HeldGoto DEF Applied
  <1> QED
    BY <1>3, <1>4, <1>5, <1>6, <1>7, <1>8, <1>9, <1>10, <1>11, <1>12, <1>13, <1>14, <1>15,
       <1>16, <1>17, <1>18 DEF Step

LEMMA HeldNext == TypeInv /\ Held /\ [Next]_vars => Held'
  <1> SUFFICES ASSUME TypeInv, Held, [Next]_vars
               PROVE  Held'
    OBVIOUS
  <1>1. ASSUME NEW r \in Handlers, Step(r), Observe(r)
        PROVE  Held'
    <2>1. \A q \in Handlers \ {r} : req'[q] = req[q]
      BY <1>1, StepMoves DEF Moves
    <2>2. ASSUME NEW q \in Handlers, q \notin overtaken'
          PROVE  HeldBy(q)'
      BY <1>1, <2>1, <2>2, HeldOthers, HeldMover
    <2> QED
      BY <2>2 DEF Held
  <1>2. CASE (BootList \/ BootRow \/ BootApply) /\ Observe(Boot)
    <2>1. Boot \in Handlers /\ Moves(Boot)
      BY <1>2, BootMoves DEF Handlers
    <2>2. ASSUME Boot \notin overtaken'
          PROVE  HeldBy(Boot)'
      <3>1. CASE BootList
        <4>1. req'[Boot].row.state = "none" /\ req'[Boot].pc \in {"idle", "sweep"}
          BY <2>1, <3>1, BootListMoves, Typed DEF BootList, Shape, NewRow
        <4> QED
          BY <2>1, <4>1, HeldNothing
      <3>2. CASE BootRow
        <4>1. req'[Boot].row.state = "none" /\ req'[Boot].pc = "sweep"
          BY <2>1, <3>2, BootRowMoves, Typed DEF BootRow, Shape
        <4> QED
          BY <2>1, <4>1, HeldNothing
      <3>3. CASE BootApply
        BY <1>2, <2>1, <2>2, <3>3, BootApplyMoves, HeldGoto DEF BootApply
      <3> QED
        BY <1>2, <3>1, <3>2, <3>3
    <2>3. ASSUME NEW q \in Handlers, q \notin overtaken'
          PROVE  HeldBy(q)'
      BY <1>2, <2>1, <2>2, <2>3, HeldOthers DEF Moves
    <2> QED
      BY <2>3 DEF Held
  <1>3. CASE Crash /\ Observe(Boot)
    BY <1>3, CrashMoves, HeldNothing DEF Held, NewRow
  <1>4. CASE UNCHANGED vars
    BY <1>4 DEF vars, Held, HeldBy, Available, Users, Present
  <1> QED
    BY <1>1, <1>2, <1>3, <1>4 DEF Next, BootStep

LEMMA InitHeld == Init => Held
  BY DEF Init, Held, HeldBy, IdleFrame, Ask, NewRow

-----------------------------------------------------------------------------
(* Egress choices and policies.                                            *)

\* What a step of a handler that is not overtaken keeps.
Keeps(r) ==
    /\ \A v \in VMs :
         (Present(v) /\ Present(v)' /\ vm'[v].egress # vm[v].egress)
             => req[r].op = "set" /\ req[r].vm = v /\ vm'[v].egress = req[r].choice
    /\ \A v \in VMs : Named(v) => Named(v)'

LEMMA SameKeeps ==
    ASSUME NEW r, vm' = vm, policy' = policy
    PROVE  Keeps(r)
  BY DEF Keeps, Named, Available, Present

\* A row is written with the egress choice it has.
LEMMA SavedKeeps ==
    ASSUME TypeInv, NEW r, NEW w \in VMs, NEW x \in Row, vm' = Saved(w, x),
           x.egress = vm[w].egress, policy' = policy
    PROVE  Keeps(r)
  <1>1. \A v \in VMs : vm'[v].egress = vm[v].egress
    BY DEF TypeInv, TypeOK, Saved
  <1>2. \A v \in VMs : Present(v)' => Present(v)
    BY DEF TypeInv, TypeOK, Saved, Present
  <1> QED
    BY <1>1, <1>2 DEF Keeps, Named, Available

\* A handler that is to write a row holds the row as it is.
LEMMA CopyHolds ==
    ASSUME TypeInv, Held, NEW r \in Handlers, r \notin overtaken,
           \/ req[r].pc \in {"mark", "commit", "failed"}
           \/ req[r].pc = "write" /\ req[r].op # "create"
    PROVE  req[r].vm \in VMs /\ req[r].row = vm[req[r].vm]
  BY Typed DEF Shape, Held, HeldBy

LEMMA StepKeeps ==
    ASSUME TypeInv, Held, NEW r \in Handlers, r \notin overtaken, Step(r)
    PROVE  Keeps(r)
  <1>1. CASE \/ Request(r) \/ Fail(r) \/ Read(r) \/ Check(r) \/ AllowWrite(r) \/ RevokeWrite(r)
             \/ Forget(r) \/ CountUsers(r) \/ List(r) \/ Drop(r) \/ Raise(r) \/ NextVM(r)
             \/ ReadEgress(r) \/ Fill(r) \/ Applied(r)
    <2>1. vm' = vm /\ policy' = policy
      BY <1>1 DEF Request, Fail, Read, Check, AllowWrite, RevokeWrite, Forget, CountUsers,
                  List, Drop, Raise, NextVM, ReadEgress, Fill, Applied
    <2> QED
      BY <2>1, SameKeeps
  <1>2. CASE CreateWrite(r)
    <2>1. Available(req[r].choice)
      BY <1>2 DEF CreateWrite, Held, HeldBy
    <2>2. CASE UNCHANGED vm
      BY <1>2, <2>2, SameKeeps DEF CreateWrite
    <2>3. ASSUME NEW w \in VMs, vm[w].state = "none",
                 vm' = [vm EXCEPT ![w] = [state |-> "stopped", egress |-> req[r].choice]]
          PROVE  Keeps(r)
      <3>1. vm'[w].egress = req[r].choice /\ ~Present(w)
        BY <2>3, Typed DEF Present
      <3>2. \A v \in VMs \ {w} : vm'[v] = vm[v]
        BY <2>3, Typed
      <3>3. policy' = policy
        BY <1>2 DEF CreateWrite
      <3> QED
        BY <2>1, <3>1, <3>2, <3>3 DEF Keeps, Named, Available, Present
    <2> QED
      BY <1>2, <2>2, <2>3 DEF CreateWrite
  <1>3. CASE SetWrite(r)
    <2>1. /\ req[r].vm \in VMs /\ req[r].row = vm[req[r].vm] /\ Available(req[r].choice)
          /\ req[r].op = "set" /\ policy' = policy
      BY <1>3, CopyHolds DEF SetWrite, Held, HeldBy
    <2>2. PICK x \in Row : x = [req[r].row EXCEPT !.egress = req[r].choice]
      BY Typed, RowEgress
    <2>3. x.egress = req[r].choice /\ x.state = req[r].row.state
      BY <2>2, Typed, RowEgress
    <2>4. vm' = Saved(req[r].vm, x)
      BY Zenon, <1>3, <2>2 DEF SetWrite
    <2>5. \A v \in VMs : /\ v # req[r].vm => vm'[v] = vm[v]
                         /\ vm'[v] = vm[v] \/ vm'[v].egress = req[r].choice
                         /\ Present(v)' => Present(v)
      BY <2>1, <2>3, <2>4, Typed DEF Saved, Present
    <2> QED
      BY <2>1, <2>5 DEF Keeps, Named, Available
  <1>4. CASE ResizeWrite(r)
    BY <1>4, CopyHolds, Typed, SavedKeeps DEF ResizeWrite
  <1>5. CASE Mark(r)
    <2>1. req[r].vm \in VMs /\ req[r].row = vm[req[r].vm] /\ policy' = policy
      BY <1>5, CopyHolds DEF Mark
    <2>2. PICK x \in Row : x.egress = req[r].row.egress /\ vm' = Saved(req[r].vm, x)
      BY <1>5, MarkMoves
    <2> QED
      BY <2>1, <2>2, SavedKeeps
  <1>6. CASE Commit(r)
    <2>1. req[r].vm \in VMs /\ req[r].row = vm[req[r].vm] /\ policy' = policy
      BY <1>6, CopyHolds DEF Commit
    <2> QED
      BY <1>6, <2>1, CommitMoves, SavedKeeps
  <1>7. CASE Failed(r)
    <2>1. /\ req[r].vm \in VMs /\ req[r].row = vm[req[r].vm] /\ policy' = policy
      BY <1>7, CopyHolds DEF Failed
    <2>2. PICK x \in Row : x = [req[r].row EXCEPT !.state = "error"]
      BY Typed, RowState DEF States
    <2>3. x.egress = req[r].row.egress
      BY <2>2, Typed, RowState DEF States
    <2>4. vm' = Saved(req[r].vm, x)
      BY Zenon, <1>7, <2>2 DEF Failed
    <2> QED
      BY <2>1, <2>3, <2>4, SavedKeeps
  <1>8. CASE Erase(r)
    <2>1. PICK x \in Row : x = [NewRow EXCEPT !.state = "gone"]
      BY NewRowType, RowState DEF States
    <2>2. x.state = "gone"
      BY <2>1, NewRowType, RowState DEF States
    <2>3. vm' = Saved(req[r].vm, x) /\ policy' = policy
      BY <1>8, <2>1, Zenon DEF Erase
    <2>4. ASSUME NEW v \in VMs, Present(v)'
          PROVE  vm'[v] = vm[v]
      BY <2>2, <2>3, <2>4, Typed DEF Saved, Present
    <2>5. \A v \in VMs : Present(v)' => Present(v)
      BY <2>4 DEF Present
    <2> QED
      BY <2>3, <2>4, <2>5 DEF Keeps, Named, Available
  <1>9. CASE NewPolicy(r)
    <2>1. \A p \in Policies : policy[p] = "live" => policy'[p] = "live"
      BY <1>9 DEF NewPolicy, TypeInv, TypeOK
    <2> QED
      BY <1>9, <2>1 DEF NewPolicy, Keeps, Named, Available, Present
  <1>10. CASE DropPolicy(r)
    <2>1. Users(req[r].choice) = {}
      BY <1>10 DEF DropPolicy, Held, HeldBy
    <2>2. \A p \in Policies : p # req[r].choice => policy'[p] = policy[p]
      BY <1>10 DEF DropPolicy, TypeInv, TypeOK
    <2> QED
      BY <1>10, <2>1, <2>2 DEF DropPolicy, Keeps, Named, Available, Present, Users
  <1> QED
    BY <1>1, <1>2, <1>3, <1>4, <1>5, <1>6, <1>7, <1>8, <1>9, <1>10 DEF Step

LEMMA BootKeeps ==
    ASSUME TypeInv, BootList \/ BootRow \/ BootApply \/ Crash
    PROVE  /\ \A v \in VMs : vm'[v].egress = vm[v].egress
           /\ \A v \in VMs : Named(v) => Named(v)'
  <1>1. CASE BootRow
    <2>1. policy' = policy
      BY <1>1 DEF BootRow
    <2> QED
      BY <1>1, <2>1, BootRowMoves DEF Named, Available
  <1>2. CASE BootList \/ BootApply \/ Crash
    <2>1. vm' = vm /\ policy' = policy
      BY <1>2 DEF BootList, BootApply, Crash
    <2> QED
      BY <2>1 DEF Named, Available, Present
  <1> QED
    BY <1>1, <1>2

LEMMA NextKeeps ==
    ASSUME TypeInv, Held, [Next]_vars, NEW r \in Handlers, req'[r] # req[r]
    PROVE  Kept(r) /\ (r \in overtaken \/ \A v \in VMs : Named(v) => Named(v)')
  <1>1. ASSUME NEW s \in Handlers, Step(s), Observe(s)
        PROVE  Kept(r) /\ (r \in overtaken \/ \A v \in VMs : Named(v) => Named(v)')
    <2>1. r = s
      BY <1>1, StepMoves DEF Moves
    <2> QED
      BY <1>1, <2>1, StepKeeps DEF Keeps, Kept
  <1>2. CASE BootStep
    BY <1>2, BootKeeps DEF BootStep, Kept
  <1>3. CASE UNCHANGED vars
    BY <1>3 DEF vars
  <1> QED
    BY <1>1, <1>2, <1>3 DEF Next

\* The whole-row writes of StartVM, StopVM, DeleteVM and UpdateResources change
\* an egress choice only from a copy that another request has overtaken
\* (service.go:668).
THEOREM ChoicesHold == Spec => ChoiceHolds
  <1>1. TypeInv /\ Held /\ [Next]_vars => [\A r \in Handlers : req'[r] # req[r] => Kept(r)]_vars
    BY NextKeeps
  <1>2. Init => TypeInv /\ Held
    BY InitType, InitHeld
  <1>3. TypeInv /\ Held /\ [Next]_vars => (TypeInv /\ Held)'
    BY NextType, HeldNext
  <1> QED
    BY <1>1, <1>2, <1>3, PTL DEF Spec, ChoiceHolds

\* A handler that nobody has overtaken leaves no VM with a policy that is gone
\* (store.go:1019, service.go:747).
THEOREM PoliciesKept == Spec => PoliciesThere
  <1>1. TypeInv /\ Held /\ [Next]_vars =>
          [\A r \in Handlers : req'[r] # req[r] =>
               r \in overtaken \/ \A v \in VMs : Named(v) => Named(v)']_vars
    BY NextKeeps
  <1>2. Init => TypeInv /\ Held
    BY InitType, InitHeld
  <1>3. TypeInv /\ Held /\ [Next]_vars => (TypeInv /\ Held)'
    BY NextType, HeldNext
  <1> QED
    BY <1>1, <1>2, <1>3, PTL DEF Spec, PoliciesThere

-----------------------------------------------------------------------------
(* A rebuild that nobody disturbs.                                         *)

\* Where the rules of a VM still have to be set, the frame says which egress
\* choice they have; the table holds the rules of all other VMs.  f is the frame
\* of the rebuild, t the table and w what the rows ask for.
Tags == {"spoof", "route"} \cup Egress
Agrees(v, e, w) == \A k \in Tags : <<v, k>> \in w <=> k \in {"spoof", "route", e}
Settled(f, w) == {e \in w : f.seen[e[1]] = NoId}

Stands(f, t, w) ==
    /\ f.pc \in ApplyPCs
    /\ \A v \in VMs : f.seen[v] # NoId => Agrees(v, f.seen[v], w)
    /\ f.pc = "drop" => Settled(f, w) = {}
    /\ f.pc \in {"raise", "next"} => t.rules = Settled(f, w)
    /\ f.pc \in {"egress", "fill"} =>
         /\ t.rules = Settled(f, w) \cup {<<f.cur, "spoof">>}
         /\ f.open = {i \in Rules : <<f.cur, i>> \in w}

Tight ==
    /\ \A q \in alone : Stands(req[q], table, Wanted)
    /\ synced => table.rules = Wanted

LEMMA WantedType == Wanted \in SUBSET Entries
  BY DEF Wanted

LEMMA KindsApart ==
    /\ NoId \notin Egress
    /\ "spoof" \notin Egress /\ "route" \notin Egress
    /\ \A i \in Rules : i \notin Tags
  BY FirewallAssumption DEF Tags, Egress

\* What the rows ask for an active VM, and for one that is not.
LEMMA WantedActive ==
    ASSUME TypeInv, NEW v \in VMs
    PROVE  /\ Active(v) => Agrees(v, vm[v].egress, Wanted)
           /\ \A i \in Rules : <<v, i>> \in Wanted <=> Active(v) /\ rule[i] = v
           /\ (\E k : <<v, k>> \in Wanted) => Active(v)
  <1>1. vm[v].egress \in Egress
    BY DEF TypeInv, TypeOK, Row
  <1>2. \A k : <<v, k>> \in Wanted <=>
                 k \in {"spoof", "route"} \cup Rules \cup Egress /\ Active(v) /\ k \in Kinds(v)
    BY DEF Wanted, Entries
  <1>3. \A i \in Rules : i \in Kinds(v) <=> rule[i] = v
    BY <1>1, KindsApart DEF Kinds, Tags
  <1>4. \A k \in Tags : k \in Kinds(v) <=> k \in {"spoof", "route", vm[v].egress}
    BY KindsApart DEF Kinds
  <1>5. Active(v) => Agrees(v, vm[v].egress, Wanted)
    BY <1>2, <1>4 DEF Agrees, Tags
  <1> QED
    BY <1>2, <1>3, <1>5

LEMMA WantedSame ==
    ASSUME vm' = vm, rule' = rule
    PROVE  Wanted' = Wanted
  BY DEF Wanted, Active, Kinds

\* The handlers that do not take this step.
LEMMA TightOthers ==
    ASSUME Tight, NEW r \in Handlers, Observe(r),
           NEW q \in Handlers \ {r}, q \in alone', req'[q] = req[q]
    PROVE  Stands(req'[q], table', Wanted')
  <1>1. /\ q \in alone /\ Wanted' = Wanted
        /\ req[q].pc = "drop" \/ table' = table
    BY DEF Observe
  <1>2. Stands(req[q], table, Wanted)
    BY <1>1 DEF Tight
  <1>3. CASE table' = table
    BY <1>1, <1>2, <1>3
  <1>4. CASE req[q].pc = "drop"
    BY <1>1, <1>2, <1>4 DEF Stands
  <1> QED
    BY <1>1, <1>3, <1>4

\* A handler has listed the VMs.
LEMMA TightList ==
    ASSUME TypeInv, NEW r \in Handlers, List(r)
    PROVE  Stands(req'[r], table', Wanted')
  <1>1. Wanted' = Wanted
    BY WantedSame DEF List
  <1>2. /\ req'[r].pc = "drop"
        /\ req'[r].seen = [v \in VMs |-> IF Active(v) THEN vm[v].egress ELSE NoId]
    BY ListMoves
  <1>3. \A v \in VMs : vm[v].egress \in Egress
    BY DEF TypeInv, TypeOK, Row
  <1>4. \A v \in VMs : req'[r].seen[v] # NoId => Agrees(v, req'[r].seen[v], Wanted)
    BY <1>2, WantedActive
  <1>5. ASSUME NEW e \in Wanted
        PROVE  req'[r].seen[e[1]] # NoId
    <2>1. e[1] \in VMs /\ Active(e[1])
      BY DEF Wanted, Entries
    <2> QED
      BY <1>2, <1>3, <2>1, KindsApart
  <1> QED
    BY <1>1, <1>2, <1>4, <1>5 DEF Stands, Settled, ApplyPCs

\* A handler clears the table, raises it, and has found a policy.
LEMMA TightGoto ==
    ASSUME TypeInv, NEW r \in Handlers, Stands(req[r], table, Wanted), req'[r].pc \in ApplyPCs,
           Drop(r) \/ Raise(r) \/ ReadEgress(r)
    PROVE  Stands(req'[r], table', Wanted')
  <1>1. Wanted' = Wanted
    BY WantedSame DEF Drop, Raise, ReadEgress
  <1>2. PICK f \in Frame : f = req[r]
    BY Typed
  <1>3. CASE Drop(r)
    <2>1. f.pc = "drop" /\ req'[r] = [f EXCEPT !.pc = "raise"] /\ table'.rules = {}
      BY <1>2, <1>3, DropMoves DEF Drop
    <2>2. req'[r].pc = "raise" /\ req'[r].seen = f.seen
      BY <2>1, PcFields
    <2> QED
      BY <1>1, <1>2, <2>1, <2>2 DEF Stands, Settled, ApplyPCs
  <1>4. CASE Raise(r)
    <2>1. f.pc = "raise" /\ req'[r] = [f EXCEPT !.pc = "next"]
      BY <1>2, <1>4, RaiseMoves DEF Raise
    <2>2. req'[r].pc = "next" /\ req'[r].seen = f.seen
      BY <2>1, PcFields
    <2>3. table'.rules = table.rules
      BY <1>4 DEF Raise, TypeInv, TypeOK
    <2> QED
      BY <1>1, <1>2, <2>1, <2>2, <2>3 DEF Stands, Settled, ApplyPCs
  <1>5. CASE ReadEgress(r)
    <2>1. f.pc = "egress" /\ table' = table
      BY <1>2, <1>5 DEF ReadEgress
    <2>2. PICK l \in {"fill", "failed", "idle"} :
             req'[r] = [f EXCEPT !.pc = l] \/ (l = "idle" /\ req'[r] = IdleFrame)
      BY <1>2, <1>5, ReadEgressMoves
    <2>3. CASE req'[r] = IdleFrame
      BY <2>3 DEF IdleFrame, Ask, ApplyPCs
    <2>4. CASE req'[r] = [f EXCEPT !.pc = l]
      <3>1. req'[r].pc = l
        BY <2>4, PcFields
      <3>2. l = "fill"
        BY <3>1 DEF ApplyPCs
      <3>3. req'[r].seen = f.seen /\ req'[r].cur = f.cur /\ req'[r].open = f.open
        BY <2>4, PcFields
      <3> QED
        BY <1>1, <1>2, <2>1, <3>1, <3>2, <3>3 DEF Stands, Settled, ApplyPCs
    <2> QED
      BY <2>2, <2>3, <2>4
  <1> QED
    BY <1>3, <1>4, <1>5

\* A handler turns to the next VM.
LEMMA TightNextVM ==
    ASSUME TypeInv, NEW r \in Handlers, Stands(req[r], table, Wanted), req'[r].pc \in ApplyPCs,
           NextVM(r)
    PROVE  Stands(req'[r], table', Wanted')
  <1>1. Wanted' = Wanted
    BY WantedSame DEF NextVM
  <1>2. req[r].pc = "next" /\ req[r] \in Frame
    BY Typed DEF NextVM
  <1>3. /\ req'[r] # IdleFrame
        /\ req'[r] # [req[r] EXCEPT !.pc = "failed"]
    <2>1. ASSUME req'[r] = IdleFrame
          PROVE  FALSE
      BY <2>1 DEF IdleFrame, Ask, ApplyPCs
    <2>2. ASSUME req'[r] = [req[r] EXCEPT !.pc = "failed"]
          PROVE  FALSE
      <3>1. req'[r].pc = "failed"
        BY <1>2, <2>2, PcFields
      <3> QED
        BY <3>1 DEF ApplyPCs
    <2> QED
      BY <2>1, <2>2
  <1>4. PICK v \in VMs :
           /\ req[r].seen[v] # NoId
           /\ table' = [table EXCEPT !.rules = table.rules \cup {<<v, "spoof">>}]
           /\ req'[r].pc = "egress" /\ req'[r].row = req[r].row /\ req'[r].vm = req[r].vm
           /\ req'[r].seen = req[r].seen /\ req'[r].cur = v
           /\ req'[r].open = {i \in Rules : rule[i] = v}
    BY <1>3, NextVMMoves
  <1>5. table'.rules = table.rules \cup {<<v, "spoof">>}
    BY <1>4 DEF TypeInv, TypeOK
  <1>6. <<v, "spoof">> \in Wanted
    BY <1>4 DEF Stands, Agrees, Tags
  <1>7. {i \in Rules : <<v, i>> \in Wanted} = {i \in Rules : rule[i] = v}
    BY <1>6, WantedActive
  <1> QED
    BY <1>1, <1>2, <1>4, <1>5, <1>7 DEF Stands, Settled, ApplyPCs

\* A handler has set all rules of a VM.
LEMMA TightFill ==
    ASSUME TypeInv, NEW r \in Handlers, Stands(req[r], table, Wanted), req'[r].pc \in ApplyPCs,
           Fill(r)
    PROVE  Stands(req'[r], table', Wanted')
  <1>1. Wanted' = Wanted
    BY WantedSame DEF Fill
  <1>2. PICK f \in Frame : f = req[r]
    BY Typed
  <1>3. f.pc = "fill" /\ f.seen \in [VMs -> Egress \cup {NoId}] /\ f.open \subseteq Rules
        /\ f.cur \in VMs /\ f.seen[f.cur] # NoId
    BY <1>2, Typed DEF Fill, Shape
  <1>4. /\ req'[r] # IdleFrame
        /\ req'[r] # [f EXCEPT !.pc = "failed"]
    <2>1. ASSUME req'[r] = IdleFrame
          PROVE  FALSE
      BY <2>1 DEF IdleFrame, Ask, ApplyPCs
    <2>2. ASSUME req'[r] = [f EXCEPT !.pc = "failed"]
          PROVE  FALSE
      <3>1. req'[r].pc = "failed"
        BY <2>2, PcFields
      <3> QED
        BY <3>1 DEF ApplyPCs
    <2> QED
      BY <2>1, <2>2
  <1>5. PICK v \in VMs, s \in Egress :
           /\ v = f.cur /\ s = f.seen[v]
           /\ table' = [table EXCEPT !.rules = table.rules \cup
                           {<<v, k>> : k \in {"route"} \cup f.open \cup {s}}]
           /\ req'[r].pc = "next" /\ req'[r].row = f.row /\ req'[r].vm = f.vm
           /\ req'[r].seen = [f.seen EXCEPT ![v] = NoId]
    BY <1>2, <1>4, FillMoves
  <1>6. table'.rules = table.rules \cup {<<v, k>> : k \in {"route"} \cup f.open \cup {s}}
    BY <1>5 DEF TypeInv, TypeOK
  <1>7. /\ table.rules = Settled(f, Wanted) \cup {<<v, "spoof">>}
        /\ f.open = {i \in Rules : <<v, i>> \in Wanted}
        /\ Agrees(v, s, Wanted)
    BY <1>2, <1>3, <1>5 DEF Stands
  <1>8. ASSUME NEW e \in Entries, e[1] = v
        PROVE  e \in Wanted <=> e[2] \in {"spoof", "route", s} \cup f.open
    <2>1. e = <<v, e[2]>> /\ e[2] \in Tags \cup Rules
      BY <1>8 DEF Entries, Tags
    <2>2. f.open \subseteq Rules
      BY <1>3
    <2>3. CASE e[2] \in Tags
      BY <1>7, <2>1, <2>2, <2>3, KindsApart DEF Agrees
    <2>4. CASE e[2] \in Rules
      BY <1>7, <2>1, <2>4, KindsApart DEF Tags
    <2> QED
      BY <2>1, <2>3, <2>4
  <1>9. Settled(req'[r], Wanted) = Settled(f, Wanted) \cup {e \in Wanted : e[1] = v}
    BY <1>3, <1>5, WantedType DEF Settled, Entries
  <1>10. {e \in Wanted : e[1] = v} = {<<v, k>> : k \in {"spoof", "route", s} \cup f.open}
    <2>1. ASSUME NEW e \in Wanted, e[1] = v
          PROVE  e \in {<<v, k>> : k \in {"spoof", "route", s} \cup f.open}
      <3>1. e \in Entries /\ e = <<e[1], e[2]>>
        BY WantedType DEF Entries
      <3>2. e[2] \in {"spoof", "route", s} \cup f.open
        BY <1>8, <2>1, <3>1
      <3> QED
        BY <2>1, <3>1, <3>2
    <2>2. ASSUME NEW k \in {"spoof", "route", s} \cup f.open
          PROVE  <<v, k>> \in Wanted
      <3>1. <<v, k>> \in Entries
        BY <1>3, <2>2 DEF Entries
      <3> QED
        BY <1>8, <2>2, <3>1
    <2> QED
      BY <2>1, <2>2
  <1>11. table'.rules = Settled(req'[r], Wanted)
    BY <1>6, <1>7, <1>9, <1>10
  <1>12. \A w \in VMs : req'[r].seen[w] # NoId => req'[r].seen[w] = f.seen[w]
    BY <1>3, <1>5
  <1>13. \A w \in VMs : req'[r].seen[w] # NoId => Agrees(w, req'[r].seen[w], Wanted)
    BY <1>2, <1>12 DEF Stands
  <1> QED
    BY <1>1, <1>5, <1>11, <1>13 DEF Stands, ApplyPCs

LEMMA TightMover ==
    ASSUME TypeInv, Tight, NEW r \in Handlers, Step(r), Observe(r), r \in alone'
    PROVE  Stands(req'[r], table', Wanted')
  <1>1. /\ req'[r].pc \in ApplyPCs
        /\ req[r].pc = "list" \/ (Stands(req[r], table, Wanted) /\ req[r].pc \in ApplyPCs)
        /\ req[r].pc # "list" => ~Fail(r)
    BY DEF Observe, Tight, Stands, ApplyPCs
  <1>2. req[r].pc \in ApplyPCs \cup {"list"}
    BY <1>1
  <1>3. CASE req[r].pc = "list"
    <2>1. List(r) \/ Fail(r)
      BY <1>3 DEF Step, Request, Fail, Read, Check, CreateWrite, SetWrite, ResizeWrite,
                AllowWrite, RevokeWrite, Mark, Commit, Failed, Forget, Erase, NewPolicy,
                CountUsers, DropPolicy, Drop, Raise, NextVM, ReadEgress, Fill, Applied
    <2>2. ~Fail(r)
      <3>1. ASSUME Fail(r)
            PROVE  FALSE
        <4>1. req[r] \in Frame
          BY Typed
        <4>2. Finish(r) \/ Goto(r, "failed")
          BY <1>3, <3>1 DEF Fail
        <4>3. req'[r] = IdleFrame \/ req'[r] = [req[r] EXCEPT !.pc = "failed"]
          BY <4>2 DEF Finish, Goto, Become, TypeInv, TypeOK
        <4>4. CASE req'[r] = IdleFrame
          BY <1>1, <4>4 DEF IdleFrame, Ask, ApplyPCs
        <4>5. CASE req'[r] = [req[r] EXCEPT !.pc = "failed"]
          <5>1. req'[r].pc = "failed"
            BY <4>1, <4>5, PcFields
          <5> QED
            BY <1>1, <5>1 DEF ApplyPCs
        <4> QED
          BY <4>3, <4>4, <4>5
      <3> QED
        BY <3>1
    <2> QED
      BY <2>1, <2>2, TightList
  <1>4. CASE req[r].pc \in ApplyPCs
    <2>1. /\ Stands(req[r], table, Wanted) /\ ~Fail(r)
          /\ req[r].pc \in {"drop", "raise", "next", "egress", "fill"}
      BY <1>1, <1>4 DEF ApplyPCs
    <2>2. Drop(r) \/ Raise(r) \/ NextVM(r) \/ ReadEgress(r) \/ Fill(r) \/ Applied(r)
      BY <2>1 DEF Step, Request, Read, Check, CreateWrite, SetWrite, ResizeWrite,
                AllowWrite, RevokeWrite, Mark, Commit, Failed, Forget, Erase, NewPolicy,
                CountUsers, DropPolicy, List
    <2>3. ~Applied(r)
      <3>1. ASSUME Applied(r)
            PROVE  FALSE
        <4>1. req[r] \in Frame
          BY Typed
        <4>2. \/ req'[r] = IdleFrame
              \/ \E l \in {"commit", "forget"} : req'[r] = [req[r] EXCEPT !.pc = l]
          BY <3>1, AppliedMoves
        <4>3. CASE req'[r] = IdleFrame
          BY <1>1, <4>3 DEF IdleFrame, Ask, ApplyPCs
        <4>4. ASSUME NEW l \in {"commit", "forget"}, req'[r] = [req[r] EXCEPT !.pc = l]
              PROVE  FALSE
          <5>1. req'[r].pc = l
            BY <4>1, <4>4, PcFields
          <5> QED
            BY <1>1, <5>1 DEF ApplyPCs
        <4> QED
          BY <4>2, <4>3, <4>4
      <3> QED
        BY <3>1
    <2> QED
      BY <1>1, <2>1, <2>2, <2>3, TightGoto, TightNextVM, TightFill
  <1> QED
    BY <1>2, <1>3, <1>4

LEMMA TightSynced ==
    ASSUME TypeInv, Tight, NEW r \in Handlers, Observe(r), synced'
    PROVE  table'.rules = Wanted' /\ Wanted' = Wanted
  <1>1. (r \in alone /\ Applied(r)) \/ (synced /\ Calm)
    BY DEF Observe
  <1>2. CASE r \in alone /\ Applied(r)
    <2>1. /\ Stands(req[r], table, Wanted) /\ req[r].pc = "next" /\ req[r].seen = Nothing
          /\ table' = table /\ Wanted' = Wanted
      BY <1>2, WantedSame DEF Tight, Applied
    <2>2. table.rules = Settled(req[r], Wanted)
      BY <2>1 DEF Stands
    <2>3. Settled(req[r], Wanted) = Wanted
      BY <2>1, WantedType DEF Settled, Nothing, Entries
    <2> QED
      BY <2>1, <2>2, <2>3
  <1>3. CASE synced /\ Calm
    BY <1>3 DEF Calm, Tight
  <1> QED
    BY <1>1, <1>2, <1>3

LEMMA InitTight == Init => Tight
  BY DEF Init, Tight

LEMMA NextTight == TypeInv /\ Tight /\ [Next]_vars => Tight'
  <1> SUFFICES ASSUME TypeInv, Tight, [Next]_vars
               PROVE  Tight'
    OBVIOUS
  <1>1. ASSUME NEW r \in Handlers, Step(r), Observe(r)
        PROVE  Tight'
    <2>1. \A q \in Handlers \ {r} : req'[q] = req[q]
      BY <1>1, StepMoves DEF Moves
    <2>2. alone' \subseteq Handlers
      BY <1>1, ObserveType
    <2>3. ASSUME NEW q \in alone'
          PROVE  Stands(req'[q], table', Wanted')
      BY <1>1, <2>1, <2>2, <2>3, TightOthers, TightMover
    <2> QED
      BY <1>1, <2>3, TightSynced DEF Tight
  <1>2. CASE BootStep /\ Observe(Boot)
    <2>1. Boot \in Handlers
      BY DEF Handlers
    <2>2. alone' \subseteq Handlers
      BY <1>2, <2>1, ObserveType
    <2>3. ASSUME NEW q \in alone', q # Boot
          PROVE  Stands(req'[q], table', Wanted')
      <3>1. CASE BootList \/ BootRow \/ BootApply
        BY <1>2, <2>1, <2>2, <2>3, <3>1, BootMoves, TightOthers DEF Moves
      <3>2. CASE Crash
        BY <1>2, <2>2, <2>3, <3>2, CrashMoves DEF Observe, ApplyPCs
      <3> QED
        BY <1>2, <3>1, <3>2 DEF BootStep
    <2>4. Boot \notin alone'
      <3>1. req'[Boot].pc \in {"idle", "sweep", "list", "boot"}
        <4>1. CASE BootList
          BY <4>1, BootListMoves
        <4>2. CASE BootRow
          BY <4>2, BootRowMoves
        <4>3. CASE BootApply
          <5>1. req[Boot] \in Frame /\ req'[Boot] = [req[Boot] EXCEPT !.pc = "list"]
            BY <2>1, <4>3, BootApplyMoves, Typed
          <5>2. [req[Boot] EXCEPT !.pc = "list"].pc = "list"
            BY <5>1, PcFields
          <5> QED
            BY <5>1, <5>2
        <4>4. CASE Crash
          BY <2>1, <4>4, CrashMoves
        <4> QED
          BY <1>2, <4>1, <4>2, <4>3, <4>4 DEF BootStep
      <3> QED
        BY <1>2, <3>1 DEF Observe, ApplyPCs
    <2> QED
      BY <1>2, <2>1, <2>3, <2>4, TightSynced DEF Tight
  <1>3. CASE UNCHANGED vars
    <2>1. Wanted' = Wanted
      BY <1>3, WantedSame DEF vars
    <2> QED
      BY <1>3, <2>1 DEF vars, Tight
  <1> QED
    BY <1>1, <1>2, <1>3 DEF Next

-----------------------------------------------------------------------------
(* Firewall implements PacketFilter.                                       *)

LEMMA FilterInit == Init => Filter!Init
  BY WantedType DEF Init, Filter!Init

LEMMA FilterNext == TypeInv /\ Tight /\ Tight' /\ [Next]_vars =>
                        [Filter!Next]_<<Wanted, IF synced THEN table.rules ELSE NoId>>
  <1> SUFFICES ASSUME TypeInv, Tight, Tight', [Next]_vars
               PROVE  [Filter!Next]_<<Wanted, IF synced THEN table.rules ELSE NoId>>
    OBVIOUS
  <1>1. ASSUME NEW r \in Handlers, Observe(r)
        PROVE  Filter!Next
    <2>1. CASE synced'
      BY <1>1, <2>1, TightSynced DEF Filter!Next, Filter!Settle
    <2>2. CASE ~synced'
      <3>1. Wanted' \in SUBSET Entries
        BY DEF Wanted, Entries, Egress
      <3> QED
        BY <2>2, <3>1 DEF Filter!Next, Filter!Unsettle
    <2> QED
      BY <2>1, <2>2
  <1>2. CASE UNCHANGED vars
    BY <1>2, WantedSame DEF vars
  <1>3. Boot \in Handlers
    BY DEF Handlers
  <1> QED
    BY <1>1, <1>2, <1>3 DEF Next

\* A rebuild of service.go:1551 that nobody disturbs and no command of which
\* fails ends with exactly the rules that the rows ask for, and the table stays
\* so until a row or the table changes.
THEOREM FirewallImplements == Spec => Implements
  <1>1. Init => TypeInv /\ Tight
    BY InitType, InitTight
  <1>2. TypeInv /\ Tight /\ [Next]_vars => (TypeInv /\ Tight)'
    BY NextType, NextTight
  <1> QED
    BY <1>1, <1>2, FilterInit, FilterNext, PTL DEF Spec, Implements, Filter!Spec

=============================================================================
