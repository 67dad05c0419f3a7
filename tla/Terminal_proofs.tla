---------------------------- MODULE Terminal_proofs ----------------------------
(***************************************************************************)
(* Proofs about Terminal: for any capacities of outputCh and errCh and any    *)
(* number of chunks, the browser is sent each stream in order and without     *)
(* gaps, and all of it when SSHTerminal returns without an error.             *)
(***************************************************************************)
EXTENDS Terminal, SequenceTheorems, TLAPS

-----------------------------------------------------------------------------
(* Types, and where the goroutines can be.                                  *)

\* Each goroutine is at a place of its own code.  Before the shell has started nothing
\* has happened; the writer has a message while it writes; SSHTerminal has a result
\* once it is past its select.
Places ==
    /\ \A s \in Streams : pc[s] \in {"read", "put", "end"}
    /\ pc["writer"] \in {"take", "write", "writing", "send_nil", "send_err", "end"}
    /\ pc["input"] \in {"read", "write", "send_err", "end"}
    /\ pc["waiter"] \in {"wait", "send_err", "end"}
    /\ pc["closer"] \in {"wait", "end"}
    /\ pc["main"] \in {"dial", "select", "close_done", "close_client", "report", "reporting",
                       "close_conn", "end"}
    /\ pc["main"] = "dial" =>
         /\ \A g \in Goroutines \ {"main"} : pc[g] = "end"
         /\ remote = "up" /\ taken = [s \in Streams |-> 0] /\ closed = FALSE
         /\ outputCh = <<>> /\ sent = <<>> /\ errCh = <<>>
    /\ result = "none" <=> pc["main"] \in {"dial", "select"}
    /\ hand # NoMessage <=> pc["writer"] \in {"write", "writing"}

\* A reader reads what has arrived, and in a session without a result it ends only when it
\* has read everything and no more will come.
Readers ==
    \A s \in Streams :
      /\ taken[s] <= arrived[s]
      /\ pc[s] = "put" => taken[s] > 0
      /\ closed => pc[s] = "end"
      /\ pc["main"] = "select" /\ pc[s] = "end" => taken[s] = arrived[s] /\ remote # "up"

TypeInv == TypeOK /\ Places /\ Readers

\* The sequences of messages and of results.
LEMMA SeqSteps ==
  ASSUME NEW S, NEW q \in Seq(S)
  PROVE  /\ Len(q) \in Nat
         /\ \A x \in S : Append(q, x) \in Seq(S) /\ Len(Append(q, x)) = Len(q) + 1
         /\ q # <<>> => Head(q) \in S /\ Tail(q) \in Seq(S) /\ Len(Tail(q)) = Len(q) - 1
<1>1. \A x \in S : Append(q, x) \in Seq(S) /\ Len(Append(q, x)) = Len(q) + 1
  BY AppendProperties
<1>2. q # <<>> => Head(q) \in S /\ Tail(q) \in Seq(S) /\ Len(Tail(q)) = Len(q) - 1
  BY HeadTailProperties
<1> QED
  BY <1>1, <1>2

LEMMA InitTypes == Init => TypeInv
<1> SUFFICES ASSUME Init PROVE TypeInv
  OBVIOUS
<1>1. pc \in [Goroutines -> PCs] /\ arrived \in [Streams -> 0 .. MaxChunks] /\ taken \in [Streams -> 0 .. MaxChunks]
  BY TerminalAssumption DEF Init, PCs
<1>2. <<>> \in Seq(Messages) /\ <<>> \in Seq(Results) /\ Len(<<>>) = 0
  OBVIOUS
<1>3. TypeOK
  <2>1. outputCh \in Seq(Messages) /\ sent \in Seq(Messages) /\ errCh \in Seq(Results)
        /\ Len(outputCh) <= OutCap /\ Len(errCh) <= ErrCap
    BY <1>2, TerminalAssumption DEF Init
  <2> QED
    BY <1>1, <2>1 DEF Init, TypeOK
<1>4. Places
  BY DEF Init, Places, Goroutines, Streams
<1>5. Readers
  BY DEF Init, Readers, Goroutines, Streams
<1> QED
  BY <1>3, <1>4, <1>5 DEF TypeInv

\* What the guest and the browser do.
LEMMA OutsideTypes ==
  ASSUME TypeInv, (\E s \in Streams : Arrive(s)) \/ ShellEnds \/ BrowserLeaves
  PROVE  TypeInv'
<1>1. CASE \E s \in Streams : Arrive(s)
  BY <1>1, TerminalAssumption DEF TypeInv, TypeOK, Places, Readers, Arrive
<1>2. CASE ShellEnds
  BY <1>2 DEF TypeInv, TypeOK, Places, Readers, ShellEnds
<1>3. CASE BrowserLeaves
  BY <1>3 DEF TypeInv, TypeOK, Places, Readers, BrowserLeaves
<1> QED
  BY <1>1, <1>2, <1>3

LEMMA ReaderTypes == ASSUME TypeInv, NEW s \in Streams, Reader(s) PROVE TypeInv'
<1> USE DEF TypeInv
<1>1. CASE ReaderRead(s)
  <2>1. TypeOK'
    <3>1. pc' \in [Goroutines -> PCs]
      BY <1>1 DEF TypeOK, ReaderRead, Goto, PCs
    <3>2. taken' \in [Streams -> 0 .. MaxChunks]
      <4>1. arrived[s] \in 0 .. MaxChunks /\ taken[s] \in 0 .. MaxChunks
        BY DEF TypeOK
      <4>2. taken[s] < arrived[s] => taken[s] + 1 \in 0 .. MaxChunks
        BY <4>1, TerminalAssumption
      <4> QED
        BY <1>1, <4>2 DEF TypeOK, ReaderRead
    <3> QED
      BY <1>1, <3>1, <3>2 DEF TypeOK, ReaderRead
  <2>2. Places'
    BY <1>1 DEF TypeOK, Places, ReaderRead, Goto, At, Goroutines, Streams
  <2>3. Readers'
    BY <1>1 DEF TypeOK, Places, Readers, ReaderRead, Goto, At, Goroutines, Streams
  <2> QED
    BY <2>1, <2>2, <2>3
<1>2. CASE ReaderPut(s)
  <2>1. outputCh' \in Seq(Messages) /\ Len(outputCh') <= OutCap
    <3>1. <<s, taken[s]>> \in Messages
      BY <1>2 DEF TypeOK, Readers, ReaderPut, At, Messages
    <3> QED
      <4>1. Len(outputCh) \in Nat /\ \A x \in Messages : /\ Append(outputCh, x) \in Seq(Messages)
                                                       /\ Len(Append(outputCh, x)) = Len(outputCh) + 1
        BY SeqSteps DEF TypeOK
      <4>2. CASE UNCHANGED outputCh
        BY <4>2 DEF TypeOK
      <4>3. CASE Len(outputCh) < OutCap /\ outputCh' = Append(outputCh, <<s, taken[s]>>)
        BY <3>1, <4>1, <4>3, TerminalAssumption
      <4> QED
        BY <1>2, <4>2, <4>3 DEF ReaderPut
  <2>2. TypeOK'
    BY <1>2, <2>1 DEF TypeOK, ReaderPut, Goto, PCs
  <2>3. Places'
    BY <1>2 DEF TypeOK, Places, ReaderPut, Goto, At, Goroutines, Streams
  <2>4. Readers'
    BY <1>2 DEF TypeOK, Places, Readers, ReaderPut, Goto, At, Goroutines, Streams, done
  <2> QED
    BY <2>2, <2>3, <2>4
<1> QED
  BY <1>1, <1>2 DEF Reader

LEMMA CloseOutputTypes == ASSUME TypeInv, CloseOutput PROVE TypeInv'
BY DEF TypeInv, TypeOK, Places, Readers, CloseOutput, Goto, At, Goroutines, Streams, PCs

\* A result is sent or, when nobody wants it any more, dropped.
LEMMA ResultTypes ==
  ASSUME TypeInv, NEW g \in {"writer", "input", "waiter"}, sendTerminalResult(g)
  PROVE  TypeInv'
<1> USE DEF TypeInv
<1>1. errCh' \in Seq(Results) /\ Len(errCh') <= ErrCap
  <2>1. ASSUME NEW x \in Results PROVE Append(errCh, x) \in Seq(Results) /\ Len(Append(errCh, x)) = Len(errCh) + 1
    BY SeqSteps DEF TypeOK
  <2>2. errCh' = errCh \/ (Len(errCh) < ErrCap /\ \E x \in Results : errCh' = Append(errCh, x))
    BY DEF sendTerminalResult, Results
  <2>3. Len(errCh) \in Nat
    BY SeqSteps DEF TypeOK
  <2>4. CASE errCh' = errCh
    BY <2>4 DEF TypeOK
  <2>5. CASE Len(errCh) < ErrCap /\ \E x \in Results : errCh' = Append(errCh, x)
    BY <2>1, <2>3, <2>5, TerminalAssumption
  <2> QED
    BY <2>2, <2>4, <2>5
<1>2. TypeOK'
  BY <1>1 DEF TypeOK, sendTerminalResult, Goto, PCs
<1>3. Places'
  BY DEF TypeOK, Places, sendTerminalResult, Goto, Goroutines, Streams
<1>4. Readers'
  BY DEF TypeOK, Places, Readers, sendTerminalResult, Goto, Goroutines, Streams
<1> QED
  BY <1>2, <1>3, <1>4

LEMMA WriterTypes == ASSUME TypeInv, WriterTake \/ WriterBegin \/ WriterEnd PROVE TypeInv'
<1> USE DEF TypeInv
<1>1. CASE WriterTake
  <2>1. outputCh' \in Seq(Messages) /\ Len(outputCh') <= OutCap /\ hand' \in Messages \cup {NoMessage}
    <3>1. /\ Len(outputCh) \in Nat
          /\ outputCh # <<>> => /\ Head(outputCh) \in Messages
                                /\ Tail(outputCh) \in Seq(Messages)
                                /\ Len(Tail(outputCh)) = Len(outputCh) - 1
      BY SeqSteps DEF TypeOK
    <3> QED
      <4>1. CASE UNCHANGED outputCh /\ UNCHANGED hand
        BY <4>1 DEF TypeOK
      <4>2. CASE outputCh # <<>> /\ hand' = Head(outputCh) /\ outputCh' = Tail(outputCh)
        BY <3>1, <4>2, TerminalAssumption DEF TypeOK
      <4> QED
        BY <1>1, <4>1, <4>2 DEF WriterTake
  <2>2. TypeOK'
    BY <1>1, <2>1 DEF TypeOK, WriterTake, Goto, PCs
  <2>3. outputCh # <<>> => Head(outputCh) # NoMessage
    <3>1. outputCh # <<>> => Head(outputCh) \in Messages
      BY HeadTailProperties DEF TypeOK
    <3>2. \A m \in Messages : m # NoMessage
      BY DEF Messages, NoMessage
    <3> QED
      BY <3>1, <3>2
  <2>4. Places'
    BY <1>1, <2>3 DEF TypeOK, Places, WriterTake, Goto, At, Goroutines, Streams
  <2>5. Readers'
    BY <1>1 DEF TypeOK, Places, Readers, WriterTake, Goto, At, Goroutines, Streams
  <2> QED
    BY <2>2, <2>4, <2>5
<1>2. CASE WriterBegin
  <2>1. TypeOK'
    BY <1>2 DEF TypeOK, WriterBegin, Goto, PCs
  <2>2. Places'
    BY <1>2 DEF TypeOK, Places, WriterBegin, Goto, At, Goroutines, Streams
  <2>3. Readers'
    BY <1>2 DEF TypeOK, Places, Readers, WriterBegin, Goto, At, Goroutines, Streams
  <2> QED
    BY <2>1, <2>2, <2>3
<1>3. CASE WriterEnd
  <2>1. sent' \in Seq(Messages)
    <3>1. \A x \in Messages : Append(sent, x) \in Seq(Messages)
      BY SeqSteps DEF TypeOK
    <3>2. hand \in Messages
      BY <1>3 DEF TypeOK, Places, WriterEnd, At
    <3> QED
      BY <1>3, <3>1, <3>2 DEF TypeOK, WriterEnd
  <2>2. TypeOK'
    BY <1>3, <2>1 DEF TypeOK, WriterEnd, Goto, PCs
  <2>3. Places'
    BY <1>3 DEF TypeOK, Places, WriterEnd, Goto, At, Goroutines, Streams
  <2>4. Readers'
    BY <1>3 DEF TypeOK, Places, Readers, WriterEnd, Goto, At, Goroutines, Streams
  <2> QED
    BY <2>2, <2>3, <2>4
<1> QED
  BY <1>1, <1>2, <1>3

LEMMA InputTypes == ASSUME TypeInv, InputRead \/ InputWrite \/ Wait PROVE TypeInv'
<1> USE DEF TypeInv, TypeOK, Places, Readers, Goto, At, Goroutines, Streams, PCs
<1>1. CASE InputRead
  BY <1>1 DEF InputRead
<1>2. CASE InputWrite
  BY <1>2 DEF InputWrite
<1>3. CASE Wait
  BY <1>3 DEF Wait
<1> QED
  BY <1>1, <1>2, <1>3

LEMMA DialTypes == ASSUME TypeInv, Dial PROVE TypeInv'
<1> USE DEF TypeInv
<1>1. CASE Goto("main", "report") /\ result' = "err"
  BY <1>1 DEF Dial, TypeOK, Places, Readers, Goto, At, Goroutines, Streams, PCs, Results
<1>2. CASE pc' = [g \in Goroutines |-> CASE g \in Streams -> "read"
                                         [] g = "writer"  -> "take"
                                         [] g \in {"closer", "waiter"} -> "wait"
                                         [] g = "input"   -> "read"
                                         [] g = "main"    -> "select"]
           /\ UNCHANGED result
  <2>1. /\ \A s \in Streams : pc'[s] = "read"
        /\ pc'["writer"] = "take" /\ pc'["closer"] = "wait" /\ pc'["waiter"] = "wait"
        /\ pc'["input"] = "read" /\ pc'["main"] = "select"
    BY <1>2 DEF Goroutines, Streams
  <2>2. pc' \in [Goroutines -> PCs]
    BY <1>2, <2>1 DEF Goroutines, Streams, PCs
  <2> QED
    BY <1>2, <2>1, <2>2 DEF Dial, TypeOK, Places, Readers, At, Goroutines, Streams
<1> QED
  BY <1>1, <1>2 DEF Dial

LEMMA MainTypes ==
  ASSUME TypeInv, Select \/ CloseDone \/ CloseClient \/ Report \/ ReportEnd \/ CloseConn
  PROVE  TypeInv'
<1> USE DEF TypeInv, TypeOK, Places, Readers, Goto, At, Goroutines, Streams, PCs, Results
<1>1. CASE Select
  <2>1. Head(errCh) \in Results /\ Tail(errCh) \in Seq(Results) /\ Len(Tail(errCh)) <= ErrCap
    BY <1>1, HeadTailProperties, TerminalAssumption DEF Select
  <2> QED
    BY <1>1, <2>1 DEF Select
<1>2. CASE CloseDone
  BY <1>2 DEF CloseDone
<1>3. CASE CloseClient
  BY <1>3 DEF CloseClient
<1>4. CASE Report
  BY <1>4 DEF Report
<1>5. CASE ReportEnd
  BY <1>5 DEF ReportEnd
<1>6. CASE CloseConn
  BY <1>6 DEF CloseConn
<1> QED
  BY <1>1, <1>2, <1>3, <1>4, <1>5, <1>6

LEMMA TypesNext == ASSUME TypeInv, [Next]_vars PROVE TypeInv'
<1>1. CASE Finished \/ UNCHANGED vars
  BY <1>1 DEF Finished, vars, TypeInv, TypeOK, Places, Readers
<1>2. CASE CloseOutput \/ Writer \/ Input \/ Waiter
  BY <1>2, CloseOutputTypes, ResultTypes, WriterTypes, InputTypes DEF Writer, Input, Waiter
<1>3. CASE Main
  BY <1>3, DialTypes, MainTypes DEF Main
<1>4. CASE (\E s \in Streams : Arrive(s) \/ Reader(s)) \/ ShellEnds \/ BrowserLeaves
  BY <1>4, OutsideTypes, ReaderTypes
<1> QED
  BY <1>1, <1>2, <1>3, <1>4 DEF Next

\* The types hold in every reachable state: no chunk is numbered beyond what has arrived,
\* channels stay within their capacities, and each goroutine stays in its own code.
THEOREM TypeCorrect == Spec => []TypeOK
<1>1. TypeInv /\ [Next]_vars => TypeInv'
  BY TypesNext
<1> QED
  BY <1>1, InitTypes, PTL DEF Spec, TypeInv

-----------------------------------------------------------------------------
(* The order of the output.                                                 *)

\* The chunks of stream s in a queue, and in a message.
Chunks(q, s) == {n \in 1 .. MaxChunks : \E i \in 1 .. Len(q) : q[i] = <<s, n>>}
Of(x, s) == {n \in 1 .. MaxChunks : x = <<s, n>>}

Ordered(q, s) ==
    \A i, j \in 1 .. Len(q), m, n \in 1 .. MaxChunks :
      q[i] = <<s, m>> /\ q[j] = <<s, n>> => (i < j <=> m < n)

\* S has been sent, the writer has H, Q is queued, the reader has read up to top and is
\* at `at'; the writer is going, the session is open.  What has been sent comes before
\* what the writer has, and that before what is queued; nothing is missing in front of
\* what has been sent, nor, while the writer goes on, of what the reader has.
Flow(S, H, Q, top, at, going, open) ==
    /\ \A m \in S, n \in H \cup Q : m < n
    /\ \A m \in H, n \in Q : m < n
    /\ \A n \in S \cup H \cup Q : n <= top /\ (at = "put" => n < top)
    /\ \A n \in S: \A m \in 1 .. n : m \in S
    /\ going => \A n \in S \cup H \cup Q: \A m \in 1 .. n : m \in S \cup H \cup Q
    /\ going /\ (at = "read" \/ (open /\ at = "end")) => 1 .. top \subseteq S \cup H \cup Q
    /\ going /\ at = "put" => \A n \in 1 .. top : n < top => n \in S \cup H \cup Q

Going == pc["writer"] \in {"take", "write", "writing"}

StreamOK(s) ==
    /\ Ordered(sent, s) /\ Ordered(outputCh, s)
    /\ Flow(Chunks(sent, s), Of(hand, s), Chunks(outputCh, s), taken[s], pc[s],
            Going, pc["main"] = "select")

OrderInv == TypeInv /\ \A s \in Streams : StreamOK(s)

LEMMA EmptyQueue == \A s : Chunks(<<>>, s) = {} /\ Of(NoMessage, s) = {} /\ Ordered(<<>>, s)
BY DEF Chunks, Of, Ordered, NoMessage

LEMMA AppendChunks ==
  ASSUME NEW q \in Seq(Messages), NEW x \in Messages, NEW s
  PROVE  Chunks(Append(q, x), s) = Chunks(q, s) \cup Of(x, s)
<1>1. /\ Len(q) \in Nat /\ Len(Append(q, x)) = Len(q) + 1
      /\ \A i \in 1 .. Len(q) : Append(q, x)[i] = q[i]
      /\ Append(q, x)[Len(q) + 1] = x
  BY AppendProperties, SeqSteps
<1>2. \A i \in 1 .. Len(q) + 1 : i \in 1 .. Len(q) \/ i = Len(q) + 1
  BY <1>1
<1>3. 1 .. Len(q) \subseteq 1 .. Len(q) + 1 /\ Len(q) + 1 \in 1 .. Len(q) + 1
  BY <1>1
<1> QED
  BY <1>1, <1>2, <1>3 DEF Chunks, Of

LEMMA AppendOrdered ==
  ASSUME NEW q \in Seq(Messages), NEW x \in Messages, NEW s, Ordered(q, s),
         \A m \in Chunks(q, s), n \in Of(x, s) : m < n
  PROVE  Ordered(Append(q, x), s)
<1> DEFINE a == Append(q, x)
<1>1. /\ Len(q) \in Nat /\ Len(a) = Len(q) + 1
      /\ \A i \in 1 .. Len(q) : a[i] = q[i]
      /\ a[Len(q) + 1] = x
  BY AppendProperties, SeqSteps
<1> SUFFICES ASSUME NEW i \in 1 .. Len(q) + 1, NEW j \in 1 .. Len(q) + 1,
                    NEW m \in 1 .. MaxChunks, NEW n \in 1 .. MaxChunks,
                    a[i] = <<s, m>>, a[j] = <<s, n>>
             PROVE  i < j <=> m < n
  BY <1>1 DEF Ordered
<1> HIDE DEF a
<1>2. CASE i \in 1 .. Len(q) /\ j \in 1 .. Len(q)
  BY <1>1, <1>2 DEF Ordered
<1>3. CASE i \in 1 .. Len(q) /\ j = Len(q) + 1
  <2>1. m < n
    BY <1>1, <1>3 DEF Chunks, Of
  <2> QED
    BY <1>1, <1>3, <2>1
<1>4. CASE i = Len(q) + 1 /\ j \in 1 .. Len(q)
  <2>1. n < m
    BY <1>1, <1>4 DEF Chunks, Of
  <2> QED
    BY <1>1, <1>4, <2>1, TerminalAssumption
<1>5. CASE i = Len(q) + 1 /\ j = Len(q) + 1
  <2>1. <<s, m>> = <<s, n>>
    BY <1>5
  <2>2. m = n
    BY <2>1
  <2> QED
    BY <1>1, <1>5, <2>2
<1>6. \A k \in 1 .. Len(q) + 1 : k \in 1 .. Len(q) \/ k = Len(q) + 1
  BY <1>1
<1> QED
  BY <1>2, <1>3, <1>4, <1>5, <1>6

\* Taking the head of a queue: the rest is as it was, and behind the head.
LEMMA TailChunks ==
  ASSUME NEW q \in Seq(Messages), q # <<>>, NEW s, Ordered(q, s)
  PROVE  /\ Chunks(q, s) = Of(Head(q), s) \cup Chunks(Tail(q), s)
         /\ Ordered(Tail(q), s)
         /\ \A m \in Of(Head(q), s) : \A n \in Chunks(Tail(q), s) : m < n
<1>1. /\ Len(q) \in Nat \ {0} /\ Len(Tail(q)) = Len(q) - 1
      /\ \A i \in 1 .. Len(q) - 1 : Tail(q)[i] = q[i + 1]
      /\ Head(q) = q[1]
  <2>1. Len(q) \in Nat \ {0}
    BY EmptySeq
  <2> QED
    BY <2>1, HeadTailProperties
<1>2. ASSUME NEW n \in 1 .. MaxChunks
      PROVE  n \in Chunks(q, s) <=> n \in Of(Head(q), s) \cup Chunks(Tail(q), s)
  <2>1. ASSUME NEW i \in 1 .. Len(q), q[i] = <<s, n>>, i # 1 PROVE n \in Chunks(Tail(q), s)
    <3>1. i - 1 \in 1 .. Len(q) - 1 /\ (i - 1) + 1 = i
      BY <1>1, <2>1
    <3> QED
      BY <1>1, <2>1, <3>1 DEF Chunks
  <2>2. ASSUME NEW i \in 1 .. Len(q) - 1, Tail(q)[i] = <<s, n>> PROVE n \in Chunks(q, s)
    <3>1. i + 1 \in 1 .. Len(q)
      BY <1>1
    <3> QED
      BY <1>1, <2>2, <3>1 DEF Chunks
  <2>3. 1 \in 1 .. Len(q)
    BY <1>1
  <2> QED
    BY <1>1, <2>1, <2>2, <2>3 DEF Chunks, Of
<1>3. Ordered(Tail(q), s)
  <2> SUFFICES ASSUME NEW i \in 1 .. Len(q) - 1, NEW j \in 1 .. Len(q) - 1,
                      NEW m \in 1 .. MaxChunks, NEW n \in 1 .. MaxChunks,
                      Tail(q)[i] = <<s, m>>, Tail(q)[j] = <<s, n>>
               PROVE  i < j <=> m < n
    BY <1>1 DEF Ordered
  <2>1. i + 1 \in 1 .. Len(q) /\ j + 1 \in 1 .. Len(q)
    BY <1>1
  <2>2. i + 1 < j + 1 <=> m < n
    BY <1>1, <2>1 DEF Ordered
  <2> QED
    BY <1>1, <2>2
<1>4. ASSUME NEW m \in Of(Head(q), s), NEW n \in Chunks(Tail(q), s)
      PROVE  m < n
  <2>1. PICK i \in 1 .. Len(q) - 1 : Tail(q)[i] = <<s, n>>
    BY <1>1, <1>4 DEF Chunks
  <2>2. i + 1 \in 1 .. Len(q) /\ 1 \in 1 .. Len(q) /\ 1 < i + 1
    BY <1>1
  <2>3. m \in 1 .. MaxChunks /\ n \in 1 .. MaxChunks /\ Head(q) = <<s, m>>
    BY DEF Chunks, Of
  <2> QED
    BY <1>1, <2>1, <2>2, <2>3 DEF Ordered
<1>5. Chunks(q, s) = Of(Head(q), s) \cup Chunks(Tail(q), s)
  BY <1>2 DEF Chunks, Of
<1> QED
  BY <1>3, <1>4, <1>5

\* Only one chunk fits into a message.
LEMMA OfPair ==
  ASSUME NEW s, NEW t, NEW m \in 1 .. MaxChunks
  PROVE  Of(<<s, m>>, t) = IF s = t THEN {m} ELSE {}
BY DEF Of

-----------------------------------------------------------------------------
(* What the steps do to a flow.                                             *)

LEMMA FlowEmpty == \A at, going, open : Flow({}, {}, {}, 0, at, going, open)
BY DEF Flow

LEMMA FlowRead ==
  ASSUME NEW S \in SUBSET Nat, NEW H \in SUBSET Nat, NEW Q \in SUBSET Nat, NEW top \in Nat,
         NEW going, NEW open, Flow(S, H, Q, top, "read", going, open)
  PROVE  Flow(S, H, Q, top + 1, "put", going, open) /\ Flow(S, H, Q, top, "end", going, open)
<1>1. \A n \in S \cup H \cup Q : n <= top + 1 /\ n < top + 1
  BY DEF Flow
<1>2. \A n \in 1 .. top + 1 : n < top + 1 => n \in 1 .. top
  OBVIOUS
<1> QED
  BY <1>1, <1>2 DEF Flow

\* The reader's chunk is queued; or it is dropped, when the session is over.
LEMMA FlowPut ==
  ASSUME NEW S \in SUBSET Nat, NEW H \in SUBSET Nat, NEW Q \in SUBSET Nat, NEW top \in Nat,
         NEW going, NEW open, Flow(S, H, Q, top, "put", going, open)
  PROVE  /\ Flow(S, H, Q \cup {top}, top, "read", going, open)
         /\ Flow(S, H, Q, top, "end", going, FALSE)
<1>1. \A n \in S \cup H \cup Q : n < top
  BY DEF Flow
<1>2. going => \A n \in 1 .. top : n \in S \cup H \cup (Q \cup {top})
  <2>1. \A n \in 1 .. top : n < top \/ n = top
    OBVIOUS
  <2> QED
    BY <2>1 DEF Flow
<1>3. \A n \in S \cup H \cup (Q \cup {top}): \A m \in 1 .. n : m \in 1 .. top
  BY <1>1
<1> QED
  BY <1>1, <1>2, <1>3 DEF Flow

\* The writer takes the head of the queue, sends what it has, or loses it and stops.
LEMMA FlowTake ==
  ASSUME NEW S \in SUBSET Nat, NEW H \in SUBSET Nat, NEW Q \in SUBSET Nat, NEW top \in Nat,
         NEW at, NEW going \in BOOLEAN, NEW open \in BOOLEAN,
         Flow(S, {}, H \cup Q, top, at, going, open), \A m \in H, n \in Q : m < n
  PROVE  Flow(S, H, Q, top, at, going, open)
<1>1. S \cup {} \cup (H \cup Q) = S \cup H \cup Q
  OBVIOUS
<1> QED
  BY <1>1 DEF Flow

LEMMA FlowSend ==
  ASSUME NEW S \in SUBSET Nat, NEW H \in SUBSET Nat, NEW Q \in SUBSET Nat, NEW top \in Nat,
         NEW at, NEW open \in BOOLEAN,
         Flow(S, H, Q, top, at, TRUE, open), \A m, n \in H : m = n
  PROVE  Flow(S \cup H, {}, Q, top, at, TRUE, open)
<1>1. (S \cup H) \cup {} \cup Q = S \cup H \cup Q
  OBVIOUS
<1>2. ASSUME NEW n \in S \cup H, NEW m \in 1 .. n PROVE m \in S \cup H
  <2>1. m \in S \cup H \cup Q
    BY DEF Flow
  <2>2. m \in Q => n < m
    BY DEF Flow
  <2>3. n \in Nat /\ m \in Nat /\ m <= n
    OBVIOUS
  <2> QED
    BY <2>1, <2>2, <2>3
<1>3. \A m \in S \cup H, n \in {} \cup Q : m < n
  BY DEF Flow
<1> QED
  BY <1>1, <1>2, <1>3 DEF Flow

LEMMA FlowLose ==
  ASSUME NEW S \in SUBSET Nat, NEW H \in SUBSET Nat, NEW Q \in SUBSET Nat, NEW top \in Nat,
         NEW at, NEW going \in BOOLEAN, NEW open \in BOOLEAN, Flow(S, H, Q, top, at, going, open)
  PROVE  Flow(S, {}, Q, top, at, FALSE, open)
BY DEF Flow

-----------------------------------------------------------------------------
(* Every step keeps the order.                                              *)

LEMMA NatChunks ==
  \A q, x, s : Chunks(q, s) \in SUBSET Nat /\ Of(x, s) \in SUBSET Nat
BY DEF Chunks, Of

LEMMA InitOrder == Init => OrderInv
<1> SUFFICES ASSUME Init PROVE OrderInv
  OBVIOUS
<1>1. ASSUME NEW s \in Streams PROVE StreamOK(s)
  <2>1. taken[s] = 0 /\ sent = <<>> /\ outputCh = <<>> /\ hand = NoMessage
    BY DEF Init
  <2> QED
    BY <2>1, EmptyQueue, FlowEmpty DEF StreamOK
<1> QED
  BY <1>1, InitTypes DEF OrderInv

\* A step that moves no chunk.
LEMMA OrderKept ==
  ASSUME OrderInv, NEW s \in Streams, UNCHANGED <<outputCh, hand, sent, taken>>,
         pc'[s] = pc[s], Going' => Going, pc'["main"] = "select" => pc["main"] = "select"
  PROVE  StreamOK(s)'
<1>1. StreamOK(s) /\ Going \in BOOLEAN /\ Going' \in BOOLEAN
  BY DEF OrderInv, Going
<1>2. Flow(Chunks(sent, s), Of(hand, s), Chunks(outputCh, s), taken[s], pc[s],
           Going', (pc["main"] = "select")')
  BY <1>1 DEF StreamOK, Flow
<1> QED
  BY <1>1, <1>2 DEF StreamOK

\* The guest, the browser, and the goroutines that handle no output.
LEMMA OtherOrder ==
  ASSUME OrderInv,
         \/ \E s \in Streams : Arrive(s)
         \/ ShellEnds \/ BrowserLeaves \/ CloseOutput \/ WriterBegin \/ Input \/ Waiter
         \/ sendTerminalResult("writer")
         \/ Select \/ CloseDone \/ CloseClient \/ Report \/ ReportEnd \/ CloseConn
  PROVE  \A s \in Streams : StreamOK(s)'
<1> SUFFICES ASSUME NEW s \in Streams PROVE StreamOK(s)'
  OBVIOUS
<1>1. pc \in [Goroutines -> PCs] /\ s \in {"stdout", "stderr"}
  BY DEF OrderInv, TypeInv, TypeOK, Streams
<1>2. UNCHANGED <<outputCh, hand, sent, taken>>
  BY DEF Arrive, ShellEnds, BrowserLeaves, CloseOutput, WriterBegin, Input, InputRead, InputWrite,
         Waiter, Wait, sendTerminalResult, Select, CloseDone, CloseClient, Report, ReportEnd, CloseConn
<1>3. UNCHANGED pc \/ \E g \in Goroutines \ Streams, l \in PCs \ {"select", "take"} :
                        Goto(g, l) /\ (g = "writer" => l # "write" /\ (l = "writing" => Going))
  BY DEF Arrive, ShellEnds, BrowserLeaves, CloseOutput, WriterBegin, Input, InputRead, InputWrite,
         Waiter, Wait, sendTerminalResult, Select, CloseDone, CloseClient, Report, ReportEnd, CloseConn,
         Going, At, Goroutines, Streams, PCs
<1>4. pc'[s] = pc[s] /\ (Going' => Going) /\ (pc'["main"] = "select" => pc["main"] = "select")
  BY <1>1, <1>3 DEF Goto, Going, Goroutines, Streams
<1> QED
  BY <1>2, <1>4, OrderKept

\* The shell starts, with nothing under way.
LEMMA DialOrder == ASSUME OrderInv, Dial PROVE \A s \in Streams : StreamOK(s)'
<1> SUFFICES ASSUME NEW s \in Streams PROVE StreamOK(s)'
  OBVIOUS
<1>1. sent' = <<>> /\ outputCh' = <<>> /\ taken'[s] = 0 /\ hand' = NoMessage
  BY DEF OrderInv, TypeInv, Places, Dial, At, Goroutines, Streams
<1> QED
  BY <1>1, EmptyQueue, FlowEmpty DEF StreamOK

\* What a step of a stream's reader leaves to the other stream.
LEMMA ReaderMoves ==
  ASSUME OrderInv, NEW s \in Streams, Reader(s)
  PROVE  /\ UNCHANGED <<sent, hand>> /\ Going' = Going /\ pc'["main"] = pc["main"]
         /\ \A t \in Streams \ {s} : pc'[t] = pc[t] /\ taken'[t] = taken[t]
         /\ \A l : Goto(s, l) => pc'[s] = l
         /\ taken[s] \in Nat /\ taken[s] <= MaxChunks
         /\ outputCh \in Seq(Messages)
<1>1. pc \in [Goroutines -> PCs] /\ taken \in [Streams -> 0 .. MaxChunks] /\ outputCh \in Seq(Messages)
  BY DEF OrderInv, TypeInv, TypeOK
<1> QED
  BY <1>1, TerminalAssumption DEF Reader, ReaderRead, ReaderPut, Goto, Going, Streams, Goroutines

\* A reader takes the next chunk, or ends.
LEMMA ReadOrder ==
  ASSUME OrderInv, NEW s \in Streams, ReaderRead(s)
  PROVE  \A t \in Streams : StreamOK(t)'
<1>1. ReaderRead(s) => Reader(s)
  BY DEF Reader
<1>2. UNCHANGED <<sent, hand, outputCh>> /\ Going' = Going /\ pc'["main"] = pc["main"] /\ taken[s] \in Nat
  BY <1>1, ReaderMoves DEF ReaderRead
<1> SUFFICES ASSUME NEW t \in Streams PROVE StreamOK(t)'
  OBVIOUS
<1>3. StreamOK(t)
  BY DEF OrderInv
<1>4. CASE t # s
  <2>1. pc'[t] = pc[t] /\ taken'[t] = taken[t]
    BY <1>1, <1>4, ReaderMoves
  <2> QED
    BY <1>2, <1>3, <2>1 DEF StreamOK
<1>5. CASE t = s
  <2>1. pc[s] = "read"
    BY DEF ReaderRead, At
  <2>2. /\ Flow(Chunks(sent, s), Of(hand, s), Chunks(outputCh, s), taken[s] + 1, "put",
                Going, pc["main"] = "select")
        /\ Flow(Chunks(sent, s), Of(hand, s), Chunks(outputCh, s), taken[s], "end",
                Going, pc["main"] = "select")
    <3>1. Flow(Chunks(sent, s), Of(hand, s), Chunks(outputCh, s), taken[s], "read",
               Going, pc["main"] = "select")
      BY <1>3, <1>5, <2>1 DEF StreamOK
    <3> QED
      BY <1>2, <3>1, FlowRead, NatChunks
  <2>3. \/ taken'[s] = taken[s] + 1 /\ pc'[s] = "put"
        \/ taken'[s] = taken[s] /\ pc'[s] = "end"
    BY <1>1, ReaderMoves DEF ReaderRead, OrderInv, TypeInv, TypeOK
  <2> QED
    BY <1>2, <1>3, <1>5, <2>2, <2>3 DEF StreamOK
<1> QED
  BY <1>4, <1>5

\* A reader queues its chunk, or drops it when the session is over.
LEMMA PutOrder ==
  ASSUME OrderInv, NEW s \in Streams, ReaderPut(s)
  PROVE  \A t \in Streams : StreamOK(t)'
<1>1. ReaderPut(s) => Reader(s)
  BY DEF Reader
<1>2. UNCHANGED <<sent, hand, taken>> /\ Going' = Going /\ pc'["main"] = pc["main"]
  BY <1>1, ReaderMoves DEF ReaderPut
<1>3. pc[s] = "put" /\ taken[s] \in 1 .. MaxChunks /\ <<s, taken[s]>> \in Messages
  BY <1>1, ReaderMoves DEF ReaderPut, At, OrderInv, TypeInv, Readers, Messages
<1> SUFFICES ASSUME NEW t \in Streams PROVE StreamOK(t)'
  OBVIOUS
<1>4. StreamOK(t) /\ StreamOK(s)
  BY DEF OrderInv
<1>5. /\ Flow(Chunks(sent, s), Of(hand, s), Chunks(outputCh, s) \cup {taken[s]}, taken[s], "read",
              Going, pc["main"] = "select")
      /\ Flow(Chunks(sent, s), Of(hand, s), Chunks(outputCh, s), taken[s], "end", Going, FALSE)
  <2>1. Flow(Chunks(sent, s), Of(hand, s), Chunks(outputCh, s), taken[s], "put",
             Going, pc["main"] = "select")
    BY <1>3, <1>4 DEF StreamOK
  <2>2. taken[s] \in Nat
    BY <1>3
  <2> QED
    BY <2>1, <2>2, FlowPut, NatChunks
<1>6. CASE UNCHANGED outputCh /\ done /\ Goto(s, "end")
  <2>1. pc'[s] = "end" /\ (pc["main"] = "select") = FALSE
    BY <1>1, <1>6, ReaderMoves DEF done
  <2>2. CASE t = s
    BY <1>2, <1>4, <1>5, <1>6, <2>1, <2>2 DEF StreamOK
  <2>3. CASE t # s
    BY <1>1, <1>2, <1>4, <1>6, <2>3, ReaderMoves DEF StreamOK
  <2> QED
    BY <2>2, <2>3
<1>7. CASE outputCh' = Append(outputCh, <<s, taken[s]>>) /\ Goto(s, "read")
  <2>1. Chunks(outputCh', t) = Chunks(outputCh, t) \cup Of(<<s, taken[s]>>, t)
    BY <1>1, <1>3, <1>7, AppendChunks, ReaderMoves
  <2>2. Of(<<s, taken[s]>>, t) = IF s = t THEN {taken[s]} ELSE {}
    BY <1>3, OfPair
  <2>3. \A m \in Chunks(outputCh, t), n \in Of(<<s, taken[s]>>, t) : m < n
    BY <1>3, <1>4, <2>2 DEF StreamOK, Flow
  <2>4. Ordered(outputCh', t)
    BY <1>1, <1>3, <1>4, <1>7, <2>3, AppendOrdered, ReaderMoves DEF StreamOK
  <2>5. CASE t = s
    <3>1. pc'[s] = "read" /\ Chunks(outputCh', s) = Chunks(outputCh, s) \cup {taken[s]}
      BY <1>1, <1>7, <2>1, <2>2, <2>5, ReaderMoves
    <3> QED
      BY <1>2, <1>4, <1>5, <2>4, <2>5, <3>1 DEF StreamOK
  <2>6. CASE t # s
    <3>1. pc'[t] = pc[t] /\ Chunks(outputCh', t) = Chunks(outputCh, t)
      BY <1>1, <2>1, <2>2, <2>6, ReaderMoves
    <3> QED
      BY <1>2, <1>4, <2>4, <3>1 DEF StreamOK
  <2> QED
    BY <2>5, <2>6
<1> QED
  BY <1>6, <1>7 DEF ReaderPut

\* The writer takes a message, or stops.
LEMMA TakeOrder == ASSUME OrderInv, WriterTake PROVE \A s \in Streams : StreamOK(s)'
<1> SUFFICES ASSUME NEW s \in Streams PROVE StreamOK(s)'
  OBVIOUS
<1>1. /\ pc \in [Goroutines -> PCs] /\ outputCh \in Seq(Messages) /\ taken[s] \in Nat
      /\ StreamOK(s) /\ hand = NoMessage /\ Going
  BY TerminalAssumption DEF OrderInv, TypeInv, TypeOK, Places, WriterTake, At, Going
<1>2. UNCHANGED <<sent, taken>> /\ pc'[s] = pc[s] /\ pc'["main"] = pc["main"]
  BY <1>1 DEF WriterTake, Goto, Streams, Goroutines
<1>3. CASE UNCHANGED <<outputCh, hand>>
  BY <1>1, <1>2, <1>3, OrderKept
<1>4. CASE outputCh # <<>> /\ hand' = Head(outputCh) /\ outputCh' = Tail(outputCh) /\ Goto("writer", "write")
  <2>1. /\ Chunks(outputCh, s) = Of(hand', s) \cup Chunks(outputCh', s)
        /\ Ordered(outputCh', s)
        /\ \A m \in Of(hand', s), n \in Chunks(outputCh', s) : m < n
    BY <1>1, <1>4, TailChunks DEF StreamOK
  <2>2. Going' = TRUE /\ Going = TRUE
    BY <1>1, <1>4 DEF Goto, Going, Goroutines
  <2>3. Flow(Chunks(sent, s), {}, Of(hand', s) \cup Chunks(outputCh', s), taken[s], pc[s],
             TRUE, pc["main"] = "select")
    BY <1>1, <2>1, <2>2, EmptyQueue DEF StreamOK
  <2>4. Flow(Chunks(sent, s), Of(hand', s), Chunks(outputCh', s), taken[s], pc[s],
             TRUE, pc["main"] = "select")
    BY <1>1, <2>1, <2>3, FlowTake, NatChunks
  <2> QED
    BY <1>1, <1>2, <2>1, <2>2, <2>4 DEF StreamOK
<1> QED
  BY <1>3, <1>4 DEF WriterTake

\* The writer sends its message, or loses it and stops.
LEMMA SendOrder == ASSUME OrderInv, WriterEnd PROVE \A s \in Streams : StreamOK(s)'
<1> SUFFICES ASSUME NEW s \in Streams PROVE StreamOK(s)'
  OBVIOUS
<1>1. /\ pc \in [Goroutines -> PCs] /\ sent \in Seq(Messages) /\ taken[s] \in Nat
      /\ StreamOK(s) /\ hand \in Messages /\ Going = TRUE
  BY TerminalAssumption DEF OrderInv, TypeInv, TypeOK, Places, WriterEnd, At, Going
<1>2. UNCHANGED <<outputCh, taken>> /\ pc'[s] = pc[s] /\ pc'["main"] = pc["main"] /\ hand' = NoMessage
  BY <1>1 DEF WriterEnd, Goto, Streams, Goroutines
<1>3. Flow(Chunks(sent, s), Of(hand, s), Chunks(outputCh, s), taken[s], pc[s],
           TRUE, pc["main"] = "select")
  BY <1>1 DEF StreamOK
<1>4. CASE UNCHANGED sent /\ Goto("writer", "send_err")
  <2>1. Going' = FALSE
    BY <1>1, <1>4 DEF Goto, Going, Goroutines
  <2>2. Flow(Chunks(sent, s), {}, Chunks(outputCh, s), taken[s], pc[s], FALSE, pc["main"] = "select")
    BY <1>1, <1>3, FlowLose, NatChunks
  <2> QED
    BY <1>1, <1>2, <1>4, <2>1, <2>2, EmptyQueue DEF StreamOK
<1>5. CASE sent' = Append(sent, hand) /\ Goto("writer", "take")
  <2>1. Going' = TRUE
    BY <1>1, <1>5 DEF Goto, Going, Goroutines
  <2>2. \A m, n \in Of(hand, s) : m = n
    BY DEF Of
  <2>3. Flow(Chunks(sent, s) \cup Of(hand, s), {}, Chunks(outputCh, s), taken[s], pc[s],
             TRUE, pc["main"] = "select")
    BY <1>1, <1>3, <2>2, FlowSend, NatChunks
  <2>4. Chunks(sent', s) = Chunks(sent, s) \cup Of(hand, s)
    BY <1>1, <1>5, AppendChunks
  <2>5. Ordered(sent', s)
    <3>1. \A m \in Chunks(sent, s), n \in Of(hand, s) : m < n
      BY <1>3 DEF Flow
    <3> QED
      BY <1>1, <1>5, <3>1, AppendOrdered DEF StreamOK
  <2> QED
    BY <1>1, <1>2, <2>1, <2>3, <2>4, <2>5, EmptyQueue DEF StreamOK
<1> QED
  BY <1>4, <1>5 DEF WriterEnd

LEMMA OrderNext == ASSUME OrderInv, [Next]_vars PROVE OrderInv'
<1>1. TypeInv'
  BY TypesNext DEF OrderInv
<1>2. \A s \in Streams : StreamOK(s)'
  <2>1. CASE Finished \/ UNCHANGED vars
    BY <2>1, OrderKept DEF Finished, vars, Going
  <2>2. CASE CloseOutput \/ Writer \/ Input \/ Waiter
    BY <2>2, OtherOrder, TakeOrder, SendOrder DEF Writer
  <2>3. CASE Main
    BY <2>3, OtherOrder, DialOrder DEF Main
  <2>4. CASE (\E s \in Streams : Arrive(s) \/ Reader(s)) \/ ShellEnds \/ BrowserLeaves
    BY <2>4, OtherOrder, ReadOrder, PutOrder DEF Reader
  <2> QED
    BY <2>1, <2>2, <2>3, <2>4 DEF Next
<1> QED
  BY <1>1, <1>2 DEF OrderInv

-----------------------------------------------------------------------------
(* Success means that everything has been sent.                             *)

AllSent == remote # "up" /\ \A s \in Streams : 1 .. arrived[s] \subseteq Chunks(sent, s)

\* Until SSHTerminal has its result, success is reported only when all is sent.
Truthful ==
    /\ pc["main"] = "select" =>
         /\ pc["writer"] = "send_nil" => AllSent
         /\ \A i \in 1 .. Len(errCh) : errCh[i] = "nil" => AllSent
    /\ result = "nil" => AllSent

DoneInv == OrderInv /\ Truthful

\* Nothing arrives after the shell's end, and nothing sent is taken back.
LEMMA AllSentStays == ASSUME OrderInv, AllSent, [Next]_vars PROVE AllSent'
<1>1. remote' # "up" /\ UNCHANGED arrived
  BY DEF AllSent, Next, vars, Finished, Arrive, ShellEnds, BrowserLeaves, CloseOutput, Reader, ReaderRead,
         ReaderPut, Writer, WriterTake, WriterBegin, WriterEnd, Input, InputRead, InputWrite,
         Waiter, Wait, sendTerminalResult, Main, Dial, Select, CloseDone, CloseClient, Report,
         ReportEnd, CloseConn
<1>2. sent' = sent \/ (hand \in Messages /\ sent' = Append(sent, hand))
  <2>1. CASE WriterEnd
    BY <2>1 DEF WriterEnd, At, OrderInv, TypeInv, TypeOK, Places
  <2>2. CASE ~WriterEnd
    BY <2>2 DEF Next, vars, Finished, Arrive, ShellEnds, BrowserLeaves, CloseOutput, Reader,
         ReaderRead, ReaderPut, Writer, WriterTake, WriterBegin, Input, InputRead, InputWrite,
         Waiter, Wait, sendTerminalResult, Main, Dial, Select, CloseDone, CloseClient, Report,
         ReportEnd, CloseConn
  <2> QED
    BY <2>1, <2>2
<1>3. ASSUME NEW s \in Streams PROVE Chunks(sent, s) \subseteq Chunks(sent', s)
  <2>1. sent \in Seq(Messages)
    BY DEF OrderInv, TypeInv, TypeOK
  <2>2. CASE hand \in Messages /\ sent' = Append(sent, hand)
    BY <2>1, <2>2, AppendChunks
  <2> QED
    BY <1>2, <2>2
<1> QED
  BY <1>1, <1>3 DEF AllSent

\* outputCh is closed behind both readers and empty, and the writer has nothing in hand.
LEMMA TakeTruthful ==
  ASSUME OrderInv, pc["main"] = "select", WriterTake, pc'["writer"] = "send_nil"
  PROVE  AllSent
<1>1. outputCh = <<>> /\ closed /\ hand = NoMessage /\ Going
  BY DEF WriterTake, Goto, At, Going, OrderInv, TypeInv, TypeOK, Places, Goroutines
<1>2. ASSUME NEW s \in Streams PROVE remote # "up" /\ 1 .. arrived[s] \subseteq Chunks(sent, s)
  <2>1. pc[s] = "end" /\ taken[s] = arrived[s] /\ remote # "up" /\ StreamOK(s)
    BY <1>1 DEF OrderInv, TypeInv, Readers
  <2>2. Chunks(outputCh, s) = {} /\ Of(hand, s) = {}
    BY <1>1, EmptyQueue
  <2> QED
    BY <1>1, <2>1, <2>2 DEF StreamOK, Flow
<1> QED
  BY <1>2 DEF AllSent, Streams

\* What gets into errCh.
LEMMA ResultTruthful ==
  ASSUME DoneInv, NEW g \in {"writer", "input", "waiter"}, sendTerminalResult(g),
         pc["main"] = "select", NEW i \in 1 .. Len(errCh'), errCh'[i] = "nil"
  PROVE  AllSent
<1>1. errCh \in Seq(Results)
  BY DEF DoneInv, OrderInv, TypeInv, TypeOK
<1>2. pc[g] = "send_nil" => g = "writer"
  BY DEF DoneInv, OrderInv, TypeInv, Places
<1>3. CASE UNCHANGED errCh
  BY <1>3 DEF DoneInv, Truthful
<1>4. ASSUME NEW x \in Results, x = "nil" => pc[g] = "send_nil", errCh' = Append(errCh, x) PROVE AllSent
  <2>1. /\ Len(errCh) \in Nat /\ Len(errCh') = Len(errCh) + 1
        /\ \A k \in 1 .. Len(errCh) : errCh'[k] = errCh[k]
        /\ errCh'[Len(errCh) + 1] = x
    BY <1>1, <1>4, AppendProperties, SeqSteps
  <2>2. i \in 1 .. Len(errCh) \/ i = Len(errCh) + 1
    BY <2>1
  <2> QED
    BY <1>2, <1>4, <2>1, <2>2 DEF DoneInv, Truthful
<1> QED
  BY <1>3, <1>4 DEF sendTerminalResult, Results

LEMMA TruthfulNext == ASSUME DoneInv, [Next]_vars PROVE Truthful'
<1>1. AllSent => AllSent'
  BY AllSentStays DEF DoneInv
<1>2. pc \in [Goroutines -> PCs] /\ TypeInv /\ Truthful /\ OrderInv
  BY DEF DoneInv, OrderInv, TypeInv, TypeOK
<1>3. CASE \E g \in {"writer", "input", "waiter"} : sendTerminalResult(g)
  <2>1. PICK g \in {"writer", "input", "waiter"} : sendTerminalResult(g)
    BY <1>3
  <2>2. UNCHANGED result /\ pc'["main"] = pc["main"] /\ pc'["writer"] \in {pc["writer"], "end"}
    BY <1>2, <2>1 DEF sendTerminalResult, Goto, Goroutines
  <2>3. \A i \in 1 .. Len(errCh') : pc["main"] = "select" /\ errCh'[i] = "nil" => AllSent
    BY <2>1, ResultTruthful
  <2> QED
    BY <1>1, <1>2, <2>2, <2>3 DEF Truthful
<1>4. CASE WriterTake
  <2>1. UNCHANGED <<result, errCh>> /\ pc'["main"] = pc["main"]
    BY <1>2, <1>4 DEF WriterTake, Goto, Goroutines
  <2>2. pc["main"] = "select" /\ pc'["writer"] = "send_nil" => AllSent
    BY <1>2, <1>4, TakeTruthful
  <2> QED
    BY <1>1, <1>2, <2>1, <2>2 DEF Truthful
<1>5. CASE Dial
  <2>1. errCh' = <<>> /\ result' # "nil" /\ pc'["writer"] # "send_nil"
    BY <1>2, <1>5 DEF Dial, Goto, At, Places, TypeInv, Goroutines, Streams
  <2>2. Len(errCh') = 0
    BY <2>1
  <2> QED
    BY <2>1, <2>2 DEF Truthful
<1>6. CASE Select
  <2>1. Head(errCh) = errCh[1] /\ 1 \in 1 .. Len(errCh)
    <3>1. errCh \in Seq(Results) /\ errCh # <<>>
      BY <1>2, <1>6 DEF TypeInv, TypeOK, Select
    <3>2. Len(errCh) \in Nat \ {0}
      BY <3>1, EmptySeq
    <3> QED
      BY <3>1, <3>2
  <2>2. result' = "nil" => AllSent
    BY <1>2, <1>6, <2>1 DEF Select, At, Truthful
  <2>3. pc'["main"] = "close_done"
    BY <1>2, <1>6 DEF Select, Goto, Goroutines
  <2> QED
    BY <1>1, <2>2, <2>3 DEF Truthful
<1>7. CASE UNCHANGED <<pc, errCh, result>>
  BY <1>1, <1>2, <1>7 DEF Truthful
<1>8. ASSUME NEW g \in Goroutines, NEW l \in PCs \ {"select", "send_nil"}, Goto(g, l),
             UNCHANGED <<errCh, result>>
      PROVE  Truthful'
  <2>1. /\ pc'["main"] = "select" => pc["main"] = "select"
        /\ pc'["writer"] = "send_nil" => pc["writer"] = "send_nil"
    BY <1>2, <1>8 DEF Goto, Goroutines
  <2> QED
    BY <1>1, <1>2, <1>8, <2>1 DEF Truthful
<1>9. CASE (\E s \in Streams : Arrive(s)) \/ ShellEnds \/ BrowserLeaves \/ Finished \/ UNCHANGED vars
  BY <1>7, <1>9 DEF Arrive, ShellEnds, BrowserLeaves, Finished, vars
<1>10. CASE CloseOutput \/ WriterBegin \/ WriterEnd
  BY <1>7, <1>8, <1>10 DEF CloseOutput, WriterBegin, WriterEnd, Goroutines, PCs
<1>11. CASE InputRead \/ InputWrite \/ Wait
  <2>1. \E g \in {"input", "waiter"}, l \in {"read", "write", "end", "send_err"} :
          Goto(g, l) /\ UNCHANGED <<errCh, result>>
    BY <1>11 DEF InputRead, InputWrite, Wait
  <2> QED
    BY <1>8, <2>1 DEF Goroutines, PCs
<1>12. CASE CloseDone \/ CloseClient \/ Report \/ ReportEnd \/ CloseConn
  BY <1>8, <1>12 DEF CloseDone, CloseClient, Report, ReportEnd, CloseConn, Goroutines, PCs
<1>13. CASE \E s \in Streams : Reader(s)
  BY <1>8, <1>13 DEF Reader, ReaderRead, ReaderPut, Goroutines, PCs
<1> QED
  BY <1>3, <1>4, <1>5, <1>6, <1>9, <1>10, <1>11, <1>12, <1>13
     DEF Next, Writer, Input, Waiter, Main

LEMMA DoneDelivered == ASSUME DoneInv PROVE Delivered
<1> SUFFICES ASSUME NEW s \in Streams
             PROVE  /\ Ordered(sent, s)
                    /\ \A n \in 1 .. MaxChunks :
                         Sent(s, n) => n <= arrived[s] /\ \A m \in 1 .. n : Sent(s, m)
                    /\ result = "nil" => \A n \in 1 .. arrived[s] : Sent(s, n)
  BY DEF Delivered, Ordered
<1>1. StreamOK(s) /\ arrived[s] \in 0 .. MaxChunks /\ taken[s] \in 0 .. MaxChunks /\ taken[s] <= arrived[s]
  BY DEF DoneInv, OrderInv, TypeInv, TypeOK, Readers
<1>2. Chunks(sent, s) = {n \in 1 .. MaxChunks : Sent(s, n)}
  BY DEF Chunks, Sent
<1>3. ASSUME NEW n \in 1 .. MaxChunks, Sent(s, n)
      PROVE  n <= arrived[s] /\ \A m \in 1 .. n : Sent(s, m)
  <2>1. n <= taken[s] /\ \A m \in 1 .. n : m \in Chunks(sent, s)
    BY <1>1, <1>2, <1>3 DEF StreamOK, Flow
  <2> QED
    BY <1>1, <1>2, <2>1, TerminalAssumption
<1>4. result = "nil" => \A n \in 1 .. arrived[s] : Sent(s, n)
  BY <1>1, <1>2 DEF DoneInv, Truthful, AllSent
<1> QED
  BY <1>1, <1>3, <1>4 DEF StreamOK

\* For all capacities of the two channels and any amount of output: the browser is sent
\* each stream in order and without gaps, and SSHTerminal returns without an error only
\* if everything that the shell has written has been sent.
THEOREM OutputDelivered == Spec => []Delivered
<1>1. Init => DoneInv
  <2> SUFFICES ASSUME Init PROVE DoneInv
    OBVIOUS
  <2>1. result # "nil" /\ pc["main"] # "select"
    BY DEF Init, Goroutines
  <2> QED
    BY <2>1, InitOrder DEF DoneInv, Truthful
<1>2. DoneInv /\ [Next]_vars => DoneInv'
  BY OrderNext, TruthfulNext DEF DoneInv
<1>3. DoneInv => Delivered
  BY DoneDelivered
<1> QED
  BY <1>1, <1>2, <1>3, PTL DEF Spec

=============================================================================
