------------------------------- MODULE Terminal -------------------------------
(***************************************************************************)
(* One web terminal: wsTerminal and the goroutines of SSHTerminal.  Two     *)
(* readers put the shell's output into outputCh, a writer sends it to the   *)
(* WebSocket, a closer closes outputCh behind the readers, wsToWriter feeds *)
(* the shell, and a waiter waits for its exit.  The first result in errCh   *)
(* ends the session: done is closed, then the SSH client, then the socket.  *)
(*                                                                         *)
(* The request's context never ends before its handler: the connection has  *)
(* been hijacked.                                                          *)
(***************************************************************************)
EXTENDS Naturals, Sequences

CONSTANTS
    OutCap, ErrCap,  \* capacities of outputCh and errCh
    MaxChunks        \* bound on the chunks of each stream

ASSUME TerminalAssumption == OutCap \in Nat \ {0} /\ ErrCap \in Nat \ {0} /\ MaxChunks \in Nat

VARIABLES
    pc,        \* where each goroutine is
    remote,    \* the shell, as the SSH channel shows it
    arrived,   \* chunks of each stream that have arrived over SSH
    taken,     \* chunks of each stream that its reader has read
    outputCh, closed,
    hand,      \* what the writer is about to send
    sent,      \* the messages that the WebSocket has taken
    conn,      \* the WebSocket
    errCh,
    result,    \* what SSHTerminal returns
    alive      \* the daemon runs

vars == <<pc, remote, arrived, taken, outputCh, closed, hand, sent, conn, errCh, result, alive>>

-----------------------------------------------------------------------------
Streams == {"stdout", "stderr"}
Goroutines == Streams \cup {"main", "writer", "closer", "input", "waiter"}
PCs == {"dial", "select", "close_done", "close_client", "report", "reporting", "close_conn",  \* main
        "read", "put", "take", "write", "writing", "wait", "send_nil", "send_err", "end"}
Messages == Streams \X (1 .. MaxChunks)
NoMessage == <<>>
Results == {"nil", "err"}

TypeOK ==
    /\ pc \in [Goroutines -> PCs]
    /\ remote \in {"up", "eof", "ok", "failed"}
    /\ arrived \in [Streams -> 0 .. MaxChunks] /\ taken \in [Streams -> 0 .. MaxChunks]
    /\ outputCh \in Seq(Messages) /\ Len(outputCh) <= OutCap /\ closed \in BOOLEAN
    /\ hand \in Messages \cup {NoMessage}
    /\ sent \in Seq(Messages)
    /\ conn \in {"open", "left", "closed"}
    /\ errCh \in Seq(Results) /\ Len(errCh) <= ErrCap
    /\ result \in Results \cup {"none"}
    /\ alive \in BOOLEAN

\* The other goroutines start when the shell has.
Init ==
    /\ pc = [g \in Goroutines |-> IF g = "main" THEN "dial" ELSE "end"]
    /\ remote = "up"
    /\ arrived = [s \in Streams |-> 0] /\ taken = [s \in Streams |-> 0]
    /\ outputCh = <<>> /\ closed = FALSE
    /\ hand = NoMessage /\ sent = <<>> /\ conn = "open"
    /\ errCh = <<>> /\ result = "none" /\ alive = TRUE

done == pc["main"] \in {"close_client", "report", "reporting", "close_conn", "end"}

Goto(g, l) == pc' = [pc EXCEPT ![g] = l]
At(g, l) == alive /\ pc[g] = l

-----------------------------------------------------------------------------
(* The guest and the browser.                                              *)

\* The SSH channel carries output until its end of file, then the exit.
Arrive(s) ==
    /\ alive /\ remote = "up" /\ pc["main"] # "dial"
    /\ arrived[s] < MaxChunks
    /\ arrived' = [arrived EXCEPT ![s] = @ + 1]
    /\ UNCHANGED <<pc, remote, taken, outputCh, closed, hand, sent, conn, errCh, result, alive>>

ShellEnds ==
    /\ alive /\ pc["main"] # "dial"
    /\ \/ remote = "up" /\ remote' = "eof"
       \/ remote \in {"up", "eof"} /\ remote' \in {"ok", "failed"}
    /\ UNCHANGED <<pc, arrived, taken, outputCh, closed, hand, sent, conn, errCh, result, alive>>

BrowserLeaves ==
    /\ alive /\ conn = "open" /\ conn' = "left"
    /\ UNCHANGED <<pc, remote, arrived, taken, outputCh, closed, hand, sent, errCh, result, alive>>

-----------------------------------------------------------------------------
(* readerToTerminalOutput, twice.                                          *)

\* What has arrived is read before the end of file is.
ReaderRead(s) ==
    /\ At(s, "read")
    /\ \/ /\ taken[s] < arrived[s]
          /\ taken' = [taken EXCEPT ![s] = @ + 1]
          /\ Goto(s, "put")
       \/ /\ taken[s] = arrived[s] /\ remote # "up"
          /\ Goto(s, "end") /\ UNCHANGED taken
    /\ UNCHANGED <<remote, arrived, outputCh, closed, hand, sent, conn, errCh, result, alive>>

\* Mutant of ReaderPut: outputCh never fills.
ReaderPutUnbounded(s) ==
    /\ At(s, "put")
    /\ \/ outputCh' = Append(outputCh, <<s, taken[s]>>) /\ Goto(s, "read")
       \/ done /\ Goto(s, "end") /\ UNCHANGED outputCh
    /\ UNCHANGED <<remote, arrived, taken, closed, hand, sent, conn, errCh, result, alive>>

\* Mutant of ReaderPut: the reader does not watch done.
ReaderPutBlind(s) ==
    /\ At(s, "put") /\ Len(outputCh) < OutCap
    /\ outputCh' = Append(outputCh, <<s, taken[s]>>)
    /\ Goto(s, "read")
    /\ UNCHANGED <<remote, arrived, taken, closed, hand, sent, conn, errCh, result, alive>>

\* select between outputCh and done: either, if both are ready.
ReaderPut(s) ==
    /\ At(s, "put")
    /\ \/ /\ Len(outputCh) < OutCap
          /\ outputCh' = Append(outputCh, <<s, taken[s]>>)
          /\ Goto(s, "read")
       \/ done /\ Goto(s, "end") /\ UNCHANGED outputCh
    /\ UNCHANGED <<remote, arrived, taken, closed, hand, sent, conn, errCh, result, alive>>

CloseOutput ==
    /\ At("closer", "wait") /\ \A s \in Streams : pc[s] = "end"
    /\ closed' = TRUE
    /\ Goto("closer", "end")
    /\ UNCHANGED <<remote, arrived, taken, outputCh, hand, sent, conn, errCh, result, alive>>

-----------------------------------------------------------------------------
(* terminalOutputToWS.                                                     *)

WriterTake ==
    /\ At("writer", "take")
    /\ \/ done /\ Goto("writer", "end") /\ UNCHANGED <<outputCh, hand>>
       \/ /\ outputCh # <<>>
          /\ hand' = Head(outputCh) /\ outputCh' = Tail(outputCh)
          /\ Goto("writer", "write")
       \/ /\ outputCh = <<>> /\ closed
          /\ Goto("writer", "send_nil") /\ UNCHANGED <<outputCh, hand>>
    /\ UNCHANGED <<remote, arrived, taken, closed, sent, conn, errCh, result, alive>>

\* gorilla's WriteMessage panics when it sees that another goroutine is in it;
\* nothing makes it see that.  A panic in a goroutine ends the daemon.
WriterBegin ==
    /\ At("writer", "write")
    /\ \/ Goto("writer", "writing") /\ UNCHANGED alive
       \/ pc["main"] = "reporting" /\ alive' = FALSE /\ UNCHANGED pc
    /\ UNCHANGED <<remote, arrived, taken, outputCh, closed, hand, sent, conn, errCh, result>>

\* What is written to a browser that has left may still be taken.
WriterEnd ==
    /\ At("writer", "writing")
    /\ \/ conn # "closed" /\ sent' = Append(sent, hand) /\ Goto("writer", "take")
       \/ conn # "open" /\ Goto("writer", "send_err") /\ UNCHANGED sent
    /\ hand' = NoMessage
    /\ UNCHANGED <<remote, arrived, taken, outputCh, closed, conn, errCh, result, alive>>

-----------------------------------------------------------------------------
(* wsToWriter, and the goroutine that waits for the shell.                 *)

InputRead ==
    /\ At("input", "read")
    /\ \/ conn = "open" /\ Goto("input", "write")
       \/ conn # "open" /\ Goto("input", "send_err")
    /\ UNCHANGED <<remote, arrived, taken, outputCh, closed, hand, sent, conn, errCh, result, alive>>

\* The shell's input, or its window size.
InputWrite ==
    /\ At("input", "write")
    /\ Goto("input", IF remote \in {"up", "eof"} THEN "read" ELSE "send_err")
    /\ UNCHANGED <<remote, arrived, taken, outputCh, closed, hand, sent, conn, errCh, result, alive>>

\* Mutant of Wait: the waiter reports every exit.
WaitReports ==
    /\ At("waiter", "wait")
    /\ \/ remote = "ok" /\ Goto("waiter", "send_nil")
       \/ remote = "failed" /\ Goto("waiter", "send_err")
    /\ UNCHANGED <<remote, arrived, taken, outputCh, closed, hand, sent, conn, errCh, result, alive>>

\* An exit status of 0 is left to the writer to report.
Wait ==
    /\ At("waiter", "wait")
    /\ \/ remote = "ok" /\ Goto("waiter", "end")
       \/ remote = "failed" /\ Goto("waiter", "send_err")
    /\ UNCHANGED <<remote, arrived, taken, outputCh, closed, hand, sent, conn, errCh, result, alive>>

sendTerminalResult(g) ==
    /\ alive /\ pc[g] \in {"send_nil", "send_err"}
    /\ \/ /\ Len(errCh) < ErrCap
          /\ errCh' = Append(errCh, IF pc[g] = "send_nil" THEN "nil" ELSE "err")
       \/ done /\ UNCHANGED errCh
    /\ Goto(g, "end")
    /\ UNCHANGED <<remote, arrived, taken, outputCh, closed, hand, sent, conn, result, alive>>

-----------------------------------------------------------------------------
(* SSHTerminal and wsTerminal.                                             *)

Dial ==
    /\ At("main", "dial")
    /\ \/ /\ pc' = [g \in Goroutines |-> CASE g \in Streams -> "read"
                                           [] g = "writer"  -> "take"
                                           [] g \in {"closer", "waiter"} -> "wait"
                                           [] g = "input"   -> "read"
                                           [] g = "main"    -> "select"]
          /\ UNCHANGED result
       \/ Goto("main", "report") /\ result' = "err"
    /\ UNCHANGED <<remote, arrived, taken, outputCh, closed, hand, sent, conn, errCh, alive>>

Select ==
    /\ At("main", "select") /\ errCh # <<>>
    /\ result' = Head(errCh) /\ errCh' = Tail(errCh)
    /\ Goto("main", "close_done")
    /\ UNCHANGED <<remote, arrived, taken, outputCh, closed, hand, sent, conn, alive>>

\* The deferred calls: close(done), then the session and the client.
CloseDone ==
    /\ At("main", "close_done")
    /\ Goto("main", "close_client")
    /\ UNCHANGED <<remote, arrived, taken, outputCh, closed, hand, sent, conn, errCh, result, alive>>

CloseClient ==
    /\ At("main", "close_client")
    /\ remote' = IF remote \in {"up", "eof"} THEN "failed" ELSE remote
    /\ Goto("main", IF result = "nil" THEN "close_conn" ELSE "report")
    /\ UNCHANGED <<arrived, taken, outputCh, closed, hand, sent, conn, errCh, result, alive>>

\* The error is reported while the writer may still be in WriteMessage.  A panic
\* here is recovered by net/http, after the deferred conn.Close.
Report ==
    /\ At("main", "report")
    /\ \/ Goto("main", "reporting")
       \/ pc["writer"] = "writing" /\ Goto("main", "close_conn")
    /\ UNCHANGED <<remote, arrived, taken, outputCh, closed, hand, sent, conn, errCh, result, alive>>

ReportEnd ==
    /\ At("main", "reporting")
    /\ Goto("main", "close_conn")
    /\ UNCHANGED <<remote, arrived, taken, outputCh, closed, hand, sent, conn, errCh, result, alive>>

CloseConn ==
    /\ At("main", "close_conn")
    /\ conn' = "closed"
    /\ Goto("main", "end")
    /\ UNCHANGED <<remote, arrived, taken, outputCh, closed, hand, sent, errCh, result, alive>>

-----------------------------------------------------------------------------
Reader(s) == ReaderRead(s) \/ ReaderPut(s)
Writer == WriterTake \/ WriterBegin \/ WriterEnd \/ sendTerminalResult("writer")
Input == InputRead \/ InputWrite \/ sendTerminalResult("input")
Waiter == Wait \/ sendTerminalResult("waiter")
Main == Dial \/ Select \/ CloseDone \/ CloseClient \/ Report \/ ReportEnd \/ CloseConn

Finished == /\ ~alive \/ \A g \in Goroutines : pc[g] = "end"
            /\ UNCHANGED vars

Next ==
    \/ \E s \in Streams : Arrive(s) \/ Reader(s)
    \/ ShellEnds \/ BrowserLeaves
    \/ CloseOutput \/ Writer \/ Input \/ Waiter \/ Main
    \/ Finished

\* The scheduler runs every goroutine that can go on.  The browser takes what is
\* written to it, or leaves.
Fairness ==
    /\ \A s \in Streams : WF_vars(Reader(s))
    /\ WF_vars(CloseOutput) /\ WF_vars(Writer) /\ WF_vars(Waiter) /\ WF_vars(Main)
    /\ WF_vars(InputRead /\ conn # "open") /\ WF_vars(InputWrite) /\ WF_vars(sendTerminalResult("input"))

Spec == Init /\ [][Next]_vars /\ Fairness

-----------------------------------------------------------------------------
(* Properties.                                                             *)

\* Chunk n of stream s has gone to the browser.
Sent(s, n) == \E i \in 1 .. Len(sent) : sent[i] = <<s, n>>

\* The browser is sent each stream in order and without gaps, and when SSHTerminal
\* returns without an error it has been sent all of the output: only the writer reports
\* success, after outputCh has been closed behind both readers (service.go:2248).
\* A shell's exit status other than 0 may overtake the last output.
Delivered ==
    \A s \in Streams :
      /\ \A i, j \in 1 .. Len(sent), m, n \in 1 .. MaxChunks :
           sent[i] = <<s, m>> /\ sent[j] = <<s, n>> => (i < j <=> m < n)
      /\ \A n \in 1 .. MaxChunks :
           Sent(s, n) => n <= arrived[s] /\ \A m \in 1 .. n : Sent(s, m)
      /\ result = "nil" => \A n \in 1 .. arrived[s] : Sent(s, n)

\* All output is sent to the browser while the session lasts and the browser stays;
\* and once a result is there every goroutine ends, whichever of them are blocked
\* on outputCh, errCh, the socket or the shell (service.go:2230), unless the
\* daemon dies of two goroutines in WriteMessage (app.go:2949).
Flows ==
    /\ \A s \in Streams, n \in 1 .. MaxChunks :
           arrived[s] = n ~> \/ Sent(s, n)
                             \/ result # "none" \/ conn # "open"
    /\ result # "none" ~> ~alive \/ \A g \in Goroutines : pc[g] = "end"
=============================================================================
