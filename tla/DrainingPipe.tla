---------------------------- MODULE DrainingPipe ----------------------------
(***************************************************************************)
(* What the header of TcpSocket promises its users, with no strand, no     *)
(* flags and no operations in flight: a one-way pipe that delivers buffers *)
(* in order, and whose orderly close waits for the last of them.  Only a   *)
(* failure of the connection may leave buffers behind.                     *)
(***************************************************************************)
EXTENDS Naturals, Sequences

CONSTANT Buffers    \* what may be sent through the pipe

VARIABLES
    status,     \* "unopened", "open", "closing", "closed" or "failed"
    queue,      \* accepted and not yet delivered
    output      \* delivered, oldest first

pipeVars == <<status, queue, output>>

PipeInit ==
    /\ status \in {"unopened", "open"}
    /\ queue = <<>>
    /\ output = <<>>

Open ==
    /\ status = "unopened"
    /\ status' = "open"
    /\ UNCHANGED <<queue, output>>

Accept(buf) ==
    /\ status = "open"
    /\ queue' = Append(queue, buf)
    /\ UNCHANGED <<status, output>>

(* A write that had succeeded before the failure is still reported.        *)
Deliver ==
    /\ status \in {"open", "closing", "failed"}
    /\ queue # <<>>
    /\ output' = Append(output, Head(queue))
    /\ queue' = Tail(queue)
    /\ UNCHANGED status

RequestClose ==
    /\ status = "open" /\ queue # <<>>
    /\ status' = "closing"
    /\ UNCHANGED <<queue, output>>

CloseIdle ==
    /\ status \in {"unopened", "open"} /\ queue = <<>>
    /\ status' = "closed"
    /\ UNCHANGED <<queue, output>>

(* The last buffer of a closing pipe and the close are one step.           *)
DeliverAndClose ==
    /\ status = "closing" /\ Len(queue) = 1
    /\ output' = Append(output, Head(queue))
    /\ queue' = <<>>
    /\ status' = "closed"

Fail ==
    /\ status \in {"open", "closing"}
    /\ status' = "failed"
    /\ UNCHANGED <<queue, output>>

PipeNext ==
    \/ Open
    \/ \E buf \in Buffers : Accept(buf)
    \/ Deliver
    \/ RequestClose
    \/ CloseIdle
    \/ DeliverAndClose
    \/ Fail

PipeSpec == PipeInit /\ [][PipeNext]_pipeVars
=============================================================================
