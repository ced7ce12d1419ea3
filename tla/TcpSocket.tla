----------------------------- MODULE TcpSocket -----------------------------
(***************************************************************************)
(* One TcpSocket (common/src/tcp_socket.cpp): the queueing TCP endpoint    *)
(* both processes build their sessions on.                                 *)
(*                                                                         *)
(* Any thread may call connect/start/send/close/startReading/stopReading;  *)
(* each call only posts a handler to the socket's strand.  The handlers,   *)
(* and the completion handlers of the asynchronous resolve, connect, read  *)
(* and write, run one at a time on that strand: one handler is one action. *)
(* Posted handlers run in the order of the calls; a completion may be      *)
(* scheduled between any two of them.                                      *)
(*                                                                         *)
(* A buffer is the ordinal of the send() call that handed it over.         *)
(***************************************************************************)
EXTENDS Naturals, Sequences

CONSTANTS
    MaxSends,   \* bound on the calls of send()
    MaxCloses,  \* bound on the calls of close()
    MaxCtrl,    \* bound on the calls of startReading() and stopReading()
    DangerMark, \* queue length that raises Danger  (4000 in the code)
    SafeMark    \* queue length that restores Safety (2000 in the code)

ASSUME CallBoundsAreNat ==
    /\ MaxSends \in Nat
    /\ MaxCloses \in Nat
    /\ MaxCtrl \in Nat

ASSUME MarksAreOrdered ==
    /\ SafeMark \in Nat \ {0}
    /\ DangerMark \in Nat \ {0}
    /\ SafeMark =< DangerMark

VARIABLES
    kind,               \* which constructor made the object
    started,            \* connect() or start() has been called
    posted,             \* handlers posted to strand_, oldest first
    dial,               \* where connect()'s chain of completions is
    sock_open,          \* socket_.is_open()
    reads,              \* async_read_some operations in flight
    writing,            \* an async_write is in flight
    is_connected,
    is_closing,
    is_closed,
    is_sending,
    is_reading,
    write_queue,
    write_queue_status,
    calls,              \* how often each bounded entry point was called
    accepted,           \* history: buffers that entered write_queue
    delivered,          \* history: buffers whose async_write succeeded
    closeCbs,           \* history: invocations of close_callback_
    aborted             \* history: an I/O error closed the socket

callVars == <<kind, started, calls>>
flagVars == <<is_connected, is_closing, is_closed, is_sending, is_reading>>
ioVars   == <<dial, sock_open, reads, writing>>
queueVars == <<write_queue, write_queue_status, accepted, delivered>>
closeHist == <<closeCbs, aborted>>

vars == <<kind, started, posted, dial, sock_open, reads, writing,
          is_connected, is_closing, is_closed, is_sending, is_reading,
          write_queue, write_queue_status, calls, accepted, delivered,
          closeCbs, aborted>>

Ops == {"connect", "start", "send", "close", "startReading", "stopReading"}

\* A posted handler; buf is the captured buffer of a send, 0 otherwise.
Handler(op, buf) == [op |-> op, buf |-> buf]

TypeOK ==
    /\ kind \in {"accepted", "outgoing"}
    /\ started \in BOOLEAN
    /\ posted \in Seq([op : Ops, buf : Nat])
    /\ dial \in {"idle", "resolving", "connecting", "done"}
    /\ sock_open \in BOOLEAN
    /\ reads \in Nat
    /\ writing \in BOOLEAN
    /\ is_connected \in BOOLEAN
    /\ is_closing \in BOOLEAN
    /\ is_closed \in BOOLEAN
    /\ is_sending \in BOOLEAN
    /\ is_reading \in BOOLEAN
    /\ write_queue \in Seq(Nat)
    /\ write_queue_status \in {"Safety", "Danger"}
    /\ calls \in [{"send", "close", "ctrl"} -> Nat]
    /\ accepted \in Seq(Nat)
    /\ delivered \in Seq(Nat)
    /\ closeCbs \in Nat
    /\ aborted \in BOOLEAN

-----------------------------------------------------------------------------
(* Construction.  The accepting constructor takes over a connected handle; *)
(* when release() or assign() fails it leaves an unconnected object.       *)

Init ==
    /\ kind \in {"accepted", "outgoing"}
    /\ is_connected \in (IF kind = "accepted" THEN BOOLEAN ELSE {FALSE})
    /\ sock_open = is_connected
    /\ started = FALSE
    /\ posted = <<>>
    /\ dial = "idle"
    /\ reads = 0
    /\ writing = FALSE
    /\ is_closing = FALSE
    /\ is_closed = FALSE
    /\ is_sending = FALSE
    /\ is_reading = TRUE
    /\ write_queue = <<>>
    /\ write_queue_status = "Safety"
    /\ calls = [c \in {"send", "close", "ctrl"} |-> 0]
    /\ accepted = <<>>
    /\ delivered = <<>>
    /\ closeCbs = 0
    /\ aborted = FALSE

-----------------------------------------------------------------------------
(* The entry points, callable from any thread: post and return.  The       *)
(* program's callers connect or start an object before anything else.      *)

PostOnly(h) ==
    /\ posted' = Append(posted, h)
    /\ UNCHANGED <<kind, flagVars, ioVars, queueVars, closeHist>>

CallConnect ==
    /\ kind = "outgoing" /\ ~started
    /\ started' = TRUE
    /\ PostOnly(Handler("connect", 0))
    /\ UNCHANGED calls

CallStart ==
    /\ kind = "accepted" /\ ~started
    /\ started' = TRUE
    /\ PostOnly(Handler("start", 0))
    /\ UNCHANGED calls

CallSend ==
    /\ started /\ calls["send"] < MaxSends
    /\ calls' = [calls EXCEPT !["send"] = @ + 1]
    /\ PostOnly(Handler("send", calls["send"] + 1))
    /\ UNCHANGED started

CallClose ==
    /\ started /\ calls["close"] < MaxCloses
    /\ calls' = [calls EXCEPT !["close"] = @ + 1]
    /\ PostOnly(Handler("close", 0))
    /\ UNCHANGED started

CallReading(op) ==
    /\ started /\ calls["ctrl"] < MaxCtrl
    /\ calls' = [calls EXCEPT !["ctrl"] = @ + 1]
    /\ PostOnly(Handler(op, 0))
    /\ UNCHANGED started

-----------------------------------------------------------------------------
(* Building blocks the handlers share.  A definition named after another   *)
(* one with a suffix, marked "faulty", is not part of the specification:   *)
(* it is a mistake one of the properties exists to catch.                  *)

\* faulty: the descriptor is not closed
DoCloseKeepsDescriptor ==
    /\ is_closed' = TRUE
    /\ UNCHANGED sock_open
    /\ closeCbs' = IF is_closed THEN closeCbs ELSE closeCbs + 1

(* do_close(): closes the descriptor, which makes every operation in       *)
(* flight complete, and calls close_callback_; once only.                  *)
DoClose ==
    /\ is_closed' = TRUE
    /\ IF is_closed
       THEN UNCHANGED <<sock_open, closeCbs>>
       ELSE sock_open' = FALSE /\ closeCbs' = closeCbs + 1

(* The error path of do_read and do_write: is_closing_ = true; do_close(). *)
CloseOnError ==
    /\ is_closing' = TRUE
    /\ IF is_closed THEN UNCHANGED aborted ELSE aborted' = TRUE
    /\ DoClose

\* faulty: the last write does not look at is_closing_
CloseIfClosingForgotten == UNCHANGED <<is_closed, sock_open, closeCbs>>

(* The last write of a closing socket closes it.                           *)
CloseIfClosing ==
    IF is_closing THEN DoClose ELSE UNCHANGED <<is_closed, sock_open, closeCbs>>

(* do_read() and do_write() start an operation.  On a closed descriptor it *)
(* fails at once and its handler finds is_closed_ set: no effect.          *)
DoRead == IF sock_open THEN reads' = reads + 1 ELSE UNCHANGED reads

\* faulty: do_write() returns early while is_sending_ is set
DoWriteIfIdle == writing' = (sock_open /\ ~is_sending)

DoWrite == writing' = sock_open

\* faulty: the drop test of send() forgets is_closing_
WritableWhileClosing == is_connected /\ ~is_closed

(* send() keeps the buffer; otherwise it is dropped.                       *)
Writable == is_connected /\ ~is_closing /\ ~is_closed

Push(buf) == write_queue' = Append(write_queue, buf)

(* A successful write leaves the queue.                                    *)
Pop ==
    /\ write_queue' = Tail(write_queue)
    /\ delivered' = Append(delivered, Head(write_queue))
    /\ UNCHANGED accepted

(* close() need not wait: not connected yet, or the queue empty and idle.  *)
NothingToDrain == ~is_connected \/ (~is_sending /\ write_queue = <<>>)

(* The watermark test, with the queue length the code sees at that point.  *)
WatermarkStatus(n) ==
    CASE write_queue_status = "Danger" /\ n < SafeMark -> "Safety"
      [] write_queue_status = "Safety" /\ n >= DangerMark -> "Danger"
      [] OTHER -> write_queue_status

(* Takes the oldest handler off the strand.                                *)
Runs(op) ==
    /\ posted # <<>>
    /\ Head(posted).op = op
    /\ posted' = Tail(posted)
    /\ UNCHANGED callVars

-----------------------------------------------------------------------------
(* The posted handlers.                                                    *)

RunConnect ==
    /\ Runs("connect")
    /\ dial' = "resolving"
    /\ UNCHANGED <<sock_open, reads, writing, flagVars, queueVars, closeHist>>

RunStart ==
    /\ Runs("start")
    /\ IF is_connected /\ ~is_closing /\ ~is_closed THEN DoRead ELSE UNCHANGED reads
    /\ UNCHANGED <<dial, sock_open, writing, flagVars, queueVars, closeHist>>

RunSendDropped ==
    /\ Runs("send")
    /\ ~Writable
    /\ UNCHANGED <<flagVars, ioVars, queueVars, closeHist>>

RunSendQueued ==
    /\ Runs("send")
    /\ Writable
    /\ Push(Head(posted).buf)
    /\ accepted' = Append(accepted, Head(posted).buf)
    /\ is_sending' = TRUE
    /\ IF is_sending THEN UNCHANGED writing ELSE DoWrite
    /\ UNCHANGED <<is_connected, is_closing, is_closed, is_reading, dial,
                   sock_open, reads, write_queue_status, delivered, closeHist>>

RunCloseIgnored ==
    /\ Runs("close")
    /\ is_closing \/ is_closed
    /\ UNCHANGED <<flagVars, ioVars, queueVars, closeHist>>

RunCloseNow ==
    /\ Runs("close")
    /\ ~is_closing /\ ~is_closed
    /\ NothingToDrain
    /\ is_closing' = TRUE
    /\ DoClose
    /\ UNCHANGED <<is_connected, is_sending, is_reading, dial, reads, writing,
                   queueVars, aborted>>

(* Data is queued: the completion of the last write will close.            *)
RunCloseLater ==
    /\ Runs("close")
    /\ ~is_closing /\ ~is_closed
    /\ ~NothingToDrain
    /\ is_closing' = TRUE
    /\ UNCHANGED <<is_connected, is_closed, is_sending, is_reading, ioVars,
                   queueVars, closeHist>>

RunStartReading ==
    /\ Runs("startReading")
    /\ IF is_reading \/ is_closing \/ is_closed
       THEN UNCHANGED <<is_reading, reads>>
       ELSE /\ is_reading' = TRUE
            /\ IF is_connected THEN DoRead ELSE UNCHANGED reads
    /\ UNCHANGED <<is_connected, is_closing, is_closed, is_sending, dial,
                   sock_open, writing, queueVars, closeHist>>

RunStopReading ==
    /\ Runs("stopReading")
    /\ is_reading' = FALSE
    /\ UNCHANGED <<is_connected, is_closing, is_closed, is_sending, ioVars,
                   queueVars, closeHist>>

RunPosted ==
    \/ RunConnect
    \/ RunStart
    \/ RunSendDropped
    \/ RunSendQueued
    \/ RunCloseIgnored
    \/ RunCloseNow
    \/ RunCloseLater
    \/ RunStartReading
    \/ RunStopReading

-----------------------------------------------------------------------------
(* Completions.  An operation in flight when the descriptor was closed     *)
(* completes too: as a success if it had succeeded by then, else aborted.  *)

(* The resolver's answer starts async_connect, which opens socket_ again   *)
(* whatever close() did meanwhile; a failure only reaches the callback.    *)
ResolveDone(ok) ==
    /\ dial = "resolving"
    /\ IF ok
       THEN dial' = "connecting" /\ sock_open' = TRUE
       ELSE dial' = "done" /\ UNCHANGED sock_open
    /\ UNCHANGED <<callVars, posted, reads, writing, flagVars, queueVars,
                   closeHist>>

(* async_connect reports operation_aborted when it finds socket_ closed.   *)
ConnectDone(ok) ==
    /\ dial = "connecting"
    /\ ok => sock_open
    /\ dial' = "done"
    /\ IF ok
       THEN is_connected' = TRUE /\ DoRead
       ELSE UNCHANGED <<is_connected, reads>>
    /\ UNCHANGED <<callVars, posted, sock_open, writing, is_closing, is_closed,
                   is_sending, is_reading, queueVars, closeHist>>

\* faulty: the next read is not started
ReadDoneNotRearmed ==
    /\ reads > 0
    /\ reads' = reads - 1
    /\ UNCHANGED <<callVars, posted, dial, sock_open, writing, flagVars,
                   queueVars, closeHist>>

(* Data goes to data_callback_; the next read follows unless stopReading() *)
(* ran.                                                                    *)
ReadDone ==
    /\ reads > 0
    /\ IF is_reading /\ sock_open THEN UNCHANGED reads ELSE reads' = reads - 1
    /\ UNCHANGED <<callVars, posted, dial, sock_open, writing, flagVars,
                   queueVars, closeHist>>

(* End of stream, reset or abort: close at once, queue or no queue.        *)
ReadFailed ==
    /\ reads > 0
    /\ reads' = reads - 1
    /\ CloseOnError
    /\ UNCHANGED <<callVars, posted, dial, writing, is_connected, is_sending,
                   is_reading, queueVars>>

WriteDoneMore ==
    /\ writing
    /\ Pop
    /\ Len(write_queue) > 1
    /\ DoWrite
    /\ UNCHANGED <<callVars, posted, dial, sock_open, reads, flagVars,
                   write_queue_status, closeHist>>

WriteDoneLast ==
    /\ writing
    /\ Pop
    /\ Len(write_queue) =< 1
    /\ write_queue_status' = WatermarkStatus(Len(Tail(write_queue)))
    /\ writing' = FALSE
    /\ is_sending' = FALSE
    /\ CloseIfClosing
    /\ UNCHANGED <<callVars, posted, dial, reads, is_connected, is_closing,
                   is_reading, aborted>>

WriteFailed ==
    /\ writing
    /\ writing' = FALSE
    /\ CloseOnError
    /\ UNCHANGED <<callVars, posted, dial, reads, is_connected, is_sending,
                   is_reading, queueVars>>

WriteCompletes == WriteDoneMore \/ WriteDoneLast \/ WriteFailed

Next ==
    \/ CallConnect
    \/ CallStart
    \/ CallSend
    \/ CallClose
    \/ \E op \in {"startReading", "stopReading"} : CallReading(op)
    \/ RunPosted
    \/ \E ok \in BOOLEAN : ResolveDone(ok) \/ ConnectDone(ok)
    \/ ReadDone
    \/ ReadFailed
    \/ WriteCompletes

Spec == Init /\ [][Next]_vars

(* The worker threads run every posted handler, and the kernel completes   *)
(* or fails every write: the peer reads, resets or times out.              *)
FairSpec == Spec /\ WF_vars(RunPosted) /\ WF_vars(WriteCompletes)

-----------------------------------------------------------------------------
(* Properties.                                                             *)

IsIncreasing(s) == \A i, j \in 1..Len(s) : i < j => s[i] < s[j]

(* Nothing send() accepted is lost, duplicated or reordered inside the     *)
(* object: what was written followed by what is queued is exactly what was *)
(* accepted, and that is in the order of the calls of send() (send,        *)
(* do_write).                                                              *)
Conservation ==
    /\ delivered \o write_queue = accepted
    /\ IsIncreasing(accepted)

(* A non-empty queue of an open socket always has a write in flight: no    *)
(* interleaving of send() and the write handler can leave is_sending_ set  *)
(* with nobody writing, or the converse (the do_write chain).              *)
NoStall == (write_queue # <<>> /\ ~is_closed) => writing

(* close() drains: unless an I/O error closed the socket, it is closed     *)
(* only after every accepted buffer was written (close, do_write).         *)
DrainBeforeClose == (is_closed /\ ~aborted) => delivered = accepted

(* close_callback_ runs exactly once for a closed object and never before, *)
(* although close(), the read handler and the write handler may all reach  *)
(* do_close() (do_close's is_closed_ guard).                               *)
CloseCallbackOnce == closeCbs = (IF is_closed THEN 1 ELSE 0)

(* A connected object that is meant to read has a read in flight, whatever *)
(* mixture of start, stopReading and startReading was posted around the    *)
(* read completions (do_read, startReading, stopReading).                  *)
NoReadStall ==
    LET startRan == started /\ \A i \in 1..Len(posted) : posted[i].op # "start"
    IN  (startRan /\ is_connected /\ is_reading /\ ~is_closing) => reads > 0

(* write_queue_callback_ never reports Danger however long the queue gets: *)
(* do_write compares the length with the marks only after the early return *)
(* for a non-empty queue.                                                  *)
WatermarkSilent == write_queue_status = "Safety"

(* A closed object's descriptor is open again in one case only: close()    *)
(* ran before the resolver's answer, which opens it for nobody (connect's  *)
(* resolve handler does not look at is_closed_).  Such a connection never  *)
(* carried a byte of ours; whatever else closes the object, an error       *)
(* included, closes the descriptor for good.                               *)
OnlyLateResolveReopens ==
    (is_closed /\ sock_open) =>
        kind = "outgoing" /\ accepted = <<>> /\ ~aborted

(* Once the object is closing nothing more enters the queue (send's        *)
(* guard), and a closed object never becomes unclosed or loses what it     *)
(* wrote.                                                                  *)
ClosingIsFinal ==
    [][ is_closing => /\ is_closing'
                      /\ accepted' = accepted
                      /\ is_closed => is_closed' ]_vars

(* Every close() that was called ends with the socket closed, under the    *)
(* fairness of FairSpec: the drain cannot be left waiting (close,          *)
(* do_write, do_close).                                                    *)
CloseCompletes == (calls["close"] > 0) ~> is_closed

=============================================================================
