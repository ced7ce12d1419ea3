----------------------------- MODULE UdpSocket -----------------------------
(***************************************************************************)
(* One UdpSocket (common/src/udp_socket.cpp): the datagram counterpart of  *)
(* TcpSocket.  Calls post handlers to the object's strand, and handlers    *)
(* and completions run there one at a time.  Sending takes two operations, *)
(* the second started by the completion of the first: the target's name is *)
(* resolved, then the datagram sent.                                       *)
(*                                                                         *)
(* Both users (UdpClient of the server, UdpSession of the client) call     *)
(* start() right after construction.  A datagram is the ordinal of its     *)
(* send() call.                                                            *)
(***************************************************************************)
EXTENDS Naturals, Sequences

CONSTANTS
    MaxSends,   \* bound on the calls of send()
    MaxCloses,  \* bound on the calls of close()
    MaxCtrl     \* bound on the calls of startReading() and stopReading()

ASSUME CallBoundsAreNat == {MaxSends, MaxCloses, MaxCtrl} \subseteq Nat

VARIABLES
    posted,         \* handlers posted to strand_, oldest first
    sock_open,      \* socket_.is_open()
    reads,          \* async_receive_from operations in flight
    stage,          \* where do_send_next's chain of completions is
    is_open,
    is_sending,
    is_closing,
    is_closed,
    is_reading,
    send_queue,
    calls,          \* how often each bounded entry point was called
    accepted,       \* history: datagrams that entered send_queue
    handled,        \* history: datagrams sent, or dropped as unresolvable
    closeCbs,       \* history: invocations of close_callback_
    aborted         \* history: an I/O error closed the socket

flagVars  == <<is_open, is_sending, is_closing, is_closed, is_reading>>
queueVars == <<send_queue, accepted, handled>>
closeHist == <<closeCbs, aborted>>

vars == <<posted, sock_open, reads, stage, is_open, is_sending, is_closing,
          is_closed, is_reading, send_queue, calls, accepted, handled,
          closeCbs, aborted>>

Ops == {"start", "send", "close", "startReading", "stopReading"}

\* A posted handler; dgram is the captured datagram of a send, 0 otherwise.
Handler(op, dgram) == [op |-> op, dgram |-> dgram]

Init ==
    /\ posted = <<Handler("start", 0)>>
    /\ sock_open = FALSE
    /\ reads = 0
    /\ stage = "idle"
    /\ is_open = FALSE
    /\ is_sending = FALSE
    /\ is_closing = FALSE
    /\ is_closed = FALSE
    /\ is_reading = TRUE
    /\ send_queue = <<>>
    /\ calls = [c \in {"send", "close", "ctrl"} |-> 0]
    /\ accepted = <<>>
    /\ handled = <<>>
    /\ closeCbs = 0
    /\ aborted = FALSE

-----------------------------------------------------------------------------
(* The entry points, callable from any thread: post and return.            *)

Call(counter, bound, h) ==
    /\ calls[counter] < bound
    /\ calls' = [calls EXCEPT ![counter] = @ + 1]
    /\ posted' = Append(posted, h)
    /\ UNCHANGED <<sock_open, reads, stage, flagVars, queueVars, closeHist>>

CallSend == Call("send", MaxSends, Handler("send", calls["send"] + 1))

CallClose == Call("close", MaxCloses, Handler("close", 0))

CallReading(op) == Call("ctrl", MaxCtrl, Handler(op, 0))

-----------------------------------------------------------------------------
(* Building blocks the handlers share.  A definition marked "faulty" is    *)
(* not part of the specification: it is a mistake one of the properties    *)
(* exists to catch.                                                        *)

\* faulty: the is_closed_ guard is missing
DoCloseUnguarded ==
    /\ is_closed' = TRUE
    /\ sock_open' = FALSE
    /\ closeCbs' = closeCbs + 1

(* do_close(): closes the descriptor, which ends what is in flight, and    *)
(* calls close_callback_; once only.                                       *)
DoClose ==
    /\ is_closed' = TRUE
    /\ IF is_closed
       THEN UNCHANGED <<sock_open, closeCbs>>
       ELSE sock_open' = FALSE /\ closeCbs' = closeCbs + 1

CloseOnError ==
    /\ is_closing' = TRUE
    /\ aborted' = (aborted \/ ~is_closed)
    /\ DoClose

(* do_read() on a closed descriptor fails at once, to no effect.           *)
DoRead == IF sock_open THEN reads' = reads + 1 ELSE UNCHANGED reads

\* faulty: close() does not look at the queue
NothingToDrainEver == TRUE

NothingToDrain == ~is_open \/ (~is_sending /\ send_queue = <<>>)

Push(dgram) == send_queue' = Append(send_queue, dgram)

(* The datagram at the front is done with.                                 *)
Pop ==
    /\ send_queue' = Tail(send_queue)
    /\ handled' = Append(handled, Head(send_queue))
    /\ UNCHANGED accepted

\* faulty: the chain stops at a datagram that was disposed of
NextOrIdleStops ==
    /\ stage' = "idle"
    /\ IF Len(send_queue) > 1
       THEN UNCHANGED <<is_sending, is_closed, sock_open, closeCbs>>
       ELSE /\ is_sending' = FALSE
            /\ IF is_closing THEN DoClose
                             ELSE UNCHANGED <<is_closed, sock_open, closeCbs>>

\* faulty: the end of the queue does not look at is_closing_
NextOrIdleForgetsClose ==
    /\ stage' = IF Len(send_queue) > 1 THEN "resolving" ELSE "idle"
    /\ is_sending' = (Len(send_queue) > 1)
    /\ UNCHANGED <<is_closed, sock_open, closeCbs>>

(* Then the next one, or the end of the chain: where close() waits.        *)
NextOrIdle ==
    IF Len(send_queue) > 1
    THEN /\ stage' = "resolving"
         /\ UNCHANGED <<is_sending, is_closed, sock_open, closeCbs>>
    ELSE /\ stage' = "idle"
         /\ is_sending' = FALSE
         /\ IF is_closing THEN DoClose
                          ELSE UNCHANGED <<is_closed, sock_open, closeCbs>>

(* Takes the oldest handler off the strand.                                *)
Runs(op) ==
    /\ posted # <<>>
    /\ Head(posted).op = op
    /\ posted' = Tail(posted)
    /\ UNCHANGED calls

-----------------------------------------------------------------------------
(* The posted handlers.                                                    *)

(* open and bind; a socket that opens and cannot be bound stays open.      *)
RunStart(opens, binds) ==
    /\ Runs("start")
    /\ sock_open' = opens
    /\ is_open' = (opens /\ binds)
    /\ reads' = IF opens /\ binds THEN reads + 1 ELSE reads
    /\ UNCHANGED <<stage, is_sending, is_closing, is_closed, is_reading,
                   queueVars, closeHist>>

Writable == is_open /\ ~is_closing /\ ~is_closed

RunSendDropped ==
    /\ Runs("send")
    /\ ~Writable
    /\ UNCHANGED <<sock_open, reads, stage, flagVars, queueVars, closeHist>>

RunSendQueued ==
    /\ Runs("send")
    /\ Writable
    /\ Push(Head(posted).dgram)
    /\ accepted' = Append(accepted, Head(posted).dgram)
    /\ is_sending' = TRUE
    /\ stage' = IF is_sending THEN stage ELSE "resolving"
    /\ UNCHANGED <<sock_open, reads, is_open, is_closing, is_closed,
                   is_reading, handled, closeHist>>

RunClose ==
    /\ Runs("close")
    /\ is_closing' = TRUE
    /\ IF ~is_closing /\ ~is_closed /\ NothingToDrain
       THEN DoClose
       ELSE UNCHANGED <<is_closed, sock_open, closeCbs>>
    /\ UNCHANGED <<reads, stage, is_open, is_sending, is_reading, queueVars,
                   aborted>>

RunStartReading ==
    /\ Runs("startReading")
    /\ IF is_reading \/ is_closing \/ is_closed
       THEN UNCHANGED <<is_reading, reads>>
       ELSE /\ is_reading' = TRUE
            /\ IF is_open THEN DoRead ELSE UNCHANGED reads
    /\ UNCHANGED <<sock_open, stage, is_open, is_sending, is_closing,
                   is_closed, queueVars, closeHist>>

RunStopReading ==
    /\ Runs("stopReading")
    /\ is_reading' = FALSE
    /\ UNCHANGED <<sock_open, reads, stage, is_open, is_sending, is_closing,
                   is_closed, queueVars, closeHist>>

RunPosted ==
    \/ \E opens, binds \in BOOLEAN : RunStart(opens, binds)
    \/ RunSendDropped
    \/ RunSendQueued
    \/ RunClose
    \/ RunStartReading
    \/ RunStopReading

-----------------------------------------------------------------------------
(* Completions.                                                            *)

ReadDone ==
    /\ reads > 0
    /\ IF is_reading /\ sock_open THEN UNCHANGED reads ELSE reads' = reads - 1
    /\ UNCHANGED <<posted, calls, sock_open, stage, flagVars, queueVars,
                   closeHist>>

ReadFailed ==
    /\ reads > 0
    /\ reads' = reads - 1
    /\ CloseOnError
    /\ UNCHANGED <<posted, calls, stage, is_open, is_sending, is_reading,
                   queueVars>>

(* async_send_to on a descriptor closed meanwhile can only fail.           *)
ResolveDone ==
    /\ stage = "resolving"
    /\ stage' = IF sock_open THEN "sending" ELSE "failing"
    /\ UNCHANGED <<posted, calls, sock_open, reads, flagVars, queueVars,
                   closeHist>>

(* A name that does not resolve costs its datagram only.                   *)
ResolveFailed ==
    /\ stage = "resolving"
    /\ Pop
    /\ NextOrIdle
    /\ UNCHANGED <<posted, calls, reads, is_open, is_closing, is_reading,
                   aborted>>

SendDone ==
    /\ stage = "sending"
    /\ Pop
    /\ NextOrIdle
    /\ UNCHANGED <<posted, calls, reads, is_open, is_closing, is_reading,
                   aborted>>

(* A send that fails closes the socket; its datagram stays at the front.   *)
SendFailed ==
    /\ stage \in {"sending", "failing"}
    /\ stage' = "idle"
    /\ CloseOnError
    /\ UNCHANGED <<posted, calls, reads, is_open, is_sending, is_reading,
                   queueVars>>

SendCompletes == ResolveDone \/ ResolveFailed \/ SendDone \/ SendFailed

Next ==
    \/ CallSend
    \/ CallClose
    \/ \E op \in {"startReading", "stopReading"} : CallReading(op)
    \/ RunPosted
    \/ ReadDone
    \/ ReadFailed
    \/ SendCompletes

Spec == Init /\ [][Next]_vars

(* The worker threads run every posted handler; the resolver answers and   *)
(* the kernel takes or refuses every datagram.                             *)
FairSpec == Spec /\ WF_vars(RunPosted) /\ WF_vars(SendCompletes)

-----------------------------------------------------------------------------
(* Properties.                                                             *)

(* The chain of completions and the queue agree: the comment on            *)
(* do_send_next, that it is called with a datagram at the front, holds at  *)
(* every completion (front() and pop_front() of an empty deque would be    *)
(* undefined), and a datagram queued on an open socket always has the      *)
(* chain at work.                                                          *)
ChainFollowsQueue ==
    /\ stage # "idle" => send_queue # <<>>
    /\ (send_queue # <<>> /\ ~is_closed) => stage # "idle"

(* close_callback_ runs exactly once for a closed object, though close(),  *)
(* the receive handler, the resolver's and the send handler may each come  *)
(* to do_close().                                                          *)
CloseCallbackOnce == closeCbs = (IF is_closed THEN 1 ELSE 0)

(* Every close() that was called ends with the socket closed: neither an   *)
(* unresolvable name nor a failed send leaves it waiting.                  *)
CloseCompletes == (calls["close"] > 0) ~> is_closed
=============================================================================
