-------------------------- MODULE UdpSocketProofs --------------------------
(***************************************************************************)
(* Proofs about UdpSocket, for every number of calls.  IInv says what      *)
(* do_send_next's chain of completions relies on: that it is at work       *)
(* exactly while is_sending_ is set on an open object and that a datagram  *)
(* is then at the front of the queue; and that start() is the first        *)
(* handler the strand runs.                                                *)
(***************************************************************************)
EXTENDS UdpSocketRefines, SequenceTheorems, TLAPS

Handlers == [op : Ops, dgram : Nat]

TypeOK ==
    /\ posted \in Seq(Handlers)
    /\ sock_open \in BOOLEAN
    /\ reads \in Nat
    /\ stage \in {"idle", "resolving", "sending", "failing"}
    /\ is_open \in BOOLEAN
    /\ is_sending \in BOOLEAN
    /\ is_closing \in BOOLEAN
    /\ is_closed \in BOOLEAN
    /\ is_reading \in BOOLEAN
    /\ send_queue \in Seq(Nat)
    /\ calls \in [{"send", "close", "ctrl"} -> Nat]
    /\ accepted \in Seq(Nat)
    /\ handled \in Seq(Nat)
    /\ closeCbs \in Nat
    /\ aborted \in BOOLEAN

(* The flags, the chain of completions and the queue.                      *)
ChainInv ==
    /\ stage # "idle" => (is_sending /\ send_queue # <<>>)
    /\ (is_sending /\ ~is_closed) => stage # "idle"
    /\ send_queue # <<>> => is_sending

(* The stages of closing.                                                  *)
CloseInv ==
    /\ is_closed => is_closing
    /\ aborted => is_closed
    /\ (is_closing /\ ~is_closed) => is_sending
    /\ (is_closed /\ ~aborted) => send_queue = <<>>
    /\ closeCbs = (IF is_closed THEN 1 ELSE 0)

(* Nothing is sent or received before start() opened the socket.           *)
OpenInv ==
    /\ is_sending => is_open
    /\ reads > 0 => is_open

(* start() is posted by the owner's constructor, before anything else, and *)
(* a datagram in a posted send is that of one of the calls.                *)
PostedInv ==
    \A i \in 1..Len(posted) :
       /\ posted[i].op = "start" => (i = 1 /\ ~is_open /\ ~is_closing /\ ~is_closed)
       /\ posted[i].op = "send" => posted[i].dgram \in 1..MaxSends

(* No datagram is lost, repeated or overtaken in the queue.                *)
KeepsDatagrams == handled \o send_queue = accepted

IInv ==
    /\ TypeOK
    /\ ChainInv
    /\ CloseInv
    /\ OpenInv
    /\ PostedInv
    /\ KeepsDatagrams

-----------------------------------------------------------------------------
(* Facts about sequences the steps below cite.                             *)

(* What has been appended to is not empty (posted, write_queue).           *)
LEMMA AppendNotEmpty ==
    ASSUME NEW S, NEW s \in Seq(S), NEW e \in S
    PROVE  Append(s, e) # <<>>
<1>1. Len(Append(s, e)) = Len(s) + 1 /\ Len(s) \in Nat
  BY AppendProperties, LenProperties
<1> QED
  BY <1>1, EmptySeq

(* A sequence of two or more elements has a tail that is not empty.        *)
LEMMA TailNotEmpty ==
    ASSUME NEW S, NEW s \in Seq(S), Len(s) > 1
    PROVE  s # <<>> /\ Tail(s) # <<>>
<1>1. s # <<>>
  BY EmptySeq
<1>2. Len(Tail(s)) = Len(s) - 1
  BY <1>1, HeadTailProperties, Zenon
<1>3. Len(s) \in Nat
  BY LenProperties
<1>4. \A n \in Nat : n > 1 => n - 1 # 0
  OBVIOUS
<1>5. Len(s) - 1 # 0
  BY <1>3, <1>4, Zenon
<1>6. Len(Tail(s)) # Len(<<>>)
  BY <1>2, <1>5, EmptySeq, Zenon
<1> QED
  BY <1>1, <1>6, Zenon

(* A non-empty sequence of at most one element has an empty tail.          *)
LEMMA TailOfOne ==
    ASSUME NEW S, NEW s \in Seq(S), s # <<>>, Len(s) =< 1
    PROVE  Len(s) = 1 /\ Tail(s) = <<>>
<1>1. Len(s) \in Nat \ {0}
  BY EmptySeq
<1>2. \A n \in Nat \ {0} : n =< 1 => (n = 1 /\ n - 1 = 0)
  OBVIOUS
<1>3. Len(s) = 1 /\ Len(s) - 1 = 0
  BY <1>1, <1>2, Zenon
<1>4. Tail(s) \in Seq(S) /\ Len(Tail(s)) = Len(s) - 1
  BY HeadTailProperties, Zenon
<1>5. Len(Tail(s)) \notin Nat \ {0}
  <2>1. 0 \notin Nat \ {0}
    OBVIOUS
  <2> QED
    BY <1>3, <1>4, <2>1, Zenon
<1>6. Tail(s) = <<>>
  BY <1>4, <1>5, EmptySeq, Zenon
<1> QED
  BY <1>3, <1>6

(* Appending to the second part of a concatenation appends to the whole.   *)
LEMMA AppendAfterConcat ==
    ASSUME NEW S, NEW s \in Seq(S), NEW t \in Seq(S), NEW e \in S
    PROVE  s \o Append(t, e) = Append(s \o t, e)
OBVIOUS

(* Moving the head of the second part to the end of the first.             *)
LEMMA MoveHead ==
    ASSUME NEW S, NEW s \in Seq(S), NEW t \in Seq(S), t # <<>>
    PROVE  Append(s, Head(t)) \o Tail(t) = s \o t
<1>1. Head(t) \in S /\ Tail(t) \in Seq(S) /\ Len(Tail(t)) = Len(t) - 1 /\ Len(t) \in Nat
  BY HeadTailProperties, LenProperties
<1>2. Append(s, Head(t)) \in Seq(S) /\ Len(Append(s, Head(t))) = Len(s) + 1 
  BY <1>1, AppendProperties
<1>3. Head(t) = t[1] /\ \A i \in 1..Len(Tail(t)) : Tail(t)[i] = t[i+1]
  BY HeadTailProperties
<1> DEFINE a == Append(s, Head(t)) \o Tail(t)
           b == s \o t
<1>4. Len(a) = Len(s) + Len(t) /\ Len(b) = Len(s) + Len(t) /\ a \in Seq(S) /\ b \in Seq(S)
  BY <1>1, <1>2, ConcatProperties, LenProperties
<1>5. ASSUME NEW i \in 1..(Len(s) + Len(t)) PROVE a[i] = b[i]
  <2>1. Len(s) \in Nat /\ \A k \in 1..Len(s) : Append(s, Head(t))[k] = s[k] 
    BY <1>1, AppendProperties, LenProperties
  <2>2. Append(s, Head(t))[Len(s)+1] = Head(t)
    BY <1>1, AppendProperties
  <2>3. CASE i =< Len(s)
    BY <1>1, <1>2, <2>1, <2>3, ConcatProperties
  <2>4. CASE i = Len(s) + 1
    BY <1>1, <1>2, <1>3, <2>1, <2>2, <2>4, ConcatProperties
  <2>5. CASE i > Len(s) + 1
    BY <1>1, <1>2, <1>3, <2>1, <2>5, ConcatProperties
  <2> QED BY <2>1, <2>3, <2>4, <2>5, <1>1
<1> QED
  BY <1>4, <1>5, SeqEqual

(* The oldest posted handler.                                              *)
LEMMA HeadPosted ==
    ASSUME TypeOK, posted # <<>>
    PROVE  /\ Head(posted) \in Handlers
           /\ Head(posted) = posted[1]
           /\ 1 \in 1..Len(posted)
           /\ Len(posted) \in Nat
           /\ Tail(posted) \in Seq(Handlers)
           /\ Len(Tail(posted)) = Len(posted) - 1
           /\ \A i \in 1..Len(Tail(posted)) : Tail(posted)[i] = posted[i + 1]
<1>1. posted \in Seq(Handlers)
  BY DEF TypeOK
<1>2. Len(posted) \in Nat \ {0}
  BY <1>1, EmptySeq
<1>3. posted # <<>>
  OBVIOUS
<1>4. /\ Head(posted) \in Handlers
      /\ Tail(posted) \in Seq(Handlers)
      /\ Len(Tail(posted)) = Len(posted) - 1
      /\ \A i \in 1..Len(Tail(posted)) : Tail(posted)[i] = posted[i + 1]
  BY <1>1, <1>3, HeadTailProperties, Zenon
<1>5. Head(posted) = posted[1]
  BY <1>1
<1>6. 1 \in 1..Len(posted) /\ Len(posted) \in Nat
  BY <1>2
<1> QED
  BY <1>4, <1>5, <1>6

-----------------------------------------------------------------------------
(* Typing.                                                                 *)

(* The constructor establishes the types.                                  *)
LEMMA InitTypeOK == Init => TypeOK
<1> SUFFICES ASSUME Init PROVE TypeOK
  OBVIOUS
<1>1. /\ sock_open \in BOOLEAN /\ is_open \in BOOLEAN /\ is_sending \in BOOLEAN
      /\ is_closing \in BOOLEAN /\ is_closed \in BOOLEAN
      /\ is_reading \in BOOLEAN /\ aborted \in BOOLEAN
  BY Zenon DEF Init
<1>2. posted \in Seq(Handlers)
  <2>1. Handler("start", 0) \in Handlers
    BY DEF Handler, Handlers, Ops
  <2> QED
    BY <2>1 DEF Init
<1>3. calls \in [{"send", "close", "ctrl"} -> Nat]
  BY DEF Init
<1>4. /\ reads \in Nat /\ stage \in {"idle", "resolving", "sending", "failing"}
      /\ send_queue \in Seq(Nat) /\ accepted \in Seq(Nat)
      /\ handled \in Seq(Nat) /\ closeCbs \in Nat
  BY DEF Init
<1> QED
  BY <1>1, <1>2, <1>3, <1>4 DEF TypeOK

(* A completion takes a datagram off the front and starts the next, or     *)
(* ends the chain.                                                         *)
LEMMA NextOrIdleTypes ==
    ASSUME TypeOK, send_queue # <<>>, Pop, NextOrIdle
    PROVE  /\ stage' \in {"idle", "resolving", "sending", "failing"}
           /\ is_sending' \in BOOLEAN /\ is_closed' \in BOOLEAN
           /\ sock_open' \in BOOLEAN /\ closeCbs' \in Nat
           /\ send_queue' \in Seq(Nat) /\ handled' \in Seq(Nat)
<1>1. is_sending' \in BOOLEAN /\ is_closed' \in BOOLEAN /\ sock_open' \in BOOLEAN
  BY Zenon DEF TypeOK, NextOrIdle, DoClose
<1>2. stage' \in {"idle", "resolving", "sending", "failing"} /\ closeCbs' \in Nat
  BY DEF TypeOK, NextOrIdle, DoClose
<1>3. send_queue' \in Seq(Nat) /\ handled' \in Seq(Nat)
  BY DEF TypeOK, Pop
<1> QED
  BY <1>1, <1>2, <1>3

(* Every handler and every call keeps the types.                           *)
LEMMA NextTypeOK ==
    ASSUME TypeOK, ChainInv, [Next]_vars
    PROVE  TypeOK'
<1> USE DEF TypeOK
<1>1. CASE CallSend
  <2>1. Handler("send", calls["send"] + 1) \in Handlers
    BY DEF Handler, Handlers, Ops
  <2> QED
    BY <1>1, <2>1 DEF CallSend, Call, flagVars, queueVars, closeHist
<1>2. CASE CallClose
  <2>1. Handler("close", 0) \in Handlers
    BY DEF Handler, Handlers, Ops
  <2> QED
    BY <1>2, <2>1 DEF CallClose, Call, flagVars, queueVars, closeHist
<1>3. ASSUME NEW op \in {"startReading", "stopReading"}, CallReading(op)
      PROVE  TypeOK'
  <2>1. Handler(op, 0) \in Handlers
    BY DEF Handler, Handlers, Ops
  <2> QED
    BY <1>3, <2>1 DEF CallReading, Call, flagVars, queueVars, closeHist
<1>4. ASSUME NEW opens \in BOOLEAN, NEW binds \in BOOLEAN, RunStart(opens, binds)
      PROVE  TypeOK'
  <2>1. sock_open' \in BOOLEAN /\ is_open' \in BOOLEAN
    BY <1>4, Zenon DEF RunStart
  <2> QED
    BY <1>4, <2>1 DEF RunStart, Runs, queueVars, closeHist
<1>5. CASE RunSendDropped
  BY <1>5 DEF RunSendDropped, Runs, flagVars, queueVars, closeHist
<1>6. CASE RunSendQueued
  <2>1. is_sending' \in BOOLEAN
    BY <1>6, Zenon DEF RunSendQueued
  <2>2. Head(posted).dgram \in Nat
    BY <1>6, HeadPosted DEF RunSendQueued, Runs, Handlers
  <2>3. send_queue' \in Seq(Nat) /\ accepted' \in Seq(Nat)
    BY <1>6, <2>2 DEF RunSendQueued, Push
  <2> QED
    BY <1>6, <2>1, <2>3 DEF RunSendQueued, Runs, closeHist
<1>7. CASE RunClose
  <2>1. is_closing' \in BOOLEAN /\ is_closed' \in BOOLEAN /\ sock_open' \in BOOLEAN
    BY <1>7, Zenon DEF RunClose, DoClose
  <2> QED
    BY <1>7, <2>1 DEF RunClose, Runs, DoClose, queueVars
<1>8. CASE RunStartReading
  <2>1. is_reading' \in BOOLEAN
    BY <1>8, Zenon DEF RunStartReading
  <2> QED
    BY <1>8, <2>1 DEF RunStartReading, Runs, DoRead, queueVars, closeHist
<1>9. CASE RunStopReading
  <2>1. is_reading' \in BOOLEAN
    BY <1>9, Zenon DEF RunStopReading
  <2> QED
    BY <1>9, <2>1 DEF RunStopReading, Runs, queueVars, closeHist
<1>10. CASE ReadDone
  BY <1>10 DEF ReadDone, flagVars, queueVars, closeHist
<1>11. CASE ReadFailed
  <2>1. /\ is_closing' \in BOOLEAN /\ is_closed' \in BOOLEAN
        /\ sock_open' \in BOOLEAN /\ aborted' \in BOOLEAN
    BY <1>11, Zenon DEF ReadFailed, CloseOnError, DoClose
  <2> QED
    BY <1>11, <2>1 DEF ReadFailed, CloseOnError, DoClose, queueVars
<1>12. CASE ResolveDone
  BY <1>12 DEF ResolveDone, flagVars, queueVars, closeHist
<1>13. CASE ResolveFailed \/ SendDone
  <2>1. send_queue # <<>> /\ Pop /\ NextOrIdle
    BY <1>13 DEF ResolveFailed, SendDone, ChainInv
  <2> QED
    BY <1>13, <2>1, NextOrIdleTypes DEF ResolveFailed, SendDone, Pop
<1>14. CASE SendFailed
  <2>1. /\ is_closing' \in BOOLEAN /\ is_closed' \in BOOLEAN
        /\ sock_open' \in BOOLEAN /\ aborted' \in BOOLEAN
    BY <1>14, Zenon DEF SendFailed, CloseOnError, DoClose
  <2> QED
    BY <1>14, <2>1 DEF SendFailed, CloseOnError, DoClose, queueVars
<1>15. CASE UNCHANGED vars
  BY <1>15 DEF vars
<1> QED
  BY <1>1, <1>2, <1>3, <1>4, <1>5, <1>6, <1>7, <1>8, <1>9, <1>10, <1>11, <1>12,
     <1>13, <1>14, <1>15 DEF Next, RunPosted, SendCompletes

-----------------------------------------------------------------------------
(* The posted handlers.                                                    *)

(* At first start() is waiting on the strand and nothing else.             *)
LEMMA InitPosted == Init => PostedInv
BY DEF Init, PostedInv, Handler

(* A call posts a handler behind the others, and it is not start().        *)
LEMMA PostedAppend ==
    ASSUME TypeOK, PostedInv, NEW h \in Handlers, h.op # "start",
           h.op = "send" => h.dgram \in 1..MaxSends,
           posted' = Append(posted, h), UNCHANGED <<is_open, is_closing, is_closed>>
    PROVE  PostedInv'
<1>1. /\ Len(posted') = Len(posted) + 1 /\ Len(posted) \in Nat
      /\ \A i \in 1..Len(posted) : posted'[i] = posted[i]
      /\ posted'[Len(posted) + 1] = h
  BY AppendProperties, LenProperties DEF TypeOK
<1>2. \A i \in 1..Len(posted') : i \in 1..Len(posted) \/ i = Len(posted) + 1
  BY <1>1
<1> QED
  BY <1>1, <1>2 DEF PostedInv

(* Only start() is posted first, so that once a handler was taken off the  *)
(* strand it is no longer there.                                           *)
LEMMA PostedTail ==
    ASSUME TypeOK, PostedInv, posted # <<>>, posted' = Tail(posted)
    PROVE  PostedInv'
<1>1. /\ Len(posted') = Len(posted) - 1 /\ Len(posted) \in Nat
      /\ \A i \in 1..Len(posted') : posted'[i] = posted[i + 1]
  BY HeadPosted
<1>2. \A i \in 1..Len(posted') : i + 1 \in 1..Len(posted) /\ i + 1 # 1
  BY <1>1
<1> QED
  BY <1>1, <1>2 DEF PostedInv

(* While start() is posted it is the oldest handler.                       *)
LEMMA StartComesFirst ==
    ASSUME TypeOK, PostedInv, Runs("start")
    PROVE  ~is_open /\ ~is_closing /\ ~is_closed
<1>1. posted[1].op = "start" /\ 1 \in 1..Len(posted)
  BY HeadPosted DEF Runs
<1> QED
  BY <1>1 DEF PostedInv

(* A completion that comes while start() is still posted finds nothing to  *)
(* complete, and leaves the flags alone.                                   *)
LEMMA PostedSame ==
    ASSUME PostedInv, UNCHANGED <<posted, is_open>>, is_open
    PROVE  PostedInv'
BY DEF PostedInv

(* The strand runs start() first, and each send with its datagram.         *)
LEMMA NextPosted ==
    ASSUME TypeOK, ChainInv, OpenInv, PostedInv, [Next]_vars
    PROVE  PostedInv'
<1>1. CASE CallSend
  <2> DEFINE h == Handler("send", calls["send"] + 1)
  <2>1. h \in Handlers /\ h.op = "send" /\ h.dgram \in 1..MaxSends
    BY <1>1, CallBoundsAreNat DEF CallSend, Call, Handler, Handlers, Ops, TypeOK
  <2>2. posted' = Append(posted, h) /\ UNCHANGED <<is_open, is_closing, is_closed>>
    BY <1>1 DEF CallSend, Call, flagVars
  <2> HIDE DEF h
  <2> QED
    BY <2>1, <2>2, PostedAppend
<1>2. CASE CallClose
  <2>1. Handler("close", 0) \in Handlers /\ Handler("close", 0).op = "close"
    BY DEF Handler, Handlers, Ops
  <2> QED
    BY <1>2, <2>1, PostedAppend DEF CallClose, Call, flagVars
<1>3. ASSUME NEW op \in {"startReading", "stopReading"}, CallReading(op)
      PROVE  PostedInv'
  <2>1. Handler(op, 0) \in Handlers /\ Handler(op, 0).op \notin {"start", "send"}
    BY DEF Handler, Handlers, Ops
  <2> QED
    BY <1>3, <2>1, PostedAppend DEF CallReading, Call, flagVars
<1>4. CASE RunPosted
  BY <1>4, PostedTail
     DEF RunPosted, RunStart, RunSendDropped, RunSendQueued, RunClose,
         RunStartReading, RunStopReading, Runs
<1>5. CASE ReadDone \/ ResolveDone
  BY <1>5 DEF ReadDone, ResolveDone, flagVars, PostedInv
<1>6. CASE ReadFailed
  BY <1>6, PostedSame DEF ReadFailed, OpenInv
<1>7. CASE ResolveFailed \/ SendDone \/ SendFailed
  <2>1. is_open
    BY <1>7 DEF ResolveFailed, SendDone, SendFailed, ChainInv, OpenInv
  <2> QED
    BY <1>7, <2>1, PostedSame DEF ResolveFailed, SendDone, SendFailed
<1>8. CASE UNCHANGED vars
  BY <1>8 DEF vars, PostedInv
<1> QED
  BY <1>1, <1>2, <1>3, <1>4, <1>5, <1>6, <1>7, <1>8 DEF Next, SendCompletes

-----------------------------------------------------------------------------
(* Control.                                                                *)

ControlInv == ChainInv /\ CloseInv /\ OpenInv

(* The constructor leaves the flags consistent.                            *)
LEMMA InitControl == Init => ControlInv
<1> SUFFICES ASSUME Init PROVE ControlInv
  OBVIOUS
<1>1. ~is_sending /\ ~is_closing /\ ~is_closed /\ ~aborted
  BY Zenon DEF Init
<1>2. stage = "idle" /\ send_queue = <<>> /\ closeCbs = 0 /\ reads = 0
  BY DEF Init
<1> QED
  BY <1>1, <1>2 DEF ControlInv, ChainInv, CloseInv, OpenInv

(* When a datagram is done with, the chain goes on while there is another, *)
(* and what close() waits for is done at its end.                          *)
LEMMA ControlNextOrIdle ==
    ASSUME TypeOK, ControlInv, stage # "idle", Pop, NextOrIdle,
           UNCHANGED <<reads, is_open, is_closing, aborted>>
    PROVE  ControlInv'
<1> USE DEF ControlInv, ChainInv, CloseInv, OpenInv
<1>1. send_queue # <<>> /\ is_sending /\ send_queue' = Tail(send_queue)
  BY DEF Pop
<1>2. CASE Len(send_queue) > 1
  <2>1. send_queue' # <<>>
    BY <1>1, <1>2, TailNotEmpty DEF TypeOK
  <2> QED
    BY <1>1, <1>2, <2>1 DEF NextOrIdle
<1>3. CASE ~(Len(send_queue) > 1)
  <2>1. send_queue' = <<>>
    <3>1. Len(send_queue) \in Nat
      BY LenProperties DEF TypeOK
    <3>2. Len(send_queue) =< 1
      BY <1>3, <3>1
    <3> QED
      BY <1>1, <3>2, TailOfOne DEF TypeOK
  <2>2. stage' = "idle" /\ ~is_sending'
    BY <1>3, Zenon DEF NextOrIdle
  <2>3. CASE is_closing /\ ~is_closed
    BY <1>3, <2>1, <2>2, <2>3 DEF NextOrIdle, DoClose
  <2>4. CASE is_closed
    <3>1. is_closed' /\ closeCbs' = closeCbs
      BY <1>3, <2>4 DEF NextOrIdle, DoClose
    <3> QED
      BY <2>1, <2>2, <2>4, <3>1
  <2>5. CASE ~is_closing
    BY <1>3, <2>1, <2>2, <2>5 DEF NextOrIdle
  <2> QED
    BY <2>3, <2>4, <2>5
<1> QED
  BY <1>2, <1>3

(* The flags, the chain and the queue stay consistent.                     *)
LEMMA NextControl ==
    ASSUME TypeOK, PostedInv, ControlInv, [Next]_vars
    PROVE  ControlInv'
<1> USE DEF TypeOK, ControlInv, ChainInv, CloseInv, OpenInv
<1>1. CASE CallSend \/ CallClose
  BY <1>1 DEF CallSend, CallClose, Call, flagVars, queueVars, closeHist
<1>2. ASSUME NEW op \in {"startReading", "stopReading"}, CallReading(op)
      PROVE  ControlInv'
  BY <1>2 DEF CallReading, Call, flagVars, queueVars, closeHist
<1>3. ASSUME NEW opens \in BOOLEAN, NEW binds \in BOOLEAN, RunStart(opens, binds)
      PROVE  ControlInv'
  <2>1. ~is_open /\ ~is_sending /\ reads = 0
    BY <1>3, StartComesFirst DEF RunStart
  <2>2. reads' > 0 => is_open'
    BY <1>3, <2>1 DEF RunStart
  <2> QED
    BY <1>3, <2>1, <2>2 DEF RunStart, queueVars, closeHist
<1>4. CASE RunSendDropped
  BY <1>4 DEF RunSendDropped, flagVars, queueVars, closeHist
<1>5. CASE RunSendQueued
  <2>1. Head(posted).dgram \in Nat
    BY <1>5, HeadPosted DEF RunSendQueued, Runs, Handlers
  <2>2. send_queue' # <<>>
    BY <1>5, <2>1, AppendNotEmpty DEF RunSendQueued, Push
  <2>3. is_open /\ ~is_closing /\ ~is_closed
    BY <1>5 DEF RunSendQueued, Writable
  <2>4. is_sending' /\ stage' # "idle"
    BY <1>5, <2>3, Zenon DEF RunSendQueued
  <2> QED
    BY <1>5, <2>2, <2>3, <2>4 DEF RunSendQueued, closeHist
<1>6. CASE RunClose
  BY <1>6 DEF RunClose, NothingToDrain, DoClose, queueVars
<1>7. CASE RunStartReading
  BY <1>7 DEF RunStartReading, DoRead, queueVars, closeHist
<1>8. CASE RunStopReading
  BY <1>8 DEF RunStopReading, queueVars, closeHist
<1>9. CASE ReadDone
  BY <1>9 DEF ReadDone, flagVars, queueVars, closeHist
<1>10. CASE ReadFailed
  BY <1>10 DEF ReadFailed, CloseOnError, DoClose, queueVars
<1>11. CASE ResolveDone
  BY <1>11 DEF ResolveDone, flagVars, queueVars, closeHist
<1>12. CASE ResolveFailed \/ SendDone
  <2>1. stage # "idle" /\ Pop /\ NextOrIdle /\ UNCHANGED <<reads, is_open, is_closing, aborted>>
    BY <1>12 DEF ResolveFailed, SendDone
  <2> QED
    BY <2>1, ControlNextOrIdle
<1>13. CASE SendFailed
  BY <1>13 DEF SendFailed, CloseOnError, DoClose, queueVars
<1>14. CASE UNCHANGED vars
  BY <1>14 DEF vars
<1> QED
  BY <1>1, <1>2, <1>3, <1>4, <1>5, <1>6, <1>7, <1>8, <1>9, <1>10, <1>11, <1>12,
     <1>13, <1>14 DEF Next, RunPosted, SendCompletes

-----------------------------------------------------------------------------
(* The queue.                                                              *)

(* A datagram queued goes to the end, one done with leaves from the front. *)
LEMMA NextKeeps ==
    ASSUME TypeOK, ChainInv, KeepsDatagrams, [Next]_vars
    PROVE  KeepsDatagrams'
<1>1. CASE UNCHANGED queueVars
  BY <1>1 DEF KeepsDatagrams, queueVars
<1>2. CASE RunSendQueued
  <2> DEFINE d == Head(posted).dgram
  <2>1. /\ send_queue' = Append(send_queue, d) /\ accepted' = Append(accepted, d)
        /\ handled' = handled
    BY <1>2 DEF RunSendQueued, Push
  <2>2. d \in Nat
    BY <1>2, HeadPosted DEF RunSendQueued, Runs, Handlers
  <2>3. handled \o Append(send_queue, d) = Append(handled \o send_queue, d)
    <3> HIDE DEF d
    <3> QED
      BY <2>2, AppendAfterConcat DEF TypeOK
  <2> QED
    BY <2>1, <2>3, Zenon DEF KeepsDatagrams
<1>3. CASE ResolveFailed \/ SendDone
  <2>1. send_queue # <<>> /\ Pop
    BY <1>3 DEF ResolveFailed, SendDone, ChainInv
  <2>2. handled' \o send_queue' = handled \o send_queue /\ accepted' = accepted
    BY <2>1, MoveHead DEF Pop, TypeOK
  <2> QED
    BY <2>2 DEF KeepsDatagrams
<1>4. CASE CallSend \/ CallClose \/ \E op \in {"startReading", "stopReading"} : CallReading(op)
  BY <1>1, <1>4 DEF CallSend, CallClose, CallReading, Call
<1>5. CASE (\E opens, binds \in BOOLEAN : RunStart(opens, binds)) \/ RunSendDropped
           \/ RunClose \/ RunStartReading \/ RunStopReading
  BY <1>1, <1>5 DEF RunStart, RunSendDropped, RunClose, RunStartReading, RunStopReading
<1>6. CASE ReadDone \/ ReadFailed \/ ResolveDone \/ SendFailed
  BY <1>1, <1>6 DEF ReadDone, ReadFailed, ResolveDone, SendFailed
<1>7. CASE UNCHANGED vars
  BY <1>1, <1>7 DEF vars, queueVars
<1> QED
  BY <1>2, <1>3, <1>4, <1>5, <1>6, <1>7 DEF Next, RunPosted, SendCompletes

-----------------------------------------------------------------------------
(* The theorems.                                                           *)

(* IInv holds of every behaviour: of Init, and of every handler and        *)
(* completion.                                                             *)
THEOREM Invariance == Spec => []IInv
<1>1. Init => IInv
  <2>1. Init => KeepsDatagrams
    BY ConcatEmptySeq DEF Init, KeepsDatagrams
  <2> QED
    BY <2>1, InitTypeOK, InitControl, InitPosted DEF IInv, ControlInv
<1>2. IInv /\ [Next]_vars => IInv'
  BY NextTypeOK, NextControl, NextPosted, NextKeeps DEF IInv, ControlInv
<1> QED
  BY <1>1, <1>2, PTL DEF Spec

(* do_send_next is never run on an empty queue, and a datagram queued on   *)
(* an open socket always has the chain of completions at work.             *)
THEOREM ChainFollowsQueueHolds == Spec => []ChainFollowsQueue
<1>1. IInv => ChainFollowsQueue
  BY DEF IInv, ChainInv, ChainFollowsQueue
<1> QED
  BY <1>1, Invariance, PTL

(* close_callback_ runs once, and exactly when the object becomes closed,  *)
(* whichever of close() and the three completions closed it.               *)
THEOREM CloseCallbackOnceHolds == Spec => []CloseCallbackOnce
<1>1. IInv => CloseCallbackOnce
  BY DEF IInv, CloseInv, CloseCallbackOnce
<1> QED
  BY <1>1, Invariance, PTL

-----------------------------------------------------------------------------
(* The refinement.                                                         *)

(* A step that leaves the mapped variables alone is a stutter of the pipe. *)
LEMMA PipeStutter ==
    ASSUME UNCHANGED <<is_closed, aborted, is_closing, is_open>>,
           UNCHANGED <<send_queue, handled>>
    PROVE  UNCHANGED Pipe!pipeVars
BY DEF Pipe!pipeVars, pipeStatus

(* A new object is an unopened pipe.                                       *)
LEMMA PipeInitially == Init => Pipe!PipeInit
<1> SUFFICES ASSUME Init PROVE Pipe!PipeInit
  OBVIOUS
<1>1. ~is_closed /\ ~is_closing /\ ~is_open
  BY Zenon DEF Init
<1>2. pipeStatus = "unopened"
  BY <1>1 DEF pipeStatus
<1> QED
  BY <1>2 DEF Init, Pipe!PipeInit

(* A datagram that is done with is delivered, and the last one of a        *)
(* closing object closes it in the same step.                              *)
LEMMA PipeDelivers ==
    ASSUME TypeOK, ControlInv, stage # "idle", Pop, NextOrIdle,
           UNCHANGED <<is_open, is_closing, aborted>>
    PROVE  Pipe!Deliver \/ Pipe!DeliverAndClose
<1>1. send_queue # <<>> /\ is_open
  BY DEF ControlInv, ChainInv, OpenInv
<1>2. pipeStatus \in {"open", "closing", "failed"}
  BY <1>1 DEF pipeStatus, ControlInv, CloseInv
<1>3. CASE Len(send_queue) > 1 \/ ~is_closing \/ is_closed
  <2>1. is_closed' = is_closed
    <3>1. is_closed \in BOOLEAN
      BY DEF TypeOK
    <3> QED
      BY <1>3, <3>1, Zenon DEF NextOrIdle, DoClose
  <2>2. pipeStatus' = pipeStatus
    BY <2>1 DEF pipeStatus
  <2> QED
    BY <1>1, <1>2, <2>2 DEF Pop, Pipe!Deliver
<1>4. CASE ~(Len(send_queue) > 1) /\ is_closing /\ ~is_closed
  <2>1. Len(send_queue) = 1 /\ Tail(send_queue) = <<>>
    <3>1. Len(send_queue) \in Nat
      BY LenProperties DEF TypeOK
    <3>2. Len(send_queue) =< 1
      BY <1>4, <3>1
    <3> QED
      BY <1>1, <3>2, TailOfOne DEF TypeOK
  <2>2. pipeStatus = "closing"
    BY <1>4 DEF pipeStatus
  <2>3. is_closed' /\ ~aborted'
    BY <1>4 DEF NextOrIdle, DoClose, ControlInv, CloseInv
  <2>4. pipeStatus' = "closed"
    BY <2>3 DEF pipeStatus
  <2> QED
    BY <2>1, <2>2, <2>4 DEF Pop, Pipe!DeliverAndClose
<1> QED
  BY <1>3, <1>4

(* An error fails the pipe of an open object, and means nothing to a       *)
(* closed one.                                                             *)
LEMMA PipeFails ==
    ASSUME TypeOK, ControlInv, is_open, CloseOnError, UNCHANGED <<is_open, queueVars>>
    PROVE  Pipe!Fail \/ UNCHANGED Pipe!pipeVars
<1>1. CASE is_closed
  <2>1. is_closed \in BOOLEAN /\ is_closing \in BOOLEAN /\ aborted \in BOOLEAN
    BY DEF TypeOK
  <2>2. is_closed' = is_closed /\ is_closing' = is_closing /\ aborted' = aborted
    BY <1>1, <2>1, Zenon DEF CloseOnError, DoClose, ControlInv, CloseInv
  <2> QED
    BY <2>2, PipeStutter DEF queueVars
<1>2. CASE ~is_closed
  <2>1. pipeStatus \in {"open", "closing"}
    BY <1>2 DEF pipeStatus
  <2>2. is_closed' /\ aborted'
    BY <1>2 DEF CloseOnError, DoClose
  <2>3. pipeStatus' = "failed"
    BY <2>2 DEF pipeStatus
  <2> QED
    BY <2>1, <2>3 DEF queueVars, Pipe!Fail
<1> QED
  BY <1>1, <1>2

(* Every handler and completion is a step of the pipe, or none.            *)
LEMMA PipeStep ==
    ASSUME IInv, [Next]_vars
    PROVE  [Pipe!PipeNext]_(Pipe!pipeVars)
<1> USE DEF IInv
<1>0. ControlInv
  BY DEF ControlInv
<1>1. CASE CallSend \/ CallClose
  BY <1>1, PipeStutter DEF CallSend, CallClose, Call, flagVars, queueVars, closeHist
<1>2. ASSUME NEW op \in {"startReading", "stopReading"}, CallReading(op)
      PROVE  [Pipe!PipeNext]_(Pipe!pipeVars)
  BY <1>2, PipeStutter DEF CallReading, Call, flagVars, queueVars, closeHist
<1>3. ASSUME NEW opens \in BOOLEAN, NEW binds \in BOOLEAN, RunStart(opens, binds)
      PROVE  [Pipe!PipeNext]_(Pipe!pipeVars)
  <2>1. ~is_open /\ ~is_closing /\ ~is_closed
    BY <1>3, StartComesFirst DEF RunStart
  <2>2. ~is_closing' /\ ~is_closed'
    BY <1>3, <2>1 DEF RunStart
  <2>3. pipeStatus = "unopened" /\ pipeStatus' \in {"unopened", "open"}
    BY <2>1, <2>2 DEF pipeStatus
  <2>4. UNCHANGED <<send_queue, handled>>
    BY <1>3 DEF RunStart, queueVars
  <2> QED
    BY <2>3, <2>4 DEF Pipe!PipeNext, Pipe!Open, Pipe!pipeVars
<1>4. CASE RunSendDropped
  BY <1>4, PipeStutter DEF RunSendDropped, flagVars, queueVars, closeHist
<1>5. CASE RunSendQueued
  <2>1. posted[1].op = "send" /\ 1 \in 1..Len(posted) /\ Head(posted) = posted[1]
    BY <1>5, HeadPosted DEF RunSendQueued, Runs
  <2>2. Head(posted).dgram \in 1..MaxSends
    BY <2>1 DEF PostedInv
  <2>3. pipeStatus = "open" /\ pipeStatus' = "open"
    BY <1>5 DEF RunSendQueued, Writable, closeHist, pipeStatus
  <2>4. Pipe!Accept(Head(posted).dgram)
    BY <1>5, <2>3 DEF RunSendQueued, Push, Pipe!Accept
  <2> QED
    BY <2>2, <2>4 DEF Pipe!PipeNext
<1>6. CASE RunClose
  <2>1. CASE is_closing
    <3>1. is_closing \in BOOLEAN
      BY DEF TypeOK
    <3>2. UNCHANGED <<is_closed, is_closing, aborted, is_open, send_queue, handled>>
      BY <1>6, <2>1, <3>1, Zenon DEF RunClose, queueVars
    <3> QED
      BY <3>2, PipeStutter
  <2>2. CASE ~is_closing /\ NothingToDrain
    <3>1. ~is_closed /\ ~aborted /\ send_queue = <<>>
      BY <2>2 DEF CloseInv, ChainInv, OpenInv, NothingToDrain
    <3>2. pipeStatus \in {"unopened", "open"}
      BY <2>2, <3>1 DEF pipeStatus
    <3>3. is_closed' /\ ~aborted'
      BY <1>6, <2>2, <3>1 DEF RunClose, DoClose
    <3>4. pipeStatus' = "closed"
      BY <3>3 DEF pipeStatus
    <3>5. Pipe!CloseIdle
      BY <1>6, <3>1, <3>2, <3>4 DEF RunClose, queueVars, Pipe!CloseIdle
    <3> QED
      BY <3>5 DEF Pipe!PipeNext
  <2>3. CASE ~is_closing /\ ~NothingToDrain
    <3>1. ~is_closed /\ is_open /\ send_queue # <<>>
      BY <2>3 DEF CloseInv, ChainInv, OpenInv, NothingToDrain
    <3>2. is_closing' /\ ~is_closed' /\ is_open'
      BY <1>6, <2>3, <3>1 DEF RunClose
    <3>3. pipeStatus = "open" /\ pipeStatus' = "closing"
      BY <2>3, <3>1, <3>2 DEF pipeStatus
    <3>4. Pipe!RequestClose
      BY <1>6, <3>1, <3>3 DEF RunClose, queueVars, Pipe!RequestClose
    <3> QED
      BY <3>4 DEF Pipe!PipeNext
  <2> QED
    BY <2>1, <2>2, <2>3
<1>7. CASE RunStartReading \/ RunStopReading
  BY <1>7, PipeStutter DEF RunStartReading, RunStopReading, queueVars, closeHist
<1>8. CASE ReadDone \/ ResolveDone
  BY <1>8, PipeStutter DEF ReadDone, ResolveDone, flagVars, queueVars, closeHist
<1>9. CASE ReadFailed
  BY <1>0, <1>9, PipeFails DEF ReadFailed, OpenInv, Pipe!PipeNext
<1>10. CASE ResolveFailed \/ SendDone
  <2>1. Pipe!Deliver \/ Pipe!DeliverAndClose
    BY <1>0, <1>10, PipeDelivers DEF ResolveFailed, SendDone
  <2> QED
    BY <2>1 DEF Pipe!PipeNext
<1>11. CASE SendFailed
  <2>1. is_open
    BY <1>11 DEF SendFailed, ChainInv, OpenInv
  <2> QED
    BY <1>0, <1>11, <2>1, PipeFails DEF SendFailed, Pipe!PipeNext
<1>12. CASE UNCHANGED vars
  BY <1>12, PipeStutter DEF vars
<1> QED
  BY <1>1, <1>2, <1>3, <1>4, <1>5, <1>6, <1>7, <1>8, <1>9, <1>10, <1>11, <1>12
     DEF Next, RunPosted, SendCompletes

(* UdpSocket implements the draining pipe: no completion skips or repeats  *)
(* a datagram, and an orderly close waits for the last of them.            *)
THEOREM Refinement == Spec => ImplementsPipe
<1>1. IInv /\ [Next]_vars => [Pipe!PipeNext]_(Pipe!pipeVars)
  BY PipeStep
<1> QED
  BY <1>1, PipeInitially, Invariance, PTL DEF Spec, ImplementsPipe, Pipe!PipeSpec
=============================================================================
