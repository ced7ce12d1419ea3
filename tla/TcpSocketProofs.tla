-------------------------- MODULE TcpSocketProofs --------------------------
(***************************************************************************)
(* Proofs about TcpSocket, for every number of calls and every pair of     *)
(* water marks.  IInv collects what the handlers rely on without saying    *)
(* so: how is_sending_, the queue and the write in flight go together, and *)
(* in which order the buffers still posted will arrive.                    *)
(***************************************************************************)
EXTENDS TcpSocketRefines, SequenceTheorems, TLAPS

(* The flags, the write in flight and the queue.                           *)
WriteInv ==
    /\ writing => (is_sending /\ write_queue # <<>>)
    /\ (is_sending /\ ~is_closed) => writing
    /\ write_queue # <<>> => is_sending

(* The stages of closing.                                                  *)
CloseInv ==
    /\ is_closed => is_closing
    /\ aborted => is_closed
    /\ (is_closing /\ ~is_closed) => is_sending
    /\ (is_closed /\ ~aborted) => write_queue = <<>>
    /\ closeCbs = (IF is_closed THEN 1 ELSE 0)

(* The connection and the descriptor.                                      *)
ConnInv ==
    /\ (is_connected /\ ~is_closed) => sock_open
    /\ is_sending => is_connected
    /\ reads > 0 => is_connected
    /\ (kind = "outgoing" /\ dial # "done") => ~is_connected
    /\ ~started => (posted = <<>> /\ dial = "idle")

(* connect() is posted once, before anything else.                         *)
PostedInv ==
    \A i \in 1..Len(posted) :
       posted[i].op = "connect" => (i = 1 /\ kind = "outgoing" /\ dial = "idle")

(* Where each buffer is, in the order of the calls of send().              *)
AcceptedOrder ==
    /\ IsIncreasing(accepted)
    /\ \A i \in 1..Len(accepted) : accepted[i] =< calls["send"]

SendOrder ==
    \A i \in 1..Len(posted) :
       posted[i].op = "send" =>
          /\ posted[i].buf \in 1..calls["send"]
          /\ posted[i].buf =< MaxSends
          /\ \A k \in 1..Len(accepted) : accepted[k] < posted[i].buf
          /\ \A j \in 1..Len(posted) :
                (j < i /\ posted[j].op = "send") => posted[j].buf < posted[i].buf

OrderInv ==
    /\ delivered \o write_queue = accepted
    /\ AcceptedOrder
    /\ SendOrder

IInv ==
    /\ TypeOK
    /\ WriteInv
    /\ CloseInv
    /\ ConnInv
    /\ PostedInv
    /\ OrderInv
    /\ NoReadStall
    /\ WatermarkSilent

-----------------------------------------------------------------------------
(* Facts about sequences the steps below cite.                             *)

(* What has been appended to is not empty (posted, write_queue).           *)
LEMMA AppendNotEmpty ==
    ASSUME NEW S, NEW s \in Seq(S), NEW e \in S
    PROVE  Append(s, e) # <<>>
<1>1. Len(Append(s, e)) = Len(s) + 1 /\ Len(s) \in Nat
  BY AppendProperties, LenProperties
<1> QED
  BY <1>1, EmptySeq

(* A sequence of two or more elements has a tail that is not empty.        *)
LEMMA TailNotEmpty ==
    ASSUME NEW S, NEW s \in Seq(S), Len(s) > 1
    PROVE  s # <<>> /\ Tail(s) # <<>>
<1>1. s # <<>>
  BY EmptySeq
<1>2. Len(Tail(s)) = Len(s) - 1
  BY <1>1, HeadTailProperties, Zenon
<1>3. Len(s) \in Nat
  BY LenProperties
<1>4. \A n \in Nat : n > 1 => n - 1 # 0
  OBVIOUS
<1>5. Len(s) - 1 # 0
  BY <1>3, <1>4, Zenon
<1>6. Len(Tail(s)) # Len(<<>>)
  BY <1>2, <1>5, EmptySeq, Zenon
<1> QED
  BY <1>1, <1>6, Zenon

(* A non-empty sequence of at most one element has an empty tail.          *)
LEMMA TailOfOne ==
    ASSUME NEW S, NEW s \in Seq(S), s # <<>>, Len(s) =< 1
    PROVE  Len(s) = 1 /\ Tail(s) = <<>>
<1>1. Len(s) \in Nat \ {0}
  BY EmptySeq
<1>2. \A n \in Nat \ {0} : n =< 1 => (n = 1 /\ n - 1 = 0)
  OBVIOUS
<1>3. Len(s) = 1 /\ Len(s) - 1 = 0
  BY <1>1, <1>2, Zenon
<1>4. Tail(s) \in Seq(S) /\ Len(Tail(s)) = Len(s) - 1
  BY HeadTailProperties, Zenon
<1>5. Len(Tail(s)) \notin Nat \ {0}
  <2>1. 0 \notin Nat \ {0}
    OBVIOUS
  <2> QED
    BY <1>3, <1>4, <2>1, Zenon
<1>6. Tail(s) = <<>>
  BY <1>4, <1>5, EmptySeq, Zenon
<1> QED
  BY <1>3, <1>6

(* Appending to the second part of a concatenation appends to the whole.   *)
LEMMA AppendAfterConcat ==
    ASSUME NEW S, NEW s \in Seq(S), NEW t \in Seq(S), NEW e \in S
    PROVE  s \o Append(t, e) = Append(s \o t, e)
OBVIOUS

(* Moving the head of the second part to the end of the first.             *)
LEMMA MoveHead ==
    ASSUME NEW S, NEW s \in Seq(S), NEW t \in Seq(S), t # <<>>
    PROVE  Append(s, Head(t)) \o Tail(t) = s \o t
<1>1. Head(t) \in S /\ Tail(t) \in Seq(S) /\ Len(Tail(t)) = Len(t) - 1 /\ Len(t) \in Nat
  BY HeadTailProperties, LenProperties
<1>2. Append(s, Head(t)) \in Seq(S) /\ Len(Append(s, Head(t))) = Len(s) + 1 
  BY <1>1, AppendProperties
<1>3. Head(t) = t[1] /\ \A i \in 1..Len(Tail(t)) : Tail(t)[i] = t[i+1]
  BY HeadTailProperties
<1> DEFINE a == Append(s, Head(t)) \o Tail(t)
           b == s \o t
<1>4. Len(a) = Len(s) + Len(t) /\ Len(b) = Len(s) + Len(t) /\ a \in Seq(S) /\ b \in Seq(S)
  BY <1>1, <1>2, ConcatProperties, LenProperties
<1>5. ASSUME NEW i \in 1..(Len(s) + Len(t)) PROVE a[i] = b[i]
  <2>1. Len(s) \in Nat /\ \A k \in 1..Len(s) : Append(s, Head(t))[k] = s[k] 
    BY <1>1, AppendProperties, LenProperties
  <2>2. Append(s, Head(t))[Len(s)+1] = Head(t)
    BY <1>1, AppendProperties
  <2>3. CASE i =< Len(s)
    BY <1>1, <1>2, <2>1, <2>3, ConcatProperties
  <2>4. CASE i = Len(s) + 1
    BY <1>1, <1>2, <1>3, <2>1, <2>2, <2>4, ConcatProperties
  <2>5. CASE i > Len(s) + 1
    BY <1>1, <1>2, <1>3, <2>1, <2>5, ConcatProperties
  <2> QED BY <2>1, <2>3, <2>4, <2>5, <1>1
<1> QED
  BY <1>4, <1>5, SeqEqual

(* The oldest posted handler.                                              *)
LEMMA HeadPosted ==
    ASSUME TypeOK, posted # <<>>
    PROVE  /\ Head(posted) \in [op : Ops, buf : Nat]
           /\ Head(posted) = posted[1]
           /\ 1 \in 1..Len(posted)
           /\ Len(posted) \in Nat
           /\ Tail(posted) \in Seq([op : Ops, buf : Nat])
           /\ Len(Tail(posted)) = Len(posted) - 1
           /\ \A i \in 1..Len(Tail(posted)) : Tail(posted)[i] = posted[i + 1]
<1>1. posted \in Seq([op : Ops, buf : Nat])
  BY DEF TypeOK
<1>2. Len(posted) \in Nat \ {0}
  BY <1>1, EmptySeq
<1>3. posted # <<>>
  OBVIOUS
<1>4. /\ Head(posted) \in [op : Ops, buf : Nat]
      /\ Tail(posted) \in Seq([op : Ops, buf : Nat])
      /\ Len(Tail(posted)) = Len(posted) - 1
      /\ \A i \in 1..Len(Tail(posted)) : Tail(posted)[i] = posted[i + 1]
  BY <1>1, <1>3, HeadTailProperties, Zenon
<1>5. Head(posted) = posted[1]
  BY <1>1
<1>6. 1 \in 1..Len(posted) /\ Len(posted) \in Nat
  BY <1>2
<1> QED
  BY <1>4, <1>5, <1>6

-----------------------------------------------------------------------------
(* Typing.                                                                 *)

(* The constructors establish the types.                                   *)
LEMMA InitTypeOK == Init => TypeOK
<1> SUFFICES ASSUME Init PROVE TypeOK
  OBVIOUS
<1>1. is_connected \in BOOLEAN /\ sock_open \in BOOLEAN
  BY Zenon DEF Init
<1>2. /\ started \in BOOLEAN /\ writing \in BOOLEAN /\ is_closing \in BOOLEAN
      /\ is_closed \in BOOLEAN /\ is_sending \in BOOLEAN
      /\ is_reading \in BOOLEAN /\ aborted \in BOOLEAN
  BY Zenon DEF Init
<1> QED
  BY <1>1, <1>2 DEF Init, TypeOK

(* Every handler and every call keeps the types.                           *)
LEMMA NextTypeOK ==
    ASSUME TypeOK, WriteInv, [Next]_vars
    PROVE  TypeOK'
<1> USE DEF TypeOK, Ops
<1>1. CASE CallConnect
  BY <1>1 DEF CallConnect, PostOnly, Handler, flagVars, ioVars, queueVars, closeHist
<1>2. CASE CallStart
  BY <1>2 DEF CallStart, PostOnly, Handler, flagVars, ioVars, queueVars, closeHist
<1>3. CASE CallSend
  BY <1>3 DEF CallSend, PostOnly, Handler, flagVars, ioVars, queueVars, closeHist
<1>4. CASE CallClose
  BY <1>4 DEF CallClose, PostOnly, Handler, flagVars, ioVars, queueVars, closeHist
<1>5. ASSUME NEW op \in {"startReading", "stopReading"}, CallReading(op)
      PROVE  TypeOK'
  BY <1>5 DEF CallReading, PostOnly, Handler, flagVars, ioVars, queueVars, closeHist
<1>6. CASE RunConnect
  BY <1>6 DEF RunConnect, Runs, callVars, flagVars, queueVars, closeHist
<1>7. CASE RunStart
  BY <1>7 DEF RunStart, Runs, DoRead, callVars, flagVars, queueVars, closeHist
<1>8. CASE RunSendDropped
  BY <1>8
     DEF RunSendDropped, Runs, Writable, callVars, flagVars, ioVars, queueVars,
         closeHist
<1>9. CASE RunSendQueued
  <2>1. writing' \in BOOLEAN /\ is_sending' \in BOOLEAN
    BY <1>9, Zenon DEF RunSendQueued, DoWrite
  <2>2. Head(posted) \in [op : Ops, buf : Nat]
    BY <1>9, HeadPosted DEF RunSendQueued, Runs
  <2>3. Head(posted).buf \in Nat
    BY <2>2
  <2>4. write_queue' \in Seq(Nat) /\ accepted' \in Seq(Nat)
    BY <1>9, <2>3 DEF RunSendQueued, Push
  <2>5. posted' \in Seq([op : Ops, buf : Nat])
    BY <1>9 DEF RunSendQueued, Runs
  <2> QED
    BY <1>9, <2>1, <2>4, <2>5 DEF RunSendQueued, Runs, callVars, closeHist
<1>10. CASE RunCloseIgnored
  BY <1>10
     DEF RunCloseIgnored, Runs, callVars, flagVars, ioVars, queueVars, closeHist
<1>11. CASE RunCloseNow
  <2>1. is_closing' \in BOOLEAN /\ is_closed' \in BOOLEAN /\ sock_open' \in BOOLEAN
    BY <1>11, Zenon
       DEF RunCloseNow, Runs, NothingToDrain, DoClose, callVars, queueVars
  <2> QED
    BY <1>11, <2>1
       DEF RunCloseNow, Runs, NothingToDrain, DoClose, callVars, queueVars
<1>12. CASE RunCloseLater
  BY <1>12
     DEF RunCloseLater, Runs, NothingToDrain, callVars, ioVars, queueVars, closeHist
<1>13. CASE RunStartReading
  <2>1. is_reading' \in BOOLEAN
    BY <1>13, Zenon
       DEF RunStartReading, Runs, DoRead, callVars, queueVars, closeHist
  <2> QED
    BY <1>13, <2>1 DEF RunStartReading, Runs, DoRead, callVars, queueVars, closeHist
<1>14. CASE RunStopReading
  <2>1. is_reading' \in BOOLEAN
    BY <1>14, Zenon DEF RunStopReading, Runs, callVars, ioVars, queueVars, closeHist
  <2> QED
    BY <1>14, <2>1 DEF RunStopReading, Runs, callVars, ioVars, queueVars, closeHist
<1>15. ASSUME NEW ok \in BOOLEAN, ResolveDone(ok)
      PROVE  TypeOK'
  BY <1>15, ZenonT(30) DEF ResolveDone, callVars, flagVars, queueVars, closeHist
<1>16. ASSUME NEW ok \in BOOLEAN, ConnectDone(ok)
      PROVE  TypeOK'
  <2>1. is_connected' \in BOOLEAN
    BY <1>16, Zenon DEF ConnectDone, DoRead, callVars, queueVars, closeHist
  <2> QED
    BY <1>16, <2>1 DEF ConnectDone, DoRead, callVars, queueVars, closeHist
<1>17. CASE ReadDone
  BY <1>17 DEF ReadDone, callVars, flagVars, queueVars, closeHist
<1>18. CASE ReadFailed
  <2>1. /\ is_closing' \in BOOLEAN /\ is_closed' \in BOOLEAN
        /\ sock_open' \in BOOLEAN /\ aborted' \in BOOLEAN
    BY <1>18, Zenon DEF ReadFailed, CloseOnError, DoClose, callVars, queueVars
  <2> QED
    BY <1>18, <2>1 DEF ReadFailed, CloseOnError, DoClose, callVars, queueVars
<1>19. CASE WriteDoneMore
  BY <1>19 DEF WriteDoneMore, Pop, DoWrite, callVars, flagVars, closeHist
<1>20. CASE WriteDoneLast
  <2>1. /\ writing' \in BOOLEAN /\ is_sending' \in BOOLEAN
        /\ is_closed' \in BOOLEAN /\ sock_open' \in BOOLEAN
    BY <1>20, Zenon DEF WriteDoneLast, CloseIfClosing, DoClose
  <2>2. closeCbs' \in Nat
    BY <1>20 DEF WriteDoneLast, CloseIfClosing, DoClose
  <2>3. write_queue_status' \in {"Safety", "Danger"}
    BY <1>20 DEF WriteDoneLast, WatermarkStatus
  <2>4. write_queue # <<>>
    BY <1>20 DEF WriteDoneLast, WriteInv
  <2>5. write_queue' \in Seq(Nat) /\ delivered' \in Seq(Nat) /\ accepted' \in Seq(Nat)
    BY <1>20, <2>4 DEF WriteDoneLast, Pop
  <2> QED
    BY <1>20, <2>1, <2>2, <2>3, <2>5 DEF WriteDoneLast, callVars
<1>21. CASE WriteFailed
  <2>1. /\ writing' \in BOOLEAN /\ is_closing' \in BOOLEAN /\ is_closed' \in BOOLEAN
        /\ sock_open' \in BOOLEAN /\ aborted' \in BOOLEAN
    BY <1>21, Zenon DEF WriteFailed, CloseOnError, DoClose, callVars, queueVars
  <2> QED
    BY <1>21, <2>1 DEF WriteFailed, CloseOnError, DoClose, callVars, queueVars
<1>22. CASE UNCHANGED vars
  BY <1>22 DEF vars
<1> QED
  BY <1>1, <1>2, <1>3, <1>4, <1>5, <1>6, <1>7, <1>8, <1>9, <1>10, <1>11, <1>12,
     <1>13, <1>14, <1>15, <1>16, <1>17, <1>18, <1>19, <1>20, <1>21, <1>22
     DEF Next, RunPosted, WriteCompletes

-----------------------------------------------------------------------------
(* The posted handlers.                                                    *)

(* Nothing is posted at first.                                             *)
LEMMA InitPosted == Init => PostedInv
BY DEF Init, PostedInv

(* Running the oldest handler, whichever it is, keeps PostedInv.           *)
LEMMA TailPosted ==
    ASSUME TypeOK, PostedInv, posted # <<>>, posted' = Tail(posted),
           UNCHANGED kind, Head(posted).op = "connect" \/ UNCHANGED dial
    PROVE  PostedInv'
<1>1. /\ Len(posted') = Len(posted) - 1
      /\ \A i \in 1..Len(posted') : posted'[i] = posted[i + 1]
  BY HeadPosted
<1>2. Len(posted) \in Nat
  BY HeadPosted
<1>3. \A i \in 1..Len(posted') : i + 1 \in 1..Len(posted) /\ i + 1 # 1
  BY <1>1, <1>2
<1> QED
  BY <1>1, <1>3 DEF PostedInv

(* connect() is never posted again, nor behind another call.               *)
LEMMA NextPosted ==
    ASSUME TypeOK, ConnInv, PostedInv, [Next]_vars
    PROVE  PostedInv'
<1> USE DEF TypeOK, ConnInv, PostedInv
<1>1. CASE CallConnect
  BY <1>1 DEF CallConnect, PostOnly, Handler, flagVars, ioVars, queueVars, closeHist
<1>2. CASE CallStart
  BY <1>2 DEF CallStart, PostOnly, Handler, flagVars, ioVars, queueVars, closeHist
<1>3. CASE CallSend
  BY <1>3 DEF CallSend, PostOnly, Handler, flagVars, ioVars, queueVars, closeHist
<1>4. CASE CallClose
  BY <1>4 DEF CallClose, PostOnly, Handler, flagVars, ioVars, queueVars, closeHist
<1>5. ASSUME NEW op \in {"startReading", "stopReading"}, CallReading(op)
      PROVE  PostedInv'
  BY <1>5 DEF CallReading, PostOnly, Handler, flagVars, ioVars, queueVars, closeHist
<1>6. CASE RunConnect
  <2>1. /\ posted # <<>> /\ posted' = Tail(posted) /\ UNCHANGED kind
        /\ Head(posted).op = "connect" \/ UNCHANGED dial
    BY <1>6 DEF RunConnect, Runs, callVars, ioVars
  <2> QED
    BY <2>1, TailPosted
<1>7. CASE RunStart
  <2>1. /\ posted # <<>> /\ posted' = Tail(posted) /\ UNCHANGED kind
        /\ Head(posted).op = "connect" \/ UNCHANGED dial
    BY <1>7 DEF RunStart, Runs, callVars, ioVars
  <2> QED
    BY <2>1, TailPosted
<1>8. CASE RunSendDropped
  <2>1. /\ posted # <<>> /\ posted' = Tail(posted) /\ UNCHANGED kind
        /\ Head(posted).op = "connect" \/ UNCHANGED dial
    BY <1>8 DEF RunSendDropped, Runs, callVars, ioVars
  <2> QED
    BY <2>1, TailPosted
<1>9. CASE RunSendQueued
  <2>1. /\ posted # <<>> /\ posted' = Tail(posted) /\ UNCHANGED kind
        /\ Head(posted).op = "connect" \/ UNCHANGED dial
    BY <1>9 DEF RunSendQueued, Runs, callVars, ioVars
  <2> QED
    BY <2>1, TailPosted
<1>10. CASE RunCloseIgnored
  <2>1. /\ posted # <<>> /\ posted' = Tail(posted) /\ UNCHANGED kind
        /\ Head(posted).op = "connect" \/ UNCHANGED dial
    BY <1>10 DEF RunCloseIgnored, Runs, callVars, ioVars
  <2> QED
    BY <2>1, TailPosted
<1>11. CASE RunCloseNow
  <2>1. /\ posted # <<>> /\ posted' = Tail(posted) /\ UNCHANGED kind
        /\ Head(posted).op = "connect" \/ UNCHANGED dial
    BY <1>11 DEF RunCloseNow, Runs, callVars, ioVars
  <2> QED
    BY <2>1, TailPosted
<1>12. CASE RunCloseLater
  <2>1. /\ posted # <<>> /\ posted' = Tail(posted) /\ UNCHANGED kind
        /\ Head(posted).op = "connect" \/ UNCHANGED dial
    BY <1>12 DEF RunCloseLater, Runs, callVars, ioVars
  <2> QED
    BY <2>1, TailPosted
<1>13. CASE RunStartReading
  <2>1. /\ posted # <<>> /\ posted' = Tail(posted) /\ UNCHANGED kind
        /\ Head(posted).op = "connect" \/ UNCHANGED dial
    BY <1>13 DEF RunStartReading, Runs, callVars, ioVars
  <2> QED
    BY <2>1, TailPosted
<1>14. CASE RunStopReading
  <2>1. /\ posted # <<>> /\ posted' = Tail(posted) /\ UNCHANGED kind
        /\ Head(posted).op = "connect" \/ UNCHANGED dial
    BY <1>14 DEF RunStopReading, Runs, callVars, ioVars
  <2> QED
    BY <2>1, TailPosted
<1>15. ASSUME NEW ok \in BOOLEAN, ResolveDone(ok)
      PROVE  PostedInv'
  BY <1>15 DEF ResolveDone, callVars, flagVars, queueVars, closeHist
<1>16. ASSUME NEW ok \in BOOLEAN, ConnectDone(ok)
      PROVE  PostedInv'
  BY <1>16 DEF ConnectDone, DoRead, callVars, queueVars, closeHist
<1>17. CASE ReadDone
  BY <1>17 DEF ReadDone, callVars, flagVars, queueVars, closeHist
<1>18. CASE ReadFailed
  BY <1>18 DEF ReadFailed, CloseOnError, DoClose, callVars, queueVars
<1>19. CASE WriteDoneMore
  BY <1>19 DEF WriteDoneMore, Pop, DoWrite, callVars, flagVars, closeHist
<1>20. CASE WriteDoneLast
  BY <1>20
     DEF WriteDoneLast, Pop, CloseIfClosing, DoClose, WatermarkStatus, callVars
<1>21. CASE WriteFailed
  BY <1>21 DEF WriteFailed, CloseOnError, DoClose, callVars, queueVars
<1>22. CASE UNCHANGED vars
  BY <1>22 DEF vars
<1> QED
  BY <1>1, <1>2, <1>3, <1>4, <1>5, <1>6, <1>7, <1>8, <1>9, <1>10, <1>11, <1>12,
     <1>13, <1>14, <1>15, <1>16, <1>17, <1>18, <1>19, <1>20, <1>21, <1>22
     DEF Next, RunPosted, WriteCompletes

-----------------------------------------------------------------------------
(* Control.                                                                *)

ControlInv == WriteInv /\ CloseInv /\ ConnInv

(* The constructors leave the flags consistent.                            *)
LEMMA InitControl == Init => ControlInv
<1> SUFFICES ASSUME Init PROVE ControlInv
  OBVIOUS
<1>1. is_connected => sock_open
  BY Zenon DEF Init
<1>2. kind = "outgoing" => ~is_connected
  BY Zenon DEF Init
<1>3. ~writing /\ ~is_sending /\ ~is_closing /\ ~is_closed /\ ~aborted
  BY Zenon DEF Init
<1>4. write_queue = <<>> /\ posted = <<>> /\ dial = "idle" /\ closeCbs = 0 /\ reads = 0
  BY DEF Init
<1> QED
  BY <1>1, <1>2, <1>3, <1>4 DEF ControlInv, WriteInv, CloseInv, ConnInv

(* The flags, the descriptor and the operations in flight stay consistent. *)
LEMMA NextControl ==
    ASSUME TypeOK, PostedInv, ControlInv, [Next]_vars
    PROVE  ControlInv'
<1> USE DEF TypeOK, ControlInv, WriteInv, CloseInv, ConnInv
<1>1. CASE CallConnect
  BY <1>1 DEF CallConnect, PostOnly, Handler, flagVars, ioVars, queueVars, closeHist
<1>2. CASE CallStart
  BY <1>2 DEF CallStart, PostOnly, Handler, flagVars, ioVars, queueVars, closeHist
<1>3. CASE CallSend
  BY <1>3 DEF CallSend, PostOnly, Handler, flagVars, ioVars, queueVars, closeHist
<1>4. CASE CallClose
  BY <1>4 DEF CallClose, PostOnly, Handler, flagVars, ioVars, queueVars, closeHist
<1>5. ASSUME NEW op \in {"startReading", "stopReading"}, CallReading(op)
      PROVE  ControlInv'
  BY <1>5 DEF CallReading, PostOnly, Handler, flagVars, ioVars, queueVars, closeHist
<1>6. CASE RunConnect
  <2>1. Len(posted) > 0 /\ posted[1].op = "connect"
    BY <1>6 DEF RunConnect, Runs
  <2>2. kind = "outgoing" /\ dial = "idle"
    BY <2>1, LenProperties DEF PostedInv
  <2> QED
    BY <1>6, <2>2 DEF RunConnect, Runs, callVars, flagVars, queueVars, closeHist
<1>7. CASE RunStart
  BY <1>7 DEF RunStart, Runs, DoRead, callVars, flagVars, queueVars, closeHist
<1>8. CASE RunSendDropped
  BY <1>8
     DEF RunSendDropped, Runs, Writable, callVars, flagVars, ioVars, queueVars,
         closeHist
<1>9. CASE RunSendQueued
  <2>1. Head(posted).buf \in Nat
    BY <1>9, HeadPosted DEF RunSendQueued, Runs
  <2>2. write_queue' # <<>>
    BY <1>9, <2>1, AppendNotEmpty DEF RunSendQueued, Push
  <2>3. ~is_closed /\ ~is_closing /\ is_connected /\ sock_open
    BY <1>9 DEF RunSendQueued, Writable
  <2>4. writing'
    BY <1>9, <2>3, Zenon DEF RunSendQueued, DoWrite
  <2>5. is_sending'
    BY <1>9, Zenon DEF RunSendQueued
  <2> QED
    BY <1>9, <2>2, <2>3, <2>4, <2>5 DEF RunSendQueued, Runs, callVars, closeHist
<1>10. CASE RunCloseIgnored
  BY <1>10
     DEF RunCloseIgnored, Runs, callVars, flagVars, ioVars, queueVars, closeHist
<1>11. CASE RunCloseNow
  BY <1>11 DEF RunCloseNow, Runs, NothingToDrain, DoClose, callVars, queueVars
<1>12. CASE RunCloseLater
  BY <1>12
     DEF RunCloseLater, Runs, NothingToDrain, callVars, ioVars, queueVars, closeHist
<1>13. CASE RunStartReading
  BY <1>13 DEF RunStartReading, Runs, DoRead, callVars, queueVars, closeHist
<1>14. CASE RunStopReading
  BY <1>14 DEF RunStopReading, Runs, callVars, ioVars, queueVars, closeHist
<1>15. ASSUME NEW ok \in BOOLEAN, ResolveDone(ok)
      PROVE  ControlInv'
  BY <1>15 DEF ResolveDone, callVars, flagVars, queueVars, closeHist
<1>16. ASSUME NEW ok \in BOOLEAN, ConnectDone(ok)
      PROVE  ControlInv'
  BY <1>16 DEF ConnectDone, DoRead, callVars, queueVars, closeHist
<1>17. CASE ReadDone
  BY <1>17 DEF ReadDone, callVars, flagVars, queueVars, closeHist
<1>18. CASE ReadFailed
  BY <1>18 DEF ReadFailed, CloseOnError, DoClose, callVars, queueVars
<1>19. CASE WriteDoneMore
  <2>1. write_queue' # <<>>
    BY <1>19, TailNotEmpty DEF WriteDoneMore, Pop
  <2>2. is_sending /\ write_queue # <<>>
    BY <1>19, Zenon DEF WriteDoneMore
  <2>3. ~is_closed => writing'
    BY <1>19, <2>2, Zenon DEF WriteDoneMore, DoWrite
  <2>4. aborted \/ ~is_closed
    BY <2>2
  <2> QED
    BY <1>19, <2>1, <2>2, <2>3, <2>4
       DEF WriteDoneMore, callVars, flagVars, closeHist
<1>20. CASE WriteDoneLast
  BY <1>20, SMTT(30)
     DEF WriteDoneLast, Pop, CloseIfClosing, DoClose, WatermarkStatus, callVars
<1>21. CASE WriteFailed
  BY <1>21 DEF WriteFailed, CloseOnError, DoClose, callVars, queueVars
<1>22. CASE UNCHANGED vars
  BY <1>22 DEF vars
<1> QED
  BY <1>1, <1>2, <1>3, <1>4, <1>5, <1>6, <1>7, <1>8, <1>9, <1>10, <1>11, <1>12,
     <1>13, <1>14, <1>15, <1>16, <1>17, <1>18, <1>19, <1>20, <1>21, <1>22
     DEF Next, RunPosted, WriteCompletes

-----------------------------------------------------------------------------
(* The order of the buffers.                                               *)

(* No buffer has been handed over at first.                                *)
LEMMA InitOrder == Init => OrderInv
BY DEF Init, OrderInv, AcceptedOrder, SendOrder, IsIncreasing

(* A call that posts anything but a send does not disturb the order.       *)
LEMMA OrderPostOther ==
    ASSUME TypeOK, OrderInv, NEW h \in [op : Ops, buf : Nat], h.op # "send",
           posted' = Append(posted, h), calls'["send"] = calls["send"],
           UNCHANGED queueVars
    PROVE  OrderInv'
<1>1. /\ Len(posted') = Len(posted) + 1 /\ Len(posted) \in Nat
      /\ \A i \in 1..Len(posted) : posted'[i] = posted[i]
      /\ posted'[Len(posted) + 1] = h
  BY AppendProperties, LenProperties DEF TypeOK
<1>2. \A i \in 1..Len(posted') : posted'[i].op = "send" =>
         i \in 1..Len(posted) /\ posted'[i] = posted[i]
  BY <1>1
<1>3. UNCHANGED <<accepted, delivered, write_queue>>
  BY DEF queueVars
<1>4. SendOrder'
  <2> SUFFICES ASSUME NEW i \in 1..Len(posted'), posted'[i].op = "send"
               PROVE  /\ posted'[i].buf \in 1..calls'["send"]
                      /\ posted'[i].buf =< MaxSends
                      /\ \A k \in 1..Len(accepted') : accepted'[k] < posted'[i].buf
                      /\ \A j \in 1..Len(posted') :
                            (j < i /\ posted'[j].op = "send") =>
                               posted'[j].buf < posted'[i].buf
    BY DEF SendOrder
  <2>1. i \in 1..Len(posted) /\ posted'[i] = posted[i]
    BY <1>2
  <2> QED
    BY <1>2, <1>3, <2>1 DEF OrderInv, SendOrder
<1> QED
  BY <1>3, <1>4 DEF OrderInv, AcceptedOrder, IsIncreasing

(* Running the oldest handler without queueing keeps the order.            *)
LEMMA OrderTail ==
    ASSUME TypeOK, OrderInv, posted # <<>>, posted' = Tail(posted),
           UNCHANGED <<calls, accepted, delivered, write_queue>>
    PROVE  OrderInv'
<1>1. /\ Len(posted') = Len(posted) - 1 /\ Len(posted) \in Nat
      /\ \A i \in 1..Len(posted') : posted'[i] = posted[i + 1]
  BY HeadPosted
<1>2. \A i \in 1..Len(posted') : i + 1 \in 1..Len(posted)
  BY <1>1
<1>3. \A i, j \in 1..Len(posted') : j < i => j + 1 < i + 1
  BY <1>1
<1>4. SendOrder'
  BY <1>1, <1>2, <1>3 DEF OrderInv, SendOrder
<1> QED
  BY <1>4 DEF OrderInv, AcceptedOrder, IsIncreasing

(* A successful write moves the head of the queue to the delivered ones.   *)
LEMMA OrderPop ==
    ASSUME TypeOK, WriteInv, OrderInv, writing, Pop, UNCHANGED <<calls, posted>>
    PROVE  OrderInv'
<1>1. write_queue # <<>>
  BY DEF WriteInv
<1>2. delivered' \o write_queue' = delivered \o write_queue
  BY <1>1, MoveHead DEF Pop, TypeOK
<1> QED
  BY <1>2 DEF Pop, OrderInv, AcceptedOrder, SendOrder, IsIncreasing

(* No handler drops, duplicates or reorders a buffer.                      *)
LEMMA NextOrder ==
    ASSUME TypeOK, WriteInv, OrderInv, [Next]_vars
    PROVE  OrderInv'
<1>1. CASE CallConnect
  BY <1>1, OrderPostOther, Handler("connect", 0) \in [op : Ops, buf : Nat]
     DEF CallConnect, PostOnly, Handler, Ops, TypeOK
<1>2. CASE CallStart
  BY <1>2, OrderPostOther, Handler("start", 0) \in [op : Ops, buf : Nat]
     DEF CallStart, PostOnly, Handler, Ops, TypeOK
<1>3. CASE CallSend
  <2> DEFINE n == calls["send"]
  <2>1. n \in Nat /\ calls'["send"] = n + 1 /\ n < MaxSends
    BY <1>3 DEF CallSend, TypeOK
  <2>2. Handler("send", n + 1) \in [op : Ops, buf : Nat]
    BY <2>1 DEF Handler, Ops
  <2>3. posted' = Append(posted, Handler("send", n + 1))
    BY <1>3 DEF CallSend, PostOnly
  <2>4. /\ Len(posted') = Len(posted) + 1 /\ Len(posted) \in Nat
        /\ \A i \in 1..Len(posted) : posted'[i] = posted[i]
        /\ posted'[Len(posted) + 1] = Handler("send", n + 1)
    BY <2>2, <2>3, AppendProperties, LenProperties DEF TypeOK
  <2>5. UNCHANGED <<accepted, delivered, write_queue>>
    BY <1>3 DEF CallSend, PostOnly, queueVars
  <2>6. \A k \in 1..Len(accepted) : accepted[k] \in Nat /\ accepted[k] < n + 1
    BY <2>1, ElementOfSeq DEF OrderInv, AcceptedOrder, TypeOK
  <2>7. \A j \in 1..Len(posted) : posted[j].op = "send" =>
           posted[j].buf \in 1..n
    BY DEF OrderInv, SendOrder
  <2>8. SendOrder'
    <3> SUFFICES ASSUME NEW i \in 1..Len(posted'), posted'[i].op = "send"
                 PROVE  /\ posted'[i].buf \in 1..calls'["send"]
                        /\ posted'[i].buf =< MaxSends
                        /\ \A k \in 1..Len(accepted') : accepted'[k] < posted'[i].buf
                        /\ \A j \in 1..Len(posted') :
                              (j < i /\ posted'[j].op = "send") =>
                                 posted'[j].buf < posted'[i].buf
      BY DEF SendOrder
    <3>1. CASE i \in 1..Len(posted)
      <4>1. posted'[i] = posted[i] /\ \A j \in 1..Len(posted') : j < i =>
               j \in 1..Len(posted) /\ posted'[j] = posted[j]
        BY <2>4, <3>1
      <4> QED
        BY <2>1, <2>5, <3>1, <4>1, SMTT(30) DEF OrderInv, SendOrder
    <3>2. CASE i = Len(posted) + 1
      <4>1. posted'[i].buf = n + 1
        BY <2>4, <3>2 DEF Handler
      <4>2. \A j \in 1..Len(posted') : j < i =>
               j \in 1..Len(posted) /\ posted'[j] = posted[j]
        BY <2>4, <3>2
      <4>3. n + 1 \in 1..(n + 1) /\ n + 1 =< MaxSends
        BY <2>1, CallBoundsAreNat
      <4>4. \A j \in 1..Len(posted') :
               (j < i /\ posted'[j].op = "send") => posted'[j].buf < n + 1
        <5> SUFFICES ASSUME NEW j \in 1..Len(posted'), j < i, posted'[j].op = "send"
                     PROVE  posted'[j].buf < n + 1
          OBVIOUS
        <5>1. posted'[j].buf \in 1..n
          BY <2>7, <4>2
        <5> QED
          BY <2>1, <5>1
      <4> QED
        BY <2>1, <2>5, <2>6, <4>1, <4>3, <4>4
    <3> QED
      BY <2>4, <3>1, <3>2
  <2>9. AcceptedOrder'
    BY <2>1, <2>5, <2>6 DEF OrderInv, AcceptedOrder, IsIncreasing
  <2> QED
    BY <2>5, <2>8, <2>9 DEF OrderInv
<1>4. CASE CallClose
  BY <1>4, OrderPostOther, Handler("close", 0) \in [op : Ops, buf : Nat]
     DEF CallClose, PostOnly, Handler, Ops, TypeOK
<1>5. ASSUME NEW op \in {"startReading", "stopReading"}, CallReading(op)
      PROVE  OrderInv'
  BY <1>5, OrderPostOther, Handler(op, 0) \in [op : Ops, buf : Nat]
     DEF CallReading, PostOnly, Handler, Ops, TypeOK
<1>6. CASE RunConnect
  BY <1>6, OrderTail DEF RunConnect, Runs, callVars, queueVars
<1>7. CASE RunStart
  BY <1>7, OrderTail DEF RunStart, Runs, callVars, queueVars
<1>8. CASE RunSendDropped
  BY <1>8, OrderTail DEF RunSendDropped, Runs, callVars, queueVars
<1>9. CASE RunSendQueued
  <2> DEFINE b == Head(posted).buf
  <2>1. /\ posted # <<>> /\ posted' = Tail(posted) /\ Head(posted).op = "send"
        /\ UNCHANGED <<calls, delivered>>
        /\ write_queue' = Append(write_queue, b)
        /\ accepted' = Append(accepted, b)
    BY <1>9 DEF RunSendQueued, Runs, Push, callVars
  <2>2. /\ Head(posted) = posted[1] /\ 1 \in 1..Len(posted) /\ b \in Nat
    BY <2>1, HeadPosted
  <2>3. /\ b \in 1..calls["send"] /\ b =< MaxSends
        /\ \A k \in 1..Len(accepted) : accepted[k] < b
    BY <2>1, <2>2 DEF OrderInv, SendOrder
  <2>4. /\ Len(accepted') = Len(accepted) + 1 /\ Len(accepted) \in Nat
        /\ \A k \in 1..Len(accepted) : accepted'[k] = accepted[k]
        /\ accepted'[Len(accepted) + 1] = b
    BY <2>1, <2>2, AppendProperties, LenProperties DEF TypeOK
  <2>5. delivered' \o write_queue' = accepted'
    <3>1. delivered \in Seq(Nat) /\ write_queue \in Seq(Nat)
      BY DEF TypeOK
    <3>2. delivered \o Append(write_queue, b) = Append(delivered \o write_queue, b)
      <4>1. b \in Nat
        BY <2>2
      <4> HIDE DEF b
      <4> QED
        BY <3>1, <4>1, AppendAfterConcat, SMTT(30)
    <3> QED
      BY <2>1, <3>2, Zenon DEF OrderInv
  <2>6. AcceptedOrder'
    <3>1. \A i, j \in 1..Len(accepted') : i < j =>
             i \in 1..Len(accepted) /\ (j \in 1..Len(accepted) \/ j = Len(accepted) + 1)
      BY <2>4
    <3>2. IsIncreasing(accepted')
      BY <2>3, <2>4, <3>1 DEF OrderInv, AcceptedOrder, IsIncreasing
    <3>3. \A i \in 1..Len(accepted') : i \in 1..Len(accepted) \/ i = Len(accepted) + 1
      BY <2>4
    <3>4. \A i \in 1..Len(accepted') : accepted'[i] =< calls'["send"]
      BY <2>1, <2>3, <2>4, <3>3 DEF OrderInv, AcceptedOrder
    <3> QED
      BY <3>2, <3>4 DEF AcceptedOrder
  <2>7. /\ Len(posted') = Len(posted) - 1 /\ Len(posted) \in Nat
        /\ \A i \in 1..Len(posted') : posted'[i] = posted[i + 1]
    BY <2>1, HeadPosted
  <2>8. \A i \in 1..Len(posted') : i + 1 \in 1..Len(posted) /\ 1 < i + 1
    BY <2>7
  <2>9. \A i, j \in 1..Len(posted') : j < i => j + 1 < i + 1
    BY <2>7
  <2>10. \A i \in 1..Len(posted') : posted'[i].op = "send" => b < posted'[i].buf
    BY <2>1, <2>2, <2>7, <2>8 DEF OrderInv, SendOrder
  <2>11. \A k \in 1..Len(accepted') : k \in 1..Len(accepted) \/ k = Len(accepted) + 1
    BY <2>4
  <2>12. SendOrder'
    BY <2>1, <2>4, <2>7, <2>8, <2>9, <2>10, <2>11 DEF OrderInv, SendOrder
  <2> QED
    BY <2>5, <2>6, <2>12 DEF OrderInv
<1>10. CASE RunCloseIgnored
  BY <1>10, OrderTail DEF RunCloseIgnored, Runs, callVars, queueVars
<1>11. CASE RunCloseNow
  BY <1>11, OrderTail DEF RunCloseNow, Runs, callVars, queueVars
<1>12. CASE RunCloseLater
  BY <1>12, OrderTail DEF RunCloseLater, Runs, callVars, queueVars
<1>13. CASE RunStartReading
  BY <1>13, OrderTail DEF RunStartReading, Runs, callVars, queueVars
<1>14. CASE RunStopReading
  BY <1>14, OrderTail DEF RunStopReading, Runs, callVars, queueVars
<1>15. ASSUME NEW ok \in BOOLEAN, ResolveDone(ok)
      PROVE  OrderInv'
  BY <1>15
     DEF ResolveDone, callVars, queueVars, OrderInv, AcceptedOrder, SendOrder,
         IsIncreasing
<1>16. ASSUME NEW ok \in BOOLEAN, ConnectDone(ok)
      PROVE  OrderInv'
  BY <1>16
     DEF ConnectDone, callVars, queueVars, OrderInv, AcceptedOrder, SendOrder,
         IsIncreasing
<1>17. CASE ReadDone
  BY <1>17
     DEF ReadDone, callVars, queueVars, OrderInv, AcceptedOrder, SendOrder,
         IsIncreasing
<1>18. CASE ReadFailed
  BY <1>18
     DEF ReadFailed, callVars, queueVars, OrderInv, AcceptedOrder, SendOrder,
         IsIncreasing
<1>19. CASE WriteDoneMore
  BY <1>19, OrderPop DEF WriteDoneMore, callVars
<1>20. CASE WriteDoneLast
  BY <1>20, OrderPop DEF WriteDoneLast, callVars
<1>21. CASE WriteFailed
  BY <1>21
     DEF WriteFailed, callVars, queueVars, OrderInv, AcceptedOrder, SendOrder,
         IsIncreasing
<1>22. CASE UNCHANGED vars
  BY <1>22 DEF vars, OrderInv, AcceptedOrder, SendOrder, IsIncreasing
<1> QED
  BY <1>1, <1>2, <1>3, <1>4, <1>5, <1>6, <1>7, <1>8, <1>9, <1>10, <1>11, <1>12,
     <1>13, <1>14, <1>15, <1>16, <1>17, <1>18, <1>19, <1>20, <1>21, <1>22
     DEF Next, RunPosted, WriteCompletes

-----------------------------------------------------------------------------
(* Reading and the water marks.                                            *)

(* At first start() has not run and the status is Safety.                  *)
LEMMA InitReading == Init => NoReadStall /\ WatermarkSilent
BY DEF Init, NoReadStall, WatermarkSilent

(* start() is no longer waiting on the strand.                             *)
StartRan == started /\ \A i \in 1..Len(posted) : posted[i].op # "start"

(* Running a handler other than start() cannot be what made it run.        *)
LEMMA StartRanTail ==
    ASSUME TypeOK, posted # <<>>, Head(posted).op # "start",
           posted' = Tail(posted), UNCHANGED started
    PROVE  StartRan' => StartRan
<1>1. /\ Head(posted) = posted[1] /\ Len(posted) \in Nat
      /\ Len(posted') = Len(posted) - 1
      /\ \A i \in 1..Len(posted') : posted'[i] = posted[i + 1]
  BY HeadPosted
<1>2. \A i \in 1..Len(posted) : i = 1 \/ (i - 1 \in 1..Len(posted') /\ (i - 1) + 1 = i)
  BY <1>1
<1>3. \A i \in 1..Len(posted) : i = 1 \/ posted[i] = posted'[i - 1]
  BY <1>1, <1>2
<1> QED
  BY <1>1, <1>2, <1>3 DEF StartRan

(* Neither can posting a handler.                                          *)
LEMMA StartRanAppend ==
    ASSUME TypeOK, NEW h \in [op : Ops, buf : Nat],
           posted' = Append(posted, h), UNCHANGED started
    PROVE  StartRan' => StartRan
<1>1. /\ Len(posted') = Len(posted) + 1 /\ Len(posted) \in Nat
      /\ \A i \in 1..Len(posted) : posted'[i] = posted[i]
  BY AppendProperties, LenProperties DEF TypeOK
<1> QED
  BY <1>1 DEF StartRan

(* Reading never stalls, and the water marks are never reported.           *)
LEMMA NextReading ==
    ASSUME TypeOK, WriteInv, CloseInv, ConnInv, NoReadStall, WatermarkSilent, [Next]_vars
    PROVE  (NoReadStall /\ WatermarkSilent)'
<1> USE DEF TypeOK, CloseInv, ConnInv, NoReadStall, WatermarkSilent, StartRan
<1>1. CASE CallConnect
  <2>1. ~is_connected'
    BY <1>1 DEF CallConnect, PostOnly, flagVars, ConnInv
  <2> QED
    BY <1>1, <2>1 DEF CallConnect, PostOnly, queueVars
<1>2. CASE CallStart
  <2>1. Handler("start", 0) \in [op : Ops, buf : Nat]
    BY DEF Handler, Ops
  <2>2. ~StartRan'
    BY <1>2, <2>1, AppendProperties, LenProperties
       DEF CallStart, PostOnly, Handler, StartRan, TypeOK
  <2> QED
    BY <1>2, <2>2 DEF CallStart, PostOnly, queueVars
<1>3. CASE CallSend
  <2>1. Handler("send", calls["send"] + 1) \in [op : Ops, buf : Nat]
    BY DEF Handler, Ops, TypeOK
  <2>2. StartRan' => StartRan
    BY <1>3, <2>1, StartRanAppend DEF CallSend, PostOnly, Handler
  <2> QED
    BY <1>3, <2>2 DEF CallSend, PostOnly, flagVars, ioVars, queueVars
<1>4. CASE CallClose
  <2>1. Handler("close", 0) \in [op : Ops, buf : Nat]
    BY DEF Handler, Ops, TypeOK
  <2>2. StartRan' => StartRan
    BY <1>4, <2>1, StartRanAppend DEF CallClose, PostOnly, Handler
  <2> QED
    BY <1>4, <2>2 DEF CallClose, PostOnly, flagVars, ioVars, queueVars
<1>5. ASSUME NEW op \in {"startReading", "stopReading"}, CallReading(op)
      PROVE  (NoReadStall /\ WatermarkSilent)'
  <2>1. Handler(op, 0) \in [op : Ops, buf : Nat]
    BY DEF Handler, Ops, TypeOK
  <2>2. StartRan' => StartRan
    BY <1>5, <2>1, StartRanAppend DEF CallReading, PostOnly, Handler
  <2> QED
    BY <1>5, <2>2 DEF CallReading, PostOnly, flagVars, ioVars, queueVars
<1>6. CASE RunConnect
  <2>1. UNCHANGED started /\ (StartRan' => StartRan)
    BY <1>6, StartRanTail DEF RunConnect, Runs, callVars
  <2> QED
    BY <1>6, <2>1 DEF RunConnect, Runs, callVars, flagVars, queueVars, closeHist
<1>7. CASE RunStart
  BY <1>7 DEF RunStart, Runs, DoRead, callVars, flagVars, queueVars, closeHist
<1>8. CASE RunSendDropped
  <2>1. UNCHANGED started /\ (StartRan' => StartRan)
    BY <1>8, StartRanTail DEF RunSendDropped, Runs, callVars
  <2> QED
    BY <1>8, <2>1
       DEF RunSendDropped, Runs, Writable, callVars, flagVars, ioVars, queueVars,
           closeHist
<1>9. CASE RunSendQueued
  <2>1. UNCHANGED started /\ (StartRan' => StartRan)
    BY <1>9, StartRanTail DEF RunSendQueued, Runs, callVars
  <2> QED
    BY <1>9, <2>1
       DEF RunSendQueued, Runs, Writable, Push, DoWrite, callVars, closeHist
<1>10. CASE RunCloseIgnored
  <2>1. UNCHANGED started /\ (StartRan' => StartRan)
    BY <1>10, StartRanTail DEF RunCloseIgnored, Runs, callVars
  <2> QED
    BY <1>10, <2>1
       DEF RunCloseIgnored, Runs, callVars, flagVars, ioVars, queueVars, closeHist
<1>11. CASE RunCloseNow
  <2>1. UNCHANGED started /\ (StartRan' => StartRan)
    BY <1>11, StartRanTail DEF RunCloseNow, Runs, callVars
  <2> QED
    BY <1>11, <2>1
       DEF RunCloseNow, Runs, NothingToDrain, DoClose, callVars, queueVars
<1>12. CASE RunCloseLater
  <2>1. UNCHANGED started /\ (StartRan' => StartRan)
    BY <1>12, StartRanTail DEF RunCloseLater, Runs, callVars
  <2> QED
    BY <1>12, <2>1
       DEF RunCloseLater, Runs, NothingToDrain, callVars, ioVars, queueVars,
           closeHist
<1>13. CASE RunStartReading
  <2>1. UNCHANGED started /\ (StartRan' => StartRan)
    BY <1>13, StartRanTail DEF RunStartReading, Runs, callVars
  <2> QED
    BY <1>13, <2>1 DEF RunStartReading, Runs, DoRead, callVars, queueVars, closeHist
<1>14. CASE RunStopReading
  <2>1. UNCHANGED started /\ (StartRan' => StartRan)
    BY <1>14, StartRanTail DEF RunStopReading, Runs, callVars
  <2> QED
    BY <1>14, <2>1 DEF RunStopReading, Runs, callVars, ioVars, queueVars, closeHist
<1>15. ASSUME NEW ok \in BOOLEAN, ResolveDone(ok)
      PROVE  (NoReadStall /\ WatermarkSilent)'
  BY <1>15 DEF ResolveDone, callVars, flagVars, queueVars, closeHist
<1>16. ASSUME NEW ok \in BOOLEAN, ConnectDone(ok)
      PROVE  (NoReadStall /\ WatermarkSilent)'
  BY <1>16 DEF ConnectDone, DoRead, callVars, queueVars, closeHist
<1>17. CASE ReadDone
  BY <1>17 DEF ReadDone, callVars, flagVars, queueVars, closeHist
<1>18. CASE ReadFailed
  BY <1>18 DEF ReadFailed, CloseOnError, DoClose, callVars, queueVars
<1>19. CASE WriteDoneMore
  BY <1>19 DEF WriteDoneMore, Pop, DoWrite, callVars, flagVars, closeHist
<1>20. CASE WriteDoneLast
  <2>1. write_queue # <<>> /\ Len(write_queue) =< 1 /\ write_queue \in Seq(Nat)
    BY <1>20 DEF WriteDoneLast, WriteInv
  <2>2. Len(Tail(write_queue)) = Len(write_queue) - 1 /\ Len(write_queue) \in Nat
    BY <2>1, HeadTailProperties, LenProperties
  <2>3. Len(Tail(write_queue)) =< 0
    BY <2>1, <2>2
  <2>4. write_queue_status' = "Safety"
    BY <1>20, <2>3, MarksAreOrdered
       DEF WriteDoneLast, WatermarkStatus, WatermarkSilent
  <2> QED
    BY <1>20, <2>4 DEF WriteDoneLast, callVars
<1>21. CASE WriteFailed
  BY <1>21 DEF WriteFailed, CloseOnError, DoClose, callVars, queueVars
<1>22. CASE UNCHANGED vars
  BY <1>22 DEF vars
<1> QED
  BY <1>1, <1>2, <1>3, <1>4, <1>5, <1>6, <1>7, <1>8, <1>9, <1>10, <1>11, <1>12,
     <1>13, <1>14, <1>15, <1>16, <1>17, <1>18, <1>19, <1>20, <1>21, <1>22
     DEF Next, RunPosted, WriteCompletes

-----------------------------------------------------------------------------
(* The descriptor of a closed object, on top of IInv.                      *)

ReopenInv ==
    /\ dial # "idle" => kind = "outgoing"
    /\ (accepted # <<>> \/ aborted) => is_connected
    /\ OnlyLateResolveReopens

(* No handler reopens the descriptor but the resolver's, and that one runs *)
(* before the connection exists (connect, do_close).                       *)
LEMMA NextReopen ==
    ASSUME IInv, ReopenInv, [Next]_vars
    PROVE  ReopenInv'
<1> USE DEF ReopenInv, OnlyLateResolveReopens
<1>1. CASE CallConnect
  BY <1>1 DEF CallConnect, PostOnly, flagVars, ioVars, queueVars, closeHist
<1>2. CASE CallStart
  BY <1>2 DEF CallStart, PostOnly, flagVars, ioVars, queueVars, closeHist
<1>3. CASE CallSend
  BY <1>3 DEF CallSend, PostOnly, flagVars, ioVars, queueVars, closeHist
<1>4. CASE CallClose
  BY <1>4 DEF CallClose, PostOnly, flagVars, ioVars, queueVars, closeHist
<1>5. ASSUME NEW op \in {"startReading", "stopReading"}, CallReading(op)
      PROVE  ReopenInv'
  BY <1>5 DEF CallReading, PostOnly, flagVars, ioVars, queueVars, closeHist
<1>6. CASE RunConnect
  <2>1. kind = "outgoing"
    <3>1. posted \in Seq([op : Ops, buf : Nat]) /\ posted # <<>>
      BY <1>6 DEF RunConnect, Runs, IInv, TypeOK
    <3>2. 1 \in 1..Len(posted) /\ Head(posted) = posted[1]
      BY <3>1, EmptySeq, HeadTailProperties, LenProperties
    <3> QED
      BY <1>6, <3>2 DEF RunConnect, Runs, IInv, PostedInv
  <2> QED
    BY <1>6, <2>1 DEF RunConnect, Runs, callVars, flagVars, queueVars, closeHist
<1>7. CASE RunStart
  BY <1>7 DEF RunStart, Runs, callVars, flagVars, queueVars, closeHist
<1>8. CASE RunSendDropped
  BY <1>8 DEF RunSendDropped, Runs, callVars, flagVars, ioVars, queueVars, closeHist
<1>9. CASE RunSendQueued
  <2>1. is_connected /\ ~is_closed /\ UNCHANGED <<is_connected, is_closed>>
    BY <1>9 DEF RunSendQueued, Writable
  <2> QED
    BY <1>9, <2>1 DEF RunSendQueued, Runs, callVars, closeHist
<1>10. CASE RunCloseIgnored
  BY <1>10 DEF RunCloseIgnored, Runs, callVars, flagVars, ioVars, queueVars, closeHist
<1>11. CASE RunCloseNow
  BY <1>11 DEF RunCloseNow, Runs, DoClose, callVars, queueVars
<1>12. CASE RunCloseLater
  BY <1>12 DEF RunCloseLater, Runs, callVars, ioVars, queueVars, closeHist
<1>13. CASE RunStartReading
  BY <1>13 DEF RunStartReading, Runs, callVars, queueVars, closeHist
<1>14. CASE RunStopReading
  BY <1>14 DEF RunStopReading, Runs, callVars, ioVars, queueVars, closeHist
<1>15. ASSUME NEW ok \in BOOLEAN, ResolveDone(ok)
       PROVE  ReopenInv'
  <2>1. kind = "outgoing" /\ ~is_connected
    BY <1>15 DEF ResolveDone, IInv, ConnInv
  <2>2. accepted = <<>> /\ ~aborted
    BY <2>1
  <2> QED
    BY <1>15, <2>1, <2>2 DEF ResolveDone, callVars, flagVars, queueVars, closeHist
<1>16. ASSUME NEW ok \in BOOLEAN, ConnectDone(ok)
       PROVE  ReopenInv'
  BY <1>16 DEF ConnectDone, callVars, queueVars, closeHist
<1>17. CASE ReadDone
  BY <1>17 DEF ReadDone, callVars, flagVars, queueVars, closeHist
<1>18. CASE ReadFailed
  BY <1>18 DEF ReadFailed, CloseOnError, DoClose, callVars, queueVars, IInv, ConnInv
<1>19. CASE WriteDoneMore
  BY <1>19 DEF WriteDoneMore, Pop, callVars, flagVars, closeHist
<1>20. CASE WriteDoneLast
  BY <1>20 DEF WriteDoneLast, Pop, CloseIfClosing, DoClose, callVars
<1>21. CASE WriteFailed
  BY <1>21 DEF WriteFailed, CloseOnError, DoClose, callVars, queueVars,
               IInv, ConnInv, WriteInv
<1>22. CASE UNCHANGED vars
  BY <1>22 DEF vars
<1> QED
  BY <1>1, <1>2, <1>3, <1>4, <1>5, <1>6, <1>7, <1>8, <1>9, <1>10, <1>11, <1>12,
     <1>13, <1>14, <1>15, <1>16, <1>17, <1>18, <1>19, <1>20, <1>21, <1>22
     DEF Next, RunPosted, WriteCompletes

-----------------------------------------------------------------------------
(* The theorems.                                                           *)

(* IInv holds of every behaviour: of Init, and of every handler.           *)
THEOREM Invariance == Spec => []IInv
<1>1. Init => IInv
  BY InitTypeOK, InitControl, InitPosted, InitOrder, InitReading
     DEF IInv, ControlInv
<1>2. IInv /\ [Next]_vars => IInv'
  <2> SUFFICES ASSUME IInv, [Next]_vars PROVE IInv'
    OBVIOUS
  <2>1. TypeOK'
    BY NextTypeOK DEF IInv
  <2>2. ControlInv'
    BY NextControl DEF IInv, ControlInv
  <2>3. PostedInv'
    BY NextPosted DEF IInv
  <2>4. OrderInv'
    BY NextOrder DEF IInv
  <2>5. (NoReadStall /\ WatermarkSilent)'
    BY NextReading DEF IInv
  <2> QED
    BY <2>1, <2>2, <2>3, <2>4, <2>5 DEF IInv, ControlInv
<1> QED
  BY <1>1, <1>2, PTL DEF Spec

(* Every variable keeps its type, in particular the count of reads in      *)
(* flight never goes below zero.                                           *)
THEOREM TypeCorrectness == Spec => []TypeOK
<1>1. IInv => TypeOK
  BY DEF IInv
<1> QED
  BY <1>1, Invariance, PTL

(* No buffer that send() accepted is lost, duplicated or reordered inside  *)
(* the object, however many threads call send().                           *)
THEOREM ConservationHolds == Spec => []Conservation
<1>1. IInv => Conservation
  BY DEF IInv, OrderInv, AcceptedOrder, Conservation
<1> QED
  BY <1>1, Invariance, PTL

(* A queue that is not empty always has a write in flight.                 *)
THEOREM NoStallHolds == Spec => []NoStall
<1>1. IInv => NoStall
  BY DEF IInv, WriteInv, NoStall
<1> QED
  BY <1>1, Invariance, PTL

(* An orderly close leaves nothing undelivered.                            *)
THEOREM DrainBeforeCloseHolds == Spec => []DrainBeforeClose
<1>1. IInv => DrainBeforeClose
  <2> SUFFICES ASSUME IInv, is_closed, ~aborted PROVE delivered = accepted
    BY DEF DrainBeforeClose
  <2>1. write_queue = <<>> /\ delivered \in Seq(Nat) /\ delivered \o write_queue = accepted
    BY DEF IInv, CloseInv, OrderInv, TypeOK
  <2> QED
    BY <2>1, ConcatEmptySeq
<1> QED
  BY <1>1, Invariance, PTL

(* CloseCallback runs once, and exactly when the object becomes closed.    *)
THEOREM CloseCallbackOnceHolds == Spec => []CloseCallbackOnce
<1>1. IInv => CloseCallbackOnce
  BY DEF IInv, CloseInv, CloseCallbackOnce
<1> QED
  BY <1>1, Invariance, PTL

(* A connected object that should be reading has a read in flight.         *)
THEOREM NoReadStallHolds == Spec => []NoReadStall
<1>1. IInv => NoReadStall
  BY DEF IInv
<1> QED
  BY <1>1, Invariance, PTL

(* For no pair of water marks is Danger ever reported.                     *)
THEOREM WatermarkSilentHolds == Spec => []WatermarkSilent
<1>1. IInv => WatermarkSilent
  BY DEF IInv
<1> QED
  BY <1>1, Invariance, PTL

(* A descriptor a closed object leaves open is one the resolver's late     *)
(* answer opened, and carried nothing.                                     *)
THEOREM OnlyLateResolveReopensHolds == Spec => []OnlyLateResolveReopens
<1>1. Init => ReopenInv
  BY DEF Init, ReopenInv, OnlyLateResolveReopens
<1>2. IInv /\ ReopenInv /\ [Next]_vars => ReopenInv'
  BY NextReopen
<1>3. ReopenInv => OnlyLateResolveReopens
  BY DEF ReopenInv
<1> QED
  BY <1>1, <1>2, <1>3, Invariance, PTL DEF Spec

(* A closing object accepts nothing more and never reopens.                *)
THEOREM ClosingIsFinalHolds == Spec => ClosingIsFinal
<1> DEFINE Final == is_closing => /\ is_closing'
                                  /\ accepted' = accepted
                                  /\ is_closed => is_closed'
<1>1. ASSUME IInv, [Next]_vars
      PROVE  Final
  <2>1. CASE CallConnect \/ CallStart \/ CallSend \/ CallClose
    BY <2>1
       DEF CallConnect, CallStart, CallSend, CallClose, PostOnly, flagVars,
           queueVars
  <2>10. ASSUME NEW op \in {"startReading", "stopReading"}, CallReading(op)
         PROVE  Final
    BY <2>10 DEF CallReading, PostOnly, flagVars, queueVars
  <2>2. CASE RunConnect \/ RunStart \/ RunSendDropped \/ RunCloseIgnored
    BY <2>2
       DEF RunConnect, RunStart, RunSendDropped, RunCloseIgnored, flagVars,
           queueVars
  <2>3. CASE RunSendQueued
    BY <2>3 DEF RunSendQueued, Writable
  <2>4. CASE RunCloseNow \/ RunCloseLater
    BY <2>4 DEF RunCloseNow, RunCloseLater
  <2>5. CASE RunStartReading \/ RunStopReading
    BY <2>5 DEF RunStartReading, RunStopReading, queueVars
  <2>6. ASSUME NEW ok \in BOOLEAN, ResolveDone(ok) \/ ConnectDone(ok)
        PROVE  Final
    BY <2>6 DEF ResolveDone, ConnectDone, flagVars, queueVars
  <2>7. CASE ReadDone \/ ReadFailed
    BY <2>7 DEF ReadDone, ReadFailed, CloseOnError, DoClose, flagVars, queueVars
  <2>8. CASE WriteCompletes
    BY <2>8 DEF WriteCompletes, WriteDoneMore, WriteDoneLast, WriteFailed, Pop,
                CloseIfClosing, CloseOnError, DoClose, flagVars, queueVars
  <2>9. CASE UNCHANGED vars
    BY <2>9 DEF vars
  <2> HIDE DEF Final
  <2> QED
    BY <1>1, <2>1, <2>2, <2>3, <2>4, <2>5, <2>6, <2>7, <2>8, <2>9,
       <2>10 DEF Next, RunPosted
<1>2. IInv /\ [Next]_vars => [Final]_vars
  BY <1>1
<1> QED
  BY <1>2, Invariance, PTL DEF Spec, ClosingIsFinal


-----------------------------------------------------------------------------
(* The refinement.                                                         *)

(* A step that leaves the mapped variables alone is a stutter of the pipe. *)
LEMMA PipeStutter ==
    ASSUME UNCHANGED <<is_closed, aborted, is_closing, is_connected>>,
           UNCHANGED <<write_queue, delivered>>
    PROVE  UNCHANGED Pipe!pipeVars
BY DEF Pipe!pipeVars, pipeStatus

(* A new object is an unopened pipe, or an open one.                       *)
LEMMA PipeInitially == Init => Pipe!PipeInit
<1> SUFFICES ASSUME Init PROVE Pipe!PipeInit
  OBVIOUS
<1>1. ~is_closed /\ ~is_closing
  BY Zenon DEF Init
<1>2. pipeStatus \in {"unopened", "open"}
  BY <1>1 DEF pipeStatus
<1> QED
  BY <1>2 DEF Init, Pipe!PipeInit

(* Every handler is a step of the pipe, or none.                           *)
LEMMA PipeStep ==
    ASSUME IInv, [Next]_vars
    PROVE  [Pipe!PipeNext]_(Pipe!pipeVars)
<1>1. CASE CallConnect
  BY <1>1, PipeStutter DEF CallConnect, PostOnly, flagVars, queueVars, closeHist
<1>2. CASE CallStart
  BY <1>2, PipeStutter DEF CallStart, PostOnly, flagVars, queueVars, closeHist
<1>3. CASE CallSend
  BY <1>3, PipeStutter DEF CallSend, PostOnly, flagVars, queueVars, closeHist
<1>4. CASE CallClose
  BY <1>4, PipeStutter DEF CallClose, PostOnly, flagVars, queueVars, closeHist
<1>5. ASSUME NEW op \in {"startReading", "stopReading"}, CallReading(op)
      PROVE  [Pipe!PipeNext]_(Pipe!pipeVars)
  BY <1>5, PipeStutter DEF CallReading, PostOnly, flagVars, queueVars, closeHist
<1>6. CASE RunConnect
  BY <1>6, PipeStutter DEF RunConnect, flagVars, queueVars, closeHist
<1>7. CASE RunStart
  BY <1>7, PipeStutter DEF RunStart, flagVars, queueVars, closeHist
<1>8. CASE RunSendDropped
  BY <1>8, PipeStutter DEF RunSendDropped, flagVars, queueVars, closeHist
<1>9. CASE RunSendQueued
  <2>1. Head(posted) = posted[1] /\ 1 \in 1..Len(posted) /\ Head(posted).op = "send"
    BY <1>9, HeadPosted DEF RunSendQueued, Runs, IInv
  <2>2. Head(posted).buf \in 1..MaxSends
    BY <2>1, CallBoundsAreNat DEF IInv, OrderInv, SendOrder, TypeOK
  <2>3. pipeStatus = "open" /\ pipeStatus' = "open"
    BY <1>9 DEF RunSendQueued, Writable, closeHist, pipeStatus
  <2>4. Pipe!Accept(Head(posted).buf)
    BY <1>9, <2>3 DEF RunSendQueued, Push, Pipe!Accept
  <2> QED
    BY <2>2, <2>4 DEF Pipe!PipeNext
<1>10. CASE RunCloseIgnored
  BY <1>10, PipeStutter DEF RunCloseIgnored, flagVars, queueVars, closeHist
<1>11. CASE RunCloseNow
  <2>1. write_queue = <<>>
    BY <1>11 DEF RunCloseNow, NothingToDrain, IInv, WriteInv, ConnInv
  <2>2. ~aborted
    BY <1>11 DEF RunCloseNow, IInv, CloseInv
  <2>3. pipeStatus \in {"unopened", "open"} /\ pipeStatus' = "closed"
    BY <1>11, <2>2 DEF RunCloseNow, DoClose, pipeStatus
  <2>4. Pipe!CloseIdle
    BY <1>11, <2>1, <2>3 DEF RunCloseNow, queueVars, Pipe!CloseIdle
  <2> QED
    BY <2>4 DEF Pipe!PipeNext
<1>12. CASE RunCloseLater
  <2>1. write_queue # <<>> /\ is_connected
    BY <1>12 DEF RunCloseLater, NothingToDrain, IInv, WriteInv
  <2>2. pipeStatus = "open" /\ pipeStatus' = "closing"
    BY <1>12, <2>1 DEF RunCloseLater, pipeStatus
  <2>3. Pipe!RequestClose
    BY <1>12, <2>1, <2>2 DEF RunCloseLater, queueVars, Pipe!RequestClose
  <2> QED
    BY <2>3 DEF Pipe!PipeNext
<1>13. CASE RunStartReading
  BY <1>13, PipeStutter DEF RunStartReading, flagVars, queueVars, closeHist
<1>14. CASE RunStopReading
  BY <1>14, PipeStutter DEF RunStopReading, flagVars, queueVars, closeHist
<1>15. ASSUME NEW ok \in BOOLEAN, ResolveDone(ok)
      PROVE  [Pipe!PipeNext]_(Pipe!pipeVars)
  BY <1>15, PipeStutter DEF ResolveDone, flagVars, queueVars, closeHist
<1>16. ASSUME NEW ok \in BOOLEAN, ConnectDone(ok)
      PROVE  [Pipe!PipeNext]_(Pipe!pipeVars)
  <2>1. CASE is_closed \/ ~ok \/ is_connected
    <3>1. pipeStatus' = pipeStatus
      BY <1>16, <2>1 DEF ConnectDone, closeHist, pipeStatus, IInv, TypeOK
    <3> QED
      BY <1>16, <3>1 DEF ConnectDone, queueVars, Pipe!pipeVars
  <2>2. CASE ~is_closed /\ ok /\ ~is_connected
    <3>1. ~is_closing
      BY <2>2 DEF IInv, CloseInv, ConnInv
    <3>2. pipeStatus = "unopened" /\ pipeStatus' = "open"
      BY <1>16, <2>2, <3>1 DEF ConnectDone, closeHist, pipeStatus
    <3>3. Pipe!Open
      BY <1>16, <3>2 DEF ConnectDone, queueVars, Pipe!Open
    <3> QED
      BY <3>3 DEF Pipe!PipeNext
  <2> QED
    BY <2>1, <2>2
<1>17. CASE ReadDone
  BY <1>17, PipeStutter DEF ReadDone, flagVars, queueVars, closeHist
<1>18. CASE ReadFailed
  <2>1. CASE is_closed
    <3>1. UNCHANGED <<is_closed, aborted, is_closing, is_connected>>
      BY <1>18, <2>1 DEF ReadFailed, CloseOnError, DoClose, IInv, CloseInv, TypeOK
    <3> QED
      BY <1>18, <3>1, PipeStutter DEF ReadFailed, queueVars
  <2>2. CASE ~is_closed
    <3>1. is_connected
      BY <1>18, <2>2 DEF ReadFailed, IInv, WriteInv, ConnInv
    <3>2. pipeStatus \in {"open", "closing"} /\ pipeStatus' = "failed"
      BY <1>18, <2>2, <3>1 DEF ReadFailed, CloseOnError, DoClose, pipeStatus
    <3>3. Pipe!Fail
      BY <1>18, <3>2 DEF ReadFailed, queueVars, Pipe!Fail
    <3> QED
      BY <3>3 DEF Pipe!PipeNext
  <2> QED
    BY <2>1, <2>2
<1>19. CASE WriteDoneMore
  <2>1. write_queue # <<>> /\ is_connected
    BY <1>19 DEF WriteDoneMore, IInv, WriteInv, ConnInv
  <2>2. pipeStatus' = pipeStatus
    BY <1>19 DEF WriteDoneMore, flagVars, closeHist, pipeStatus
  <2>3. pipeStatus \in {"open", "closing", "failed"}
    BY <2>1 DEF IInv, CloseInv, pipeStatus
  <2>4. Pipe!Deliver
    BY <1>19, <2>1, <2>2, <2>3 DEF WriteDoneMore, Pop, Pipe!Deliver
  <2> QED
    BY <2>4 DEF Pipe!PipeNext
<1>20. CASE WriteDoneLast
  <2>1. write_queue # <<>> /\ is_connected
    BY <1>20 DEF WriteDoneLast, IInv, WriteInv, ConnInv
  <2>2. CASE is_closed \/ ~is_closing
    <3>1. UNCHANGED <<is_closed, aborted, is_closing, is_connected>>
      BY <1>20, <2>2
         DEF WriteDoneLast, CloseIfClosing, DoClose, IInv, CloseInv, TypeOK
    <3>2. pipeStatus' = pipeStatus
      BY <3>1 DEF pipeStatus
    <3>3. pipeStatus \in {"open", "failed"}
      BY <2>1, <2>2 DEF IInv, CloseInv, pipeStatus
    <3>4. Pipe!Deliver
      BY <1>20, <2>1, <3>2, <3>3 DEF WriteDoneLast, Pop, Pipe!Deliver
    <3> QED
      BY <3>4 DEF Pipe!PipeNext
  <2>3. CASE ~is_closed /\ is_closing
    <3>1. ~aborted
      BY <2>3 DEF IInv, CloseInv
    <3>2. pipeStatus = "closing" /\ pipeStatus' = "closed"
      BY <1>20, <2>3, <3>1 DEF WriteDoneLast, CloseIfClosing, DoClose, pipeStatus
    <3>3. Len(write_queue) = 1 /\ Tail(write_queue) = <<>>
      BY <1>20, <2>1, TailOfOne, Zenon DEF WriteDoneLast, IInv, TypeOK
    <3>4. Pipe!DeliverAndClose
      BY <1>20, <3>2, <3>3 DEF WriteDoneLast, Pop, Pipe!DeliverAndClose
    <3> QED
      BY <3>4 DEF Pipe!PipeNext
  <2> QED
    BY <2>2, <2>3
<1>21. CASE WriteFailed
  <2>1. CASE is_closed
    <3>1. UNCHANGED <<is_closed, aborted, is_closing, is_connected>>
      BY <1>21, <2>1 DEF WriteFailed, CloseOnError, DoClose, IInv, CloseInv, TypeOK
    <3> QED
      BY <1>21, <3>1, PipeStutter DEF WriteFailed, queueVars
  <2>2. CASE ~is_closed
    <3>1. is_connected
      BY <1>21, <2>2 DEF WriteFailed, IInv, WriteInv, ConnInv
    <3>2. pipeStatus \in {"open", "closing"} /\ pipeStatus' = "failed"
      BY <1>21, <2>2, <3>1 DEF WriteFailed, CloseOnError, DoClose, pipeStatus
    <3>3. Pipe!Fail
      BY <1>21, <3>2 DEF WriteFailed, queueVars, Pipe!Fail
    <3> QED
      BY <3>3 DEF Pipe!PipeNext
  <2> QED
    BY <2>1, <2>2
<1>22. CASE UNCHANGED vars
  BY <1>22, PipeStutter DEF vars
<1> QED
  BY <1>1, <1>2, <1>3, <1>4, <1>5, <1>6, <1>7, <1>8, <1>9, <1>10, <1>11, <1>12,
     <1>13, <1>14, <1>15, <1>16, <1>17, <1>18, <1>19, <1>20, <1>21, <1>22
     DEF Next, RunPosted, WriteCompletes

(* TcpSocket implements DrainingPipe for every number of calls.            *)
THEOREM Refinement == Spec => ImplementsPipe
<1>1. Init => Pipe!PipeInit
  BY PipeInitially
<1>2. IInv /\ [Next]_vars => [Pipe!PipeNext]_(Pipe!pipeVars)
  BY PipeStep
<1> QED
  BY <1>1, <1>2, Invariance, PTL DEF Spec, ImplementsPipe, Pipe!PipeSpec
=============================================================================
