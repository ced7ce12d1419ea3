---------------------------- MODULE TunnelProofs ----------------------------
(***************************************************************************)
(* Proofs about Tunnel, for every protocol, any number of chunks either    *)
(* way, a data channel that is open or opens later and may be lost.  The   *)
(* streams are followed from container to container: what the target sent  *)
(* is, in this order, in the browser's hands, on the client's socket, in   *)
(* the hand of the rtc thread and in the data channel, unless something    *)
(* closed the browser's socket, after which nothing more is posted to it.  *)
(***************************************************************************)
EXTENDS Tunnel, SequenceTheorems, TLAPS

FrameType == [type : {"SYN", "SYNACK", "DATA", "FIN"}, val : Nat]
ItemType == {x \in [kind : {"chunk", "reply", "close"}, val : Nat] :
               x.kind = "close" => x = Close}
HandType == [type : {"none", "SYN", "SYNACK", "DATA", "FIN"}, val : Nat,
             at : {"idle", "found", "replied", "checked"}]
PeerType == [sent : Nat, eof : BOOLEAN, recv : Seq(ItemType)]
TargetType == [sent : Nat, eof : BOOLEAN, recv : Seq(Nat)]
ClientType ==
    [phase : {"Handshake", "Connecting", "Connected", "Closed"},
     step : {"idle", "syn_sent", "connecting"}, pending : Seq(Nat), read : Nat,
     mux : BOOLEAN, out : Seq(ItemType), closed : BOOLEAN, aborted : BOOLEAN,
     bad : BOOLEAN, ptr : BOOLEAN, p2pClosed : BOOLEAN, onClose : BOOLEAN,
     erased : BOOLEAN]
ServerType ==
    [dial : {"none", "resolving", "connecting", "done"}, fd : BOOLEAN,
     connected : BOOLEAN, read : Nat, out : Seq(ItemType), closed : BOOLEAN,
     failed : BOOLEAN, bad : BOOLEAN, iface : BOOLEAN, p2pClosed : BOOLEAN]

TypeOK ==
    /\ protocol \in {"Socks5Connect", "HttpsConnect", "HttpPlain"}
    /\ dc \in {"connecting", "open", "closed"}
    /\ c2s \in Seq(FrameType) /\ s2c \in Seq(FrameType)
    /\ b \in PeerType /\ t \in TargetType
    /\ c \in ClientType /\ s \in ServerType
    /\ crtc \in HandType /\ srtc \in HandType
    /\ crashed \in BOOLEAN

(* The sockets: nothing is posted to a closed one, nothing follows a close *)
(* and nobody closes the target's socket but the peer or a bad request.    *)
ClientSocket ==
    /\ ~c.ptr => c.closed
    /\ c.closed => c.out = <<>>
    /\ \A j \in 1..Len(c.out) : c.out[j].kind = "close" => j = Len(c.out)

ServerSocket ==
    /\ s.closed => s.out = <<>>
    /\ s.failed => s.closed
    /\ \A j \in 1..Len(s.out) :
          /\ s.out[j].kind # "reply"
          /\ (s.out[j].kind = "close" /\ ~s.p2pClosed) => s.bad

SocketInv == ClientSocket /\ ServerSocket

(* Nothing was asked of the server yet.                                    *)
Unasked ==
    /\ ~c.mux
    /\ c2s = <<>> /\ s2c = <<>>
    /\ crtc.type = "none" /\ srtc.type = "none"
    /\ s.dial = "none"

(* One SYN for a session, and before it nothing.                           *)
AskInv ==
    /\ (c.phase = "Handshake" /\ c.step = "idle") => Unasked
    /\ c.phase = "Closed" =>
          ~s.connected /\ (s.dial = "done" \/ (Unasked /\ c.step = "idle"))
    /\ c.mux \/ c.closed \/ Unasked
    /\ c.step = "connecting" => c.phase # "Handshake"
    /\ \A k \in 1..Len(c2s) :
          c2s[k].type = "SYN" =>
             /\ s.dial = "none"
             /\ \A l \in 1..Len(c2s) : c2s[l].type = "SYN" => l = k
    /\ dc = "connecting" => c2s = <<>> /\ s.dial = "none"

(* Nothing of the browser's has gone up.                                   *)
UpFrames == \A k \in 1..Len(c2s) : c2s[k].type # "DATA"
UpItems == \A j \in 1..Len(s.out) : s.out[j].kind # "chunk"

UpSilent == UpFrames /\ srtc.type # "DATA" /\ UpItems /\ t.recv = <<>>

(* Nothing but a refusal comes down.                                       *)
DownFrames == \A k \in 1..Len(s2c) : s2c[k].type = "SYNACK"
DownItems ==
    \A j \in 1..Len(c.out) :
        c.out[j].kind = "close" \/ (c.out[j].kind = "reply" /\ c.out[j].val = 1)
Delivered == \A i \in 1..Len(b.recv) : b.recv[i].kind = "reply" /\ b.recv[i].val = 1

DownSilent == DownFrames /\ crtc.type \in {"none", "SYNACK"} /\ DownItems /\ Delivered

(* As long as the target is not connected, no stream flows, and nobody is  *)
(* told that it is.                                                        *)
NotConnected ==
    /\ UpSilent /\ DownSilent
    /\ c.phase # "Connected"
    /\ t.sent = 0 /\ ~t.eof /\ s.read = 0 /\ ~s.bad /\ ~s.failed

ConnectedInv ==
    /\ ~s.connected => NotConnected
    /\ s.connected => s.dial = "done"

(* The answer comes first, once, and is true.                              *)
Unposted ==
    /\ b.recv = <<>>
    /\ \A j \in 1..Len(c.out) : c.out[j].kind = "close"

Awaited == Unposted /\ UpSilent /\ c.phase # "Connected"
Says(val) == IF s.connected THEN val = 0 ELSE val = 1

AnswerInv ==
    /\ s.dial # "done" => s2c = <<>> /\ crtc.type = "none" /\ Unposted
    /\ \A k \in 1..Len(s2c) :
          /\ s2c[k].type # "SYN"
          /\ s2c[k].type = "SYNACK" =>
                k = 1 /\ crtc.type = "none" /\ Awaited /\ Says(s2c[k].val)
    /\ crtc.type # "SYN"
    /\ crtc.type = "SYNACK" =>
          (crtc.at = "found" => Awaited) /\ Says(crtc.val)

(* Down.  The p-th item for the browser is the answer or a chunk.          *)
Off == IF protocol = "HttpPlain" THEN 0 ELSE 1

Fits(x, p) ==
    \/ x.kind = "chunk" /\ x.val = p - Off /\ x.val >= 1 /\ x.val =< s.read
    \/ x.kind = "reply" /\ p = 1 /\ (protocol = "HttpPlain" => ~s.connected)

BrowserShape == \A i \in 1..Len(b.recv) : Fits(b.recv[i], i)
SocketShape ==
    \A j \in 1..Len(c.out) : c.out[j].kind = "close" \/ Fits(c.out[j], Len(b.recv) + j)
ChannelShape ==
    \A k \in 1..Len(s2c) :
        s2c[k].type = "DATA" => s2c[k].val >= 1 /\ s2c[k].val =< s.read
HandShape == crtc.type = "DATA" => crtc.val >= 1 /\ crtc.val =< s.read

ShapeInv ==
    /\ BrowserShape /\ SocketShape
    /\ ChannelShape /\ HandShape /\ s.read =< t.sent

(* While the browser's socket takes what it is given, nothing is missing.  *)
Posting ==
    /\ ~c.closed /\ ~c.bad
    /\ \A j \in 1..Len(c.out) : c.out[j].kind # "close"

Given == Len(b.recv) + Len(c.out)
Chunks(n) == IF n = 0 THEN 0 ELSE n - Off
InHand == IF crtc.type = "DATA" THEN 1 ELSE 0
AnswerDue == IF s2c # <<>> /\ s2c[1].type = "SYNACK" THEN 1 ELSE 0
FinDue == IF s2c # <<>> /\ s2c[Len(s2c)].type = "FIN" THEN 1 ELSE 0

Answered ==
    /\ s.dial = "done" /\ AnswerDue = 0
    /\ ~(crtc.type = "SYNACK" /\ crtc.at = "found")
    /\ crtc.type # "none" \/ s2c # <<>> \/ dc # "closed"

FlowInv ==
    /\ (Posting /\ Answered /\ protocol # "HttpPlain") => Given >= 1
    /\ (Posting /\ s.connected) =>
          /\ crtc.type = "DATA" => crtc.val = Chunks(Given) + 1
          /\ \A k \in 1..Len(s2c) : s2c[k].type = "DATA" =>
                s2c[k].val = Chunks(Given) + InHand + k - AnswerDue
          /\ dc # "closed" =>
                s.read = Chunks(Given) + InHand + Len(s2c) - AnswerDue - FinDue

(* The FIN is the last frame, and says that the target's stream has ended  *)
(* and was read, or that something failed.                                 *)
Finished ==
    /\ s.closed /\ s.connected /\ ~s.fd
    /\ s.failed \/ s.bad \/ (t.eof /\ s.read = t.sent)

FinInv ==
    /\ \A k \in 1..Len(s2c) : s2c[k].type = "FIN" => k = Len(s2c) /\ Finished
    /\ crtc.type = "FIN" => s2c = <<>> /\ Finished

(* So a browser's socket that was closed in order has got everything.      *)
Ended ==
    \/ \E j \in 1..Len(c.out) : c.out[j].kind = "close"
    \/ c.closed /\ ~c.aborted

Orderly == dc # "closed" /\ ~c.bad /\ ~s.failed /\ ~s.bad
BeforeClose == Len(b.recv) + (IF c.out = <<>> THEN 0 ELSE Len(c.out) - 1)

EndInv ==
    (Ended /\ Orderly) =>
        IF s.connected
        THEN t.eof /\ s.read = t.sent /\ Chunks(BeforeClose) = t.sent
        ELSE s.dial = "done" \/ (Unasked /\ c.phase = "Closed")

(* Up.  The ordinals grow from container to container: what is still under *)
(* way lies above what came before it.                                     *)
AboveTarget(v) == \A i \in 1..Len(t.recv) : t.recv[i] < v
AboveItems(v) ==
    /\ AboveTarget(v)
    /\ \A i \in 1..Len(s.out) : s.out[i].kind = "chunk" => s.out[i].val < v
AboveHand(v) == AboveItems(v) /\ (srtc.type = "DATA" => srtc.val < v)

TargetUp ==
    \A j \in 1..Len(t.recv) :
        t.recv[j] =< c.read /\ \A i \in 1..Len(t.recv) : i < j => t.recv[i] < t.recv[j]
ItemsUp ==
    \A j \in 1..Len(s.out) : s.out[j].kind = "chunk" =>
        /\ s.out[j].val =< c.read /\ AboveTarget(s.out[j].val)
        /\ \A i \in 1..Len(s.out) :
              (i < j /\ s.out[i].kind = "chunk") => s.out[i].val < s.out[j].val
HandUp == srtc.type = "DATA" => srtc.val =< c.read /\ AboveItems(srtc.val)
FramesUp ==
    \A j \in 1..Len(c2s) : c2s[j].type = "DATA" =>
        /\ c2s[j].val =< c.read /\ AboveHand(c2s[j].val)
        /\ \A i \in 1..Len(c2s) :
              (i < j /\ c2s[i].type = "DATA") => c2s[i].val < c2s[j].val
PendingUp ==
    \A j \in 1..Len(c.pending) :
        /\ c.pending[j] =< c.read
        /\ (protocol = "HttpPlain" /\ c.step # "idle") => c.pending[j] < c.read
        /\ \A i \in 1..Len(c.pending) : i < j => c.pending[i] < c.pending[j]

UpInv ==
    /\ c.read =< b.sent
    /\ c.step = "connecting" => protocol = "HttpPlain"
    /\ TargetUp /\ ItemsUp /\ HandUp /\ FramesUp /\ PendingUp

IInv ==
    /\ TypeOK /\ SocketInv /\ AskInv
    /\ ConnectedInv /\ AnswerInv
    /\ ShapeInv /\ FlowInv /\ FinInv /\ EndInv
    /\ UpInv

-----------------------------------------------------------------------------
(* The operators the model is built from.                                  *)

(* An item posted, or a frame sent, goes to the end.                       *)
LEMMA AppendFacts ==
    ASSUME NEW S, NEW q \in Seq(S), NEW e \in S
    PROVE  /\ Append(q, e) \in Seq(S)
           /\ Len(q) \in Nat
           /\ Len(Append(q, e)) = Len(q) + 1
           /\ Append(q, e)[Len(q) + 1] = e
           /\ \A i \in 1..Len(q) : Append(q, e)[i] = q[i]
BY AppendProperties, LenProperties

(* The oldest item written, or frame delivered, leaves the others in order. *)
LEMMA TailFacts ==
    ASSUME NEW S, NEW q \in Seq(S), q # <<>>
    PROVE  /\ Len(q) \in Nat /\ 1 \in 1..Len(q)
           /\ Head(q) = q[1] /\ Head(q) \in S
           /\ Tail(q) \in Seq(S)
           /\ Len(Tail(q)) = Len(q) - 1
           /\ \A i \in 1..Len(Tail(q)) : Tail(q)[i] = q[i + 1]
<1>1. Len(q) \in Nat \ {0}
  BY EmptySeq
<1>2. /\ Head(q) \in S /\ Head(q) = q[1] /\ Tail(q) \in Seq(S)
      /\ Len(Tail(q)) = Len(q) - 1
      /\ \A i \in 1..Len(Tail(q)) : Tail(q)[i] = q[i + 1]
  BY HeadTailProperties
<1> QED
  BY <1>1, <1>2

(* Several frames sent at once follow those under way.                     *)
LEMMA ConcatFacts ==
    ASSUME NEW S, NEW q \in Seq(S), NEW r \in Seq(S)
    PROVE  /\ Len(q \o r) = Len(q) + Len(r)
           /\ \A k \in 1..Len(q) + Len(r) :
                 (q \o r)[k] = IF k =< Len(q) THEN q[k] ELSE r[k - Len(q)]
BY ConcatProperties

(* Nothing in it.                                                          *)
LEMMA EmptyFacts ==
    ASSUME NEW S, NEW q \in Seq(S)
    PROVE  /\ <<>> \in Seq(S) /\ Len(<<>>) = 0
           /\ Len(q) \in Nat
           /\ q = <<>> <=> Len(q) = 0
           /\ \A i \in 1..Len(q) : q[i] \in S
BY EmptySeq, LenProperties, ElementOfSeq

(* What the code posts to a socket is an item, and only Close is a close.  *)
LEMMA ItemFacts ==
    /\ \A n \in Nat : /\ Chunk(n) \in ItemType
                      /\ Chunk(n).kind = "chunk" /\ Chunk(n).val = n
    /\ \A ok \in BOOLEAN : /\ Reply(ok) \in ItemType
                           /\ Reply(ok).kind = "reply"
                           /\ Reply(ok).val = IF ok THEN 0 ELSE 1
    /\ Close \in ItemType /\ Close.kind = "close" /\ Close.val = 0
    /\ \A x \in ItemType : /\ x.kind \in {"chunk", "reply", "close"} /\ x.val \in Nat
                           /\ x.kind = "close" <=> x = Close
BY DEF ItemType, Chunk, Reply, Close

(* TcpSocket::send and close take an item unless the socket is closed or   *)
(* closing.                                                                *)
Takes(closed, q) == ~closed /\ \A j \in 1..Len(q) : q[j].kind # "close"

(* TcpSocket::send and close append the item exactly when the socket takes *)
(* it.                                                                     *)
LEMMA PostFacts ==
    ASSUME NEW sock, NEW item \in ItemType,
           sock.out \in Seq(ItemType), sock.closed \in BOOLEAN
    PROVE  /\ Posted(sock, item) \in Seq(ItemType)
           /\ Takes(sock.closed, sock.out) => Posted(sock, item) = Append(sock.out, item)
           /\ ~Takes(sock.closed, sock.out) => Posted(sock, item) = sock.out
<1>1. Contains(sock.out, Close) <=> \E j \in 1..Len(sock.out) : sock.out[j].kind = "close"
  BY ItemFacts, EmptyFacts DEF Contains
<1>2. Append(sock.out, item) \in Seq(ItemType)
  BY AppendFacts
<1> QED
  BY <1>1, <1>2 DEF Posted, Takes

(* P2PClient::send with no frame, with one, and with the channel closed.   *)
LEMMA SentFacts ==
    ASSUME NEW q \in Seq(FrameType), NEW f \in FrameType
    PROVE  /\ Sent(q, <<>>) = q
           /\ Sent(q, <<f>>) = IF dc = "open" THEN Append(q, f) ELSE q
<1>1. q \o <<>> = q
  BY ConcatEmptySeq
<1>2. q \o <<f>> = Append(q, f)
  BY AppendIsConcat
<1> QED
  BY <1>1, <1>2 DEF Sent

-----------------------------------------------------------------------------
(* The types.                                                              *)

(* What send_packet sends and what handle_packet finds is of its type.     *)
LEMMA FrameFacts ==
    /\ \A n \in Nat : /\ Frame("SYN", n) \in FrameType /\ Frame("SYNACK", n) \in FrameType
                      /\ Frame("DATA", n) \in FrameType /\ Frame("FIN", n) \in FrameType
    /\ \A f \in FrameType : Found(f) \in HandType
    /\ Idle \in HandType
    /\ <<>> \in Seq(FrameType) /\ <<>> \in Seq(ItemType) /\ <<>> \in Seq(Nat)
BY EmptySeq DEF Frame, Found, Idle, FrameType, HandType

(* A target that sends, ends its stream or receives.                       *)
LEMMA TargetFacts ==
    ASSUME NEW S, NEW p \in [sent : Nat, eof : BOOLEAN, recv : S]
    PROVE  /\ p.sent \in Nat /\ p.recv \in S
           /\ [p EXCEPT !.sent = @ + 1] \in [sent : Nat, eof : BOOLEAN, recv : S]
           /\ [p EXCEPT !.eof = TRUE] \in [sent : Nat, eof : BOOLEAN, recv : S]
           /\ \A q \in S : [p EXCEPT !.recv = q] \in [sent : Nat, eof : BOOLEAN, recv : S]
<1>1. p.sent \in Nat /\ p.eof \in BOOLEAN /\ p.recv \in S
  OBVIOUS
<1>2. [p EXCEPT !.sent = @ + 1] \in [sent : Nat, eof : BOOLEAN, recv : S]
  BY <1>1
<1>3. [p EXCEPT !.eof = TRUE] \in [sent : Nat, eof : BOOLEAN, recv : S]
  BY <1>1
<1>4. ASSUME NEW q \in S
      PROVE  [p EXCEPT !.recv = q] \in [sent : Nat, eof : BOOLEAN, recv : S]
  BY <1>1
<1> QED
  BY <1>1, <1>2, <1>3, <1>4

(* The target's record holds what was received, whatever its element type. *)
LEMMA NewTarget ==
    ASSUME NEW S, NEW q \in S
    PROVE  [sent |-> 0, eof |-> FALSE, recv |-> q] \in [sent : Nat, eof : BOOLEAN, recv : S]
OBVIOUS

(* Both programs start with values of the type.                            *)
LEMMA InitTypeOK == Init => TypeOK
<1> SUFFICES ASSUME Init PROVE TypeOK
  OBVIOUS
<1>1. b \in PeerType
  BY FrameFacts DEF Init, PeerType
<1>2. t \in TargetType
  <2>1. t = [sent |-> 0, eof |-> FALSE, recv |-> <<>>]
    BY DEF Init
  <2>2. <<>> \in Seq(Nat)
    BY FrameFacts
  <2> QED
    BY <2>1, <2>2, NewTarget, Zenon DEF TargetType
<1>3. c \in ClientType
  BY FrameFacts DEF Init, ClientType
<1>4. s \in ServerType
  BY FrameFacts DEF Init, ServerType
<1> QED
  BY <1>1, <1>2, <1>3, <1>4, TunnelConstants, FrameFacts DEF Init, TypeOK

(* The environment, the channel and the two ends of the peer connection.   *)
LEMMA EnvironmentTypeOK ==
    ASSUME TypeOK,
           \/ BrowserSends \/ BrowserCloses \/ TargetSends \/ TargetCloses
           \/ ChannelOpens \/ Disconnect \/ ClientStops \/ ServerStops
    PROVE  TypeOK'
<1>1. CASE BrowserSends
  BY <1>1, SMTT(30) DEF BrowserSends, TypeOK, PeerType
<1>2. CASE BrowserCloses
  BY <1>2 DEF BrowserCloses, TypeOK, PeerType
<1>3. CASE TargetSends
  BY <1>3, TargetFacts DEF TargetSends, TypeOK, TargetType
<1>4. CASE TargetCloses
  BY <1>4, TargetFacts DEF TargetCloses, TypeOK, TargetType
<1>5. CASE ChannelOpens
  BY <1>5 DEF ChannelOpens, TypeOK
<1>6. CASE Disconnect
  BY <1>6, FrameFacts DEF Disconnect, TypeOK
<1>7. CASE ClientStops
  <2>1. c.out \in Seq(ItemType) /\ c.closed \in BOOLEAN
    BY DEF TypeOK, ClientType
  <2>2. Posted(c, Close) \in Seq(ItemType)
    BY <2>1, PostFacts, ItemFacts
  <2> QED
    BY <1>7, <2>2 DEF ClientStops, TypeOK, ClientType
<1>8. CASE ServerStops
  <2>1. s.out \in Seq(ItemType) /\ s.closed \in BOOLEAN
    BY DEF TypeOK, ServerType
  <2>2. Posted(s, Close) \in Seq(ItemType)
    BY <2>1, PostFacts, ItemFacts
  <2> QED
    BY <1>8, <2>2 DEF ServerStops, TypeOK, ServerType
<1> QED
  BY <1>1, <1>2, <1>3, <1>4, <1>5, <1>6, <1>7, <1>8

(* What is posted to the two sockets, and what the channel takes.          *)
LEMMA PostTypes ==
    ASSUME TypeOK, NEW item \in ItemType
    PROVE  Posted(c, item) \in Seq(ItemType) /\ Posted(s, item) \in Seq(ItemType)
<1>1. /\ c.out \in Seq(ItemType) /\ c.closed \in BOOLEAN
      /\ s.out \in Seq(ItemType) /\ s.closed \in BOOLEAN
  BY DEF TypeOK, ClientType, ServerType
<1> QED
  BY <1>1, PostFacts

(* A queue of frames stays one after a send, or after the channel's loss.  *)
LEMMA SentTypes ==
    ASSUME TypeOK, NEW f \in FrameType
    PROVE  /\ Sent(c2s, <<>>) \in Seq(FrameType) /\ Sent(s2c, <<>>) \in Seq(FrameType)
           /\ Sent(c2s, <<f>>) \in Seq(FrameType) /\ Sent(s2c, <<f>>) \in Seq(FrameType)
<1>1. c2s \in Seq(FrameType) /\ s2c \in Seq(FrameType)
  BY DEF TypeOK
<1>2. Append(c2s, f) \in Seq(FrameType) /\ Append(s2c, f) \in Seq(FrameType)
  BY <1>1, AppendFacts
<1> QED
  BY <1>1, <1>2, SentFacts

(* The requests kept so far, as frames.                                    *)
LEMMA PendingFrames ==
    ASSUME TypeOK
    PROVE  LET q == [i \in 1..Len(c.pending) |-> Frame("DATA", c.pending[i])]
           IN  /\ q \in Seq(FrameType) /\ Len(q) = Len(c.pending)
               /\ Len(c.pending) \in Nat /\ c.pending \in Seq(Nat)
               /\ \A i \in 1..Len(c.pending) : /\ c.pending[i] \in Nat
                                               /\ q[i].type = "DATA"
                                               /\ q[i].val = c.pending[i]
               /\ Sent(c2s, q) \in Seq(FrameType)
<1> DEFINE q == [i \in 1..Len(c.pending) |-> Frame("DATA", c.pending[i])]
<1>1. c.pending \in Seq(Nat)
  BY DEF TypeOK, ClientType
<1>2. /\ Len(c.pending) \in Nat
      /\ \A i \in 1..Len(c.pending) : c.pending[i] \in Nat
  BY <1>1, LenProperties, ElementOfSeq
<1>3. \A i \in 1..Len(c.pending) : /\ Frame("DATA", c.pending[i]) \in FrameType
                                   /\ Frame("DATA", c.pending[i]).type = "DATA"
                                   /\ Frame("DATA", c.pending[i]).val = c.pending[i]
  BY <1>2, FrameFacts DEF Frame
<1>4. q \in Seq(FrameType) /\ Len(q) = Len(c.pending)
  BY <1>2, <1>3, IsASeq
<1>5. \A i \in 1..Len(c.pending) : q[i] = Frame("DATA", c.pending[i])
  OBVIOUS
<1>6. c2s \o q \in Seq(FrameType) /\ c2s \in Seq(FrameType)
  BY <1>4, ConcatProperties DEF TypeOK
<1>7. Sent(c2s, q) \in Seq(FrameType)
  BY <1>6, Zenon DEF Sent
<1> HIDE DEF q
<1>8. \A i \in 1..Len(c.pending) : q[i].type = "DATA" /\ q[i].val = c.pending[i]
  BY <1>3, <1>5
<1>9. q \in Seq(FrameType) /\ Len(q) = Len(c.pending)
      /\ Len(c.pending) \in Nat /\ c.pending \in Seq(Nat)
      /\ (\A i \in 1..Len(c.pending) : /\ c.pending[i] \in Nat
                                       /\ q[i].type = "DATA" /\ q[i].val = c.pending[i])
      /\ Sent(c2s, q) \in Seq(FrameType)
  BY <1>1, <1>2, <1>4, <1>7, <1>8
<1> QED
  BY <1>9, Zenon DEF q

(* What reading from the browser changes of the client.                    *)
LEMMA ReadTypes ==
    ASSUME TypeOK, NEW n \in Nat, NEW q \in Seq(ItemType), NEW r \in Seq(Nat),
           NEW m \in BOOLEAN, NEW st \in {"idle", "syn_sent", "connecting"}
    PROVE  /\ [c EXCEPT !.mux = m, !.step = st, !.read = n] \in ClientType
           /\ [c EXCEPT !.read = n, !.pending = r] \in ClientType
           /\ [c EXCEPT !.read = n, !.out = q] \in ClientType
<1>1. c \in ClientType
  BY DEF TypeOK
<1>2. [c EXCEPT !.mux = m, !.step = st, !.read = n] \in ClientType
  BY <1>1 DEF ClientType
<1>3. [c EXCEPT !.read = n, !.pending = r] \in ClientType
  BY <1>1 DEF ClientType
<1>4. [c EXCEPT !.read = n, !.out = q] \in ClientType
  BY <1>1 DEF ClientType
<1> QED
  BY <1>2, <1>3, <1>4

(* The client's strand.                                                    *)
LEMMA ClientStrandTypeOK ==
    ASSUME TypeOK, ClientStrand \/ ClientRejects
    PROVE  TypeOK'
<1> USE DEF TypeOK
<1>f. /\ \A n \in Nat : Frame("SYN", n) \in FrameType /\ Frame("DATA", n) \in FrameType
                        /\ Frame("FIN", n) \in FrameType
      /\ <<>> \in Seq(ItemType)
  BY FrameFacts
<1>c. c.read \in Nat /\ c.out \in Seq(ItemType) /\ c.pending \in Seq(Nat)
  BY DEF ClientType
<1>p. /\ Posted(c, Close) \in Seq(ItemType)
      /\ \A n \in Nat : Append(c.pending, n) \in Seq(Nat)
  BY <1>c, PostTypes, ItemFacts, AppendFacts
<1>1. CASE ClientRequests
  <2>1. c2s' \in Seq(FrameType)
    BY <1>1, <1>f, SentTypes DEF ClientRequests, Up
  <2>2. c' \in ClientType
    <3> DEFINE n == IF protocol = "HttpPlain" THEN c.read + 1 ELSE c.read
    <3>1. c' = [c EXCEPT !.mux = TRUE, !.step = "syn_sent", !.read = n]
      BY <1>1 DEF ClientRequests
    <3>2. n \in Nat
      BY <1>c
    <3> QED
      BY <3>1, <3>2, <1>f, <1>c, ReadTypes, Zenon
  <2> QED
    BY <1>1, <2>1, <2>2 DEF ClientRequests, Up
<1>2. CASE ClientConnecting
  BY <1>2 DEF ClientConnecting, ClientType
<1>3. CASE ClientReadsPartOfHead
  <2>1. c' = [c EXCEPT !.read = c.read + 1, !.pending = Append(c.pending, c.read + 1)]
    BY <1>3 DEF ClientReadsPartOfHead
  <2>2. c.read + 1 \in Nat
    BY <1>c
  <2>3. c' \in ClientType
    BY <2>1, <2>2, <1>f, <1>p, ReadTypes, Zenon
  <2> QED
    BY <1>3, <2>3 DEF ClientReadsPartOfHead
<1>4. CASE ClientKeepsRequest
  BY <1>4, <1>c, <1>p DEF ClientKeepsRequest, ClientType
<1>5. CASE ClientReads
  <2>1. c2s' \in Seq(FrameType)
    <3>1. Frame("DATA", c.read + 1) \in FrameType
      BY <1>f, <1>c
    <3>2. c2s' = Sent(c2s, <<Frame("DATA", c.read + 1)>>) \/ c2s' = Sent(c2s, <<>>)
      BY <1>5 DEF ClientReads, Up
    <3> QED
      BY <3>1, <3>2, SentTypes, Zenon
  <2>2. c' \in ClientType
    <3> DEFINE q == IF c.phase = "Closed" THEN Posted(c, Close) ELSE c.out
    <3>1. c' = [c EXCEPT !.read = c.read + 1, !.out = q]
      BY <1>5 DEF ClientReads
    <3>2. c.read + 1 \in Nat
      BY <1>c
    <3>3. q \in Seq(ItemType)
      BY <1>c, <1>p
    <3> QED
      BY <3>1, <3>2, <3>3, <1>f, <1>c, ReadTypes, Zenon
  <2> QED
    BY <1>5, <2>1, <2>2 DEF ClientReads, Up
<1>6. CASE ClientWrites
  <2>1. Head(c.out) \in ItemType /\ Tail(c.out) \in Seq(ItemType)
    BY <1>6, <1>c, TailFacts DEF ClientWrites
  <2>2. b.recv \in Seq(ItemType)
    BY DEF PeerType
  <2>3. Append(b.recv, Head(c.out)) \in Seq(ItemType)
    BY <2>1, <2>2, AppendFacts
  <2>4. b' \in PeerType
    BY <1>6, <2>3 DEF ClientWrites, PeerType
  <2>5. c' \in ClientType
    BY <1>6, <2>1 DEF ClientWrites, ClientType
  <2> QED
    BY <1>6, <2>4, <2>5 DEF ClientWrites
<1>7. ASSUME NEW aborting \in BOOLEAN, ClientSocketCloses(aborting)
      PROVE  TypeOK'
  <2>1. c2s' \in Seq(FrameType)
    BY <1>7, <1>f, SentTypes DEF ClientSocketCloses, Up
  <2>2. c' \in ClientType
    BY <1>7, <1>f DEF ClientSocketCloses, ClientType
  <2> QED
    BY <1>7, <2>1, <2>2 DEF ClientSocketCloses, Up
<1>8. CASE ClientDrained
  BY <1>7, <1>8 DEF ClientDrained
<1>9. CASE ClientReadFails
  BY <1>7, <1>9 DEF ClientReadFails
<1>10. CASE ClientResetsSocket
  BY <1>10 DEF ClientResetsSocket, ClientType
<1>11. CASE ClientDestroyed
  BY <1>11 DEF ClientDestroyed, ClientType
<1>12. CASE ClientRejects
  BY <1>12, <1>c, <1>p DEF ClientRejects, ClientType
<1> QED
  BY <1>1, <1>2, <1>3, <1>4, <1>5, <1>6, <1>8, <1>9, <1>10, <1>11, <1>12
     DEF ClientStrand

(* The client's rtc thread.                                                *)
LEMMA ClientRtcTypeOK ==
    ASSUME TypeOK, ClientRtc \/ ClientBadResponse
    PROVE  TypeOK'
<1> USE DEF TypeOK
<1>h. crtc.val \in Nat /\ Idle \in HandType /\ Idle.type = "none"
      /\ \A f \in FrameType : Found(f) \in HandType
  BY FrameFacts DEF HandType, Idle
<1>i. Chunk(crtc.val) \in ItemType /\ Close \in ItemType
      /\ Reply(crtc.val = 0) \in ItemType
  BY <1>h, ItemFacts
<1>u. ASSUME NEW item \in ItemType, ClientUsesSocket(item)
      PROVE  c' \in ClientType /\ crashed' \in BOOLEAN
  <2>1. Posted(c, item) \in Seq(ItemType) /\ c.out \in Seq(ItemType)
    BY PostTypes DEF ClientType
  <2>2. c' \in ClientType
    BY <1>u, <2>1 DEF ClientUsesSocket, ClientType
  <2>3. crashed' \in BOOLEAN
    BY <1>u, Zenon DEF ClientUsesSocket
  <2> QED
    BY <2>2, <2>3
<1>1. CASE ClientFinds
  <2>1. s2c' \in Seq(FrameType) /\ Head(s2c) \in FrameType
    BY <1>1, TailFacts DEF ClientFinds
  <2>2. crtc' \in HandType
    BY <1>1, <1>h, <2>1 DEF ClientFinds
  <2> QED
    BY <1>1, <2>1, <2>2 DEF ClientFinds
<1>2. CASE ClientData
  BY <1>2, <1>h, <1>i, <1>u DEF ClientData
<1>3. CASE ClientIgnoresData
  BY <1>3, <1>h DEF ClientIgnoresData
<1>4. CASE ClientSynackReply
  <2>1. crtc' \in HandType
    BY <1>4 DEF ClientSynackReply, HandType
  <2>2. c2s' \in Seq(FrameType) /\ s2c' \in Seq(FrameType)
    BY <1>4, PendingFrames DEF ClientSynackReply, Up
  <2>3. c' \in ClientType /\ crashed' \in BOOLEAN
    <3>1. CASE protocol = "HttpPlain" /\ crtc.val = 0
      BY <1>4, <3>1, FrameFacts, EmptySeq DEF ClientSynackReply, ClientType
    <3>2. CASE ~(protocol = "HttpPlain" /\ crtc.val = 0)
      BY <1>4, <3>2, <1>i, <1>u DEF ClientSynackReply
    <3> QED
      BY <3>1, <3>2
  <2> QED
    BY <1>4, <2>1, <2>2, <2>3 DEF ClientSynackReply
<1>c. ASSUME c' = [c EXCEPT !.phase = "Closed",
                            !.out = IF c.ptr THEN Posted(c, Close) ELSE @]
      PROVE  c' \in ClientType
  <2>1. Posted(c, Close) \in Seq(ItemType) /\ c.out \in Seq(ItemType)
    BY PostTypes, ItemFacts DEF ClientType
  <2> QED
    BY <1>c, <2>1 DEF ClientType
<1>5. CASE ClientSynackPhase
  <2>1. crashed' \in BOOLEAN
    <3>1. crashed' = crashed \/ crashed' = ~c.ptr
      BY <1>5 DEF ClientSynackPhase
    <3> QED
      BY <3>1, Zenon
  <2>2. c' \in ClientType
    <3>1. CASE crtc.val = 0
      BY <1>5, <3>1 DEF ClientSynackPhase, ClientType
    <3>2. CASE crtc.val # 0
      BY <1>5, <3>2, <1>c DEF ClientSynackPhase
    <3> QED
      BY <3>1, <3>2
  <2> QED
    BY <1>5, <1>h, <2>1, <2>2 DEF ClientSynackPhase
<1>6. CASE ClientFinTest
  <2>1. c' \in ClientType
    BY <1>6 DEF ClientFinTest, ClientType
  <2>2. crtc' \in HandType
    BY <1>6, <1>h DEF ClientFinTest, HandType
  <2> QED
    BY <1>6, <2>1, <2>2 DEF ClientFinTest
<1>7. CASE ClientFinUse
  BY <1>7, <1>h, <1>i, <1>u DEF ClientFinUse
<1>8. CASE ClientBadResponse
  <2>1. Posted(c, Close) \in Seq(ItemType) /\ c.out \in Seq(ItemType)
    BY PostTypes, ItemFacts DEF ClientType
  <2>2. c' \in ClientType
    BY <1>8, <2>1 DEF ClientBadResponse, ClientType
  <2>3. crashed' \in BOOLEAN
    BY <1>8, Zenon DEF ClientBadResponse
  <2> QED
    BY <1>8, <1>h, <2>2, <2>3 DEF ClientBadResponse
<1> QED
  BY <1>1, <1>2, <1>3, <1>4, <1>5, <1>6, <1>7, <1>8 DEF ClientRtc

(* The server's rtc thread.                                                *)
LEMMA ServerRtcTypeOK ==
    ASSUME TypeOK, ServerRtc \/ ServerBadRequest
    PROVE  TypeOK'
<1> USE DEF TypeOK
<1>h. srtc.val \in Nat /\ Idle \in HandType
      /\ \A f \in FrameType : Found(f) \in HandType
  BY FrameFacts DEF HandType
<1>p. /\ s.out \in Seq(ItemType)
      /\ Posted(s, Close) \in Seq(ItemType)
      /\ Posted(s, Chunk(srtc.val)) \in Seq(ItemType)
  BY <1>h, PostTypes, ItemFacts DEF ServerType
<1>b. (~s.iface) \in BOOLEAN
  BY Zenon DEF ServerType
<1>1. CASE ServerSyn
  <2>1. c2s' \in Seq(FrameType)
    BY <1>1, TailFacts DEF ServerSyn
  <2>2. s' \in ServerType
    BY <1>1 DEF ServerSyn, ServerType
  <2> QED
    BY <1>1, <2>1, <2>2 DEF ServerSyn
<1>2. CASE ServerFinds
  <2>1. c2s' \in Seq(FrameType) /\ Head(c2s) \in FrameType
    BY <1>2, TailFacts DEF ServerFinds
  <2>2. srtc' \in HandType
    BY <1>2, <1>h, <2>1 DEF ServerFinds
  <2> QED
    BY <1>2, <2>1, <2>2 DEF ServerFinds
<1>3. CASE ServerData
  <2>1. s' \in ServerType
    BY <1>3, <1>p DEF ServerData, ServerType
  <2>2. crashed' \in BOOLEAN
    BY <1>3, <1>b, Zenon DEF ServerData
  <2> QED
    BY <1>3, <1>h, <2>1, <2>2 DEF ServerData
<1>4. CASE ServerBadRequest
  <2>1. s' \in ServerType
    BY <1>4, <1>p DEF ServerBadRequest, ServerType
  <2>2. crashed' \in BOOLEAN
    BY <1>4, <1>b, Zenon DEF ServerBadRequest
  <2> QED
    BY <1>4, <1>h, <2>1, <2>2 DEF ServerBadRequest
<1>5. CASE ServerIgnoresData
  <2>2. crashed' \in BOOLEAN
    BY <1>5, <1>b, Zenon DEF ServerIgnoresData
  <2> QED
    BY <1>5, <1>h, <2>2 DEF ServerIgnoresData
<1>6. CASE ServerFin
  <2>1. s' \in ServerType
    BY <1>6, <1>p DEF ServerFin, ServerType
  <2>2. crashed' \in BOOLEAN
    BY <1>6, <1>b, Zenon DEF ServerFin
  <2> QED
    BY <1>6, <1>h, <2>1, <2>2 DEF ServerFin
<1> QED
  BY <1>1, <1>2, <1>3, <1>4, <1>5, <1>6 DEF ServerRtc

(* The server's strand.                                                    *)
LEMMA ServerStrandTypeOK ==
    ASSUME TypeOK, ServerStrand \/ ServerFails
    PROVE  TypeOK'
<1> USE DEF TypeOK
<1>f. /\ \A n \in Nat : /\ Frame("SYNACK", n) \in FrameType /\ Frame("DATA", n) \in FrameType
                        /\ Frame("FIN", n) \in FrameType
      /\ <<>> \in Seq(ItemType)
  BY FrameFacts
<1>1. ASSUME NEW ok \in BOOLEAN, ServerResolves(ok)
      PROVE  TypeOK'
  <2>1. s2c' \in Seq(FrameType)
    BY <1>1, <1>f, SentTypes DEF ServerResolves, Down
  <2>2. s' \in ServerType
    BY <1>1 DEF ServerResolves, ServerType
  <2> QED
    BY <1>1, <2>1, <2>2 DEF ServerResolves, Down
<1>2. ASSUME NEW ok \in BOOLEAN, ServerConnects(ok)
      PROVE  TypeOK'
  <2>1. s2c' \in Seq(FrameType)
    <3>1. Frame("SYNACK", IF ok THEN 0 ELSE 1) \in FrameType
      BY <1>f
    <3> QED
      BY <1>2, <3>1, SentTypes DEF ServerConnects, Down
  <2>2. s' \in ServerType
    BY <1>2 DEF ServerConnects, ServerType
  <2> QED
    BY <1>2, <2>1, <2>2 DEF ServerConnects, Down
<1>3. CASE ServerReads
  <2>1. s.read + 1 \in Nat
    BY DEF ServerType
  <2>2. s2c' \in Seq(FrameType)
    <3>1. Frame("DATA", s.read + 1) \in FrameType
      BY <1>f, <2>1
    <3> QED
      BY <1>3, <3>1, SentTypes DEF ServerReads, Down
  <2>3. ASSUME NEW n \in Nat PROVE [s EXCEPT !.read = n] \in ServerType
    BY DEF ServerType
  <2>4. s' = [s EXCEPT !.read = s.read + 1]
    BY <1>3 DEF ServerReads
  <2>5. s' \in ServerType
    BY <2>1, <2>3, <2>4, Zenon
  <2> QED
    BY <1>3, <2>2, <2>5 DEF ServerReads, Down
<1>4. CASE ServerWrites
  <2>1. s.out \in Seq(ItemType) /\ t.recv \in Seq(Nat)
    BY TargetFacts DEF ServerType, TargetType
  <2>2. Head(s.out) \in ItemType /\ Tail(s.out) \in Seq(ItemType)
    BY <1>4, <2>1, TailFacts DEF ServerWrites
  <2>3. Append(t.recv, Head(s.out).val) \in Seq(Nat)
    BY <2>1, <2>2, AppendFacts, ItemFacts
  <2>4. s' \in ServerType
    BY <1>4, <2>2 DEF ServerWrites, ServerType
  <2>5. [t EXCEPT !.recv = Append(t.recv, Head(s.out).val)] \in TargetType
    BY <2>3, TargetFacts, Zenon DEF TargetType
  <2>6. t' \in TargetType
    BY <1>4, <2>5, Zenon DEF ServerWrites
  <2> QED
    BY <1>4, <2>4, <2>6 DEF ServerWrites
<1>5. ASSUME NEW failing \in BOOLEAN, ServerSocketCloses(failing)
      PROVE  TypeOK'
  <2>1. s2c' \in Seq(FrameType)
    BY <1>5, <1>f, SentTypes DEF ServerSocketCloses, Down
  <2>2. s' \in ServerType
    BY <1>5, <1>f DEF ServerSocketCloses, ServerType
  <2> QED
    BY <1>5, <2>1, <2>2 DEF ServerSocketCloses, Down
<1>6. CASE ServerDrained
  BY <1>5, <1>6 DEF ServerDrained
<1>7. CASE ServerReadsEof
  BY <1>5, <1>7 DEF ServerReadsEof
<1>8. CASE ServerFails
  BY <1>5, <1>8 DEF ServerFails
<1> QED
  BY <1>1, <1>2, <1>3, <1>4, <1>6, <1>7, <1>8 DEF ServerStrand

(* Every handler keeps the type.                                           *)
LEMMA NextTypeOK == TypeOK /\ Next => TypeOK'
BY EnvironmentTypeOK, ClientStrandTypeOK, ClientRtcTypeOK, ServerRtcTypeOK,
   ServerStrandTypeOK DEF Next, Environment, System

-----------------------------------------------------------------------------
(* What the steps do, item by item.                                        *)

Pushed(q, q2, x) ==
    /\ Len(q2) = Len(q) + 1 /\ q2[Len(q) + 1] = x
    /\ \A j \in 1..Len(q) : q2[j] = q[j]

Popped(q, q2) ==
    /\ Len(q) >= 1 /\ Len(q2) = Len(q) - 1
    /\ \A j \in 1..Len(q2) : q2[j] = q[j + 1]

(* An item is offered to a socket, a frame to the channel.                 *)
Offered(closed, q, q2, x) ==
    /\ Takes(closed, q) => Pushed(q, q2, x)
    /\ ~Takes(closed, q) => q2 = q

Sends(q, q2, f) ==
    /\ dc = "open" => Pushed(q, q2, f)
    /\ dc # "open" => q2 = q

(* What a step leaves alone.                                               *)
ReaderStill == c'.read = c.read /\ c'.pending = c.pending /\ c'.step = c.step
DoorStill ==
    c'.closed = c.closed /\ c'.aborted = c.aborted /\ c'.bad = c.bad /\ c'.ptr = c.ptr
PhaseStill == c'.phase = c.phase /\ c'.mux = c.mux
DialStill ==
    s'.dial = s.dial /\ s'.fd = s.fd /\ s'.connected = s.connected /\ s'.read = s.read
FarDoorStill == s'.closed = s.closed /\ s'.failed = s.failed /\ s'.bad = s.bad

BrowserSame == b' = b /\ protocol' = protocol
TargetSame == t' = t
ChannelSame == dc' = dc /\ c2s' = c2s /\ s2c' = s2c
HandsSame == crtc' = crtc /\ srtc' = srtc

(* The lengths are numbers, the elements what the types say.               *)
LEMMA Lens ==
    ASSUME TypeOK
    PROVE  /\ Len(c2s) \in Nat /\ Len(s2c) \in Nat
           /\ Len(b.recv) \in Nat /\ Len(t.recv) \in Nat
           /\ Len(c.out) \in Nat /\ Len(s.out) \in Nat /\ Len(c.pending) \in Nat
           /\ c2s = <<>> <=> Len(c2s) = 0
           /\ s2c = <<>> <=> Len(s2c) = 0
           /\ b.recv = <<>> <=> Len(b.recv) = 0
           /\ t.recv = <<>> <=> Len(t.recv) = 0
           /\ c.out = <<>> <=> Len(c.out) = 0
           /\ s.out = <<>> <=> Len(s.out) = 0
<1>1. /\ c2s \in Seq(FrameType) /\ s2c \in Seq(FrameType)
      /\ b.recv \in Seq(ItemType) /\ c.out \in Seq(ItemType)
      /\ c.pending \in Seq(Nat) /\ s.out \in Seq(ItemType)
  BY DEF TypeOK, PeerType, ClientType, ServerType
<1>2. t.recv \in Seq(Nat)
  BY TargetFacts DEF TypeOK, TargetType
<1> QED
  BY <1>1, <1>2, EmptyFacts

(* The kinds and ordinals of what the queues hold.                         *)
LEMMA Elements ==
    ASSUME TypeOK
    PROVE  /\ \A k \in 1..Len(c2s) : c2s[k].type \in {"SYN", "SYNACK", "DATA", "FIN"} /\ c2s[k].val \in Nat
           /\ \A k \in 1..Len(s2c) : s2c[k].type \in {"SYN", "SYNACK", "DATA", "FIN"} /\ s2c[k].val \in Nat
           /\ \A i \in 1..Len(b.recv) : b.recv[i].kind \in {"chunk", "reply", "close"} /\ b.recv[i].val \in Nat
           /\ \A i \in 1..Len(c.out) : c.out[i].kind \in {"chunk", "reply", "close"} /\ c.out[i].val \in Nat
           /\ \A i \in 1..Len(s.out) : s.out[i].kind \in {"chunk", "reply", "close"} /\ s.out[i].val \in Nat
           /\ \A i \in 1..Len(t.recv) : t.recv[i] \in Nat
           /\ \A i \in 1..Len(c.pending) : c.pending[i] \in Nat
<1>1. /\ c2s \in Seq(FrameType) /\ s2c \in Seq(FrameType)
      /\ b.recv \in Seq(ItemType) /\ c.out \in Seq(ItemType)
      /\ c.pending \in Seq(Nat) /\ s.out \in Seq(ItemType)
  BY DEF TypeOK, PeerType, ClientType, ServerType
<1>2. t.recv \in Seq(Nat)
  BY TargetFacts DEF TypeOK, TargetType
<1>3. \A f \in FrameType : f.type \in {"SYN", "SYNACK", "DATA", "FIN"} /\ f.val \in Nat
  BY DEF FrameType
<1>4. /\ \A k \in 1..Len(c2s) : c2s[k] \in FrameType
      /\ \A k \in 1..Len(s2c) : s2c[k] \in FrameType
      /\ \A i \in 1..Len(b.recv) : b.recv[i] \in ItemType
      /\ \A i \in 1..Len(c.out) : c.out[i] \in ItemType
      /\ \A i \in 1..Len(s.out) : s.out[i] \in ItemType
      /\ \A i \in 1..Len(t.recv) : t.recv[i] \in Nat
      /\ \A i \in 1..Len(c.pending) : c.pending[i] \in Nat
  BY <1>1, <1>2, EmptyFacts
<1> QED
  BY <1>3, <1>4, ItemFacts

(* The hands and the counters.                                             *)
LEMMA Numbers ==
    ASSUME TypeOK
    PROVE  /\ c.read \in Nat /\ b.sent \in Nat /\ s.read \in Nat /\ t.sent \in Nat
           /\ crtc.val \in Nat /\ srtc.val \in Nat
           /\ crtc.type \in {"none", "SYN", "SYNACK", "DATA", "FIN"}
           /\ srtc.type \in {"none", "SYN", "SYNACK", "DATA", "FIN"}
           /\ crtc.at \in {"idle", "found", "replied", "checked"}
           /\ Idle.type = "none"
<1>1. t.sent \in Nat
  BY TargetFacts DEF TypeOK, TargetType
<1> QED
  BY <1>1 DEF TypeOK, ClientType, ServerType, PeerType, HandType, Idle

(* Posting to the client's socket, through the pointer or not: when the    *)
(* pointer is null the socket is closed.                                   *)
LEMMA ClientTakes ==
    ASSUME TypeOK, SocketInv, NEW item \in ItemType
    PROVE  /\ c'.out = Posted(c, item) => Offered(c.closed, c.out, c'.out, item)
           /\ c'.out = (IF c.ptr THEN Posted(c, item) ELSE c.out)
                => Offered(c.closed, c.out, c'.out, item)
<1>1. c.out \in Seq(ItemType) /\ c.closed \in BOOLEAN
  BY DEF TypeOK, ClientType
<1>2. Pushed(c.out, Append(c.out, item), item)
  BY <1>1, AppendFacts DEF Pushed
<1>3. Offered(c.closed, c.out, Posted(c, item), item)
  BY <1>1, <1>2, PostFacts DEF Offered
<1>4. ~c.ptr => Offered(c.closed, c.out, c.out, item)
  BY DEF SocketInv, ClientSocket, Offered, Takes
<1>5. CASE c.ptr
  BY <1>3, <1>5
<1>6. CASE ~c.ptr
  BY <1>3, <1>4, <1>6
<1> QED
  BY <1>5, <1>6

(* An item posted to the target's socket is its last, or is refused.       *)
LEMMA ServerTakes ==
    ASSUME TypeOK, NEW item \in ItemType, s'.out = Posted(s, item)
    PROVE  Offered(s.closed, s.out, s'.out, item)
<1>1. s.out \in Seq(ItemType) /\ s.closed \in BOOLEAN
  BY DEF TypeOK, ServerType
<1>2. Pushed(s.out, Append(s.out, item), item)
  BY <1>1, AppendFacts DEF Pushed
<1> QED
  BY <1>1, <1>2, PostFacts DEF Offered

(* Sending a frame.                                                        *)
LEMMA ChannelTakes ==
    ASSUME TypeOK, NEW f \in FrameType
    PROVE  /\ c2s' = Sent(c2s, <<f>>) => Sends(c2s, c2s', f)
           /\ s2c' = Sent(s2c, <<f>>) => Sends(s2c, s2c', f)
           /\ Sent(c2s, <<>>) = c2s /\ Sent(s2c, <<>>) = s2c
<1>1. c2s \in Seq(FrameType) /\ s2c \in Seq(FrameType)
  BY DEF TypeOK
<1>2. Pushed(c2s, Append(c2s, f), f) /\ Pushed(s2c, Append(s2c, f), f)
  BY <1>1, AppendFacts DEF Pushed
<1> QED
  BY <1>1, <1>2, SentFacts DEF Sends

(* Taking the oldest.                                                      *)
LEMMA Oldest ==
    ASSUME NEW S, NEW q \in Seq(S), q # <<>>
    PROVE  Popped(q, Tail(q)) /\ Head(q) = q[1] /\ q[1] \in S
BY TailFacts DEF Popped

(* The client's strand.                                                    *)
LEMMA ClientRequestsMoves ==
    ASSUME TypeOK, ClientRequests
    PROVE  /\ c.phase = "Handshake" /\ c.step = "idle" /\ ~c.closed /\ ~c.bad
           /\ c'.phase = c.phase /\ c'.mux /\ c'.step = "syn_sent"
           /\ protocol = "HttpPlain" => c'.read = c.read + 1 /\ c.read < b.sent
           /\ protocol # "HttpPlain" => c'.read = c.read
           /\ c'.pending = c.pending /\ DoorStill /\ c'.out = c.out
           /\ Sends(c2s, c2s', Frame("SYN", 0)) /\ s2c' = s2c /\ dc' = dc
           /\ BrowserSame /\ HandsSame /\ s' = s /\ TargetSame
<1>1. c2s' = Sent(c2s, <<Frame("SYN", 0)>>) /\ s2c' = s2c
  BY DEF ClientRequests, Up
<1>2. Sends(c2s, c2s', Frame("SYN", 0))
  BY <1>1, FrameFacts, ChannelTakes
<1> QED
  BY <1>1, <1>2 DEF ClientRequests, StrandFree, TypeOK, ClientType,
     DoorStill, BrowserSame, HandsSame, TargetSame

(* A plain request waits in the step "connecting", a CONNECT is read on.   *)
LEMMA ClientConnectingMoves ==
    ASSUME TypeOK, ClientConnecting
    PROVE  /\ c.step = "syn_sent" /\ c'.phase = "Connecting" /\ c'.mux = c.mux
           /\ protocol = "HttpPlain" => c'.step = "connecting"
           /\ protocol # "HttpPlain" => c'.step = "idle"
           /\ c'.read = c.read /\ c'.pending = c.pending
           /\ DoorStill /\ c'.out = c.out
           /\ ChannelSame /\ BrowserSame /\ HandsSame /\ s' = s /\ TargetSame
BY DEF ClientConnecting, TypeOK, ClientType, DoorStill, ChannelSame, BrowserSame,
   HandsSame, TargetSame

(* Part of the request's head is kept until the rest of it comes.          *)
LEMMA ClientReadsPartOfHeadMoves ==
    ASSUME TypeOK, ClientReadsPartOfHead
    PROVE  /\ c.phase = "Handshake" /\ c.step = "idle" /\ c.read < b.sent
           /\ c'.read = c.read + 1 /\ c'.step = c.step
           /\ Pushed(c.pending, c'.pending, c.read + 1)
           /\ PhaseStill /\ DoorStill /\ c'.out = c.out
           /\ ChannelSame /\ BrowserSame /\ HandsSame /\ s' = s /\ TargetSame
<1>1. c.pending \in Seq(Nat) /\ c.read + 1 \in Nat
  BY DEF TypeOK, ClientType
<1>2. Pushed(c.pending, Append(c.pending, c.read + 1), c.read + 1)
  BY <1>1, AppendFacts DEF Pushed
<1>3. c'.pending = Append(c.pending, c.read + 1)
  BY DEF ClientReadsPartOfHead, TypeOK, ClientType
<1> QED
  BY <1>2, <1>3 DEF ClientReadsPartOfHead, StrandFree, TypeOK, ClientType, PhaseStill,
     DoorStill, ChannelSame, BrowserSame, HandsSame, TargetSame

(* consume_pending keeps the request that was just parsed.                 *)
LEMMA ClientKeepsRequestMoves ==
    ASSUME TypeOK, ClientKeepsRequest
    PROVE  /\ c.step = "connecting" /\ c'.step = "idle" /\ c'.read = c.read
           /\ Pushed(c.pending, c'.pending, c.read)
           /\ PhaseStill /\ DoorStill /\ c'.out = c.out
           /\ ChannelSame /\ BrowserSame /\ HandsSame /\ s' = s /\ TargetSame
<1>1. c.pending \in Seq(Nat) /\ c.read \in Nat
  BY DEF TypeOK, ClientType
<1>2. Pushed(c.pending, Append(c.pending, c.read), c.read)
  BY <1>1, AppendFacts DEF Pushed
<1>3. c'.pending = Append(c.pending, c.read)
  BY DEF ClientKeepsRequest, TypeOK, ClientType
<1> QED
  BY <1>2, <1>3 DEF ClientKeepsRequest, TypeOK, ClientType, PhaseStill,
     DoorStill, ChannelSame, BrowserSame, HandsSame, TargetSame

(* A request that cannot be parsed closes the browser's socket before      *)
(* anything is asked.                                                      *)
LEMMA ClientRejectsMoves ==
    ASSUME TypeOK, SocketInv, ClientRejects
    PROVE  /\ c.phase = "Handshake" /\ c.step = "idle" /\ ~c.closed /\ ~c.bad
           /\ c'.mux = c.mux /\ c'.closed = c.closed /\ c'.ptr = c.ptr /\ c'.aborted = c.aborted
           /\ protocol = "Socks5Connect" => c'.phase = "Closed" /\ ~c'.bad
           /\ protocol # "Socks5Connect" => c'.phase = c.phase /\ c'.bad
           /\ Offered(c.closed, c.out, c'.out, Close)
           /\ ReaderStill
           /\ ChannelSame /\ BrowserSame /\ HandsSame /\ s' = s /\ TargetSame
<1>1. c'.out = Posted(c, Close)
  BY DEF ClientRejects, TypeOK, ClientType
<1>2. Offered(c.closed, c.out, c'.out, Close)
  BY <1>1, ItemFacts, ClientTakes
<1> QED
  BY <1>2 DEF ClientRejects, StrandFree, TypeOK, ClientType, ReaderStill,
     ChannelSame, BrowserSame, HandsSame, TargetSame

(* process_data after the handshake: one chunk read, and sent as one DATA  *)
(* when connected.                                                         *)
LEMMA ClientReadsMoves ==
    ASSUME TypeOK, SocketInv, ClientReads
    PROVE  /\ c.phase # "Handshake" /\ c.step = "idle" /\ ~c.closed /\ c.read < b.sent
           /\ c'.read = c.read + 1 /\ c'.pending = c.pending /\ c'.step = c.step
           /\ c.phase = "Closed" => Offered(c.closed, c.out, c'.out, Close)
           /\ c.phase # "Closed" => c'.out = c.out
           /\ c.phase = "Connected" => Sends(c2s, c2s', Frame("DATA", c.read + 1))
           /\ c.phase # "Connected" => c2s' = c2s
           /\ s2c' = s2c /\ dc' = dc /\ PhaseStill /\ DoorStill
           /\ BrowserSame /\ HandsSame /\ s' = s /\ TargetSame
<1>1. Frame("DATA", c.read + 1) \in FrameType
  BY FrameFacts, Numbers
<1>2. /\ c.phase = "Connected" => c2s' = Sent(c2s, <<Frame("DATA", c.read + 1)>>)
      /\ c.phase # "Connected" => c2s' = Sent(c2s, <<>>)
      /\ s2c' = s2c
  BY DEF ClientReads, Up
<1>3. /\ c.phase = "Connected" => Sends(c2s, c2s', Frame("DATA", c.read + 1))
      /\ c.phase # "Connected" => c2s' = c2s
  BY <1>1, <1>2, ChannelTakes
<1>4. /\ c.phase = "Closed" => c'.out = Posted(c, Close)
      /\ c.phase # "Closed" => c'.out = c.out
  BY DEF ClientReads, TypeOK, ClientType
<1>5. c.phase = "Closed" => Offered(c.closed, c.out, c'.out, Close)
  BY <1>4, ItemFacts, ClientTakes
<1> QED
  BY <1>2, <1>3, <1>4, <1>5 DEF ClientReads, StrandFree, TypeOK, ClientType, PhaseStill,
     DoorStill, BrowserSame, HandsSame, TargetSame

(* The browser's socket writes its oldest item.                            *)
LEMMA ClientWritesMoves ==
    ASSUME TypeOK, ClientWrites
    PROVE  /\ ~c.closed /\ Popped(c.out, c'.out) /\ c.out[1].kind # "close"
           /\ Pushed(b.recv, b'.recv, c.out[1]) /\ b'.sent = b.sent /\ b'.eof = b.eof
           /\ ReaderStill /\ PhaseStill /\ DoorStill
           /\ ChannelSame /\ HandsSame /\ s' = s /\ TargetSame /\ protocol' = protocol
<1>1. c.out \in Seq(ItemType) /\ b.recv \in Seq(ItemType) /\ c.out # <<>>
  BY DEF ClientWrites, TypeOK, ClientType, PeerType
<1>2. Popped(c.out, Tail(c.out)) /\ Head(c.out) = c.out[1] /\ c.out[1] \in ItemType
  BY <1>1, Oldest
<1>3. Pushed(b.recv, Append(b.recv, c.out[1]), c.out[1])
  BY <1>1, <1>2, AppendFacts DEF Pushed
<1>4. c.out[1].kind # "close"
  BY <1>2, ItemFacts DEF ClientWrites
<1>5. c'.out = Tail(c.out) /\ b'.recv = Append(b.recv, c.out[1])
  BY <1>2 DEF ClientWrites, TypeOK, ClientType, PeerType
<1> QED
  BY <1>2, <1>3, <1>4, <1>5 DEF ClientWrites, StrandFree, TypeOK, ClientType, PeerType,
     ReaderStill, PhaseStill, DoorStill, ChannelSame, HandsSame, TargetSame

(* do_close, after a drain or after a failed read.                         *)
LEMMA ClientClosesMoves ==
    ASSUME TypeOK, ClientDrained \/ ClientReadFails
    PROVE  /\ ~c.closed /\ c'.closed /\ c'.bad = c.bad /\ c'.ptr = c.ptr
           /\ c'.out = <<>>
           /\ ~c'.aborted => c.out # <<>> /\ c.out[1].kind = "close"
           /\ ReaderStill /\ PhaseStill
           /\ \/ c2s' = c2s
              \/ c.mux /\ Sends(c2s, c2s', Frame("FIN", 0))
           /\ s2c' = s2c /\ dc' = dc
           /\ BrowserSame /\ HandsSame /\ s' = s /\ TargetSame
<1>1. PICK aborting \in BOOLEAN :
         /\ ClientSocketCloses(aborting)
         /\ ~aborting => c.out # <<>> /\ Head(c.out) = Close
  BY Zenon DEF ClientDrained, ClientReadFails
<1>2. ~aborting => c.out # <<>> /\ c.out[1].kind = "close"
  <2>1. c.out \in Seq(ItemType)
    BY DEF TypeOK, ClientType
  <2> QED
    BY <1>1, <2>1, Oldest, ItemFacts
<1>3. \/ c2s' = Sent(c2s, <<>>)
      \/ c.mux /\ c2s' = Sent(c2s, <<Frame("FIN", 0)>>)
  BY <1>1 DEF ClientSocketCloses, Up
<1>4. \/ c2s' = c2s
      \/ c.mux /\ Sends(c2s, c2s', Frame("FIN", 0))
  BY <1>3, FrameFacts, ChannelTakes
<1>5. ~c.closed
  BY DEF ClientDrained, ClientReadFails, StrandFree
<1>6. c'.aborted = aborting
  BY <1>1 DEF ClientSocketCloses, TypeOK, ClientType
<1>7. ~c'.aborted => c.out # <<>> /\ c.out[1].kind = "close"
  BY <1>2, <1>6
<1> QED
  BY <1>1, <1>4, <1>5, <1>7 DEF ClientSocketCloses, Up, TypeOK, ClientType, ReaderStill,
     PhaseStill, BrowserSame, HandsSame, TargetSame

(* The pointer to the browser's socket is reset once the socket is closed. *)
LEMMA ClientResetsSocketMoves ==
    ASSUME TypeOK, ClientResetsSocket
    PROVE  /\ c.closed /\ c'.closed = c.closed /\ c'.aborted = c.aborted /\ c'.bad = c.bad
           /\ ReaderStill /\ PhaseStill /\ c'.out = c.out
           /\ ChannelSame /\ BrowserSame /\ HandsSame /\ s' = s /\ TargetSame
BY DEF ClientResetsSocket, TypeOK, ClientType, ReaderStill, PhaseStill, ChannelSame,
   BrowserSame, HandsSame, TargetSame

(* With the last reference gone, ~Socks5Session leaves the multiplexer.    *)
LEMMA ClientDestroyedMoves ==
    ASSUME TypeOK, ClientDestroyed
    PROVE  /\ ~c.ptr /\ c'.phase = c.phase /\ ~c'.mux
           /\ ReaderStill /\ DoorStill /\ c'.out = c.out
           /\ ChannelSame /\ BrowserSame /\ HandsSame /\ s' = s /\ TargetSame
BY DEF ClientDestroyed, TypeOK, ClientType, ReaderStill, DoorStill, ChannelSame,
   BrowserSame, HandsSame, TargetSame

(* SocksServer::stop closes the browser's socket behind what is queued.    *)
LEMMA ClientStopsMoves ==
    ASSUME TypeOK, SocketInv, ClientStops
    PROVE  /\ dc = "closed"
           /\ Offered(c.closed, c.out, c'.out, Close)
           /\ ReaderStill /\ PhaseStill /\ DoorStill
           /\ ChannelSame /\ BrowserSame /\ HandsSame /\ s' = s /\ TargetSame
<1>1. c'.out = IF c.ptr THEN Posted(c, Close) ELSE c.out
  BY DEF ClientStops, TypeOK, ClientType
<1>2. Offered(c.closed, c.out, c'.out, Close)
  BY <1>1, ItemFacts, ClientTakes
<1> QED
  BY <1>2 DEF ClientStops, TypeOK, ClientType, ReaderStill, PhaseStill, DoorStill,
     ChannelSame, BrowserSame, HandsSame, TargetSame

(* The client's rtc thread.                                                *)
LEMMA ClientFindsMoves ==
    ASSUME TypeOK, ClientFinds
    PROVE  /\ crtc.type = "none" /\ Popped(s2c, s2c')
           /\ c.mux => /\ crtc'.type = s2c[1].type /\ crtc'.val = s2c[1].val
                       /\ crtc'.at = "found"
           /\ ~c.mux => crtc'.type = "none"
           /\ c2s' = c2s /\ dc' = dc /\ srtc' = srtc
           /\ BrowserSame /\ c' = c /\ s' = s /\ TargetSame
<1>1. s2c \in Seq(FrameType) /\ s2c # <<>>
  BY DEF ClientFinds, TypeOK
<1>2. Popped(s2c, Tail(s2c)) /\ Head(s2c) = s2c[1]
  BY <1>1, Oldest
<1> QED
  BY <1>2 DEF ClientFinds, Found, Idle, BrowserSame, TargetSame

(* What ClientUsesSocket does to the client.                               *)
LEMMA ClientUsesMoves ==
    ASSUME TypeOK, SocketInv, NEW item \in ItemType, ClientUsesSocket(item)
    PROVE  /\ Offered(c.closed, c.out, c'.out, item)
           /\ ReaderStill /\ PhaseStill /\ DoorStill
<1>1. c'.out = IF c.ptr THEN Posted(c, item) ELSE c.out
  BY DEF ClientUsesSocket, TypeOK, ClientType
<1>2. Offered(c.closed, c.out, c'.out, item)
  BY <1>1, ClientTakes
<1> QED
  BY <1>2 DEF ClientUsesSocket, TypeOK, ClientType, ReaderStill, PhaseStill, DoorStill

(* p2p_data posts the chunk to the browser's socket.                       *)
LEMMA ClientDataMoves ==
    ASSUME TypeOK, SocketInv, ClientData
    PROVE  /\ crtc.type = "DATA" /\ ~c.bad /\ crtc'.type = "none"
           /\ Offered(c.closed, c.out, c'.out, Chunk(crtc.val))
           /\ ReaderStill /\ PhaseStill /\ DoorStill
           /\ ChannelSame /\ srtc' = srtc /\ BrowserSame /\ s' = s /\ TargetSame
<1>1. Chunk(crtc.val) \in ItemType
  BY Numbers, ItemFacts
<1> QED
  BY <1>1, ClientUsesMoves DEF ClientData, Idle, ChannelSame, BrowserSame, TargetSame

(* A response the parser rejects closes the browser's socket.              *)
LEMMA ClientBadResponseMoves ==
    ASSUME TypeOK, SocketInv, ClientBadResponse
    PROVE  /\ crtc.type = "DATA" /\ crtc'.type = "none" /\ c'.bad
           /\ c'.closed = c.closed /\ c'.ptr = c.ptr /\ c'.aborted = c.aborted
           /\ Offered(c.closed, c.out, c'.out, Close)
           /\ ReaderStill /\ PhaseStill
           /\ ChannelSame /\ srtc' = srtc /\ BrowserSame /\ s' = s /\ TargetSame
<1>1. c'.out = IF c.ptr THEN Posted(c, Close) ELSE c.out
  BY DEF ClientBadResponse, TypeOK, ClientType
<1>2. Offered(c.closed, c.out, c'.out, Close)
  BY <1>1, ItemFacts, ClientTakes
<1> QED
  BY <1>2 DEF ClientBadResponse, Idle, TypeOK, ClientType, ReaderStill, PhaseStill,
     ChannelSame, BrowserSame, TargetSame

(* DATA for a session that is gone is dropped.                             *)
LEMMA ClientIgnoresDataMoves ==
    ASSUME TypeOK, ClientIgnoresData
    PROVE  /\ crtc.type = "DATA" /\ crtc'.type = "none" /\ c.bad
           /\ ChannelSame /\ srtc' = srtc /\ BrowserSame /\ c' = c /\ s' = s /\ TargetSame
BY DEF ClientIgnoresData, Idle, ChannelSame, BrowserSame, TargetSame

(* The requests kept so far go up.                                         *)
LEMMA ClientReplaysMoves ==
    ASSUME TypeOK, ClientSynackReply, protocol = "HttpPlain" /\ crtc.val = 0
    PROVE  /\ crtc.type = "SYNACK" /\ crtc.at = "found"
           /\ crtc'.type = "SYNACK" /\ crtc'.at = "replied" /\ crtc'.val = crtc.val
           /\ dc # "open" => c2s' = c2s
           /\ dc = "open" =>
                 /\ Len(c2s') = Len(c2s) + Len(c.pending)
                 /\ \A k \in 1..Len(c2s) : c2s'[k] = c2s[k]
                 /\ \A k \in 1..Len(c2s') : k > Len(c2s) =>
                       /\ k - Len(c2s) \in 1..Len(c.pending)
                       /\ c2s'[k].type = "DATA"
                       /\ c2s'[k].val = c.pending[k - Len(c2s)]
           /\ s2c' = s2c /\ dc' = dc /\ srtc' = srtc
           /\ Len(c'.pending) = 0 /\ c'.read = c.read /\ c'.step = c.step
           /\ PhaseStill /\ DoorStill /\ c'.out = c.out
           /\ BrowserSame /\ s' = s /\ TargetSame
<1> DEFINE q == [i \in 1..Len(c.pending) |-> Frame("DATA", c.pending[i])]
<1>1. c2s' = Sent(c2s, q) /\ s2c' = s2c
  BY DEF ClientSynackReply, Up
<1>2. /\ q \in Seq(FrameType) /\ Len(q) = Len(c.pending) /\ Len(c.pending) \in Nat
      /\ \A i \in 1..Len(c.pending) : q[i].type = "DATA" /\ q[i].val = c.pending[i]
  BY PendingFrames
<1> HIDE DEF q
<1>3. c2s \in Seq(FrameType) /\ Len(c2s) \in Nat
  BY Lens DEF TypeOK
<1>4. ASSUME dc = "open"
      PROVE  /\ Len(c2s') = Len(c2s) + Len(c.pending)
             /\ \A k \in 1..Len(c2s) : c2s'[k] = c2s[k]
             /\ \A k \in 1..Len(c2s') : k > Len(c2s) =>
                   /\ k - Len(c2s) \in 1..Len(c.pending)
                   /\ c2s'[k].type = "DATA"
                   /\ c2s'[k].val = c.pending[k - Len(c2s)]
  <2>1. c2s' = c2s \o q
    BY <1>1, <1>4 DEF Sent
  <2>2. /\ Len(c2s') = Len(c2s) + Len(c.pending)
        /\ \A k \in 1..Len(c2s) + Len(q) :
              c2s'[k] = IF k =< Len(c2s) THEN c2s[k] ELSE q[k - Len(c2s)]
    <3>1. /\ Len(c2s \o q) = Len(c2s) + Len(q)
          /\ \A k \in 1..Len(c2s) + Len(q) :
                (c2s \o q)[k] = IF k =< Len(c2s) THEN c2s[k] ELSE q[k - Len(c2s)]
      BY <1>2, <1>3, ConcatFacts
    <3> QED
      BY <2>1, <3>1, <1>2, Zenon
  <2>3. \A k \in 1..Len(c2s) : k \in 1..Len(c2s) + Len(q) /\ k =< Len(c2s)
    BY <1>2, <1>3
  <2>4. \A k \in 1..Len(c2s') : k > Len(c2s) =>
           k - Len(c2s) \in 1..Len(c.pending) /\ c2s'[k] = q[k - Len(c2s)]
    BY <1>2, <1>3, <2>2
  <2> QED
    BY <1>2, <2>2, <2>3, <2>4
<1>5. dc # "open" => c2s' = c2s
  BY <1>1 DEF Sent
<1>6. c'.pending = <<>> /\ Len(c'.pending) = 0
  BY EmptySeq DEF ClientSynackReply, TypeOK, ClientType
<1> QED
  BY <1>1, <1>4, <1>5, <1>6 DEF ClientSynackReply, TypeOK, ClientType, HandType, PhaseStill,
     DoorStill, BrowserSame, TargetSame

(* The reply goes to the browser.                                          *)
LEMMA ClientRepliesMoves ==
    ASSUME TypeOK, SocketInv, ClientSynackReply, ~(protocol = "HttpPlain" /\ crtc.val = 0)
    PROVE  /\ crtc.type = "SYNACK" /\ crtc.at = "found"
           /\ crtc'.type = "SYNACK" /\ crtc'.at = "replied" /\ crtc'.val = crtc.val
           /\ Offered(c.closed, c.out, c'.out, Reply(crtc.val = 0))
           /\ ReaderStill /\ PhaseStill /\ DoorStill
           /\ ChannelSame /\ srtc' = srtc /\ BrowserSame /\ s' = s /\ TargetSame
<1>1. Reply(crtc.val = 0) \in ItemType
  BY ItemFacts
<1>2. ClientUsesSocket(Reply(crtc.val = 0))
  BY DEF ClientSynackReply
<1> QED
  BY <1>1, <1>2, ClientUsesMoves
     DEF ClientSynackReply, TypeOK, HandType, ChannelSame, BrowserSame, TargetSame

(* After the reply was posted, p2p_synack sets the phase, or closes.       *)
LEMMA ClientSynackPhaseMoves ==
    ASSUME TypeOK, SocketInv, ClientSynackPhase
    PROVE  /\ crtc.type = "SYNACK" /\ crtc.at = "replied" /\ crtc'.type = "none"
           /\ crtc.val = 0 => c'.phase = "Connected" /\ c'.out = c.out
           /\ crtc.val # 0 => /\ c'.phase = "Closed"
                              /\ Offered(c.closed, c.out, c'.out, Close)
           /\ c'.mux = c.mux /\ ReaderStill /\ DoorStill
           /\ ChannelSame /\ srtc' = srtc /\ BrowserSame /\ s' = s /\ TargetSame
<1>1. ASSUME crtc.val # 0
      PROVE  Offered(c.closed, c.out, c'.out, Close)
  <2>1. c'.out = IF c.ptr THEN Posted(c, Close) ELSE c.out
    BY <1>1 DEF ClientSynackPhase, TypeOK, ClientType
  <2> QED
    BY <2>1, ItemFacts, ClientTakes
<1> QED
  BY <1>1 DEF ClientSynackPhase, Idle, TypeOK, ClientType, ReaderStill, DoorStill,
     ChannelSame, BrowserSame, TargetSame

(* p2p_close tests the session's pointer.                                  *)
LEMMA ClientFinTestMoves ==
    ASSUME TypeOK, ClientFinTest
    PROVE  /\ crtc.type = "FIN"
           /\ crtc'.type = "none" => ~c.ptr
           /\ crtc'.type \in {"FIN", "none"}
           /\ ReaderStill /\ PhaseStill /\ DoorStill /\ c'.out = c.out
           /\ ChannelSame /\ srtc' = srtc /\ BrowserSame /\ s' = s /\ TargetSame
BY DEF ClientFinTest, Idle, TypeOK, ClientType, HandType, ReaderStill, PhaseStill, DoorStill,
   ChannelSame, BrowserSame, TargetSame

(* p2p_close then closes the browser's socket, unless the pointer went     *)
(* null in between.                                                        *)
LEMMA ClientFinUseMoves ==
    ASSUME TypeOK, SocketInv, ClientFinUse
    PROVE  /\ crtc.type = "FIN" /\ crtc'.type = "none"
           /\ Offered(c.closed, c.out, c'.out, Close)
           /\ ReaderStill /\ PhaseStill /\ DoorStill
           /\ ChannelSame /\ srtc' = srtc /\ BrowserSame /\ s' = s /\ TargetSame
BY ItemFacts, ClientUsesMoves DEF ClientFinUse, Idle, ChannelSame, BrowserSame, TargetSame

(* The environment and the channel.                                        *)
LEMMA BrowserMoves ==
    ASSUME TypeOK, BrowserSends \/ BrowserCloses
    PROVE  /\ b'.sent >= b.sent /\ b'.recv = b.recv /\ protocol' = protocol
           /\ b.eof => b'.eof
           /\ ChannelSame /\ HandsSame /\ c' = c /\ s' = s /\ TargetSame
<1>1. CASE BrowserSends
  BY <1>1 DEF BrowserSends, TypeOK, PeerType, ChannelSame, HandsSame, TargetSame
<1>2. CASE BrowserCloses
  BY <1>2 DEF BrowserCloses, TypeOK, PeerType, ChannelSame, HandsSame, TargetSame
<1> QED
  BY <1>1, <1>2

(* The target sends or ends its stream only once it is connected.          *)
LEMMA TargetMoves ==
    ASSUME TypeOK, TargetSends \/ TargetCloses
    PROVE  /\ s.connected /\ ~t.eof
           /\ t'.sent >= t.sent /\ t'.recv = t.recv /\ t'.sent \in Nat
           /\ ChannelSame /\ HandsSame /\ c' = c /\ s' = s /\ BrowserSame
<1>1. t \in TargetType /\ t.sent \in Nat
  BY TargetFacts DEF TypeOK, TargetType
<1>2. \A n \in Nat : /\ [t EXCEPT !.sent = n].sent = n
                     /\ [t EXCEPT !.sent = n].recv = t.recv
  BY <1>1 DEF TargetType
<1>3. [t EXCEPT !.eof = TRUE].sent = t.sent /\ [t EXCEPT !.eof = TRUE].recv = t.recv
  BY <1>1 DEF TargetType
<1>4. t.sent + 1 \in Nat /\ t.sent + 1 >= t.sent
  BY <1>1
<1>5. CASE TargetSends
  <2>1. t' = [t EXCEPT !.sent = t.sent + 1]
    BY <1>5 DEF TargetSends
  <2>2. t'.sent = t.sent + 1 /\ t'.recv = t.recv
    BY <2>1, <1>2, <1>4, Zenon
  <2> QED
    BY <1>4, <1>5, <2>2 DEF TargetSends, ChannelSame, HandsSame, BrowserSame
<1>6. CASE TargetCloses
  BY <1>1, <1>3, <1>6 DEF TargetCloses, ChannelSame, HandsSame, BrowserSame
<1> QED
  BY <1>5, <1>6

(* The data channel opens without a frame.                                 *)
LEMMA ChannelOpensMoves ==
    ASSUME ChannelOpens
    PROVE  /\ dc = "connecting" /\ dc' = "open" /\ c2s' = c2s /\ s2c' = s2c
           /\ BrowserSame /\ HandsSame /\ c' = c /\ s' = s /\ TargetSame
BY DEF ChannelOpens, BrowserSame, HandsSame, TargetSame

(* A channel that is lost loses the frames under way both ways.            *)
LEMMA DisconnectMoves ==
    ASSUME Disconnect
    PROVE  /\ dc = "open" /\ dc' = "closed"
           /\ c2s' = <<>> /\ s2c' = <<>> /\ Len(c2s') = 0 /\ Len(s2c') = 0
           /\ BrowserSame /\ HandsSame /\ c' = c /\ s' = s /\ TargetSame
BY EmptySeq DEF Disconnect, BrowserSame, HandsSame, TargetSame

(* onStateChange(Closed) closes the target's socket, and no FIN will be    *)
(* sent.                                                                   *)
LEMMA ServerStopsMoves ==
    ASSUME TypeOK, ServerStops
    PROVE  /\ dc = "closed" /\ s'.p2pClosed
           /\ Offered(s.closed, s.out, s'.out, Close)
           /\ DialStill /\ FarDoorStill
           /\ ChannelSame /\ BrowserSame /\ HandsSame /\ c' = c /\ TargetSame
<1>1. s'.out = Posted(s, Close)
  BY DEF ServerStops, TypeOK, ServerType
<1>2. Offered(s.closed, s.out, s'.out, Close)
  BY <1>1, ItemFacts, ServerTakes
<1> QED
  BY <1>2 DEF ServerStops, TypeOK, ServerType, DialStill, FarDoorStill, ChannelSame,
     BrowserSame, HandsSame, TargetSame

(* The server's rtc thread.                                                *)
LEMMA ServerSynMoves ==
    ASSUME TypeOK, ServerSyn
    PROVE  /\ srtc.type = "none" /\ Popped(c2s, c2s') /\ c2s[1].type = "SYN"
           /\ s'.dial = "resolving" /\ s'.fd = s.fd /\ s'.connected = s.connected
           /\ s'.read = s.read /\ s'.out = s.out /\ s'.p2pClosed = s.p2pClosed
           /\ FarDoorStill
           /\ s2c' = s2c /\ dc' = dc /\ BrowserSame /\ HandsSame /\ c' = c /\ TargetSame
<1>1. c2s \in Seq(FrameType) /\ c2s # <<>>
  BY DEF ServerSyn, TypeOK
<1>2. Popped(c2s, Tail(c2s)) /\ Head(c2s) = c2s[1]
  BY <1>1, Oldest
<1> QED
  BY <1>2 DEF ServerSyn, Idle, TypeOK, ServerType, FarDoorStill, BrowserSame, HandsSame,
     TargetSame

(* The rtc thread takes the oldest frame and finds its session.            *)
LEMMA ServerFindsMoves ==
    ASSUME TypeOK, ServerFinds
    PROVE  /\ srtc.type = "none" /\ Popped(c2s, c2s') /\ c2s[1].type # "SYN"
           /\ \/ srtc'.type = "none"
              \/ srtc'.type = c2s[1].type /\ srtc'.val = c2s[1].val
           /\ s2c' = s2c /\ dc' = dc /\ crtc' = crtc
           /\ BrowserSame /\ c' = c /\ s' = s /\ TargetSame
<1>1. c2s \in Seq(FrameType) /\ c2s # <<>>
  BY DEF ServerFinds, TypeOK
<1>2. Popped(c2s, Tail(c2s)) /\ Head(c2s) = c2s[1]
  BY <1>1, Oldest
<1> QED
  BY <1>2 DEF ServerFinds, Found, Idle, BrowserSame, TargetSame

(* p2p_data of the target's side posts the chunk to the target's socket.   *)
LEMMA ServerDataMoves ==
    ASSUME TypeOK, ServerData
    PROVE  /\ srtc.type = "DATA" /\ srtc'.type = "none"
           /\ \/ s'.out = s.out
              \/ Offered(s.closed, s.out, s'.out, Chunk(srtc.val))
           /\ s'.p2pClosed = s.p2pClosed /\ DialStill /\ FarDoorStill
           /\ ChannelSame /\ BrowserSame /\ crtc' = crtc /\ c' = c /\ TargetSame
<1>1. s'.out = s.out \/ s'.out = Posted(s, Chunk(srtc.val))
  BY DEF ServerData, TypeOK, ServerType
<1>2. Chunk(srtc.val) \in ItemType
  BY Numbers, ItemFacts
<1>3. s'.out = s.out \/ Offered(s.closed, s.out, s'.out, Chunk(srtc.val))
  BY <1>1, <1>2, ServerTakes
<1> QED
  BY <1>3 DEF ServerData, Idle, TypeOK, ServerType, DialStill, FarDoorStill, ChannelSame,
     BrowserSame, TargetSame

(* A request the parser rejects closes the target's socket.                *)
LEMMA ServerBadRequestMoves ==
    ASSUME TypeOK, ServerBadRequest
    PROVE  /\ srtc.type = "DATA" /\ srtc'.type = "none"
           /\ \/ s' = s
              \/ /\ Offered(s.closed, s.out, s'.out, Close) /\ s'.bad
                 /\ s'.p2pClosed = s.p2pClosed /\ DialStill
                 /\ s'.closed = s.closed /\ s'.failed = s.failed
           /\ ChannelSame /\ BrowserSame /\ crtc' = crtc /\ c' = c /\ TargetSame
<1>1. CASE s.iface
  <2>1. s' = [s EXCEPT !.bad = TRUE, !.out = Posted(s, Close)]
    BY <1>1 DEF ServerBadRequest
  <2>2. s'.out = Posted(s, Close)
    BY <2>1 DEF TypeOK, ServerType
  <2>3. Offered(s.closed, s.out, s'.out, Close)
    BY <2>2, ItemFacts, ServerTakes
  <2> QED
    BY <2>1, <2>3 DEF ServerBadRequest, Idle, TypeOK, ServerType, DialStill, ChannelSame,
       BrowserSame, TargetSame
<1>2. CASE ~s.iface
  BY <1>2 DEF ServerBadRequest, Idle, ChannelSame, BrowserSame, TargetSame
<1> QED
  BY <1>1, <1>2

(* DATA for a target that is gone is dropped.                              *)
LEMMA ServerIgnoresDataMoves ==
    ASSUME ServerIgnoresData
    PROVE  /\ srtc'.type = "none"
           /\ ChannelSame /\ BrowserSame /\ crtc' = crtc /\ c' = c /\ s' = s /\ TargetSame
BY DEF ServerIgnoresData, Idle, ChannelSame, BrowserSame, TargetSame

(* p2p_close of the target's side closes the target's socket behind what   *)
(* is queued.                                                              *)
LEMMA ServerFinMoves ==
    ASSUME TypeOK, ServerFin
    PROVE  /\ srtc'.type = "none"
           /\ \/ s' = s
              \/ /\ Offered(s.closed, s.out, s'.out, Close) /\ s'.p2pClosed
                 /\ DialStill /\ FarDoorStill
           /\ ChannelSame /\ BrowserSame /\ crtc' = crtc /\ c' = c /\ TargetSame
<1>1. CASE s.iface
  <2>1. s' = [s EXCEPT !.p2pClosed = TRUE, !.out = Posted(s, Close)]
    BY <1>1 DEF ServerFin
  <2>2. s'.out = Posted(s, Close)
    BY <2>1 DEF TypeOK, ServerType
  <2>3. Offered(s.closed, s.out, s'.out, Close)
    BY <2>2, ItemFacts, ServerTakes
  <2> QED
    BY <2>1, <2>3 DEF ServerFin, Idle, TypeOK, ServerType, DialStill, FarDoorStill,
       ChannelSame, BrowserSame, TargetSame
<1>2. CASE ~s.iface
  BY <1>2 DEF ServerFin, Idle, ChannelSame, BrowserSame, TargetSame
<1> QED
  BY <1>1, <1>2

(* The server's strand.                                                    *)
LEMMA ServerResolvesMoves ==
    ASSUME TypeOK, NEW ok \in BOOLEAN, ServerResolves(ok)
    PROVE  /\ s.dial = "resolving"
           /\ ok => s'.dial = "connecting" /\ s2c' = s2c
           /\ ~ok => s'.dial = "done" /\ Sends(s2c, s2c', Frame("SYNACK", 1))
           /\ s'.connected = s.connected /\ s'.read = s.read /\ s'.out = s.out
           /\ s'.p2pClosed = s.p2pClosed /\ FarDoorStill
           /\ c2s' = c2s /\ dc' = dc /\ BrowserSame /\ HandsSame /\ c' = c /\ TargetSame
<1>1. /\ ok => s2c' = Sent(s2c, <<>>)
      /\ ~ok => s2c' = Sent(s2c, <<Frame("SYNACK", 1)>>)
      /\ c2s' = c2s
  BY DEF ServerResolves, Down
<1>2. /\ ok => s2c' = s2c
      /\ ~ok => Sends(s2c, s2c', Frame("SYNACK", 1))
  BY <1>1, FrameFacts, ChannelTakes
<1> QED
  BY <1>1, <1>2 DEF ServerResolves, TypeOK, ServerType, FarDoorStill, BrowserSame, HandsSame,
     TargetSame

(* The dial ends: SYNACK says whether the target is connected.             *)
LEMMA ServerConnectsMoves ==
    ASSUME TypeOK, NEW ok \in BOOLEAN, ServerConnects(ok)
    PROVE  /\ s.dial = "connecting" /\ s'.dial = "done" /\ s'.connected = ok
           /\ ok => Sends(s2c, s2c', Frame("SYNACK", 0))
           /\ ~ok => Sends(s2c, s2c', Frame("SYNACK", 1))
           /\ s'.fd = s.fd /\ s'.read = s.read /\ s'.out = s.out
           /\ s'.p2pClosed = s.p2pClosed /\ FarDoorStill
           /\ c2s' = c2s /\ dc' = dc /\ BrowserSame /\ HandsSame /\ c' = c /\ TargetSame
<1>1. /\ ok => s2c' = Sent(s2c, <<Frame("SYNACK", 0)>>)
      /\ ~ok => s2c' = Sent(s2c, <<Frame("SYNACK", 1)>>)
      /\ c2s' = c2s
  BY DEF ServerConnects, Down
<1>2. /\ ok => Sends(s2c, s2c', Frame("SYNACK", 0))
      /\ ~ok => Sends(s2c, s2c', Frame("SYNACK", 1))
  BY <1>1, FrameFacts, ChannelTakes
<1> QED
  BY <1>1, <1>2 DEF ServerConnects, TypeOK, ServerType, FarDoorStill, BrowserSame, HandsSame,
     TargetSame

(* on_data of the target's socket: one chunk read and sent as one DATA.    *)
LEMMA ServerReadsMoves ==
    ASSUME TypeOK, ServerReads
    PROVE  /\ s.connected /\ s.fd /\ s.read < t.sent
           /\ s'.read = s.read + 1
           /\ Sends(s2c, s2c', Frame("DATA", s.read + 1))
           /\ s'.dial = s.dial /\ s'.connected = s.connected /\ s'.fd = s.fd
           /\ s'.out = s.out /\ s'.p2pClosed = s.p2pClosed /\ FarDoorStill
           /\ c2s' = c2s /\ dc' = dc /\ BrowserSame /\ HandsSame /\ c' = c /\ TargetSame
<1>1. s2c' = Sent(s2c, <<Frame("DATA", s.read + 1)>>) /\ c2s' = c2s
  BY DEF ServerReads, Down
<1>2. Sends(s2c, s2c', Frame("DATA", s.read + 1))
  BY <1>1, FrameFacts, ChannelTakes, Numbers
<1> QED
  BY <1>1, <1>2 DEF ServerReads, TypeOK, ServerType, FarDoorStill, BrowserSame, HandsSame,
     TargetSame

(* The target's socket writes its oldest item.                             *)
LEMMA ServerWritesMoves ==
    ASSUME TypeOK, ServerWrites
    PROVE  /\ ~s.closed /\ Popped(s.out, s'.out) /\ s.out[1].kind # "close"
           /\ s.connected => Pushed(t.recv, t'.recv, s.out[1].val)
           /\ ~s.connected => t'.recv = t.recv
           /\ t'.sent = t.sent /\ t'.eof = t.eof
           /\ DialStill /\ FarDoorStill /\ s'.p2pClosed = s.p2pClosed
           /\ ChannelSame /\ BrowserSame /\ HandsSame /\ c' = c
<1>1. s.out \in Seq(ItemType) /\ s.out # <<>>
  BY DEF ServerWrites, TypeOK, ServerType
<1>2. t \in TargetType /\ t.recv \in Seq(Nat)
  BY TargetFacts DEF TypeOK, TargetType
<1>3. Popped(s.out, Tail(s.out)) /\ Head(s.out) = s.out[1] /\ s.out[1] \in ItemType
  BY <1>1, Oldest
<1>4. s.out[1].kind # "close" /\ s.out[1].val \in Nat
  BY <1>3, ItemFacts DEF ServerWrites
<1>5. Pushed(t.recv, Append(t.recv, s.out[1].val), s.out[1].val)
  BY <1>2, <1>4, AppendFacts DEF Pushed
<1>6. s'.out = Tail(s.out)
  BY DEF ServerWrites, TypeOK, ServerType
<1>7. ASSUME NEW q
      PROVE  /\ [t EXCEPT !.recv = q].recv = q /\ [t EXCEPT !.recv = q].sent = t.sent
             /\ [t EXCEPT !.recv = q].eof = t.eof
  BY <1>2 DEF TargetType
<1>8. /\ s.connected => t' = [t EXCEPT !.recv = Append(t.recv, s.out[1].val)]
      /\ ~s.connected => t' = t
  BY <1>3 DEF ServerWrites
<1>9. /\ s.connected => t'.recv = Append(t.recv, s.out[1].val)
      /\ ~s.connected => t'.recv = t.recv
      /\ t'.sent = t.sent /\ t'.eof = t.eof
  BY <1>7, <1>8, Zenon
<1>10. s.connected => Pushed(t.recv, t'.recv, s.out[1].val)
  BY <1>5, <1>9, Zenon
<1> QED
  BY <1>3, <1>4, <1>6, <1>9, <1>10 DEF ServerWrites, TypeOK, ServerType, DialStill,
     FarDoorStill, ChannelSame, BrowserSame, HandsSame

(* The target's socket closes: after a drain, at the end of the target's   *)
(* stream, or because the connection broke; and what a FIN then says.      *)
LEMMA ServerClosesMoves ==
    ASSUME TypeOK, SocketInv, ServerDrained \/ ServerReadsEof \/ ServerFails
    PROVE  /\ ~s.closed /\ ~s.failed /\ s'.closed /\ ~s'.fd
           /\ s'.out = <<>> /\ Len(s'.out) = 0
           /\ s'.dial = s.dial /\ s'.connected = s.connected /\ s'.read = s.read
           /\ s'.bad = s.bad /\ s'.p2pClosed = s.p2pClosed
           /\ s'.failed => s.connected
           /\ \/ s2c' = s2c
              \/ /\ Sends(s2c, s2c', Frame("FIN", 0))
                 /\ \/ s'.failed \/ s.bad
                    \/ s.connected /\ t.eof /\ s.read = t.sent
           /\ c2s' = c2s /\ dc' = dc /\ BrowserSame /\ HandsSame /\ c' = c /\ TargetSame
<1>1. PICK failing \in BOOLEAN :
         /\ ServerSocketCloses(failing)
         /\ failing => s.connected
         /\ \/ failing
            \/ s.out # <<>> /\ Head(s.out) = Close
            \/ s.connected /\ t.eof /\ s.read = t.sent
  BY Zenon DEF ServerDrained, ServerReadsEof, ServerFails
<1>2. ASSUME s.out # <<>>, Head(s.out) = Close, ~s.p2pClosed
      PROVE  s.bad
  <2>1. s.out \in Seq(ItemType)
    BY DEF TypeOK, ServerType
  <2>2. 1 \in 1..Len(s.out) /\ s.out[1] = Close
    BY <1>2, <2>1, TailFacts
  <2> QED
    BY <1>2, <2>2, ItemFacts DEF SocketInv, ServerSocket
<1>3. /\ s.p2pClosed => s2c' = Sent(s2c, <<>>)
      /\ ~s.p2pClosed => s2c' = Sent(s2c, <<Frame("FIN", 0)>>)
      /\ c2s' = c2s
  BY <1>1 DEF ServerSocketCloses, Down
<1>4. /\ s.p2pClosed => s2c' = s2c
      /\ ~s.p2pClosed => Sends(s2c, s2c', Frame("FIN", 0))
  BY <1>3, FrameFacts, ChannelTakes
<1>5. ~s.closed /\ ~s.failed
  BY DEF ServerDrained, ServerReadsEof, ServerFails, SocketInv, ServerSocket
<1>6. s'.failed = failing
  BY <1>1 DEF ServerSocketCloses, TypeOK, ServerType
<1>7. s'.failed => s.connected
  BY <1>1, <1>6
<1>8. \/ s2c' = s2c
      \/ /\ Sends(s2c, s2c', Frame("FIN", 0))
         /\ \/ s'.failed \/ s.bad
            \/ s.connected /\ t.eof /\ s.read = t.sent
  BY <1>1, <1>2, <1>4, <1>6
<1> QED
  BY <1>1, <1>3, <1>5, <1>7, <1>8, EmptySeq DEF ServerSocketCloses, TypeOK, ServerType,
     BrowserSame, HandsSame, TargetSame

(* Where an item was before it moved up, or before another one came.       *)
LEMMA PoppedFacts ==
    ASSUME NEW q, NEW q2, Popped(q, q2), Len(q) \in Nat
    PROVE  /\ 1 \in 1..Len(q) /\ Len(q2) \in Nat /\ Len(q) = Len(q2) + 1
           /\ \A j \in 1..Len(q2) : j + 1 \in 1..Len(q) /\ q2[j] = q[j + 1]
BY DEF Popped

(* A queue with one item more: which index holds what.                     *)
LEMMA PushedFacts ==
    ASSUME NEW q, NEW q2, NEW x, Pushed(q, q2, x), Len(q) \in Nat
    PROVE  /\ Len(q2) \in Nat /\ Len(q2) = Len(q) + 1 /\ Len(q2) \in 1..Len(q2)
           /\ q2[Len(q2)] = x
           /\ \A j \in 1..Len(q2) :
                 \/ j \in 1..Len(q) /\ q2[j] = q[j]
                 \/ j = Len(q2) /\ q2[j] = x
           /\ \A j \in 1..Len(q) : j \in 1..Len(q2) /\ q2[j] = q[j]
<1>1. /\ Len(q2) \in Nat /\ Len(q2) = Len(q) + 1 /\ Len(q2) \in 1..Len(q2)
      /\ q2[Len(q2)] = x
  BY DEF Pushed
<1>2. \A j \in 1..Len(q2) : j \in 1..Len(q) \/ j = Len(q2)
  BY <1>1
<1>3. \A j \in 1..Len(q) : j \in 1..Len(q2) /\ q2[j] = q[j]
  BY <1>1 DEF Pushed
<1> QED
  BY <1>1, <1>2, <1>3

-----------------------------------------------------------------------------
(* The sockets.                                                            *)

(* A socket that is offered an item.                                       *)
LEMMA ClientSocketOffered ==
    ASSUME TypeOK, SocketInv, NEW item, Offered(c.closed, c.out, c'.out, item),
           c'.closed = c.closed, c'.ptr = c.ptr
    PROVE  ClientSocket'
<1> USE Lens DEF SocketInv, ClientSocket
<1>1. CASE Takes(c.closed, c.out)
  BY <1>1 DEF Takes, Offered, Pushed
<1>2. CASE ~Takes(c.closed, c.out)
  BY <1>2 DEF Offered
<1> QED
  BY <1>1, <1>2

(* An item offered to the target's socket keeps it in order: nothing is    *)
(* queued behind a close.                                                  *)
LEMMA ServerSocketOffered ==
    ASSUME TypeOK, SocketInv, NEW item, Offered(s.closed, s.out, s'.out, item),
           s'.closed = s.closed, s'.failed = s.failed,
           s.bad => s'.bad, s.p2pClosed => s'.p2pClosed,
           item.kind # "reply", item.kind = "close" => s'.p2pClosed \/ s'.bad
    PROVE  ServerSocket'
<1>1. Len(s.out) \in Nat
  BY Lens
<1>2. /\ s.closed => s.out = <<>>
      /\ s.failed => s.closed
      /\ \A j \in 1..Len(s.out) :
            /\ s.out[j].kind # "reply"
            /\ (s.out[j].kind = "close" /\ ~s.p2pClosed) => s.bad
  BY DEF SocketInv, ServerSocket
<1>3. CASE Takes(s.closed, s.out)
  <2>1. Pushed(s.out, s'.out, item)
    BY <1>3 DEF Offered
  <2>2. \A j \in 1..Len(s'.out) :
           \/ j \in 1..Len(s.out) /\ s'.out[j] = s.out[j]
           \/ j = Len(s'.out) /\ s'.out[j] = item
    BY <2>1, <1>1, PushedFacts
  <2>3. \A j \in 1..Len(s'.out) :
           /\ s'.out[j].kind # "reply"
           /\ (s'.out[j].kind = "close" /\ ~s'.p2pClosed) => s'.bad
    <3> SUFFICES ASSUME NEW j \in 1..Len(s'.out)
                 PROVE  /\ s'.out[j].kind # "reply"
                        /\ (s'.out[j].kind = "close" /\ ~s'.p2pClosed) => s'.bad
      OBVIOUS
    <3>1. CASE j \in 1..Len(s.out) /\ s'.out[j] = s.out[j]
      BY <3>1, <1>2
    <3>2. CASE s'.out[j] = item
      BY <3>2
    <3> QED
      BY <2>2, <3>1, <3>2
  <2>4. ~s'.closed
    BY <1>3 DEF Takes
  <2> QED
    BY <2>3, <2>4, <1>2 DEF ServerSocket
<1>4. CASE ~Takes(s.closed, s.out)
  <2>1. s'.out = s.out
    BY <1>4 DEF Offered
  <2> QED
    BY <2>1, <1>2 DEF ServerSocket
<1> QED
  BY <1>3, <1>4

(* Nothing passes a posted close, a closed socket holds nothing, and the   *)
(* target's socket is closed by a FIN, a bad request or the target only.   *)
LEMMA SocketKept ==
    ASSUME TypeOK, SocketInv, Next
    PROVE  SocketInv'
<1> USE DEF SocketInv
<1>1. ASSUME c' = c PROVE ClientSocket'
  BY <1>1 DEF ClientSocket
<1>2. ASSUME s' = s PROVE ServerSocket'
  BY <1>2 DEF ServerSocket
<1>3. ASSUME c'.out = c.out, c'.closed = c.closed, c'.ptr = c.ptr
      PROVE  ClientSocket'
  BY <1>3 DEF ClientSocket
<1>4. ASSUME s'.out = s.out, FarDoorStill, s'.p2pClosed = s.p2pClosed
      PROVE  ServerSocket'
  BY <1>4 DEF ServerSocket, FarDoorStill
<1> USE DEF DoorStill
<1>5. CASE BrowserSends \/ BrowserCloses
  BY <1>5, <1>1, <1>2, BrowserMoves
<1>6. CASE TargetSends \/ TargetCloses
  BY <1>6, <1>1, <1>2, TargetMoves
<1>7. CASE ChannelOpens
  BY <1>7, <1>1, <1>2, ChannelOpensMoves
<1>8. CASE Disconnect
  BY <1>8, <1>1, <1>2, DisconnectMoves
<1>9. CASE ClientStops
  BY <1>9, <1>2, ClientStopsMoves, ClientSocketOffered
<1>10. CASE ServerStops
  BY <1>10, <1>1, ServerStopsMoves, ServerSocketOffered, ItemFacts DEF FarDoorStill
<1>11. CASE ClientRequests
  BY <1>11, <1>2, <1>3, ClientRequestsMoves
<1>12. CASE ClientConnecting
  BY <1>12, <1>2, <1>3, ClientConnectingMoves
<1>13. CASE ClientReadsPartOfHead
  BY <1>13, <1>2, <1>3, ClientReadsPartOfHeadMoves
<1>14. CASE ClientKeepsRequest
  BY <1>14, <1>2, <1>3, ClientKeepsRequestMoves
<1>15. CASE ClientRejects
  BY <1>15, <1>2, ClientRejectsMoves, ClientSocketOffered
<1>16. CASE ClientReads
  BY <1>16, <1>2, <1>3, ClientReadsMoves, ClientSocketOffered
<1>17. CASE ClientWrites
  <2>1. ClientSocket'
    <3>1. \A j \in 1..Len(c'.out) : j + 1 \in 1..Len(c.out) /\ c'.out[j] = c.out[j + 1]
      BY <1>17, ClientWritesMoves, Lens, PoppedFacts
    <3>2. Len(c.out) = Len(c'.out) + 1 /\ Len(c'.out) \in Nat
      BY <1>17, ClientWritesMoves, Lens, PoppedFacts
    <3> QED
      BY <1>17, <3>1, <3>2, ClientWritesMoves DEF ClientSocket
  <2> QED
    BY <1>17, <1>2, <2>1, ClientWritesMoves
<1>18. CASE ClientDrained \/ ClientReadFails
  <2>1. ClientSocket'
    BY <1>18, ClientClosesMoves, EmptySeq DEF ClientSocket
  <2> QED
    BY <1>18, <1>2, <2>1, ClientClosesMoves
<1>19. CASE ClientResetsSocket
  <2>1. ClientSocket'
    BY <1>19, ClientResetsSocketMoves DEF ClientSocket
  <2> QED
    BY <1>19, <1>2, <2>1, ClientResetsSocketMoves
<1>20. CASE ClientDestroyed
  BY <1>20, <1>2, <1>3, ClientDestroyedMoves
<1>21. CASE ClientFinds
  BY <1>21, <1>1, <1>2, ClientFindsMoves
<1>22. CASE ClientData
  BY <1>22, <1>2, ClientDataMoves, ClientSocketOffered
<1>23. CASE ClientBadResponse
  BY <1>23, <1>2, ClientBadResponseMoves, ClientSocketOffered
<1>24. CASE ClientIgnoresData
  BY <1>24, <1>1, <1>2, ClientIgnoresDataMoves
<1>25. CASE ClientSynackReply
  <2>1. CASE protocol = "HttpPlain" /\ crtc.val = 0
    BY <1>25, <2>1, <1>2, <1>3, ClientReplaysMoves
  <2>2. CASE ~(protocol = "HttpPlain" /\ crtc.val = 0)
    BY <1>25, <2>2, <1>2, ClientRepliesMoves, ClientSocketOffered
  <2> QED
    BY <2>1, <2>2
<1>26. CASE ClientSynackPhase
  BY <1>26, <1>2, <1>3, ClientSynackPhaseMoves, ClientSocketOffered
<1>27. CASE ClientFinTest
  BY <1>27, <1>2, <1>3, ClientFinTestMoves
<1>28. CASE ClientFinUse
  BY <1>28, <1>2, ClientFinUseMoves, ClientSocketOffered
<1>29. CASE ServerSyn
  BY <1>29, <1>1, <1>4, ServerSynMoves
<1>30. CASE ServerFinds
  BY <1>30, <1>1, <1>2, ServerFindsMoves
<1>31. CASE ServerData
  BY <1>31, <1>1, <1>4, ServerDataMoves, ServerSocketOffered, ItemFacts, Numbers DEF FarDoorStill
<1>32. CASE ServerBadRequest
  BY <1>32, <1>1, <1>2, ServerBadRequestMoves, ServerSocketOffered, ItemFacts
<1>33. CASE ServerIgnoresData
  BY <1>33, <1>1, <1>2, ServerIgnoresDataMoves
<1>34. CASE ServerFin
  BY <1>34, <1>1, <1>2, ServerFinMoves, ServerSocketOffered, ItemFacts DEF FarDoorStill
<1>35. ASSUME NEW ok \in BOOLEAN, ServerResolves(ok) PROVE SocketInv'
  BY <1>35, <1>1, <1>4, ServerResolvesMoves
<1>36. ASSUME NEW ok \in BOOLEAN, ServerConnects(ok) PROVE SocketInv'
  BY <1>36, <1>1, <1>4, ServerConnectsMoves
<1>37. CASE ServerReads
  BY <1>37, <1>1, <1>4, ServerReadsMoves
<1>38. CASE ServerWrites
  <2>1. ServerSocket'
    <3>1. \A j \in 1..Len(s'.out) : j + 1 \in 1..Len(s.out) /\ s'.out[j] = s.out[j + 1]
      BY <1>38, ServerWritesMoves, Lens, PoppedFacts
    <3> QED
      BY <1>38, <3>1, ServerWritesMoves DEF ServerSocket, FarDoorStill
  <2> QED
    BY <1>38, <1>1, <2>1, ServerWritesMoves
<1>39. CASE ServerDrained \/ ServerReadsEof \/ ServerFails
  <2>1. ServerSocket'
    BY <1>39, ServerClosesMoves DEF ServerSocket
  <2> QED
    BY <1>39, <1>1, <2>1, ServerClosesMoves
<1> QED
  BY <1>5, <1>6, <1>7, <1>8, <1>9, <1>10, <1>11, <1>12, <1>13, <1>14, <1>15, <1>16,
     <1>17, <1>18, <1>19, <1>20, <1>21, <1>22, <1>23, <1>24, <1>25, <1>26, <1>27,
     <1>28, <1>29, <1>30, <1>31, <1>32, <1>33, <1>34, <1>35, <1>36, <1>37, <1>38,
     <1>39
     DEF Next, Environment, System, ClientStrand, ClientRtc, ServerRtc, ServerStrand

-----------------------------------------------------------------------------
(* The request: one SYN, and the answer after it.                          *)

(* Steps that neither ask nor answer.                                      *)
LEMMA AskQuiet ==
    ASSUME TypeOK, AskInv, PhaseStill, c'.step = c.step, c.closed => c'.closed,
           c2s' = c2s \/ c2s' = <<>>, s2c' = s2c \/ s2c' = <<>>,
           dc' = dc \/ dc' # "connecting",
           crtc'.type = crtc.type \/ crtc'.type = "none",
           srtc'.type = srtc.type \/ srtc'.type = "none",
           s'.dial = s.dial, s'.connected = s.connected
    PROVE  AskInv'
<1>1. Unasked => Unasked'
  BY DEF Unasked, PhaseStill
<1>2. Len(<<>>) = 0
  BY EmptySeq
<1> QED
  BY <1>1, <1>2, Lens DEF AskInv, PhaseStill

(* A connected target has been asked; nothing fails or misbehaves before.  *)
LEMMA ConnectedFacts ==
    ASSUME TypeOK, ConnectedInv
    PROVE  /\ (s.connected \/ c.phase = "Connected" \/ srtc.type = "DATA"
                 \/ crtc.type = "DATA" \/ crtc.type = "FIN" \/ s.bad \/ s.failed) =>
                 s.connected /\ s.dial = "done" /\ ~Unasked
BY DEF ConnectedInv, NotConnected, UpSilent, DownSilent, Unasked

(* One SYN goes up for a session, and nothing before it.                   *)
LEMMA AskKept ==
    ASSUME TypeOK, SocketInv, AskInv, ConnectedInv, AnswerInv, Next
    PROVE  AskInv'
<1> USE Lens DEF ChannelSame, HandsSame, ReaderStill, DialStill, DoorStill
<1>n. ASSUME c2s # <<>> \/ s2c # <<>> \/ crtc.type # "none" \/ srtc.type # "none"
             \/ s.dial # "none"
      PROVE  ~Unasked
  BY <1>n DEF Unasked
<1>c. \/ c.phase = "Connected" \/ srtc.type = "DATA" \/ crtc.type = "DATA"
      \/ crtc.type = "FIN" \/ s.bad \/ s.failed
      => s.connected /\ s.dial = "done" /\ ~Unasked
  BY ConnectedFacts
<1>d. s.connected => s.dial = "done" /\ ~Unasked
  BY ConnectedFacts
<1>u. ASSUME c'.mux = c.mux, c2s' = c2s, s2c' = s2c, crtc'.type = crtc.type,
             srtc'.type = srtc.type, s'.dial = s.dial
      PROVE  Unasked => Unasked'
  BY <1>u DEF Unasked
<1>a. ASSUME NEW f \in FrameType, f.type # "SYN", Sends(c2s, c2s', f), dc' = dc,
             s'.dial = s.dial
      PROVE  /\ \A k \in 1..Len(c2s') :
                   c2s'[k].type = "SYN" =>
                      /\ s'.dial = "none"
                      /\ \A l \in 1..Len(c2s') : c2s'[l].type = "SYN" => l = k
             /\ dc' = "connecting" => c2s' = <<>> /\ s'.dial = "none"
  <2>1. CASE dc = "open"
    BY <1>a, <2>1, PushedFacts DEF AskInv, Sends
  <2>2. CASE dc # "open"
    BY <1>a, <2>2 DEF AskInv, Sends
  <2> QED
    BY <2>1, <2>2
<1>5. CASE BrowserSends \/ BrowserCloses
  BY <1>5, AskQuiet, BrowserMoves DEF PhaseStill
<1>6. CASE TargetSends \/ TargetCloses
  BY <1>6, AskQuiet, TargetMoves DEF PhaseStill
<1>7. CASE ChannelOpens
  BY <1>7, AskQuiet, ChannelOpensMoves DEF PhaseStill
<1>8. CASE Disconnect
  BY <1>8, AskQuiet, DisconnectMoves DEF PhaseStill
<1>9. CASE ClientStops
  BY <1>9, AskQuiet, ClientStopsMoves
<1>10. CASE ServerStops
  BY <1>10, AskQuiet, ServerStopsMoves DEF PhaseStill
<1>11. CASE ClientRequests
  <2>1. Unasked /\ c2s = <<>> /\ s.dial = "none" /\ s' = s /\ dc' = dc
    BY <1>11, ClientRequestsMoves DEF AskInv, Unasked
  <2>2. c'.mux /\ c'.step = "syn_sent" /\ c'.phase = "Handshake"
    BY <1>11, ClientRequestsMoves
  <2>3. dc = "open" => Len(c2s') = 1
    BY <1>11, <2>1, ClientRequestsMoves DEF Sends, Pushed
  <2>4. dc # "open" => c2s' = <<>> /\ Len(c2s') = 0
    BY <1>11, <2>1, ClientRequestsMoves DEF Sends
  <2> QED
    BY <2>1, <2>2, <2>3, <2>4 DEF AskInv, TypeOK
<1>12. CASE ClientConnecting
  BY <1>12, <1>u, ClientConnectingMoves DEF AskInv
<1>13. CASE ClientReadsPartOfHead
  BY <1>13, AskQuiet, ClientReadsPartOfHeadMoves DEF PhaseStill
<1>14. CASE ClientKeepsRequest
  BY <1>14, <1>u, ClientKeepsRequestMoves DEF AskInv, PhaseStill
<1>15. CASE ClientRejects
  <2>1. Unasked /\ Unasked'
    BY <1>15, <1>u, ClientRejectsMoves DEF AskInv
  <2>2. ~s.connected
    BY <2>1, <1>d
  <2> QED
    BY <1>15, <2>1, <2>2, ClientRejectsMoves DEF AskInv
<1>16. CASE ClientReads
  <2>1. CASE c.phase = "Connected"
    <3>1. Frame("DATA", c.read + 1) \in FrameType /\ Frame("DATA", c.read + 1).type # "SYN"
      <4>1. c.read + 1 \in Nat
        BY Numbers
      <4>2. Frame("DATA", c.read + 1).type # "SYN"
        BY DEF Frame
      <4> QED
        BY <4>1, <4>2, FrameFacts, Zenon
    <3> QED
      <4> DEFINE f == Frame("DATA", c.read + 1)
      <4>1. Sends(c2s, c2s', f) /\ dc' = dc /\ s'.dial = s.dial
        BY <1>16, <2>1, ClientReadsMoves
      <4>2. f \in FrameType /\ f.type # "SYN"
        BY <3>1
      <4> HIDE DEF f
      <4>3. /\ \A k \in 1..Len(c2s') :
                  c2s'[k].type = "SYN" =>
                     /\ s'.dial = "none"
                     /\ \A l \in 1..Len(c2s') : c2s'[l].type = "SYN" => l = k
            /\ dc' = "connecting" => c2s' = <<>> /\ s'.dial = "none"
        BY <1>a, <4>1, <4>2
      <4>4. ~Unasked /\ (c.mux \/ c.closed)
        BY <1>c, <2>1 DEF AskInv
      <4> QED
        BY <1>16, <2>1, <4>3, <4>4, ClientReadsMoves DEF AskInv, PhaseStill
  <2>2. CASE c.phase # "Connected"
    BY <1>16, <2>2, AskQuiet, ClientReadsMoves DEF PhaseStill
  <2> QED
    BY <2>1, <2>2
<1>17. CASE ClientWrites
  BY <1>17, AskQuiet, ClientWritesMoves
<1>18. CASE ClientDrained \/ ClientReadFails
  <2>1. CASE c2s' = c2s
    BY <1>18, <2>1, AskQuiet, ClientClosesMoves
  <2>2. CASE c.mux /\ Sends(c2s, c2s', Frame("FIN", 0))
    <3>1. Frame("FIN", 0) \in FrameType /\ Frame("FIN", 0).type # "SYN" /\ ~Unasked
      BY <2>2, FrameFacts DEF Frame, Unasked
    <3> QED
      BY <1>18, <1>a, <2>2, <3>1, ClientClosesMoves DEF AskInv, PhaseStill
  <2> QED
    BY <1>18, <2>1, <2>2, ClientClosesMoves
<1>19. CASE ClientResetsSocket
  BY <1>19, AskQuiet, ClientResetsSocketMoves
<1>20. CASE ClientDestroyed
  <2>1. c.closed /\ c'.closed
    BY <1>20, ClientDestroyedMoves DEF SocketInv, ClientSocket
  <2>2. Unasked => Unasked'
    BY <1>20, ClientDestroyedMoves DEF Unasked
  <2> QED
    BY <1>20, <2>1, <2>2, ClientDestroyedMoves DEF AskInv
<1>21. CASE ClientFinds
  <2>1. s2c # <<>> /\ ~Unasked
    BY <1>21, <1>n, ClientFindsMoves DEF Popped
  <2> QED
    BY <1>21, <2>1, ClientFindsMoves DEF AskInv
<1>22. CASE ClientData
  BY <1>22, AskQuiet, ClientDataMoves
<1>23. CASE ClientBadResponse
  BY <1>23, AskQuiet, ClientBadResponseMoves
<1>24. CASE ClientIgnoresData
  BY <1>24, AskQuiet, ClientIgnoresDataMoves DEF PhaseStill
<1>25. CASE ClientSynackReply
  <2>1. CASE protocol = "HttpPlain" /\ crtc.val = 0
    <3>1. crtc.type = "SYNACK" /\ ~Unasked /\ s'.dial = s.dial /\ s.dial = "done" /\ dc' = dc
      BY <1>25, <2>1, <1>n, ClientReplaysMoves DEF AnswerInv
    <3>2. \A k \in 1..Len(c2s') : c2s'[k].type # "SYN"
      <4>1. \A k \in 1..Len(c2s) : c2s[k].type # "SYN"
        BY <3>1 DEF AskInv
      <4>2. CASE dc = "open"
        <5>1. \A k \in 1..Len(c2s') : k > Len(c2s) \/ k \in 1..Len(c2s)
          BY <1>25, <2>1, <4>2, ClientReplaysMoves
        <5> QED
          BY <1>25, <2>1, <4>1, <4>2, <5>1, ClientReplaysMoves
      <4>3. CASE dc # "open"
        BY <1>25, <2>1, <4>1, <4>3, ClientReplaysMoves
      <4> QED
        BY <4>2, <4>3
    <3> QED
      BY <1>25, <2>1, <3>1, <3>2, ClientReplaysMoves DEF AskInv, PhaseStill
  <2>2. CASE ~(protocol = "HttpPlain" /\ crtc.val = 0)
    BY <1>25, <2>2, AskQuiet, ClientRepliesMoves
  <2> QED
    BY <2>1, <2>2
<1>26. CASE ClientSynackPhase
  <2>1. ~Unasked /\ s.dial = "done" /\ (crtc.val # 0 => ~s.connected)
    BY <1>26, <1>n, ClientSynackPhaseMoves DEF AnswerInv, Says
  <2> QED
    BY <1>26, <2>1, ClientSynackPhaseMoves DEF AskInv
<1>27. CASE ClientFinTest
  BY <1>27, AskQuiet, ClientFinTestMoves
<1>28. CASE ClientFinUse
  BY <1>28, AskQuiet, ClientFinUseMoves
<1>29. CASE ServerSyn
  <2>1. c2s # <<>> /\ ~Unasked /\ 1 \in 1..Len(c2s) /\ s.dial = "none"
    BY <1>29, <1>n, ServerSynMoves, PoppedFacts DEF AskInv
  <2>2. \A k \in 1..Len(c2s') : c2s'[k].type # "SYN"
    <3>1. \A k \in 1..Len(c2s') : k + 1 \in 1..Len(c2s) /\ c2s'[k] = c2s[k + 1] /\ k + 1 # 1
      BY <1>29, ServerSynMoves, PoppedFacts
    <3> QED
      BY <1>29, <2>1, <3>1, ServerSynMoves DEF AskInv
  <2> QED
    BY <1>29, <2>1, <2>2, ServerSynMoves DEF AskInv
<1>30. CASE ServerFinds
  <2>1. c2s # <<>> /\ ~Unasked
    BY <1>30, <1>n, ServerFindsMoves, PoppedFacts
  <2>2. \A k \in 1..Len(c2s') : k + 1 \in 1..Len(c2s) /\ c2s'[k] = c2s[k + 1]
    BY <1>30, ServerFindsMoves, PoppedFacts
  <2>3. \A k \in 1..Len(c2s') : \A l \in 1..Len(c2s') : k + 1 = l + 1 => k = l
    BY <1>30, ServerFindsMoves, PoppedFacts
  <2>4. \A k \in 1..Len(c2s') :
           c2s'[k].type = "SYN" =>
              /\ s'.dial = "none"
              /\ \A l \in 1..Len(c2s') : c2s'[l].type = "SYN" => l = k
    BY <1>30, <2>2, <2>3, ServerFindsMoves DEF AskInv
  <2> QED
    BY <1>30, <2>1, <2>4, ServerFindsMoves DEF AskInv
<1>31. CASE ServerData
  BY <1>31, AskQuiet, ServerDataMoves DEF PhaseStill
<1>32. CASE ServerBadRequest
  BY <1>32, AskQuiet, ServerBadRequestMoves DEF PhaseStill
<1>33. CASE ServerIgnoresData
  BY <1>33, AskQuiet, ServerIgnoresDataMoves DEF PhaseStill
<1>34. CASE ServerFin
  BY <1>34, AskQuiet, ServerFinMoves DEF PhaseStill
<1>35. ASSUME NEW ok \in BOOLEAN, ServerResolves(ok) PROVE AskInv'
  <2>1. ~Unasked /\ c.phase # "Closed" /\ dc # "connecting" /\ c' = c /\ dc' = dc /\ c2s' = c2s
        /\ \A k \in 1..Len(c2s) : c2s[k].type # "SYN"
    BY <1>35, <1>n, ServerResolvesMoves DEF AskInv
  <2> QED
    BY <1>35, <2>1, ServerResolvesMoves DEF AskInv
<1>36. ASSUME NEW ok \in BOOLEAN, ServerConnects(ok) PROVE AskInv'
  <2>1. ~Unasked /\ c.phase # "Closed" /\ dc # "connecting" /\ c' = c /\ dc' = dc /\ c2s' = c2s
        /\ \A k \in 1..Len(c2s) : c2s[k].type # "SYN"
    BY <1>36, <1>n, ServerConnectsMoves DEF AskInv
  <2> QED
    BY <1>36, <2>1, ServerConnectsMoves DEF AskInv
<1>37. CASE ServerReads
  BY <1>37, <1>d, ServerReadsMoves DEF AskInv
<1>38. CASE ServerWrites
  BY <1>38, AskQuiet, ServerWritesMoves DEF PhaseStill
<1>39. CASE ServerDrained \/ ServerReadsEof \/ ServerFails
  <2>1. CASE s2c' = s2c
    BY <1>39, <2>1, AskQuiet, ServerClosesMoves DEF PhaseStill
  <2>2. CASE s.connected
    BY <1>39, <2>2, <1>d, ServerClosesMoves DEF AskInv
  <2> QED
    BY <1>39, <1>c, <2>1, <2>2, ServerClosesMoves
<1> QED
  BY <1>5, <1>6, <1>7, <1>8, <1>9, <1>10, <1>11, <1>12, <1>13, <1>14, <1>15, <1>16,
     <1>17, <1>18, <1>19, <1>20, <1>21, <1>22, <1>23, <1>24, <1>25, <1>26, <1>27,
     <1>28, <1>29, <1>30, <1>31, <1>32, <1>33, <1>34, <1>35, <1>36, <1>37, <1>38,
     <1>39
     DEF Next, Environment, System, ClientStrand, ClientRtc, ServerRtc, ServerStrand

-----------------------------------------------------------------------------
(* Before the target is connected nothing flows.                           *)

(* A connection, once established, was established.                        *)
LEMMA ConnectedStays ==
    ASSUME TypeOK, SocketInv, AskInv, ConnectedInv, s.connected, Next
    PROVE  s'.connected /\ s'.dial = "done"
<1> USE DEF DialStill
<1>1. s.dial = "done"
  BY DEF ConnectedInv
<1>2. CASE \/ BrowserSends \/ BrowserCloses \/ TargetSends \/ TargetCloses
           \/ ChannelOpens \/ Disconnect \/ ClientStops \/ ServerStops
  BY <1>1, <1>2, BrowserMoves, TargetMoves, ChannelOpensMoves, DisconnectMoves,
     ClientStopsMoves, ServerStopsMoves
<1>3. CASE ClientStrand \/ ClientRejects
  BY <1>1, <1>3, ClientRequestsMoves, ClientConnectingMoves, ClientReadsPartOfHeadMoves,
     ClientKeepsRequestMoves, ClientRejectsMoves, ClientReadsMoves, ClientWritesMoves,
     ClientClosesMoves, ClientResetsSocketMoves, ClientDestroyedMoves DEF ClientStrand
<1>4. CASE ClientRtc \/ ClientBadResponse
  BY <1>1, <1>4, ClientFindsMoves, ClientDataMoves, ClientBadResponseMoves,
     ClientIgnoresDataMoves, ClientReplaysMoves, ClientRepliesMoves,
     ClientSynackPhaseMoves, ClientFinTestMoves, ClientFinUseMoves DEF ClientRtc
<1>5. CASE ServerFinds \/ ServerData \/ ServerBadRequest \/ ServerIgnoresData \/ ServerFin
  BY <1>1, <1>5, ServerFindsMoves, ServerDataMoves, ServerBadRequestMoves,
     ServerIgnoresDataMoves, ServerFinMoves
<1>6. CASE ServerReads \/ ServerWrites \/ ServerDrained \/ ServerReadsEof \/ ServerFails
  BY <1>1, <1>6, ServerReadsMoves, ServerWritesMoves, ServerClosesMoves
<1>7. ASSUME NEW ok \in BOOLEAN, ServerResolves(ok) \/ ServerConnects(ok) PROVE FALSE
  BY <1>1, <1>7 DEF ServerResolves, ServerConnects
<1>8. CASE ServerSyn
  <2>1. 1 \in 1..Len(c2s) /\ c2s[1].type = "SYN"
    BY <1>8, ServerSynMoves, PoppedFacts, Lens
  <2> QED
    BY <1>1, <2>1 DEF AskInv
<1> QED
  BY <1>2, <1>3, <1>4, <1>5, <1>6, <1>7, <1>8
     DEF Next, Environment, System, ServerRtc, ServerStrand

(* They stay so as long as nobody sends a frame or posts an item of another *)
(* kind.                                                                   *)
LEMMA QuietItems ==
    ASSUME TypeOK
    PROVE  /\ \A f : (UpFrames /\ f.type # "DATA" /\ Sends(c2s, c2s', f)) => UpFrames'
           /\ \A f : (DownFrames /\ f.type = "SYNACK" /\ Sends(s2c, s2c', f)) => DownFrames'
           /\ (UpFrames /\ Popped(c2s, c2s')) => UpFrames' /\ c2s[1].type # "DATA"
           /\ (DownFrames /\ Popped(s2c, s2c')) => DownFrames' /\ s2c[1].type = "SYNACK"
           /\ \A x : (/\ UpItems /\ x.kind # "chunk"
                      /\ Offered(s.closed, s.out, s'.out, x)) => UpItems'
           /\ \A x : (/\ DownItems /\ (x.kind = "close" \/ (x.kind = "reply" /\ x.val = 1))
                      /\ Offered(c.closed, c.out, c'.out, x)) => DownItems'
           /\ (UpItems /\ Popped(s.out, s'.out)) => UpItems' /\ s.out[1].kind # "chunk"
           /\ (/\ DownItems /\ Delivered /\ Popped(c.out, c'.out)
               /\ c.out[1].kind # "close" /\ Pushed(b.recv, b'.recv, c.out[1]))
                 => DownItems' /\ Delivered'
<1> USE Lens
<1>1. ASSUME NEW f, UpFrames, f.type # "DATA", Sends(c2s, c2s', f) PROVE UpFrames'
  BY <1>1, PushedFacts, SMTT(30) DEF Sends, UpFrames
<1>2. ASSUME NEW f, DownFrames, f.type = "SYNACK", Sends(s2c, s2c', f) PROVE DownFrames'
  BY <1>2, PushedFacts DEF Sends, DownFrames
<1>3. ASSUME UpFrames, Popped(c2s, c2s') PROVE UpFrames' /\ c2s[1].type # "DATA"
  BY <1>3, PoppedFacts DEF UpFrames
<1>4. ASSUME DownFrames, Popped(s2c, s2c') PROVE DownFrames' /\ s2c[1].type = "SYNACK"
  BY <1>4, PoppedFacts DEF DownFrames
<1>5. ASSUME NEW x, UpItems, x.kind # "chunk", Offered(s.closed, s.out, s'.out, x)
      PROVE  UpItems'
  <2>1. CASE Takes(s.closed, s.out)
    BY <1>5, <2>1, PushedFacts, SMTT(30) DEF Offered, UpItems
  <2>2. CASE ~Takes(s.closed, s.out)
    BY <1>5, <2>2 DEF Offered, UpItems
  <2> QED
    BY <2>1, <2>2
<1>6. ASSUME NEW x, DownItems, x.kind = "close" \/ (x.kind = "reply" /\ x.val = 1),
             Offered(c.closed, c.out, c'.out, x)
      PROVE  DownItems'
  BY <1>6, PushedFacts, SMTT(30) DEF Offered, DownItems
<1>7. ASSUME UpItems, Popped(s.out, s'.out) PROVE UpItems' /\ s.out[1].kind # "chunk"
  BY <1>7, PoppedFacts, SMTT(30) DEF UpItems
<1>8. ASSUME DownItems, Delivered, Popped(c.out, c'.out), c.out[1].kind # "close",
             Pushed(b.recv, b'.recv, c.out[1])
      PROVE  DownItems' /\ Delivered'
  <2>1. DownItems'
    BY <1>8, PoppedFacts, SMTT(30) DEF DownItems
  <2>2. c.out[1].kind = "reply" /\ c.out[1].val = 1
    BY <1>8, PoppedFacts DEF DownItems
  <2>3. Delivered'
    BY <1>8, <2>2, PushedFacts DEF Delivered
  <2> QED
    BY <2>1, <2>3
<1> QED
  BY <1>1, <1>2, <1>3, <1>4, <1>5, <1>6, <1>7, <1>8

(* Until the target is connected no stream flows and nobody is told that   *)
(* it is.                                                                  *)
LEMMA ConnectedKept ==
    ASSUME TypeOK, SocketInv, AskInv, ConnectedInv, AnswerInv, Next
    PROVE  ConnectedInv'
<1>1. CASE s.connected
  BY <1>1, ConnectedStays DEF ConnectedInv
<1>2. CASE ~s.connected
  <2> USE DEF ChannelSame, HandsSame, BrowserSame, TargetSame, PhaseStill, DialStill,
          DoorStill, FarDoorStill
  <2>n. /\ UpFrames /\ UpItems /\ srtc.type # "DATA" /\ t.recv = <<>>
        /\ DownFrames /\ DownItems /\ Delivered /\ crtc.type \in {"none", "SYNACK"}
        /\ c.phase # "Connected"
        /\ t.sent = 0 /\ ~t.eof /\ s.read = 0 /\ ~s.bad /\ ~s.failed
    BY <1>2 DEF ConnectedInv, NotConnected, UpSilent, DownSilent
  <2>v. crtc.type = "SYNACK" => crtc.val # 0
    BY <1>2, Numbers DEF AnswerInv, Says
  <2>k. /\ \A n : /\ Frame("SYN", n).type = "SYN" /\ Frame("FIN", n).type = "FIN"
                  /\ Frame("SYNACK", n).type = "SYNACK"
        /\ Close.kind = "close" /\ Reply(FALSE).kind = "reply" /\ Reply(FALSE).val = 1
    BY ItemFacts DEF Frame
  <2>e. Len(<<>>) = 0
    BY EmptySeq
  <2>g. ASSUME UpFrames', UpItems', DownFrames', DownItems', Delivered',
               srtc'.type # "DATA", crtc'.type \in {"none", "SYNACK"}, t'.recv = t.recv,
               c'.phase # "Connected", t'.sent = t.sent, t'.eof = t.eof,
               s'.read = s.read, ~s'.bad, ~s'.failed, ~s'.connected
        PROVE  ConnectedInv'
    BY <2>g, <2>n DEF ConnectedInv, NotConnected, UpSilent, DownSilent
  <2>u. /\ c2s' = c2s \/ c2s' = <<>> => UpFrames'
        /\ s'.out = s.out \/ s'.out = <<>> => UpItems'
        /\ s2c' = s2c \/ s2c' = <<>> => DownFrames'
        /\ c'.out = c.out \/ c'.out = <<>> => DownItems'
        /\ b'.recv = b.recv => Delivered'
    BY <2>n, <2>e DEF UpFrames, UpItems, DownFrames, DownItems, Delivered
  <2>5. CASE BrowserSends \/ BrowserCloses
    BY <2>5, <1>2, <2>n, <2>g, <2>u, BrowserMoves
  <2>6. CASE TargetSends \/ TargetCloses
    BY <2>6, <1>2, TargetMoves
  <2>7. CASE ChannelOpens
    BY <2>7, <1>2, <2>n, <2>g, <2>u, ChannelOpensMoves
  <2>8. CASE Disconnect
    BY <2>8, <1>2, <2>n, <2>g, <2>u, DisconnectMoves
  <2>9. CASE ClientStops
    BY <2>9, <1>2, <2>n, <2>g, <2>u, <2>k, ClientStopsMoves, QuietItems
  <2>10. CASE ServerStops
    BY <2>10, <1>2, <2>n, <2>g, <2>u, <2>k, ServerStopsMoves, QuietItems
  <2>11. CASE ClientRequests
    BY <2>11, <1>2, <2>n, <2>g, <2>u, <2>k, ClientRequestsMoves, QuietItems
  <2>12. CASE ClientConnecting
    BY <2>12, <1>2, <2>n, <2>g, <2>u, ClientConnectingMoves
  <2>13. CASE ClientReadsPartOfHead
    BY <2>13, <1>2, <2>n, <2>g, <2>u, ClientReadsPartOfHeadMoves
  <2>14. CASE ClientKeepsRequest
    BY <2>14, <1>2, <2>n, <2>g, <2>u, ClientKeepsRequestMoves
  <2>15. CASE ClientRejects
    BY <2>15, <1>2, <2>n, <2>g, <2>u, <2>k, ClientRejectsMoves, QuietItems
  <2>16. CASE ClientReads
    BY <2>16, <1>2, <2>n, <2>g, <2>u, <2>k, ClientReadsMoves, QuietItems
  <2>17. CASE ClientWrites
    BY <2>17, <1>2, <2>n, <2>g, <2>u, ClientWritesMoves, QuietItems
  <2>18. CASE ClientDrained \/ ClientReadFails
    BY <2>18, <1>2, <2>n, <2>g, <2>u, <2>k, ClientClosesMoves, QuietItems
  <2>19. CASE ClientResetsSocket
    BY <2>19, <1>2, <2>n, <2>g, <2>u, ClientResetsSocketMoves
  <2>20. CASE ClientDestroyed
    BY <2>20, <1>2, <2>n, <2>g, <2>u, ClientDestroyedMoves
  <2>21. CASE ClientFinds
    <3>1. s2c[1].type = "SYNACK" /\ DownFrames'
      BY <2>21, <2>n, ClientFindsMoves, QuietItems
    <3> QED
      BY <2>21, <3>1, <1>2, <2>n, <2>g, <2>u, ClientFindsMoves
  <2>22. CASE ClientData \/ ClientBadResponse \/ ClientIgnoresData
    BY <2>22, <2>n, ClientDataMoves, ClientBadResponseMoves, ClientIgnoresDataMoves
  <2>23. CASE ClientSynackReply
    <3>1. CASE protocol = "HttpPlain" /\ crtc.val = 0
      BY <2>23, <3>1, <2>v, ClientReplaysMoves
    <3>2. CASE ~(protocol = "HttpPlain" /\ crtc.val = 0)
      <4>1. crtc.type = "SYNACK" /\ Reply(crtc.val = 0) = Reply(FALSE)
        BY <2>23, <3>2, <2>v, ClientRepliesMoves DEF Reply
      <4> QED
        BY <2>23, <3>2, <4>1, <1>2, <2>n, <2>g, <2>u, <2>k, ClientRepliesMoves, QuietItems
    <3> QED
      BY <3>1, <3>2
  <2>24. CASE ClientSynackPhase
    BY <2>24, <1>2, <2>v, <2>n, <2>g, <2>u, <2>k, ClientSynackPhaseMoves, QuietItems
  <2>25. CASE ClientFinTest \/ ClientFinUse
    BY <2>25, <2>n, ClientFinTestMoves, ClientFinUseMoves
  <2>26. CASE ServerSyn
    BY <2>26, <1>2, <2>n, <2>g, <2>u, ServerSynMoves, QuietItems
  <2>27. CASE ServerFinds
    <3>1. c2s[1].type # "DATA" /\ UpFrames'
      BY <2>27, <2>n, ServerFindsMoves, QuietItems
    <3> QED
      BY <2>27, <3>1, <1>2, <2>n, <2>g, <2>u, ServerFindsMoves
  <2>28. CASE ServerData \/ ServerBadRequest
    BY <2>28, <2>n, ServerDataMoves, ServerBadRequestMoves
  <2>29. CASE ServerIgnoresData
    BY <2>29, <1>2, <2>n, <2>g, <2>u, ServerIgnoresDataMoves
  <2>30. CASE ServerFin
    BY <2>30, <1>2, <2>n, <2>g, <2>u, <2>k, ServerFinMoves, QuietItems
  <2>31. ASSUME NEW ok \in BOOLEAN, ServerResolves(ok) PROVE ConnectedInv'
    BY <2>31, <1>2, <2>n, <2>g, <2>u, <2>k, ServerResolvesMoves, QuietItems
  <2>32. ASSUME NEW ok \in BOOLEAN, ServerConnects(ok) PROVE ConnectedInv'
    <3>1. CASE ok
      BY <2>32, <3>1, ServerConnectsMoves DEF ConnectedInv
    <3>2. CASE ~ok
      BY <2>32, <3>2, <2>n, <2>g, <2>u, <2>k, ServerConnectsMoves, QuietItems
    <3> QED
      BY <3>1, <3>2
  <2>33. CASE ServerReads
    BY <2>33, <1>2, ServerReadsMoves
  <2>34. CASE ServerWrites
    BY <2>34, <1>2, <2>n, <2>g, <2>u, ServerWritesMoves, QuietItems
  <2>35. CASE ServerDrained \/ ServerReadsEof \/ ServerFails
    BY <2>35, <1>2, <2>n, <2>g, <2>u, ServerClosesMoves
  <2> QED
    BY <2>5, <2>6, <2>7, <2>8, <2>9, <2>10, <2>11, <2>12, <2>13, <2>14, <2>15, <2>16,
       <2>17, <2>18, <2>19, <2>20, <2>21, <2>22, <2>23, <2>24, <2>25, <2>26, <2>27,
       <2>28, <2>29, <2>30, <2>31, <2>32, <2>33, <2>34, <2>35
       DEF Next, Environment, System, ClientStrand, ClientRtc, ServerRtc, ServerStrand
<1> QED
  BY <1>1, <1>2

-----------------------------------------------------------------------------
(* The answer.                                                             *)

(* Until the answer is given to the browser, nothing else is: what is      *)
(* posted meanwhile is at most a close.                                    *)
LEMMA AwaitedKept ==
    ASSUME TypeOK, SocketInv, ConnectedInv, Awaited, crtc.type \in {"none", "SYNACK"},
           Next, ~ClientSynackReply, ~ClientSynackPhase
    PROVE  Awaited'
<1> USE DEF ChannelSame, HandsSame, BrowserSame, TargetSame, PhaseStill
<1>n. /\ UpFrames /\ UpItems /\ srtc.type # "DATA" /\ t.recv = <<>>
      /\ b.recv = <<>> /\ c.phase # "Connected"
      /\ \A j \in 1..Len(c.out) : c.out[j].kind = "close"
  BY DEF Awaited, Unposted, UpSilent
<1>k. /\ \A n : /\ Frame("SYN", n).type = "SYN" /\ Frame("FIN", n).type = "FIN"
      /\ Close.kind = "close"
  BY ItemFacts DEF Frame
<1>e. Len(<<>>) = 0
  BY EmptySeq
<1>o. Offered(c.closed, c.out, c'.out, Close) =>
         \A j \in 1..Len(c'.out) : c'.out[j].kind = "close"
  <2>1. CASE Takes(c.closed, c.out)
    BY <2>1, <1>n, <1>k, Lens, PushedFacts DEF Offered
  <2>2. CASE ~Takes(c.closed, c.out)
    BY <2>2, <1>n DEF Offered
  <2> QED
    BY <2>1, <2>2
<1>g. ASSUME UpFrames', UpItems', srtc'.type # "DATA", t'.recv = t.recv, b'.recv = b.recv,
             \A j \in 1..Len(c'.out) : c'.out[j].kind = "close", c'.phase # "Connected"
      PROVE  Awaited'
  BY <1>g, <1>n DEF Awaited, Unposted, UpSilent
<1>u. /\ c2s' = c2s \/ c2s' = <<>> => UpFrames'
      /\ s'.out = s.out \/ s'.out = <<>> => UpItems'
      /\ c'.out = c.out \/ c'.out = <<>> => \A j \in 1..Len(c'.out) : c'.out[j].kind = "close"
  BY <1>n, <1>e DEF UpFrames, UpItems
<1>5. CASE BrowserSends \/ BrowserCloses
  BY <1>5, <1>n, <1>g, <1>u, BrowserMoves
<1>6. CASE TargetSends \/ TargetCloses
  BY <1>6, <1>n, <1>g, <1>u, TargetMoves
<1>7. CASE ChannelOpens
  BY <1>7, <1>n, <1>g, <1>u, ChannelOpensMoves
<1>8. CASE Disconnect
  BY <1>8, <1>n, <1>g, <1>u, DisconnectMoves
<1>9. CASE ClientStops
  BY <1>9, <1>n, <1>g, <1>u, <1>o, ClientStopsMoves
<1>10. CASE ServerStops
  BY <1>10, <1>n, <1>g, <1>u, <1>k, ServerStopsMoves, QuietItems
<1>11. CASE ClientRequests
  BY <1>11, <1>n, <1>g, <1>u, <1>k, ClientRequestsMoves, QuietItems
<1>12. CASE ClientConnecting
  BY <1>12, <1>n, <1>g, <1>u, ClientConnectingMoves
<1>13. CASE ClientReadsPartOfHead
  BY <1>13, <1>n, <1>g, <1>u, ClientReadsPartOfHeadMoves
<1>14. CASE ClientKeepsRequest
  BY <1>14, <1>n, <1>g, <1>u, ClientKeepsRequestMoves
<1>15. CASE ClientRejects
  BY <1>15, <1>n, <1>g, <1>u, <1>o, ClientRejectsMoves
<1>16. CASE ClientReads
  BY <1>16, <1>n, <1>g, <1>u, <1>o, ClientReadsMoves
<1>17. CASE ClientWrites
  BY <1>17, <1>n, ClientWritesMoves, Lens, PoppedFacts
<1>18. CASE ClientDrained \/ ClientReadFails
  BY <1>18, <1>n, <1>g, <1>u, <1>k, ClientClosesMoves, QuietItems
<1>19. CASE ClientResetsSocket
  BY <1>19, <1>n, <1>g, <1>u, ClientResetsSocketMoves
<1>20. CASE ClientDestroyed
  BY <1>20, <1>n, <1>g, <1>u, ClientDestroyedMoves
<1>21. CASE ClientFinds
  BY <1>21, <1>n, <1>g, <1>u, ClientFindsMoves
<1>22. CASE ClientData \/ ClientBadResponse \/ ClientIgnoresData
  BY <1>22, ClientDataMoves, ClientBadResponseMoves, ClientIgnoresDataMoves
<1>25. CASE ClientFinTest \/ ClientFinUse
  BY <1>25, ClientFinTestMoves, ClientFinUseMoves
<1>26. CASE ServerSyn
  BY <1>26, <1>n, <1>g, <1>u, ServerSynMoves, QuietItems
<1>27. CASE ServerFinds
  <2>1. c2s[1].type # "DATA" /\ UpFrames'
    BY <1>27, <1>n, ServerFindsMoves, QuietItems
  <2> QED
    BY <1>27, <2>1, <1>n, <1>g, <1>u, ServerFindsMoves
<1>28. CASE ServerData \/ ServerBadRequest
  BY <1>28, <1>n, ServerDataMoves, ServerBadRequestMoves
<1>29. CASE ServerIgnoresData
  BY <1>29, <1>n, <1>g, <1>u, ServerIgnoresDataMoves
<1>30. CASE ServerFin
  BY <1>30, <1>n, <1>g, <1>u, <1>k, ServerFinMoves, QuietItems
<1>31. ASSUME NEW ok \in BOOLEAN, ServerResolves(ok) PROVE Awaited'
  BY <1>31, <1>n, <1>g, <1>u, ServerResolvesMoves
<1>32. ASSUME NEW ok \in BOOLEAN, ServerConnects(ok) PROVE Awaited'
  BY <1>32, <1>n, <1>g, <1>u, ServerConnectsMoves
<1>33. CASE ServerReads
  BY <1>33, <1>n, <1>g, <1>u, ServerReadsMoves
<1>34. CASE ServerWrites
  <2>1. s.out[1].kind = "chunk"
    BY <1>34, ServerWritesMoves, Lens, PoppedFacts, Elements DEF SocketInv, ServerSocket
  <2>2. s.out[1].kind # "chunk"
    BY <1>34, <1>n, ServerWritesMoves, QuietItems
  <2> QED
    BY <2>1, <2>2
<1>35. CASE ServerDrained \/ ServerReadsEof \/ ServerFails
  BY <1>35, <1>n, <1>g, <1>u, ServerClosesMoves
<1> QED
  BY <1>5, <1>6, <1>7, <1>8, <1>9, <1>10, <1>11, <1>12, <1>13, <1>14, <1>15, <1>16,
     <1>17, <1>18, <1>19, <1>20, <1>21, <1>22, <1>25, <1>26, <1>27,
     <1>28, <1>29, <1>30, <1>31, <1>32, <1>33, <1>34, <1>35
     DEF Next, Environment, System, ClientStrand, ClientRtc, ServerRtc, ServerStrand

(* Until the dial is done, an answer is awaited.                           *)
LEMMA DialAwaited ==
    ASSUME ConnectedInv, AnswerInv, s.dial # "done"
    PROVE  Awaited /\ s2c = <<>> /\ crtc.type = "none" /\ ~s.connected
BY DEF ConnectedInv, NotConnected, AnswerInv, Awaited

(* Steps that neither answer nor deliver an answer.                        *)
LEMMA AnswerQuiet ==
    ASSUME TypeOK, SocketInv, ConnectedInv, AnswerInv, Next,
           ~ClientSynackReply, ~ClientSynackPhase,
           s2c' = s2c \/ s2c' = <<>>,
           \/ crtc' = crtc
           \/ crtc'.type = "none"
           \/ crtc'.type = "FIN" /\ crtc.type = "FIN",
           s.dial = "done" => s'.dial = "done", s'.connected = s.connected
    PROVE  AnswerInv'
<1>1. Awaited /\ crtc.type \in {"none", "SYNACK"} => Awaited'
  BY AwaitedKept
<1>2. Len(<<>>) = 0
  BY EmptySeq
<1>3. s'.dial # "done" => s2c' = <<>> /\ crtc'.type = "none" /\ Unposted'
  BY <1>1, DialAwaited DEF Awaited
<1>4. \A k \in 1..Len(s2c') :
          /\ s2c'[k].type # "SYN"
          /\ s2c'[k].type = "SYNACK" =>
                k = 1 /\ crtc'.type = "none" /\ Awaited' /\ Says(s2c[k].val)'
  BY <1>1, <1>2 DEF AnswerInv, Says
<1>5. crtc'.type # "SYN"
  BY DEF AnswerInv
<1>6. crtc'.type = "SYNACK" => (crtc'.at = "found" => Awaited') /\ Says(crtc.val)'
  BY <1>1 DEF AnswerInv, Says
<1> QED
  BY <1>3, <1>4, <1>5, <1>6 DEF AnswerInv

(* Steps that add a frame that is not an answer.                           *)
LEMMA AnswerMore ==
    ASSUME TypeOK, SocketInv, ConnectedInv, AnswerInv, Next,
           ~ClientSynackReply, ~ClientSynackPhase,
           NEW f, Sends(s2c, s2c', f), f.type # "SYN", f.type # "SYNACK",
           crtc' = crtc, s'.dial = "done", s'.connected = s.connected
    PROVE  AnswerInv'
<1>1. Awaited /\ crtc.type \in {"none", "SYNACK"} => Awaited'
  BY AwaitedKept
<1>4. ASSUME NEW k \in 1..Len(s2c')
      PROVE  /\ s2c'[k].type # "SYN"
             /\ s2c'[k].type = "SYNACK" =>
                   k = 1 /\ crtc'.type = "none" /\ Awaited' /\ Says(s2c[k].val)'
  <2>1. \/ k \in 1..Len(s2c) /\ s2c'[k] = s2c[k]
        \/ s2c'[k] = f
    BY <1>4, Lens, PushedFacts DEF Sends
  <2> QED
    BY <1>1, <2>1 DEF AnswerInv, Says
<1>5. crtc'.type = "SYNACK" => (crtc'.at = "found" => Awaited') /\ Says(crtc.val)'
  BY <1>1 DEF AnswerInv, Says
<1> QED
  BY <1>4, <1>5 DEF AnswerInv

(* The answer goes down first and once, and says what became of the dial.  *)
LEMMA AnswerKept ==
    ASSUME TypeOK, SocketInv, AskInv, ConnectedInv, AnswerInv, Next
    PROVE  AnswerInv'
<1> USE DEF ChannelSame, HandsSame, DialStill
<1>s. (ClientSynackReply \/ ClientSynackPhase) => crtc.type = "SYNACK"
  BY DEF ClientSynackReply, ClientSynackPhase
<1>a. Awaited /\ crtc.type = "none" => Awaited'
  BY <1>s, AwaitedKept
<1>5. CASE \/ BrowserSends \/ BrowserCloses \/ TargetSends \/ TargetCloses
           \/ ChannelOpens \/ Disconnect \/ ClientStops \/ ServerStops
  <2>1. /\ s2c' = s2c \/ s2c' = <<>>
        /\ crtc' = crtc /\ s'.dial = s.dial /\ s'.connected = s.connected
    BY <1>5, BrowserMoves, TargetMoves, ChannelOpensMoves, DisconnectMoves,
       ClientStopsMoves, ServerStopsMoves
  <2>2. ~ClientSynackReply /\ ~ClientSynackPhase
    <3>1. (ClientSynackReply \/ ClientSynackPhase) => crtc' # crtc
      BY ClientReplaysMoves, ClientRepliesMoves, ClientSynackPhaseMoves
    <3> QED
      BY <2>1, <3>1
  <2> QED
    BY <2>1, <2>2, AnswerQuiet
<1>c. ASSUME crtc' = crtc
      PROVE  ~ClientSynackReply /\ ~ClientSynackPhase
  BY <1>c, ClientReplaysMoves, ClientRepliesMoves, ClientSynackPhaseMoves
<1>6. CASE ClientStrand \/ ClientRejects
  <2>1. s2c' = s2c /\ crtc' = crtc /\ s' = s
    BY <1>6, ClientRequestsMoves, ClientConnectingMoves, ClientReadsPartOfHeadMoves,
       ClientKeepsRequestMoves, ClientRejectsMoves, ClientReadsMoves, ClientWritesMoves,
       ClientClosesMoves, ClientResetsSocketMoves, ClientDestroyedMoves DEF ClientStrand
  <2> QED
    BY <1>c, <2>1, AnswerQuiet
<1>7. CASE ClientFinds
  <2>1. crtc.type = "none" /\ Popped(s2c, s2c') /\ s' = s
    BY <1>7, ClientFindsMoves
  <2>2. /\ 1 \in 1..Len(s2c) /\ s2c # <<>>
        /\ \A k \in 1..Len(s2c') : k + 1 \in 1..Len(s2c) /\ s2c'[k] = s2c[k + 1] /\ k + 1 # 1
    BY <2>1, Lens, PoppedFacts
  <2>3. \A k \in 1..Len(s2c') : s2c'[k].type # "SYN" /\ s2c'[k].type # "SYNACK"
    BY <2>2 DEF AnswerInv
  <2>4. s2c[1].type # "SYN" /\ (s2c[1].type = "SYNACK" => Awaited' /\ Says(s2c[1].val))
    BY <1>a, <2>1, <2>2 DEF AnswerInv, Says
  <2>5. /\ crtc'.type # "SYN"
        /\ crtc'.type = "SYNACK" => Awaited' /\ Says(crtc.val)'
    BY <1>7, <2>1, <2>4, ClientFindsMoves DEF Says
  <2>6. s.dial = "done"
    BY <2>2 DEF AnswerInv
  <2> QED
    BY <2>1, <2>3, <2>5, <2>6 DEF AnswerInv
<1>8. CASE \/ ClientData \/ ClientBadResponse \/ ClientIgnoresData
           \/ ClientFinTest \/ ClientFinUse
  <2>1. /\ s2c' = s2c /\ s' = s /\ crtc.type # "SYNACK"
        /\ \/ crtc'.type = "none"
           \/ crtc'.type = "FIN" /\ crtc.type = "FIN"
    BY <1>8, ClientDataMoves, ClientBadResponseMoves, ClientIgnoresDataMoves,
       ClientFinTestMoves, ClientFinUseMoves
  <2> QED
    BY <1>s, <2>1, AnswerQuiet
<1>9. CASE ClientSynackReply
  <2>1. /\ crtc.type = "SYNACK" /\ crtc'.type = "SYNACK" /\ crtc'.at = "replied"
        /\ crtc'.val = crtc.val /\ s2c' = s2c /\ s' = s
    BY <1>9, ClientReplaysMoves, ClientRepliesMoves
  <2> QED
    BY <2>1 DEF AnswerInv, Says
<1>10. CASE ClientSynackPhase
  <2>1. crtc.type = "SYNACK" /\ crtc'.type = "none" /\ s2c' = s2c /\ s' = s
    BY <1>10, ClientSynackPhaseMoves
  <2> QED
    BY <2>1 DEF AnswerInv
<1>11. CASE ServerSyn
  <2>1. s.dial = "none"
    BY <1>11, ServerSynMoves, PoppedFacts, Lens DEF AskInv
  <2>2. crtc' = crtc /\ s2c' = s2c /\ s'.connected = s.connected
    BY <1>11, ServerSynMoves
  <2> QED
    BY <1>c, <2>1, <2>2, AnswerQuiet
<1>12. CASE ServerFinds \/ ServerData \/ ServerBadRequest \/ ServerIgnoresData \/ ServerFin
           \/ ServerWrites
  <2>1. crtc' = crtc /\ s2c' = s2c /\ s'.dial = s.dial /\ s'.connected = s.connected
    BY <1>12, ServerFindsMoves, ServerDataMoves, ServerBadRequestMoves,
       ServerIgnoresDataMoves, ServerFinMoves, ServerWritesMoves
  <2> QED
    BY <1>c, <2>1, AnswerQuiet
<1>13. ASSUME NEW val, Sends(s2c, s2c', Frame("SYNACK", val)), Says(val)',
              s.dial # "done", s'.dial = "done", crtc' = crtc
       PROVE  AnswerInv'
  <2>1. Awaited /\ Awaited' /\ s2c = <<>> /\ Len(s2c) = 0 /\ crtc.type = "none"
    BY <1>a, <1>13, DialAwaited, Lens
  <2>2. \A k \in 1..Len(s2c') : k = 1 /\ s2c'[k] = Frame("SYNACK", val)
    <3>1. CASE dc = "open"
      BY <1>13, <2>1, <3>1, PushedFacts DEF Sends
    <3>2. CASE dc # "open"
      BY <1>13, <2>1, <3>2 DEF Sends
    <3> QED
      BY <3>1, <3>2
  <2>3. Frame("SYNACK", val).type = "SYNACK" /\ Frame("SYNACK", val).val = val
    BY DEF Frame
  <2> QED
    BY <1>13, <2>1, <2>2, <2>3 DEF AnswerInv, Says
<1>14. ASSUME NEW ok \in BOOLEAN, ServerResolves(ok) PROVE AnswerInv'
  <2>1. CASE ok
    BY <1>14, <1>c, <2>1, ServerResolvesMoves, AnswerQuiet
  <2>2. CASE ~ok
    <3>1. ~s.connected /\ s.dial # "done"
      BY <1>14, ServerResolvesMoves, DialAwaited
    <3> QED
      BY <1>13, <1>14, <2>2, <3>1, ServerResolvesMoves DEF Says
  <2> QED
    BY <2>1, <2>2
<1>15. ASSUME NEW ok \in BOOLEAN, ServerConnects(ok) PROVE AnswerInv'
  <2>1. CASE ok
    BY <1>13, <1>15, <2>1, ServerConnectsMoves DEF Says
  <2>2. CASE ~ok
    BY <1>13, <1>15, <2>2, ServerConnectsMoves DEF Says
  <2> QED
    BY <2>1, <2>2
<1>16. CASE ServerReads
  <2>1. Frame("DATA", s.read + 1).type = "DATA"
    BY DEF Frame
  <2>2. s.dial = "done"
    BY <1>16, ServerReadsMoves, ConnectedFacts
  <2> QED
    BY <1>16, <1>c, <2>1, <2>2, ServerReadsMoves, AnswerMore
<1>17. CASE ServerDrained \/ ServerReadsEof \/ ServerFails
  <2>1. CASE s2c' = s2c
    BY <1>17, <1>c, <2>1, ServerClosesMoves, AnswerQuiet
  <2>2. CASE s.connected /\ Sends(s2c, s2c', Frame("FIN", 0))
    <3>1. Frame("FIN", 0).type = "FIN"
      BY DEF Frame
    <3>2. s.dial = "done"
      BY <2>2, ConnectedFacts
    <3> QED
      BY <1>17, <1>c, <2>2, <3>1, <3>2, ServerClosesMoves, AnswerMore
  <2> QED
    BY <1>17, <2>1, <2>2, ServerClosesMoves, ConnectedFacts
<1> QED
  BY <1>5, <1>6, <1>7, <1>8, <1>9, <1>10, <1>11, <1>12, <1>14, <1>15, <1>16, <1>17
     DEF Next, Environment, System, ClientRtc, ServerRtc, ServerStrand

-----------------------------------------------------------------------------
(* Down: every item for the browser is in its place.                       *)

(* The target's bytes are read from it and sent once.                      *)
LEMMA ReadOnce ==
    ASSUME TypeOK, SocketInv, ShapeInv, Next
    PROVE  ChannelShape' /\ HandShape' /\ s'.read >= s.read /\ s'.read =< t'.sent
<1> USE DEF ChannelSame, HandsSame, TargetSame, DialStill
<1>n. s.read \in Nat /\ t.sent \in Nat /\ s.read =< t.sent
  BY Numbers DEF ShapeInv
<1>h. ASSUME \/ crtc' = crtc
             \/ crtc'.type # "DATA",
             s'.read >= s.read, s'.read \in Nat
      PROVE  HandShape'
  BY <1>h, <1>n, Numbers DEF ShapeInv, HandShape
<1>c. ASSUME s2c' = s2c \/ s2c' = <<>>, s'.read >= s.read, s'.read \in Nat
      PROVE  ChannelShape'
  BY <1>c, <1>n, EmptySeq, Elements DEF ShapeInv, ChannelShape
<1>p. ASSUME NEW f, Sends(s2c, s2c', f), s'.read >= s.read, s'.read \in Nat,
             f.type = "DATA" => f.val >= 1 /\ f.val =< s'.read
      PROVE  ChannelShape'
  <2>1. CASE dc = "open"
    BY <1>p, <1>n, <2>1, Lens, Elements, PushedFacts, SMTT(30) DEF Sends, ShapeInv, ChannelShape
  <2>2. CASE dc # "open"
    BY <1>p, <1>c, <2>2 DEF Sends
  <2> QED
    BY <2>1, <2>2
<1>k. \A n : Frame("SYNACK", n).type = "SYNACK" /\ Frame("FIN", n).type = "FIN"
  BY DEF Frame
<1>5. CASE \/ BrowserSends \/ BrowserCloses \/ TargetSends \/ TargetCloses
           \/ ChannelOpens \/ Disconnect \/ ClientStops \/ ServerStops
  <2>1. /\ s2c' = s2c \/ s2c' = <<>>
        /\ crtc' = crtc /\ s'.read = s.read
    BY <1>5, BrowserMoves, TargetMoves, ChannelOpensMoves, DisconnectMoves,
       ClientStopsMoves, ServerStopsMoves
  <2>2. t'.sent >= t.sent /\ t'.sent \in Nat
    BY <1>5, <1>n, BrowserMoves, TargetMoves, ChannelOpensMoves, DisconnectMoves,
       ClientStopsMoves, ServerStopsMoves
  <2> QED
    BY <1>n, <1>h, <1>c, <2>1, <2>2
<1>6. CASE ClientStrand \/ ClientRejects
  <2>1. s2c' = s2c /\ crtc' = crtc /\ s' = s /\ t' = t
    BY <1>6, ClientRequestsMoves, ClientConnectingMoves, ClientReadsPartOfHeadMoves,
       ClientKeepsRequestMoves, ClientRejectsMoves, ClientReadsMoves, ClientWritesMoves,
       ClientClosesMoves, ClientResetsSocketMoves, ClientDestroyedMoves DEF ClientStrand
  <2> QED
    BY <1>n, <1>h, <1>c, <2>1
<1>7. CASE ClientFinds
  <2>1. Popped(s2c, s2c') /\ s' = s /\ t' = t
    BY <1>7, ClientFindsMoves
  <2>2. /\ 1 \in 1..Len(s2c)
        /\ \A k \in 1..Len(s2c') : k + 1 \in 1..Len(s2c) /\ s2c'[k] = s2c[k + 1]
    BY <2>1, Lens, PoppedFacts
  <2>3. ChannelShape'
    BY <2>1, <2>2 DEF ShapeInv, ChannelShape
  <2>4. HandShape'
    BY <1>7, <2>1, <2>2, ClientFindsMoves DEF ShapeInv, ChannelShape, HandShape
  <2> QED
    BY <1>n, <2>1, <2>3, <2>4
<1>8. CASE \/ ClientData \/ ClientBadResponse \/ ClientIgnoresData \/ ClientSynackReply
           \/ ClientSynackPhase \/ ClientFinTest \/ ClientFinUse
  <2>1. s2c' = s2c /\ crtc'.type # "DATA" /\ s' = s /\ t' = t
    BY <1>8, ClientDataMoves, ClientBadResponseMoves, ClientIgnoresDataMoves,
       ClientReplaysMoves, ClientRepliesMoves, ClientSynackPhaseMoves,
       ClientFinTestMoves, ClientFinUseMoves
  <2> QED
    BY <1>n, <1>h, <1>c, <2>1
<1>9. CASE \/ ServerSyn \/ ServerFinds \/ ServerData \/ ServerBadRequest
           \/ ServerIgnoresData \/ ServerFin \/ ServerWrites
  <2>1. s2c' = s2c /\ crtc' = crtc /\ s'.read = s.read /\ t'.sent = t.sent
    BY <1>9, ServerSynMoves, ServerFindsMoves, ServerDataMoves, ServerBadRequestMoves,
       ServerIgnoresDataMoves, ServerFinMoves, ServerWritesMoves
  <2> QED
    BY <1>n, <1>h, <1>c, <2>1
<1>10. ASSUME NEW ok \in BOOLEAN, ServerResolves(ok) \/ ServerConnects(ok)
       PROVE  ChannelShape' /\ HandShape' /\ s'.read >= s.read /\ s'.read =< t'.sent
  <2>1. /\ \/ s2c' = s2c
           \/ Sends(s2c, s2c', Frame("SYNACK", 0))
           \/ Sends(s2c, s2c', Frame("SYNACK", 1))
        /\ crtc' = crtc /\ s'.read = s.read /\ t' = t
    BY <1>10, ServerResolvesMoves, ServerConnectsMoves
  <2> QED
    BY <1>n, <1>h, <1>c, <1>p, <1>k, <2>1
<1>11. CASE ServerReads
  <2>1. /\ Sends(s2c, s2c', Frame("DATA", s.read + 1)) /\ s.read < t.sent
        /\ crtc' = crtc /\ s'.read = s.read + 1 /\ t' = t
    BY <1>11, ServerReadsMoves
  <2>2. Frame("DATA", s.read + 1).val = s.read + 1
    BY DEF Frame
  <2>3. s'.read >= s.read /\ s'.read \in Nat /\ s'.read =< t'.sent /\ s'.read >= 1
    BY <1>n, <2>1
  <2>4. ChannelShape'
    BY <1>p, <2>1, <2>2, <2>3
  <2> QED
    BY <1>h, <2>1, <2>3, <2>4
<1>12. CASE ServerDrained \/ ServerReadsEof \/ ServerFails
  <2>1. /\ s2c' = s2c \/ Sends(s2c, s2c', Frame("FIN", 0))
        /\ crtc' = crtc /\ s'.read = s.read /\ t' = t
    BY <1>12, ServerClosesMoves
  <2> QED
    BY <1>n, <1>h, <1>c, <1>p, <1>k, <2>1
<1> QED
  BY <1>5, <1>6, <1>7, <1>8, <1>9, <1>10, <1>11, <1>12
     DEF Next, Environment, System, ClientRtc, ServerRtc, ServerStrand

(* What the browser's socket was given: what it wrote and what it holds.   *)
LEMMA GivenFacts ==
    ASSUME TypeOK
    PROVE  \E m, n \in Nat : /\ m = Len(b.recv) /\ n = Len(c.out)
                            /\ Given = m + n /\ Given \in Nat
<1>1. PICK m \in Nat : m = Len(b.recv)
  BY Lens
<1>2. PICK n \in Nat : n = Len(c.out)
  BY Lens
<1>3. Given = m + n
  BY <1>1, <1>2 DEF Given
<1>4. m + n \in Nat
  OBVIOUS
<1>5. Given \in Nat
  BY <1>3, <1>4, Zenon
<1> QED
  BY <1>1, <1>2, <1>3, <1>5, Zenon

(* The client's socket is given the next chunk (p2p_data) ...              *)
LEMMA ChunkFits ==
    ASSUME TypeOK, ConnectedInv, AnswerInv, ShapeInv, FlowInv,
           crtc.type = "DATA", ~c.bad, Takes(c.closed, c.out)
    PROVE  /\ s.connected /\ Chunks(Given) + 1 = Given + 1 - Off
           /\ crtc.val = Given + 1 - Off
           /\ crtc.val >= 1 /\ crtc.val =< s.read
<1>1. s.connected /\ s.dial = "done"
  BY ConnectedFacts
<1>2. Posting
  BY DEF Posting, Takes
<1>3. AnswerDue = 0
  BY Lens DEF AnswerDue, AnswerInv
<1>4. Answered
  BY <1>1, <1>3 DEF Answered
<1>5. /\ crtc.val = Chunks(Given) + 1
      /\ protocol # "HttpPlain" => Given >= 1
  BY <1>1, <1>2, <1>4 DEF FlowInv
<1>6. Given \in Nat
  BY GivenFacts
<1>7. Chunks(Given) + 1 = Given + 1 - Off
  BY <1>5, <1>6 DEF Chunks, Off
<1> QED
  BY <1>1, <1>5, <1>7 DEF ShapeInv, HandShape

(* ... and the reply before anything else (p2p_synack).                    *)
LEMMA ReplyFits ==
    ASSUME TypeOK, AnswerInv, crtc.type = "SYNACK", crtc.at = "found",
           Takes(c.closed, c.out)
    PROVE  Given = 0 /\ Len(b.recv) = 0 /\ Len(c.out) = 0
<1>1. b.recv = <<>> /\ \A j \in 1..Len(c.out) : c.out[j].kind = "close"
  BY DEF AnswerInv, Awaited, Unposted
<1>2. Len(c.out) = 0
  <2>1. 1 \notin 1..Len(c.out)
    BY <1>1 DEF Takes
  <2> QED
    BY <2>1, Lens
<1> QED
  BY <1>1, <1>2, Lens, GivenFacts

(* What the browser got, and what its socket holds, is the answer and then *)
(* the chunks in order.                                                    *)
LEMMA ShapeKept ==
    ASSUME TypeOK, SocketInv, ConnectedInv, AnswerInv, ShapeInv, FlowInv, Next
    PROVE  ShapeInv'
<1> USE DEF ChannelSame, HandsSame, BrowserSame, TargetSame, DialStill
<1>r. ChannelShape' /\ HandShape' /\ s'.read >= s.read /\ s'.read =< t'.sent
  BY ReadOnce
<1>n. s.read \in Nat /\ s'.read \in Nat
  BY Numbers, NextTypeOK DEF TypeOK, ServerType
<1>f. ASSUME NEW x, NEW p, Fits(x, p), protocol' = protocol, s'.connected => s.connected,
             x.kind = "chunk" => x.val \in Nat
      PROVE  Fits(x, p)'
  BY <1>f, <1>r, <1>n DEF Fits, Off
<1>q. ASSUME protocol' = protocol, b'.recv = b.recv, s'.connected => s.connected,
             NEW x,
             \/ c'.out = c.out \/ c'.out = <<>>
             \/ /\ Offered(c.closed, c.out, c'.out, x)
                /\ x.kind = "close" \/ \A p : (Takes(c.closed, c.out) /\ p = Given + 1) => Fits(x, p)'
      PROVE  ShapeInv'
  <2>1. BrowserShape'
    BY <1>q, <1>f, Elements DEF ShapeInv, BrowserShape
  <2>n. Len(b.recv) \in Nat /\ Len(c.out) \in Nat /\ Len(c'.out) \in Nat
    BY Lens, NextTypeOK, EmptyFacts DEF TypeOK, ClientType
  <2>2. ASSUME NEW j \in 1..Len(c'.out)
        PROVE  c'.out[j].kind = "close" \/ Fits(c.out[j], Len(b.recv) + j)'
    <3>1. \/ j \in 1..Len(c.out) /\ c'.out[j] = c.out[j]
          \/ c'.out[j].kind = "close"
          \/ /\ c'.out[j] = x /\ Takes(c.closed, c.out) /\ j = Len(c.out) + 1
             /\ Offered(c.closed, c.out, c'.out, x) /\ x.kind # "close"
      <4>1. CASE c'.out = c.out \/ c'.out = <<>>
        BY <2>2, <4>1, EmptySeq
      <4>2. CASE Offered(c.closed, c.out, c'.out, x)
        BY <2>2, <4>2, Lens, PushedFacts DEF Offered
      <4> QED
        BY <1>q, <4>1, <4>2
    <3>2. CASE j \in 1..Len(c.out) /\ c'.out[j] = c.out[j]
      <4>1. c.out[j].kind = "close" \/ Fits(c.out[j], Len(b.recv) + j)
        BY <3>2 DEF ShapeInv, SocketShape
      <4>2. c.out[j].val \in Nat
        BY <3>2, Elements
      <4>3. PICK x2, p2 : x2 = c.out[j] /\ p2 = Len(b.recv) + j
        OBVIOUS
      <4>4. x2.kind = "close" \/ Fits(x2, p2)'
        BY <1>q, <1>f, <4>1, <4>2, <4>3
      <4>5. x2 = c'.out[j] /\ p2 = Len(b'.recv) + j
        BY <1>q, <3>2, <4>3
      <4> QED
        BY <4>4, <4>5, Zenon DEF Fits
    <3>3. CASE /\ c'.out[j] = x /\ Takes(c.closed, c.out) /\ j = Len(c.out) + 1
               /\ Offered(c.closed, c.out, c'.out, x) /\ x.kind # "close"
      <4>1. Len(b.recv) + j = Given + 1
        <5>1. PICK m, n \in Nat : m = Len(b.recv) /\ n = Len(c.out) /\ Given = m + n
          BY GivenFacts, Zenon
        <5>2. j = n + 1
          BY <3>3, <5>1
        <5>3. m + j = (m + n) + 1
          BY <5>2
        <5> QED
          BY <5>1, <5>3, Zenon
      <4>2. PICK p2 : p2 = Given + 1
        OBVIOUS
      <4>3. Fits(x, p2)'
        BY <1>q, <3>3, <4>2
      <4>4. x = c'.out[j] /\ p2 = Len(b'.recv) + j
        BY <1>q, <3>3, <4>1, <4>2
      <4> QED
        BY <4>3, <4>4, Zenon DEF Fits
    <3> QED
      BY <3>1, <3>2, <3>3
  <2>3. SocketShape'
    BY <2>2 DEF SocketShape
  <2> QED
    BY <1>r, <2>1, <2>3 DEF ShapeInv
<1>k. Close.kind = "close"
  BY DEF Close
<1>5. CASE \/ BrowserSends \/ BrowserCloses \/ TargetSends \/ TargetCloses
           \/ ChannelOpens \/ Disconnect \/ ServerStops
  <2>1. protocol' = protocol /\ b'.recv = b.recv /\ s'.connected = s.connected /\ c' = c
    BY <1>5, BrowserMoves, TargetMoves, ChannelOpensMoves, DisconnectMoves, ServerStopsMoves
  <2> QED
    BY <1>q, <2>1
<1>6. CASE ClientRequests \/ ClientConnecting \/ ClientReadsPartOfHead \/ ClientKeepsRequest
           \/ ClientResetsSocket \/ ClientDestroyed
  <2>1. protocol' = protocol /\ b'.recv = b.recv /\ s'.connected = s.connected /\ c'.out = c.out
    BY <1>6, ClientRequestsMoves, ClientConnectingMoves, ClientReadsPartOfHeadMoves,
       ClientKeepsRequestMoves, ClientResetsSocketMoves, ClientDestroyedMoves
  <2> QED
    BY <1>q, <2>1
<1>7. CASE \/ ClientRejects \/ ClientReads \/ ClientStops \/ ClientBadResponse
           \/ ClientFinUse \/ ClientSynackPhase
  <2>1. protocol' = protocol /\ b'.recv = b.recv /\ s'.connected = s.connected
    BY <1>7, ClientRejectsMoves, ClientReadsMoves, ClientStopsMoves, ClientBadResponseMoves,
       ClientFinUseMoves, ClientSynackPhaseMoves
  <2>2. c'.out = c.out \/ Offered(c.closed, c.out, c'.out, Close)
    BY <1>7, ClientRejectsMoves, ClientReadsMoves, ClientStopsMoves, ClientBadResponseMoves,
       ClientFinUseMoves, ClientSynackPhaseMoves
  <2> QED
    BY <1>q, <1>k, <2>1, <2>2
<1>8. CASE ClientDrained \/ ClientReadFails
  <2>1. protocol' = protocol /\ b'.recv = b.recv /\ s'.connected = s.connected /\ c'.out = <<>>
    BY <1>8, ClientClosesMoves
  <2> QED
    BY <1>q, <2>1
<1>9. CASE ClientFinds \/ ClientIgnoresData \/ ClientFinTest
  <2>1. protocol' = protocol /\ b'.recv = b.recv /\ s'.connected = s.connected /\ c'.out = c.out
    BY <1>9, ClientFindsMoves, ClientIgnoresDataMoves, ClientFinTestMoves
  <2> QED
    BY <1>q, <2>1
<1>10. CASE \/ ServerSyn \/ ServerFinds \/ ServerData \/ ServerBadRequest
            \/ ServerIgnoresData \/ ServerFin \/ ServerReads \/ ServerWrites
            \/ ServerDrained \/ ServerReadsEof \/ ServerFails
  <2>1. protocol' = protocol /\ b'.recv = b.recv /\ s'.connected = s.connected /\ c' = c
    BY <1>10, ServerSynMoves, ServerFindsMoves, ServerDataMoves, ServerBadRequestMoves,
       ServerIgnoresDataMoves, ServerFinMoves, ServerReadsMoves, ServerWritesMoves,
       ServerClosesMoves
  <2> QED
    BY <1>q, <2>1
<1>11. ASSUME NEW ok \in BOOLEAN, ServerResolves(ok)
       PROVE  ShapeInv'
  <2>1. protocol' = protocol /\ b'.recv = b.recv /\ s'.connected = s.connected /\ c' = c
    BY <1>11, ServerResolvesMoves
  <2> QED
    BY <1>q, <2>1
<1>12. ASSUME NEW ok \in BOOLEAN, ServerConnects(ok)
       PROVE  ShapeInv'
  <2>1. s.dial # "done" /\ c' = c /\ b' = b
    BY <1>12, ServerConnectsMoves
  <2>2. Len(b.recv) = 0 /\ \A j \in 1..Len(c.out) : c.out[j].kind = "close"
    BY <2>1, DialAwaited, Lens DEF Awaited, Unposted
  <2>3. BrowserShape' /\ SocketShape'
    BY <2>1, <2>2 DEF BrowserShape, SocketShape
  <2> QED
    BY <1>r, <2>3 DEF ShapeInv
<1>13. CASE ClientData
  <2>0. PICK x : x = Chunk(crtc.val)
    OBVIOUS
  <2>1. /\ crtc.type = "DATA" /\ ~c.bad
        /\ Offered(c.closed, c.out, c'.out, x)
        /\ protocol' = protocol /\ b'.recv = b.recv /\ s' = s
    BY <1>13, <2>0, ClientDataMoves
  <2>2. x.kind = "chunk" /\ x.val = crtc.val
    BY <2>0 DEF Chunk
  <2>3. ASSUME NEW p, Takes(c.closed, c.out), p = Given + 1
        PROVE  Fits(x, p)'
    <3>1. crtc.val = Given + 1 - Off /\ crtc.val >= 1 /\ crtc.val =< s.read
      BY <2>1, <2>3, ChunkFits
    <3>0. PICK g, o \in Int : g = Given /\ o = Off
      BY GivenFacts DEF Off
    <3>2. x.val = p - Off
      <4>1. crtc.val = g + 1 - o /\ p = g + 1
        BY <2>3, <3>0, <3>1, Zenon
      <4>2. crtc.val = p - o
        BY <4>1
      <4> QED
        BY <2>2, <3>0, <4>2, Zenon
    <3>4. x.val >= 1 /\ x.val =< s'.read
      BY <2>1, <2>2, <3>1, Zenon
    <3>3. Off' = Off
      BY <2>1 DEF Off
    <3> QED
      BY <2>2, <3>2, <3>3, <3>4, Zenon DEF Fits
  <2> QED
    BY <1>q, <2>1, <2>3
<1>14. CASE ClientSynackReply /\ protocol = "HttpPlain" /\ crtc.val = 0
  <2>1. protocol' = protocol /\ b'.recv = b.recv /\ s'.connected = s.connected /\ c'.out = c.out
    BY <1>14, ClientReplaysMoves
  <2> QED
    BY <1>q, <2>1
<1>15. CASE ClientSynackReply /\ ~(protocol = "HttpPlain" /\ crtc.val = 0)
  <2>0. PICK x : x = Reply(crtc.val = 0)
    OBVIOUS
  <2>1. /\ crtc.type = "SYNACK" /\ crtc.at = "found"
        /\ Offered(c.closed, c.out, c'.out, x)
        /\ protocol' = protocol /\ b'.recv = b.recv /\ s' = s
    BY <1>15, <2>0, ClientRepliesMoves
  <2>2. x.kind = "reply"
    BY <2>0 DEF Reply
  <2>3. protocol = "HttpPlain" => ~s.connected
    BY <1>15, <2>1 DEF AnswerInv, Says
  <2>4. ASSUME NEW p, Takes(c.closed, c.out), p = Given + 1
        PROVE  Fits(x, p)'
    <3>1. p = 1
      BY <2>1, <2>4, ReplyFits
    <3> QED
      BY <2>1, <2>2, <2>3, <3>1 DEF Fits
  <2> QED
    BY <1>q, <2>1, <2>4
<1>16. CASE ClientWrites
  <2>1. /\ Popped(c.out, c'.out) /\ c.out[1].kind # "close"
        /\ Pushed(b.recv, b'.recv, c.out[1])
        /\ protocol' = protocol /\ s' = s
    BY <1>16, ClientWritesMoves
  <2>2. PICK m, n \in Nat : m = Len(b.recv) /\ n = Len(c.out)
    BY Lens
  <2>3. /\ 1 \in 1..Len(c.out)
        /\ \A j \in 1..Len(c'.out) : j + 1 \in 1..Len(c.out) /\ c'.out[j] = c.out[j + 1]
    BY <2>1, <2>2, PoppedFacts
  <2>4. Fits(c.out[1], m + 1)
    BY <2>1, <2>2, <2>3, Zenon DEF ShapeInv, SocketShape
  <2>5. /\ Len(b'.recv) = m + 1
        /\ \A i \in 1..Len(b'.recv) : \/ i \in 1..Len(b.recv) /\ b'.recv[i] = b.recv[i]
                                      \/ i = m + 1 /\ b'.recv[i] = c.out[1]
    <3>1. PICK q, q2, y : q = b.recv /\ q2 = b'.recv /\ y = c.out[1]
      OBVIOUS
    <3>2. Pushed(q, q2, y) /\ Len(q) = m
      BY <2>1, <2>2, <3>1
    <3>3. /\ Len(q2) = m + 1
          /\ \A i \in 1..Len(q2) : (i \in 1..Len(q) /\ q2[i] = q[i]) \/ (i = m + 1 /\ q2[i] = y)
      BY <3>2, PushedFacts
    <3>4. Len(b'.recv) = m + 1
      BY <3>1, <3>3, Zenon
    <3>5. ASSUME NEW i \in 1..Len(b'.recv)
          PROVE  \/ i \in 1..Len(b.recv) /\ b'.recv[i] = b.recv[i]
                 \/ i = m + 1 /\ b'.recv[i] = c.out[1]
      <4>1. \/ i \in 1..Len(q) /\ q2[i] = q[i]
            \/ i = m + 1 /\ q2[i] = y
        BY <3>1, <3>3, <3>5, Zenon
      <4> QED
        BY <3>1, <4>1, Zenon
    <3> QED
      BY <3>4, <3>5
  <2>6. ASSUME NEW x, NEW p, Fits(x, p)
        PROVE  Fits(x, p)'
    BY <2>1, <2>6 DEF Fits, Off
  <2>7. BrowserShape'
    <3>1. ASSUME NEW i \in 1..Len(b'.recv)
          PROVE  Fits(b.recv[i], i)'
      <4>1. \/ i \in 1..Len(b.recv) /\ b'.recv[i] = b.recv[i]
            \/ i = m + 1 /\ b'.recv[i] = c.out[1]
        BY <2>5, <3>1
      <4>2. PICK x : x = b'.recv[i]
        OBVIOUS
      <4>3. Fits(x, i)
        BY <2>4, <4>1, <4>2, Zenon DEF ShapeInv, BrowserShape
      <4>4. Fits(x, i)'
        BY <2>6, <4>3
      <4> QED
        BY <4>2, <4>4, Zenon DEF Fits
    <3> QED
      BY <3>1 DEF BrowserShape
  <2>8. SocketShape'
    <3>1. ASSUME NEW j \in 1..Len(c'.out)
          PROVE  c'.out[j].kind = "close" \/ Fits(c.out[j], Len(b.recv) + j)'
      <4>1. j + 1 \in 1..Len(c.out) /\ c'.out[j] = c.out[j + 1]
        BY <2>3, <3>1
      <4>2. PICK x : x = c'.out[j]
        OBVIOUS
      <4>3. x.kind = "close" \/ Fits(x, m + (j + 1))
        BY <2>2, <4>1, <4>2, Zenon DEF ShapeInv, SocketShape
      <4>4. j \in Int /\ m + (j + 1) = (m + 1) + j
        BY <3>1
      <4>5. PICK p : p = (m + 1) + j
        OBVIOUS
      <4>6. x.kind = "close" \/ Fits(x, p)'
        BY <2>6, <4>3, <4>4, <4>5, Zenon
      <4>7. x = c'.out[j] /\ p = Len(b'.recv) + j
        BY <2>5, <4>2, <4>5, Zenon
      <4> QED
        BY <4>6, <4>7, Zenon DEF Fits
    <3> QED
      BY <3>1 DEF SocketShape
  <2> QED
    BY <1>r, <2>7, <2>8 DEF ShapeInv
<1> QED
  BY <1>5, <1>6, <1>7, <1>8, <1>9, <1>10, <1>11, <1>12, <1>13, <1>14, <1>15, <1>16
     DEF Next, Environment, System, ClientStrand, ClientRtc, ServerRtc, ServerStrand

-----------------------------------------------------------------------------
(* The end of the target's stream.                                         *)

(* Once the server's session has ended it reads nothing more, and what     *)
(* ended it stays true (do_close, closeSession).                           *)
LEMMA FinishedStays ==
    ASSUME TypeOK, SocketInv, AskInv, ConnectedInv, Finished, Next
    PROVE  Finished'
<1> USE DEF ChannelSame, HandsSame, BrowserSame, TargetSame, DialStill, FarDoorStill
<1>1. s.closed /\ s.connected /\ ~s.fd /\ s.dial = "done"
  BY ConnectedFacts DEF Finished
<1>2. s'.connected
  BY <1>1, ConnectedStays
<1>q. ASSUME s'.closed = s.closed, s'.fd = s.fd, s'.failed = s.failed,
             s.bad => s'.bad, s'.read = s.read, t'.sent = t.sent, t'.eof = t.eof
      PROVE  Finished'
  BY <1>1, <1>2, <1>q DEF Finished
<1>5. CASE BrowserSends \/ BrowserCloses \/ ChannelOpens \/ Disconnect \/ ServerStops
  <2>1. /\ s'.closed = s.closed /\ s'.fd = s.fd /\ s'.failed = s.failed
        /\ s'.bad = s.bad /\ s'.read = s.read /\ t' = t
    BY <1>5, BrowserMoves, ChannelOpensMoves, DisconnectMoves, ServerStopsMoves
  <2> QED
    BY <1>q, <2>1
<1>6. CASE TargetSends \/ TargetCloses
  BY <1>6, <1>2, TargetMoves DEF Finished
<1>7. CASE ClientStrand \/ ClientRejects \/ ClientStops
  <2>1. s' = s /\ t' = t
    BY <1>7, ClientRequestsMoves, ClientConnectingMoves, ClientReadsPartOfHeadMoves,
       ClientKeepsRequestMoves, ClientRejectsMoves, ClientReadsMoves, ClientWritesMoves,
       ClientClosesMoves, ClientResetsSocketMoves, ClientDestroyedMoves,
       ClientStopsMoves DEF ClientStrand
  <2> QED
    BY <1>q, <2>1
<1>8. CASE ClientRtc \/ ClientBadResponse
  <2>1. s' = s /\ t' = t
    BY <1>8, ClientFindsMoves, ClientDataMoves, ClientBadResponseMoves,
       ClientIgnoresDataMoves, ClientReplaysMoves, ClientRepliesMoves,
       ClientSynackPhaseMoves, ClientFinTestMoves, ClientFinUseMoves DEF ClientRtc
  <2> QED
    BY <1>q, <2>1
<1>9. CASE \/ ServerSyn \/ ServerFinds \/ ServerData \/ ServerBadRequest
           \/ ServerIgnoresData \/ ServerFin
  <2>1. /\ s'.closed = s.closed /\ s'.fd = s.fd /\ s'.failed = s.failed
        /\ s.bad => s'.bad
        /\ s'.read = s.read /\ t' = t
    BY <1>9, ServerSynMoves, ServerFindsMoves, ServerDataMoves, ServerBadRequestMoves,
       ServerIgnoresDataMoves, ServerFinMoves
  <2> QED
    BY <1>q, <2>1
<1>10. ASSUME NEW ok \in BOOLEAN, ServerResolves(ok) \/ ServerConnects(ok)
       PROVE  Finished'
  BY <1>10, <1>1, ServerResolvesMoves, ServerConnectsMoves
<1>11. CASE ServerReads
  BY <1>11, <1>1, ServerReadsMoves
<1>12. CASE ServerWrites
  <2>1. /\ s'.closed = s.closed /\ s'.fd = s.fd /\ s'.failed = s.failed
        /\ s'.bad = s.bad /\ s'.read = s.read /\ t'.sent = t.sent /\ t'.eof = t.eof
    BY <1>12, ServerWritesMoves
  <2> QED
    BY <1>q, <2>1
<1>13. CASE ServerDrained \/ ServerReadsEof \/ ServerFails
  BY <1>13, <1>1, ServerClosesMoves
<1> QED
  BY <1>5, <1>6, <1>7, <1>8, <1>9, <1>10, <1>11, <1>12, <1>13
     DEF Next, Environment, System, ServerRtc, ServerStrand

(* The FIN comes last (closeSession is the last to send).                  *)
LEMMA FinKept ==
    ASSUME TypeOK, SocketInv, AskInv, ConnectedInv, AnswerInv, FinInv, Next
    PROVE  FinInv'
<1> USE DEF ChannelSame, HandsSame, BrowserSame, TargetSame, DialStill, FarDoorStill
<1>q. ASSUME s2c' = s2c \/ s2c' = <<>>,
             \/ crtc' = crtc
             \/ crtc'.type # "FIN"
             \/ crtc'.type = "FIN" /\ crtc.type = "FIN"
      PROVE  FinInv'
  BY <1>q, FinishedStays, EmptySeq, Lens DEF FinInv
<1>s. ASSUME NEW f, Sends(s2c, s2c', f), f.type = "FIN" => Finished', crtc' = crtc,
             ~Finished
      PROVE  FinInv'
  <2>1. crtc.type # "FIN" /\ \A k \in 1..Len(s2c) : s2c[k].type # "FIN"
    BY <1>s DEF FinInv
  <2>2. CASE dc = "open"
    <3>1. /\ Len(s2c') \in Nat
          /\ \A k \in 1..Len(s2c') : \/ k \in 1..Len(s2c) /\ s2c'[k] = s2c[k]
                                     \/ k = Len(s2c') /\ s2c'[k] = f
      BY <1>s, <2>2, Lens, PushedFacts DEF Sends
    <3> QED
      BY <1>s, <2>1, <3>1 DEF FinInv
  <2>3. CASE dc # "open"
    BY <1>s, <1>q, <2>3 DEF Sends
  <2> QED
    BY <2>2, <2>3
<1>k. \A n : Frame("SYNACK", n).type = "SYNACK" /\ Frame("DATA", n).type = "DATA"
  BY DEF Frame
<1>5. CASE \/ BrowserSends \/ BrowserCloses \/ TargetSends \/ TargetCloses
           \/ ChannelOpens \/ Disconnect \/ ServerStops
  <2>1. (s2c' = s2c \/ s2c' = <<>>) /\ crtc' = crtc
    BY <1>5, BrowserMoves, TargetMoves, ChannelOpensMoves, DisconnectMoves, ServerStopsMoves
  <2> QED
    BY <1>q, <2>1
<1>6. CASE ClientStrand \/ ClientRejects \/ ClientStops
  <2>1. s2c' = s2c /\ crtc' = crtc
    BY <1>6, ClientRequestsMoves, ClientConnectingMoves, ClientReadsPartOfHeadMoves,
       ClientKeepsRequestMoves, ClientRejectsMoves, ClientReadsMoves, ClientWritesMoves,
       ClientClosesMoves, ClientResetsSocketMoves, ClientDestroyedMoves,
       ClientStopsMoves DEF ClientStrand
  <2> QED
    BY <1>q, <2>1
<1>7. CASE ClientFinds
  <2>1. /\ Popped(s2c, s2c') /\ Len(s2c) \in Nat /\ Len(s2c') \in Nat
        /\ s2c' = <<>> <=> Len(s2c') = 0
        /\ crtc'.type = s2c[1].type \/ crtc'.type = "none"
    BY <1>7, ClientFindsMoves, Lens, NextTypeOK, EmptyFacts DEF TypeOK
  <2>2. /\ 1 \in 1..Len(s2c) /\ Len(s2c) = Len(s2c') + 1
        /\ \A k \in 1..Len(s2c') : k + 1 \in 1..Len(s2c) /\ s2c'[k] = s2c[k + 1]
    BY <2>1, PoppedFacts
  <2>3. \A k \in 1..Len(s2c) : s2c[k].type = "FIN" => k = Len(s2c) /\ Finished'
    BY FinishedStays DEF FinInv
  <2>4. \A k \in 1..Len(s2c') : s2c'[k].type = "FIN" => k = Len(s2c') /\ Finished'
    BY <2>2, <2>3
  <2>5. crtc'.type = "FIN" => s2c' = <<>> /\ Finished'
    BY <2>1, <2>2, <2>3
  <2> QED
    BY <2>4, <2>5 DEF FinInv
<1>8. CASE \/ ClientData \/ ClientBadResponse \/ ClientIgnoresData \/ ClientSynackReply
           \/ ClientSynackPhase \/ ClientFinTest \/ ClientFinUse
  <2>1. s2c' = s2c /\ (crtc'.type = "FIN" => crtc.type = "FIN")
    BY <1>8, ClientDataMoves, ClientBadResponseMoves, ClientIgnoresDataMoves,
       ClientReplaysMoves, ClientRepliesMoves, ClientSynackPhaseMoves,
       ClientFinTestMoves, ClientFinUseMoves
  <2> QED
    BY <1>q, <2>1
<1>9. CASE \/ ServerSyn \/ ServerFinds \/ ServerData \/ ServerBadRequest
           \/ ServerIgnoresData \/ ServerFin \/ ServerWrites
  <2>1. s2c' = s2c /\ crtc' = crtc
    BY <1>9, ServerSynMoves, ServerFindsMoves, ServerDataMoves, ServerBadRequestMoves,
       ServerIgnoresDataMoves, ServerFinMoves, ServerWritesMoves
  <2> QED
    BY <1>q, <2>1
<1>10. ASSUME NEW ok \in BOOLEAN, ServerResolves(ok) \/ ServerConnects(ok)
       PROVE  FinInv'
  <2>1. /\ \/ s2c' = s2c
           \/ Sends(s2c, s2c', Frame("SYNACK", 0))
           \/ Sends(s2c, s2c', Frame("SYNACK", 1))
        /\ crtc' = crtc /\ s.dial # "done"
    BY <1>10, ServerResolvesMoves, ServerConnectsMoves
  <2>2. ~Finished
    BY <2>1 DEF ConnectedInv, Finished
  <2> QED
    BY <1>q, <1>s, <1>k, <2>1, <2>2
<1>11. CASE ServerReads
  BY <1>11, <1>s, <1>k, ServerReadsMoves DEF Finished
<1>12. CASE ServerDrained \/ ServerReadsEof \/ ServerFails
  <2>1. /\ crtc' = crtc /\ t' = t /\ ~s.closed /\ s'.closed /\ ~s'.fd
        /\ s'.connected = s.connected /\ s'.read = s.read /\ s'.bad = s.bad
        /\ s'.failed => s.connected
        /\ \/ s2c' = s2c
           \/ /\ Sends(s2c, s2c', Frame("FIN", 0))
              /\ \/ s'.failed \/ s.bad
                 \/ s.connected /\ t.eof /\ s.read = t.sent
    BY <1>12, ServerClosesMoves
  <2>2. CASE s2c' = s2c
    BY <1>q, <2>1, <2>2
  <2>3. CASE /\ Sends(s2c, s2c', Frame("FIN", 0))
             /\ \/ s'.failed \/ s.bad
                \/ s.connected /\ t.eof /\ s.read = t.sent
    <3>1. s.connected
      BY <2>1, <2>3, ConnectedFacts
    <3>2. Finished' /\ ~Finished
      BY <2>1, <2>3, <3>1 DEF Finished
    <3> QED
      BY <1>s, <2>1, <2>3, <3>2
  <2> QED
    BY <2>1, <2>2, <2>3
<1> QED
  BY <1>5, <1>6, <1>7, <1>8, <1>9, <1>10, <1>11, <1>12
     DEF Next, Environment, System, ClientRtc, ServerRtc, ServerStrand

-----------------------------------------------------------------------------
(* Nothing is missing on the way down.                                     *)

(* Writing an item moves it, posting one adds it (do_write, send).         *)
LEMMA GivenMoves ==
    ASSUME TypeOK
    PROVE  /\ (b'.recv = b.recv /\ c'.out = c.out) => Given' = Given
           /\ \A x : (b'.recv = b.recv /\ Pushed(c.out, c'.out, x)) => Given' = Given + 1
           /\ \A x : (Popped(c.out, c'.out) /\ Pushed(b.recv, b'.recv, x)) => Given' = Given
<1>1. PICK m, n \in Nat : m = Len(b.recv) /\ n = Len(c.out) /\ Given = m + n
  BY GivenFacts, Zenon
<1>2. (b'.recv = b.recv /\ c'.out = c.out) => Given' = Given
  BY DEF Given
<1>3. ASSUME NEW x, b'.recv = b.recv, Pushed(c.out, c'.out, x)
      PROVE  Given' = Given + 1
  <2>1. Len(c'.out) = n + 1 /\ Len(b'.recv) = m
    BY <1>1, <1>3 DEF Pushed
  <2>2. Given' = m + (n + 1)
    BY <2>1, Zenon DEF Given
  <2>3. m + (n + 1) = (m + n) + 1
    OBVIOUS
  <2> QED
    BY <1>1, <2>2, <2>3, Zenon
<1>4. ASSUME NEW x, Popped(c.out, c'.out), Pushed(b.recv, b'.recv, x)
      PROVE  Given' = Given
  <2>1. Len(c'.out) = n - 1 /\ Len(b'.recv) = m + 1 /\ n >= 1
    BY <1>1, <1>4 DEF Popped, Pushed
  <2>2. Given' = (m + 1) + (n - 1)
    BY <2>1, Zenon DEF Given
  <2>3. (m + 1) + (n - 1) = m + n
    OBVIOUS
  <2> QED
    BY <1>1, <2>2, <2>3, Zenon
<1> QED
  BY <1>2, <1>3, <1>4, Zenon

(* A socket that is still posted to was posted to before; the close is the *)
(* last item it takes.                                                     *)
LEMMA PostingMoves ==
    ASSUME TypeOK, c'.closed = c.closed
    PROVE  /\ (c'.bad = c.bad /\ c'.out = c.out /\ Posting') => Posting
           /\ \A x : (x.kind = "close" /\ Offered(c.closed, c.out, c'.out, x)) => ~Posting'
           /\ \A x : (Offered(c.closed, c.out, c'.out, x) /\ Posting') =>
                        Takes(c.closed, c.out) /\ Pushed(c.out, c'.out, x)
           /\ (c'.bad = c.bad /\ Takes(c.closed, c.out) /\ Posting') => Posting
           /\ (/\ c'.bad = c.bad /\ Popped(c.out, c'.out) /\ c.out[1].kind # "close"
               /\ Posting') => Posting
<1>1. (c'.bad = c.bad /\ c'.out = c.out /\ Posting') => Posting
  BY DEF Posting
<1>2. ASSUME NEW x, Offered(c.closed, c.out, c'.out, x), Posting'
      PROVE  Takes(c.closed, c.out) /\ Pushed(c.out, c'.out, x)
  BY <1>2 DEF Offered, Takes, Posting
<1>3. ASSUME NEW x, x.kind = "close", Offered(c.closed, c.out, c'.out, x)
      PROVE  ~Posting'
  <2>1. CASE Takes(c.closed, c.out)
    BY <1>3, <2>1, Lens, PushedFacts DEF Offered, Posting
  <2>2. CASE ~Takes(c.closed, c.out)
    BY <1>3, <2>2 DEF Offered, Takes, Posting
  <2> QED
    BY <2>1, <2>2
<1>4. (c'.bad = c.bad /\ Takes(c.closed, c.out) /\ Posting') => Posting
  BY DEF Posting, Takes
<1>5. ASSUME c'.bad = c.bad, Popped(c.out, c'.out), c.out[1].kind # "close", Posting'
      PROVE  Posting
  <2>1. /\ Len(c.out) \in Nat /\ Len(c.out) = Len(c'.out) + 1 /\ Len(c'.out) \in Nat
        /\ \A j \in 1..Len(c'.out) : c'.out[j] = c.out[j + 1]
    BY <1>5, Lens, PoppedFacts
  <2>2. ASSUME NEW j \in 1..Len(c.out) PROVE c.out[j].kind # "close"
    <3>1. j = 1 \/ (j - 1 \in 1..Len(c'.out) /\ j = (j - 1) + 1)
      BY <2>1
    <3> QED
      BY <1>5, <2>1, <3>1 DEF Posting
  <2> QED
    BY <1>5, <2>2 DEF Posting
<1> QED
  BY <1>1, <1>2, <1>3, <1>4, <1>5, Zenon

(* The number of chunks among the items given, and what a FIN or an answer *)
(* in the channel takes from the count.                                    *)
LEMMA DueFacts ==
    ASSUME TypeOK
    PROVE  /\ InHand \in Nat /\ AnswerDue \in Nat /\ FinDue \in Nat
           /\ Off \in Nat
           /\ Len(s2c) = 0 => AnswerDue = 0 /\ FinDue = 0
           /\ crtc.type # "DATA" => InHand = 0
           /\ crtc.type = "DATA" => InHand = 1
BY Lens DEF InHand, AnswerDue, FinDue, Off

(* A frame sent comes last.                                                *)
LEMMA DueMoves ==
    ASSUME TypeOK, NEW f, Pushed(s2c, s2c', f)
    PROVE  /\ AnswerDue' = IF Len(s2c) = 0 /\ f.type = "SYNACK" THEN 1 ELSE AnswerDue
           /\ FinDue' = IF f.type = "FIN" THEN 1 ELSE 0
<1>1. PICK n \in Nat : n = Len(s2c)
  BY Lens
<1>2. /\ Len(s2c') = n + 1 /\ s2c'[n + 1] = f
      /\ n >= 1 => s2c'[1] = s2c[1]
  BY <1>1 DEF Pushed
<1>3. s2c' # <<>>
  BY <1>1, <1>2, EmptySeq
<1>4. FinDue' = IF f.type = "FIN" THEN 1 ELSE 0
  BY <1>2, <1>3 DEF FinDue
<1>5. CASE n = 0
  BY <1>1, <1>2, <1>3, <1>4, <1>5, Lens DEF AnswerDue
<1>6. CASE n # 0
  BY <1>1, <1>2, <1>3, <1>4, <1>6, Lens DEF AnswerDue
<1> QED
  BY <1>5, <1>6

(* Between the target's socket and a browser's socket that takes what it   *)
(* is given no chunk is missing: what was read is posted, in hand or in    *)
(* the channel.                                                            *)
LEMMA FlowKept ==
    ASSUME TypeOK, SocketInv, AskInv, ConnectedInv, AnswerInv, ShapeInv, FinInv, FlowInv,
           Next
    PROVE  FlowInv'
<1> USE DEF ChannelSame, HandsSame, BrowserSame, TargetSame, DialStill, FarDoorStill,
            DoorStill
<1>z. ASSUME ~Posting'
      PROVE  FlowInv'
  BY <1>z DEF FlowInv
<1>o. ASSUME protocol' = protocol
      PROVE  Off' = Off /\ (Given' = Given => Chunks(Given)' = Chunks(Given))
  BY <1>o DEF Chunks, Off
<1>a. ASSUME crtc'.type = crtc.type, crtc'.at = crtc.at \/ crtc.type # "SYNACK",
             s2c' = s2c, dc' # "closed" => dc # "closed",
             s'.dial = "done" => s.dial = "done", Answered'
      PROVE  Answered
  BY <1>a DEF Answered, AnswerDue
<1>q. ASSUME protocol' = protocol, Posting' => Posting /\ Given' = Given,
             crtc'.type = crtc.type, crtc'.val = crtc.val,
             crtc'.at = crtc.at \/ crtc.type # "SYNACK",
             s2c' = s2c, dc' # "closed" => dc # "closed",
             s'.connected = s.connected, s'.read = s.read,
             s'.dial = "done" => s.dial = "done"
      PROVE  FlowInv'
  <2>1. CASE ~Posting'
    BY <1>z, <2>1
  <2>2. CASE Posting'
    <3>1. Posting /\ Given' = Given /\ Chunks(Given)' = Chunks(Given)
      BY <1>q, <1>o, <2>2
    <3>2. InHand' = InHand /\ AnswerDue' = AnswerDue /\ FinDue' = FinDue
      BY <1>q DEF InHand, AnswerDue, FinDue
    <3>3. (Answered /\ protocol # "HttpPlain") => Given >= 1
      BY <3>1 DEF FlowInv
    <3>4. (Answered' /\ protocol' # "HttpPlain") => Given' >= 1
      BY <1>a, <1>q, <3>1, <3>3
    <3>5. s.connected =>
             /\ crtc.type = "DATA" => crtc.val = Chunks(Given) + 1
             /\ \A k \in 1..Len(s2c) : s2c[k].type = "DATA" =>
                   s2c[k].val = Chunks(Given) + InHand + k - AnswerDue
             /\ dc # "closed" =>
                   s.read = Chunks(Given) + InHand + Len(s2c) - AnswerDue - FinDue
      BY <3>1 DEF FlowInv
    <3>6. s'.connected =>
             /\ crtc'.type = "DATA" => crtc'.val = Chunks(Given)' + 1
             /\ \A k \in 1..Len(s2c') : s2c'[k].type = "DATA" =>
                   s2c'[k].val = Chunks(Given)' + InHand' + k - AnswerDue'
             /\ dc' # "closed" =>
                   s'.read = Chunks(Given)' + InHand' + Len(s2c') - AnswerDue' - FinDue'
      BY <1>q, <3>1, <3>2, <3>5
    <3> QED
      BY <3>4, <3>6 DEF FlowInv
  <2> QED
    BY <2>1, <2>2
<1>c. Close.kind = "close"
  BY DEF Close
<1>5. CASE \/ BrowserSends \/ BrowserCloses \/ TargetSends \/ TargetCloses
           \/ ChannelOpens \/ ServerStops
  <2>1. /\ protocol' = protocol /\ b'.recv = b.recv /\ c' = c /\ crtc' = crtc /\ s2c' = s2c
        /\ dc' # "closed" => dc # "closed"
        /\ s'.connected = s.connected /\ s'.read = s.read /\ s'.dial = s.dial
    BY <1>5, BrowserMoves, TargetMoves, ChannelOpensMoves, ServerStopsMoves
  <2> QED
    BY <1>q, <2>1, PostingMoves, GivenMoves
<1>6. CASE Disconnect
  <2>1. /\ protocol' = protocol /\ b' = b /\ c' = c /\ crtc' = crtc
        /\ s2c' = <<>> /\ Len(s2c') = 0 /\ dc = "open" /\ dc' = "closed" /\ s' = s
    BY <1>6, DisconnectMoves
  <2>2. Posting' => Posting /\ Given' = Given /\ Chunks(Given)' = Chunks(Given)
    BY <1>o, <2>1, PostingMoves, GivenMoves
  <2>3. Answered' => Answered
    <3>1. crtc.type # "none" => AnswerDue = 0
      BY Lens DEF AnswerInv, AnswerDue
    <3> QED
      BY <2>1, <3>1 DEF Answered
  <2> QED
    BY <2>1, <2>2, <2>3 DEF FlowInv
<1>7. CASE ClientRequests \/ ClientConnecting \/ ClientReadsPartOfHead \/ ClientKeepsRequest
           \/ ClientDestroyed
  <2>1. /\ protocol' = protocol /\ b'.recv = b.recv /\ c'.out = c.out /\ c'.closed = c.closed
        /\ c'.bad = c.bad
        /\ crtc' = crtc /\ s2c' = s2c /\ dc' = dc /\ s' = s
    BY <1>7, ClientRequestsMoves, ClientConnectingMoves, ClientReadsPartOfHeadMoves,
       ClientKeepsRequestMoves, ClientDestroyedMoves
  <2> QED
    BY <1>q, <2>1, PostingMoves, GivenMoves
<1>8. CASE ClientRejects \/ ClientStops \/ ClientBadResponse \/ ClientFinUse
  <2>1. c'.closed = c.closed /\ Offered(c.closed, c.out, c'.out, Close)
    BY <1>8, ClientRejectsMoves, ClientStopsMoves, ClientBadResponseMoves, ClientFinUseMoves
  <2> QED
    BY <1>z, <1>c, <2>1, PostingMoves
<1>9. CASE ClientDrained \/ ClientReadFails \/ ClientResetsSocket \/ ClientIgnoresData
  <2>1. c'.closed \/ c'.bad
    BY <1>9, ClientClosesMoves, ClientResetsSocketMoves, ClientIgnoresDataMoves
  <2> QED
    BY <1>z, <2>1 DEF Posting
<1>10. CASE ClientReads
  <2>1. CASE c.phase = "Closed"
    <3>1. c'.closed = c.closed /\ Offered(c.closed, c.out, c'.out, Close)
      BY <1>10, <2>1, ClientReadsMoves
    <3> QED
      BY <1>z, <1>c, <3>1, PostingMoves
  <2>2. CASE c.phase # "Closed"
    <3>1. /\ protocol' = protocol /\ b'.recv = b.recv /\ c'.out = c.out /\ c'.closed = c.closed
          /\ c'.bad = c.bad
          /\ crtc' = crtc /\ s2c' = s2c /\ dc' = dc /\ s' = s
      BY <1>10, <2>2, ClientReadsMoves
    <3> QED
      BY <1>q, <3>1, PostingMoves, GivenMoves
  <2> QED
    BY <2>1, <2>2
<1>11. CASE ClientWrites
  <2>1. /\ protocol' = protocol /\ c'.closed = c.closed /\ c'.bad = c.bad
        /\ Popped(c.out, c'.out) /\ c.out[1].kind # "close"
        /\ Pushed(b.recv, b'.recv, c.out[1])
        /\ crtc' = crtc /\ s2c' = s2c /\ dc' = dc /\ s' = s
    BY <1>11, ClientWritesMoves
  <2> QED
    BY <1>q, <2>1, PostingMoves, GivenMoves
<1>12. CASE ClientFinTest
  <2>1. /\ protocol' = protocol /\ b'.recv = b.recv /\ c'.out = c.out /\ c'.closed = c.closed
        /\ c'.bad = c.bad /\ s2c' = s2c /\ dc' = dc /\ s' = s
        /\ crtc.type = "FIN" /\ (crtc'.type = "FIN" \/ (crtc'.type = "none" /\ ~c.ptr))
    BY <1>12, ClientFinTestMoves
  <2>2. CASE ~c.ptr
    BY <1>z, <2>1, <2>2 DEF Posting, SocketInv, ClientSocket
  <2>3. CASE crtc'.type = "FIN"
    <3>1. Posting' => Posting /\ Given' = Given /\ Chunks(Given)' = Chunks(Given)
      BY <1>o, <2>1, PostingMoves, GivenMoves
    <3>2. InHand' = InHand /\ AnswerDue' = AnswerDue /\ FinDue' = FinDue
      BY <2>1, <2>3 DEF InHand, AnswerDue, FinDue
    <3>3. Answered' => Answered
      BY <1>a, <2>1, <2>3
    <3> QED
      BY <2>1, <2>3, <3>1, <3>2, <3>3 DEF FlowInv
  <2> QED
    BY <2>1, <2>2, <2>3
<1>13. CASE ClientSynackReply /\ protocol = "HttpPlain" /\ crtc.val = 0
  <2>1. /\ protocol' = protocol /\ b'.recv = b.recv /\ c'.out = c.out /\ c'.closed = c.closed
        /\ c'.bad = c.bad /\ s2c' = s2c /\ dc' = dc /\ s' = s
        /\ crtc.type = "SYNACK" /\ crtc'.type = "SYNACK"
    BY <1>13, ClientReplaysMoves
  <2>2. Posting' => Posting /\ Given' = Given /\ Chunks(Given)' = Chunks(Given)
    BY <1>o, <2>1, PostingMoves, GivenMoves
  <2>3. InHand' = InHand /\ AnswerDue' = AnswerDue /\ FinDue' = FinDue
    BY <2>1 DEF InHand, AnswerDue, FinDue
  <2> QED
    BY <1>13, <2>1, <2>2, <2>3 DEF FlowInv
<1>14. CASE \/ ServerSyn \/ ServerFinds \/ ServerData \/ ServerBadRequest
            \/ ServerIgnoresData \/ ServerFin \/ ServerWrites
  <2>1. /\ protocol' = protocol /\ b'.recv = b.recv /\ c' = c
        /\ crtc' = crtc /\ s2c' = s2c /\ dc' = dc
        /\ s'.connected = s.connected /\ s'.read = s.read
        /\ s'.dial = "done" => s.dial = "done"
    BY <1>14, ServerSynMoves, ServerFindsMoves, ServerDataMoves, ServerBadRequestMoves,
       ServerIgnoresDataMoves, ServerFinMoves, ServerWritesMoves
  <2> QED
    BY <1>q, <2>1, PostingMoves, GivenMoves
<1>e. FlowInv <=>
        /\ (Posting /\ Answered /\ protocol # "HttpPlain") => Given >= 1
        /\ (Posting /\ s.connected) =>
              /\ crtc.type = "DATA" => crtc.val = Chunks(Given) + 1
              /\ \A k \in 1..Len(s2c) : s2c[k].type = "DATA" =>
                    s2c[k].val = Chunks(Given) + InHand + k - AnswerDue
              /\ dc # "closed" =>
                    s.read = Chunks(Given) + InHand + Len(s2c) - AnswerDue - FinDue
  BY DEF FlowInv
<1>g. Given \in Nat /\ Chunks(Given) \in Int
  BY GivenFacts, DueFacts DEF Chunks
<1>15. CASE ClientData
  <2>1. /\ crtc.type = "DATA" /\ ~c.bad /\ crtc'.type = "none"
        /\ Offered(c.closed, c.out, c'.out, Chunk(crtc.val))
        /\ c'.closed = c.closed /\ c'.bad = c.bad
        /\ protocol' = protocol /\ b'.recv = b.recv /\ s' = s /\ dc' = dc /\ s2c' = s2c
    BY <1>15, ClientDataMoves
  <2>2. CASE ~Posting'
    BY <1>z, <2>2
  <2>3. CASE Posting'
    <3>0. PICK x : x = Chunk(crtc.val)
      OBVIOUS
    <3>1. Takes(c.closed, c.out) /\ Pushed(c.out, c'.out, x)
      BY <2>1, <2>3, <3>0, PostingMoves
    <3>2. Posting /\ Given' = Given + 1
      BY <2>1, <2>3, <3>1, PostingMoves, GivenMoves
    <3>3. s.connected /\ Chunks(Given) + 1 = Given + 1 - Off
      BY <2>1, <3>1, ChunkFits
    <3>4. Chunks(Given)' = Chunks(Given) + 1
      <4>1. Chunks(Given)' = Given + 1 - Off
        <5>1. PICK g \in Nat : g = Given
          BY <1>g
        <5>2. Given' # 0
          BY <3>2, <5>1
        <5>3. PICK o \in Nat : o = Off
          BY DueFacts
        <5>4. Given' = g + 1 /\ Off' = o
          BY <1>o, <2>1, <3>2, <5>1, <5>3
        <5>5. Chunks(Given)' = (g + 1) - o
          BY <5>2, <5>4, Zenon DEF Chunks
        <5>6. (g + 1) - o = g + 1 - o
          OBVIOUS
        <5> QED
          BY <5>1, <5>3, <5>5, <5>6, Zenon
      <4> QED
        BY <3>3, <4>1
    <3>5. InHand = 1 /\ InHand' = 0 /\ AnswerDue' = AnswerDue /\ FinDue' = FinDue
      BY <2>1 DEF InHand, AnswerDue, FinDue
    <3>6. /\ \A k \in 1..Len(s2c) : s2c[k].type = "DATA" =>
                s2c[k].val = Chunks(Given) + 1 + k - AnswerDue
          /\ dc # "closed" => s.read = Chunks(Given) + 1 + Len(s2c) - AnswerDue - FinDue
      BY <3>2, <3>3, <3>5, <1>e
    <3>7. /\ \A k \in 1..Len(s2c') : s2c'[k].type = "DATA" =>
                s2c'[k].val = Chunks(Given)' + InHand' + k - AnswerDue'
          /\ dc' # "closed" => s'.read = Chunks(Given)' + InHand' + Len(s2c') - AnswerDue' - FinDue'
      BY <1>g, <2>1, <3>4, <3>5, <3>6, Lens, DueFacts
    <3>8. Given' >= 1
      BY <1>g, <3>2
    <3> QED
      BY <2>1, <3>7, <3>8 DEF FlowInv
  <2> QED
    BY <2>2, <2>3
<1>16. CASE ClientSynackReply /\ ~(protocol = "HttpPlain" /\ crtc.val = 0)
  <2>1. /\ crtc.type = "SYNACK" /\ crtc.at = "found" /\ crtc'.type = "SYNACK"
        /\ Offered(c.closed, c.out, c'.out, Reply(crtc.val = 0))
        /\ c'.closed = c.closed /\ c'.bad = c.bad
        /\ protocol' = protocol /\ b'.recv = b.recv /\ s' = s /\ dc' = dc /\ s2c' = s2c
    BY <1>16, ClientRepliesMoves
  <2>2. CASE ~Posting'
    BY <1>z, <2>2
  <2>3. CASE Posting'
    <3>0. PICK x : x = Reply(crtc.val = 0)
      OBVIOUS
    <3>1. Takes(c.closed, c.out) /\ Pushed(c.out, c'.out, x)
      BY <2>1, <2>3, <3>0, PostingMoves
    <3>2. Posting /\ Given' = Given + 1 /\ Given = 0
      BY <2>1, <2>3, <3>1, PostingMoves, GivenMoves, ReplyFits
    <3>3. s.connected => protocol # "HttpPlain"
      BY <1>16, <2>1 DEF AnswerInv, Says
    <3>4. Given' = 1 /\ Given' >= 1
      BY <3>2
    <3>5. s.connected => Chunks(Given)' = Chunks(Given)
      BY <2>1, <3>2, <3>3, <3>4 DEF Chunks, Off
    <3>6. InHand' = InHand /\ AnswerDue' = AnswerDue /\ FinDue' = FinDue
      BY <2>1 DEF InHand, AnswerDue, FinDue
    <3> QED
      BY <2>1, <3>2, <3>4, <3>5, <3>6 DEF FlowInv
  <2> QED
    BY <2>2, <2>3
<1>17. CASE ClientSynackPhase
  <2>1. CASE crtc.val # 0
    <3>1. c'.closed = c.closed /\ Offered(c.closed, c.out, c'.out, Close)
      BY <1>17, <2>1, ClientSynackPhaseMoves
    <3> QED
      BY <1>z, <1>c, <3>1, PostingMoves
  <2>2. CASE crtc.val = 0
    <3>1. /\ protocol' = protocol /\ b'.recv = b.recv /\ c'.out = c.out /\ c'.closed = c.closed
          /\ c'.bad = c.bad /\ s2c' = s2c /\ dc' = dc /\ s' = s
          /\ crtc.type = "SYNACK" /\ crtc.at = "replied" /\ crtc'.type = "none"
      BY <1>17, <2>2, ClientSynackPhaseMoves
    <3>2. Posting' => Posting /\ Given' = Given /\ Chunks(Given)' = Chunks(Given)
      BY <1>o, <3>1, PostingMoves, GivenMoves
    <3>3. InHand' = InHand /\ AnswerDue' = AnswerDue /\ FinDue' = FinDue
      BY <3>1 DEF InHand, AnswerDue, FinDue
    <3>4. Answered' => Answered
      BY <3>1 DEF Answered, AnswerDue
    <3> QED
      BY <3>1, <3>2, <3>3, <3>4 DEF FlowInv
  <2> QED
    BY <2>1, <2>2
<1>18. CASE ServerReads \/ ServerDrained \/ ServerReadsEof \/ ServerFails
  <2>1. /\ protocol' = protocol /\ b' = b /\ c' = c /\ crtc' = crtc /\ dc' = dc
        /\ s'.connected = s.connected /\ s'.dial = s.dial
        /\ ~Finished
        /\ \/ s2c' = s2c /\ s'.read = s.read
           \/ s'.read = s.read + 1 /\ s.connected /\ Sends(s2c, s2c', Frame("DATA", s.read + 1))
           \/ s'.read = s.read /\ Sends(s2c, s2c', Frame("FIN", 0))
    BY <1>18, ServerReadsMoves, ServerClosesMoves DEF Finished
  <2>2. Posting' => Posting /\ Given' = Given /\ Chunks(Given)' = Chunks(Given)
    BY <1>o, <2>1, PostingMoves, GivenMoves
  <2>3. InHand' = InHand
    BY <2>1 DEF InHand
  <2>4. FinDue = 0
    BY <2>1, Lens DEF FinDue, FinInv
  <2>5. CASE s2c' = s2c /\ s'.read = s.read
    BY <1>q, <2>1, <2>2, <2>5
  <2>6. CASE dc # "open" /\ ~(s2c' = s2c /\ s'.read = s.read)
    <3>1. s2c' = s2c /\ s.connected
      BY <2>1, <2>6 DEF Sends
    <3>2. dc # "connecting"
      BY <3>1, ConnectedFacts DEF AskInv
    <3>3. dc = "closed"
      BY <2>6, <3>2 DEF TypeOK
    <3>4. AnswerDue' = AnswerDue
      BY <3>1 DEF AnswerDue
    <3>5. Answered' => Answered
      BY <1>a, <2>1, <3>1, <3>3
    <3> QED
      BY <2>1, <2>2, <2>3, <3>1, <3>3, <3>4, <3>5 DEF FlowInv
  <2>7. ASSUME dc = "open", NEW f, Pushed(s2c, s2c', f),
               \/ f.type = "DATA" /\ f.val = s.read + 1 /\ s'.read = s.read + 1
               \/ f.type = "FIN" /\ s'.read = s.read
        PROVE  FlowInv'
    <3>1. AnswerDue' = AnswerDue /\ FinDue' = IF f.type = "FIN" THEN 1 ELSE 0
      BY <2>7, DueMoves, DueFacts
    <3>2. Answered' => Answered
      BY <2>1, <2>7, <3>1 DEF Answered
    <3>3. /\ Len(s2c) \in Nat /\ Len(s2c') = Len(s2c) + 1
          /\ \A k \in 1..Len(s2c') : \/ k \in 1..Len(s2c) /\ s2c'[k] = s2c[k]
                                     \/ k = Len(s2c) + 1 /\ s2c'[k] = f
      BY <2>7, Lens, PushedFacts
    <3>4. ASSUME Posting', s'.connected
          PROVE  /\ crtc'.type = "DATA" => crtc'.val = Chunks(Given)' + 1
                 /\ \A k \in 1..Len(s2c') : s2c'[k].type = "DATA" =>
                       s2c'[k].val = Chunks(Given)' + InHand' + k - AnswerDue'
                 /\ s'.read = Chunks(Given)' + InHand' + Len(s2c') - AnswerDue' - FinDue'
      <4>1. /\ crtc.type = "DATA" => crtc.val = Chunks(Given) + 1
            /\ \A k \in 1..Len(s2c) : s2c[k].type = "DATA" =>
                  s2c[k].val = Chunks(Given) + InHand + k - AnswerDue
            /\ s.read = Chunks(Given) + InHand + Len(s2c) - AnswerDue
        <5>1. s.read = Chunks(Given) + InHand + Len(s2c) - AnswerDue - FinDue
          BY <2>1, <2>2, <2>7, <3>4, <1>e
        <5> QED
          BY <2>1, <2>2, <2>4, <3>3, <3>4, <1>e, <1>g, <5>1, DueFacts
      <4>2. PICK g, h, n, a \in Int :
               g = Chunks(Given) /\ h = InHand /\ n = Len(s2c) /\ a = AnswerDue
        BY <1>g, <3>3, DueFacts
      <4>3. crtc'.type = "DATA" => crtc'.val = Chunks(Given)' + 1
        BY <2>1, <2>2, <3>4, <4>1
      <4>4. s'.read = Chunks(Given)' + InHand' + Len(s2c') - AnswerDue' - FinDue'
        BY <2>2, <2>3, <2>7, <3>1, <3>3, <3>4, <4>1, <4>2
      <4>5. ASSUME NEW k \in 1..Len(s2c'), s2c'[k].type = "DATA"
            PROVE  s2c'[k].val = Chunks(Given)' + InHand' + k - AnswerDue'
        <5>1. CASE k \in 1..Len(s2c) /\ s2c'[k] = s2c[k]
          BY <2>2, <2>3, <3>1, <3>4, <4>1, <4>5, <5>1, Zenon
        <5>2. CASE k = n + 1 /\ s2c'[k] = f
          <6>1. f.val = s.read + 1 /\ s.read = g + h + n - a
            BY <2>7, <4>1, <4>2, <4>5, <5>2, Zenon
          <6>2. f.val = g + h + k - a
            BY <5>2, <6>1
          <6> QED
            BY <2>2, <2>3, <3>1, <3>4, <4>2, <5>2, <6>2, Zenon
        <5> QED
          BY <3>3, <4>2, <4>5, <5>1, <5>2
      <4> QED
        BY <4>3, <4>4, <4>5
    <3> QED
      BY <2>1, <2>2, <3>2, <3>4 DEF FlowInv
  <2>8. CASE dc = "open" /\ ~(s2c' = s2c /\ s'.read = s.read)
    <3>1. PICK f : /\ Pushed(s2c, s2c', f)
                   /\ \/ f.type = "DATA" /\ f.val = s.read + 1 /\ s'.read = s.read + 1
                      \/ f.type = "FIN" /\ s'.read = s.read
      BY <2>1, <2>8 DEF Sends, Frame
    <3> QED
      BY <2>7, <2>8, <3>1
  <2> QED
    BY <2>5, <2>6, <2>8
<1>19. ASSUME NEW ok \in BOOLEAN, ServerResolves(ok) \/ ServerConnects(ok)
       PROVE  FlowInv'
  <2>1. /\ protocol' = protocol /\ b' = b /\ c' = c /\ crtc' = crtc /\ dc' = dc
        /\ s'.read = s.read /\ s.dial # "done" /\ s.dial # "none"
        /\ \/ s2c' = s2c /\ s'.dial # "done" /\ s'.connected = s.connected
           \/ Sends(s2c, s2c', Frame("SYNACK", 0))
           \/ Sends(s2c, s2c', Frame("SYNACK", 1))
    BY <1>19, ServerResolvesMoves, ServerConnectsMoves
  <2>2. /\ s2c = <<>> /\ Len(s2c) = 0 /\ crtc.type = "none" /\ ~s.connected
        /\ Unposted /\ s.read = 0
    BY <2>1, DialAwaited, Lens DEF Awaited, ConnectedInv, NotConnected
  <2>3. dc # "connecting"
    BY <2>1 DEF AskInv
  <2>4. CASE s2c' = s2c /\ s'.dial # "done" /\ s'.connected = s.connected
    BY <2>1, <2>2, <2>4 DEF FlowInv, Answered
  <2>5. CASE dc # "open" /\ s2c' = s2c
    <3>1. dc' = "closed" /\ s2c' = <<>> /\ crtc'.type = "none" /\ Len(s2c') = 0
      BY <2>1, <2>2, <2>3, <2>5 DEF TypeOK
    <3> QED
      BY <3>1 DEF FlowInv, Answered
  <2>6. ASSUME dc = "open", NEW f, f.type = "SYNACK", Pushed(s2c, s2c', f)
        PROVE  FlowInv'
    <3>1. Len(s2c') = 1 /\ s2c'[1] = f /\ AnswerDue' = 1 /\ FinDue' = 0
      BY <2>2, <2>6, DueMoves DEF Pushed
    <3>2. InHand' = 0 /\ crtc'.type # "DATA"
      BY <2>1, <2>2 DEF InHand
    <3>3. Posting' => Given' = 0 /\ Chunks(Given)' = 0
      <4>1. Posting' => Posting /\ Given' = Given
        BY <2>1, PostingMoves, GivenMoves
      <4>2. Posting => Len(b.recv) = 0 /\ Len(c.out) = 0
        <5>1. Posting => 1 \notin 1..Len(c.out)
          BY <2>2 DEF Posting, Unposted
        <5> QED
          BY <2>2, <5>1, Lens DEF Unposted
      <4>3. Posting => Given = 0
        BY <4>2, GivenFacts
      <4> QED
        BY <4>1, <4>3 DEF Chunks
    <3>4. \A k \in 1..Len(s2c') : s2c'[k].type # "DATA"
      BY <2>6, <3>1
    <3>5. ~Answered'
      BY <3>1 DEF Answered
    <3>6. Posting' =>
            s'.read = Chunks(Given)' + InHand' + Len(s2c') - AnswerDue' - FinDue'
      BY <2>1, <2>2, <3>1, <3>2, <3>3
    <3> QED
      BY <3>2, <3>4, <3>5, <3>6 DEF FlowInv
  <2>7. \/ dc # "open" /\ s2c' = s2c
        \/ s2c' = s2c /\ s'.dial # "done" /\ s'.connected = s.connected
        \/ dc = "open" /\ Pushed(s2c, s2c', Frame("SYNACK", 0))
        \/ dc = "open" /\ Pushed(s2c, s2c', Frame("SYNACK", 1))
    BY <2>1 DEF Sends
  <2>8. Frame("SYNACK", 0).type = "SYNACK" /\ Frame("SYNACK", 1).type = "SYNACK"
    BY DEF Frame
  <2> QED
    BY <2>4, <2>5, <2>6, <2>7, <2>8
<1>20. CASE ClientFinds
  <2>1. /\ crtc.type = "none" /\ Popped(s2c, s2c')
        /\ c.mux => crtc'.type = s2c[1].type /\ crtc'.val = s2c[1].val /\ crtc'.at = "found"
        /\ dc' = dc /\ protocol' = protocol /\ b' = b /\ c' = c /\ s' = s
    BY <1>20, ClientFindsMoves
  <2>2. PICK n \in Nat : n = Len(s2c')
    BY NextTypeOK, EmptyFacts DEF TypeOK
  <2>3. /\ Len(s2c) = n + 1 /\ s2c # <<>>
        /\ \A k \in 1..n : k + 1 \in 1..(n + 1) /\ s2c'[k] = s2c[k + 1]
    BY <2>1, <2>2, PoppedFacts, Lens
  <2>4. s2c' = <<>> <=> n = 0
    BY <2>2, NextTypeOK, EmptyFacts DEF TypeOK
  <2>5. CASE ~Posting'
    BY <1>z, <2>5
  <2>6. CASE Posting'
    <3>1. Posting /\ Given' = Given /\ Chunks(Given)' = Chunks(Given)
      BY <1>o, <2>1, <2>6, PostingMoves, GivenMoves
    <3>2. c.mux
      BY <2>3, <3>1 DEF AskInv, Unasked, Posting
    <3>3. /\ s2c[1].type \in {"SYNACK", "DATA", "FIN"}
          /\ \A k \in 1..(n + 1) : s2c[k].type = "SYNACK" => k = 1
          /\ s2c[1].type = "FIN" => n = 0
      BY <2>3, Elements DEF AnswerInv, FinInv
    <3>4. /\ AnswerDue = IF s2c[1].type = "SYNACK" THEN 1 ELSE 0
          /\ InHand = 0
          /\ InHand' = IF s2c[1].type = "DATA" THEN 1 ELSE 0
      BY <2>1, <2>3, <3>2 DEF AnswerDue, InHand
    <3>5. AnswerDue' = 0
      BY <2>2, <2>3, <2>4, <3>3 DEF AnswerDue
    <3>6. FinDue' = IF s2c[1].type = "FIN" THEN 0 ELSE FinDue
      <4>1. CASE n = 0
        BY <2>2, <2>3, <2>4, <3>3, <4>1 DEF FinDue
      <4>2. CASE n # 0
        BY <2>2, <2>3, <2>4, <3>3, <4>2 DEF FinDue
      <4> QED
        BY <4>1, <4>2
    <3>7. s2c[1].type = "FIN" => FinDue = 1
      BY <2>3, <3>3 DEF FinDue
    <3>8. Answered' => Answered
      BY <2>1, <2>3, <3>2, <3>4 DEF Answered
    <3>9. ASSUME s'.connected
          PROVE  /\ crtc'.type = "DATA" => crtc'.val = Chunks(Given)' + 1
                 /\ \A k \in 1..Len(s2c') : s2c'[k].type = "DATA" =>
                       s2c'[k].val = Chunks(Given)' + InHand' + k - AnswerDue'
                 /\ dc' # "closed" =>
                       s'.read = Chunks(Given)' + InHand' + Len(s2c') - AnswerDue' - FinDue'
      <4>1. PICK g, h, a, d \in Int :
               g = Chunks(Given) /\ h = InHand' /\ a = AnswerDue /\ d = FinDue
        BY <1>g, <3>4, DueFacts
      <4>2. /\ \A k \in 1..(n + 1) : s2c[k].type = "DATA" => s2c[k].val = g + 0 + k - a
            /\ dc # "closed" => s.read = g + 0 + (n + 1) - a - d
        BY <1>e, <2>1, <2>3, <3>1, <3>4, <3>9, <4>1
      <4>3. crtc'.type = "DATA" => crtc'.val = g + 1
        BY <2>1, <3>2, <3>4, <4>1, <4>2
      <4>4. ASSUME NEW k \in 1..n, s2c'[k].type = "DATA"
            PROVE  s2c'[k].val = g + h + k - 0
        <5>1. k + 1 \in 1..(n + 1) /\ s2c'[k] = s2c[k + 1]
          BY <2>3, <4>4
        <5>2. s2c'[k].val = g + 0 + (k + 1) - a
          BY <4>2, <4>4, <5>1, Zenon
        <5>3. s2c[1].type # "FIN"
          BY <3>3, <4>4
        <5>4. (h = 1 /\ a = 0) \/ (h = 0 /\ a = 1)
          BY <3>3, <3>4, <4>1, <5>3
        <5> QED
          BY <5>2, <5>4
      <4>5. dc # "closed" => s.read = g + h + n - 0 - FinDue'
        BY <3>3, <3>4, <3>6, <3>7, <4>1, <4>2
      <4>6. \A k \in 1..Len(s2c') : s2c'[k].type = "DATA" =>
                 s2c'[k].val = Chunks(Given)' + InHand' + k - AnswerDue'
        BY <2>2, <3>1, <3>5, <4>1, <4>4, Zenon
      <4>7. dc' # "closed" =>
                 s'.read = Chunks(Given)' + InHand' + Len(s2c') - AnswerDue' - FinDue'
        BY <2>1, <2>2, <3>1, <3>5, <4>1, <4>5, Zenon
      <4>8. crtc'.type = "DATA" => crtc'.val = Chunks(Given)' + 1
        BY <3>1, <4>1, <4>3, Zenon
      <4> QED
        BY <4>6, <4>7, <4>8, Zenon
    <3> QED
      BY <2>1, <3>1, <3>8, <3>9 DEF FlowInv
  <2> QED
    BY <2>5, <2>6
<1> QED
  BY <1>5, <1>6, <1>7, <1>8, <1>9, <1>10, <1>11, <1>12, <1>13, <1>14, <1>15, <1>16,
     <1>17, <1>18, <1>19, <1>20
     DEF Next, Environment, System, ClientStrand, ClientRtc, ServerRtc, ServerStrand

-----------------------------------------------------------------------------
(* What an orderly end means.                                              *)

(* A close among the items, or the closed socket, was there before, unless *)
(* a close is posted now.                                                  *)
LEMMA EndedMoves ==
    ASSUME TypeOK, SocketInv
    PROVE  /\ (/\ c'.closed = c.closed /\ c'.aborted = c.aborted /\ c'.out = c.out
               /\ b'.recv = b.recv /\ Ended') =>
                 Ended /\ BeforeClose' = BeforeClose
           /\ \A x : (/\ c'.closed = c.closed /\ c'.aborted = c.aborted
                      /\ Offered(c.closed, c.out, c'.out, x) /\ x.kind # "close"
                      /\ b'.recv = b.recv /\ Ended') =>
                 Ended /\ BeforeClose' = BeforeClose
           /\ \A x : (/\ c'.closed = c.closed /\ c'.aborted = c.aborted
                      /\ Offered(c.closed, c.out, c'.out, x)
                      /\ b'.recv = b.recv /\ Ended') =>
                 \/ Ended /\ BeforeClose' = BeforeClose
                 \/ Takes(c.closed, c.out) /\ BeforeClose' = Given
           /\ (/\ ~c.closed /\ c'.closed = c.closed
               /\ Popped(c.out, c'.out) /\ c.out[1].kind # "close"
               /\ Pushed(b.recv, b'.recv, c.out[1]) /\ Ended') =>
                 Ended /\ BeforeClose' = BeforeClose
           /\ (/\ c'.out = <<>> /\ b' = b
               /\ ~c'.aborted => c.out # <<>> /\ c.out[1].kind = "close"
               /\ Ended') =>
                 Ended /\ BeforeClose' = BeforeClose
<1>0. PICK m, n \in Nat : m = Len(b.recv) /\ n = Len(c.out) /\ Given = m + n
  BY GivenFacts, Zenon
<1>e. c.out = <<>> <=> n = 0
  BY <1>0, Lens
<1>b. BeforeClose = m + (IF n = 0 THEN 0 ELSE n - 1)
  BY <1>0, <1>e DEF BeforeClose
<1>1. ASSUME c'.closed = c.closed, c'.aborted = c.aborted, c'.out = c.out,
             b'.recv = b.recv, Ended'
      PROVE  Ended /\ BeforeClose' = BeforeClose
  BY <1>1 DEF Ended, BeforeClose
<1>2. ASSUME NEW x, c'.closed = c.closed, c'.aborted = c.aborted,
             Offered(c.closed, c.out, c'.out, x), b'.recv = b.recv, Ended'
      PROVE  \/ Ended /\ BeforeClose' = BeforeClose
             \/ Takes(c.closed, c.out) /\ BeforeClose' = Given /\ x.kind = "close"
  <2>1. CASE ~Takes(c.closed, c.out)
    BY <1>1, <1>2, <2>1 DEF Offered
  <2>2. CASE Takes(c.closed, c.out)
    <3>1. Pushed(c.out, c'.out, x)
      BY <1>2, <2>2 DEF Offered
    <3>2. /\ Len(c'.out) = n + 1
          /\ \A j \in 1..Len(c'.out) : \/ j \in 1..Len(c.out) /\ c'.out[j] = c.out[j]
                                       \/ c'.out[j] = x
      BY <1>0, <3>1, PushedFacts
    <3>3. x.kind = "close"
      BY <1>2, <2>2, <3>2 DEF Ended, Takes
    <3>4. c'.out # <<>>
      BY <3>2, EmptySeq
    <3>5. (n + 1) - 1 = n
      OBVIOUS
    <3>6. BeforeClose' = m + n
      BY <1>0, <1>2, <3>2, <3>4, <3>5, Zenon DEF BeforeClose
    <3> QED
      BY <1>0, <2>2, <3>3, <3>6, Zenon
  <2> QED
    BY <2>1, <2>2
<1>3. ASSUME ~c.closed, c'.closed = c.closed, Popped(c.out, c'.out), c.out[1].kind # "close",
             Pushed(b.recv, b'.recv, c.out[1]), Ended'
      PROVE  Ended /\ BeforeClose' = BeforeClose
  <2>1. /\ Len(c'.out) = n - 1 /\ n >= 1 /\ Len(b'.recv) = m + 1
        /\ \A j \in 1..Len(c'.out) : j + 1 \in 1..Len(c.out) /\ c'.out[j] = c.out[j + 1]
    <3>1. Len(c'.out) = n - 1 /\ n >= 1 /\ Len(b'.recv) = m + 1
      BY <1>0, <1>3 DEF Popped, Pushed
    <3>2. \A j \in 1..Len(c'.out) : j + 1 \in 1..Len(c.out) /\ c'.out[j] = c.out[j + 1]
      BY <1>0, <1>3, Lens, PoppedFacts
    <3> QED
      BY <3>1, <3>2, Zenon
  <2>2. PICK j \in 1..Len(c'.out) : c'.out[j].kind = "close"
    BY <1>3 DEF Ended
  <2>3. c.out[j + 1].kind = "close" /\ j + 1 \in 1..Len(c.out) /\ n - 1 >= 1
    BY <2>1, <2>2
  <2>4. c'.out # <<>>
    BY <2>1, <2>3, EmptySeq
  <2>5. BeforeClose' = (m + 1) + ((n - 1) - 1)
    BY <2>1, <2>4, Zenon DEF BeforeClose
  <2>6. (m + 1) + ((n - 1) - 1) = m + (n - 1) /\ n # 0
    BY <2>1
  <2>7. BeforeClose = m + (n - 1)
    BY <1>b, <2>6
  <2> QED
    BY <2>3, <2>5, <2>6, <2>7 DEF Ended
<1>4. ASSUME c'.out = <<>>, b' = b,
             ~c'.aborted => c.out # <<>> /\ c.out[1].kind = "close", Ended'
      PROVE  Ended /\ BeforeClose' = BeforeClose
  <2>1. ~c'.aborted
    BY <1>4, EmptySeq DEF Ended
  <2>2. n >= 1 /\ c.out[1].kind = "close" /\ 1 \in 1..Len(c.out)
    BY <1>0, <1>4, <1>e, <2>1
  <2>3. n = 1
    BY <1>0, <2>2 DEF SocketInv, ClientSocket
  <2>4. BeforeClose = m + 0
    BY <1>b, <2>3
  <2>5. BeforeClose' = m + 0
    BY <1>0, <1>4, Zenon DEF BeforeClose
  <2> QED
    BY <2>2, <2>4, <2>5 DEF Ended
<1> QED
  BY <1>1, <1>2, <1>3, <1>4, Zenon

(* A browser's socket that closes in order has got all of it, if the       *)
(* target ended its stream in order (do_read's FIN, p2p_close).            *)
LEMMA EndKept ==
    ASSUME TypeOK, SocketInv, AskInv, ConnectedInv, AnswerInv, ShapeInv, FinInv, FlowInv,
           EndInv, Next
    PROVE  EndInv'
<1> USE DEF ChannelSame, HandsSame, BrowserSame, TargetSame, DialStill, FarDoorStill,
            DoorStill, PhaseStill
<1>z. ASSUME ~Orderly' \/ ~Ended'
      PROVE  EndInv'
  BY <1>z DEF EndInv
<1>q. ASSUME protocol' = protocol,
             Ended' /\ Orderly' => Ended /\ Orderly /\ BeforeClose' = BeforeClose,
             s'.connected = s.connected, s'.read = s.read,
             t'.sent = t.sent, t'.eof = t.eof,
             s.dial = "done" => s'.dial = "done",
             (Unasked /\ c.phase = "Closed") => s'.dial = "done" \/ (Unasked' /\ c'.phase = "Closed")
      PROVE  EndInv'
  <2>1. CASE ~(Ended' /\ Orderly')
    BY <1>z, <2>1
  <2>2. CASE Ended' /\ Orderly'
    <3>1. Ended /\ Orderly /\ BeforeClose' = BeforeClose
      BY <1>q, <2>2
    <3>2. Chunks(BeforeClose)' = Chunks(BeforeClose)
      BY <1>q, <3>1 DEF Chunks, Off
    <3> QED
      BY <1>q, <3>1, <3>2 DEF EndInv
  <2> QED
    BY <2>1, <2>2
<1>n. ASSUME s'.dial = "done", ~s'.connected
      PROVE  EndInv'
  BY <1>n DEF EndInv
<1>c. Close.kind = "close"
  BY DEF Close
<1>u. Unasked => ~s.connected /\ s.dial = "none"
  BY DEF Unasked, ConnectedInv
<1>5. CASE BrowserSends \/ BrowserCloses \/ ChannelOpens
  <2>1. /\ protocol' = protocol /\ b'.recv = b.recv /\ c' = c /\ s' = s /\ t' = t
        /\ crtc' = crtc /\ srtc' = srtc /\ c2s' = c2s /\ s2c' = s2c
        /\ dc' # "closed" => dc # "closed"
    BY <1>5, BrowserMoves, ChannelOpensMoves
  <2>2. Orderly' => Orderly
    BY <2>1 DEF Orderly
  <2>3. Unasked => Unasked'
    BY <2>1 DEF Unasked
  <2> QED
    BY <1>q, <2>1, <2>2, <2>3, EndedMoves
<1>6. CASE TargetSends \/ TargetCloses
  <2>1. /\ s.connected /\ ~t.eof /\ b'.recv = b.recv /\ c' = c /\ s' = s /\ dc' = dc
    BY <1>6, TargetMoves
  <2>2. ~(Ended /\ Orderly)
    BY <2>1 DEF EndInv
  <2>3. ~(Ended' /\ Orderly')
    BY <2>1, <2>2, EndedMoves DEF Orderly
  <2> QED
    BY <1>z, <2>3
<1>7. CASE Disconnect \/ ClientStops \/ ServerStops
  <2>1. dc' = "closed"
    BY <1>7, DisconnectMoves, ClientStopsMoves, ServerStopsMoves
  <2> QED
    BY <1>z, <2>1 DEF Orderly
<1>8. CASE \/ ClientRequests \/ ClientConnecting \/ ClientReadsPartOfHead
           \/ ClientKeepsRequest \/ ClientDestroyed \/ ClientResetsSocket
  <2>1. /\ protocol' = protocol /\ b' = b /\ c'.out = c.out /\ c'.closed = c.closed
        /\ c'.aborted = c.aborted /\ c'.bad = c.bad /\ dc' = dc /\ s' = s /\ t' = t
    BY <1>8, ClientRequestsMoves, ClientConnectingMoves, ClientReadsPartOfHeadMoves,
       ClientKeepsRequestMoves, ClientDestroyedMoves, ClientResetsSocketMoves
  <2>2. Orderly' => Orderly
    BY <2>1 DEF Orderly
  <2>3. (Unasked /\ c.phase = "Closed") => Unasked' /\ c'.phase = "Closed"
    <3>1. CASE ClientRequests \/ ClientConnecting
      <4>1. c.phase = "Closed" => s.dial = "done"
        BY <3>1, ClientRequestsMoves, ClientConnectingMoves DEF AskInv
      <4> QED
        BY <1>u, <4>1
    <3>2. CASE \/ ClientReadsPartOfHead \/ ClientKeepsRequest \/ ClientDestroyed
               \/ ClientResetsSocket
      <4>1. /\ c'.phase = c.phase /\ (c'.mux = c.mux \/ ~c'.mux)
            /\ crtc' = crtc /\ srtc' = srtc /\ c2s' = c2s /\ s2c' = s2c
        BY <3>2, ClientReadsPartOfHeadMoves, ClientKeepsRequestMoves, ClientDestroyedMoves,
           ClientResetsSocketMoves
      <4> QED
        BY <2>1, <4>1 DEF Unasked
    <3> QED
      BY <1>8, <3>1, <3>2
  <2> QED
    BY <1>q, <2>1, <2>2, <2>3, EndedMoves
<1>9. CASE ClientRejects
  <2>1. CASE protocol # "Socks5Connect"
    BY <1>9, <1>z, <2>1, ClientRejectsMoves DEF Orderly
  <2>2. CASE protocol = "Socks5Connect"
    <3>1. Unasked
      BY <1>9, ClientRejectsMoves DEF AskInv
    <3>2. Unasked' /\ c'.phase = "Closed" /\ ~s'.connected
      BY <1>9, <1>u, <2>2, <3>1, ClientRejectsMoves DEF Unasked
    <3> QED
      BY <3>2 DEF EndInv
  <2> QED
    BY <2>1, <2>2
<1>10. CASE ClientReads
  <2>1. /\ protocol' = protocol /\ b' = b /\ c'.closed = c.closed /\ c'.phase = c.phase
        /\ c'.mux = c.mux /\ crtc' = crtc /\ srtc' = srtc /\ s2c' = s2c
        /\ c'.aborted = c.aborted /\ c'.bad = c.bad /\ dc' = dc /\ s' = s /\ t' = t
        /\ c.phase = "Closed" => c2s' = c2s
        /\ c.phase # "Closed" => c'.out = c.out
    BY <1>10, ClientReadsMoves
  <2>2. CASE c.phase = "Closed"
    <3>1. ~s'.connected /\ (s'.dial = "done" \/ (Unasked' /\ c'.phase = "Closed"))
      BY <2>1, <2>2 DEF AskInv, Unasked
    <3> QED
      BY <3>1 DEF EndInv
  <2>3. CASE c.phase # "Closed"
    <3>1. Orderly' => Orderly
      BY <2>1 DEF Orderly
    <3> QED
      BY <1>q, <2>1, <2>3, <3>1, EndedMoves
  <2> QED
    BY <2>2, <2>3
<1>11. CASE ClientWrites
  <2>1. /\ protocol' = protocol /\ c'.closed = c.closed /\ c'.bad = c.bad /\ ~c.closed
        /\ Popped(c.out, c'.out) /\ c.out[1].kind # "close"
        /\ Pushed(b.recv, b'.recv, c.out[1])
        /\ c'.phase = c.phase /\ c'.mux = c.mux
        /\ crtc' = crtc /\ srtc' = srtc /\ c2s' = c2s /\ s2c' = s2c /\ dc' = dc
        /\ s' = s /\ t' = t
    BY <1>11, ClientWritesMoves
  <2>2. (Orderly' => Orderly) /\ (Unasked => Unasked')
    BY <2>1 DEF Orderly, Unasked
  <2>3. Ended' => Ended /\ BeforeClose' = BeforeClose
    BY <2>1, EndedMoves
  <2> QED
    BY <1>q, <2>1, <2>2, <2>3
<1>12. CASE ClientDrained \/ ClientReadFails
  <2>1. /\ protocol' = protocol /\ b' = b /\ c'.out = <<>>
        /\ ~c'.aborted => c.out # <<>> /\ c.out[1].kind = "close"
        /\ c'.bad = c.bad /\ c'.phase = c.phase /\ c'.mux = c.mux
        /\ crtc' = crtc /\ srtc' = srtc /\ (c2s' = c2s \/ c.mux)
        /\ s2c' = s2c /\ dc' = dc /\ s' = s /\ t' = t
    BY <1>12, ClientClosesMoves
  <2>2. (Orderly' => Orderly) /\ (Unasked => Unasked')
    BY <2>1 DEF Orderly, Unasked
  <2>3. Ended' => Ended /\ BeforeClose' = BeforeClose
    BY <2>1, EndedMoves
  <2> QED
    BY <1>q, <2>1, <2>2, <2>3
<1>13. CASE ClientBadResponse
  <2>1. c'.bad
    BY <1>13, ClientBadResponseMoves
  <2> QED
    BY <1>z, <2>1 DEF Orderly
<1>14. CASE ClientFinds \/ ClientIgnoresData \/ ClientFinTest
            \/ (ClientSynackReply /\ protocol = "HttpPlain" /\ crtc.val = 0)
  <2>1. /\ protocol' = protocol /\ b' = b /\ c'.out = c.out /\ c'.closed = c.closed
        /\ c'.aborted = c.aborted /\ c'.bad = c.bad /\ dc' = dc /\ s' = s /\ t' = t
        /\ crtc.type # "none" \/ Popped(s2c, s2c')
    BY <1>14, ClientFindsMoves, ClientIgnoresDataMoves, ClientFinTestMoves, ClientReplaysMoves
  <2>2. ~Unasked
    BY <2>1, EmptySeq, Lens DEF Unasked, Popped
  <2>3. Orderly' => Orderly
    BY <2>1 DEF Orderly
  <2> QED
    BY <1>q, <2>1, <2>2, <2>3, EndedMoves
<1>15. CASE \/ ClientData
            \/ ClientSynackReply /\ ~(protocol = "HttpPlain" /\ crtc.val = 0)
  <2>1. PICK x : /\ Offered(c.closed, c.out, c'.out, x) /\ x.kind # "close"
                 /\ protocol' = protocol /\ b' = b /\ c'.closed = c.closed
                 /\ c'.aborted = c.aborted /\ c'.bad = c.bad /\ dc' = dc /\ s' = s /\ t' = t
                 /\ crtc.type # "none"
    <3>1. CASE ClientData
      <4>1. Chunk(crtc.val).kind # "close"
        BY DEF Chunk
      <4>2. PICK x : x = Chunk(crtc.val)
        OBVIOUS
      <4> QED
        BY <3>1, <4>1, <4>2, ClientDataMoves
    <3>2. CASE ClientSynackReply /\ ~(protocol = "HttpPlain" /\ crtc.val = 0)
      <4>1. Reply(crtc.val = 0).kind # "close"
        BY DEF Reply
      <4>2. PICK x : x = Reply(crtc.val = 0)
        OBVIOUS
      <4> QED
        BY <3>2, <4>1, <4>2, ClientRepliesMoves
    <3> QED
      BY <1>15, <3>1, <3>2
  <2>2. ~Unasked
    BY <2>1 DEF Unasked
  <2>3. Orderly' => Orderly
    BY <2>1 DEF Orderly
  <2>4. Ended' => Ended /\ BeforeClose' = BeforeClose
    BY <2>1, EndedMoves
  <2> QED
    BY <1>q, <2>1, <2>2, <2>3, <2>4
<1>16. CASE ClientSynackPhase
  <2>1. s' = s /\ crtc.type = "SYNACK"
    BY <1>16, ClientSynackPhaseMoves
  <2>2. s.dial = "done"
    BY <2>1 DEF AnswerInv
  <2>3. CASE crtc.val # 0
    <3>1. ~s.connected
      BY <2>1, <2>3 DEF AnswerInv, Says
    <3> QED
      BY <1>n, <2>1, <2>2, <3>1
  <2>4. CASE crtc.val = 0
    <3>1. /\ protocol' = protocol /\ b' = b /\ c'.out = c.out /\ c'.closed = c.closed
          /\ c'.aborted = c.aborted /\ c'.bad = c.bad /\ dc' = dc /\ t' = t
      BY <1>16, <2>4, ClientSynackPhaseMoves
    <3>2. Orderly' => Orderly
      BY <2>1, <3>1 DEF Orderly
    <3> QED
      BY <1>q, <2>1, <2>2, <3>1, <3>2, EndedMoves
  <2> QED
    BY <2>3, <2>4
<1>17. CASE ClientFinUse
  <2>1. /\ crtc.type = "FIN" /\ Offered(c.closed, c.out, c'.out, Close)
        /\ protocol' = protocol /\ b' = b /\ c'.closed = c.closed
        /\ c'.aborted = c.aborted /\ c'.bad = c.bad /\ dc' = dc /\ s' = s /\ t' = t
    BY <1>17, ClientFinUseMoves
  <2>2. s2c = <<>> /\ Len(s2c) = 0 /\ Finished
    BY <2>1, Lens DEF FinInv
  <2>3. s.connected /\ s.dial = "done" /\ (s.failed \/ s.bad \/ (t.eof /\ s.read = t.sent))
    BY <2>2, ConnectedFacts DEF Finished
  <2>4. Orderly' => Orderly
    BY <2>1 DEF Orderly
  <2>5. PICK x : x = Close
    OBVIOUS
  <2>6. Ended' => \/ Ended /\ BeforeClose' = BeforeClose
                  \/ Takes(c.closed, c.out) /\ BeforeClose' = Given
    BY <2>1, <2>5, EndedMoves
  <2>7. CASE ~(Ended' /\ Orderly')
    BY <1>z, <2>7
  <2>8. CASE Orderly' /\ Ended /\ BeforeClose' = BeforeClose
    BY <1>q, <2>1, <2>3, <2>4, <2>8
  <2>9. CASE Orderly' /\ Takes(c.closed, c.out) /\ BeforeClose' = Given
    <3>1. Posting /\ dc # "closed"
      BY <2>4, <2>9 DEF Posting, Takes, Orderly
    <3>2. s.read = Chunks(Given) + InHand + Len(s2c) - AnswerDue - FinDue
      BY <2>3, <3>1, Zenon DEF FlowInv
    <3>3. InHand = 0 /\ AnswerDue = 0 /\ FinDue = 0
      BY <2>1, <2>2, DueFacts
    <3>4. PICK g \in Int : g = Chunks(Given)
      BY GivenFacts, DueFacts DEF Chunks
    <3>5. s.read = g
      BY <2>2, <3>2, <3>3, <3>4
    <3>6. Chunks(BeforeClose)' = Chunks(Given)
      BY <2>1, <2>9 DEF Chunks, Off
    <3>7. s'.connected /\ t'.eof /\ s'.read = t'.sent /\ Chunks(BeforeClose)' = t'.sent
      BY <2>1, <2>3, <2>4, <2>9, <3>4, <3>5, <3>6 DEF Orderly
    <3> QED
      BY <3>7, Zenon DEF EndInv
  <2> QED
    BY <2>6, <2>7, <2>8, <2>9
<1>18. CASE ServerSyn \/ ServerFinds
  <2>1. /\ protocol' = protocol /\ b' = b /\ c' = c /\ dc' = dc /\ t' = t
        /\ s'.connected = s.connected /\ s'.read = s.read
        /\ s'.failed = s.failed /\ s'.bad = s.bad
        /\ s.dial = "done" => s'.dial = "done"
        /\ Popped(c2s, c2s')
    <3>1. ServerSyn => c2s[1].type = "SYN" /\ 1 \in 1..Len(c2s)
      BY ServerSynMoves, PoppedFacts, Lens
    <3>2. ServerSyn => s.dial = "none"
      BY <3>1 DEF AskInv
    <3> QED
      BY <1>18, <3>2, ServerSynMoves, ServerFindsMoves
  <2>2. ~Unasked
    BY <2>1, Lens DEF Unasked, Popped
  <2>3. Orderly' => Orderly
    BY <2>1 DEF Orderly
  <2> QED
    BY <1>q, <2>1, <2>2, <2>3, EndedMoves
<1>19. CASE \/ ServerData \/ ServerBadRequest \/ ServerIgnoresData \/ ServerFin
            \/ ServerWrites
  <2>1. /\ protocol' = protocol /\ b' = b /\ c' = c /\ dc' = dc
        /\ t'.sent = t.sent /\ t'.eof = t.eof
        /\ s'.connected = s.connected /\ s'.read = s.read /\ s'.dial = s.dial
        /\ s'.failed = s.failed /\ (s.bad => s'.bad)
        /\ crtc' = crtc /\ (srtc' = srtc \/ srtc'.type = "none")
        /\ c2s' = c2s /\ s2c' = s2c
    BY <1>19, ServerDataMoves, ServerBadRequestMoves, ServerIgnoresDataMoves, ServerFinMoves,
       ServerWritesMoves
  <2>2. (Orderly' => Orderly) /\ (Unasked => Unasked')
    BY <2>1 DEF Orderly, Unasked
  <2> QED
    BY <1>q, <2>1, <2>2, EndedMoves
<1>20. ASSUME NEW ok \in BOOLEAN, ServerResolves(ok) \/ ServerConnects(ok)
       PROVE  EndInv'
  <2>1. /\ b' = b /\ c' = c /\ dc' = dc /\ s.dial # "done" /\ s.dial # "none"
        /\ s'.failed = s.failed /\ s'.bad = s.bad
    BY <1>20, ServerResolvesMoves, ServerConnectsMoves
  <2>2. ~s.connected /\ ~Unasked
    BY <2>1, DialAwaited DEF Unasked
  <2>3. ~(Ended /\ Orderly)
    BY <2>1, <2>2 DEF EndInv
  <2>4. ~(Ended' /\ Orderly')
    BY <2>1, <2>3, EndedMoves DEF Orderly
  <2> QED
    BY <1>z, <2>4
<1>21. CASE ServerReads
  <2>1. /\ b' = b /\ c' = c /\ dc' = dc /\ s.connected /\ s.read < t.sent
        /\ s'.failed = s.failed /\ s'.bad = s.bad
    BY <1>21, ServerReadsMoves
  <2>2. ~(Ended /\ Orderly)
    BY <2>1, Numbers DEF EndInv
  <2>3. ~(Ended' /\ Orderly')
    BY <2>1, <2>2, EndedMoves DEF Orderly
  <2> QED
    BY <1>z, <2>3
<1>22. CASE ServerDrained \/ ServerReadsEof \/ ServerFails
  <2>1. /\ protocol' = protocol /\ b' = b /\ c' = c /\ dc' = dc /\ t' = t
        /\ s'.connected = s.connected /\ s'.read = s.read /\ s'.dial = s.dial
        /\ ~s.failed /\ s'.bad = s.bad
        /\ crtc' = crtc /\ srtc' = srtc /\ c2s' = c2s
        /\ s2c' = s2c \/ s'.failed \/ s.bad \/ s.connected
    BY <1>22, ServerClosesMoves
  <2>2. Orderly' => Orderly
    BY <2>1 DEF Orderly
  <2>3. CASE Orderly'
    <3>1. Unasked => Unasked'
      BY <1>u, <2>1, <2>3 DEF Unasked, Orderly
    <3> QED
      BY <1>q, <2>1, <2>2, <3>1, EndedMoves
  <2>4. CASE ~Orderly'
    BY <1>z, <2>4
  <2> QED
    BY <2>3, <2>4
<1> QED
  BY <1>5, <1>6, <1>7, <1>8, <1>9, <1>10, <1>11, <1>12, <1>13, <1>14, <1>15, <1>16,
     <1>17, <1>18, <1>19, <1>20, <1>21, <1>22
     DEF Next, Environment, System, ClientStrand, ClientRtc, ServerRtc, ServerStrand

-----------------------------------------------------------------------------
(* Nothing goes up twice or out of order.                                  *)

(* The chunks among the items, and the DATA frames, are those there were,  *)
(* perhaps moved up.                                                       *)
ItemsLeft(d) ==
    \A j \in 1..Len(s'.out) : s'.out[j].kind = "chunk" =>
        j + d \in 1..Len(s.out) /\ s'.out[j] = s.out[j + d]
FramesLeft(d) ==
    \A j \in 1..Len(c2s') : c2s'[j].type = "DATA" =>
        j + d \in 1..Len(c2s) /\ c2s'[j] = c2s[j + d]

(* What the queues towards the target keep of their chunks when a step     *)
(* posts something else or takes the first.                                *)
LEMMA LeftFacts ==
    ASSUME TypeOK
    PROVE  /\ (s'.out = s.out \/ Len(s'.out) = 0) => ItemsLeft(0)
           /\ \A x : (Offered(s.closed, s.out, s'.out, x) /\ x.kind # "chunk") => ItemsLeft(0)
           /\ Popped(s.out, s'.out) => ItemsLeft(1)
           /\ (c2s' = c2s \/ Len(c2s') = 0) => FramesLeft(0)
           /\ \A f : (Sends(c2s, c2s', f) /\ f.type # "DATA") => FramesLeft(0)
           /\ Popped(c2s, c2s') => FramesLeft(1)
<1> USE Lens
<1>1. (s'.out = s.out \/ Len(s'.out) = 0) => ItemsLeft(0)
  BY DEF ItemsLeft
<1>2. (c2s' = c2s \/ Len(c2s') = 0) => FramesLeft(0)
  BY DEF FramesLeft
<1>3. ASSUME NEW x, Offered(s.closed, s.out, s'.out, x), x.kind # "chunk"
      PROVE  ItemsLeft(0)
  <2>1. CASE Takes(s.closed, s.out)
    BY <1>3, <2>1, PushedFacts DEF Offered, ItemsLeft
  <2>2. CASE ~Takes(s.closed, s.out)
    BY <1>1, <1>3, <2>2 DEF Offered
  <2> QED
    BY <2>1, <2>2
<1>4. ASSUME NEW f, Sends(c2s, c2s', f), f.type # "DATA"
      PROVE  FramesLeft(0)
  <2>1. CASE dc = "open"
    BY <1>4, <2>1, PushedFacts DEF Sends, FramesLeft
  <2>2. CASE dc # "open"
    BY <1>2, <1>4, <2>2 DEF Sends
  <2> QED
    BY <2>1, <2>2
<1>5. Popped(s.out, s'.out) => ItemsLeft(1)
  BY PoppedFacts DEF ItemsLeft
<1>6. Popped(c2s, c2s') => FramesLeft(1)
  BY PoppedFacts DEF FramesLeft
<1> QED
  BY <1>1, <1>2, <1>3, <1>4, <1>5, <1>6

(* Losing, dropping and delivering frames, posting and writing items, keep *)
(* the order of those that are left.                                       *)
LEMMA AboveKept ==
    ASSUME TypeOK, NEW v, NEW d \in Nat, ItemsLeft(d), t'.recv = t.recv,
           srtc' = srtc \/ srtc'.type # "DATA"
    PROVE  /\ AboveTarget(v) => AboveTarget(v)'
           /\ AboveItems(v) => AboveItems(v)'
           /\ AboveHand(v) => AboveHand(v)'
<1>1. AboveTarget(v) => AboveTarget(v)'
  BY DEF AboveTarget
<1>2. AboveItems(v) => AboveItems(v)'
  BY <1>1 DEF AboveItems, ItemsLeft
<1>3. AboveHand(v) => AboveHand(v)'
  BY <1>2 DEF AboveHand
<1> QED
  BY <1>1, <1>2, <1>3

(* A step that reads nothing and only drops or takes items from the front  *)
(* leaves the chunks for the target in their order.                        *)
LEMMA UpQuiet ==
    ASSUME TypeOK, TypeOK', UpInv, protocol' = protocol, b'.sent >= b.sent,
           c'.read >= c.read, c'.read =< b'.sent, t'.recv = t.recv,
           NEW d \in Nat, ItemsLeft(d), NEW e \in Nat, FramesLeft(e),
           srtc' = srtc \/ srtc'.type # "DATA"
    PROVE  TargetUp' /\ ItemsUp' /\ HandUp' /\ FramesUp'
<1>n. /\ c.read \in Nat /\ c'.read \in Nat
      /\ srtc.val \in Nat
  BY Numbers DEF TypeOK, ClientType
<1>e. /\ \A k \in 1..Len(c2s) : c2s[k].val \in Nat
      /\ \A j \in 1..Len(s.out) : s.out[j].val \in Nat
      /\ \A i \in 1..Len(t.recv) : t.recv[i] \in Nat
  BY Elements
<1>1. TargetUp'
  BY <1>n, <1>e DEF UpInv, TargetUp
<1>2. ItemsUp'
  <2> SUFFICES ASSUME NEW j \in 1..Len(s'.out), s'.out[j].kind = "chunk"
               PROVE  /\ s'.out[j].val =< c'.read /\ AboveTarget(s.out[j].val)'
                      /\ \A i \in 1..Len(s'.out) :
                            (i < j /\ s'.out[i].kind = "chunk") => s'.out[i].val < s'.out[j].val
    BY DEF ItemsUp
  <2>1. j + d \in 1..Len(s.out) /\ s'.out[j] = s.out[j + d]
    BY DEF ItemsLeft
  <2>2. /\ s.out[j + d].val =< c.read /\ AboveTarget(s.out[j + d].val)
        /\ \A i \in 1..Len(s.out) :
              (i < j + d /\ s.out[i].kind = "chunk") => s.out[i].val < s.out[j + d].val
    BY <2>1 DEF UpInv, ItemsUp
  <2>3. s'.out[j].val =< c'.read
    BY <1>n, <1>e, <2>1, <2>2
  <2>4. AboveTarget(s.out[j].val)'
    BY <2>1, <2>2 DEF AboveTarget
  <2>5. ASSUME NEW i \in 1..Len(s'.out), i < j, s'.out[i].kind = "chunk"
        PROVE  s'.out[i].val < s'.out[j].val
    <3>1. i + d \in 1..Len(s.out) /\ s'.out[i] = s.out[i + d] /\ i + d < j + d
      BY <2>5 DEF ItemsLeft
    <3> QED
      BY <2>1, <2>2, <2>5, <3>1
  <2> QED
    BY <2>3, <2>4, <2>5
<1>3. HandUp'
  <2>1. CASE srtc'.type # "DATA"
    BY <2>1 DEF HandUp
  <2>2. CASE srtc' = srtc /\ srtc.type = "DATA"
    <3>1. srtc.val =< c.read /\ AboveItems(srtc.val)
      BY <2>2 DEF UpInv, HandUp
    <3>2. PICK v : v = srtc.val
      OBVIOUS
    <3>3. AboveItems(v)'
      BY <3>1, <3>2, AboveKept
    <3>4. AboveItems(srtc.val)'
      BY <2>2, <3>2, <3>3 DEF AboveItems, AboveTarget
    <3> QED
      BY <1>n, <2>2, <3>1, <3>4 DEF HandUp
  <2> QED
    BY <2>1, <2>2
<1>4. FramesUp'
  <2> SUFFICES ASSUME NEW j \in 1..Len(c2s'), c2s'[j].type = "DATA"
               PROVE  /\ c2s'[j].val =< c'.read /\ AboveHand(c2s[j].val)'
                      /\ \A i \in 1..Len(c2s') :
                            (i < j /\ c2s'[i].type = "DATA") => c2s'[i].val < c2s'[j].val
    BY DEF FramesUp
  <2>1. j + e \in 1..Len(c2s) /\ c2s'[j] = c2s[j + e]
    BY DEF FramesLeft
  <2>2. /\ c2s[j + e].val =< c.read /\ AboveHand(c2s[j + e].val)
        /\ \A i \in 1..Len(c2s) :
              (i < j + e /\ c2s[i].type = "DATA") => c2s[i].val < c2s[j + e].val
    BY <2>1 DEF UpInv, FramesUp
  <2>3. c2s'[j].val =< c'.read
    BY <1>n, <1>e, <2>1, <2>2
  <2>4. AboveHand(c2s[j].val)'
    <3>1. PICK v : v = c2s'[j].val
      OBVIOUS
    <3>2. AboveHand(v)'
      BY <2>1, <2>2, <3>1, AboveKept
    <3> QED
      BY <3>1, <3>2 DEF AboveHand, AboveItems, AboveTarget
  <2>5. ASSUME NEW i \in 1..Len(c2s'), i < j, c2s'[i].type = "DATA"
        PROVE  c2s'[i].val < c2s'[j].val
    <3>1. i + e \in 1..Len(c2s) /\ c2s'[i] = c2s[i + e] /\ i + e < j + e
      BY <2>5 DEF FramesLeft
    <3> QED
      BY <2>1, <2>2, <2>5, <3>1
  <2> QED
    BY <2>3, <2>4, <2>5
<1> QED
  BY <1>1, <1>2, <1>3, <1>4

(* Whatever moves up keeps the browser's order, since each place passes    *)
(* its oldest chunk to the end of the next.                                *)
LEMMA UpKept ==
    ASSUME TypeOK, SocketInv, AnswerInv, UpInv, Next
    PROVE  UpInv'
<1> USE DEF ChannelSame, HandsSame, BrowserSame, TargetSame, ReaderStill
<1>t. TypeOK'
  BY NextTypeOK
<1>n. /\ c.read \in Nat /\ c'.read \in Nat /\ b.sent \in Nat /\ b'.sent \in Nat
      /\ c.read =< b.sent /\ srtc.val \in Nat
  BY <1>t, Numbers DEF UpInv, TypeOK, ClientType, PeerType
<1>e. /\ \A k \in 1..Len(c2s) : c2s[k].val \in Nat
      /\ \A j \in 1..Len(s.out) : s.out[j].val \in Nat
      /\ \A i \in 1..Len(t.recv) : t.recv[i] \in Nat
      /\ \A i \in 1..Len(c.pending) : c.pending[i] \in Nat
  BY Elements
<1>p. ASSUME protocol' = protocol, c'.read >= c.read,
             \/ Len(c'.pending) = 0
             \/ /\ c'.pending = c.pending
                /\ (protocol = "HttpPlain" /\ c'.step # "idle") => c.step # "idle" \/ c'.read > c.read
      PROVE  PendingUp'
  BY <1>n, <1>e, <1>p DEF UpInv, PendingUp
(* The reader does not move.                                               *)
<1>q. ASSUME protocol' = protocol, b'.sent >= b.sent, c'.read = c.read,
             c'.pending = c.pending, c'.step = c.step, t'.recv = t.recv,
             NEW d \in Nat, ItemsLeft(d), NEW e \in Nat, FramesLeft(e),
             srtc' = srtc \/ srtc'.type # "DATA"
      PROVE  UpInv'
  <2>1. c'.read >= c.read /\ c'.read =< b'.sent
    BY <1>q, <1>n
  <2>2. TargetUp' /\ ItemsUp' /\ HandUp' /\ FramesUp'
    BY <1>q, <1>t, <2>1, UpQuiet
  <2>3. PendingUp'
    BY <1>q, <1>p, <2>1
  <2> QED
    BY <1>q, <2>1, <2>2, <2>3 DEF UpInv
<1>k. \A n : /\ Frame("SYN", n).type # "DATA" /\ Frame("FIN", n).type # "DATA"
             /\ Chunk(n).kind = "chunk" /\ Chunk(n).val = n
             /\ Frame("DATA", n).type = "DATA" /\ Frame("DATA", n).val = n
  BY DEF Frame, Chunk
<1>c. Close.kind # "chunk"
  BY DEF Close
<1>5. CASE \/ BrowserSends \/ BrowserCloses \/ TargetSends \/ TargetCloses
           \/ ChannelOpens \/ Disconnect
  <2>1. /\ protocol' = protocol /\ b'.sent >= b.sent /\ c' = c /\ t'.recv = t.recv
        /\ s' = s /\ srtc' = srtc /\ (c2s' = c2s \/ Len(c2s') = 0)
    BY <1>5, <1>n, BrowserMoves, TargetMoves, ChannelOpensMoves, DisconnectMoves
  <2>2. ItemsLeft(0) /\ FramesLeft(0)
    BY <2>1, LeftFacts
  <2> QED
    BY <1>q, <2>1, <2>2
<1>6. CASE \/ ClientRejects \/ ClientStops \/ ClientWrites \/ ClientResetsSocket
           \/ ClientDestroyed \/ ClientDrained \/ ClientReadFails
  <2>1. /\ protocol' = protocol /\ b'.sent = b.sent /\ c'.read = c.read /\ c'.pending = c.pending
        /\ c'.step = c.step /\ t' = t /\ s' = s /\ srtc' = srtc
    BY <1>6, ClientRejectsMoves, ClientStopsMoves, ClientWritesMoves, ClientResetsSocketMoves,
       ClientDestroyedMoves, ClientClosesMoves
  <2>2. c2s' = c2s \/ Sends(c2s, c2s', Frame("FIN", 0))
    BY <1>6, ClientRejectsMoves, ClientStopsMoves, ClientWritesMoves, ClientResetsSocketMoves,
       ClientDestroyedMoves, ClientClosesMoves
  <2>3. ItemsLeft(0) /\ FramesLeft(0)
    BY <1>k, <2>1, <2>2, LeftFacts
  <2> QED
    BY <1>q, <1>n, <2>1, <2>3
<1>7. CASE \/ ClientFinds \/ ClientData \/ ClientBadResponse \/ ClientIgnoresData
           \/ ClientSynackReply /\ ~(protocol = "HttpPlain" /\ crtc.val = 0)
           \/ ClientSynackPhase \/ ClientFinTest \/ ClientFinUse
  <2>1. /\ protocol' = protocol /\ b' = b /\ c'.read = c.read /\ c'.pending = c.pending
        /\ c'.step = c.step /\ t' = t /\ s' = s /\ srtc' = srtc /\ c2s' = c2s
    BY <1>7, ClientFindsMoves, ClientDataMoves, ClientBadResponseMoves,
       ClientIgnoresDataMoves, ClientRepliesMoves, ClientSynackPhaseMoves,
       ClientFinTestMoves, ClientFinUseMoves
  <2>2. ItemsLeft(0) /\ FramesLeft(0)
    BY <2>1, LeftFacts
  <2> QED
    BY <1>q, <1>n, <2>1, <2>2
<1>8. ASSUME NEW ok \in BOOLEAN, ServerResolves(ok) \/ ServerConnects(ok)
      PROVE  UpInv'
  <2>1. /\ protocol' = protocol /\ b' = b /\ c' = c
        /\ t' = t /\ s'.out = s.out /\ srtc' = srtc /\ c2s' = c2s
    BY <1>8, ServerResolvesMoves, ServerConnectsMoves
  <2>2. ItemsLeft(0) /\ FramesLeft(0)
    BY <2>1, LeftFacts
  <2> QED
    BY <1>q, <1>n, <2>1, <2>2
<1>9. CASE \/ ServerReads \/ ServerDrained \/ ServerReadsEof \/ ServerFails
  <2>1. /\ protocol' = protocol /\ b' = b /\ c' = c
        /\ t' = t /\ (s'.out = s.out \/ Len(s'.out) = 0) /\ srtc' = srtc /\ c2s' = c2s
    BY <1>9, ServerReadsMoves, ServerClosesMoves
  <2>2. ItemsLeft(0) /\ FramesLeft(0)
    BY <2>1, LeftFacts
  <2> QED
    BY <1>q, <1>n, <2>1, <2>2
<1>10. CASE ServerStops \/ ServerBadRequest \/ ServerIgnoresData \/ ServerFin
  <2>1. /\ protocol' = protocol /\ b' = b /\ c' = c /\ t' = t
        /\ srtc' = srtc \/ srtc'.type # "DATA"
        /\ s'.out = s.out \/ Offered(s.closed, s.out, s'.out, Close)
        /\ c2s' = c2s
    BY <1>10, ServerStopsMoves, ServerBadRequestMoves, ServerIgnoresDataMoves, ServerFinMoves
  <2>2. ItemsLeft(0) /\ FramesLeft(0)
    BY <1>c, <2>1, LeftFacts
  <2> QED
    BY <1>q, <1>n, <2>1, <2>2
<1>11. CASE ServerSyn
  <2>1. /\ protocol' = protocol /\ b' = b /\ c' = c /\ t' = t
        /\ srtc' = srtc /\ s'.out = s.out /\ Popped(c2s, c2s')
    BY <1>11, ServerSynMoves
  <2>2. ItemsLeft(0) /\ FramesLeft(1)
    BY <2>1, LeftFacts
  <2> QED
    BY <1>q, <1>n, <2>1, <2>2
<1>12. CASE ClientRequests \/ ClientConnecting
  <2>1. /\ protocol' = protocol /\ b' = b /\ c'.pending = c.pending /\ t' = t /\ s' = s
        /\ srtc' = srtc /\ (c2s' = c2s \/ Sends(c2s, c2s', Frame("SYN", 0)))
    BY <1>12, ClientRequestsMoves, ClientConnectingMoves
  <2>2. /\ c'.read >= c.read /\ c'.read =< b'.sent
        /\ c'.step = "connecting" => protocol = "HttpPlain"
        /\ (protocol = "HttpPlain" /\ c'.step # "idle") => c.step # "idle" \/ c'.read > c.read
    <3>1. CASE ClientRequests /\ protocol = "HttpPlain"
      BY <1>n, <2>1, <3>1, ClientRequestsMoves
    <3>2. CASE ClientRequests /\ protocol # "HttpPlain"
      BY <1>n, <2>1, <3>2, ClientRequestsMoves
    <3>3. CASE ClientConnecting
      BY <1>n, <2>1, <3>3, ClientConnectingMoves
    <3> QED
      BY <1>12, <3>1, <3>2, <3>3
  <2>3. ItemsLeft(0) /\ FramesLeft(0)
    BY <1>k, <2>1, LeftFacts
  <2>4. TargetUp' /\ ItemsUp' /\ HandUp' /\ FramesUp'
    BY <1>t, <1>n, <2>1, <2>2, <2>3, UpQuiet
  <2>5. PendingUp'
    BY <1>p, <2>1, <2>2
  <2> QED
    BY <2>1, <2>2, <2>4, <2>5 DEF UpInv
<1>13. CASE ClientReadsPartOfHead \/ ClientKeepsRequest
  <2>0. PICK x : x = IF ClientReadsPartOfHead THEN c.read + 1 ELSE c.read
    OBVIOUS
  <2>1. /\ protocol' = protocol /\ b' = b /\ t' = t /\ s' = s
        /\ srtc' = srtc /\ c2s' = c2s /\ Pushed(c.pending, c'.pending, x)
        /\ c'.step = "idle"
    BY <1>13, <2>0, ClientReadsPartOfHeadMoves, ClientKeepsRequestMoves
  <2>2. /\ c'.read >= c.read /\ c'.read =< b'.sent /\ x =< c'.read
        /\ \A i \in 1..Len(c.pending) : c.pending[i] =< c'.read /\ c.pending[i] < x
    <3>1. CASE ClientReadsPartOfHead
      BY <1>n, <1>e, <2>0, <2>1, <3>1, ClientReadsPartOfHeadMoves DEF UpInv, PendingUp
    <3>2. CASE ClientKeepsRequest /\ ~ClientReadsPartOfHead
      BY <1>n, <1>e, <2>0, <2>1, <3>2, ClientKeepsRequestMoves DEF UpInv, PendingUp
    <3> QED
      BY <1>13, <3>1, <3>2
  <2>3. ItemsLeft(0) /\ FramesLeft(0)
    BY <1>k, <2>1, LeftFacts
  <2>4. TargetUp' /\ ItemsUp' /\ HandUp' /\ FramesUp'
    BY <1>t, <1>n, <2>1, <2>2, <2>3, UpQuiet
  <2>5. PendingUp'
    <3>1. /\ Len(c.pending) \in Nat
          /\ \A j \in 1..Len(c'.pending) :
                \/ j \in 1..Len(c.pending) /\ c'.pending[j] = c.pending[j]
                \/ j = Len(c.pending) + 1 /\ c'.pending[j] = x
      BY <2>1, Lens, PushedFacts
    <3>2. \A j \in 1..Len(c.pending) : \A i \in 1..Len(c.pending) :
             i < j => c.pending[i] < c.pending[j]
      BY DEF UpInv, PendingUp
    <3>3. ASSUME NEW j \in 1..Len(c'.pending)
          PROVE  /\ c'.pending[j] =< c'.read
                 /\ \A i \in 1..Len(c'.pending) : i < j => c'.pending[i] < c'.pending[j]
      BY <2>2, <3>1, <3>2, <3>3
    <3> QED
      BY <2>1, <3>3 DEF PendingUp
  <2> QED
    BY <2>1, <2>2, <2>4, <2>5 DEF UpInv
(* Everything that was read so far lies below the next ordinal.            *)
<1>r. ASSUME NEW v, v = c.read + 1
      PROVE  /\ AboveHand(v)
             /\ \A k \in 1..Len(c2s) : c2s[k].type = "DATA" => c2s[k].val < v
  BY <1>r, <1>n, <1>e, SMTT(30)
     DEF UpInv, TargetUp, ItemsUp, HandUp, FramesUp, AboveHand, AboveItems, AboveTarget
<1>14. CASE ClientReads
  <2>1. /\ protocol' = protocol /\ b' = b /\ t' = t /\ s' = s /\ srtc' = srtc
        /\ c.read < b.sent /\ c'.read = c.read + 1 /\ c'.pending = c.pending
        /\ c'.step = c.step
        /\ c2s' = c2s \/ Sends(c2s, c2s', Frame("DATA", c.read + 1))
    BY <1>14, ClientReadsMoves
  <2>2. c'.read >= c.read /\ c'.read =< b'.sent
    BY <1>n, <2>1
  <2>3. ItemsLeft(0) /\ PendingUp'
    BY <1>p, <2>1, <2>2, LeftFacts
  <2>4. CASE c2s' = c2s
    <3>1. FramesLeft(0)
      BY <2>4, LeftFacts
    <3>2. TargetUp' /\ ItemsUp' /\ HandUp' /\ FramesUp'
      BY <1>t, <1>n, <2>1, <2>2, <2>3, <3>1, UpQuiet
    <3> QED
      BY <2>1, <2>2, <2>3, <3>2 DEF UpInv
  <2>5. ASSUME NEW f, f = Frame("DATA", c.read + 1), Pushed(c2s, c2s', f)
        PROVE  UpInv'
    <3>1. TargetUp' /\ ItemsUp' /\ HandUp'
      <4>1. TargetUp'
        BY <1>n, <1>e, <2>1 DEF UpInv, TargetUp
      <4>2. ItemsUp'
        BY <1>n, <1>e, <2>1 DEF UpInv, ItemsUp, AboveTarget
      <4>3. HandUp'
        BY <1>n, <2>1 DEF UpInv, HandUp, AboveItems, AboveTarget
      <4> QED
        BY <4>1, <4>2, <4>3
    <3>2. /\ Len(c2s) \in Nat /\ Len(c2s') = Len(c2s) + 1
          /\ \A j \in 1..Len(c2s') : \/ j \in 1..Len(c2s) /\ c2s'[j] = c2s[j]
                                     \/ j = Len(c2s) + 1 /\ c2s'[j] = f
      BY <2>5, Lens, PushedFacts
    <3>3. f.type = "DATA" /\ f.val = c.read + 1
      BY <1>k, <2>5
    <3>4. ASSUME NEW j \in 1..Len(c2s'), c2s'[j].type = "DATA"
          PROVE  /\ c2s'[j].val =< c'.read /\ AboveHand(c2s[j].val)'
                 /\ \A i \in 1..Len(c2s') :
                       (i < j /\ c2s'[i].type = "DATA") => c2s'[i].val < c2s'[j].val
      <4>0. PICK v : v = c2s'[j].val
        OBVIOUS
      <4>1. CASE j \in 1..Len(c2s) /\ c2s'[j] = c2s[j]
        <5>1. /\ v =< c.read /\ AboveHand(v) /\ v \in Nat
              /\ \A i \in 1..Len(c2s) : (i < j /\ c2s[i].type = "DATA") => c2s[i].val < v
          BY <1>e, <3>4, <4>0, <4>1 DEF UpInv, FramesUp
        <5>2. AboveHand(v)'
          BY <2>1, <2>3, <5>1, AboveKept
        <5>3. AboveHand(c2s[j].val)'
          BY <4>0, <5>2 DEF AboveHand, AboveItems, AboveTarget
        <5>4. ASSUME NEW i \in 1..Len(c2s'), i < j, c2s'[i].type = "DATA"
              PROVE  c2s'[i].val < v
          <6>1. i \in 1..Len(c2s) /\ c2s'[i] = c2s[i]
            BY <3>2, <4>1, <5>4
          <6> QED
            BY <5>1, <5>4, <6>1
        <5>5. v =< c'.read
          BY <1>n, <2>1, <5>1
        <5> QED
          BY <4>0, <5>3, <5>4, <5>5
      <4>2. CASE j = Len(c2s) + 1 /\ c2s'[j] = f
        <5>1. /\ AboveHand(v) /\ v = c.read + 1
              /\ \A k \in 1..Len(c2s) : c2s[k].type = "DATA" => c2s[k].val < v
          BY <1>r, <3>3, <4>0, <4>2
        <5>2. AboveHand(v)'
          BY <2>1, <2>3, <5>1, AboveKept
        <5>3. AboveHand(c2s[j].val)'
          BY <4>0, <5>2 DEF AboveHand, AboveItems, AboveTarget
        <5>4. ASSUME NEW i \in 1..Len(c2s'), i < j, c2s'[i].type = "DATA"
              PROVE  c2s'[i].val < v
          <6>1. i # Len(c2s) + 1
            BY <3>2, <4>2, <5>4
          <6>2. i \in 1..Len(c2s) /\ c2s'[i] = c2s[i]
            BY <3>2, <5>4, <6>1
          <6> QED
            BY <5>1, <5>4, <6>2
        <5> QED
          BY <1>n, <2>1, <4>0, <5>1, <5>3, <5>4
      <4> QED
        BY <3>2, <3>4, <4>1, <4>2
    <3>5. FramesUp'
      BY <3>4 DEF FramesUp
    <3> QED
      BY <2>1, <2>2, <2>3, <3>1, <3>5 DEF UpInv
  <2>6. PICK f : f = Frame("DATA", c.read + 1)
    OBVIOUS
  <2> QED
    BY <2>1, <2>4, <2>5, <2>6 DEF Sends
<1>15. CASE ClientSynackReply /\ protocol = "HttpPlain" /\ crtc.val = 0
  <2>1. /\ protocol' = protocol /\ b' = b /\ t' = t /\ s' = s /\ srtc' = srtc
        /\ c'.read = c.read /\ c'.step = c.step /\ Len(c'.pending) = 0
        /\ crtc.type = "SYNACK" /\ crtc.at = "found"
        /\ dc # "open" => c2s' = c2s
        /\ dc = "open" =>
              /\ Len(c2s') = Len(c2s) + Len(c.pending)
              /\ \A k \in 1..Len(c2s) : c2s'[k] = c2s[k]
              /\ \A k \in 1..Len(c2s') : k > Len(c2s) =>
                    /\ k - Len(c2s) \in 1..Len(c.pending)
                    /\ c2s'[k].type = "DATA"
                    /\ c2s'[k].val = c.pending[k - Len(c2s)]
    BY <1>15, ClientReplaysMoves
  <2>2. c'.read >= c.read /\ c'.read =< b'.sent
    BY <1>n, <2>1
  <2>3. ItemsLeft(0) /\ PendingUp'
    BY <1>p, <2>1, <2>2, LeftFacts
  <2>4. CASE dc # "open"
    <3>1. FramesLeft(0)
      BY <2>1, <2>4, LeftFacts
    <3>2. TargetUp' /\ ItemsUp' /\ HandUp' /\ FramesUp'
      BY <1>t, <1>n, <2>1, <2>2, <2>3, <3>1, UpQuiet
    <3> QED
      BY <2>1, <2>2, <2>3, <3>2 DEF UpInv
  <2>5. CASE dc = "open"
    <3>1. UpFrames /\ srtc.type # "DATA" /\ UpItems /\ Len(t.recv) = 0
      BY <2>1, Lens DEF AnswerInv, Awaited, UpSilent
    <3>2. TargetUp' /\ ItemsUp' /\ HandUp' /\ \A v : AboveHand(v)'
      BY <2>1, <3>1 DEF UpItems, TargetUp, ItemsUp, HandUp, AboveHand, AboveItems, AboveTarget
    <3>3. PICK n, m \in Nat : n = Len(c2s) /\ m = Len(c.pending)
      BY Lens
    <3>4. ASSUME NEW k \in 1..Len(c2s'), c2s'[k].type = "DATA"
          PROVE  k > n /\ k - n \in 1..m /\ c2s'[k].val = c.pending[k - n]
      <4>1. k \notin 1..n
        BY <2>1, <2>5, <3>1, <3>3, <3>4 DEF UpFrames
      <4>2. k > n
        BY <3>3, <4>1
      <4>3. k - n \in 1..m /\ c2s'[k].val = c.pending[k - n]
        BY <2>1, <2>5, <3>3, <3>4, <4>2
      <4> QED
        BY <4>2, <4>3
    <3>5. ASSUME NEW j \in 1..Len(c2s'), c2s'[j].type = "DATA"
          PROVE  /\ c2s'[j].val =< c'.read /\ AboveHand(c2s[j].val)'
                 /\ \A i \in 1..Len(c2s') :
                       (i < j /\ c2s'[i].type = "DATA") => c2s'[i].val < c2s'[j].val
      <4>1. j - n \in 1..m /\ c2s'[j].val = c.pending[j - n]
        BY <3>4, <3>5
      <4>2. c2s'[j].val =< c'.read
        BY <2>1, <3>3, <4>1 DEF UpInv, PendingUp
      <4>3. AboveHand(c2s[j].val)'
        BY <2>1, <3>1 DEF UpItems, AboveHand, AboveItems, AboveTarget
      <4>4. ASSUME NEW i \in 1..Len(c2s'), i < j, c2s'[i].type = "DATA"
            PROVE  c2s'[i].val < c2s'[j].val
        <5>1. i - n \in 1..m /\ c2s'[i].val = c.pending[i - n]
          BY <3>4, <4>4
        <5>2. i - n < j - n
          BY <4>4, <3>3, <4>1, <5>1
        <5>3. c.pending[i - n] < c.pending[j - n]
          BY <3>3, <4>1, <5>1, <5>2 DEF UpInv, PendingUp
        <5> QED
          BY <4>1, <5>1, <5>3
      <4> QED
        BY <4>2, <4>3, <4>4
    <3>6. FramesUp'
      BY <3>5 DEF FramesUp
    <3> QED
      BY <2>1, <2>2, <2>3, <3>2, <3>6 DEF UpInv
  <2> QED
    BY <2>4, <2>5
<1>16. CASE ServerFinds
  <2>1. /\ protocol' = protocol /\ b' = b /\ c' = c /\ t' = t /\ s' = s
        /\ srtc.type = "none" /\ Popped(c2s, c2s')
        /\ \/ srtc'.type = "none"
           \/ srtc'.type = c2s[1].type /\ srtc'.val = c2s[1].val
    BY <1>16, ServerFindsMoves
  <2>2. ItemsLeft(0) /\ FramesLeft(1)
    BY <2>1, LeftFacts
  <2>3. CASE srtc'.type # "DATA"
    BY <1>q, <1>n, <2>1, <2>2, <2>3
  <2>4. CASE srtc'.type = "DATA" /\ c2s[1].type = "DATA" /\ srtc'.val = c2s[1].val
    <3>1. /\ 1 \in 1..Len(c2s) /\ Len(c2s) \in Nat
          /\ \A j \in 1..Len(c2s') : j + 1 \in 1..Len(c2s) /\ c2s'[j] = c2s[j + 1]
      BY <2>1, Lens, PoppedFacts
    <3>2. PICK v : v = c2s[1].val
      OBVIOUS
    <3>3. v =< c.read /\ AboveItems(v)
      BY <2>4, <3>1, <3>2 DEF UpInv, FramesUp, AboveHand
    <3>4. TargetUp' /\ ItemsUp'
      <4>1. TargetUp'
        BY <2>1 DEF UpInv, TargetUp
      <4>2. ItemsUp'
        BY <2>1 DEF UpInv, ItemsUp, AboveTarget
      <4> QED
        BY <4>1, <4>2
    <3>5. HandUp'
      BY <2>1, <2>4, <3>2, <3>3 DEF HandUp, AboveItems, AboveTarget
    <3>6. ASSUME NEW j \in 1..Len(c2s'), c2s'[j].type = "DATA"
          PROVE  /\ c2s'[j].val =< c'.read /\ AboveHand(c2s[j].val)'
                 /\ \A i \in 1..Len(c2s') :
                       (i < j /\ c2s'[i].type = "DATA") => c2s'[i].val < c2s'[j].val
      <4>1. j + 1 \in 1..Len(c2s) /\ c2s'[j] = c2s[j + 1] /\ j \in Nat /\ 1 < j + 1
        BY <3>1, <3>6
      <4>2. /\ c2s[j + 1].val =< c.read /\ AboveHand(c2s[j + 1].val)
            /\ \A i \in 1..Len(c2s) :
                  (i < j + 1 /\ c2s[i].type = "DATA") => c2s[i].val < c2s[j + 1].val
        BY <3>6, <4>1 DEF UpInv, FramesUp
      <4>3. srtc'.val < c2s[j + 1].val
        BY <2>4, <3>1, <4>1, <4>2
      <4>4. AboveHand(c2s[j].val)'
        BY <2>1, <4>1, <4>2, <4>3 DEF AboveHand, AboveItems, AboveTarget
      <4>5. ASSUME NEW i \in 1..Len(c2s'), i < j, c2s'[i].type = "DATA"
            PROVE  c2s'[i].val < c2s'[j].val
        <5>1. i + 1 \in 1..Len(c2s) /\ c2s'[i] = c2s[i + 1] /\ i + 1 < j + 1
          BY <3>1, <4>5
        <5> QED
          BY <4>1, <4>2, <4>5, <5>1
      <4> QED
        BY <2>1, <4>1, <4>2, <4>4, <4>5
    <3>7. FramesUp'
      BY <3>6 DEF FramesUp
    <3>8. PendingUp'
      BY <2>1 DEF UpInv, PendingUp
    <3> QED
      BY <2>1, <3>4, <3>5, <3>7, <3>8 DEF UpInv
  <2> QED
    BY <2>1, <2>3, <2>4
<1>17. CASE ServerData
  <2>1. /\ protocol' = protocol /\ b' = b /\ c' = c /\ t' = t
        /\ srtc.type = "DATA" /\ srtc'.type = "none" /\ c2s' = c2s
        /\ s'.out = s.out \/ Offered(s.closed, s.out, s'.out, Chunk(srtc.val))
    BY <1>17, ServerDataMoves
  <2>2. FramesLeft(0)
    BY <2>1, LeftFacts
  <2>3. CASE s'.out = s.out
    <3>1. ItemsLeft(0)
      BY <2>3, LeftFacts
    <3> QED
      BY <1>q, <1>n, <2>1, <2>2, <3>1
  <2>4. ASSUME NEW x, x = Chunk(srtc.val), Pushed(s.out, s'.out, x)
        PROVE  UpInv'
    <3>1. x.kind = "chunk" /\ x.val = srtc.val
      BY <1>k, <2>4
    <3>2. x.val =< c.read /\ AboveItems(x.val)
      BY <2>1, <3>1 DEF UpInv, HandUp
    <3>3. /\ Len(s.out) \in Nat /\ Len(s'.out) = Len(s.out) + 1
          /\ \A j \in 1..Len(s'.out) : \/ j \in 1..Len(s.out) /\ s'.out[j] = s.out[j]
                                       \/ j = Len(s.out) + 1 /\ s'.out[j] = x
      BY <2>4, Lens, PushedFacts
    <3>4. TargetUp' /\ HandUp' /\ PendingUp'
      BY <2>1 DEF UpInv, TargetUp, HandUp, PendingUp
    <3>5. ASSUME NEW j \in 1..Len(s'.out), s'.out[j].kind = "chunk"
          PROVE  /\ s'.out[j].val =< c'.read /\ AboveTarget(s.out[j].val)'
                 /\ \A i \in 1..Len(s'.out) :
                       (i < j /\ s'.out[i].kind = "chunk") => s'.out[i].val < s'.out[j].val
      <4>1. CASE j \in 1..Len(s.out) /\ s'.out[j] = s.out[j]
        <5>1. /\ s.out[j].val =< c.read /\ AboveTarget(s.out[j].val)
              /\ \A i \in 1..Len(s.out) :
                    (i < j /\ s.out[i].kind = "chunk") => s.out[i].val < s.out[j].val
          BY <3>5, <4>1 DEF UpInv, ItemsUp
        <5>2. AboveTarget(s.out[j].val)'
          BY <2>1, <4>1, <5>1 DEF AboveTarget
        <5>3. ASSUME NEW i \in 1..Len(s'.out), i < j, s'.out[i].kind = "chunk"
              PROVE  s'.out[i].val < s'.out[j].val
          <6>1. i \in 1..Len(s.out) /\ s'.out[i] = s.out[i]
            BY <3>3, <4>1, <5>3
          <6> QED
            BY <4>1, <5>1, <5>3, <6>1
        <5> QED
          BY <2>1, <4>1, <5>1, <5>2, <5>3
      <4>2. CASE j = Len(s.out) + 1 /\ s'.out[j] = x
        <5>1. AboveTarget(s.out[j].val)'
          BY <2>1, <3>2, <4>2 DEF AboveItems, AboveTarget
        <5>2. ASSUME NEW i \in 1..Len(s'.out), i < j, s'.out[i].kind = "chunk"
              PROVE  s'.out[i].val < s'.out[j].val
          <6>0. i # Len(s.out) + 1
            BY <3>3, <4>2, <5>2
          <6>1. i \in 1..Len(s.out) /\ s'.out[i] = s.out[i]
            BY <3>3, <5>2, <6>0
          <6> QED
            BY <3>2, <4>2, <5>2, <6>1 DEF AboveItems
        <5> QED
          BY <2>1, <3>2, <4>2, <5>1, <5>2
      <4> QED
        BY <3>3, <3>5, <4>1, <4>2
    <3>6. ItemsUp'
      BY <3>5 DEF ItemsUp
    <3>7. ASSUME NEW v, AboveHand(v)
          PROVE  AboveHand(v)'
      <4>1. x.val < v /\ AboveItems(v)
        BY <2>1, <3>1, <3>7 DEF AboveHand
      <4>2. \A j \in 1..Len(s'.out) : s'.out[j].kind = "chunk" => s'.out[j].val < v
        BY <3>3, <4>1 DEF AboveItems
      <4> QED
        BY <2>1, <4>1, <4>2 DEF AboveHand, AboveItems, AboveTarget
    <3>8. FramesUp'
      <4>1. ASSUME NEW j \in 1..Len(c2s'), c2s'[j].type = "DATA"
            PROVE  /\ c2s'[j].val =< c'.read /\ AboveHand(c2s[j].val)'
                   /\ \A i \in 1..Len(c2s') :
                         (i < j /\ c2s'[i].type = "DATA") => c2s'[i].val < c2s'[j].val
        <5>0. PICK v : v = c2s[j].val
          OBVIOUS
        <5>1. /\ v =< c.read /\ AboveHand(v)
              /\ \A i \in 1..Len(c2s) : (i < j /\ c2s[i].type = "DATA") => c2s[i].val < v
          BY <2>1, <4>1, <5>0 DEF UpInv, FramesUp
        <5>2. AboveHand(v)'
          BY <3>7, <5>1
        <5>3. AboveHand(c2s[j].val)'
          BY <2>1, <5>0, <5>2 DEF AboveHand, AboveItems, AboveTarget
        <5> QED
          BY <2>1, <4>1, <5>0, <5>1, <5>3
      <4> QED
        BY <4>1 DEF FramesUp
    <3> QED
      BY <1>n, <2>1, <3>4, <3>6, <3>8 DEF UpInv
  <2>5. PICK x : x = Chunk(srtc.val)
    OBVIOUS
  <2> QED
    BY <2>1, <2>3, <2>4, <2>5 DEF Offered
<1>18. CASE ServerWrites
  <2>1. /\ protocol' = protocol /\ b' = b /\ c' = c /\ c2s' = c2s /\ srtc' = srtc
        /\ Popped(s.out, s'.out) /\ s.out[1].kind # "close"
        /\ s.connected => Pushed(t.recv, t'.recv, s.out[1].val)
        /\ ~s.connected => t'.recv = t.recv
    BY <1>18, ServerWritesMoves
  <2>2. /\ 1 \in 1..Len(s.out)
        /\ \A j \in 1..Len(s'.out) : j + 1 \in 1..Len(s.out) /\ s'.out[j] = s.out[j + 1]
    BY <2>1, Lens, PoppedFacts
  <2>3. s.out[1].kind = "chunk"
    BY <2>1, <2>2, Elements DEF SocketInv, ServerSocket
  <2>4. CASE ~s.connected
    <3>1. ItemsLeft(1) /\ FramesLeft(0)
      BY <2>1, LeftFacts
    <3> QED
      BY <1>q, <1>n, <2>1, <2>4, <3>1
  <2>5. CASE s.connected
    <3>0. PICK v : v = s.out[1].val
      OBVIOUS
    <3>1. /\ v =< c.read /\ AboveTarget(v)
          /\ \A j \in 1..Len(s.out) : (1 < j /\ s.out[j].kind = "chunk") => v < s.out[j].val
      BY <2>2, <2>3, <3>0 DEF UpInv, ItemsUp
    <3>2. /\ Len(t.recv) \in Nat /\ Len(t'.recv) = Len(t.recv) + 1
          /\ \A j \in 1..Len(t'.recv) : \/ j \in 1..Len(t.recv) /\ t'.recv[j] = t.recv[j]
                                        \/ j = Len(t.recv) + 1 /\ t'.recv[j] = v
      BY <2>1, <2>5, <3>0, Lens, PushedFacts
    <3>3. TargetUp'
      <4>1. ASSUME NEW j \in 1..Len(t'.recv)
            PROVE  /\ t'.recv[j] =< c'.read
                   /\ \A i \in 1..Len(t'.recv) : i < j => t'.recv[i] < t'.recv[j]
        <5>1. CASE j \in 1..Len(t.recv) /\ t'.recv[j] = t.recv[j]
          <6>1. /\ t.recv[j] =< c.read
                /\ \A i \in 1..Len(t.recv) : i < j => t.recv[i] < t.recv[j]
            BY <5>1 DEF UpInv, TargetUp
          <6>2. ASSUME NEW i \in 1..Len(t'.recv), i < j
                PROVE  i \in 1..Len(t.recv) /\ t'.recv[i] = t.recv[i]
            BY <3>2, <5>1, <6>2
          <6> QED
            BY <2>1, <5>1, <6>1, <6>2
        <5>2. CASE j = Len(t.recv) + 1 /\ t'.recv[j] = v
          <6>1. ASSUME NEW i \in 1..Len(t'.recv), i < j
                PROVE  i \in 1..Len(t.recv) /\ t'.recv[i] = t.recv[i]
            <7>1. i # Len(t.recv) + 1
              BY <3>2, <5>2, <6>1
            <7> QED
              BY <3>2, <6>1, <7>1
          <6> QED
            BY <2>1, <3>1, <5>2, <6>1 DEF AboveTarget
        <5> QED
          BY <3>2, <4>1, <5>1, <5>2
      <4> QED
        BY <4>1 DEF TargetUp
    <3>4. ASSUME NEW w, AboveTarget(w), v < w
          PROVE  AboveTarget(w)'
      BY <3>2, <3>4 DEF AboveTarget
    <3>5. ASSUME NEW w, AboveItems(w)
          PROVE  AboveItems(w)'
      <4>1. AboveTarget(w)'
        BY <2>2, <2>3, <3>0, <3>4, <3>5 DEF AboveItems
      <4> QED
        BY <2>2, <3>5, <4>1 DEF AboveItems
    <3>6. ASSUME NEW w, AboveHand(w)
          PROVE  AboveHand(w)'
      BY <2>1, <3>5, <3>6 DEF AboveHand
    <3>7. ItemsUp'
      <4>1. ASSUME NEW j \in 1..Len(s'.out), s'.out[j].kind = "chunk"
            PROVE  /\ s'.out[j].val =< c'.read /\ AboveTarget(s.out[j].val)'
                   /\ \A i \in 1..Len(s'.out) :
                         (i < j /\ s'.out[i].kind = "chunk") => s'.out[i].val < s'.out[j].val
        <5>0. PICK w : w = s'.out[j].val
          OBVIOUS
        <5>1. j + 1 \in 1..Len(s.out) /\ s'.out[j] = s.out[j + 1] /\ 1 < j + 1
          BY <2>2, <4>1
        <5>2. /\ w =< c.read /\ AboveTarget(w) /\ v < w
              /\ \A i \in 1..Len(s.out) :
                    (i < j + 1 /\ s.out[i].kind = "chunk") => s.out[i].val < w
          BY <3>1, <4>1, <5>0, <5>1 DEF UpInv, ItemsUp
        <5>3. AboveTarget(w)'
          BY <3>4, <5>2
        <5>4. AboveTarget(s.out[j].val)'
          BY <5>0, <5>3 DEF AboveTarget
        <5>5. ASSUME NEW i \in 1..Len(s'.out), i < j, s'.out[i].kind = "chunk"
              PROVE  s'.out[i].val < w
          <6>1. i + 1 \in 1..Len(s.out) /\ s'.out[i] = s.out[i + 1] /\ i + 1 < j + 1
            BY <2>2, <5>5
          <6> QED
            BY <5>2, <5>5, <6>1
        <5> QED
          BY <2>1, <5>0, <5>2, <5>4, <5>5
      <4> QED
        BY <4>1 DEF ItemsUp
    <3>8. HandUp'
      <4>1. CASE srtc.type # "DATA"
        BY <2>1, <4>1 DEF HandUp
      <4>2. CASE srtc.type = "DATA"
        <5>1. PICK w : w = srtc.val
          OBVIOUS
        <5>2. w =< c.read /\ AboveItems(w)
          BY <4>2, <5>1 DEF UpInv, HandUp
        <5>3. AboveItems(w)'
          BY <3>5, <5>2
        <5>4. AboveItems(srtc.val)'
          BY <2>1, <5>1, <5>3 DEF AboveItems, AboveTarget
        <5> QED
          BY <2>1, <5>1, <5>2, <5>4 DEF HandUp
      <4> QED
        BY <4>1, <4>2
    <3>9. FramesUp'
      <4>1. ASSUME NEW j \in 1..Len(c2s'), c2s'[j].type = "DATA"
            PROVE  /\ c2s'[j].val =< c'.read /\ AboveHand(c2s[j].val)'
                   /\ \A i \in 1..Len(c2s') :
                         (i < j /\ c2s'[i].type = "DATA") => c2s'[i].val < c2s'[j].val
        <5>0. PICK w : w = c2s[j].val
          OBVIOUS
        <5>1. /\ w =< c.read /\ AboveHand(w)
              /\ \A i \in 1..Len(c2s) : (i < j /\ c2s[i].type = "DATA") => c2s[i].val < w
          BY <2>1, <4>1, <5>0 DEF UpInv, FramesUp
        <5>2. AboveHand(w)'
          BY <3>6, <5>1
        <5>3. AboveHand(c2s[j].val)'
          BY <2>1, <5>0, <5>2 DEF AboveHand, AboveItems, AboveTarget
        <5> QED
          BY <2>1, <4>1, <5>0, <5>1, <5>3
      <4> QED
        BY <4>1 DEF FramesUp
    <3>10. PendingUp'
      BY <2>1 DEF UpInv, PendingUp
    <3> QED
      BY <1>n, <2>1, <3>3, <3>7, <3>8, <3>9, <3>10 DEF UpInv
  <2> QED
    BY <2>4, <2>5
<1> QED
  BY <1>5, <1>6, <1>7, <1>8, <1>9, <1>10, <1>11, <1>12, <1>13, <1>14, <1>15, <1>16,
     <1>17, <1>18
     DEF Next, Environment, System, ClientStrand, ClientRtc, ServerRtc, ServerStrand

-----------------------------------------------------------------------------
(* The theorems.                                                           *)

(* Before the browser's first byte all of it holds.                        *)
LEMMA InitInv == Init => IInv
<1> SUFFICES ASSUME Init
             PROVE  IInv
  OBVIOUS
<1>1. TypeOK
  BY InitTypeOK
<1>2. /\ Len(c2s) = 0 /\ Len(s2c) = 0 /\ Len(b.recv) = 0 /\ Len(t.recv) = 0
      /\ Len(c.out) = 0 /\ Len(s.out) = 0 /\ Len(c.pending) = 0
  BY EmptySeq DEF Init
<1>3. /\ c2s = <<>> /\ s2c = <<>> /\ b.recv = <<>> /\ c.out = <<>> /\ s.out = <<>>
      /\ t.recv = <<>>
      /\ b.sent = 0 /\ t.sent = 0 /\ ~t.eof
      /\ c.phase = "Handshake" /\ c.step = "idle" /\ c.read = 0 /\ ~c.mux
      /\ ~c.closed /\ ~c.bad /\ c.ptr
      /\ s.dial = "none" /\ ~s.fd /\ ~s.connected /\ s.read = 0 /\ ~s.closed
      /\ ~s.failed /\ ~s.bad
      /\ crtc.type = "none" /\ srtc.type = "none"
  BY DEF Init, Idle
<1>4. Unasked
  BY <1>3 DEF Unasked
<1>5. SocketInv
  BY <1>2, <1>3 DEF SocketInv, ClientSocket, ServerSocket
<1>6. AskInv
  BY <1>2, <1>3, <1>4 DEF AskInv
<1>7. ConnectedInv
  BY <1>2, <1>3 DEF ConnectedInv, NotConnected, UpSilent, UpFrames, UpItems, DownSilent,
     DownFrames, DownItems, Delivered
<1>8. AnswerInv
  BY <1>2, <1>3 DEF AnswerInv, Unposted
<1>9. ShapeInv
  BY <1>2, <1>3 DEF ShapeInv, BrowserShape, SocketShape, ChannelShape, HandShape
<1>10. FlowInv
  BY <1>3 DEF FlowInv, Answered
<1>11. FinInv
  BY <1>2, <1>3 DEF FinInv
<1>12. EndInv
  BY <1>2, <1>3 DEF EndInv, Ended
<1>13. UpInv
  BY <1>2, <1>3 DEF UpInv, TargetUp, ItemsUp, HandUp, FramesUp, PendingUp
<1> QED
  BY <1>1, <1>5, <1>6, <1>7, <1>8, <1>9, <1>10, <1>11, <1>12, <1>13 DEF IInv

(* Every handler of both programs keeps the inductive invariant.           *)
LEMMA NextInv == IInv /\ [Next]_vars => IInv'
<1>1. ASSUME IInv, Next
      PROVE  IInv'
  BY <1>1, NextTypeOK, SocketKept, AskKept, ConnectedKept, AnswerKept, ShapeKept, FlowKept,
     FinKept, EndKept, UpKept DEF IInv
<1>2. ASSUME IInv, UNCHANGED vars
      PROVE  IInv'
  <2> USE <1>2 DEF IInv, vars
  <2>1. TypeOK'
    BY DEF TypeOK
  <2>2. SocketInv' /\ AskInv'
    BY DEF SocketInv, ClientSocket, ServerSocket, AskInv, Unasked
  <2>3. ConnectedInv' /\ AnswerInv'
    BY DEF ConnectedInv, NotConnected, UpSilent, UpFrames, UpItems, DownSilent, DownFrames,
       DownItems, Delivered, AnswerInv, Unposted, Awaited, Says
  <2>4. ShapeInv'
    BY DEF ShapeInv, BrowserShape, SocketShape, ChannelShape, HandShape, Fits, Off
  <2>5. FlowInv'
    BY DEF FlowInv, Posting, Answered, AnswerDue, FinDue, InHand, Chunks, Given, Off
  <2>6. FinInv'
    BY DEF FinInv, Finished
  <2>7. EndInv'
    BY DEF EndInv, Ended, Orderly, BeforeClose, Chunks, Off, Unasked
  <2>8. UpInv'
    BY DEF UpInv, TargetUp, ItemsUp, HandUp, FramesUp, PendingUp, AboveHand, AboveItems,
       AboveTarget
  <2> QED
    BY <2>1, <2>2, <2>3, <2>4, <2>5, <2>6, <2>7, <2>8
<1> QED
  BY <1>1, <1>2

(* What the browser received after the reply: the chunks in order          *)
(* (p2p_synack posts the reply before p2p_data the first chunk).           *)
LEMMA GotFacts ==
    ASSUME TypeOK, ConnectedInv, ShapeInv
    PROVE  /\ Len(AfterReply(b.recv)) \in Nat
           /\ (protocol # "HttpPlain" /\ b.recv # <<>>) => b.recv[1].kind = "reply"
           /\ s.connected => Len(AfterReply(b.recv)) = Chunks(Len(b.recv))
           /\ \A i \in 1..Len(AfterReply(b.recv)) :
                 AfterReply(b.recv)[i] = Chunk(i) /\ i =< t.sent
<1>0. PICK q \in Seq(ItemType) : q = b.recv
  BY DEF TypeOK, PeerType
<1>1. PICK n \in Nat : n = Len(q)
  BY EmptyFacts
<1>2. \A i \in 1..n : q[i] \in ItemType /\ Fits(q[i], i)
  BY <1>0, <1>1, EmptyFacts DEF ShapeInv, BrowserShape
<1>3. s.read \in Nat /\ t.sent \in Nat /\ s.read =< t.sent
  BY Numbers DEF ShapeInv
<1>4. ASSUME NEW x \in ItemType, NEW i \in Nat, x.kind = "chunk", x.val = i
      PROVE  x = Chunk(i)
  BY <1>4 DEF ItemType, Chunk
<1>5. q = <<>> <=> n = 0
  BY <1>1, EmptyFacts
<1>6. CASE n = 0
  <2>1. AfterReply(b.recv) = <<>> /\ Len(AfterReply(b.recv)) = 0
    BY <1>0, <1>5, <1>6, EmptySeq DEF AfterReply
  <2>2. Chunks(Len(b.recv)) = 0
    BY <1>0, <1>1, <1>6 DEF Chunks
  <2> QED
    BY <1>0, <1>5, <1>6, <2>1, <2>2
<1>7. CASE n # 0
  <2>0. /\ 1 \in 1..n /\ Head(q) = q[1]
        /\ Tail(q) \in Seq(ItemType) /\ Len(Tail(q)) = n - 1
        /\ \A i \in 1..(n - 1) : Tail(q)[i] = q[i + 1]
    BY <1>1, <1>5, <1>7, TailFacts
  <2>1. CASE q[1].kind = "reply"
    <3>1. AfterReply(b.recv) = Tail(q)
      BY <1>0, <1>5, <1>7, <2>0, <2>1 DEF AfterReply
    <3>2. protocol = "HttpPlain" => ~s.connected
      BY <1>2, <2>0, <2>1 DEF Fits
    <3>3. ~s.connected => \A i \in 1..n : q[i].kind = "reply"
      BY <1>0, <1>1 DEF ConnectedInv, NotConnected, DownSilent, Delivered
    <3>4. ASSUME NEW i \in 1..(n - 1)
          PROVE  Tail(q)[i] = Chunk(i) /\ i =< t.sent
      <4>1. i + 1 \in 1..n /\ i + 1 # 1 /\ i \in Nat /\ Tail(q)[i] = q[i + 1]
        BY <2>0
      <4>2. /\ q[i + 1].kind = "chunk" /\ q[i + 1].val = (i + 1) - Off
            /\ q[i + 1].val =< s.read /\ q[i + 1] \in ItemType
        BY <1>2, <4>1 DEF Fits
      <4>3. Off = 1
        BY <3>2, <3>3, <4>1, <4>2 DEF Off
      <4>4. q[i + 1].val = i
        BY <4>1, <4>2, <4>3
      <4>5. q[i + 1] = Chunk(i)
        <5>1. PICK x : x = q[i + 1]
          OBVIOUS
        <5>2. x \in ItemType /\ x.kind = "chunk" /\ x.val = i
          BY <4>2, <4>4, <5>1
        <5>3. x = Chunk(i)
          BY <1>4, <4>1, <5>2
        <5> QED
          BY <5>1, <5>3, Zenon
      <4>6. i =< t.sent
        BY <1>3, <4>1, <4>2, <4>4
      <4> QED
        BY <4>1, <4>5, <4>6, Zenon
    <3>5. s.connected => n - 1 = Chunks(Len(b.recv))
      BY <1>0, <1>1, <1>7, <3>2 DEF Chunks, Off
    <3> QED
      BY <1>0, <1>7, <2>0, <2>1, <3>1, <3>4, <3>5
  <2>2. CASE q[1].kind # "reply"
    <3>1. AfterReply(b.recv) = q
      BY <1>0, <2>0, <2>2 DEF AfterReply
    <3>2. q[1].val = 1 - Off /\ q[1].val >= 1
      BY <1>2, <2>0, <2>2 DEF Fits
    <3>3. Off = 0 /\ protocol = "HttpPlain"
      BY <3>2 DEF Off
    <3>4. ASSUME NEW i \in 1..n
          PROVE  q[i] = Chunk(i) /\ i =< t.sent
      <4>1. /\ q[i].kind = "chunk" /\ q[i].val = i - Off
            /\ q[i].val =< s.read /\ q[i] \in ItemType
        BY <1>2, <2>2, <3>4 DEF Fits
      <4>2. q[i].val = i /\ i \in Nat
        BY <3>3, <4>1
      <4> QED
        BY <1>3, <1>4, <4>1, <4>2
    <3>5. n = Chunks(Len(b.recv))
      BY <1>0, <1>1, <1>7, <3>3 DEF Chunks
    <3> QED
      BY <1>0, <1>1, <3>1, <3>3, <3>4, <3>5
  <2> QED
    BY <2>1, <2>2
<1> QED
  BY <1>6, <1>7

(* The inductive invariant of a tunnelled connection.                      *)
THEOREM Invariance == Spec => []IInv
<1> QED
  BY InitInv, NextInv, PTL DEF Spec

(* Both streams arrive in order, without gaps downstream and without       *)
(* repetition upstream, through closes and losses (p2p_data, process_data, *)
(* http_connected, p2p_revData).                                           *)
THEOREM StreamsInOrderHolds == Spec => []StreamsInOrder
<1>1. ASSUME IInv
      PROVE  StreamsInOrder
  <2> USE <1>1 DEF IInv
  <2>1. DownstreamPrefix
    <3>1. PICK n \in Nat : n = Len(AfterReply(b.recv))
      BY GotFacts
    <3>2. t.sent \in Nat
      BY Numbers
    <3>3. n =< t.sent
      <4>1. CASE n = 0
        BY <3>2, <4>1
      <4>2. CASE n # 0
        <5>1. n \in 1..n
          BY <4>2
        <5> QED
          BY <3>1, <5>1, GotFacts
      <4> QED
        BY <4>1, <4>2
    <3> QED
      BY <3>1, <3>3, GotFacts DEF DownstreamPrefix
  <2>2. UpstreamInOrder
    <3>1. c.read \in Nat /\ b.sent \in Nat /\ c.read =< b.sent
      BY Numbers DEF UpInv
    <3>2. \A j \in 1..Len(t.recv) : t.recv[j] \in Nat /\ t.recv[j] =< c.read
      BY Elements DEF UpInv, TargetUp
    <3>3. \A i, j \in 1..Len(t.recv) : i < j => t.recv[i] < t.recv[j]
      BY DEF UpInv, TargetUp
    <3> QED
      BY <3>1, <3>2, <3>3 DEF UpstreamInOrder
  <2> QED
    BY <2>1, <2>2 DEF StreamsInOrder
<1> QED
  BY Invariance, <1>1, PTL

(* Nobody is told that the target is connected unless it is, and the reply *)
(* comes first and once (p2p_synack).                                      *)
THEOREM ReplyIsTrueHolds == Spec => []ReplyIsTrue
<1>1. ASSUME IInv
      PROVE  ReplyIsTrue
  <2> USE <1>1 DEF IInv
  <2>1. Contains(b.recv, Reply(TRUE)) => s.connected
    BY DEF Contains, Reply, ConnectedInv, NotConnected, DownSilent, Delivered
  <2>2. \A i \in 1..Len(b.recv) : b.recv[i].kind = "reply" => i = 1
    BY DEF ShapeInv, BrowserShape, Fits
  <2>3. (protocol # "HttpPlain" /\ b.recv # <<>>) => Head(b.recv).kind = "reply"
    <3>1. b.recv # <<>> => Head(b.recv) = b.recv[1]
      BY TailFacts DEF TypeOK, PeerType
    <3> QED
      BY <3>1, GotFacts
  <2> QED
    BY <2>1, <2>2, <2>3 DEF ReplyIsTrue
<1> QED
  BY Invariance, <1>1, PTL

(* After an orderly end of the target's stream the browser's socket is     *)
(* closed with everything written (do_read's FIN, p2p_close, close).       *)
THEOREM OrderlyEndIsCompleteHolds == Spec => []OrderlyEndIsComplete
<1>1. ASSUME IInv
      PROVE  OrderlyEndIsComplete
  <2> SUFFICES ASSUME c.closed, ~c.aborted, t.eof, ~s.failed, ~s.bad, ~c.bad, dc = "open"
               PROVE  Len(AfterReply(b.recv)) = t.sent
    BY DEF OrderlyEndIsComplete
  <2> USE <1>1 DEF IInv
  <2>1. s.connected
    BY DEF ConnectedInv, NotConnected
  <2>2. Chunks(BeforeClose) = t.sent
    BY <2>1 DEF EndInv, Ended, Orderly
  <2>3. BeforeClose = Len(b.recv)
    <3>1. c.out = <<>>
      BY DEF SocketInv, ClientSocket
    <3> QED
      BY <3>1, Lens DEF BeforeClose
  <2> QED
    BY <2>1, <2>2, <2>3, GotFacts
<1> QED
  BY Invariance, <1>1, PTL
=============================================================================
