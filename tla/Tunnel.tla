------------------------------- MODULE Tunnel -------------------------------
(***************************************************************************)
(* One tunnelled connection, end to end: the browser, the client's         *)
(* Socks5Session, the data channel, the server's TunnelSession with its    *)
(* TcpSession or HttpSession, and the target host.                         *)
(*                                                                         *)
(* Four threads act on a connection: on each side the strand of its        *)
(* TcpSocket and the rtc thread that delivers frames.  The rtc thread      *)
(* finds the session in the SessionMux and then uses members the strand    *)
(* may reset meanwhile, without a lock: find and use are separate actions. *)
(*                                                                         *)
(* The two TcpSockets appear through the contract TcpSocketRefines         *)
(* establishes: `out' holds what was posted and not yet written, in order, *)
(* with a "close" that takes effect once everything before it is written.  *)
(* A DATA payload is the ordinal of the chunk its sender wrote.            *)
(***************************************************************************)
EXTENDS Naturals, Sequences, SequencesExt

CONSTANTS
    Protocols,      \* which of the stream protocols the browser may speak
    MaxUp,          \* bound on the chunks the browser sends
    MaxDown,        \* bound on the chunks the target sends
    ChannelOpen,    \* is the data channel open when the browser connects?
    MayDisconnect   \* may the peer connection be lost?

ASSUME TunnelConstants ==
    /\ Protocols \subseteq {"Socks5Connect", "HttpsConnect", "HttpPlain"}
    /\ MaxUp \in Nat /\ MaxDown \in Nat
    /\ ChannelOpen \in BOOLEAN /\ MayDisconnect \in BOOLEAN

VARIABLES
    protocol,   \* protocol_, as the browser's first bytes decide
    dc,         \* the data channel: "connecting", "open" or "closed"
    c2s, s2c,   \* frames in the data channel, oldest first
    b,          \* the browser: chunks sent, closed?, what it received
    c,          \* the client's Socks5Session and its TcpSocket
    crtc,       \* the client's rtc thread: the frame it is delivering
    s,          \* the server's TunnelSession and its TcpSocket
    srtc,       \* the server's rtc thread
    t,          \* the target: chunks sent, closed?, what it received
    crashed     \* history: a null pointer was dereferenced

vars == <<protocol, dc, c2s, s2c, b, c, crtc, s, srtc, t, crashed>>

Frame(type, val) == [type |-> type, val |-> val]
Idle == [type |-> "none", val |-> 0, at |-> "idle"]
Found(f) == [type |-> f.type, val |-> f.val, at |-> "found"]

(* What is posted to a socket: a chunk, a reply, or the close.             *)
Chunk(n) == [kind |-> "chunk", val |-> n]
Reply(ok) == [kind |-> "reply", val |-> IF ok THEN 0 ELSE 1]
Close == [kind |-> "close", val |-> 0]

(* The browser has been accepted: SocksServer made the session, entered it *)
(* in sessions_ and started its socket.  The server knows nothing yet.     *)
Init ==
    /\ protocol \in Protocols
    /\ dc = IF ChannelOpen THEN "open" ELSE "connecting"
    /\ c2s = <<>> /\ s2c = <<>>
    /\ b = [sent |-> 0, eof |-> FALSE, recv |-> <<>>]
    /\ c = [phase |-> "Handshake", step |-> "idle", pending |-> <<>>,
            read |-> 0, mux |-> FALSE, out |-> <<>>, closed |-> FALSE,
            aborted |-> FALSE, bad |-> FALSE, ptr |-> TRUE, p2pClosed |-> FALSE,
            onClose |-> TRUE, erased |-> FALSE]
    /\ crtc = Idle /\ srtc = Idle
    /\ s = [dial |-> "none", fd |-> FALSE, connected |-> FALSE, read |-> 0,
            out |-> <<>>, closed |-> FALSE, failed |-> FALSE, bad |-> FALSE,
            iface |-> FALSE, p2pClosed |-> FALSE]
    /\ t = [sent |-> 0, eof |-> FALSE, recv |-> <<>>]
    /\ crashed = FALSE

-----------------------------------------------------------------------------
(* Shared building blocks.                                                 *)

(* Dereferencing a null pointer kills the process: nothing more happens.   *)
Alive == ~crashed

(* Posting to a socket's strand: nothing passes a posted close, and a      *)
(* closed socket ignores it.                                               *)
Posted(sock, item) ==
    IF sock.closed \/ Contains(sock.out, Close) THEN sock.out ELSE Append(sock.out, item)

(* P2PClient::send drops the frame unless the data channel is open.        *)
Sent(channel, frames) == IF dc = "open" THEN channel \o frames ELSE channel

Up(frames)   == c2s' = Sent(c2s, frames) /\ UNCHANGED s2c
Down(frames) == s2c' = Sent(s2c, frames) /\ UNCHANGED c2s

-----------------------------------------------------------------------------
(* The browser and the target, the environment.                            *)

(* A SOCKS5 or CONNECT client speaks again only after the positive reply;  *)
(* a plain HTTP request is data from the first byte.                       *)
BrowserSends ==
    /\ Alive /\ ~b.eof /\ b.sent < MaxUp
    /\ protocol = "HttpPlain" \/ Contains(b.recv, Reply(TRUE))
    /\ b' = [b EXCEPT !.sent = @ + 1]
    /\ UNCHANGED <<protocol, dc, c2s, s2c, c, crtc, s, srtc, t, crashed>>

BrowserCloses ==
    /\ Alive /\ ~b.eof
    /\ b' = [b EXCEPT !.eof = TRUE]
    /\ UNCHANGED <<protocol, dc, c2s, s2c, c, crtc, s, srtc, t, crashed>>

TargetSends ==
    /\ Alive /\ s.connected /\ ~t.eof /\ t.sent < MaxDown
    /\ t' = [t EXCEPT !.sent = @ + 1]
    /\ UNCHANGED <<protocol, dc, c2s, s2c, b, c, crtc, s, srtc, crashed>>

TargetCloses ==
    /\ Alive /\ s.connected /\ ~t.eof
    /\ t' = [t EXCEPT !.eof = TRUE]
    /\ UNCHANGED <<protocol, dc, c2s, s2c, b, c, crtc, s, srtc, crashed>>

-----------------------------------------------------------------------------
(* The peer connection.  Losing it loses the frames under way; each side   *)
(* then gets State::Closed.                                                *)

ChannelOpens ==
    /\ Alive /\ dc = "connecting"
    /\ dc' = "open"
    /\ UNCHANGED <<protocol, c2s, s2c, b, c, crtc, s, srtc, t, crashed>>

Disconnect ==
    /\ Alive /\ MayDisconnect /\ dc = "open"
    /\ dc' = "closed"
    /\ c2s' = <<>> /\ s2c' = <<>>
    /\ UNCHANGED <<protocol, b, c, crtc, s, srtc, t, crashed>>

(* SocksServer::stop: drops on_close_ and closes the browser's socket.     *)
ClientStops ==
    /\ Alive /\ dc = "closed" /\ c.onClose /\ ~c.erased
    /\ c' = [c EXCEPT !.onClose = FALSE,
                      !.out = IF c.ptr THEN Posted(c, Close) ELSE @]
    /\ UNCHANGED <<protocol, dc, c2s, s2c, b, crtc, s, srtc, t, crashed>>

(* The server closes every TunnelSession it still lists.                   *)
ServerStops ==
    /\ Alive /\ dc = "closed" /\ s.iface /\ ~s.p2pClosed
    /\ s' = [s EXCEPT !.p2pClosed = TRUE, !.out = Posted(s, Close)]
    /\ UNCHANGED <<protocol, dc, c2s, s2c, b, c, crtc, srtc, t, crashed>>

-----------------------------------------------------------------------------
(* The client's strand.  request_remote_connect runs inside the read       *)
(* handler, in three steps other threads can see.                          *)

StrandFree == Alive /\ ~c.closed /\ c.step = "idle"

(* The target is known: create the session, send SYN.                      *)
ClientRequests ==
    /\ StrandFree /\ c.phase = "Handshake" /\ ~c.bad
    /\ protocol = "HttpPlain" => c.read < b.sent
    /\ c' = [c EXCEPT !.mux = TRUE, !.step = "syn_sent",
                      !.read = IF protocol = "HttpPlain" THEN @ + 1 ELSE @]
    /\ Up(<<Frame("SYN", 0)>>)
    /\ UNCHANGED <<protocol, dc, b, crtc, s, srtc, t, crashed>>

ClientConnecting ==
    /\ Alive /\ c.step = "syn_sent"
    /\ c' = [c EXCEPT !.phase = "Connecting",
                      !.step = IF protocol = "HttpPlain" THEN "connecting" ELSE "idle"]
    /\ UNCHANGED <<protocol, dc, c2s, s2c, b, crtc, s, srtc, t, crashed>>

(* A part of an HTTP head: kept until the rest of the head has come.       *)
ClientReadsPartOfHead ==
    /\ StrandFree /\ c.phase = "Handshake" /\ protocol = "HttpPlain"
    /\ c.read < b.sent /\ ~c.bad
    /\ c' = [c EXCEPT !.read = @ + 1, !.pending = Append(@, c.read + 1)]
    /\ UNCHANGED <<protocol, dc, c2s, s2c, b, crtc, s, srtc, t, crashed>>

(* consume_pending keeps the HTTP request only after feeding the parser.   *)
ClientKeepsRequest ==
    /\ Alive /\ c.step = "connecting"
    /\ c' = [c EXCEPT !.pending = Append(@, c.read), !.step = "idle"]
    /\ UNCHANGED <<protocol, dc, c2s, s2c, b, crtc, s, srtc, t, crashed>>

(* A malformed handshake or HTTP head: close the browser's socket.  The    *)
(* HTTP parser then refuses input, but the phase stays what it was.        *)
ClientRejects ==
    /\ StrandFree /\ c.phase = "Handshake" /\ ~c.bad
    /\ c' = [c EXCEPT !.phase = IF protocol = "Socks5Connect" THEN "Closed" ELSE @,
                      !.bad = protocol # "Socks5Connect",
                      !.out = Posted(c, Close)]
    /\ UNCHANGED <<protocol, dc, c2s, s2c, b, crtc, s, srtc, t, crashed>>

(* process_data: forwarded when Connected; Connecting drops it silently;   *)
(* Closed closes again.                                                    *)
ClientReads ==
    /\ StrandFree /\ c.phase # "Handshake" /\ c.read < b.sent
    /\ c' = [c EXCEPT !.read = @ + 1,
                      !.out = IF c.phase = "Closed" THEN Posted(c, Close) ELSE @]
    /\ Up(IF c.phase = "Connected" THEN <<Frame("DATA", c.read + 1)>> ELSE <<>>)
    /\ UNCHANGED <<protocol, dc, b, crtc, s, srtc, t, crashed>>

ClientWrites ==
    /\ StrandFree /\ c.out # <<>> /\ Head(c.out) # Close
    /\ b' = [b EXCEPT !.recv = Append(@, Head(c.out))]
    /\ c' = [c EXCEPT !.out = Tail(@)]
    /\ UNCHANGED <<protocol, dc, c2s, s2c, crtc, s, srtc, t, crashed>>

(* Faulty: close_session forgets the FIN.                                  *)
ClientSocketClosesSilently(aborting) ==
    /\ c' = [c EXCEPT !.closed = TRUE, !.aborted = aborting,
                      !.out = <<>>, !.erased = c.onClose]
    /\ UNCHANGED <<protocol, dc, c2s, s2c, b, crtc, s, srtc, t, crashed>>

(* do_close and the close callback: close_session sends FIN unless the     *)
(* peer already closed, and takes the session out of sessions_.            *)
ClientSocketCloses(aborting) ==
    /\ c' = [c EXCEPT !.closed = TRUE, !.aborted = aborting,
                      !.out = <<>>, !.erased = c.onClose]
    /\ Up(IF c.mux /\ ~c.p2pClosed THEN <<Frame("FIN", 0)>> ELSE <<>>)
    /\ UNCHANGED <<protocol, dc, b, crtc, s, srtc, t, crashed>>

ClientDrained ==
    /\ StrandFree /\ c.out # <<>> /\ Head(c.out) = Close
    /\ ClientSocketCloses(FALSE)

ClientReadFails ==
    /\ StrandFree /\ b.eof
    /\ ClientSocketCloses(TRUE)

(* The rest of the close callback: tcp_socket_.reset().                    *)
ClientResetsSocket ==
    /\ Alive /\ c.closed /\ c.ptr
    /\ c' = [c EXCEPT !.ptr = FALSE]
    /\ UNCHANGED <<protocol, dc, c2s, s2c, b, crtc, s, srtc, t, crashed>>

(* The last reference goes: ~Socks5Session leaves the SessionMux.          *)
ClientDestroyed ==
    /\ Alive /\ ~c.ptr /\ c.erased /\ c.mux /\ crtc = Idle
    /\ c' = [c EXCEPT !.mux = FALSE]
    /\ UNCHANGED <<protocol, dc, c2s, s2c, b, crtc, s, srtc, t, crashed>>

ClientStrand ==
    \/ ClientRequests
    \/ ClientConnecting
    \/ ClientReadsPartOfHead
    \/ ClientKeepsRequest
    \/ ClientReads
    \/ ClientWrites
    \/ ClientDrained
    \/ ClientReadFails
    \/ ClientResetsSocket
    \/ ClientDestroyed

-----------------------------------------------------------------------------
(* The client's rtc thread.                                                *)

(* on_p2p_data: look the session up and lock it, or drop the frame.        *)
ClientFinds ==
    /\ Alive /\ crtc = Idle /\ s2c # <<>>
    /\ crtc' = IF c.mux THEN Found(Head(s2c)) ELSE Idle
    /\ s2c' = Tail(s2c)
    /\ UNCHANGED <<protocol, dc, c2s, b, c, s, srtc, t, crashed>>

(* tcp_socket_->...: posts the item, or dereferences a null pointer.       *)
ClientUsesSocket(item) ==
    /\ c' = [c EXCEPT !.out = IF c.ptr THEN Posted(c, item) ELSE @]
    /\ crashed' = ~c.ptr

ClientData ==
    /\ Alive /\ crtc.type = "DATA" /\ ~c.bad
    /\ ClientUsesSocket(Chunk(crtc.val))
    /\ crtc' = Idle
    /\ UNCHANGED <<protocol, dc, c2s, s2c, b, s, srtc, t>>

(* The HTTP response parser rejects the data: close the browser's socket.  *)
ClientBadResponse ==
    /\ Alive /\ crtc.type = "DATA" /\ protocol = "HttpPlain" /\ ~c.bad
    /\ c' = [c EXCEPT !.bad = TRUE, !.out = IF c.ptr THEN Posted(c, Close) ELSE @]
    /\ crashed' = ~c.ptr
    /\ crtc' = Idle
    /\ UNCHANGED <<protocol, dc, c2s, s2c, b, s, srtc, t>>

(* A parser that failed ignores what it is fed.                            *)
ClientIgnoresData ==
    /\ Alive /\ crtc.type = "DATA" /\ c.bad
    /\ crtc' = Idle
    /\ UNCHANGED <<protocol, dc, c2s, s2c, b, c, s, srtc, t, crashed>>

(* p2p_synack: first the reply, which a positive plain HTTP answer         *)
(* replaces by the requests kept so far ...                                *)
ClientSynackReply ==
    /\ Alive /\ crtc.type = "SYNACK" /\ crtc.at = "found"
    /\ crtc' = [crtc EXCEPT !.at = "replied"]
    /\ IF protocol = "HttpPlain" /\ crtc.val = 0
       THEN /\ Up([i \in 1..Len(c.pending) |-> Frame("DATA", c.pending[i])])
            /\ c' = [c EXCEPT !.pending = <<>>]
            /\ UNCHANGED crashed
       ELSE /\ ClientUsesSocket(Reply(crtc.val = 0))
            /\ UNCHANGED <<c2s, s2c>>
    /\ UNCHANGED <<protocol, dc, b, s, srtc, t>>

(* ... then the phase, and after a refusal the close.                      *)
ClientSynackPhase ==
    /\ Alive /\ crtc.type = "SYNACK" /\ crtc.at = "replied"
    /\ IF crtc.val = 0
       THEN c' = [c EXCEPT !.phase = "Connected"] /\ UNCHANGED crashed
       ELSE /\ c' = [c EXCEPT !.phase = "Closed",
                              !.out = IF c.ptr THEN Posted(c, Close) ELSE @]
            /\ crashed' = ~c.ptr
    /\ crtc' = Idle
    /\ UNCHANGED <<protocol, dc, c2s, s2c, b, s, srtc, t>>

(* p2p_close tests tcp_socket_ ...                                         *)
ClientFinTest ==
    /\ Alive /\ crtc.type = "FIN" /\ crtc.at = "found"
    /\ c' = [c EXCEPT !.p2pClosed = TRUE]
    /\ crtc' = IF c.ptr THEN [crtc EXCEPT !.at = "checked"] ELSE Idle
    /\ UNCHANGED <<protocol, dc, c2s, s2c, b, s, srtc, t, crashed>>

(* Faulty: the FIN closes the browser's socket without draining it.        *)
ClientFinDiscards ==
    /\ Alive /\ crtc.type = "FIN" /\ crtc.at = "checked"
    /\ c' = [c EXCEPT !.out = IF c.ptr THEN <<Close>> ELSE @]
    /\ crashed' = ~c.ptr
    /\ crtc' = Idle
    /\ UNCHANGED <<protocol, dc, c2s, s2c, b, s, srtc, t>>

(* ... and then uses it.                                                   *)
ClientFinUse ==
    /\ Alive /\ crtc.type = "FIN" /\ crtc.at = "checked"
    /\ ClientUsesSocket(Close)
    /\ crtc' = Idle
    /\ UNCHANGED <<protocol, dc, c2s, s2c, b, s, srtc, t>>

ClientRtc ==
    \/ ClientFinds
    \/ ClientData
    \/ ClientIgnoresData
    \/ ClientSynackReply
    \/ ClientSynackPhase
    \/ ClientFinTest
    \/ ClientFinUse

-----------------------------------------------------------------------------
(* The server's rtc thread.                                                *)

(* on_syn: a TunnelSession, its session in the mux, its socket connecting. *)
ServerSyn ==
    /\ Alive /\ srtc = Idle /\ c2s # <<>> /\ Head(c2s).type = "SYN"
    /\ s' = [s EXCEPT !.dial = "resolving", !.iface = TRUE]
    /\ c2s' = Tail(c2s)
    /\ UNCHANGED <<protocol, dc, s2c, b, c, crtc, srtc, t, crashed>>

ServerFinds ==
    /\ Alive /\ srtc = Idle /\ c2s # <<>> /\ Head(c2s).type # "SYN"
    /\ srtc' = IF s.iface THEN Found(Head(c2s)) ELSE Idle
    /\ c2s' = Tail(c2s)
    /\ UNCHANGED <<protocol, dc, s2c, b, c, crtc, s, t, crashed>>

(* p2p_revData and close() use session_interface_, which the close         *)
(* function may have reset since the session was found.                    *)
ServerData ==
    /\ Alive /\ srtc.type = "DATA" /\ ~s.bad
    /\ s' = [s EXCEPT !.out = IF s.iface THEN Posted(s, Chunk(srtc.val)) ELSE @]
    /\ crashed' = ~s.iface
    /\ srtc' = Idle
    /\ UNCHANGED <<protocol, dc, c2s, s2c, b, c, crtc, t>>

(* HttpSession's request parser rejects the data and closes its socket     *)
(* without noting a close by the peer.                                     *)
ServerBadRequest ==
    /\ Alive /\ srtc.type = "DATA" /\ protocol = "HttpPlain" /\ ~s.bad
    /\ s' = IF s.iface THEN [s EXCEPT !.bad = TRUE, !.out = Posted(s, Close)]
                       ELSE s
    /\ crashed' = ~s.iface
    /\ srtc' = Idle
    /\ UNCHANGED <<protocol, dc, c2s, s2c, b, c, crtc, t>>

ServerIgnoresData ==
    /\ Alive /\ srtc.type = "DATA" /\ s.bad
    /\ crashed' = ~s.iface
    /\ srtc' = Idle
    /\ UNCHANGED <<protocol, dc, c2s, s2c, b, c, crtc, s, t>>

ServerFin ==
    /\ Alive /\ srtc.type = "FIN"
    /\ s' = IF s.iface
            THEN [s EXCEPT !.p2pClosed = TRUE, !.out = Posted(s, Close)]
            ELSE s
    /\ crashed' = ~s.iface
    /\ srtc' = Idle
    /\ UNCHANGED <<protocol, dc, c2s, s2c, b, c, crtc, t>>

ServerRtc == ServerSyn \/ ServerFinds \/ ServerData \/ ServerIgnoresData
               \/ ServerFin

-----------------------------------------------------------------------------
(* The server's strand.                                                    *)

(* Faulty: a name that does not resolve is not reported.                   *)
ServerResolvesQuietly(ok) ==
    /\ Alive /\ s.dial = "resolving"
    /\ s' = IF ok THEN [s EXCEPT !.dial = "connecting", !.fd = TRUE]
                  ELSE [s EXCEPT !.dial = "done"]
    /\ UNCHANGED <<protocol, dc, c2s, s2c, b, c, crtc, srtc, t, crashed>>

(* A close() while resolving does not stop async_connect from opening the  *)
(* descriptor afterwards.                                                  *)
ServerResolves(ok) ==
    /\ Alive /\ s.dial = "resolving"
    /\ s' = IF ok THEN [s EXCEPT !.dial = "connecting", !.fd = TRUE]
                  ELSE [s EXCEPT !.dial = "done"]
    /\ Down(IF ok THEN <<>> ELSE <<Frame("SYNACK", 1)>>)
    /\ UNCHANGED <<protocol, dc, b, c, crtc, srtc, t, crashed>>

(* Faulty: the SYNACK does not carry the outcome.                          *)
ServerConnectsOptimistically(ok) ==
    /\ Alive /\ s.dial = "connecting"
    /\ ok => s.fd
    /\ s' = [s EXCEPT !.dial = "done", !.connected = ok]
    /\ Down(<<Frame("SYNACK", 0)>>)
    /\ UNCHANGED <<protocol, dc, b, c, crtc, srtc, t, crashed>>

ServerConnects(ok) ==
    /\ Alive /\ s.dial = "connecting"
    /\ ok => s.fd
    /\ s' = [s EXCEPT !.dial = "done", !.connected = ok]
    /\ Down(<<Frame("SYNACK", IF ok THEN 0 ELSE 1)>>)
    /\ UNCHANGED <<protocol, dc, b, c, crtc, srtc, t, crashed>>

(* Faulty: the frame is made from a read buffer that was filled again.     *)
ServerReadsReusedBuffer ==
    /\ Alive /\ s.connected /\ s.fd /\ s.read < t.sent
    /\ s' = [s EXCEPT !.read = @ + 1]
    /\ Down(<<Frame("DATA", t.sent)>>)
    /\ UNCHANGED <<protocol, dc, b, c, crtc, srtc, t, crashed>>

ServerReads ==
    /\ Alive /\ s.connected /\ s.fd /\ s.read < t.sent
    /\ s' = [s EXCEPT !.read = @ + 1]
    /\ Down(<<Frame("DATA", s.read + 1)>>)
    /\ UNCHANGED <<protocol, dc, b, c, crtc, srtc, t, crashed>>

(* A chunk posted before the connection exists is dropped by send().       *)
ServerWrites ==
    /\ Alive /\ ~s.closed /\ s.out # <<>> /\ Head(s.out) # Close
    /\ s' = [s EXCEPT !.out = Tail(@)]
    /\ t' = IF s.connected THEN [t EXCEPT !.recv = Append(@, Head(s.out).val)] ELSE t
    /\ UNCHANGED <<protocol, dc, c2s, s2c, b, c, crtc, srtc, crashed>>

(* do_close, closeSession and TunnelSession's close function.              *)
ServerSocketCloses(failing) ==
    /\ s' = [s EXCEPT !.closed = TRUE, !.failed = failing, !.fd = FALSE,
                      !.out = <<>>, !.iface = FALSE]
    /\ Down(IF s.p2pClosed THEN <<>> ELSE <<Frame("FIN", 0)>>)
    /\ UNCHANGED <<protocol, dc, b, c, crtc, srtc, t, crashed>>

ServerDrained ==
    /\ Alive /\ ~s.closed /\ s.out # <<>> /\ Head(s.out) = Close
    /\ ServerSocketCloses(FALSE)

(* The target's end of stream, once everything before it was read.         *)
ServerReadsEof ==
    /\ Alive /\ ~s.closed /\ s.connected /\ t.eof /\ s.read = t.sent
    /\ ServerSocketCloses(FALSE)

(* The connection to the target breaks.                                    *)
ServerFails ==
    /\ Alive /\ ~s.closed /\ s.connected
    /\ ServerSocketCloses(TRUE)

ServerStrand ==
    \/ \E ok \in BOOLEAN : ServerResolves(ok) \/ ServerConnects(ok)
    \/ ServerReads
    \/ ServerWrites
    \/ ServerDrained
    \/ ServerReadsEof

-----------------------------------------------------------------------------
(* The system.                                                             *)

Environment ==
    \/ BrowserSends
    \/ BrowserCloses
    \/ TargetSends
    \/ TargetCloses
    \/ ServerFails
    \/ ClientRejects
    \/ ClientBadResponse
    \/ ServerBadRequest
    \/ ChannelOpens
    \/ Disconnect

System == ClientStrand \/ ClientRtc \/ ServerRtc \/ ServerStrand
            \/ ClientStops \/ ServerStops

Next == Environment \/ System

Spec == Init /\ [][Next]_vars

(* The worker threads and the rtc threads run what is ready, the kernel    *)
(* answers, the peers read what is written to them, the data channel of a  *)
(* peer connection opens, and the loss of the connection is reported.      *)
(* Nothing is assumed of what browser and target choose to do.             *)
Fairness ==
    /\ WF_vars(ClientStrand)
    /\ WF_vars(ClientRtc)
    /\ WF_vars(ServerRtc)
    /\ WF_vars(ServerStrand)
    /\ WF_vars(ClientStops)
    /\ WF_vars(ServerStops)
    /\ WF_vars(ChannelOpens)

FairSpec == Spec /\ Fairness

-----------------------------------------------------------------------------
(* Properties.                                                             *)

(* What came after the reply, or all of it when there was none.            *)
AfterReply(items) ==
    IF items # <<>> /\ Head(items).kind = "reply" THEN Tail(items) ELSE items

(* The browser sees a gap-free prefix of what the target sent, whatever    *)
(* the threads, the closes and the losses do in between (p2p_data, send).  *)
DownstreamPrefix ==
    LET got == AfterReply(b.recv)
    IN  Len(got) =< t.sent /\ \A i \in 1..Len(got) : got[i] = Chunk(i)

(* Nothing the browser sent reaches the target twice or out of order       *)
(* (process_data, http_connected, p2p_revData).                            *)
UpstreamInOrder ==
    /\ \A i, j \in 1..Len(t.recv) : i < j => t.recv[i] < t.recv[j]
    /\ \A i \in 1..Len(t.recv) : t.recv[i] =< b.sent

(* So the streams are kept apart from the turmoil around them.             *)
StreamsInOrder == DownstreamPrefix /\ UpstreamInOrder

(* A positive reply means that the target really was connected, comes at   *)
(* most once, and precedes every chunk (p2p_synack).                       *)
ReplyIsTrue ==
    /\ Contains(b.recv, Reply(TRUE)) => s.connected
    /\ \A i \in 1..Len(b.recv) : b.recv[i].kind = "reply" => i = 1
    /\ (protocol # "HttpPlain" /\ b.recv # <<>>) => Head(b.recv).kind = "reply"

(* When the target ends its stream in an orderly way, the browser's socket *)
(* is closed only after everything the target sent was written to it       *)
(* (do_read's FIN, p2p_close, TcpSocket::close).                           *)
OrderlyEndIsComplete ==
    (/\ c.closed /\ ~c.aborted
     /\ t.eof /\ ~s.failed /\ ~s.bad /\ ~c.bad /\ ~b.eof /\ dc = "open")
       => Len(AfterReply(b.recv)) = t.sent

(* Once either end is closed or the peer connection is lost, both sockets  *)
(* are closed in the end (close_session, closeSession, the FIN frames,     *)
(* SocksServer::stop).                                                     *)
BothEndsRelease ==
    (b.eof \/ (t.eof /\ s.connected) \/ dc = "closed")
       ~> \/ crashed
          \/ c.closed /\ (s.dial = "none" \/ s.closed)

(* A browser that asked for a connection is answered or let go, if the     *)
(* data channel carried the request (SYN, SYNACK, p2p_synack).             *)
RequestIsAnswered ==
    (protocol # "HttpPlain" /\ Contains(c2s, Frame("SYN", 0)))
       ~> (crashed \/ c.closed \/ b.recv # <<>>)

(* tcp_socket.h: send() and close() may be called from any thread.  The    *)
(* sessions do so through pointers another thread resets.                  *)
NoNullDereference == ~crashed

=============================================================================
