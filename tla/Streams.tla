------------------------------ MODULE Streams ------------------------------
(***************************************************************************)
(* Many connections over one link: the tables that say whose a number is.  *)
(*                                                                         *)
(* The client numbers its connections twice.  SessionIdGenerator counts    *)
(* session ids, the keys of SocksServer::sessions_, through which stop()   *)
(* closes what is open.  SessionManager draws stream ids, the keys of the  *)
(* SessionMux on either side and of the server's tunnel_sessions_, which   *)
(* every frame carries.  Tunnel follows one connection in detail; here     *)
(* there are several, and a connection is its place in those tables.       *)
(*                                                                         *)
(* A connection asks for a target once; the plain HTTP requests that one   *)
(* read brings ask once each, every time with a stream of its own.  What   *)
(* was asked for is a request, and the server's TunnelSession is named by  *)
(* the request whose SYN made it.  What a frame does to a session whose    *)
(* socket has already gone is Tunnel's subject; here it does nothing.      *)
(***************************************************************************)
EXTENDS Naturals, Sequences, FiniteSets, Functions

CONSTANTS
    Browsers,       \* connections to the SOCKS port
    UdpBrowsers,    \* those that ask for UDP ASSOCIATE
    MaxRequests,    \* bound: HTTP requests that one read brings
    MaxAsked,       \* bound: requests made, on all connections
    StreamIds,      \* what gen_stream_id draws from (1..0xFFFFFFFE)
    LastId,         \* the last session id before the wrap (65536)
    MaxFrames,      \* bound: frames under way, either way
    MaxEvents       \* bound: chunks sent, stop() and the link's end, in all

ASSUME StreamsAssumption ==
    /\ UdpBrowsers \subseteq Browsers
    /\ MaxRequests \in Nat \ {0} /\ MaxAsked \in Nat
    /\ StreamIds \subseteq Nat \ {0}
    /\ LastId \in Nat \ {0}
    /\ MaxFrames \in Nat \ {0} /\ MaxEvents \in Nat

VARIABLES
    id_,        \* SessionIdGenerator::id_
    listening,  \* "yes", "late" (a last accept has completed), "no"
    sessions,   \* SocksServer::sessions_: session id -> browser
    conn,       \* browser -> its Socks5Session
    mux,        \* the client's SessionManager: stream id -> request
    up, down,   \* the data channel, either way
    link,       \* it is open
    events,     \* how many of them there were
    smux,       \* the server's SessionManager: stream id -> request
    tunnels,    \* tunnel_sessions_: stream id -> request
    inst,       \* request -> the TunnelSession made for it
    stopping,   \* SocksServer::stop() and the session id it has come to
    closing,    \* the server's loop on Closed and the stream id it has come to
    drawn,      \* history: request -> the stream drawn for it, or 0
    raced,      \* history: stream ids drawn when another had drawn and not yet
                \*   entered them
    replaced,   \* history: sessions whose entry in sessions_ another took
    disturbed,  \* history: the loops whose table was changed under them
    strayed     \* history: frames that reached another's end

clientVars == <<id_, listening, sessions, conn, mux, stopping>>
serverVars == <<smux, tunnels, inst, closing>>
history    == <<drawn, raced, replaced, disturbed, strayed>>
vars == <<clientVars, serverVars, history, up, down, link, events>>

(* The requests of a connection are numbered as they are made.             *)
Requests == Browsers \X (1..MaxRequests)
Request(b, k) == <<b, k>>
BrowserOf(r) == r[1]

NoTable == [k \in {} |-> {}]
Put(table, k, v) == [i \in DOMAIN table \cup {k} |-> IF i = k THEN v ELSE table[i]]
Erase(table, k) == Restrict(table, DOMAIN table \ {k})

(* asked: the socket was told to close; late: accepted when stop() had     *)
(* been called, entered when the walk over the tunnels had ended; made:    *)
(* how many requests were; stream: that of session_.                       *)
NoConn == [st |-> "none", late |-> FALSE, asked |-> FALSE, sid |-> 0, stream |-> 0,
           made |-> 0, p2pClosed |-> FALSE, onClose |-> TRUE]
NoInst == [st |-> "none", late |-> FALSE, asked |-> FALSE, stream |-> 0,
           p2pClosed |-> FALSE]

(* Nothing has happened yet; or the first session is still there when      *)
(* LastId - 1 more have come and gone, and the next id is its own.         *)
Init ==
    /\ \/ /\ id_ = 0 /\ sessions = NoTable
          /\ conn = [b \in Browsers |-> NoConn]
       \/ \E first \in Browsers :
             /\ id_ = LastId /\ sessions = Put(NoTable, 1, first)
             /\ conn = [b \in Browsers |-> IF b = first
                          THEN [NoConn EXCEPT !.st = "accepted", !.sid = 1] ELSE NoConn]
    /\ listening = "yes"
    /\ mux = NoTable /\ smux = NoTable /\ tunnels = NoTable
    /\ inst = [r \in Requests |-> NoInst]
    /\ up = <<>> /\ down = <<>> /\ link = TRUE /\ events = 0
    /\ stopping = [st |-> "no", at |-> 0] /\ closing = [st |-> "no", at |-> 0]
    /\ drawn = [r \in Requests |-> 0]
    /\ raced = {} /\ replaced = {} /\ disturbed = {} /\ strayed = {}

Frame(type, stream, r) == [type |-> type, stream |-> stream, from |-> r]

(* send_func_: what is sent on a closed channel is lost.                   *)
SendUp(f) ==
    /\ Len(up) + Len(down) < MaxFrames
    /\ up' = IF link THEN Append(up, f) ELSE up

SendDown(f) ==
    /\ Len(up) + Len(down) < MaxFrames
    /\ down' = IF link THEN Append(down, f) ELSE down

(* A table changes, perhaps while a loop runs over it without the lock.    *)
Disturb(loop, name) ==
    disturbed' = IF loop.st = "on" THEN disturbed \cup {name} ELSE disturbed

-----------------------------------------------------------------------------
(* The client.                                                             *)

create_session_id == (IF id_ > LastId - 1 THEN 0 ELSE id_) + 1

(* do_accept's handler.  One that had completed when stop() closed the     *)
(* acceptor still runs.                                                    *)
Accept(b) ==
    /\ listening # "no" /\ conn[b].st = "none"
    /\ id_' = create_session_id
    /\ sessions' = Put(sessions, create_session_id, b)
    /\ conn' = [conn EXCEPT ![b].st = "accepted", ![b].sid = create_session_id,
                         ![b].late = listening = "late"]
    /\ listening' = IF listening = "late" THEN "no" ELSE listening
    /\ replaced' = replaced \cup {sessions[i] : i \in DOMAIN sessions \cap {create_session_id}}
    /\ Disturb(stopping, "stop")
    /\ UNCHANGED <<mux, stopping, serverVars, drawn, raced, strayed, up, down, link, events>>

(* The request that session_ belongs to.                                   *)
Current(b) == Request(b, conn[b].made)

Drawn(s, b) ==
    /\ conn' = [conn EXCEPT ![b].st = "drew", ![b].stream = s, ![b].made = @ + 1]
    /\ drawn' = [drawn EXCEPT ![Request(b, conn[b].made + 1)] = s]
    /\ raced' = raced \cup {conn[c].stream : c \in
                    {c \in Browsers : conn[c].st = "drew" /\ conn[c].stream = s}}

\* faulty: the number is not looked up
gen_stream_id_blind(b) ==
    \E s \in StreamIds : Drawn(s, b)

(* Within the bound on what is asked, counting those who will.             *)
Room ==
    Cardinality({r \in Requests : drawn[r] # 0})
        + Cardinality({b \in Browsers : conn[b].st = "next"}) < MaxAsked

(* gen_stream_id gives a number that is not in the table, and lets go of   *)
(* the lock.                                                               *)
gen_stream_id(b) ==
    \E s \in StreamIds \ DOMAIN mux : Drawn(s, b)

(* request_remote_connect, on the session's own thread, up to there: what  *)
(* was asked for before it is forgotten, but for its place in the table    *)
(* and what its frames do ...                                              *)
RequestRemoteConnect(b) ==
    /\ \/ conn[b].st = "accepted" /\ ~conn[b].asked /\ Room
       \/ conn[b].st = "next"
    /\ gen_stream_id(b)
    /\ UNCHANGED <<id_, listening, sessions, mux, stopping, serverVars, replaced,
                   disturbed, strayed, up, down, link, events>>

(* ... and from there: create_session takes the lock again, and a SYN.     *)
(* The read may hold another HTTP request, and nothing but frames comes    *)
(* between.                                                                *)
MoreRequests(b) == b \notin UdpBrowsers /\ conn[b].made < MaxRequests /\ Room

create_session(b) ==
    /\ conn[b].st = "drew"
    /\ mux' = Put(mux, conn[b].stream, Current(b))
    /\ \/ conn' = [conn EXCEPT ![b].st = "open"]
       \/ MoreRequests(b) /\ conn' = [conn EXCEPT ![b].st = "next"]
    /\ SendUp(Frame("SYN", conn[b].stream, Current(b)))
    /\ UNCHANGED <<id_, listening, sessions, stopping, serverVars, history, down, link, events>>

\* faulty: every kind of connection names the session
StreamToSendBySession(b) == conn[b].sid

(* UdpSession was given the session id and sends on that.                  *)
StreamToSend(b) == IF b \in UdpBrowsers THEN conn[b].sid ELSE conn[b].stream

SendData(b) ==
    /\ conn[b].st = "connected" /\ ~conn[b].asked /\ events < MaxEvents
    /\ events' = events + 1
    /\ SendUp(Frame("DATA", StreamToSend(b), Current(b)))
    /\ UNCHANGED <<clientVars, serverVars, history, down, link>>

Live(b) == conn[b].st \in {"accepted", "drew", "next", "open", "connected"}

(* The browser hangs up.                                                   *)
BrowserCloses(b) ==
    /\ Live(b) /\ ~conn[b].asked
    /\ conn' = [conn EXCEPT ![b].asked = TRUE]
    /\ UNCHANGED <<id_, listening, sessions, mux, stopping, serverVars, history, up, down, link, events>>

(* The socket's close callback, close_session: FIN if there is a stream    *)
(* that the peer has not closed, then the callback of do_accept, which     *)
(* erases whatever its number leads to.                                    *)
CloseSession(b) ==
    /\ conn[b].asked /\ conn[b].st \in {"accepted", "open", "connected"}
    /\ IF conn[b].stream # 0 /\ ~conn[b].p2pClosed
       THEN SendUp(Frame("FIN", conn[b].stream, Current(b)))
       ELSE UNCHANGED up
    /\ sessions' = IF conn[b].onClose THEN Erase(sessions, conn[b].sid) ELSE sessions
    /\ conn' = [conn EXCEPT ![b].st = "closed"]
    /\ replaced' = replaced \cup
          ({sessions[i] : i \in DOMAIN sessions \ DOMAIN sessions'} \ {b})
    /\ IF conn[b].onClose THEN Disturb(stopping, "stop") ELSE UNCHANGED disturbed
    /\ UNCHANGED <<id_, listening, mux, stopping, serverVars, drawn, raced, strayed,
                   down, link, events>>

(* ~Socks5Session, once nothing refers to it: remove_session of the last   *)
(* stream it asked for, whoever that now belongs to.                       *)
Destroy(b) ==
    /\ conn[b].st = "closed"
    /\ \A i \in DOMAIN sessions : sessions[i] # b
    /\ conn' = [conn EXCEPT ![b].st = "destroyed"]
    /\ mux' = IF conn[b].stream # 0 THEN Erase(mux, conn[b].stream) ELSE mux
    /\ UNCHANGED <<id_, listening, sessions, stopping, serverVars, history, up, down, link, events>>

(* on_p2p_data: the frame goes to the session its number leads to, or      *)
(* nowhere.  On the client that is a browser's session, whichever of its   *)
(* requests the number stands for.  The library hands on what it had       *)
(* received when the link goes, or drops it.                               *)
Strays(f, table) ==
    strayed' = strayed \cup {[frame |-> f, to |-> table[s]] : s \in
                   {s \in DOMAIN table \cap {f.stream} : table[s] # f.from}}

p2p_synack(b) ==
    [conn EXCEPT ![b].st = IF @ = "open" THEN "connected" ELSE @]

p2p_nak(b) == [conn EXCEPT ![b].asked = TRUE]

p2p_close(b) == [conn EXCEPT ![b].asked = TRUE, ![b].p2pClosed = TRUE]

Received(b, f) ==
    CASE f.type = "SYNACK" -> p2p_synack(b)
      [] f.type = "NAK" -> p2p_nak(b)
      [] f.type = "FIN" -> p2p_close(b)
      [] OTHER -> conn

ClientReceives ==
    /\ down # <<>>
    /\ LET f == Head(down)
           b == BrowserOf(mux[f.stream])
       IN  /\ down' = Tail(down)
           /\ conn' = IF f.stream \in DOMAIN mux /\ conn[b].st # "destroyed"
                      THEN Received(b, f)
                      ELSE conn
           /\ Strays(f, mux)
    /\ UNCHANGED <<id_, listening, sessions, mux, stopping, serverVars, drawn, raced,
                   replaced, disturbed, up, link, events>>

-----------------------------------------------------------------------------
(* SocksServer::stop().                                                    *)

\* faulty: the acceptor stays open
StopListeningOn ==
    /\ stopping.st = "no" /\ events < MaxEvents /\ events' = events + 1
    /\ stopping' = [st |-> "on", at |-> 0]
    /\ UNCHANGED <<id_, listening, sessions, conn, mux, serverVars, history, up, down, link>>

Stop ==
    /\ stopping.st = "no" /\ events < MaxEvents /\ events' = events + 1
    /\ stopping' = [st |-> "on", at |-> 0]
    /\ listening' \in {"late", "no"}
    /\ UNCHANGED <<id_, sessions, conn, mux, serverVars, history, up, down, link>>

(* set_on_close(nullptr) and close().                                      *)
CloseQuietly(b) == conn' = [conn EXCEPT ![b].onClose = FALSE, ![b].asked = TRUE]

\* faulty: the loop's iterator is advanced twice
AheadSkipping(table, loop) == {i \in DOMAIN table : i > loop.at + 1}

Ahead(table, loop) == {i \in DOMAIN table : i > loop.at}

Lowest(S) == CHOOSE i \in S : \A j \in S : i =< j

StopNext ==
    /\ stopping.st = "on" /\ Ahead(sessions, stopping) # {}
    /\ LET i == Lowest(Ahead(sessions, stopping))
       IN  stopping' = [stopping EXCEPT !.at = i] /\ CloseQuietly(sessions[i])
    /\ UNCHANGED <<id_, listening, sessions, mux, serverVars, history, up, down, link, events>>

(* The loop is through; or the map was changed under it, and it ends       *)
(* wherever its iterator led.                                              *)
StopEnds ==
    /\ stopping.st = "on"
    /\ Ahead(sessions, stopping) = {} \/ "stop" \in disturbed
    /\ stopping' = [stopping EXCEPT !.st = "done"]
    /\ UNCHANGED <<id_, listening, sessions, conn, mux, serverVars, history, up, down, link, events>>

-----------------------------------------------------------------------------
(* The server.                                                             *)

(* on_syn_, on the thread that brings the frames: a TunnelSession, entered *)
(* in tunnel_sessions_ whatever was there, while the walk on Closed may be *)
(* on or over ...                                                          *)
on_syn(f) ==
    /\ tunnels' = Put(tunnels, f.stream, f.from)
    /\ inst' = [inst EXCEPT ![f.from].st = "listed", ![f.from].stream = f.stream,
                            ![f.from].late = closing.st = "done"]
    /\ Disturb(closing, "closed")

(* ... and then, in the same call, TunnelSession::start: it is entered in  *)
(* the SessionMux and its socket is given the close callback.  Told to     *)
(* close in between, the socket may have closed without one, and nothing   *)
(* takes the tunnel out of the tables again.                               *)
TunnelStarts(i) ==
    /\ inst[i].st = "listed"
    /\ smux' = Put(smux, inst[i].stream, i)
    /\ \/ inst' = [inst EXCEPT ![i].st = "connecting"]
       \/ inst[i].asked /\ inst' = [inst EXCEPT ![i].st = "deaf"]
    /\ UNCHANGED <<clientVars, tunnels, closing, history, up, down, link, events>>

(* TunnelSession::close: the peer has closed, no FIN goes back.            *)
stop(i) == [inst EXCEPT ![i].asked = TRUE, ![i].p2pClosed = TRUE]

ServerReceives ==
    /\ up # <<>>
    /\ \A i \in Requests : inst[i].st # "listed"
    /\ LET f == Head(up)
       IN  /\ up' = Tail(up)
           /\ IF f.type = "SYN"
              THEN on_syn(f) /\ UNCHANGED strayed
              ELSE /\ inst' = IF f.type = "FIN" /\ f.stream \in DOMAIN smux
                              THEN stop(smux[f.stream])
                              ELSE inst
                   /\ Strays(f, smux)
                   /\ UNCHANGED <<tunnels, disturbed>>
    /\ UNCHANGED <<clientVars, smux, closing, drawn, raced, replaced, down, link, events>>

TargetConnects(i) ==
    /\ inst[i].st = "connecting" /\ ~inst[i].asked
    /\ inst' = [inst EXCEPT ![i].st = "connected"]
    /\ SendDown(Frame("SYNACK", inst[i].stream, i))
    /\ UNCHANGED <<clientVars, smux, tunnels, closing, history, up, link, events>>

TargetRefuses(i) ==
    /\ inst[i].st = "connecting" /\ ~inst[i].asked
    /\ inst' = [inst EXCEPT ![i].st = "connected", ![i].asked = TRUE]
    /\ SendDown(Frame("NAK", inst[i].stream, i))
    /\ UNCHANGED <<clientVars, smux, tunnels, closing, history, up, link, events>>

TargetSends(i) ==
    /\ inst[i].st = "connected" /\ ~inst[i].asked /\ events < MaxEvents
    /\ events' = events + 1
    /\ SendDown(Frame("DATA", inst[i].stream, i))
    /\ UNCHANGED <<clientVars, serverVars, history, up, link>>

(* A UDP socket has no end of its own.                                     *)
TargetCloses(i) ==
    /\ inst[i].st = "connected" /\ ~inst[i].asked /\ BrowserOf(i) \notin UdpBrowsers
    /\ inst' = [inst EXCEPT ![i].asked = TRUE]
    /\ UNCHANGED <<clientVars, smux, tunnels, closing, history, up, down, link, events>>

\* faulty: tunnel_sessions_ keeps the entry
CloseTunnelKeeping(i) ==
    /\ inst[i].asked /\ inst[i].st \in {"connecting", "connected"}
    /\ IF inst[i].p2pClosed THEN UNCHANGED down
                            ELSE SendDown(Frame("FIN", inst[i].stream, i))
    /\ inst' = [inst EXCEPT ![i].st = "closed"]
    /\ smux' = Erase(smux, inst[i].stream)
    /\ UNCHANGED <<clientVars, tunnels, closing, history, up, link, events>>

(* The socket's close callback, closeSession: FIN unless the peer has      *)
(* closed, then close_func_, on a worker thread: both tables let go of     *)
(* the stream, whoever it now belongs to.                                  *)
CloseTunnel(i) ==
    /\ inst[i].asked /\ inst[i].st \in {"connecting", "connected"}
    /\ IF inst[i].p2pClosed THEN UNCHANGED down
                            ELSE SendDown(Frame("FIN", inst[i].stream, i))
    /\ inst' = [inst EXCEPT ![i].st = "closed"]
    /\ smux' = Erase(smux, inst[i].stream)
    /\ tunnels' = Erase(tunnels, inst[i].stream)
    /\ Disturb(closing, "closed")
    /\ UNCHANGED <<clientVars, closing, drawn, raced, replaced, strayed, up, link, events>>

(* The link goes, and with it any of what had not been handed over.        *)
LinkCloses ==
    /\ link
    /\ events < MaxEvents /\ events' = events + 1
    /\ link' = FALSE
    /\ UNCHANGED <<clientVars, serverVars, history, up, down>>

UpIsLost ==
    /\ ~link /\ up # <<>> /\ up' = <<>>
    /\ UNCHANGED <<clientVars, serverVars, history, down, link, events>>

DownIsLost ==
    /\ ~link /\ down # <<>> /\ down' = <<>>
    /\ UNCHANGED <<clientVars, serverVars, history, up, link, events>>

(* onStateChange(Closed), on a thread of the rtc library: every entry of   *)
(* tunnel_sessions_ is closed, in order, without a lock.                   *)
OnClosed ==
    /\ ~link /\ closing.st = "no"
    /\ closing' = [st |-> "on", at |-> 0]
    /\ UNCHANGED <<clientVars, smux, tunnels, inst, history, up, down, link, events>>

ClosedNext ==
    /\ closing.st = "on" /\ Ahead(tunnels, closing) # {}
    /\ LET s == Lowest(Ahead(tunnels, closing))
       IN  closing' = [closing EXCEPT !.at = s] /\ inst' = stop(tunnels[s])
    /\ UNCHANGED <<clientVars, smux, tunnels, history, up, down, link, events>>

ClosedEnds ==
    /\ closing.st = "on"
    /\ Ahead(tunnels, closing) = {} \/ "closed" \in disturbed
    /\ closing' = [closing EXCEPT !.st = "done"]
    /\ UNCHANGED <<clientVars, smux, tunnels, inst, history, up, down, link, events>>

-----------------------------------------------------------------------------
Next ==
    \/ \E b \in Browsers :
          \/ Accept(b) \/ RequestRemoteConnect(b) \/ create_session(b)
          \/ SendData(b) \/ BrowserCloses(b) \/ CloseSession(b) \/ Destroy(b)
    \/ \E i \in Requests :
          \/ TunnelStarts(i) \/ TargetConnects(i) \/ TargetRefuses(i)
          \/ TargetSends(i) \/ TargetCloses(i) \/ CloseTunnel(i)
    \/ ClientReceives \/ ServerReceives
    \/ Stop \/ StopNext \/ StopEnds
    \/ LinkCloses \/ UpIsLost \/ DownIsLost
    \/ OnClosed \/ ClosedNext \/ ClosedEnds

Spec == Init /\ [][Next]_vars

-----------------------------------------------------------------------------
(* Properties.                                                             *)

(* The streams that were drawn for two requests.                           *)
Redrawn ==
    {s \in StreamIds : \E r \in Requests : drawn[r] = s /\ \E q \in Requests \ {r} : drawn[q] = s}

(* What is sent for one request reaches another's target, and what comes   *)
(* from its target another's browser, only on a stream id that was drawn   *)
(* again; but a UDP datagram, sent under the session id, goes to whatever  *)
(* stream has that number (SessionMux::on_p2p_data and everything that     *)
(* sends on a stream; UdpSession::send_ipv4).                              *)
RoutedToOwner ==
    \A w \in strayed :
        \/ w.frame.stream \in Redrawn
        \/ BrowserOf(w.frame.from) \in UdpBrowsers /\ w.frame.type = "DATA"
           /\ w.frame.stream = conn[BrowserOf(w.frame.from)].sid

(* One stream id stands for two requests of open connections only if it    *)
(* was drawn for one while another had drawn it and not yet entered it in  *)
(* the table (gen_stream_id and create_session, which take the lock one    *)
(* after the other).                                                       *)
SharedOnlyIfRaced ==
    \A r \in Requests : drawn[r] \notin raced \cup {0} =>
        \A q \in Requests \ {r} : drawn[q] = drawn[r] =>
            ~(Live(BrowserOf(r)) /\ Live(BrowserOf(q)))

(* When stop() has returned, every session was told to close, except one   *)
(* whose entry another session took or erased under the same wrapped id,   *)
(* one accepted too late for the loop, and any when the map was changed    *)
(* under it (SocksServer::stop, SessionIdGenerator::create_session_id,     *)
(* Socks5Session::start).                                                  *)
StopReachesAll ==
    stopping.st = "done" =>
        \A b \in Browsers : Live(b) =>
            conn[b].asked \/ conn[b].late \/ b \in replaced \/ "stop" \in disturbed

(* When the server's walk on Closed is over, every tunnel was told to      *)
(* close, except one entered after it, one whose entry another took when   *)
(* its stream was drawn again, and any when a SYN or the end of a tunnel   *)
(* changed the map under it (onStateChange and on_syn, on two threads, and *)
(* close_func_ on a third).                                                *)
ClosedReachesAll ==
    closing.st = "done" =>
        \A i \in Requests : inst[i].st \notin {"none", "closed"} =>
            \/ inst[i].asked \/ inst[i].late
            \/ inst[i].stream \in Redrawn \/ "closed" \in disturbed

(* When every browser has gone, no frame is under way and no target is     *)
(* about to answer or to close, what is left in the tables is known.  On   *)
(* the client: the streams that a browser's later requests replaced.  On   *)
(* the server, while there is a link: tunnels of a browser that made       *)
(* several requests, which sent one FIN.  When the link has gone: tunnels  *)
(* entered after the walk or missed by a disturbed one, which nobody told, *)
(* and those told to close before they had a close callback.  There is     *)
(* nothing else: then the server's timer, which waits for tunnel_sessions_ *)
(* to be empty, ends (~Socks5Session, TunnelSession::init, on_syn,         *)
(* Socks5Session::start).                                                  *)
Quiet ==
    /\ \A b \in Browsers : conn[b].st \in {"none", "destroyed"}
    /\ up = <<>> /\ down = <<>>
    /\ \A i \in Requests : inst[i].asked => inst[i].st \in {"closed", "deaf"}
    /\ link \/ closing.st = "done"

MayStay(i) ==
    IF link THEN conn[BrowserOf(i)].made > 1
            ELSE inst[i].st = "deaf" \/ inst[i].late \/ "closed" \in disturbed

EverythingIsReleased ==
    (Quiet /\ Redrawn = {}) =>
       /\ DOMAIN sessions = {}
       /\ \A s \in DOMAIN mux : mux[s] # Current(BrowserOf(mux[s]))
       /\ \A s \in DOMAIN smux : MayStay(smux[s])
       /\ \A s \in DOMAIN tunnels : MayStay(tunnels[s])
       /\ \A i \in Requests : inst[i].st \notin {"none", "closed"} => MayStay(i)
=============================================================================
