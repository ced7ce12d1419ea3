----------------------------- MODULE ClientApp -----------------------------
(***************************************************************************)
(* The client program: main, NetworkRtcApp and SocksServer on top of its   *)
(* P2PController.  The link's callbacks start and stop the acceptor while  *)
(* the worker threads run its completion handlers and the main thread may  *)
(* be shutting down.                                                       *)
(*                                                                         *)
(* A browser's Socks5Session appears as a member of one of the four counts *)
(* of sessions; Tunnel says what happens inside.                           *)
(***************************************************************************)
EXTENDS P2PController

CONSTANT MaxBrowsers    \* bound on the connections the browser opens

ASSUME MaxBrowsersIsNat == MaxBrowsers \in Nat

VARIABLES
    acceptor,   \* acceptor_: "fresh", "open" (bind failed), "listening", "closed"
    accept,     \* how many accepts are pending, or completed which way
    live,       \* sessions SocksServer::stop has not closed,
    associated, \*   and those that have opened a UDP socket
    stopping,   \* sessions it has closed,
    stranded,   \*   and those whose UDP socket is left open
    arrived,    \* connections so far
    running,    \* main's flag
    main        \* "waiting", "stopping", "joining" or "exited"

sessionVars == <<live, associated, stopping, stranded>>
appVars == <<acceptor, accept, sessionVars, arrived, running, main>>
clientVars == <<linkVars, appVars>>

AcceptStates == {"pending", "accepted", "aborted", "error"}
NoAccept == [a \in AcceptStates |-> 0]

ClientInit ==
    /\ LinkInit /\ role = "client"
    /\ acceptor = "fresh" /\ accept = NoAccept
    /\ live = 0 /\ associated = 0 /\ stopping = 0 /\ stranded = 0 /\ arrived = 0
    /\ running = TRUE
    /\ main = "waiting"

-----------------------------------------------------------------------------
(* SocksServer.                                                            *)

(* start: open, bind, listen and the first accept.  An acceptor that is    *)
(* open already, or a port in use, raises an exception, which skips the    *)
(* rest of the link's Connected handler.                                   *)
ServerStarts ==
    /\ acceptor \in {"fresh", "closed"}
    /\ acceptor' = "listening"
    /\ accept' = [accept EXCEPT !["pending"] = @ + 1]
    /\ UNCHANGED <<sessionVars, arrived>>

(* stop: close the acceptor, then every session listed.  Their on_close is *)
(* cleared first, so they stay listed and are not destroyed; a UDP socket  *)
(* would be closed by the destructor.                                      *)
ServerStopped ==
    /\ acceptor' = IF acceptor = "fresh" THEN "fresh" ELSE "closed"
    /\ accept' = [accept EXCEPT !["pending"] = 0,
                                !["aborted"] = @ + accept["pending"]]
    /\ live' = 0 /\ stopping' = stopping + live
    /\ associated' = 0 /\ stranded' = stranded + associated
    /\ UNCHANGED arrived

(* main waits for the worker threads, so they run until it exits.          *)
Runs == main # "exited"

(* An accept in one state is now in another.                               *)
AcceptGoes(from, to) ==
    /\ accept[from] > 0
    /\ accept' = [accept EXCEPT ![from] = @ - 1, ![to] = @ + 1]

(* A browser connects, and an accept completes.                            *)
BrowserConnects ==
    /\ Runs /\ arrived < MaxBrowsers
    /\ AcceptGoes("pending", "accepted")
    /\ arrived' = arrived + 1
    /\ UNCHANGED <<linkVars, acceptor, sessionVars, running, main>>

(* Too many open files, say: any other error.                              *)
AcceptFails ==
    /\ Runs
    /\ AcceptGoes("pending", "error")
    /\ UNCHANGED <<linkVars, acceptor, sessionVars, arrived, running, main>>

(* do_accept on a closed acceptor fails at once with bad_descriptor, which *)
(* is not operation_aborted.                                               *)
DoAcceptAfter(completed) ==
    IF acceptor = "listening" THEN AcceptGoes(completed, "pending")
    ELSE IF completed = "error" THEN accept[completed] > 0 /\ UNCHANGED accept
    ELSE AcceptGoes(completed, "error")

RunAccepted ==
    /\ Runs
    /\ DoAcceptAfter("accepted")
    /\ live' = live + 1
    /\ UNCHANGED <<linkVars, acceptor, associated, stopping, stranded, arrived,
                   running, main>>

RunAcceptAborted ==
    /\ Runs /\ accept["aborted"] > 0
    /\ accept' = [accept EXCEPT !["aborted"] = @ - 1]
    /\ UNCHANGED <<linkVars, acceptor, sessionVars, arrived, running, main>>

RunAcceptError ==
    /\ Runs
    /\ DoAcceptAfter("error")
    /\ UNCHANGED <<linkVars, acceptor, sessionVars, arrived, running, main>>

(* Only sessions change.                                                   *)
SessionStep == Runs /\ UNCHANGED <<linkVars, acceptor, accept, arrived, running, main>>

(* A session ends: because its browser or its target closes ...            *)
SessionEnds ==
    /\ SessionStep /\ live > 0
    /\ live' = live - 1
    /\ UNCHANGED <<associated, stopping, stranded>>

AssociationEnds ==
    /\ SessionStep /\ associated > 0
    /\ associated' = associated - 1
    /\ UNCHANGED <<live, stopping, stranded>>

(* ... or because it was stopped.                                          *)
StoppedSessionEnds ==
    /\ SessionStep /\ stopping > 0
    /\ stopping' = stopping - 1
    /\ UNCHANGED <<live, associated, stranded>>

(* udp_connected: the answer to UDP ASSOCIATE opens a socket, on a session *)
(* that was stopped meanwhile as on any other: it is listed, so it is      *)
(* still there.                                                            *)
UdpAssociates ==
    /\ SessionStep /\ live > 0
    /\ live' = live - 1 /\ associated' = associated + 1
    /\ UNCHANGED <<stopping, stranded>>

StoppedAssociates ==
    /\ SessionStep /\ stopping > 0
    /\ stopping' = stopping - 1 /\ stranded' = stranded + 1
    /\ UNCHANGED <<live, associated>>

(* Nothing but an error ends the receive of such a socket.                 *)
StrandedFails ==
    /\ SessionStep /\ stranded > 0
    /\ stranded' = stranded - 1
    /\ UNCHANGED <<live, associated, stopping>>

-----------------------------------------------------------------------------
(* NetworkRtcApp's state callback.                                         *)

LinkConnected ==
    /\ Runs /\ RunPcConnected
    /\ ServerStarts
    /\ UNCHANGED <<running, main>>

(* start raised: the callback returns without setting p2p_connected_; an   *)
(* acceptor that could not be bound stays open.                            *)
LinkConnectedInVain ==
    /\ Runs /\ RunPcConnectedThrows
    /\ acceptor' = IF acceptor = "listening" THEN "listening" ELSE "open"
    /\ UNCHANGED <<accept, sessionVars, arrived, running, main>>

\* faulty: a Closed that follows another is taken for a repetition
LinkClosedOnce ==
    /\ Runs /\ RunPcClosed
    /\ IF running THEN ServerStopped
                  ELSE UNCHANGED <<acceptor, accept, sessionVars, arrived>>
    /\ running' = FALSE
    /\ UNCHANGED main

(* Closed stops the server and tells main (close_callback_).               *)
LinkClosed ==
    /\ Runs /\ RunPcClosed
    /\ ServerStopped
    /\ running' = FALSE
    /\ UNCHANGED main

\* faulty: a link that never came up is not reported to main
WsClosedTestedQuietly ==
    /\ Runs /\ RunWsClosedTest
    /\ IF p2p_connected
       THEN UNCHANGED appVars
       ELSE ServerStopped /\ UNCHANGED <<running, main>>

WsClosedTested ==
    /\ Runs /\ RunWsClosedTest
    /\ IF p2p_connected
       THEN UNCHANGED appVars
       ELSE ServerStopped /\ running' = FALSE /\ UNCHANGED main

-----------------------------------------------------------------------------
(* The main thread.                                                        *)

(* A signal, or the user types q.                                          *)
Interrupted ==
    /\ Runs /\ running
    /\ running' = FALSE
    /\ UNCHANGED <<linkVars, acceptor, accept, sessionVars, arrived, main>>

(* app.stop(): stop the server ...                                         *)
MainStopsServer ==
    /\ main = "waiting" /\ ~running
    /\ main' = "stopping"
    /\ ServerStopped
    /\ UNCHANGED <<linkVars, running>>

(* ... and disconnect; then work_guard.reset() and wait for the workers.   *)
MainDisconnects ==
    /\ main = "stopping"
    /\ main' = "joining"
    /\ LinkDisconnects
    /\ UNCHANGED <<acceptor, accept, sessionVars, arrived, running>>

(* io.run() returns when nothing is left to wait for.                      *)
IoIsIdle == accept = NoAccept /\ sessionVars = <<0, 0, 0, 0>>

MainExits ==
    /\ main = "joining" /\ IoIsIdle
    /\ main' = "exited"
    /\ UNCHANGED <<linkVars, acceptor, accept, sessionVars, arrived, running>>

-----------------------------------------------------------------------------
LinkSteps == Runs /\ (LinkEnvironment \/ LinkSilent) /\ UNCHANGED appVars

Workers ==
    \/ RunAccepted
    \/ RunAcceptAborted
    \/ RunAcceptError

Sessions ==
    \/ SessionEnds
    \/ AssociationEnds
    \/ StoppedSessionEnds
    \/ UdpAssociates
    \/ StoppedAssociates
    \/ StrandedFails

MainThread == MainStopsServer \/ MainDisconnects \/ MainExits

ClientNext ==
    \/ LinkSteps
    \/ LinkConnected
    \/ LinkConnectedInVain
    \/ LinkClosed
    \/ WsClosedTested
    \/ BrowserConnects
    \/ AcceptFails
    \/ Sessions
    \/ Workers
    \/ Interrupted
    \/ MainThread

ClientSpec == ClientInit /\ [][ClientNext]_clientVars

(* The library delivers every callback and closes a WebSocket that is      *)
(* being closed; the workers run what is ready; the main thread shuts down *)
(* once it has begun to (before, it may be waiting for a key); a browser   *)
(* ends its connection some time.  Nothing makes a stranded socket fail.   *)
ClientFairness ==
    /\ WF_clientVars(Runs /\ LinkSilent /\ UNCHANGED appVars)
    /\ WF_clientVars(LinkConnected \/ LinkConnectedInVain)
    /\ WF_clientVars(LinkClosed)
    /\ WF_clientVars(WsClosedTested)
    /\ WF_clientVars(Runs /\ ws = "closing" /\ WsCloses /\ UNCHANGED appVars)
    /\ WF_clientVars(RunAccepted)
    /\ WF_clientVars(RunAcceptAborted)
    /\ WF_clientVars(RunAcceptError)
    /\ WF_clientVars(StoppedSessionEnds)
    /\ WF_clientVars(SessionEnds)
    /\ WF_clientVars(AssociationEnds)
    /\ WF_clientVars(MainDisconnects \/ MainExits)

ClientFairSpec == ClientSpec /\ ClientFairness

-----------------------------------------------------------------------------
(* Properties.                                                             *)

(* Once the link is over the acceptor is not listening, though Connected   *)
(* and Closed are reported by threads that race: no browser is accepted    *)
(* for a peer that is gone (SocksServer::start, stop).                     *)
NotListeningWhenOver == Over => acceptor # "listening"

(* The end of the link is seen to the end: reported last, and no acceptor  *)
(* is left behind (LastWordIsClosed and NotListeningWhenOver together).    *)
EndIsSeen == LastWordIsClosed /\ NotListeningWhenOver

(* When the link is lost, main is told (close_callback_).                  *)
MainIsTold == (ws = "closed" \/ pc \in {"failed", "closed"}) ~> ~running

(* Once the business is stopped and the work guard reset, io.run() returns *)
(* and main exits, though callbacks of the link still start and stop the   *)
(* server; unless an accept has ended with another error than              *)
(* operation_aborted, which on a closed acceptor is repeated for ever, or  *)
(* a UDP association was stopped, whose socket nobody closes (do_accept,   *)
(* NetworkRtcApp::stop, SocksServer::stop).                                *)
MainReturns ==
    (main = "joining") ~> (main = "exited" \/ accept["error"] > 0 \/ stranded > 0)
=============================================================================
