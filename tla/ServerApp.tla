----------------------------- MODULE ServerApp -----------------------------
(***************************************************************************)
(* The server program's side of one client: ProcessNewWsClient's entry for *)
(* it, its Socks5Session with the clean-up Timer, and the TunnelSessions   *)
(* the client asked for, on top of its P2PController.                      *)
(*                                                                         *)
(* Closed is reported by the link's threads, SYN frames by the data        *)
(* channel's; the timer's handler and the tunnels' run on the workers.     *)
(***************************************************************************)
EXTENDS P2PController

CONSTANT MaxTunnels     \* bound on the tunnels the client opens

ASSUME MaxTunnelsIsNat == MaxTunnels \in Nat

VARIABLES
    syn,        \* SYN frames being handled
    open,       \* tunnels listed and not told to close
    closing,    \* tunnels listed and told to close
    timer,      \* timer_ points to the Timer
    waiting,    \* an async_wait is pending
    fired,      \* waits that ended and whose handler is still to run
    listed,     \* the client's entry in client_sessions_
    opened,     \* tunnels asked for so far
    crashed     \* history: timer_ was used when null

tunnelVars == <<syn, open, closing, opened>>
timerVars == <<timer, waiting, fired, listed, crashed>>
sideVars == <<tunnelVars, timerVars>>
serverVars == <<linkVars, sideVars>>

ServerInit ==
    /\ LinkInit /\ role = "server"
    /\ syn = 0 /\ open = 0 /\ closing = 0 /\ opened = 0
    /\ timer = TRUE /\ waiting = FALSE /\ fired = 0
    /\ listed = TRUE /\ crashed = FALSE

Alive == ~crashed

-----------------------------------------------------------------------------
(* The tunnels.                                                            *)

SynArrives ==
    /\ Alive /\ dc = "open" /\ pc \in {"connected", "disconnected"}
    /\ opened < MaxTunnels
    /\ opened' = opened + 1 /\ syn' = syn + 1
    /\ UNCHANGED <<linkVars, open, closing, timerVars>>

(* on_syn: list the TunnelSession and start it.                            *)
RunSyn ==
    /\ Alive /\ syn > 0
    /\ syn' = syn - 1 /\ open' = open + 1
    /\ UNCHANGED <<linkVars, closing, opened, timerVars>>

(* The target or the client closes it: close_func_ takes it off the list.  *)
OpenTunnelEnds ==
    /\ Alive /\ open > 0
    /\ open' = open - 1
    /\ UNCHANGED <<linkVars, syn, closing, opened, timerVars>>

ClosingTunnelEnds ==
    /\ Alive /\ closing > 0
    /\ closing' = closing - 1
    /\ UNCHANGED <<linkVars, syn, open, opened, timerVars>>

-----------------------------------------------------------------------------
(* The link's callback: start the timer, then close every tunnel listed.   *)

(* Timer::start cancels the wait that is pending, not a handler that is    *)
(* already to run.                                                         *)
OnClosed ==
    IF timer
    THEN /\ waiting' = TRUE
         /\ closing' = closing + open /\ open' = 0
         /\ UNCHANGED <<syn, opened, timer, fired, listed, crashed>>
    ELSE crashed' = TRUE /\ UNCHANGED <<tunnelVars, timer, waiting, fired, listed>>

LinkComesUp == Alive /\ RunPcConnected /\ UNCHANGED sideVars

LinkGoesDown == Alive /\ RunPcClosed /\ OnClosed

WsLossTested ==
    /\ Alive /\ RunWsClosedTest
    /\ IF p2p_connected THEN UNCHANGED sideVars ELSE OnClosed

(* ProcessNewWsClient::stop, which disconnects every client it lists.      *)
ServerStops == Alive /\ listed /\ LinkDisconnects /\ UNCHANGED sideVars

-----------------------------------------------------------------------------
(* The timer.                                                              *)

TimerExpires ==
    /\ Alive /\ waiting
    /\ waiting' = FALSE /\ fired' = fired + 1
    /\ UNCHANGED <<linkVars, tunnelVars, timer, listed, crashed>>

\* faulty: the timer is released before the tunnels are looked at
RunTimerReleasesFirst ==
    /\ Alive /\ fired > 0
    /\ fired' = fired - 1
    /\ timer' = FALSE
    /\ IF open + closing = 0
       THEN listed' = FALSE /\ UNCHANGED <<waiting, crashed>>
       ELSE crashed' = TRUE /\ UNCHANGED <<waiting, listed>>
    /\ UNCHANGED <<linkVars, tunnelVars>>

\* faulty: a session that is still busy is not looked at again
RunTimerOnce ==
    /\ Alive /\ fired > 0
    /\ fired' = fired - 1
    /\ IF open + closing = 0
       THEN listed' = FALSE /\ timer' = FALSE
       ELSE UNCHANGED <<listed, timer>>
    /\ UNCHANGED <<linkVars, tunnelVars, waiting, crashed>>

(* The timer's handler: no tunnel left, so forget the client and the       *)
(* timer; otherwise wait once more.                                        *)
RunTimer ==
    /\ Alive /\ fired > 0
    /\ fired' = fired - 1
    /\ IF open + closing = 0
       THEN listed' = FALSE /\ timer' = FALSE /\ UNCHANGED <<waiting, crashed>>
       ELSE /\ IF timer THEN waiting' = TRUE /\ UNCHANGED crashed
                        ELSE crashed' = TRUE /\ UNCHANGED waiting
            /\ UNCHANGED <<listed, timer>>
    /\ UNCHANGED <<linkVars, tunnelVars>>

-----------------------------------------------------------------------------
LinkMoves == Alive /\ (LinkEnvironment \/ LinkSilent) /\ UNCHANGED sideVars

ServerNext ==
    \/ LinkMoves
    \/ LinkComesUp
    \/ LinkGoesDown
    \/ WsLossTested
    \/ ServerStops
    \/ SynArrives
    \/ RunSyn
    \/ OpenTunnelEnds
    \/ ClosingTunnelEnds
    \/ TimerExpires
    \/ RunTimer

ServerSpec == ServerInit /\ [][ServerNext]_serverVars

(* The library delivers every callback and closes a WebSocket that is      *)
(* being closed; the workers and the timer run; a tunnel told to close     *)
(* closes (Tunnel: BothEndsRelease); a target closes some time.            *)
ServerFairness ==
    /\ WF_serverVars(Alive /\ LinkSilent /\ UNCHANGED sideVars)
    /\ WF_serverVars(LinkComesUp)
    /\ WF_serverVars(LinkGoesDown)
    /\ WF_serverVars(WsLossTested)
    /\ WF_serverVars(Alive /\ ws = "closing" /\ WsCloses /\ UNCHANGED sideVars)
    /\ WF_serverVars(RunSyn)
    /\ WF_serverVars(OpenTunnelEnds)
    /\ WF_serverVars(ClosingTunnelEnds)
    /\ WF_serverVars(TimerExpires)
    /\ WF_serverVars(RunTimer)

ServerFairSpec == ServerSpec /\ ServerFairness

-----------------------------------------------------------------------------
(* Properties.                                                             *)

(* The null timer_ is used only by a report that comes late: the client    *)
(* has been forgotten already, after an earlier Closed (notifyClose,       *)
(* bindTimerFinish).  No order of callbacks loses the timer before that.   *)
NullTimerOnlyWhenForgotten ==
    (crashed \/ ~timer) => ~listed /\ Contains(notes, "Closed")

(* When either connection is lost, both are in the end and all callbacks   *)
(* have been delivered (signaling_.disconnect, p2p_.close), unless the     *)
(* program crashes first.                                                  *)
LinkEnds == Lost ~> (Over \/ crashed)

(* A client whose link is lost is forgotten in the end, however the        *)
(* callbacks and its tunnels interleave; unless the program crashes first. *)
ForgottenInTheEnd ==
    (ws = "closed" \/ pc \in {"failed", "closed"}) ~> (crashed \/ ~listed)
=============================================================================
