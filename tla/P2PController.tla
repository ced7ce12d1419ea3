--------------------------- MODULE P2PController ---------------------------
(***************************************************************************)
(* One end of the link between the two programs: P2PSessionController with *)
(* its SignalingClient (a WebSocket) and its P2PClient (a PeerConnection   *)
(* and its DataChannel).  Both programs use the same class; `role' says    *)
(* which of them this end belongs to.  The other end and the network are   *)
(* the environment.                                                        *)
(*                                                                         *)
(* Callbacks run on the library's threads: one delivers the WebSocket's    *)
(* events, another the PeerConnection's state changes, in order.  Both     *)
(* reach the owner's state callback and p2p_connected_ without a lock, so  *)
(* the handlers are split where the other thread can see the difference.   *)
(***************************************************************************)
EXTENDS Naturals, FiniteSets, Sequences, SequencesExt

CONSTANT MaxFlaps   \* bound on how often the connection comes back

ASSUME MaxFlapsIsNat == MaxFlaps \in Nat

VARIABLES
    role,           \* "client" or "server"
    ws,             \* the WebSocket
    wsStep,         \* how far its closed callback has come
    pc,             \* the PeerConnection, "none" before it is created
    described,      \* the peer's session description has been set
    dc,             \* the DataChannel, "none" before it exists
    events,         \* state changes not yet delivered, oldest first
    pcStep,         \* the state change whose handler is half done
    p2p_connected,
    flaps,          \* reconnections so far
    notes           \* history: what the owner's state callback was told

linkVars == <<role, ws, wsStep, pc, described, dc, events, pcStep,
              p2p_connected, flaps, notes>>

(* init and connect: the client opens a WebSocket, the server is handed    *)
(* one that is open.                                                       *)
LinkInit ==
    /\ role \in {"client", "server"}
    /\ ws = IF role = "client" THEN "connecting" ELSE "open"
    /\ wsStep = "idle" /\ pcStep = "idle"
    /\ pc = "none" /\ dc = "none" /\ described = FALSE
    /\ events = <<>> /\ notes = <<>>
    /\ p2p_connected = FALSE
    /\ flaps = 0

-----------------------------------------------------------------------------
(* The WebSocket.                                                          *)

(* The client sends its password.                                          *)
WsOpens ==
    /\ ws = "connecting"
    /\ ws' = "open"
    /\ UNCHANGED <<role, wsStep, pc, described, dc, events, pcStep,
                   p2p_connected, flaps, notes>>

WsCloses ==
    /\ ws # "closed"
    /\ ws' = "closed" /\ wsStep' = "closed"
    /\ UNCHANGED <<role, pc, described, dc, events, pcStep, p2p_connected,
                   flaps, notes>>

(* SignalingClient::disconnect.                                            *)
Disconnecting == IF ws = "closed" THEN "closed" ELSE "closing"

LinkDisconnects ==
    /\ ws' = Disconnecting
    /\ UNCHANGED <<role, wsStep, pc, described, dc, events, pcStep,
                   p2p_connected, flaps, notes>>

Delivers == ws \in {"open", "closing"}

(* verify with the right password: a PeerConnection that waits for the     *)
(* client's offer.  A wrong one is answered and changes nothing.  The peer *)
(* is this program's client, which sends one verify.                       *)
GetVerify ==
    /\ role = "server" /\ Delivers /\ pc = "none"
    /\ pc' = "new"
    /\ UNCHANGED <<role, ws, wsStep, described, dc, events, pcStep,
                   p2p_connected, flaps, notes>>

(* verifyACK: create the PeerConnection and the DataChannel, or give up.   *)
GetVerifyAck(ok) ==
    /\ role = "client" /\ Delivers /\ pc = "none"
    /\ IF ok THEN pc' = "new" /\ dc' = "opening" /\ UNCHANGED ws
             ELSE ws' = Disconnecting /\ UNCHANGED <<pc, dc>>
    /\ UNCHANGED <<role, wsStep, described, events, pcStep, p2p_connected,
                   flaps, notes>>

(* handleSignalMessage, ignored while there is no PeerConnection.          *)
GetDescription ==
    /\ Delivers /\ pc # "none" /\ ~described
    /\ described' = TRUE
    /\ UNCHANGED <<role, ws, wsStep, pc, dc, events, pcStep, p2p_connected,
                   flaps, notes>>

(* signaling_.onClosed: first P2PClient::close ...                         *)
RunWsClosed ==
    /\ wsStep = "closed"
    /\ wsStep' = "tested"
    /\ dc' = IF dc = "none" THEN "none" ELSE "closed"
    /\ IF pc \in {"none", "closed"}
       THEN UNCHANGED <<pc, events>>
       ELSE pc' = "closed" /\ events' = Append(events, "closed")
    /\ UNCHANGED <<role, ws, described, pcStep, p2p_connected, flaps, notes>>

(* ... then State::Closed, unless the PeerConnection will report it.       *)
RunWsClosedTest ==
    /\ wsStep = "tested"
    /\ wsStep' = "done"
    /\ notes' = IF p2p_connected THEN notes ELSE Append(notes, "Closed")
    /\ UNCHANGED <<role, ws, pc, described, dc, events, pcStep, p2p_connected,
                   flaps>>

-----------------------------------------------------------------------------
(* The PeerConnection.  Its state moves as ICE, DTLS and the peer decide.  *)

PcMoves(to) ==
    /\ \/ pc = "new" /\ described /\ to \in {"connected", "failed"}
       \/ pc = "connected" /\ to \in {"disconnected", "closed"}
       \/ pc = "disconnected" /\ to \in {"failed", "closed"}
       \/ pc = "disconnected" /\ to = "connected" /\ flaps < MaxFlaps
    /\ flaps' = IF pc = "disconnected" /\ to = "connected" THEN flaps + 1 ELSE flaps
    /\ pc' = to
    /\ dc' = IF to = "closed" /\ dc # "none" THEN "closed" ELSE dc
    /\ events' = Append(events, to)
    /\ UNCHANGED <<role, ws, wsStep, described, pcStep, p2p_connected, notes>>

(* The client's channel opens; the server learns of it by onDataChannel.   *)
DcOpens ==
    /\ pc = "connected"
    /\ dc = IF role = "client" THEN "opening" ELSE "none"
    /\ dc' = "open"
    /\ UNCHANGED <<role, ws, wsStep, pc, described, events, pcStep,
                   p2p_connected, flaps, notes>>

Handling(states) == pcStep = "idle" /\ events # <<>> /\ Head(events) \in states

(* Connected: the owner's callback, then p2p_connected_ = true.            *)
RunPcConnected ==
    /\ Handling({"connected"})
    /\ events' = Tail(events)
    /\ notes' = Append(notes, "Connected")
    /\ pcStep' = "connected"
    /\ UNCHANGED <<role, ws, wsStep, pc, described, dc, p2p_connected, flaps>>

(* The owner's callback throws: the handler ends there.                    *)
RunPcConnectedThrows ==
    /\ Handling({"connected"})
    /\ events' = Tail(events)
    /\ notes' = Append(notes, "Connected")
    /\ UNCHANGED <<role, ws, wsStep, pc, described, dc, pcStep, p2p_connected,
                   flaps>>

RunPcConnectedRest ==
    /\ pcStep = "connected"
    /\ p2p_connected' = TRUE
    /\ pcStep' = "idle"
    /\ UNCHANGED <<role, ws, wsStep, pc, described, dc, events, flaps, notes>>

(* A connection that may still come back: only logged.                     *)
RunPcDisconnected ==
    /\ Handling({"disconnected"})
    /\ events' = Tail(events)
    /\ UNCHANGED <<role, ws, wsStep, pc, described, dc, pcStep, p2p_connected,
                   flaps, notes>>

\* faulty: only a failure is reported
RunPcClosedQuietly ==
    /\ Handling({"failed", "closed"})
    /\ events' = Tail(events)
    /\ notes' = IF Head(events) = "failed" THEN Append(notes, "Closed") ELSE notes
    /\ pcStep' = "closed"
    /\ UNCHANGED <<role, ws, wsStep, pc, described, dc, p2p_connected, flaps>>

(* Closed and Failed: the owner's callback, then the WebSocket goes too.   *)
RunPcClosed ==
    /\ Handling({"failed", "closed"})
    /\ events' = Tail(events)
    /\ notes' = Append(notes, "Closed")
    /\ pcStep' = "closed"
    /\ UNCHANGED <<role, ws, wsStep, pc, described, dc, p2p_connected, flaps>>

\* faulty: the WebSocket is kept
RunPcClosedRestKeepsWs ==
    /\ pcStep = "closed"
    /\ p2p_connected' = FALSE
    /\ pcStep' = "idle"
    /\ UNCHANGED <<role, ws, wsStep, pc, described, dc, events, flaps, notes>>

RunPcClosedRest ==
    /\ pcStep = "closed"
    /\ p2p_connected' = FALSE
    /\ ws' = Disconnecting
    /\ pcStep' = "idle"
    /\ UNCHANGED <<role, wsStep, pc, described, dc, events, flaps, notes>>

-----------------------------------------------------------------------------
(* The steps that do not reach the owner, for the programs built on this.  *)
LinkEnvironment ==
    \/ WsOpens
    \/ WsCloses
    \/ GetVerify
    \/ \E ok \in BOOLEAN : GetVerifyAck(ok)
    \/ GetDescription
    \/ \E to \in {"connected", "disconnected", "failed", "closed"} : PcMoves(to)
    \/ DcOpens

LinkSilent ==
    \/ RunWsClosed
    \/ RunPcConnectedRest
    \/ RunPcDisconnected
    \/ RunPcClosedRest

LinkNext ==
    \/ LinkEnvironment
    \/ LinkSilent
    \/ LinkDisconnects
    \/ RunWsClosedTest
    \/ RunPcConnected
    \/ RunPcConnectedThrows
    \/ RunPcClosed

LinkSpec == LinkInit /\ [][LinkNext]_linkVars

-----------------------------------------------------------------------------
(* Properties.                                                             *)

(* Nothing is left to deliver.                                             *)
Over == wsStep = "done" /\ events = <<>> /\ pcStep = "idle"

(* Whichever thread came first, the last word the owner hears of a link    *)
(* that is over is Closed, and nothing of the link is left open: the       *)
(* client's SocksServer is stopped by it (onStateChange, onClosed).  The   *)
(* owner may hear it more than once, as each connection reports it, but no *)
(* more than three times: for a failure, for the WebSocket and for the     *)
(* PeerConnection's close.                                                 *)
LastWordIsClosed ==
    Over => /\ notes # <<>> /\ Last(notes) = "Closed"
            /\ Cardinality({i \in DOMAIN notes : notes[i] = "Closed"}) =< 3
            /\ pc \in {"none", "closed"} /\ dc \in {"none", "closed"}
            /\ ~p2p_connected

(* One of the two connections is lost.                                     *)
Lost == ws \in {"closing", "closed"} \/ pc \in {"failed", "closed"}
=============================================================================
