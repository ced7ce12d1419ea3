----------------------------- MODULE Handshake -----------------------------
(***************************************************************************)
(* The first bytes of a connection to the client: how Socks5Session        *)
(* (client/src/tcp_session.cpp, consume_pending and the handle_ functions) *)
(* finds out from the chunks TcpSocket reads what the browser wants.       *)
(* Tunnel takes over when the SYN frame has been sent.                     *)
(*                                                                         *)
(* Each chunk is read into the same buffer from its beginning, and the     *)
(* handlers look at fixed positions of it, whatever the chunk's length: a  *)
(* byte behind the chunk is what an earlier chunk or, at first, nobody     *)
(* left there.  Byte i of the buffer is read_buf[i].                       *)
(***************************************************************************)
EXTENDS Naturals, Sequences

CONSTANTS
    Greetings,  \* what a browser may open with
    Requests,   \* what it may ask for once it is told to go on
    Leftovers   \* what the buffer may hold where nothing was read yet

BufSize == 263  \* the part of read_buf_ the handlers may look at

ASSUME InputsFitTheBuffer ==
    \A m \in Greetings \cup Requests :
        m \in Seq(0..255) /\ Len(m) \in 3..BufSize

(* What a browser may send, by doc/socks5.txt: a version, a count and as   *)
(* many methods, then a request as long as its address type says.  Of three*)
(* methods the count is taken for a command: README, section 5.            *)
ASSUME InputsAreSocks5 ==
    /\ \A g \in Greetings : g[1] = 5 /\ Len(g) = 2 + g[2] /\ g[2] # 3
    /\ \A r \in Requests :
          /\ Len(r) >= 5
          /\ r[4] = 1 => Len(r) = 10
          /\ r[4] = 3 => Len(r) = 7 + r[5]

VARIABLES
    browser,    \* "greets", "waits" for the method, or has "asked"; HttpRelay
                \* adds one that speaks "http"
    input,      \* sent by the browser and not yet read
    request,    \* what it asked for
    read_buf,
    phase,
    protocol,
    target,     \* target_host_ and target_port_, once a SYN frame is sent
    replies,    \* sent to the browser
    whole       \* history: every message was read in one piece

sessionVars == <<browser, input, request, read_buf, phase, protocol, target,
                 replies, whole>>

NoTarget == [host |-> <<>>, port |-> 0]
Method == <<5, 0>>              \* handle_greeting_version's reply
Refusal(code) == <<5, code>>    \* the beginning of send_socks_reply's

SocksInit ==
    /\ browser = "greets"
    /\ input = <<>> /\ request = <<>>
    /\ \E b \in Leftovers : read_buf = [i \in 0..BufSize - 1 |-> b]
    /\ phase = "WaitGreetingVersion"
    /\ protocol = "Unknown"
    /\ target = NoTarget
    /\ replies = <<>>
    /\ whole = TRUE

-----------------------------------------------------------------------------
(* The browser, which waits for the method before it asks.                 *)

BrowserGreets ==
    /\ browser = "greets"
    /\ input' \in Greetings
    /\ browser' = "waits"
    /\ UNCHANGED <<request, read_buf, phase, protocol, target, replies, whole>>

BrowserAsks ==
    /\ browser = "waits" /\ replies # <<>> /\ Head(replies) = Method
    /\ \E r \in Requests : input' = input \o r /\ request' = r
    /\ browser' = "asked"
    /\ UNCHANGED <<read_buf, phase, protocol, target, replies, whole>>

-----------------------------------------------------------------------------
(* One turn of consume_pending's loop each, on the session s and the       *)
(* buffer b.                                                               *)

Says(s, reply) == [s EXCEPT !.replies = Append(@, reply)]
Goes(s, phaseTo, n) == [s EXCEPT !.phase = phaseTo, !.consumed = @ + n]

handle_greeting_version(s, b) ==
    IF b[0] = 5 THEN Says(Goes(s, "WaitSocksMethods", 2), Method)
                ELSE Goes(s, "WaitHttpRequestHeaders", 2)

(* The second byte of the greeting, which counts the methods, is looked at *)
(* as if it were the command.                                              *)
handle_socks_methods(s, b) ==
    CASE b[1] = 1 -> [Goes(s, "WaitSocksTCP", 2) EXCEPT !.protocol = "Socks5Connect"]
      [] b[1] = 3 -> [Goes(s, "WaitSocksUDP", 2) EXCEPT !.protocol = "UdpAssociate"]
      [] OTHER -> Says(Goes(s, "Closed", 1), Refusal(7))

handle_socks_tcp_udp(s, b) ==
    CASE b[3] = 1 -> Goes(s, "WaitSocksIpv4", 2)
      [] b[3] = 3 -> Goes(s, "WaitSocksDomain", 2)
      [] OTHER -> Says(Goes(s, "Closed", 2), Refusal(8))

BytesAt(b, i, n) == [k \in 1..n |-> b[i + k - 1]]

Port(b, i) == b[i] * 256 + b[i + 1]

(* request_remote_connect: the SYN frame, then phase_.                     *)
request_remote_connect(s, host, port, n) ==
    [Goes(s, "Connecting", n) EXCEPT !.target = [host |-> host, port |-> port]]

\* faulty: the port is taken from behind the command
handle_socks_ipv4_low(s, b) ==
    request_remote_connect(s, BytesAt(b, 4, 4), Port(b, 2), 6)

handle_socks_ipv4(s, b) ==
    request_remote_connect(s, BytesAt(b, 4, 4), Port(b, 8), 6)

handle_socks_domain(s, b) ==
    request_remote_connect(s, BytesAt(b, 5, b[4]), Port(b, b[4] + 5), 3 + b[4])

SocksPhases == {"WaitGreetingVersion", "WaitSocksMethods", "WaitSocksTCP",
                "WaitSocksUDP", "WaitSocksIpv4", "WaitSocksDomain"}

(* The phase decides which handler takes the next bytes.                   *)
HandlePhase(s, b) ==
    CASE s.phase = "WaitGreetingVersion" -> handle_greeting_version(s, b)
      [] s.phase = "WaitSocksMethods"    -> handle_socks_methods(s, b)
      [] s.phase \in {"WaitSocksTCP", "WaitSocksUDP"} -> handle_socks_tcp_udp(s, b)
      [] s.phase = "WaitSocksIpv4"       -> handle_socks_ipv4(s, b)
      [] s.phase = "WaitSocksDomain"     -> handle_socks_domain(s, b)

\* faulty: the loop ends after one turn
TurnOnce(s, b, len) ==
    IF s.phase \notin SocksPhases \/ s.consumed > 0 THEN s ELSE HandlePhase(s, b)

Turn(s, b, len) ==
    IF s.phase \notin SocksPhases \/ s.consumed >= len THEN s ELSE HandlePhase(s, b)

(* Each turn moves to a later phase, and there are five: five turns are as *)
(* many as wanted.                                                         *)
consume_pending(s, b, len) ==
    LET Again(t) == Turn(t, b, len)
    IN  Again(Again(Again(Again(Again(s)))))

-----------------------------------------------------------------------------
(* async_read_some puts the chunk at the beginning of read_buf_.           *)
Overlay(chunk) ==
    [i \in 0..BufSize - 1 |-> IF i < Len(chunk) THEN chunk[i + 1] ELSE read_buf[i]]

(* A chunk of n bytes is read: process_data.  A session that is Closed has *)
(* closed its socket and reads no more.                                    *)
ReadChunk(n) ==
    /\ phase \in SocksPhases
    /\ n \in 1..Len(input)
    /\ LET b == Overlay(SubSeq(input, 1, n))
           s == consume_pending([phase |-> phase, protocol |-> protocol,
                                 consumed |-> 0, target |-> target,
                                 replies |-> replies], b, n)
       IN  /\ read_buf' = b
           /\ phase' = s.phase /\ protocol' = s.protocol
           /\ target' = s.target /\ replies' = s.replies
    /\ input' = SubSeq(input, n + 1, Len(input))
    /\ whole' = (whole /\ n = Len(input))
    /\ UNCHANGED <<browser, request>>

SocksNext ==
    \/ BrowserGreets
    \/ BrowserAsks
    \/ \E n \in 1..BufSize : ReadChunk(n)

SocksSpec == SocksInit /\ [][SocksNext]_sessionVars

-----------------------------------------------------------------------------
(* Properties.                                                             *)

(* What a request means, by the layout in doc/socks5.txt.                  *)
Asked(r) ==
    CASE r[4] = 1 -> [host |-> SubSeq(r, 5, 8), port |-> r[9] * 256 + r[10]]
      [] r[4] = 3 -> [host |-> SubSeq(r, 6, 5 + r[5]),
                      port |-> r[6 + r[5]] * 256 + r[7 + r[5]]]
      [] OTHER -> NoTarget

(* The server is asked to connect to the host and port of the request and  *)
(* to no other, if each of the browser's messages is read in one piece:    *)
(* nothing of the greeting, of an earlier chunk or of what the buffer held *)
(* takes part (handle_socks_ipv4, handle_socks_domain).                    *)
TargetIsAsked ==
    (phase = "Connecting" /\ whole /\ browser # "http") => browser = "asked" /\ target = Asked(request)

(* When all the browser sent has been read in one piece, its request has   *)
(* been decided: sent on, or refused with a reply and closed.              *)
RequestIsDecided ==
    (browser = "asked" /\ input = <<>> /\ whole) =>
        \/ phase = "Connecting" /\ replies = <<Method>>
        \/ phase = "Closed" /\ Len(replies) = 2 /\ replies[2] # Method

=============================================================================
