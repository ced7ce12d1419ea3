------------------------------- MODULE Wire -------------------------------
(***************************************************************************)
(* The bytes on the data channel: the frames of session_protocol.cpp, as   *)
(* SessionMux sends and receives them, and the SOCKS5 datagrams the        *)
(* client's UdpSession translates into frames and back.                    *)
(*                                                                         *)
(* A behaviour is the journey of one message, one action per side that     *)
(* handles it.  Byte i of a C++ buffer is element i + 1 of a sequence.     *)
(***************************************************************************)
EXTENDS Integers, Sequences, SequencesExt

CONSTANTS
    StreamIds,      \* stream ids
    HostLengths,    \* lengths of a target's name
    Addresses,      \* IPv4 addresses, as four bytes
    Ports,
    DataLengths,    \* lengths of a datagram's data
    StrayBytes,     \* bytes found in a message that is no frame of ours
    StrayLength     \* bound on the length of such a message

Byte == 0..255
Uint16 == {n \in Nat : n =< 65535}
IsUint32(n) == n \in Nat /\ n \div 65536 =< 65535

(* A datagram's data are at most as long as its length field in IP says.   *)
ASSUME InputsAreBytes ==
    /\ \A id \in StreamIds : IsUint32(id)
    /\ HostLengths \subseteq Nat
    /\ Addresses \subseteq [1..4 -> Byte]
    /\ Ports \subseteq Uint16 /\ DataLengths \subseteq Uint16
    /\ StrayBytes \subseteq Byte
    /\ StrayLength \in Nat

VARIABLES
    msg,    \* what is to be carried
    at,     \* where it is
    bytes,  \* its present form
    got     \* what the receiver understood

vars == <<msg, at, bytes, got>>

Name(n) == [i \in 1..n |-> 97]
Data(n) == [i \in 1..n |-> i % 256]

-----------------------------------------------------------------------------
(* Integers in network order.                                              *)

Be16(n) == <<(n \div 256) % 256, n % 256>>

Be32(n) ==
    <<(n \div 16777216) % 256, (n \div 65536) % 256, (n \div 256) % 256, n % 256>>

(* The integer at byte i of a buffer.                                      *)
Read16(s, i) == s[i + 1] * 256 + s[i + 2]

Read32(s, i) ==
    s[i + 1] * 16777216 + s[i + 2] * 65536 + s[i + 3] * 256 + s[i + 4]

(* The n bytes from byte i on.                                             *)
Slice(s, i, n) == SubSeq(s, i + 1, i + n)

Rejected == [ok |-> FALSE]

(* An exception, which ends the worker thread's io.run().                  *)
Raised == [ok |-> FALSE, raised |-> TRUE]

(* The fields of two records, of a common one that of the first.           *)
Along(r, s) ==
    [x \in DOMAIN r \cup DOMAIN s |-> IF x \in DOMAIN r THEN r[x] ELSE s[x]]

-----------------------------------------------------------------------------
(* session_protocol.cpp.                                                   *)

FrameType == [SYN |-> 1, SYNACK |-> 2, DATA |-> 3, FIN |-> 4, DATA_CTRL |-> 13]
UdpAssociate == 4
kSize == 6

make_frame(id, type, protocol, payload) ==
    Be32(id) \o <<type, protocol>> \o payload

encode_syn_payload(host, port) == <<Len(host) % 256>> \o host \o Be16(port)

decode_syn_payload(p) ==
    IF Len(p) < 1 \/ Len(p) < 1 + p[1] + 2
    THEN Rejected
    ELSE [ok |-> TRUE, host |-> Slice(p, 1, p[1]), port |-> Read16(p, 1 + p[1])]

encode_udp_payload(host, port, data) ==
    <<Len(host) % 256>> \o host \o Be16(port) \o Be32(Len(data)) \o data

\* faulty: the data is what is left, whatever its length field says
decode_udp_payload_rest(p) ==
    IF Len(p) < 1 \/ Len(p) - 1 < p[1] + 2 + 4
    THEN [ok |-> FALSE, host |-> <<>>, data |-> <<>>]
    ELSE LET pos == 1 + p[1] + 2 + 4
         IN  [ok |-> TRUE, host |-> Slice(p, 1, p[1]),
              port |-> Read16(p, 1 + p[1]), data |-> Slice(p, pos, Len(p) - pos)]

(* The buffer for the data is there before anything is checked; a short    *)
(* payload leaves the caller's port unset, a long length field leaves host *)
(* and port.                                                               *)
decode_udp_payload(p) ==
    IF Len(p) < 1 \/ Len(p) - 1 < p[1] + 2 + 4
    THEN [ok |-> FALSE, host |-> <<>>, data |-> <<>>]
    ELSE LET pos == 1 + p[1] + 2 + 4
             n   == Read32(p, pos - 4)
             all == n =< Len(p) - pos
         IN  [ok |-> all, host |-> Slice(p, 1, p[1]), port |-> Read16(p, 1 + p[1]),
              data |-> IF all THEN Slice(p, pos, n) ELSE <<>>]

packMessage(frame) == Be32(Len(frame)) \o frame

unpackMessage(m) ==
    IF Len(m) < 4 \/ Read32(m, 0) > Len(m) - 4
    THEN Rejected
    ELSE [ok |-> TRUE, frame |-> Slice(m, 4, Read32(m, 0))]

-----------------------------------------------------------------------------
(* IPv4 addresses as text: snprintf's %d.%d.%d.%d and address::to_string   *)
(* one way, make_address_v4 the other.                                     *)

Decimal(n) ==
    (IF n >= 100 THEN <<48 + (n \div 100)>> ELSE <<>>)
    \o (IF n >= 10 THEN <<48 + ((n \div 10) % 10)>> ELSE <<>>)
    \o <<48 + (n % 10)>>

Dotted(a) ==
    Decimal(a[1]) \o <<46>> \o Decimal(a[2]) \o <<46>> \o Decimal(a[3])
    \o <<46>> \o Decimal(a[4])

(* Where the part that begins at i ends: before the next dot, if any.      *)
PartEnd(text, i) ==
    CHOOSE e \in i..Len(text) + 1 :
        /\ e = Len(text) + 1 \/ text[e] = 46
        /\ \A j \in i..e - 1 : text[j] # 46

Number(digits) ==
    LET value[n \in 0..Len(digits)] ==
            IF n = 0 THEN 0 ELSE 10 * value[n - 1] + digits[n] - 48
    IN  value[Len(digits)]

make_address_v4(text) ==
    LET Part(i) == SubSeq(text, i, PartEnd(text, i) - 1)
        After(i) == PartEnd(text, i) + 1
        second == After(1)
        third == After(second)
        fourth == After(third)
    IN  <<Number(Part(1)), Number(Part(second)), Number(Part(third)),
          Number(Part(fourth))>>

-----------------------------------------------------------------------------
(* The client's UdpSession.                                                *)

\* faulty: the port is read one byte early
send_ipv4_shifted(d) ==
    IF Len(d) < 10
    THEN Rejected
    ELSE [ok |-> TRUE, payload |->
            encode_udp_payload(Dotted(Slice(d, 4, 4)), Read16(d, 7),
                               Slice(d, 10, Len(d) - 10))]

send_ipv4(d) ==
    IF Len(d) < 10
    THEN Rejected
    ELSE [ok |-> TRUE, payload |->
            encode_udp_payload(Dotted(Slice(d, 4, 4)), Read16(d, 8),
                               Slice(d, 10, Len(d) - 10))]

(* The code takes port and data from one byte further on than the name     *)
(* ends.  The length of the data is a size_t: -1 is one less than any size *)
(* a vector can have, and inserting that many bytes raises length_error.   *)
send_domain(d) ==
    LET len  == d[5]
        size == Len(d) - 8 - len
    IN  IF Len(d) < 5 \/ 5 + len + 2 > Len(d)
        THEN Rejected
        ELSE IF size < 0
        THEN Raised
        ELSE [ok |-> TRUE, payload |->
                encode_udp_payload(Slice(d, 5, len), Read16(d, 6 + len),
                                   Slice(d, 8 + len, size))]

send_p2p_data(d) ==
    CASE d[4] = 1 -> send_ipv4(d)
      [] d[4] = 3 -> send_domain(d)
      [] OTHER -> Rejected

(* What the client's socket sends to the application.                      *)
revP2pData(u) ==
    <<0, 0, 0, 1>> \o make_address_v4(u.host) \o Be16(u.port) \o u.data

-----------------------------------------------------------------------------
(* The messages, and where each starts.  An application's datagram has the *)
(* layout of doc/udp.txt.                                                  *)

Strays == UNION {[1..n -> StrayBytes] : n \in 0..StrayLength}

Messages ==
    [kind : {"syn"}, id : StreamIds, host : {Name(n) : n \in HostLengths},
     port : Ports]
    \cup [kind : {"synack", "ctrl"}, id : StreamIds, flag : BOOLEAN]
    \cup [kind : {"fin"}, id : StreamIds]
    \cup [kind : {"ipv4", "back"}, id : StreamIds, addr : Addresses, port : Ports,
          data : {Data(n) : n \in DataLengths}]
    \cup [kind : {"domain"}, id : StreamIds,
          host : {Name(n) : n \in HostLengths \cap Byte}, port : Ports,
          data : {Data(n) : n \in DataLengths}]
    \cup [kind : {"stray"}, payload : Strays]

AppDatagram(m) ==
    CASE m.kind = "ipv4" -> <<0, 0, 0, 1>> \o m.addr \o Be16(m.port) \o m.data
      [] m.kind = "domain" ->
            <<0, 0, 0, 3, Len(m.host)>> \o m.host \o Be16(m.port) \o m.data

Init ==
    /\ msg \in Messages
    /\ at = "sender"
    /\ bytes = <<>>
    /\ got = Rejected

(* SessionMux's send functions and the bound send_func_.                   *)
Transmit(id, type, protocol, payload) ==
    /\ bytes' = packMessage(make_frame(id, type, protocol, payload))
    /\ at' = "channel"
    /\ UNCHANGED <<msg, got>>

send_syn ==
    /\ at = "sender" /\ msg.kind = "syn"
    /\ Transmit(msg.id, FrameType.SYN, 1, encode_syn_payload(msg.host, msg.port))

send_synack ==
    /\ at = "sender" /\ msg.kind = "synack"
    /\ Transmit(msg.id, FrameType.SYNACK, 1, <<IF msg.flag THEN 0 ELSE 1>>)

(* The flag says whether the peer is to read on.                           *)
send_data_ctrl ==
    /\ at = "sender" /\ msg.kind = "ctrl"
    /\ Transmit(msg.id, FrameType.DATA_CTRL, 1, <<IF msg.flag THEN 0 ELSE 1>>)

send_fin ==
    /\ at = "sender" /\ msg.kind = "fin"
    /\ Transmit(msg.id, FrameType.FIN, 1, <<>>)

(* A datagram of the application reaches the client's UdpSession.          *)
ForwardDatagram ==
    /\ at = "sender" /\ msg.kind \in {"ipv4", "domain"}
    /\ LET sent == send_p2p_data(AppDatagram(msg))
       IN  IF sent.ok
           THEN Transmit(msg.id, FrameType.DATA, UdpAssociate, sent.payload)
           ELSE /\ at' = IF sent = Raised THEN "raised" ELSE "lost"
                /\ UNCHANGED <<msg, bytes, got>>

(* A target's datagram reaches the server's UdpClient.                     *)
ReturnDatagram ==
    /\ at = "sender" /\ msg.kind = "back"
    /\ Transmit(msg.id, FrameType.DATA, UdpAssociate,
                encode_udp_payload(Dotted(msg.addr), msg.port, msg.data))

(* Something else arrives: each frame type with a payload of any shape.    *)
StrayFrame(type) ==
    /\ at = "sender" /\ msg.kind = "stray"
    /\ Transmit(1, type, UdpAssociate, msg.payload)

(* A message shorter or longer than it says.                               *)
StrayMessage ==
    /\ at = "sender" /\ msg.kind = "stray"
    /\ bytes' = msg.payload /\ at' = "channel"
    /\ UNCHANGED <<msg, got>>

(* on_p2p_data: what the handler of the frame's type is given.             *)
Understood(type, payload) ==
    CASE type = FrameType.SYN -> decode_syn_payload(payload)
      [] type = FrameType.SYNACK ->
            [ok |-> TRUE, flag |-> Len(payload) >= 1 /\ payload[1] = 0]
      [] type = FrameType.DATA -> decode_udp_payload(payload)
      [] type = FrameType.FIN -> [ok |-> TRUE]
      [] type = FrameType.DATA_CTRL ->
            IF Len(payload) < 1 THEN Rejected
                                ELSE [ok |-> TRUE, flag |-> payload[1] = 0]
      [] OTHER -> Rejected

on_p2p_data ==
    /\ at = "channel"
    /\ at' = "receiver"
    /\ LET m == unpackMessage(bytes)
       IN  IF ~m.ok \/ Len(m.frame) < kSize
           THEN got' = Rejected
           ELSE got' = Along([id |-> Read32(m.frame, 0), type |-> m.frame[5],
                              protocol |-> m.frame[6]],
                             Understood(m.frame[5],
                                        Slice(m.frame, kSize, Len(m.frame) - kSize)))
    /\ UNCHANGED <<msg, bytes>>

(* The server's UdpClient sends what the decoder left behind, accepted or  *)
(* not: a port it did not set is whatever the stack held.                  *)
SendToTarget ==
    /\ at = "receiver" /\ msg.kind \in {"ipv4", "domain", "stray"}
    /\ "type" \in DOMAIN got /\ got.type = FrameType.DATA
    /\ \E unset \in Ports : got' = Along(got, [port |-> unset])
    /\ at' = "target"
    /\ UNCHANGED <<msg, bytes>>

(* The client's UdpSession hands a reply to the application.               *)
ReplyToApp ==
    /\ at = "receiver" /\ msg.kind = "back" /\ got.ok
    /\ bytes' = revP2pData(got)
    /\ at' = "app"
    /\ UNCHANGED <<msg, got>>

Next ==
    \/ send_syn
    \/ send_synack
    \/ send_data_ctrl
    \/ send_fin
    \/ ForwardDatagram
    \/ ReturnDatagram
    \/ \E type \in {1, 2, 3, 13} : StrayFrame(type)
    \/ StrayMessage
    \/ on_p2p_data
    \/ SendToTarget
    \/ ReplyToApp

Spec == Init /\ [][Next]_vars

-----------------------------------------------------------------------------
(* Properties.                                                             *)

Arrived(kinds) == at = "receiver" /\ msg.kind \in kinds

(* A control message means to the receiver what it meant to the sender,    *)
(* through both layers of framing, as long as the host's length fits its   *)
(* byte (make_frame, packMessage, encode_syn_payload and their inverses).  *)
ControlArrives ==
    /\ Arrived({"syn"}) /\ Len(msg.host) =< 255 =>
          got.ok /\ <<got.id, got.host, got.port>> = <<msg.id, msg.host, msg.port>>
    /\ Arrived({"synack", "ctrl"}) =>
          got.ok /\ <<got.id, got.flag>> = <<msg.id, msg.flag>>
    /\ Arrived({"fin"}) => got.ok /\ <<got.id, got.type>> = <<msg.id, FrameType.FIN>>

(* A datagram for an IPv4 target reaches the server with the address, the  *)
(* port and the data the application gave it (send_ipv4 to                 *)
(* decode_udp_payload).  The client loses none, and is stopped by none but *)
(* one without data for a named target.                                    *)
DatagramArrives ==
    /\ Arrived({"ipv4"}) =>
          /\ got.ok
          /\ <<got.host, got.port, got.data>> = <<Dotted(msg.addr), msg.port, msg.data>>
    /\ at \in {"lost", "raised"} => msg.kind = "domain" /\ msg.data = <<>>

(* What the application reads from a reply, by the layout of doc/udp.txt,  *)
(* is who sent it and what (encode_udp_payload to UdpSession::revP2pData). *)
ReplyArrives ==
    at = "app" => bytes = <<0, 0, 0, 1>> \o msg.addr \o Be16(msg.port) \o msg.data

(* What arrives is what was sent, of every kind but datagrams for named    *)
(* targets.                                                                *)
ArrivesAsSent == ControlArrives /\ DatagramArrives /\ ReplyArrives

(* The decoders accept nothing they had to guess: what they return encodes *)
(* to the beginning of the payload they were given, and they never look    *)
(* behind its end (decode_syn_payload, decode_udp_payload).  UdpClient     *)
(* does not ask whether the decoder succeeded; all the same no byte        *)
(* reaches a target but out of a payload that was accepted.                *)
AcceptedIsWellFormed ==
    LET payload == Slice(bytes, 4 + kSize, Len(bytes) - 4 - kSize)
        datagram == encode_udp_payload(got.host, got.port, got.data)
    IN  /\ (Arrived({"stray"}) /\ got.ok /\ got.type = FrameType.SYN) =>
              IsPrefix(encode_syn_payload(got.host, got.port), payload)
        /\ (Arrived({"stray"}) /\ got.ok /\ got.type = FrameType.DATA) =>
              IsPrefix(datagram, payload)
        /\ (at = "target" /\ got.data # <<>>) => IsPrefix(datagram, payload)
=============================================================================
