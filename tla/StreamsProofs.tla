--------------------------- MODULE StreamsProofs ---------------------------
(***************************************************************************)
(* Proofs about Streams, for any browsers, stream ids, bounds and any      *)
(* length of the wrap of the session ids.  The tables are related to what  *)
(* each request is: an entry is always that of a request whose number it   *)
(* is, a request whose number was drawn once still has its entry, and of a *)
(* connection that asked once and has ended without its target's FIN the   *)
(* own FIN is under way or has arrived.                                    *)
(***************************************************************************)
EXTENDS Streams, SequenceTheorems, WellFoundedInduction, TLAPS

ConnType ==
    [st : {"none", "accepted", "drew", "next", "open", "connected", "closed", "destroyed"},
     late : BOOLEAN, asked : BOOLEAN, sid : Nat, stream : StreamIds \cup {0},
     made : Nat, p2pClosed : BOOLEAN, onClose : BOOLEAN]
InstType ==
    [st : {"none", "listed", "connecting", "connected", "deaf", "closed"},
     late : BOOLEAN, asked : BOOLEAN, stream : StreamIds \cup {0}, p2pClosed : BOOLEAN]
FrameType ==
    [type : {"SYN", "SYNACK", "NAK", "DATA", "FIN"}, stream : Nat, from : Requests]
LoopType == [st : {"no", "on", "done"}, at : Nat]

TypeOK ==
    /\ id_ \in Nat
    /\ listening \in {"yes", "late", "no"}
    /\ conn \in [Browsers -> ConnType]
    /\ inst \in [Requests -> InstType]
    /\ drawn \in [Requests -> StreamIds \cup {0}]
    /\ up \in Seq(FrameType)
    /\ down \in Seq(FrameType)
    /\ link \in BOOLEAN
    /\ events \in Nat
    /\ stopping \in LoopType
    /\ closing \in LoopType

(* What a browser has asked for, and what has its entry in the table.      *)
NumberOf(r) == r[2]
Made(r) == NumberOf(r) =< conn[BrowserOf(r)].made
Entered(r) ==
    Made(r) /\ (NumberOf(r) = conn[BrowserOf(r)].made => conn[BrowserOf(r)].st # "drew")

(* A connection draws its numbers on its way from accepted to open, and    *)
(* session_ has the last.                                                  *)
DrawInv ==
    /\ \A b \in Browsers :
          /\ conn[b].made =< MaxRequests
          /\ conn[b].made = 0 => conn[b].stream = 0
          /\ conn[b].made > 0 => conn[b].stream = drawn[Current(b)]
          /\ conn[b].st \in {"none", "accepted"} => conn[b].made = 0
          /\ conn[b].st \in {"drew", "next", "open", "connected"} => conn[b].made > 0
          /\ conn[b].st = "next" => conn[b].made < MaxRequests
    /\ \A r \in Requests : Made(r) <=> drawn[r] # 0

(* Whose an entry is, on the client ...                                    *)
SessionsInv ==
    \A i \in DOMAIN sessions :
        /\ i \in Nat \ {0}
        /\ sessions[i] \in Browsers
        /\ conn[sessions[i]].st \notin {"none", "destroyed"}

(* A session that has gone keeps no entry for its last request.            *)
Owns(r) ==
    Made(r) /\ (NumberOf(r) = conn[BrowserOf(r)].made => conn[BrowserOf(r)].st # "destroyed")

MuxInv ==
    \A s \in DOMAIN mux :
        /\ s \in StreamIds
        /\ mux[s] \in Requests
        /\ drawn[mux[s]] = s
        /\ Entered(mux[s])
        /\ Owns(mux[s])

(* ... and on the server.                                                  *)
Running(i) == inst[i].st \notin {"none", "closed"}

ServerTable(table) ==
    \A s \in DOMAIN table :
        /\ s \in StreamIds
        /\ table[s] \in Requests
        /\ inst[table[s]].stream = s
        /\ Running(table[s])

InstInv ==
    \A i \in Requests :
        /\ inst[i].st # "none" => (inst[i].stream = drawn[i] /\ drawn[i] # 0)
        /\ inst[i].st = "none" => ~inst[i].asked

(* Told to close before it has its callback: only when the link has gone.  *)
DeafInv ==
    \A i \in Requests :
        (inst[i].st = "listed" /\ inst[i].asked) \/ inst[i].st = "deaf" =>
            ~link /\ inst[i].asked

(* Who has an entry: a session until another took or erased it ...         *)
ListedInv ==
    \A b \in Browsers :
        (Live(b) /\ b \notin replaced) =>
            conn[b].sid \in DOMAIN sessions /\ sessions[conn[b].sid] = b

(* ... a request unless its number was drawn in a race ...                 *)
OwnerInv ==
    \A r \in Requests :
        (Owns(r) /\ drawn[r] \notin raced) =>
            /\ Entered(r) => (drawn[r] \in DOMAIN mux /\ mux[drawn[r]] = r)
            /\ \A q \in Requests :
                  (Owns(q) /\ drawn[q] = drawn[r]) => q = r

(* ... and a target unless its number was drawn again.                     *)
Once(i) == drawn[i] \notin Redrawn

Started(i) == Running(i) /\ inst[i].st # "listed"

KeepsTunnel ==
    \A i \in Requests :
        (Running(i) /\ Once(i)) =>
            inst[i].stream \in DOMAIN tunnels /\ tunnels[inst[i].stream] = i

KeepsSession ==
    \A i \in Requests :
        (Started(i) /\ Once(i)) =>
            inst[i].stream \in DOMAIN smux /\ smux[inst[i].stream] = i

(* A frame names the stream of the request it is from, but a datagram of a *)
(* UDP session its session id.                                             *)
OfStream(f) == f.stream = drawn[f.from] /\ f.stream # 0

UpFrame(f) ==
    /\ Entered(f.from)
    /\ \/ OfStream(f)
       \/ /\ BrowserOf(f.from) \in UdpBrowsers /\ f.type = "DATA"
          /\ f.stream = conn[BrowserOf(f.from)].sid
    /\ f.type # "DATA" => OfStream(f)

UpInv == \A k \in 1..Len(up) : UpFrame(up[k])

DownFrame(f) ==
    /\ OfStream(f)
    /\ inst[f.from].st # "none"
    /\ f.type = "FIN" => inst[f.from].st = "closed"

DownInv == \A k \in 1..Len(down) : DownFrame(down[k])

(* The loops: what they have passed was told to close.                     *)
StopInv ==
    /\ stopping.st # "no" => listening # "yes"
    /\ (stopping.st = "on" /\ "stop" \notin disturbed) =>
          \A i \in DOMAIN sessions : i =< stopping.at => conn[sessions[i]].asked
    /\ (stopping.st = "done" /\ "stop" \notin disturbed) =>
          \A b \in Browsers : (Live(b) /\ b \notin replaced) => conn[b].asked \/ conn[b].late

ClosedInv ==
    /\ closing.st # "no" => ~link
    /\ (closing.st = "on" /\ "closed" \notin disturbed) =>
          \A s \in DOMAIN tunnels : s =< closing.at => inst[tunnels[s]].asked
    /\ (closing.st = "done" /\ "closed" \notin disturbed) =>
          \A i \in Requests : (Running(i) /\ Once(i)) => inst[i].asked \/ inst[i].late

(* One SYN for each request, and before its FIN.                           *)
SynOf(i, k) == up[k].type = "SYN" /\ up[k].from = i
FinOf(i, k) == up[k].type = "FIN" /\ up[k].from = i

SynInv ==
    \A i \in Requests :
        /\ ~Entered(i) => inst[i].st = "none"
        /\ \A k \in 1..Len(up) :
              SynOf(i, k) => /\ inst[i].st = "none"
                             /\ \A l \in 1..Len(up) : SynOf(i, l) => l = k
        /\ (link /\ inst[i].st = "none" /\ Entered(i)) =>
              \E k \in 1..Len(up) : SynOf(i, k)

(* A browser that asked once and has gone told the target, unless the      *)
(* target told it.                                                         *)
AskedOnce(i) == conn[BrowserOf(i)].made =< 1
Over(i) == Made(i) /\ AskedOnce(i) /\ conn[BrowserOf(i)].st \in {"closed", "destroyed"}

FinInv ==
    \A i \in Requests :
        /\ \A k \in 1..Len(up) :
              FinOf(i, k) => \/ inst[i].st # "none"
                             \/ \E l \in 1..Len(up) : l < k /\ SynOf(i, l)
        /\ (link /\ Once(i) /\ Over(i)) =>
              \/ conn[BrowserOf(i)].p2pClosed \/ inst[i].asked \/ inst[i].st = "closed"
              \/ \E k \in 1..Len(up) : FinOf(i, k)
        /\ (Once(i) /\ AskedOnce(i) /\ NumberOf(i) = 1 /\ conn[BrowserOf(i)].p2pClosed) =>
              inst[i].st = "closed"

(* What has gone astray.                                                   *)
StrayInv ==
    \A w \in strayed :
        /\ w.frame.from \in Requests
        /\ conn[BrowserOf(w.frame.from)].st # "none"

ClientPart == DrawInv /\ SessionsInv /\ MuxInv /\ ListedInv /\ OwnerInv
ServerPart == InstInv /\ DeafInv /\ ServerTable(smux) /\ ServerTable(tunnels)
              /\ KeepsTunnel /\ KeepsSession
FramePart  == UpInv /\ DownInv /\ SynInv /\ FinInv /\ StrayInv /\ RoutedToOwner
LoopPart   == StopInv /\ ClosedInv

IInv ==
    /\ TypeOK
    /\ ClientPart
    /\ ServerPart
    /\ FramePart
    /\ LoopPart

-----------------------------------------------------------------------------
(* Sequences and tables.                                                   *)

(* A frame more on the way.                                                *)
LEMMA AppendFacts ==
    ASSUME NEW S, NEW s \in Seq(S), NEW e \in S
    PROVE  /\ Append(s, e) \in Seq(S)
           /\ Len(s) \in Nat
           /\ Len(Append(s, e)) = Len(s) + 1
           /\ Append(s, e)[Len(s) + 1] = e
           /\ \A i \in 1..Len(s) : Append(s, e)[i] = s[i]
BY AppendProperties, LenProperties

(* The oldest frame taken off.                                             *)
LEMMA TailFacts ==
    ASSUME NEW S, NEW s \in Seq(S), s # <<>>
    PROVE  /\ Len(s) \in Nat /\ 1 \in 1..Len(s)
           /\ Head(s) = s[1] /\ Head(s) \in S
           /\ Tail(s) \in Seq(S)
           /\ Len(Tail(s)) = Len(s) - 1
           /\ \A i \in 1..Len(Tail(s)) : Tail(s)[i] = s[i + 1]
<1>1. Len(s) \in Nat \ {0}
  BY EmptySeq
<1>2. /\ Head(s) \in S /\ Head(s) = s[1] /\ Tail(s) \in Seq(S)
      /\ Len(Tail(s)) = Len(s) - 1
      /\ \A i \in 1..Len(Tail(s)) : Tail(s)[i] = s[i + 1]
  BY HeadTailProperties
<1> QED
  BY <1>1, <1>2

(* An entry made, whatever was there, or erased.                           *)
IsPut(table2, table, k, v) ==
    /\ DOMAIN table2 = DOMAIN table \cup {k}
    /\ table2[k] = v
    /\ \A i \in DOMAIN table : i # k => table2[i] = table[i]

IsErase(table2, table, k) ==
    /\ DOMAIN table2 = DOMAIN table \ {k}
    /\ \A i \in DOMAIN table2 : table2[i] = table[i]

(* table[k] = v of a std::map leaves the other entries.                    *)
LEMMA PutFacts ==
    ASSUME NEW table, NEW table2, NEW k, NEW v, table2 = Put(table, k, v)
    PROVE  IsPut(table2, table, k, v)
BY DEF Put, IsPut

(* erase(k) of a std::map leaves the other entries.                        *)
LEMMA EraseFacts ==
    ASSUME NEW table, NEW table2, NEW k, table2 = Erase(table, k)
    PROVE  IsErase(table2, table, k)
BY DEF Erase, Restrict, IsErase

(* A set of numbers that is not empty has a least one.                     *)
LEMMA LeastExists ==
    ASSUME NEW S \in SUBSET Nat, S # {}
    PROVE  \E i \in S : \A j \in S : i =< j
<1>1. PICK i \in S : \A j \in S : <<j, i>> \notin OpToRel(<, Nat)
  BY WFMin, NatLessThanWellFounded, Zenon
<1>2. \A j \in S : ~(j < i)
  BY <1>1, Zenon DEF OpToRel
<1> QED
  BY <1>2

(* The entry a loop comes to next is the lowest it has not passed.         *)
LEMMA LowestFacts ==
    ASSUME NEW table, NEW loop, \A i \in DOMAIN table : i \in Nat, loop.at \in Nat,
           Ahead(table, loop) # {}
    PROVE  /\ Lowest(Ahead(table, loop)) \in DOMAIN table
           /\ Lowest(Ahead(table, loop)) \in Nat
           /\ \A j \in DOMAIN table :
                 j =< Lowest(Ahead(table, loop)) =>
                    (j =< loop.at \/ j = Lowest(Ahead(table, loop)))
<1> DEFINE S == Ahead(table, loop)
<1>1. S \in SUBSET Nat /\ \A j \in DOMAIN table : j \in S <=> j > loop.at
  BY DEF Ahead
<1>2. S \subseteq DOMAIN table
  BY DEF Ahead
<1>3. \E i \in S : \A j \in S : i =< j
  BY <1>1, LeastExists
<1>4. Lowest(S) \in S /\ \A j \in S : Lowest(S) =< j
  BY <1>3, Zenon DEF Lowest
<1>5. ASSUME NEW j \in DOMAIN table, j =< Lowest(S)
      PROVE  j =< loop.at \/ j = Lowest(S)
  <2>1. j \in Nat /\ Lowest(S) \in Nat
    BY <1>1, <1>4
  <2>2. CASE j \in S
    <3>1. Lowest(S) =< j
      BY <1>4, <2>2
    <3> QED
      BY <3>1, <2>1, <1>5
  <2>3. CASE j \notin S
    BY <2>1, <2>3, <1>1
  <2> QED
    BY <2>2, <2>3
<1> QED
  BY <1>1, <1>2, <1>4, <1>5

(* A request is its browser and its number.                                *)
LEMMA RequestFacts ==
    /\ \A r \in Requests :
          /\ BrowserOf(r) \in Browsers /\ NumberOf(r) \in Nat
          /\ 1 =< NumberOf(r) /\ NumberOf(r) =< MaxRequests
          /\ r = Request(BrowserOf(r), NumberOf(r))
    /\ \A b \in Browsers, k \in Nat :
          (1 =< k /\ k =< MaxRequests) => Request(b, k) \in Requests
    /\ \A b, k : BrowserOf(Request(b, k)) = b /\ NumberOf(Request(b, k)) = k
    /\ MaxRequests \in Nat
BY StreamsAssumption DEF Requests, BrowserOf, NumberOf, Request

(* The request session_ belongs to, once there is one.                     *)
LEMMA CurrentFacts ==
    ASSUME TypeOK, DrawInv, NEW b \in Browsers
    PROVE  /\ conn[b].made \in Nat /\ conn[b].made =< MaxRequests
           /\ conn[b].made > 0 =>
                 /\ Current(b) \in Requests
                 /\ BrowserOf(Current(b)) = b /\ NumberOf(Current(b)) = conn[b].made
                 /\ conn[b].stream = drawn[Current(b)] /\ conn[b].stream # 0
                 /\ conn[b].stream \in StreamIds
           /\ conn[b].stream # 0 => conn[b].made > 0
<1>1. conn[b].made \in Nat /\ conn[b].stream \in StreamIds \cup {0}
  BY DEF TypeOK, ConnType
<1>2. conn[b].made =< MaxRequests /\ (conn[b].made = 0 => conn[b].stream = 0)
  BY DEF DrawInv
<1>3. ASSUME conn[b].made > 0
      PROVE  /\ Current(b) \in Requests
             /\ BrowserOf(Current(b)) = b /\ NumberOf(Current(b)) = conn[b].made
             /\ conn[b].stream = drawn[Current(b)] /\ conn[b].stream # 0
             /\ conn[b].stream \in StreamIds
  <2>1. /\ Current(b) \in Requests
        /\ BrowserOf(Current(b)) = b /\ NumberOf(Current(b)) = conn[b].made
    BY <1>1, <1>2, <1>3, RequestFacts DEF Current
  <2>2. conn[b].stream = drawn[Current(b)]
    BY <1>3 DEF DrawInv
  <2>3. Made(Current(b))
    BY <1>1, <2>1 DEF Made
  <2>4. drawn[Current(b)] # 0
    BY <2>1, <2>3 DEF DrawInv
  <2> QED
    BY <1>1, <2>1, <2>2, <2>4
<1> QED
  BY <1>1, <1>2, <1>3

-----------------------------------------------------------------------------
(* What a step does to one connection and to one target.                   *)

(* A session is made for an accepted socket.                               *)
LEMMA AcceptConn ==
    ASSUME TypeOK, NEW b \in Browsers, Accept(b)
    PROVE  /\ conn' \in [Browsers -> ConnType]
           /\ conn[b].st = "none" /\ conn'[b].st = "accepted"
           /\ conn'[b].sid = create_session_id
           /\ conn'[b].late = (listening = "late")
           /\ conn'[b].stream = conn[b].stream /\ conn'[b].made = conn[b].made
           /\ conn'[b].asked = conn[b].asked
           /\ conn'[b].p2pClosed = conn[b].p2pClosed
           /\ \A c \in Browsers : c # b => conn'[c] = conn[c]
<1>1. PICK n \in Nat : n = create_session_id
  <2>1. create_session_id \in Nat
    BY DEF TypeOK, create_session_id
  <2> QED
    BY <2>1
<1>2. PICK late \in BOOLEAN : late = (listening = "late")
  <2> WITNESS (listening = "late") \in BOOLEAN
  <2> QED
    OBVIOUS
<1>3. conn' = [conn EXCEPT ![b].st = "accepted", ![b].sid = n, ![b].late = late]
  BY <1>1, <1>2, Zenon DEF Accept
<1>4. /\ conn' \in [Browsers -> ConnType]
      /\ conn'[b].st = "accepted"
      /\ conn'[b].sid = n
      /\ conn'[b].late = late
      /\ conn'[b].stream = conn[b].stream /\ conn'[b].made = conn[b].made
      /\ conn'[b].asked = conn[b].asked
      /\ conn'[b].p2pClosed = conn[b].p2pClosed
      /\ \A c \in Browsers : c # b => conn'[c] = conn[c]
  BY <1>3, ZenonT(30) DEF TypeOK, ConnType
<1>5. conn[b].st = "none"
  BY DEF Accept
<1>6. conn'[b].sid = create_session_id
  BY <1>1, <1>4
<1>7. conn'[b].late = (listening = "late")
  BY <1>2, <1>4, Zenon
<1> QED
  BY <1>4, <1>5, <1>6, <1>7

(* A number is drawn for its next request.                                 *)
LEMMA DrawConn ==
    ASSUME TypeOK, DrawInv, NEW b \in Browsers, RequestRemoteConnect(b)
    PROVE  /\ conn' \in [Browsers -> ConnType]
           /\ drawn' \in [Requests -> StreamIds \cup {0}]
           /\ conn[b].st \in {"accepted", "next"} /\ conn'[b].st = "drew"
           /\ conn'[b].stream \in StreamIds \ DOMAIN mux
           /\ conn'[b].made = conn[b].made + 1 /\ conn'[b].made =< MaxRequests
           /\ Request(b, conn[b].made + 1) \in Requests
           /\ drawn'[Request(b, conn[b].made + 1)] = conn'[b].stream
           /\ \A r \in Requests : r # Request(b, conn[b].made + 1) => drawn'[r] = drawn[r]
           /\ conn'[b].sid = conn[b].sid
           /\ conn'[b].late = conn[b].late
           /\ conn'[b].asked = conn[b].asked
           /\ conn'[b].p2pClosed = conn[b].p2pClosed
           /\ \A c \in Browsers : c # b => conn'[c] = conn[c]
           /\ raced' = raced \cup {conn[c].stream : c \in
                 {c \in Browsers : conn[c].st = "drew" /\ conn[c].stream = conn'[b].stream}}
<1>1. PICK s \in StreamIds \ DOMAIN mux : Drawn(s, b)
  BY DEF RequestRemoteConnect, gen_stream_id
<1>2. conn[b].st \in {"accepted", "next"}
  BY DEF RequestRemoteConnect
<1>3. /\ conn' \in [Browsers -> ConnType]
      /\ conn'[b].st = "drew" /\ conn'[b].stream = s
      /\ conn'[b].made = conn[b].made + 1
      /\ conn'[b].sid = conn[b].sid
      /\ conn'[b].late = conn[b].late
      /\ conn'[b].asked = conn[b].asked
      /\ conn'[b].p2pClosed = conn[b].p2pClosed
      /\ \A c \in Browsers : c # b => conn'[c] = conn[c]
  <2>1. PICK n \in Nat : n = conn[b].made + 1
    BY DEF TypeOK, ConnType
  <2>2. conn' = [conn EXCEPT ![b] = [conn[b] EXCEPT !.st = "drew", !.stream = s, !.made = n]]
    BY <1>1, <2>1 DEF Drawn
  <2> DEFINE c2 == [conn[b] EXCEPT !.st = "drew", !.stream = s, !.made = n]
  <2>4. c2 \in ConnType
    BY <2>1 DEF TypeOK, ConnType
  <2>5. /\ c2.st = "drew" /\ c2.stream = s /\ c2.made = n
        /\ c2.sid = conn[b].sid /\ c2.late = conn[b].late
        /\ c2.asked = conn[b].asked /\ c2.p2pClosed = conn[b].p2pClosed
    BY DEF TypeOK, ConnType
  <2>6. conn' = [conn EXCEPT ![b] = c2] /\ conn \in [Browsers -> ConnType]
    BY <2>2 DEF TypeOK
  <2> HIDE DEF c2
  <2>7. conn' \in [Browsers -> ConnType] /\ conn'[b] = c2
        /\ \A c \in Browsers : c # b => conn'[c] = conn[c]
    BY <2>4, <2>6
  <2> QED
    BY <2>1, <2>5, <2>7
<1>4. raced' = raced \cup {conn[c].stream : c \in
                 {c \in Browsers : conn[c].st = "drew" /\ conn[c].stream = s}}
  BY <1>1 DEF Drawn
<1>5. conn[b].made \in Nat /\ conn[b].made + 1 =< MaxRequests
  BY <1>2, StreamsAssumption DEF DrawInv, TypeOK, ConnType
<1>6. Request(b, conn[b].made + 1) \in Requests
  BY <1>5, RequestFacts
<1>7. drawn' = [drawn EXCEPT ![Request(b, conn[b].made + 1)] = s]
  BY <1>1 DEF Drawn
<1>8. /\ drawn' \in [Requests -> StreamIds \cup {0}]
      /\ drawn'[Request(b, conn[b].made + 1)] = s
      /\ \A r \in Requests : r # Request(b, conn[b].made + 1) => drawn'[r] = drawn[r]
  BY <1>6, <1>7 DEF TypeOK
<1> QED
  BY <1>1, <1>2, <1>3, <1>4, <1>5, <1>6, <1>8

(* What happens to the socket and what the peer says changes only flags,   *)
(* or the state.                                                           *)
KeepsNumbers(b) ==
    /\ conn'[b].sid = conn[b].sid
    /\ conn'[b].late = conn[b].late
    /\ conn'[b].stream = conn[b].stream
    /\ conn'[b].made = conn[b].made

(* create_session puts the browser's session in the multiplexer under the  *)
(* number drawn for it.                                                    *)
LEMMA EnterConn ==
    ASSUME TypeOK, NEW b \in Browsers, create_session(b)
    PROVE  /\ conn' \in [Browsers -> ConnType]
           /\ conn[b].st = "drew" /\ conn'[b].st \in {"open", "next"}
           /\ conn'[b].st = "next" => conn[b].made < MaxRequests
           /\ KeepsNumbers(b)
           /\ conn'[b].asked = conn[b].asked
           /\ conn'[b].p2pClosed = conn[b].p2pClosed
           /\ \A c \in Browsers : c # b => conn'[c] = conn[c]
<1>1. PICK st \in {"open", "next"} :
          /\ conn' = [conn EXCEPT ![b].st = st]
          /\ st = "next" => MoreRequests(b)
  BY DEF create_session
<1>2. conn[b].st = "drew" /\ (st = "next" => conn[b].made < MaxRequests)
  BY <1>1 DEF create_session, MoreRequests
<1>3. /\ conn' \in [Browsers -> ConnType]
      /\ conn'[b].st = st
      /\ KeepsNumbers(b)
      /\ conn'[b].asked = conn[b].asked
      /\ conn'[b].p2pClosed = conn[b].p2pClosed
      /\ \A c \in Browsers : c # b => conn'[c] = conn[c]
  BY <1>1 DEF TypeOK, ConnType, KeepsNumbers
<1> QED
  BY <1>2, <1>3

(* The browser hanging up touches its own session's flag only.             *)
LEMMA HangUpConn ==
    ASSUME TypeOK, NEW b \in Browsers, BrowserCloses(b)
    PROVE  /\ conn' \in [Browsers -> ConnType]
           /\ Live(b) /\ conn'[b].st = conn[b].st
           /\ KeepsNumbers(b)
           /\ conn'[b].asked
           /\ conn'[b].p2pClosed = conn[b].p2pClosed
           /\ \A c \in Browsers : c # b => conn'[c] = conn[c]
BY DEF BrowserCloses, TypeOK, ConnType, KeepsNumbers

(* CloseSession closes one session, whose numbers stay.                    *)
LEMMA CloseConn ==
    ASSUME TypeOK, NEW b \in Browsers, CloseSession(b)
    PROVE  /\ conn' \in [Browsers -> ConnType]
           /\ conn[b].st \in {"accepted", "open", "connected"}
           /\ conn'[b].st = "closed"
           /\ KeepsNumbers(b)
           /\ conn'[b].asked = conn[b].asked
           /\ conn'[b].p2pClosed = conn[b].p2pClosed
           /\ \A c \in Browsers : c # b => conn'[c] = conn[c]
BY DEF CloseSession, TypeOK, ConnType, KeepsNumbers

(* A session is destroyed after it was closed.                             *)
LEMMA DestroyConn ==
    ASSUME TypeOK, NEW b \in Browsers, Destroy(b)
    PROVE  /\ conn' \in [Browsers -> ConnType]
           /\ conn[b].st = "closed" /\ conn'[b].st = "destroyed"
           /\ KeepsNumbers(b)
           /\ conn'[b].asked = conn[b].asked
           /\ conn'[b].p2pClosed = conn[b].p2pClosed
           /\ \A c \in Browsers : c # b => conn'[c] = conn[c]
BY DEF Destroy, TypeOK, ConnType, KeepsNumbers

(* Who is told to close, and by whom, changes nothing else.                *)
Told(b) ==
    /\ conn' \in [Browsers -> ConnType]
    /\ conn'[b].st = conn[b].st
    /\ KeepsNumbers(b)
    /\ conn'[b].asked
    /\ \A c \in Browsers : c # b => conn'[c] = conn[c]

(* p2p_nak asks one session to close and does not note that the peer       *)
(* closed.                                                                 *)
LEMMA NakConn ==
    ASSUME TypeOK, NEW b \in Browsers, conn' = p2p_nak(b)
    PROVE  Told(b) /\ conn'[b].p2pClosed = conn[b].p2pClosed
BY DEF Told, p2p_nak, TypeOK, ConnType, KeepsNumbers

(* p2p_close asks one session to close and notes that the peer closed.     *)
LEMMA FinConn ==
    ASSUME TypeOK, NEW b \in Browsers, conn' = p2p_close(b)
    PROVE  Told(b) /\ conn'[b].p2pClosed
BY DEF Told, p2p_close, TypeOK, ConnType, KeepsNumbers

(* What the stop loop does to a session it visits: its callback is taken   *)
(* and it is asked to close.                                               *)
LEMMA QuietConn ==
    ASSUME TypeOK, NEW b \in Browsers, CloseQuietly(b)
    PROVE  Told(b) /\ conn'[b].p2pClosed = conn[b].p2pClosed
BY DEF Told, CloseQuietly, TypeOK, ConnType, KeepsNumbers

(* A frame changes the state and the flags of at most the session that     *)
(* its number leads to.                                                    *)
Hears(c) ==
    /\ down # <<>> /\ Head(down).stream \in DOMAIN mux
    /\ BrowserOf(mux[Head(down).stream]) = c

(* What SessionMux::handle_packet does for a frame from the server: only a *)
(* SYNACK connects a session, only FIN sets p2pClosed, and only of the     *)
(* session the number leads to.                                            *)
LEMMA ReceiveConn ==
    ASSUME TypeOK, MuxInv, ClientReceives
    PROVE  /\ conn' \in [Browsers -> ConnType]
           /\ \A c \in Browsers :
                 /\ KeepsNumbers(c)
                 /\ conn'[c].st # conn[c].st => conn[c].st = "open" /\ conn'[c].st = "connected"
                 /\ conn[c].asked => conn'[c].asked
                 /\ conn[c].p2pClosed => conn'[c].p2pClosed
                 /\ conn'[c].p2pClosed =>
                       conn[c].p2pClosed \/ (Hears(c) /\ Head(down).type = "FIN")
<1> DEFINE f == Head(down)
           b == BrowserOf(mux[f.stream])
<1>1. CASE ~(f.stream \in DOMAIN mux /\ conn[b].st # "destroyed")
  <2>1. conn' = conn
    BY <1>1 DEF ClientReceives
  <2> QED
    BY <2>1 DEF TypeOK, KeepsNumbers
<1>2. CASE f.stream \in DOMAIN mux /\ conn[b].st # "destroyed"
  <2>1. b \in Browsers
    BY <1>2, RequestFacts DEF MuxInv
  <2>2. conn' = Received(b, f)
    BY <1>2 DEF ClientReceives
  <2>3. Hears(b)
    BY <1>2 DEF Hears, ClientReceives
  <2>4. CASE f.type = "SYNACK"
    <3>1. conn' = p2p_synack(b)
      BY <2>2, <2>4 DEF Received
    <3> QED
      BY <2>1, <3>1, ZenonT(30) DEF p2p_synack, TypeOK, ConnType, KeepsNumbers
  <2>5. CASE f.type = "NAK"
    <3>1. conn' = p2p_nak(b)
      BY <2>2, <2>5 DEF Received
    <3> QED
      BY <2>1, <3>1, NakConn DEF Told, KeepsNumbers
  <2>6. CASE f.type = "FIN"
    <3>1. conn' = p2p_close(b)
      BY <2>2, <2>6 DEF Received
    <3> QED
      BY <2>1, <2>3, <2>6, <3>1, FinConn DEF Told, KeepsNumbers
  <2>7. CASE f.type \notin {"SYNACK", "NAK", "FIN"}
    <3>1. conn' = conn
      BY <2>2, <2>7 DEF Received
    <3> QED
      BY <3>1 DEF TypeOK, KeepsNumbers
  <2> QED
    BY <2>4, <2>5, <2>6, <2>7
<1> QED
  BY <1>1, <1>2

(* stop() comes to the next entry.                                         *)
LEMMA StopNextConn ==
    ASSUME TypeOK, SessionsInv, StopNext
    PROVE  /\ conn' \in [Browsers -> ConnType]
           /\ stopping'.st = "on" /\ stopping'.at \in Nat /\ stopping.st = "on"
           /\ stopping'.at \in DOMAIN sessions
           /\ \A j \in DOMAIN sessions :
                 j =< stopping'.at => j =< stopping.at \/ j = stopping'.at
           /\ conn'[sessions[stopping'.at]].asked
           /\ \A c \in Browsers :
                 /\ KeepsNumbers(c)
                 /\ conn'[c].st = conn[c].st
                 /\ conn'[c].p2pClosed = conn[c].p2pClosed
                 /\ conn[c].asked => conn'[c].asked
<1> DEFINE i == Lowest(Ahead(sessions, stopping))
           b == sessions[i]
<1>1. stopping.st = "on" /\ stopping' = [stopping EXCEPT !.at = i]
      /\ CloseQuietly(b)
      /\ Ahead(sessions, stopping) # {}
  BY DEF StopNext
<1>2. /\ i \in DOMAIN sessions /\ i \in Nat
      /\ \A j \in DOMAIN sessions : j =< i => j =< stopping.at \/ j = i
  BY <1>1, LowestFacts DEF SessionsInv, TypeOK, LoopType
<1>3. b \in Browsers
  BY <1>2 DEF SessionsInv
<1>4. stopping'.st = "on" /\ stopping'.at = i
  BY <1>1 DEF TypeOK, LoopType
<1>5. /\ conn' \in [Browsers -> ConnType]
      /\ conn'[b].asked
      /\ \A c \in Browsers :
            /\ KeepsNumbers(c)
            /\ conn'[c].st = conn[c].st
            /\ conn'[c].p2pClosed = conn[c].p2pClosed
            /\ conn[c].asked => conn'[c].asked
  BY <1>1, <1>3, QuietConn DEF Told, KeepsNumbers
<1> QED
  BY <1>1, <1>2, <1>4, <1>5

(* A SYN makes a target.                                                   *)
LEMMA SynInst ==
    ASSUME TypeOK, UpInv, SynInv, ServerReceives, Head(up).type = "SYN"
    PROVE  /\ inst' \in [Requests -> InstType]
           /\ Head(up).from \in Requests
           /\ Head(up).stream \in StreamIds
           /\ Head(up).stream = drawn[Head(up).from]
           /\ inst[Head(up).from].st = "none"
           /\ inst'[Head(up).from].st = "listed"
           /\ inst'[Head(up).from].stream = Head(up).stream
           /\ inst'[Head(up).from].asked = inst[Head(up).from].asked
           /\ inst'[Head(up).from].late = (closing.st = "done")
           /\ \A c \in Requests : c # Head(up).from => inst'[c] = inst[c]
<1> DEFINE f == Head(up)
<1>1. /\ Len(up) \in Nat /\ 1 \in 1..Len(up) /\ f = up[1] /\ f \in FrameType
  BY TailFacts DEF TypeOK, ServerReceives
<1>2. f.from \in Requests /\ f.stream \in Nat
  BY <1>1 DEF FrameType
<1>3. OfStream(f)
  BY <1>1 DEF UpInv, UpFrame
<1>4. f.stream \in StreamIds /\ f.stream = drawn[f.from]
  BY <1>2, <1>3 DEF OfStream, TypeOK
<1>5. inst[f.from].st = "none"
  BY <1>1, <1>2 DEF SynInv, SynOf
<1>6. PICK late \in BOOLEAN : late = (closing.st = "done")
  <2> WITNESS (closing.st = "done") \in BOOLEAN
  <2> QED
    OBVIOUS
<1>7. inst' = [inst EXCEPT ![f.from].st = "listed", ![f.from].stream = f.stream,
                          ![f.from].late = late]
  BY <1>6, Zenon DEF ServerReceives, on_syn
<1>8. ASSUME NEW b \in Requests, NEW s \in StreamIds,
             inst' = [inst EXCEPT ![b].st = "listed", ![b].stream = s, ![b].late = late]
      PROVE  /\ inst' \in [Requests -> InstType]
             /\ inst'[b].st = "listed"
             /\ inst'[b].stream = s
             /\ inst'[b].asked = inst[b].asked
             /\ inst'[b].late = late
             /\ \A c \in Requests : c # b => inst'[c] = inst[c]
  BY <1>8, ZenonT(30) DEF TypeOK, InstType
<1>9. /\ inst' \in [Requests -> InstType]
      /\ inst'[f.from].st = "listed"
      /\ inst'[f.from].stream = f.stream
      /\ inst'[f.from].asked = inst[f.from].asked
      /\ inst'[f.from].late = late
      /\ \A c \in Requests : c # f.from => inst'[c] = inst[c]
  BY <1>2, <1>4, <1>7, <1>8
<1>10. inst'[f.from].late = (closing.st = "done")
  BY <1>6, <1>9, Zenon
<1> HIDE DEF f
<1> QED
  BY <1>2, <1>4, <1>5, <1>9, <1>10 DEF f

(* It starts: with its callback, or deaf if it was told to close before.   *)
LEMMA StartInst ==
    ASSUME TypeOK, NEW b \in Requests, TunnelStarts(b)
    PROVE  /\ inst' \in [Requests -> InstType]
           /\ inst[b].st = "listed" /\ inst'[b].st \in {"connecting", "deaf"}
           /\ inst'[b].st = "deaf" => inst[b].asked
           /\ inst'[b].stream = inst[b].stream
           /\ inst'[b].asked = inst[b].asked
           /\ inst'[b].late = inst[b].late
           /\ \A c \in Requests : c # b => inst'[c] = inst[c]
<1>1. PICK st \in {"connecting", "deaf"} :
          /\ inst' = [inst EXCEPT ![b].st = st]
          /\ st = "deaf" => inst[b].asked
  BY DEF TunnelStarts
<1>2. inst[b].st = "listed"
  BY DEF TunnelStarts
<1>3. /\ inst' \in [Requests -> InstType]
      /\ inst'[b].st = st
      /\ inst'[b].stream = inst[b].stream
      /\ inst'[b].asked = inst[b].asked
      /\ inst'[b].late = inst[b].late
      /\ \A c \in Requests : c # b => inst'[c] = inst[c]
  BY <1>1 DEF TypeOK, InstType
<1> QED
  BY <1>1, <1>2, <1>3

(* A target is told to close; nothing else of it changes.                  *)
ToldInst(b) ==
    /\ inst' \in [Requests -> InstType]
    /\ inst'[b].st = inst[b].st
    /\ inst'[b].stream = inst[b].stream
    /\ inst'[b].late = inst[b].late
    /\ inst'[b].asked
    /\ \A c \in Requests : c # b => inst'[c] = inst[c]

(* stop() of a target-side session tells that session only.                *)
LEMMA StopInst ==
    ASSUME TypeOK, NEW b \in Requests, inst' = stop(b)
    PROVE  ToldInst(b)
BY DEF ToldInst, stop, TypeOK, InstType

(* A target that hangs up ends the session of its own only, once           *)
(* connected.                                                              *)
LEMMA TargetClosesInst ==
    ASSUME TypeOK, NEW b \in Requests, TargetCloses(b)
    PROVE  ToldInst(b) /\ inst[b].st = "connected"
BY DEF ToldInst, TargetCloses, TypeOK, InstType

(* Any other frame tells at most the target its number leads to.           *)
LEMMA OtherInst ==
    ASSUME TypeOK, ServerTable(smux), ServerReceives, Head(up).type # "SYN"
    PROVE  /\ inst' \in [Requests -> InstType]
           /\ \A c \in Requests :
                 /\ inst'[c].st = inst[c].st
                 /\ inst'[c].stream = inst[c].stream
                 /\ inst'[c].late = inst[c].late
                 /\ inst[c].asked => inst'[c].asked
           /\ (Head(up).type = "FIN" /\ Head(up).stream \in DOMAIN smux) =>
                 inst'[smux[Head(up).stream]].asked
           /\ \A c \in Requests : inst[c].st = "listed" => inst'[c] = inst[c]
<1> DEFINE f == Head(up)
<1>1. inst' = IF f.type = "FIN" /\ f.stream \in DOMAIN smux THEN stop(smux[f.stream]) ELSE inst
  BY DEF ServerReceives
<1>2. \A c \in Requests : inst[c].st # "listed"
  BY DEF ServerReceives
<1>3. CASE f.type = "FIN" /\ f.stream \in DOMAIN smux
  <2>1. smux[f.stream] \in Requests
    BY <1>3 DEF ServerTable
  <2> QED
    BY <1>1, <1>2, <1>3, <2>1, StopInst DEF ToldInst
<1>4. CASE ~(f.type = "FIN" /\ f.stream \in DOMAIN smux)
  BY <1>1, <1>2, <1>4 DEF TypeOK
<1> QED
  BY <1>3, <1>4

(* The target answers ...                                                  *)
LEMMA AnswerInst ==
    ASSUME TypeOK, NEW b \in Requests, TargetConnects(b) \/ TargetRefuses(b)
    PROVE  /\ inst' \in [Requests -> InstType]
           /\ inst[b].st = "connecting" /\ inst'[b].st = "connected"
           /\ inst'[b].stream = inst[b].stream
           /\ inst'[b].late = inst[b].late
           /\ inst[b].asked => inst'[b].asked
           /\ \A c \in Requests : c # b => inst'[c] = inst[c]
<1>1. CASE TargetConnects(b)
  BY <1>1 DEF TargetConnects, TypeOK, InstType
<1>2. CASE TargetRefuses(b)
  BY <1>2 DEF TargetRefuses, TypeOK, InstType
<1> QED
  BY <1>1, <1>2

(* ... or its socket has closed.                                           *)
LEMMA CloseInst ==
    ASSUME TypeOK, NEW b \in Requests, CloseTunnel(b)
    PROVE  /\ inst' \in [Requests -> InstType]
           /\ inst[b].st \in {"connecting", "connected"} /\ Running(b)
           /\ inst'[b].st = "closed" /\ inst'[b].late = inst[b].late
           /\ inst[b].asked /\ inst'[b].asked
           /\ inst'[b].stream = inst[b].stream
           /\ \A c \in Requests : c # b => inst'[c] = inst[c]
BY DEF CloseTunnel, TypeOK, InstType, Running

(* The server's loop comes to the next entry.                              *)
LEMMA ClosedNextInst ==
    ASSUME TypeOK, ServerTable(tunnels), ClosedNext
    PROVE  /\ inst' \in [Requests -> InstType]
           /\ closing'.st = "on" /\ closing'.at \in Nat /\ closing.st = "on"
           /\ closing'.at \in DOMAIN tunnels
           /\ \A j \in DOMAIN tunnels :
                 j =< closing'.at => j =< closing.at \/ j = closing'.at
           /\ ToldInst(tunnels[closing'.at])
           /\ \A c \in Requests :
                 /\ inst'[c].st = inst[c].st
                 /\ inst'[c].stream = inst[c].stream
                 /\ inst'[c].late = inst[c].late
                 /\ inst[c].asked => inst'[c].asked
<1> DEFINE i == Lowest(Ahead(tunnels, closing))
           b == tunnels[i]
<1>1. closing.st = "on" /\ closing' = [closing EXCEPT !.at = i]
      /\ inst' = stop(b)
      /\ Ahead(tunnels, closing) # {}
  BY DEF ClosedNext
<1>2. \A j \in DOMAIN tunnels : j \in Nat
  BY StreamsAssumption DEF ServerTable
<1>3. /\ i \in DOMAIN tunnels /\ i \in Nat
      /\ \A j \in DOMAIN tunnels : j =< i => j =< closing.at \/ j = i
  BY <1>1, <1>2, LowestFacts DEF TypeOK, LoopType
<1>4. b \in Requests
  BY <1>3 DEF ServerTable
<1>5. closing'.st = "on" /\ closing'.at = i
  BY <1>1 DEF TypeOK, LoopType
<1>6. ToldInst(b)
  BY <1>1, <1>4, StopInst
<1>7. /\ inst' \in [Requests -> InstType]
      /\ \A c \in Requests :
            /\ inst'[c].st = inst[c].st
            /\ inst'[c].stream = inst[c].stream
            /\ inst'[c].late = inst[c].late
            /\ inst[c].asked => inst'[c].asked
  BY <1>4, <1>6 DEF ToldInst
<1> QED
  BY <1>1, <1>3, <1>5, <1>6, <1>7

-----------------------------------------------------------------------------
(* Who changes what.                                                       *)
WhoChanges ==
    /\ id_' = id_ \/ \E b \in Browsers : Accept(b)
    /\ listening' = listening \/ Stop \/ \E b \in Browsers : Accept(b)
    /\ link' = link \/ LinkCloses
    /\ events' = events \/ (events < MaxEvents /\ events' = events + 1)
    /\ \/ sessions' = sessions /\ replaced' = replaced
       \/ \E b \in Browsers : Accept(b) \/ CloseSession(b)
    /\ mux' = mux \/ \E b \in Browsers : create_session(b) \/ Destroy(b)
    /\ \/ raced' = raced /\ drawn' = drawn
       \/ \E b \in Browsers : RequestRemoteConnect(b)
    /\ tunnels' = tunnels \/ ServerReceives \/ \E i \in Requests : CloseTunnel(i)
    /\ smux' = smux \/ \E i \in Requests : TunnelStarts(i) \/ CloseTunnel(i)
    /\ strayed' = strayed \/ ClientReceives \/ ServerReceives
    /\ \/ disturbed' = disturbed
       \/ ServerReceives
       \/ \E b \in Browsers : Accept(b) \/ CloseSession(b)
       \/ \E i \in Requests : CloseTunnel(i)
    /\ stopping' = stopping \/ Stop \/ StopNext \/ StopEnds
    /\ closing' = closing \/ OnClosed \/ ClosedNext \/ ClosedEnds
    /\ \/ up' = up
       \/ ServerReceives \/ UpIsLost
       \/ \E b \in Browsers : create_session(b) \/ SendData(b) \/ CloseSession(b)
    /\ \/ down' = down
       \/ ClientReceives \/ DownIsLost
       \/ \E i \in Requests :
             TargetConnects(i) \/ TargetRefuses(i) \/ TargetSends(i) \/ CloseTunnel(i)
    /\ \/ conn' = conn
       \/ ClientReceives \/ StopNext
       \/ \E b \in Browsers :
             \/ Accept(b) \/ RequestRemoteConnect(b) \/ create_session(b)
             \/ BrowserCloses(b) \/ CloseSession(b) \/ Destroy(b)
    /\ \/ inst' = inst
       \/ ServerReceives \/ ClosedNext
       \/ \E i \in Requests :
             \/ TunnelStarts(i) \/ TargetConnects(i) \/ TargetRefuses(i)
             \/ TargetCloses(i) \/ CloseTunnel(i)

(* Which actions write which variable of the two programs.                 *)
LEMMA Changes ==
    ASSUME [Next]_vars
    PROVE  WhoChanges
<1>1. ASSUME NEW b \in Browsers, Accept(b)
      PROVE  WhoChanges
  BY <1>1 DEF Accept, WhoChanges, serverVars
<1>2. ASSUME NEW b \in Browsers, RequestRemoteConnect(b)
      PROVE  WhoChanges
  BY <1>2 DEF RequestRemoteConnect, WhoChanges, serverVars
<1>3. ASSUME NEW b \in Browsers, create_session(b)
      PROVE  WhoChanges
  BY <1>3 DEF create_session, WhoChanges, serverVars, history
<1>4. ASSUME NEW b \in Browsers, SendData(b)
      PROVE  WhoChanges
  BY <1>4 DEF SendData, WhoChanges, clientVars, serverVars, history
<1>5. ASSUME NEW b \in Browsers, BrowserCloses(b)
      PROVE  WhoChanges
  BY <1>5 DEF BrowserCloses, WhoChanges, serverVars, history
<1>6. ASSUME NEW b \in Browsers, CloseSession(b)
      PROVE  WhoChanges
  BY <1>6 DEF CloseSession, WhoChanges, serverVars
<1>7. ASSUME NEW b \in Browsers, Destroy(b)
      PROVE  WhoChanges
  BY <1>7 DEF Destroy, WhoChanges, serverVars, history
<1>8. ASSUME NEW i \in Requests, TunnelStarts(i)
      PROVE  WhoChanges
  BY <1>8 DEF TunnelStarts, WhoChanges, clientVars, history
<1>9. ASSUME NEW i \in Requests, TargetConnects(i)
      PROVE  WhoChanges
  BY <1>9 DEF TargetConnects, WhoChanges, clientVars, history
<1>10. ASSUME NEW i \in Requests, TargetRefuses(i)
       PROVE  WhoChanges
  BY <1>10 DEF TargetRefuses, WhoChanges, clientVars, history
<1>11. ASSUME NEW i \in Requests, TargetSends(i)
       PROVE  WhoChanges
  BY <1>11 DEF TargetSends, WhoChanges, clientVars, serverVars, history
<1>12. ASSUME NEW i \in Requests, TargetCloses(i)
       PROVE  WhoChanges
  BY <1>12 DEF TargetCloses, WhoChanges, clientVars, history
<1>13. ASSUME NEW i \in Requests, CloseTunnel(i)
       PROVE  WhoChanges
  BY <1>13 DEF CloseTunnel, WhoChanges, clientVars
<1>14. CASE ClientReceives
  BY <1>14 DEF ClientReceives, WhoChanges, serverVars
<1>15. CASE ServerReceives
  BY <1>15 DEF ServerReceives, WhoChanges, clientVars
<1>16. CASE Stop
  BY <1>16 DEF Stop, WhoChanges, serverVars, history
<1>17. CASE StopNext
  BY <1>17 DEF StopNext, WhoChanges, serverVars, history
<1>18. CASE StopEnds
  BY <1>18 DEF StopEnds, WhoChanges, serverVars, history
<1>19. CASE LinkCloses
  BY <1>19 DEF LinkCloses, WhoChanges, clientVars, serverVars, history
<1>20. CASE UpIsLost
  BY <1>20 DEF UpIsLost, WhoChanges, clientVars, serverVars, history
<1>21. CASE DownIsLost
  BY <1>21 DEF DownIsLost, WhoChanges, clientVars, serverVars, history
<1>22. CASE OnClosed
  BY <1>22 DEF OnClosed, WhoChanges, clientVars, history
<1>23. CASE ClosedNext
  BY <1>23 DEF ClosedNext, WhoChanges, clientVars, history
<1>24. CASE ClosedEnds
  BY <1>24 DEF ClosedEnds, WhoChanges, clientVars, history
<1>25. CASE UNCHANGED vars
  BY <1>25 DEF vars, clientVars, serverVars, history, WhoChanges
<1> QED
  BY <1>1, <1>2, <1>3, <1>4, <1>5, <1>6, <1>7, <1>8, <1>9, <1>10, <1>11, <1>12, <1>13,
     <1>14, <1>15, <1>16, <1>17, <1>18, <1>19, <1>20, <1>21, <1>22, <1>23, <1>24, <1>25
     DEF Next

(* What becomes of a connection.                                           *)
ConnMove(c) ==
    /\ \/ conn'[c].st = conn[c].st /\ KeepsNumbers(c)
       \/ /\ Accept(c) /\ conn[c].st = "none" /\ conn'[c].st = "accepted"
          /\ conn'[c].stream = conn[c].stream /\ conn'[c].made = conn[c].made
       \/ /\ RequestRemoteConnect(c) /\ conn[c].st \in {"accepted", "next"}
          /\ conn'[c].st = "drew"
          /\ conn'[c].sid = conn[c].sid /\ conn'[c].late = conn[c].late
          /\ conn'[c].stream \in StreamIds \ DOMAIN mux
          /\ conn'[c].made = conn[c].made + 1 /\ conn'[c].made =< MaxRequests
       \/ /\ create_session(c) /\ conn[c].st = "drew" /\ conn'[c].st \in {"open", "next"}
          /\ conn'[c].st = "next" => conn[c].made < MaxRequests
          /\ KeepsNumbers(c)
       \/ conn[c].st = "open" /\ conn'[c].st = "connected" /\ KeepsNumbers(c)
       \/ /\ CloseSession(c) /\ conn[c].st \in {"accepted", "open", "connected"}
          /\ conn'[c].st = "closed" /\ KeepsNumbers(c)
       \/ /\ Destroy(c) /\ conn[c].st = "closed" /\ conn'[c].st = "destroyed"
          /\ KeepsNumbers(c)
    /\ conn[c].asked => conn'[c].asked
    /\ conn[c].p2pClosed => conn'[c].p2pClosed
    /\ (conn'[c].p2pClosed /\ ~conn[c].p2pClosed) =>
          ClientReceives /\ Hears(c) /\ Head(down).type = "FIN"

(* What a step of either program may do to a browser-side session.         *)
LEMMA ConnMoves ==
    ASSUME TypeOK, DrawInv, SessionsInv, MuxInv, [Next]_vars
    PROVE  conn' \in [Browsers -> ConnType] /\ \A c \in Browsers : ConnMove(c)
<1>1. ASSUME NEW b \in Browsers, Accept(b)
      PROVE  conn' \in [Browsers -> ConnType] /\ \A c \in Browsers : ConnMove(c)
  BY <1>1, AcceptConn DEF ConnMove, KeepsNumbers
<1>2. ASSUME NEW b \in Browsers, RequestRemoteConnect(b)
      PROVE  conn' \in [Browsers -> ConnType] /\ \A c \in Browsers : ConnMove(c)
  BY <1>2, DrawConn DEF ConnMove, KeepsNumbers
<1>3. ASSUME NEW b \in Browsers, create_session(b)
      PROVE  conn' \in [Browsers -> ConnType] /\ \A c \in Browsers : ConnMove(c)
  BY <1>3, EnterConn DEF ConnMove, KeepsNumbers
<1>4. ASSUME NEW b \in Browsers, CloseSession(b) \/ Destroy(b)
      PROVE  conn' \in [Browsers -> ConnType] /\ \A c \in Browsers : ConnMove(c)
  BY <1>4, CloseConn, DestroyConn DEF ConnMove, KeepsNumbers
<1>5. ASSUME NEW b \in Browsers, BrowserCloses(b)
      PROVE  conn' \in [Browsers -> ConnType] /\ \A c \in Browsers : ConnMove(c)
  BY <1>5, HangUpConn DEF ConnMove, KeepsNumbers
<1>6. CASE ClientReceives
  BY <1>6, ReceiveConn DEF ConnMove
<1>7. CASE StopNext
  BY <1>7, StopNextConn DEF ConnMove
<1>8. CASE conn' = conn
  BY <1>8 DEF ConnMove, KeepsNumbers, TypeOK
<1> QED
  BY <1>1, <1>2, <1>3, <1>4, <1>5, <1>6, <1>7, <1>8, Changes DEF WhoChanges

(* What becomes of a target.                                               *)
InstMove(c) ==
    /\ \/ inst'[c].st = inst[c].st /\ inst'[c].stream = inst[c].stream
          /\ inst'[c].late = inst[c].late
       \/ /\ inst[c].st = "none" /\ inst'[c].st = "listed"
          /\ inst'[c].stream = drawn[c] /\ drawn[c] \in StreamIds
          /\ inst'[c].asked = inst[c].asked
          /\ inst'[c].late = (closing.st = "done")
          /\ ServerReceives /\ Head(up).type = "SYN" /\ Head(up).from = c
       \/ /\ TunnelStarts(c) /\ inst[c].st = "listed"
          /\ inst'[c].st \in {"connecting", "deaf"}
          /\ inst'[c].st = "deaf" => inst[c].asked
          /\ inst'[c].stream = inst[c].stream /\ inst'[c].late = inst[c].late
       \/ /\ inst[c].st = "connecting" /\ inst'[c].st = "connected"
          /\ inst'[c].stream = inst[c].stream /\ inst'[c].late = inst[c].late
       \/ /\ CloseTunnel(c) /\ Running(c) /\ inst'[c].st = "closed"
          /\ inst[c].st \notin {"listed", "deaf"}
          /\ inst'[c].stream = inst[c].stream /\ inst'[c].late = inst[c].late
    /\ inst[c].asked => inst'[c].asked
    /\ (inst[c].st \in {"none", "listed"} /\ inst'[c].asked /\ ~inst[c].asked) =>
          Running(c) /\ ClosedNext

(* What a step of either program may do to a target-side session.          *)
LEMMA InstMoves ==
    ASSUME TypeOK, ServerTable(smux), ServerTable(tunnels), UpInv, SynInv, [Next]_vars
    PROVE  inst' \in [Requests -> InstType] /\ \A c \in Requests : InstMove(c)
<1>1. ASSUME NEW b \in Requests, TargetConnects(b) \/ TargetRefuses(b)
      PROVE  inst' \in [Requests -> InstType] /\ \A c \in Requests : InstMove(c)
  BY <1>1, AnswerInst DEF InstMove
<1>2. ASSUME NEW b \in Requests, TargetCloses(b)
      PROVE  inst' \in [Requests -> InstType] /\ \A c \in Requests : InstMove(c)
  BY <1>2, TargetClosesInst DEF InstMove, ToldInst
<1>3. ASSUME NEW b \in Requests, CloseTunnel(b)
      PROVE  inst' \in [Requests -> InstType] /\ \A c \in Requests : InstMove(c)
  BY <1>3, CloseInst DEF InstMove, Running
<1>4. ASSUME NEW b \in Requests, TunnelStarts(b)
      PROVE  inst' \in [Requests -> InstType] /\ \A c \in Requests : InstMove(c)
  BY <1>4, StartInst DEF InstMove
<1>5. CASE ServerReceives /\ Head(up).type = "SYN"
  BY <1>5, SynInst DEF InstMove
<1>6. CASE ServerReceives /\ Head(up).type # "SYN"
  <2>1. /\ inst' \in [Requests -> InstType]
        /\ \A c \in Requests :
              /\ inst'[c].st = inst[c].st
              /\ inst'[c].stream = inst[c].stream
              /\ inst'[c].late = inst[c].late
              /\ inst[c].asked => inst'[c].asked
              /\ inst[c].st = "listed" => inst'[c] = inst[c]
    BY <1>6, OtherInst
  <2>2. ASSUME NEW c \in Requests, inst[c].st = "none"
        PROVE  inst'[c] = inst[c]
    <3>1. \A s \in DOMAIN smux : smux[s] \in Requests /\ smux[s] # c
      BY <2>2 DEF ServerTable, Running
    <3>2. CASE Head(up).type = "FIN" /\ Head(up).stream \in DOMAIN smux
      <4>1. inst' = stop(smux[Head(up).stream])
        BY <1>6, <3>2 DEF ServerReceives
      <4> QED
        BY <3>1, <3>2, <4>1, StopInst DEF ToldInst
    <3>3. CASE ~(Head(up).type = "FIN" /\ Head(up).stream \in DOMAIN smux)
      BY <1>6, <3>3 DEF ServerReceives
    <3> QED
      BY <3>2, <3>3
  <2> QED
    BY <2>1, <2>2 DEF InstMove
<1>7. CASE ClosedNext
  <2>1. closing'.at \in DOMAIN tunnels /\ ToldInst(tunnels[closing'.at])
    BY <1>7, ClosedNextInst
  <2>2. tunnels[closing'.at] \in Requests /\ Running(tunnels[closing'.at])
    BY <2>1 DEF ServerTable
  <2> QED
    BY <1>7, <2>1, <2>2 DEF InstMove, ToldInst
<1>8. CASE inst' = inst
  BY <1>8 DEF InstMove, TypeOK
<1> QED
  BY <1>1, <1>2, <1>3, <1>4, <1>5, <1>6, <1>7, <1>8, Changes DEF WhoChanges

(* What becomes of a request on the client: it is made, then entered, and  *)
(* owned until its session is destroyed.                                   *)
RequestMove(r) ==
    /\ drawn[r] # 0 => drawn'[r] = drawn[r]
    /\ Made(r) => Made(r)'
    /\ Entered(r) => Entered(r)'
    /\ (Made(r)' /\ ~Made(r)) =>
          /\ RequestRemoteConnect(BrowserOf(r))
          /\ NumberOf(r) = conn[BrowserOf(r)].made + 1
    /\ (Entered(r)' /\ ~Entered(r)) =>
          /\ create_session(BrowserOf(r))
          /\ NumberOf(r) = conn[BrowserOf(r)].made
    /\ (Owns(r)' /\ Made(r)) => Owns(r)
    /\ (Owns(r) /\ ~Owns(r)') =>
          Destroy(BrowserOf(r)) /\ NumberOf(r) = conn[BrowserOf(r)].made

(* A request's own step is that of its browser's session.                  *)
LEMMA RequestMoves ==
    ASSUME TypeOK, DrawInv, SessionsInv, MuxInv, [Next]_vars
    PROVE  /\ drawn' \in [Requests -> StreamIds \cup {0}]
           /\ \A r \in Requests : RequestMove(r)
<1>1. \A c \in Browsers : ConnMove(c) /\ conn[c].made \in Nat
  BY ConnMoves DEF TypeOK, ConnType
<1>2. drawn' = drawn \/ \E b \in Browsers : RequestRemoteConnect(b)
  BY Changes DEF WhoChanges
<1>3. drawn' \in [Requests -> StreamIds \cup {0}]
  BY <1>2, DrawConn DEF TypeOK
<1>4. ASSUME NEW r \in Requests, drawn[r] # 0
      PROVE  drawn'[r] = drawn[r]
  <2>1. Made(r)
    BY <1>4 DEF DrawInv
  <2>2. ASSUME NEW b \in Browsers, RequestRemoteConnect(b)
        PROVE  r # Request(b, conn[b].made + 1)
    BY <1>1, <2>1, RequestFacts DEF Made
  <2> QED
    BY <1>2, <2>2, DrawConn
<1>5. ASSUME NEW r \in Requests
      PROVE  RequestMove(r)
  <2>1. BrowserOf(r) \in Browsers /\ NumberOf(r) \in Nat
    BY RequestFacts
  <2>2. ConnMove(BrowserOf(r)) /\ conn[BrowserOf(r)].made \in Nat
    BY <1>1, <2>1
  <2>3. /\ Made(r) => Made(r)'
        /\ (Made(r)' /\ ~Made(r)) =>
              /\ RequestRemoteConnect(BrowserOf(r))
              /\ NumberOf(r) = conn[BrowserOf(r)].made + 1
    BY <2>1, <2>2 DEF Made, ConnMove, KeepsNumbers
  <2>4. /\ Entered(r) => Entered(r)'
        /\ (Entered(r)' /\ ~Entered(r)) =>
              /\ create_session(BrowserOf(r))
              /\ NumberOf(r) = conn[BrowserOf(r)].made
    BY <2>1, <2>2 DEF Entered, Made, ConnMove, KeepsNumbers
  <2>5. /\ (Owns(r)' /\ Made(r)) => Owns(r)
        /\ (Owns(r) /\ ~Owns(r)') =>
              Destroy(BrowserOf(r)) /\ NumberOf(r) = conn[BrowserOf(r)].made
    BY <2>1, <2>2 DEF Owns, Made, ConnMove, KeepsNumbers
  <2> QED
    BY <1>4, <2>3, <2>4, <2>5 DEF RequestMove
<1> QED
  BY <1>3, <1>5

-----------------------------------------------------------------------------
(* The data channel: a frame more at its end while it is open, nothing     *)
(* when it is closed.                                                      *)
Sent(queue, queue2, f) ==
    /\ queue2 \in Seq(FrameType)
    /\ Len(queue) \in Nat /\ Len(queue2) \in Nat
    /\ \A k \in 1..Len(queue) : k \in 1..Len(queue2) /\ queue2[k] = queue[k]
    /\ \A k \in 1..Len(queue2) :
          \/ k \in 1..Len(queue) /\ queue2[k] = queue[k]
          \/ k = Len(queue) + 1 /\ queue2[k] = f /\ link
    /\ link => \E k \in 1..Len(queue2) : k = Len(queue) + 1 /\ queue2[k] = f

(* A frame sent goes to the end of its queue, or nowhere when the channel  *)
(* is closed.                                                              *)
LEMMA AppendSent ==
    ASSUME NEW queue \in Seq(FrameType), NEW queue2, NEW f \in FrameType,
           queue2 = IF link THEN Append(queue, f) ELSE queue
    PROVE  Sent(queue, queue2, f)
<1>1. CASE link
  <2>1. queue2 = Append(queue, f)
    BY <1>1
  <2>2. /\ queue2 \in Seq(FrameType) /\ Len(queue) \in Nat
        /\ Len(queue2) = Len(queue) + 1
        /\ queue2[Len(queue) + 1] = f
        /\ \A i \in 1..Len(queue) : queue2[i] = queue[i]
    BY <2>1, AppendFacts
  <2>3. Len(queue) + 1 \in 1..Len(queue2)
    BY <2>2
  <2> QED
    BY <1>1, <2>2, <2>3 DEF Sent
<1>2. CASE ~link
  <2>1. queue2 = queue
    BY <1>2
  <2> QED
    BY <1>2, <2>1, LenProperties DEF Sent
<1> QED
  BY <1>1, <1>2

(* The client's send, so.                                                  *)
LEMMA SendUpSent ==
    ASSUME TypeOK, NEW f \in FrameType, SendUp(f)
    PROVE  Sent(up, up', f)
BY AppendSent DEF SendUp, TypeOK

(* The server's send, so.                                                  *)
LEMMA SendDownSent ==
    ASSUME TypeOK, NEW f \in FrameType, SendDown(f)
    PROVE  Sent(down, down', f)
BY AppendSent DEF SendDown, TypeOK

(* The numbers a connection may put in a frame.                            *)
LEMMA NumbersAreNat ==
    ASSUME TypeOK
    PROVE  /\ \A b \in Browsers : conn[b].stream \in Nat /\ conn[b].sid \in Nat
           /\ \A r \in Requests : inst[r].stream \in Nat /\ drawn[r] \in Nat
<1>1. StreamIds \cup {0} \subseteq Nat
  BY StreamsAssumption
<1>2. ASSUME NEW b \in Browsers
      PROVE  conn[b].stream \in Nat /\ conn[b].sid \in Nat
  BY <1>1 DEF TypeOK, ConnType
<1>3. ASSUME NEW r \in Requests
      PROVE  inst[r].stream \in Nat /\ drawn[r] \in Nat
  BY <1>1 DEF TypeOK, InstType
<1> QED
  BY <1>2, <1>3

(* Who sends what up: the new frame is the sender's own.                   *)
SentUp(r, type, stream) ==
    \E f \in FrameType :
        f.from = r /\ f.type = type /\ f.stream = stream /\ Sent(up, up', f)

(* create_session sends SYN with the number drawn.                         *)
LEMMA SynSent ==
    ASSUME TypeOK, DrawInv, NEW b \in Browsers, create_session(b)
    PROVE  Current(b) \in Requests /\ SentUp(Current(b), "SYN", conn[b].stream)
<1> DEFINE f == Frame("SYN", conn[b].stream, Current(b))
<1>1. conn[b].made > 0
  BY CurrentFacts DEF create_session, DrawInv
<1>2. Current(b) \in Requests
  BY <1>1, CurrentFacts
<1>3. f \in FrameType /\ f.from = Current(b) /\ f.type = "SYN" /\ f.stream = conn[b].stream
  BY <1>2, NumbersAreNat DEF Frame, FrameType
<1>4. Sent(up, up', f)
  BY <1>3, SendUpSent DEF create_session
<1> HIDE DEF f
<1> QED
  BY <1>2, <1>3, <1>4 DEF SentUp

(* A browser's bytes go up under its session's number.                     *)
LEMMA DataSent ==
    ASSUME TypeOK, DrawInv, NEW b \in Browsers, SendData(b)
    PROVE  Current(b) \in Requests /\ SentUp(Current(b), "DATA", StreamToSend(b))
<1> DEFINE f == Frame("DATA", StreamToSend(b), Current(b))
<1>1. conn[b].made > 0
  BY CurrentFacts DEF SendData, DrawInv
<1>2. Current(b) \in Requests
  BY <1>1, CurrentFacts
<1>3. f \in FrameType /\ f.from = Current(b) /\ f.type = "DATA" /\ f.stream = StreamToSend(b)
  BY <1>2, NumbersAreNat DEF Frame, FrameType, StreamToSend
<1>4. Sent(up, up', f)
  BY <1>3, SendUpSent DEF SendData
<1> HIDE DEF f
<1> QED
  BY <1>2, <1>3, <1>4 DEF SentUp

(* A FIN if there is a stream that the peer has not closed.                *)
LEMMA FinSent ==
    ASSUME TypeOK, DrawInv, NEW b \in Browsers, CloseSession(b)
    PROVE  IF conn[b].stream # 0 /\ ~conn[b].p2pClosed
           THEN Current(b) \in Requests /\ SentUp(Current(b), "FIN", conn[b].stream)
           ELSE up' = up
<1> DEFINE f == Frame("FIN", conn[b].stream, Current(b))
<1>1. CASE conn[b].stream # 0 /\ ~conn[b].p2pClosed
  <2>1. Current(b) \in Requests
    BY <1>1, CurrentFacts
  <2>2. f \in FrameType /\ f.from = Current(b) /\ f.type = "FIN" /\ f.stream = conn[b].stream
    BY <2>1, NumbersAreNat DEF Frame, FrameType
  <2>3. Sent(up, up', f)
    BY <1>1, <2>2, SendUpSent DEF CloseSession
  <2> HIDE DEF f
  <2> QED
    BY <1>1, <2>1, <2>2, <2>3 DEF SentUp
<1>2. CASE ~(conn[b].stream # 0 /\ ~conn[b].p2pClosed)
  BY <1>2 DEF CloseSession
<1> QED
  BY <1>1, <1>2

UpMove ==
    \/ up' = up
    \/ \E b \in Browsers :
          /\ Current(b) \in Requests
          /\ \/ create_session(b) /\ SentUp(Current(b), "SYN", conn[b].stream)
             \/ SendData(b) /\ SentUp(Current(b), "DATA", StreamToSend(b))
             \/ /\ CloseSession(b) /\ SentUp(Current(b), "FIN", conn[b].stream)
                /\ conn[b].stream # 0 /\ ~conn[b].p2pClosed
    \/ ServerReceives /\ up # <<>> /\ up' = Tail(up)
    \/ UpIsLost /\ ~link /\ up' = <<>>

(* What a step may do to the frames for the server: one more at the end,   *)
(* the first one gone, or all gone.                                        *)
LEMMA UpMoves ==
    ASSUME TypeOK, DrawInv, [Next]_vars
    PROVE  UpMove
<1>1. ASSUME NEW b \in Browsers, create_session(b) \/ SendData(b)
      PROVE  UpMove
  BY <1>1, SynSent, DataSent DEF UpMove
<1>2. ASSUME NEW b \in Browsers, CloseSession(b)
      PROVE  UpMove
  BY <1>2, FinSent DEF UpMove
<1>3. CASE ServerReceives
  BY <1>3 DEF ServerReceives, UpMove
<1>4. CASE UpIsLost
  BY <1>4 DEF UpIsLost, UpMove
<1>5. CASE up' = up
  BY <1>5 DEF UpMove
<1> QED
  BY <1>1, <1>2, <1>3, <1>4, <1>5, Changes DEF WhoChanges

(* And down.                                                               *)
DownMove ==
    \/ down' = down
    \/ \E i \in Requests, f \in FrameType :
          /\ f.from = i /\ f.stream = inst[i].stream /\ Sent(down, down', f)
          /\ inst[i].st # "none" /\ inst'[i].st # "none"
          /\ f.type # "SYN"
          /\ f.type = "FIN" => inst'[i].st = "closed"
    \/ ClientReceives /\ down # <<>> /\ down' = Tail(down)
    \/ down' = <<>>

(* The same for the frames for the client.                                 *)
LEMMA DownMoves ==
    ASSUME TypeOK, [Next]_vars
    PROVE  DownMove
<1>1. \A i \in Requests : inst[i].stream \in Nat
  BY NumbersAreNat
<1>2. ASSUME NEW i \in Requests, TargetConnects(i)
      PROVE  DownMove
  <2> DEFINE f == Frame("SYNACK", inst[i].stream, i)
  <2>1. f \in FrameType /\ f.from = i /\ f.type = "SYNACK" /\ f.stream = inst[i].stream
    BY <1>1 DEF Frame, FrameType
  <2>2. Sent(down, down', f)
    BY <1>2, <2>1, SendDownSent DEF TargetConnects
  <2>3. inst[i].st # "none" /\ inst'[i].st # "none"
    BY <1>2, AnswerInst
  <2> HIDE DEF f
  <2> QED
    BY <2>1, <2>2, <2>3 DEF DownMove
<1>3. ASSUME NEW i \in Requests, TargetRefuses(i)
      PROVE  DownMove
  <2> DEFINE f == Frame("NAK", inst[i].stream, i)
  <2>1. f \in FrameType /\ f.from = i /\ f.type = "NAK" /\ f.stream = inst[i].stream
    BY <1>1 DEF Frame, FrameType
  <2>2. Sent(down, down', f)
    BY <1>3, <2>1, SendDownSent DEF TargetRefuses
  <2>3. inst[i].st # "none" /\ inst'[i].st # "none"
    BY <1>3, AnswerInst
  <2> HIDE DEF f
  <2> QED
    BY <2>1, <2>2, <2>3 DEF DownMove
<1>4. ASSUME NEW i \in Requests, TargetSends(i)
      PROVE  DownMove
  <2> DEFINE f == Frame("DATA", inst[i].stream, i)
  <2>1. f \in FrameType /\ f.from = i /\ f.type = "DATA" /\ f.stream = inst[i].stream
    BY <1>1 DEF Frame, FrameType
  <2>2. Sent(down, down', f)
    BY <1>4, <2>1, SendDownSent DEF TargetSends
  <2>3. inst[i].st # "none" /\ inst'[i].st # "none"
    BY <1>4 DEF TargetSends, serverVars
  <2> HIDE DEF f
  <2> QED
    BY <2>1, <2>2, <2>3 DEF DownMove
<1>5. ASSUME NEW i \in Requests, CloseTunnel(i)
      PROVE  DownMove
  <2> DEFINE f == Frame("FIN", inst[i].stream, i)
  <2>1. f \in FrameType /\ f.from = i /\ f.type = "FIN" /\ f.stream = inst[i].stream
    BY <1>1 DEF Frame, FrameType
  <2>2. inst[i].st # "none" /\ inst'[i].st = "closed"
    BY <1>5, CloseInst DEF Running
  <2>3. CASE ~inst[i].p2pClosed
    <3>1. Sent(down, down', f)
      BY <1>5, <2>1, <2>3, SendDownSent DEF CloseTunnel
    <3> HIDE DEF f
    <3> QED
      BY <2>1, <2>2, <3>1 DEF DownMove
  <2>4. CASE inst[i].p2pClosed
    BY <1>5, <2>4 DEF CloseTunnel, DownMove
  <2> QED
    BY <2>3, <2>4
<1>6. CASE ClientReceives
  BY <1>6 DEF ClientReceives, DownMove
<1>7. CASE DownIsLost
  BY <1>7 DEF DownIsLost, DownMove
<1>8. CASE down' = down
  BY <1>8 DEF DownMove
<1> QED
  BY <1>2, <1>3, <1>4, <1>5, <1>6, <1>7, <1>8, Changes DEF WhoChanges

-----------------------------------------------------------------------------
(* Every step keeps the types.                                             *)
LEMMA NextTypeOK ==
    ASSUME TypeOK, DrawInv, SessionsInv, MuxInv, ServerTable(smux), ServerTable(tunnels),
           UpInv, SynInv, [Next]_vars
    PROVE  TypeOK'
<1>1. WhoChanges
  BY Changes
<1>2. id_' \in Nat
  <2>1. ASSUME NEW b \in Browsers, Accept(b)
        PROVE  id_' \in Nat
    BY <2>1 DEF Accept, create_session_id, TypeOK
  <2> QED
    BY <1>1, <2>1 DEF WhoChanges, TypeOK
<1>3. listening' \in {"yes", "late", "no"}
  <2>1. ASSUME NEW b \in Browsers, Accept(b)
        PROVE  listening' \in {"yes", "late", "no"}
    BY <2>1 DEF Accept, TypeOK
  <2>2. CASE Stop
    BY <2>2 DEF Stop
  <2> QED
    BY <1>1, <2>1, <2>2 DEF WhoChanges, TypeOK
<1>4. link' \in BOOLEAN
  <2>1. CASE link' = link
    BY <2>1, Zenon DEF TypeOK
  <2>2. CASE LinkCloses
    BY <2>2, Zenon DEF LinkCloses
  <2> QED
    BY <1>1, <2>1, <2>2, Zenon DEF WhoChanges
<1>5. events' \in Nat
  BY <1>1 DEF WhoChanges, TypeOK
<1>6. conn' \in [Browsers -> ConnType] /\ inst' \in [Requests -> InstType]
      /\ drawn' \in [Requests -> StreamIds \cup {0}]
  BY ConnMoves, InstMoves, RequestMoves
<1>7. up' \in Seq(FrameType)
  <2>1. CASE up # <<>> /\ up' = Tail(up)
    BY <2>1, TailFacts DEF TypeOK
  <2>2. <<>> \in Seq(FrameType)
    OBVIOUS
  <2> QED
    BY <2>1, <2>2, UpMoves DEF UpMove, SentUp, Sent, TypeOK
<1>8. down' \in Seq(FrameType)
  <2>1. CASE down # <<>> /\ down' = Tail(down)
    BY <2>1, TailFacts DEF TypeOK
  <2>2. <<>> \in Seq(FrameType)
    OBVIOUS
  <2> QED
    BY <2>1, <2>2, DownMoves DEF DownMove, Sent, TypeOK
<1>9. stopping' \in LoopType
  <2>1. CASE Stop \/ StopEnds
    BY <2>1 DEF Stop, StopEnds, TypeOK, LoopType
  <2>2. CASE StopNext
    <3>1. stopping' = [stopping EXCEPT !.at = stopping'.at] /\ stopping'.at \in Nat
      BY <2>2, StopNextConn DEF StopNext, TypeOK, LoopType
    <3> QED
      BY <3>1 DEF TypeOK, LoopType
  <2> QED
    BY <1>1, <2>1, <2>2 DEF WhoChanges, TypeOK
<1>10. closing' \in LoopType
  <2>1. CASE OnClosed \/ ClosedEnds
    BY <2>1 DEF OnClosed, ClosedEnds, TypeOK, LoopType
  <2>2. CASE ClosedNext
    <3>1. closing' = [closing EXCEPT !.at = closing'.at] /\ closing'.at \in Nat
      BY <2>2, ClosedNextInst DEF ClosedNext, TypeOK, LoopType
    <3> QED
      BY <3>1 DEF TypeOK, LoopType
  <2> QED
    BY <1>1, <2>1, <2>2 DEF WhoChanges, TypeOK
<1> QED
  BY <1>2, <1>3, <1>4, <1>5, <1>6, <1>7, <1>8, <1>9, <1>10, Zenon DEF TypeOK

-----------------------------------------------------------------------------
(* The client's tables.                                                    *)

(* A number, once drawn, is kept, and what was once drawn again stays so.  *)
LEMMA DrawKept ==
    ASSUME TypeOK, DrawInv, SessionsInv, MuxInv, [Next]_vars
    PROVE  /\ DrawInv'
           /\ \A r \in Requests : drawn[r] # 0 => drawn'[r] = drawn[r]
           /\ Redrawn \subseteq Redrawn'
<1>1. \A c \in Browsers : ConnMove(c) /\ conn[c].made \in Nat
  BY ConnMoves DEF TypeOK, ConnType
<1>2. \A r \in Requests : drawn[r] # 0 => drawn'[r] = drawn[r]
  BY RequestMoves DEF RequestMove
<1>3. Redrawn \subseteq Redrawn'
  BY <1>2, StreamsAssumption DEF Redrawn
<1>4. ASSUME NEW b \in Browsers, RequestRemoteConnect(b)
      PROVE  DrawInv'
  <2> DEFINE n == Request(b, conn[b].made + 1)
  <2>1. /\ n \in Requests /\ drawn'[n] = conn'[b].stream
        /\ conn'[b].stream # 0
        /\ \A r \in Requests : r # n => drawn'[r] = drawn[r]
        /\ conn'[b].made = conn[b].made + 1 /\ conn'[b].made =< MaxRequests
        /\ conn'[b].st = "drew"
        /\ \A c \in Browsers : c # b => conn'[c] = conn[c]
    BY <1>4, DrawConn, StreamsAssumption
  <2>2. BrowserOf(n) = b /\ NumberOf(n) = conn[b].made + 1
    BY RequestFacts
  <2>3. Current(b)' = n
    BY <2>1 DEF Current
  <2> HIDE DEF n
  <2>4. ASSUME NEW c \in Browsers, c # b, conn[c].made > 0
        PROVE  drawn'[Current(c)'] = conn'[c].stream
    <3>1. Current(c)' = Current(c) /\ Current(c) \in Requests /\ BrowserOf(Current(c)) = c
      BY <2>1, <2>4, CurrentFacts DEF Current
    <3> QED
      BY <2>1, <2>2, <2>4, <3>1 DEF DrawInv
  <2>5. ASSUME NEW r \in Requests
        PROVE  Made(r)' <=> drawn'[r] # 0
    <3>1. CASE r = n
      BY <1>1, <2>1, <2>2, <3>1 DEF Made
    <3>2. CASE r # n
      <4>1. Made(r)' <=> Made(r)
        BY <1>1, <2>1, <2>2, <3>2, RequestFacts DEF Made
      <4> QED
        BY <2>1, <3>2, <4>1 DEF DrawInv
    <3> QED
      BY <3>1, <3>2
  <2>6. ASSUME NEW c \in Browsers
        PROVE  /\ conn'[c].made =< MaxRequests
               /\ conn'[c].made = 0 => conn'[c].stream = 0
               /\ conn'[c].made > 0 => conn'[c].stream = drawn'[Current(c)']
               /\ conn'[c].st \in {"none", "accepted"} => conn'[c].made = 0
               /\ conn'[c].st \in {"drew", "next", "open", "connected"} => conn'[c].made > 0
               /\ conn'[c].st = "next" => conn'[c].made < MaxRequests
    <3>1. CASE c = b
      BY <1>1, <2>1, <2>3, <3>1
    <3>2. CASE c # b
      BY <1>1, <2>1, <2>4, <3>2 DEF DrawInv
    <3> QED
      BY <3>1, <3>2
  <2> QED
    BY <2>5, <2>6 DEF DrawInv
<1>5. ASSUME \A b \in Browsers : ~RequestRemoteConnect(b)
      PROVE  DrawInv'
  <2>1. drawn' = drawn
    BY <1>5, Changes DEF WhoChanges
  <2>2. ASSUME NEW c \in Browsers
        PROVE  conn'[c].made = conn[c].made /\ conn'[c].stream = conn[c].stream
    BY <1>1, <1>5 DEF ConnMove, KeepsNumbers
  <2>3. \A c \in Browsers : Current(c)' = Current(c)
    BY <2>2 DEF Current
  <2>4. \A r \in Requests : Made(r)' <=> Made(r)
    BY <2>2, RequestFacts DEF Made
  <2>5. ASSUME NEW c \in Browsers
        PROVE  /\ conn'[c].made =< MaxRequests
               /\ conn'[c].made = 0 => conn'[c].stream = 0
               /\ conn'[c].made > 0 => conn'[c].stream = drawn'[Current(c)']
               /\ conn'[c].st \in {"none", "accepted"} => conn'[c].made = 0
               /\ conn'[c].st \in {"drew", "next", "open", "connected"} => conn'[c].made > 0
               /\ conn'[c].st = "next" => conn'[c].made < MaxRequests
    <3>1. /\ conn[c].made =< MaxRequests
          /\ conn[c].made = 0 => conn[c].stream = 0
          /\ conn[c].made > 0 => conn[c].stream = drawn[Current(c)]
      BY DEF DrawInv
    <3>2. /\ conn'[c].st \in {"none", "accepted"} => conn[c].made = 0
          /\ conn'[c].st \in {"drew", "next", "open", "connected"} => conn[c].made > 0
          /\ conn'[c].st = "next" => conn[c].made < MaxRequests
      BY <1>1, <1>5 DEF DrawInv, ConnMove
    <3> QED
      BY <2>1, <2>2, <2>3, <3>1, <3>2
  <2>6. ASSUME NEW r \in Requests
        PROVE  Made(r)' <=> drawn'[r] # 0
    BY <2>1, <2>4 DEF DrawInv
  <2> QED
    BY <2>5, <2>6 DEF DrawInv
<1>6. DrawInv'
  BY <1>4, <1>5, Zenon
<1> QED
  BY <1>2, <1>3, <1>6

(* The client's table of sessions leads to sessions of that number         *)
(* whatever is accepted, closed or erased (SessionManager).                *)
LEMMA SessionsKept ==
    ASSUME TypeOK, DrawInv, SessionsInv, MuxInv, [Next]_vars
    PROVE  SessionsInv'
<1>1. \A c \in Browsers : ConnMove(c)
  BY ConnMoves
<1>2. ASSUME NEW b \in Browsers, Accept(b)
      PROVE  SessionsInv'
  <2> DEFINE n == create_session_id
  <2>1. IsPut(sessions', sessions, n, b)
    BY <1>2, PutFacts DEF Accept
  <2>2. n \in Nat \ {0}
    BY DEF create_session_id, TypeOK
  <2>3. \A c \in Browsers : conn'[c] = conn[c] \/ (c = b /\ conn'[c].st = "accepted")
    BY <1>2, AcceptConn
  <2>4. conn'[b].st = "accepted"
    BY <1>2, AcceptConn
  <2> HIDE DEF n
  <2>5. ASSUME NEW i \in DOMAIN sessions'
        PROVE  /\ i \in Nat \ {0} /\ sessions'[i] \in Browsers
               /\ conn'[sessions'[i]].st \notin {"none", "destroyed"}
    <3>1. CASE i = n
      BY <2>1, <2>2, <2>4, <3>1 DEF IsPut
    <3>2. CASE i # n
      <4>1. i \in DOMAIN sessions /\ sessions'[i] = sessions[i]
        BY <2>1, <3>2 DEF IsPut
      <4> QED
        BY <2>3, <4>1 DEF SessionsInv
    <3> QED
      BY <3>1, <3>2
  <2> QED
    BY <2>5 DEF SessionsInv
<1>3. ASSUME NEW b \in Browsers, CloseSession(b)
      PROVE  SessionsInv'
  <2>1. IsErase(sessions', sessions, conn[b].sid) \/ sessions' = sessions
    <3>1. sessions' = IF conn[b].onClose THEN Erase(sessions, conn[b].sid) ELSE sessions
      BY <1>3 DEF CloseSession
    <3>2. sessions' = Erase(sessions, conn[b].sid) \/ sessions' = sessions
      BY <3>1
    <3> QED
      BY <3>2, EraseFacts
  <2>2. \A c \in Browsers : conn'[c] = conn[c] \/ (c = b /\ conn'[c].st = "closed")
    BY <1>3, CloseConn
  <2> QED
    BY <2>1, <2>2 DEF IsErase, SessionsInv
<1>4. ASSUME NEW b \in Browsers, Destroy(b)
      PROVE  SessionsInv'
  <2>1. sessions' = sessions /\ \A i \in DOMAIN sessions : sessions[i] # b
    BY <1>4 DEF Destroy
  <2>2. \A c \in Browsers : c # b => conn'[c] = conn[c]
    BY <1>4, DestroyConn
  <2> QED
    BY <2>1, <2>2 DEF SessionsInv
<1>5. CASE /\ sessions' = sessions
           /\ \A b \in Browsers : ~Destroy(b)
  BY <1>1, <1>5 DEF SessionsInv, ConnMove
<1> QED
  BY <1>2, <1>3, <1>4, <1>5, Changes DEF WhoChanges

(* The client's multiplexer leads to sessions of the number it is asked    *)
(* for (SessionMux::streams_).                                             *)
LEMMA MuxKept ==
    ASSUME TypeOK, DrawInv, SessionsInv, MuxInv, [Next]_vars
    PROVE  MuxInv'
<1>1. \A r \in Requests : RequestMove(r)
  BY RequestMoves
<1>2. ASSUME NEW s \in DOMAIN mux, NEW r, r = mux[s],
             ~(\E b \in Browsers : Destroy(b) /\ r = Current(b))
      PROVE  /\ s \in StreamIds
             /\ r \in Requests
             /\ drawn'[r] = s
             /\ Entered(r)'
             /\ Owns(r)'
  <2>1. /\ s \in StreamIds /\ r \in Requests
        /\ drawn[r] = s /\ Entered(r) /\ Owns(r)
    BY <1>2 DEF MuxInv
  <2>2. drawn'[r] = s
    BY <1>1, <2>1, StreamsAssumption DEF RequestMove
  <2>3. Owns(r)'
    <3>1. SUFFICES ASSUME ~Owns(r)' PROVE FALSE
      OBVIOUS
    <3>2. /\ Destroy(BrowserOf(r))
          /\ NumberOf(r) = conn[BrowserOf(r)].made
      BY <1>1, <2>1, <3>1 DEF RequestMove
    <3>3. r = Current(BrowserOf(r)) /\ BrowserOf(r) \in Browsers
      BY <2>1, <3>2, RequestFacts DEF Current
    <3> QED
      BY <1>2, <3>2, <3>3
  <2>4. Entered(r)'
    BY <1>1, <2>1 DEF RequestMove
  <2> QED
    BY <2>1, <2>2, <2>3, <2>4
<1>3. ASSUME NEW b \in Browsers, create_session(b)
      PROVE  MuxInv'
  <2>1. IsPut(mux', mux, conn[b].stream, Current(b)) /\ drawn' = drawn
    BY <1>3, PutFacts DEF create_session, history
  <2>2. /\ conn[b].st = "drew" /\ conn'[b].st \in {"open", "next"} /\ KeepsNumbers(b)
        /\ \A c \in Browsers : c # b => conn'[c] = conn[c]
    BY <1>3, EnterConn
  <2>3. conn[b].made > 0
    BY <2>2, CurrentFacts DEF DrawInv
  <2>4. /\ conn[b].stream \in StreamIds /\ Current(b) \in Requests
        /\ drawn[Current(b)] = conn[b].stream
        /\ BrowserOf(Current(b)) = b /\ NumberOf(Current(b)) = conn[b].made
        /\ conn[b].made \in Nat
    BY <2>3, CurrentFacts
  <2>5. PICK n \in Requests : n = Current(b)
    BY <2>4
  <2>8. Entered(n)' /\ Owns(n)'
    <3>1. BrowserOf(n) = b /\ NumberOf(n) = conn[b].made
      BY <2>4, <2>5
    <3> QED
      BY <2>2, <2>4, <3>1 DEF Entered, Owns, Made, KeepsNumbers
  <2>6. \A c \in Browsers : ~Destroy(c)
    <3>1. ASSUME NEW c \in Browsers, Destroy(c)
          PROVE  FALSE
      BY <2>2, <3>1, DestroyConn
    <3> QED
      BY <3>1
  <2>7. ASSUME NEW s \in DOMAIN mux', NEW r, r = mux'[s]
        PROVE  /\ s \in StreamIds
               /\ r \in Requests
               /\ drawn'[r] = s
               /\ Entered(r)' /\ Owns(r)'
    <3>1. CASE s = conn[b].stream
      <4>1. r = n
        BY <2>1, <2>5, <2>7, <3>1 DEF IsPut
      <4> QED
        BY <2>1, <2>4, <2>5, <2>8, <3>1, <4>1
    <3>2. CASE s # conn[b].stream
      <4>1. s \in DOMAIN mux /\ r = mux[s]
        BY <2>1, <2>7, <3>2 DEF IsPut
      <4> QED
        BY <1>2, <2>6, <4>1
    <3> QED
      BY <3>1, <3>2
  <2> QED
    BY <2>7 DEF MuxInv
<1>4. ASSUME NEW b \in Browsers, Destroy(b)
      PROVE  MuxInv'
  <2>1. \/ IsErase(mux', mux, conn[b].stream)
        \/ conn[b].stream = 0 /\ mux' = mux
    <3>1. mux' = IF conn[b].stream # 0 THEN Erase(mux, conn[b].stream) ELSE mux
      BY <1>4 DEF Destroy
    <3> QED
      BY <3>1, EraseFacts
  <2>2. \A c \in Browsers : Destroy(c) => c = b
    BY <1>4, DestroyConn
  <2>3. ASSUME NEW s \in DOMAIN mux'
        PROVE  s \in DOMAIN mux /\ mux'[s] = mux[s] /\ mux[s] # Current(b)
    <3>1. s \in DOMAIN mux /\ mux'[s] = mux[s]
      BY <2>1 DEF IsErase
    <3>2. /\ s \in StreamIds /\ mux[s] \in Requests /\ drawn[mux[s]] = s
          /\ Made(mux[s])
      BY <3>1 DEF MuxInv, Owns
    <3>3. ASSUME mux[s] = Current(b)
          PROVE  FALSE
      <4>1. conn[b].made > 0
        BY <3>2, <3>3, RequestFacts, CurrentFacts DEF Made, Current
      <4>2. conn[b].stream = s /\ conn[b].stream # 0
        BY <3>2, <3>3, <4>1, CurrentFacts
      <4> QED
        BY <2>1, <4>2 DEF IsErase
    <3> QED
      BY <3>1, <3>3
  <2>4. ASSUME NEW s \in DOMAIN mux', NEW r, r = mux'[s]
        PROVE  /\ s \in StreamIds
               /\ r \in Requests
               /\ drawn'[r] = s
               /\ Entered(r)' /\ Owns(r)'
    BY <1>2, <2>2, <2>3, <2>4
  <2> QED
    BY <2>4 DEF MuxInv
<1>5. CASE mux' = mux /\ \A b \in Browsers : ~Destroy(b)
  <2>1. ASSUME NEW s \in DOMAIN mux', NEW r, r = mux'[s]
        PROVE  /\ s \in StreamIds
               /\ r \in Requests
               /\ drawn'[r] = s
               /\ Entered(r)' /\ Owns(r)'
    BY <1>2, <1>5, <2>1
  <2> QED
    BY <2>1 DEF MuxInv
<1> QED
  BY <1>3, <1>4, <1>5, Changes DEF WhoChanges

(* A session that has not closed stays in the table, so stop_all finds it  *)
(* (SessionManager::sessions_).                                            *)
LEMMA ListedKept ==
    ASSUME TypeOK, DrawInv, SessionsInv, MuxInv, ListedInv, [Next]_vars
    PROVE  ListedInv'
<1>1. \A c \in Browsers : ConnMove(c)
  BY ConnMoves
<1>2. ASSUME NEW b \in Browsers, Accept(b)
      PROVE  ListedInv'
  <2> DEFINE n == create_session_id
  <2>1. /\ IsPut(sessions', sessions, n, b)
        /\ replaced' = replaced \cup {sessions[i] : i \in DOMAIN sessions \cap {n}}
    BY <1>2, PutFacts DEF Accept
  <2>2. conn'[b].sid = n /\ \A c \in Browsers : c # b => conn'[c] = conn[c]
    BY <1>2, AcceptConn
  <2> HIDE DEF n
  <2> QED
    BY <2>1, <2>2 DEF IsPut, ListedInv, Live
<1>3. ASSUME NEW b \in Browsers, CloseSession(b)
      PROVE  ListedInv'
  <2>1. IsErase(sessions', sessions, conn[b].sid) \/ sessions' = sessions
    <3>1. sessions' = IF conn[b].onClose THEN Erase(sessions, conn[b].sid) ELSE sessions
      BY <1>3 DEF CloseSession
    <3>2. sessions' = Erase(sessions, conn[b].sid) \/ sessions' = sessions
      BY <3>1
    <3> QED
      BY <3>2, EraseFacts
  <2>2. replaced' = replaced \cup
          ({sessions[i] : i \in DOMAIN sessions \ DOMAIN sessions'} \ {b})
    BY <1>3 DEF CloseSession
  <2>3. conn'[b].st = "closed" /\ \A c \in Browsers : c # b => conn'[c] = conn[c]
    BY <1>3, CloseConn
  <2> QED
    BY <2>1, <2>2, <2>3 DEF IsErase, ListedInv, Live
<1>4. CASE /\ sessions' = sessions /\ replaced' = replaced
           /\ \A b \in Browsers : ~Accept(b)
  BY <1>1, <1>4 DEF ListedInv, Live, ConnMove, KeepsNumbers
<1> QED
  BY <1>2, <1>3, <1>4, Changes DEF WhoChanges

(* Of the requests that own a stream not drawn in a race, no other owns    *)
(* it, and once it is entered in the mux it stays there.                   *)
LEMMA OwnerKept ==
    ASSUME TypeOK, DrawInv, SessionsInv, MuxInv, OwnerInv, [Next]_vars
    PROVE  OwnerInv'
<1>1. \A r \in Requests : RequestMove(r)
  BY RequestMoves
<1>2. \A r \in Requests : BrowserOf(r) \in Browsers /\ NumberOf(r) \in Nat
  BY RequestFacts
<1>3. \A c \in Browsers : conn[c].made \in Nat
  BY DEF TypeOK, ConnType
<1>4. ASSUME NEW b \in Browsers, RequestRemoteConnect(b)
      PROVE  OwnerInv'
  <2> DEFINE s == conn'[b].stream
  <2>0. PICK n \in Requests : n = Request(b, conn[b].made + 1)
    BY <1>4, DrawConn
  <2>1. /\ s \in StreamIds \ DOMAIN mux
        /\ n \in Requests /\ drawn'[n] = s
        /\ \A r \in Requests : r # n => drawn'[r] = drawn[r]
        /\ conn[b].st \in {"accepted", "next"} /\ conn'[b].st = "drew"
        /\ conn'[b].made = conn[b].made + 1
        /\ \A c \in Browsers : c # b => conn'[c] = conn[c]
        /\ raced' = raced \cup {conn[c].stream : c \in
              {c \in Browsers : conn[c].st = "drew" /\ conn[c].stream = s}}
    BY <1>4, <2>0, DrawConn
  <2>2. mux' = mux
    BY <1>4 DEF RequestRemoteConnect
  <2>3. BrowserOf(n) = b /\ NumberOf(n) = conn[b].made + 1
    BY <2>0, RequestFacts
  <2> HIDE DEF s
  <2>4. ~Entered(n)'
    BY <2>1, <2>3 DEF Entered
  <2>5. ASSUME NEW r \in Requests, r # n
        PROVE  (Owns(r)' => Owns(r)) /\ (Entered(r)' => Entered(r))
    <3>1. CASE BrowserOf(r) # b
      BY <1>2, <2>1, <3>1 DEF Owns, Entered, Made
    <3>2. CASE BrowserOf(r) = b
      <4>1. NumberOf(r) # conn[b].made + 1
        BY <2>0, <2>5, <3>2, RequestFacts
      <4>2. Made(r)' => Made(r)
        BY <1>2, <1>3, <2>1, <3>2, <4>1 DEF Made
      <4> QED
        BY <2>1, <3>2, <4>2 DEF Owns, Entered
    <3> QED
      BY <3>1, <3>2
  <2>6. ASSUME NEW r \in Requests, Owns(r), drawn[r] = s
        PROVE  s \in raced'
    <3>1. CASE s \in raced
      BY <2>1, <3>1
    <3>2. CASE ~Entered(r)
      <4> DEFINE c == BrowserOf(r)
      <4>1. /\ c \in Browsers /\ conn[c].st = "drew" /\ NumberOf(r) = conn[c].made
        BY <1>2, <2>6, <3>2 DEF Owns, Entered
      <4>2. r = Current(c) /\ conn[c].made > 0
        BY <4>1, RequestFacts DEF Current
      <4>3. conn[c].stream = s
        BY <2>6, <4>1, <4>2, CurrentFacts
      <4> HIDE DEF c
      <4> QED
        BY <2>1, <4>1, <4>3
    <3>3. CASE Entered(r) /\ s \notin raced
      BY <2>1, <2>6, <3>3 DEF OwnerInv
    <3> QED
      BY <3>1, <3>2, <3>3
  <2>7. ASSUME NEW r \in Requests, Owns(r)', drawn'[r] \notin raced'
        PROVE  /\ Entered(r)' => (drawn'[r] \in DOMAIN mux' /\ mux'[drawn'[r]] = r)
               /\ \A q \in Requests : (Owns(q)' /\ drawn'[q] = drawn'[r]) => q = r
    <3>1. CASE r = n
      <4>1. ASSUME NEW q \in Requests, Owns(q)', drawn'[q] = drawn'[r], q # n
            PROVE  FALSE
        BY <2>1, <2>5, <2>6, <2>7, <3>1, <4>1
      <4> QED
        BY <2>4, <3>1, <4>1
    <3>2. CASE r # n
      <4>1. Owns(r) /\ drawn'[r] = drawn[r] /\ drawn[r] \notin raced /\ drawn[r] # s
        BY <2>1, <2>5, <2>6, <2>7, <3>2
      <4>2. ASSUME NEW q \in Requests, Owns(q)', drawn'[q] = drawn'[r]
            PROVE  q = r
        <5>1. q # n /\ Owns(q) /\ drawn[q] = drawn[r]
          BY <2>1, <2>5, <4>1, <4>2
        <5> QED
          BY <4>1, <5>1 DEF OwnerInv
      <4>3. Entered(r)' => drawn[r] \in DOMAIN mux /\ mux[drawn[r]] = r
        BY <2>5, <3>2, <4>1 DEF OwnerInv
      <4> QED
        BY <2>2, <4>1, <4>2, <4>3
    <3> QED
      BY <3>1, <3>2
  <2> QED
    BY <2>7 DEF OwnerInv
<1>5. ASSUME NEW b \in Browsers, create_session(b)
      PROVE  OwnerInv'
  <2>1. /\ IsPut(mux', mux, conn[b].stream, Current(b))
        /\ raced' = raced /\ drawn' = drawn
    BY <1>5, PutFacts DEF create_session, history
  <2>2. /\ conn[b].st = "drew" /\ conn'[b].st \in {"open", "next"}
        /\ conn'[b].made = conn[b].made
        /\ \A c \in Browsers : c # b => conn'[c] = conn[c]
    BY <1>5, EnterConn DEF KeepsNumbers
  <2>3. conn[b].made > 0
    BY <1>3, <2>2 DEF DrawInv
  <2>4. /\ Current(b) \in Requests /\ drawn[Current(b)] = conn[b].stream
        /\ BrowserOf(Current(b)) = b /\ NumberOf(Current(b)) = conn[b].made
    BY <2>3, CurrentFacts
  <2>5. Owns(Current(b))
    BY <1>3, <2>2, <2>4 DEF Owns, Made
  <2>6. ASSUME NEW r \in Requests
        PROVE  (Owns(r)' => Owns(r)) /\ (Entered(r)' => Entered(r) \/ r = Current(b))
    <3>1. CASE BrowserOf(r) # b
      BY <1>2, <2>2, <3>1 DEF Owns, Entered, Made
    <3>2. CASE BrowserOf(r) = b
      <4>1. Made(r)' => Made(r)
        BY <2>2, <3>2 DEF Made
      <4>2. NumberOf(r) = conn[b].made => r = Current(b)
        BY <3>2, RequestFacts DEF Current
      <4> QED
        BY <2>2, <3>2, <4>1, <4>2 DEF Owns, Entered
    <3> QED
      BY <3>1, <3>2
  <2>7. ASSUME NEW r \in Requests, Owns(r)', drawn'[r] \notin raced'
        PROVE  /\ Entered(r)' => (drawn'[r] \in DOMAIN mux' /\ mux'[drawn'[r]] = r)
               /\ \A q \in Requests : (Owns(q)' /\ drawn'[q] = drawn'[r]) => q = r
    <3>1. Owns(r) /\ drawn'[r] = drawn[r] /\ drawn[r] \notin raced
      BY <2>1, <2>6, <2>7
    <3>2. \A q \in Requests : (Owns(q)' /\ drawn'[q] = drawn'[r]) => q = r
      BY <2>1, <2>6, <3>1 DEF OwnerInv
    <3>3. CASE r = Current(b)
      BY <2>1, <2>4, <3>1, <3>2, <3>3 DEF IsPut
    <3>4. CASE r # Current(b)
      <4>1. drawn[r] # conn[b].stream
        BY <2>4, <2>5, <3>1, <3>4 DEF OwnerInv
      <4>2. Entered(r)' => drawn[r] \in DOMAIN mux /\ mux[drawn[r]] = r
        BY <2>6, <3>1, <3>4 DEF OwnerInv
      <4> QED
        BY <2>1, <3>1, <3>2, <4>1, <4>2 DEF IsPut
    <3> QED
      BY <3>3, <3>4
  <2> QED
    BY <2>7 DEF OwnerInv
<1>6. ASSUME NEW b \in Browsers, Destroy(b)
      PROVE  OwnerInv'
  <2>1. /\ raced' = raced /\ drawn' = drawn
        /\ \/ IsErase(mux', mux, conn[b].stream)
           \/ conn[b].stream = 0 /\ mux' = mux
    <3>1. mux' = IF conn[b].stream # 0 THEN Erase(mux, conn[b].stream) ELSE mux
      BY <1>6 DEF Destroy
    <3> QED
      BY <1>6, <3>1, EraseFacts DEF Destroy, history
  <2>2. /\ conn[b].st = "closed" /\ conn'[b].st = "destroyed"
        /\ conn'[b].made = conn[b].made
        /\ \A c \in Browsers : c # b => conn'[c] = conn[c]
    BY <1>6, DestroyConn DEF KeepsNumbers
  <2>3. ASSUME NEW r \in Requests
        PROVE  (Owns(r)' => Owns(r) /\ r # Current(b)) /\ (Entered(r)' => Entered(r))
    <3>1. CASE BrowserOf(r) # b
      BY <1>2, <2>2, <3>1, RequestFacts DEF Owns, Entered, Made, Current
    <3>2. CASE BrowserOf(r) = b
      <4>1. Made(r)' => Made(r)
        BY <2>2, <3>2 DEF Made
      <4>2. r = Current(b) => NumberOf(r) = conn[b].made
        BY <3>2, RequestFacts DEF Current
      <4> QED
        BY <2>2, <3>2, <4>1, <4>2 DEF Owns, Entered
    <3> QED
      BY <3>1, <3>2
  <2>4. ASSUME NEW r \in Requests, Owns(r)', drawn'[r] \notin raced'
        PROVE  /\ Entered(r)' => (drawn'[r] \in DOMAIN mux' /\ mux'[drawn'[r]] = r)
               /\ \A q \in Requests : (Owns(q)' /\ drawn'[q] = drawn'[r]) => q = r
    <3>1. Owns(r) /\ drawn'[r] = drawn[r] /\ drawn[r] \notin raced /\ r # Current(b)
      BY <2>1, <2>3, <2>4
    <3>2. \A q \in Requests : (Owns(q)' /\ drawn'[q] = drawn'[r]) => q = r
      BY <2>1, <2>3, <3>1 DEF OwnerInv
    <3>3. ASSUME conn[b].stream # 0, drawn[r] = conn[b].stream
          PROVE  FALSE
      <4>1. /\ Current(b) \in Requests /\ drawn[Current(b)] = conn[b].stream
            /\ BrowserOf(Current(b)) = b /\ NumberOf(Current(b)) = conn[b].made
        BY <3>3, CurrentFacts
      <4>2. Owns(Current(b))
        BY <1>3, <2>2, <4>1 DEF Owns, Made
      <4> QED
        BY <3>1, <3>3, <4>1, <4>2 DEF OwnerInv
    <3>4. Entered(r)' => drawn[r] \in DOMAIN mux /\ mux[drawn[r]] = r
      BY <2>3, <3>1 DEF OwnerInv
    <3>5. conn[b].stream = 0 => mux' = mux
      BY <1>6 DEF Destroy
    <3> QED
      BY <2>1, <3>1, <3>2, <3>3, <3>4, <3>5 DEF IsErase
  <2> QED
    BY <2>4 DEF OwnerInv
<1>7. CASE /\ mux' = mux /\ raced' = raced /\ drawn' = drawn
           /\ \A b \in Browsers : ~create_session(b) /\ ~RequestRemoteConnect(b)
  <2>1. ASSUME NEW r \in Requests
        PROVE  (Owns(r)' => Owns(r)) /\ (Entered(r)' => Entered(r))
    BY <1>1, <1>2, <1>7 DEF RequestMove, Owns
  <2> QED
    BY <1>7, <2>1 DEF OwnerInv
<1>8. CASE \A b \in Browsers : ~create_session(b) /\ ~RequestRemoteConnect(b) /\ ~Destroy(b)
  BY <1>7, <1>8, Changes DEF WhoChanges
<1> QED
  BY <1>4, <1>5, <1>6, <1>8

(* What a shared stream number tells.                                      *)
LEMMA SharedImplied ==
    ASSUME DrawInv, OwnerInv
    PROVE  SharedOnlyIfRaced
<1>1. ASSUME NEW r \in Requests, drawn[r] # 0, Live(BrowserOf(r))
      PROVE  Owns(r)
  BY <1>1 DEF DrawInv, Owns, Live
<1> QED
  BY <1>1 DEF OwnerInv, SharedOnlyIfRaced

-----------------------------------------------------------------------------
(* The server's tables: a SYN enters the tunnel in one, its start in the   *)
(* other, and its end takes it out of both.                                *)
SynArrives == ServerReceives /\ Head(up).type = "SYN"

TableMove(table2, table) ==
    \/ /\ \E i \in Requests : Running(i)' /\ IsPut(table2, table, inst'[i].stream, i)
       /\ \A i \in Requests : ~CloseTunnel(i)
    \/ \E i \in Requests : CloseTunnel(i) /\ IsErase(table2, table, inst[i].stream)
    \/ table2 = table /\ \A i \in Requests : ~CloseTunnel(i)

(* How the two tables of the server change.                                *)
LEMMA TableMoves ==
    ASSUME TypeOK, ServerTable(smux), ServerTable(tunnels), UpInv, SynInv, [Next]_vars
    PROVE  /\ TableMove(smux', smux) /\ TableMove(tunnels', tunnels)
           /\ \A i \in Requests : TunnelStarts(i) => IsPut(smux', smux, inst[i].stream, i)
           /\ SynArrives => IsPut(tunnels', tunnels, Head(up).stream, Head(up).from)
<1>1. ASSUME SynArrives
      PROVE  /\ smux' = smux
             /\ IsPut(tunnels', tunnels, Head(up).stream, Head(up).from)
             /\ \A i \in Requests : ~CloseTunnel(i) /\ ~TunnelStarts(i)
             /\ \E c \in Requests : /\ c = Head(up).from /\ Running(c)'
                                    /\ inst'[c].stream = Head(up).stream
  <2> DEFINE f == Head(up)
  <2>1. smux' = smux /\ tunnels' = Put(tunnels, f.stream, f.from)
    BY <1>1 DEF SynArrives, ServerReceives, on_syn
  <2>2. IsPut(tunnels', tunnels, f.stream, f.from)
    BY <2>1, PutFacts
  <2>3. PICK c \in Requests : c = f.from
    BY <1>1, SynInst DEF SynArrives
  <2>4. /\ inst[c].st = "none" /\ inst'[c].st = "listed"
        /\ inst'[c].stream = f.stream
        /\ \A d \in Requests : d # c => inst'[d] = inst[d]
    BY <1>1, <2>3, SynInst DEF SynArrives
  <2> HIDE DEF f
  <2>5. ASSUME NEW i \in Requests, CloseTunnel(i)
        PROVE  FALSE
    BY <2>4, <2>5, CloseInst DEF Running
  <2>6. ASSUME NEW i \in Requests, TunnelStarts(i)
        PROVE  FALSE
    BY <2>4, <2>6, StartInst
  <2>7. Running(c)'
    BY <2>4 DEF Running
  <2> QED
    BY <2>1, <2>2, <2>3, <2>4, <2>5, <2>6, <2>7 DEF f
<1>2. ASSUME NEW i \in Requests, TunnelStarts(i)
      PROVE  /\ tunnels' = tunnels
             /\ IsPut(smux', smux, inst[i].stream, i)
             /\ \A j \in Requests : ~CloseTunnel(j)
             /\ Running(i)' /\ inst'[i].stream = inst[i].stream
  <2>1. tunnels' = tunnels /\ smux' = Put(smux, inst[i].stream, i)
    BY <1>2 DEF TunnelStarts
  <2>2. /\ inst[i].st = "listed" /\ inst'[i].st \in {"connecting", "deaf"}
        /\ inst'[i].stream = inst[i].stream
        /\ \A d \in Requests : d # i => inst'[d] = inst[d]
    BY <1>2, StartInst
  <2>3. ASSUME NEW j \in Requests, CloseTunnel(j)
        PROVE  FALSE
    BY <2>2, <2>3, CloseInst DEF Running
  <2> QED
    BY <2>1, <2>2, <2>3, PutFacts DEF Running
<1>3. ASSUME NEW i \in Requests, CloseTunnel(i)
      PROVE  TableMove(smux', smux) /\ TableMove(tunnels', tunnels)
  <2>1. smux' = Erase(smux, inst[i].stream) /\ tunnels' = Erase(tunnels, inst[i].stream)
    BY <1>3 DEF CloseTunnel
  <2> QED
    BY <1>3, <2>1, EraseFacts DEF TableMove
<1>4. CASE \A i \in Requests : ~CloseTunnel(i)
  <2>1. TableMove(tunnels', tunnels)
    <3>1. CASE SynArrives
      <4>1. PICK c \in Requests : /\ c = Head(up).from /\ Running(c)'
                                  /\ inst'[c].stream = Head(up).stream
        BY <1>1, <3>1
      <4>2. IsPut(tunnels', tunnels, inst'[c].stream, c)
        BY <1>1, <3>1, <4>1
      <4> QED
        BY <1>4, <4>1, <4>2 DEF TableMove
    <3>2. CASE ~SynArrives
      <4>1. ServerReceives => tunnels' = tunnels
        BY <3>2 DEF ServerReceives, SynArrives
      <4> QED
        BY <1>4, <4>1, Changes DEF WhoChanges, TableMove
    <3> QED
      BY <3>1, <3>2
  <2>2. TableMove(smux', smux)
    <3>1. ASSUME NEW i \in Requests, TunnelStarts(i)
          PROVE  TableMove(smux', smux)
      BY <1>2, <3>1 DEF TableMove
    <3>2. CASE smux' = smux
      BY <1>4, <3>2 DEF TableMove
    <3> QED
      BY <1>4, <3>1, <3>2, Changes DEF WhoChanges
  <2> QED
    BY <1>1, <1>2, <2>1, <2>2
<1> QED
  BY <1>1, <1>2, <1>3, <1>4

(* The targets keep the numbers of the SYNs they were made for.            *)
LEMMA InstKept ==
    ASSUME TypeOK, DrawInv, SessionsInv, MuxInv, ServerTable(smux), ServerTable(tunnels),
           UpInv, SynInv, InstInv, [Next]_vars
    PROVE  InstInv'
<1>1. \A i \in Requests : InstMove(i)
  BY InstMoves
<1>2. \A r \in Requests : drawn[r] # 0 => drawn'[r] = drawn[r]
  BY DrawKept
<1>3. ASSUME NEW i \in Requests
      PROVE  /\ inst'[i].st # "none" => (inst'[i].stream = drawn'[i] /\ drawn'[i] # 0)
             /\ inst'[i].st = "none" => ~inst'[i].asked
  <2>1. /\ inst[i].st # "none" => inst[i].stream = drawn[i] /\ drawn[i] # 0
        /\ inst[i].st = "none" => ~inst[i].asked
    BY DEF InstInv
  <2>2. 0 \notin StreamIds
    BY StreamsAssumption
  <2> QED
    BY <1>1, <1>2, <2>1, <2>2 DEF InstMove, Running
<1> QED
  BY <1>3 DEF InstInv

(* Only the loop on Closed tells a tunnel to close before it has started.  *)
LEMMA DeafKept ==
    ASSUME TypeOK, ServerTable(smux), ServerTable(tunnels),
           UpInv, SynInv, InstInv, DeafInv, ClosedInv, [Next]_vars
    PROVE  DeafInv'
<1>1. ~link => ~link'
  BY Changes DEF WhoChanges, LinkCloses
<1>2. ClosedNext => ~link
  BY DEF ClosedNext, ClosedInv
<1>3. ASSUME NEW i \in Requests,
             (inst'[i].st = "listed" /\ inst'[i].asked) \/ inst'[i].st = "deaf"
      PROVE  ~link' /\ inst'[i].asked
  <2>1. InstMove(i)
    BY InstMoves
  <2>2. /\ inst[i].st = "none" => ~inst[i].asked
        /\ (inst[i].st = "listed" /\ inst[i].asked) \/ inst[i].st = "deaf" =>
              ~link /\ inst[i].asked
    BY DEF InstInv, DeafInv
  <2> QED
    BY <1>1, <1>2, <1>3, <2>1, <2>2 DEF InstMove
<1> QED
  BY <1>3 DEF DeafInv

(* What a table of the server's says after the step.                       *)
TableAfter(table2) ==
    \A s \in DOMAIN table2 :
        /\ s \in StreamIds
        /\ table2[s] \in Requests
        /\ inst'[table2[s]].stream = s
        /\ inst'[table2[s]].st \notin {"none", "closed"}

(* A table of the server leads to running targets of the number asked for, *)
(* after any step.                                                         *)
LEMMA TableKept ==
    ASSUME TypeOK, DrawInv, SessionsInv, MuxInv, ServerTable(smux), ServerTable(tunnels),
           UpInv, SynInv, InstInv, [Next]_vars,
           NEW table, NEW table2, ServerTable(table), TableMove(table2, table)
    PROVE  TableAfter(table2)
<1>1. \A i \in Requests : InstMove(i)
  BY InstMoves
<1>2. ASSUME NEW s \in DOMAIN table, NEW i \in Requests, table[s] = i, ~CloseTunnel(i)
      PROVE  s \in StreamIds /\ inst'[i].stream = s /\ inst'[i].st \notin {"none", "closed"}
  <2>1. s \in StreamIds /\ inst[i].stream = s /\ Running(i)
    BY <1>2 DEF ServerTable
  <2> QED
    BY <1>1, <1>2, <2>1 DEF InstMove, Running
<1>3. \A s \in DOMAIN table : table[s] \in Requests
  BY DEF ServerTable
<1>4. ASSUME NEW i \in Requests, Running(i)', IsPut(table2, table, inst'[i].stream, i),
             \A j \in Requests : ~CloseTunnel(j)
      PROVE  TableAfter(table2)
  <2>1. inst'[i].stream = drawn'[i] /\ drawn'[i] # 0
    BY <1>4, InstKept DEF InstInv, Running
  <2>2. inst'[i].stream \in StreamIds
    BY <2>1, RequestMoves
  <2>3. inst'[i].st \notin {"none", "closed"}
    BY <1>4 DEF Running
  <2>4. ASSUME NEW s \in DOMAIN table2
        PROVE  /\ s \in StreamIds
               /\ table2[s] \in Requests
               /\ inst'[table2[s]].stream = s
               /\ inst'[table2[s]].st \notin {"none", "closed"}
    <3>1. CASE s = inst'[i].stream
      BY <1>4, <2>2, <2>3, <3>1 DEF IsPut
    <3>2. CASE s # inst'[i].stream
      <4>1. s \in DOMAIN table /\ table2[s] = table[s]
        BY <1>4, <3>2 DEF IsPut
      <4> QED
        BY <1>2, <1>3, <1>4, <4>1
    <3> QED
      BY <3>1, <3>2
  <2> QED
    BY <2>4 DEF TableAfter
<1>5. ASSUME NEW i \in Requests, CloseTunnel(i), IsErase(table2, table, inst[i].stream)
      PROVE  TableAfter(table2)
  <2>1. \A c \in Requests : c # i => inst'[c] = inst[c]
    BY <1>5, CloseInst
  <2>2. ASSUME NEW s \in DOMAIN table2
        PROVE  /\ s \in StreamIds
               /\ table2[s] \in Requests
               /\ inst'[table2[s]].stream = s
               /\ inst'[table2[s]].st \notin {"none", "closed"}
    <3>1. s \in DOMAIN table /\ s # inst[i].stream /\ table2[s] = table[s]
      BY <1>5 DEF IsErase
    <3>2. s \in StreamIds /\ table[s] \in Requests /\ inst[table[s]].stream = s /\ Running(table[s])
      BY <3>1 DEF ServerTable
    <3>3. table[s] # i
      BY <3>1, <3>2
    <3> QED
      BY <2>1, <3>1, <3>2, <3>3 DEF Running
  <2> QED
    BY <2>2 DEF TableAfter
<1>6. CASE table2 = table /\ \A i \in Requests : ~CloseTunnel(i)
  BY <1>2, <1>3, <1>6 DEF TableAfter
<1> QED
  BY <1>4, <1>5, <1>6 DEF TableMove

(* Both tables of the server (streams_ of the multiplexer and the tunnel   *)
(* sessions) are kept so.                                                  *)
LEMMA TablesKept ==
    ASSUME TypeOK, DrawInv, SessionsInv, MuxInv, ServerTable(smux), ServerTable(tunnels),
           UpInv, SynInv, InstInv, [Next]_vars
    PROVE  ServerTable(smux)' /\ ServerTable(tunnels)'
<1>1. TableAfter(smux') /\ TableAfter(tunnels')
  BY TableMoves, TableKept
<1> QED
  BY <1>1 DEF TableAfter, ServerTable, Running

(* A stream that two requests have drawn was drawn again.                  *)
LEMMA OnceKept ==
    ASSUME TypeOK, DrawInv, SessionsInv, MuxInv, [Next]_vars, NEW r \in Requests, Once(r)'
    PROVE  Once(r)
<1>1. drawn[r] # 0 => drawn'[r] = drawn[r]
  BY DrawKept
<1>2. 0 \notin Redrawn
  BY StreamsAssumption DEF Redrawn
<1> QED
  BY <1>1, <1>2, DrawKept DEF Once

(* Two targets with one stream number have a number drawn again.           *)
LEMMA RedrawnFacts ==
    ASSUME TypeOK, NEW r \in Requests, NEW q \in Requests, r # q,
           drawn[r] = drawn[q], drawn[r] # 0
    PROVE  drawn[r] \in Redrawn
<1>1. drawn[r] \in StreamIds
  BY DEF TypeOK
<1> QED
  BY <1>1 DEF Redrawn

(* A table of the server loses a running target only when its number was   *)
(* drawn again.                                                            *)
LEMMA KeepsKept ==
    ASSUME TypeOK, DrawInv, SessionsInv, MuxInv, ServerTable(smux), ServerTable(tunnels),
           UpInv, SynInv, InstInv, [Next]_vars,
           NEW table, NEW table2, TableMove(table2, table),
           NEW i \in Requests, Running(i), Running(i)', Once(i),
           inst[i].stream \in DOMAIN table, table[inst[i].stream] = i,
           Once(i)'
    PROVE  inst'[i].stream \in DOMAIN table2 /\ table2[inst'[i].stream] = i
<1>1. inst'[i].stream = inst[i].stream
  <2>1. InstMove(i)
    BY InstMoves
  <2> QED
    BY <2>1 DEF InstMove, Running
<1>2. /\ inst[i].stream = drawn[i] /\ drawn[i] # 0
      /\ drawn'[i] = drawn[i]
  BY DrawKept DEF InstInv, Running
<1>3. ASSUME NEW j \in Requests, j # i, drawn'[j] = drawn'[i]
      PROVE  FALSE
  <2>1. drawn'[i] \in StreamIds
    BY <1>2 DEF TypeOK
  <2>2. drawn'[i] \in Redrawn'
    BY <1>3, <2>1 DEF Redrawn
  <2> QED
    BY <2>2 DEF Once
<1>4. ASSUME NEW j \in Requests, Running(j)', IsPut(table2, table, inst'[j].stream, j)
      PROVE  inst'[i].stream \in DOMAIN table2 /\ table2[inst'[i].stream] = i
  <2>1. inst'[j].stream = drawn'[j]
    BY <1>4, InstKept DEF InstInv, Running
  <2>2. CASE j = i
    BY <1>4, <2>2 DEF IsPut
  <2>3. CASE j # i
    <3>1. inst'[j].stream # inst[i].stream
      BY <1>2, <1>3, <2>1, <2>3
    <3> QED
      BY <1>1, <1>4, <3>1 DEF IsPut
  <2> QED
    BY <2>2, <2>3
<1>5. ASSUME NEW j \in Requests, CloseTunnel(j), IsErase(table2, table, inst[j].stream)
      PROVE  inst'[i].stream \in DOMAIN table2 /\ table2[inst'[i].stream] = i
  <2>1. Running(j) /\ inst'[j].st = "closed"
    BY <1>5, CloseInst
  <2>2. j # i
    BY <2>1 DEF Running
  <2>3. inst[j].stream = drawn[j] /\ drawn'[j] = drawn[j]
    BY <2>1, DrawKept DEF InstInv, Running
  <2>4. inst[j].stream # inst[i].stream
    BY <1>2, <1>3, <2>2, <2>3
  <2> QED
    BY <1>1, <1>5, <2>4 DEF IsErase
<1>6. CASE table2 = table
  BY <1>1, <1>6
<1> QED
  BY <1>4, <1>5, <1>6 DEF TableMove

(* Both tables of the server keep their running targets so.                *)
LEMMA EntriesKept ==
    ASSUME TypeOK, DrawInv, SessionsInv, MuxInv, ServerTable(smux), ServerTable(tunnels),
           UpInv, SynInv, InstInv, KeepsTunnel, KeepsSession, [Next]_vars
    PROVE  KeepsTunnel' /\ KeepsSession'
<1>1. /\ TableMove(smux', smux) /\ TableMove(tunnels', tunnels)
      /\ \A i \in Requests : TunnelStarts(i) => IsPut(smux', smux, inst[i].stream, i)
      /\ SynArrives => IsPut(tunnels', tunnels, Head(up).stream, Head(up).from)
  BY TableMoves
<1>2. ASSUME NEW i \in Requests, Running(i)', Once(i)'
      PROVE  inst'[i].stream \in DOMAIN tunnels' /\ tunnels'[inst'[i].stream] = i
  <2>1. Once(i)
    BY <1>2, OnceKept
  <2>2. CASE Running(i)
    <3>1. inst[i].stream \in DOMAIN tunnels /\ tunnels[inst[i].stream] = i
      BY <2>1, <2>2 DEF KeepsTunnel
    <3> QED
      BY <1>1, <1>2, <2>1, <2>2, <3>1, KeepsKept
  <2>3. CASE ~Running(i)
    <3>1. InstMove(i)
      BY InstMoves
    <3>2. SynArrives /\ Head(up).from = i
      BY <1>2, <2>3, <3>1 DEF InstMove, Running, SynArrives
    <3>3. inst'[i].stream = Head(up).stream
      BY <3>2, SynInst DEF SynArrives
    <3> QED
      BY <1>1, <3>2, <3>3 DEF IsPut
  <2> QED
    BY <2>2, <2>3
<1>3. ASSUME NEW i \in Requests, Started(i)', Once(i)'
      PROVE  inst'[i].stream \in DOMAIN smux' /\ smux'[inst'[i].stream] = i
  <2>1. Once(i)
    BY <1>3, OnceKept
  <2>2. InstMove(i)
    BY InstMoves
  <2>3. CASE Started(i)
    <3>1. inst[i].stream \in DOMAIN smux /\ smux[inst[i].stream] = i
      BY <2>1, <2>3 DEF KeepsSession
    <3>2. Running(i) /\ Running(i)'
      BY <1>3, <2>3 DEF Started
    <3> QED
      BY <1>1, <1>3, <2>1, <3>1, <3>2, KeepsKept
  <2>4. CASE ~Started(i)
    <3>1. TunnelStarts(i) /\ inst'[i].stream = inst[i].stream
      BY <1>3, <2>2, <2>4 DEF InstMove, Started, Running
    <3> QED
      BY <1>1, <3>1 DEF IsPut
  <2> QED
    BY <2>3, <2>4
<1> QED
  BY <1>2, <1>3 DEF KeepsTunnel, KeepsSession

-----------------------------------------------------------------------------
(* The frames under way.                                                   *)

(* A browser with an entered request has been accepted and keeps its ids.  *)
LEMMA EnteredFacts ==
    ASSUME TypeOK, DrawInv, SessionsInv, MuxInv, [Next]_vars,
           NEW r \in Requests, Made(r)
    PROVE  /\ BrowserOf(r) \in Browsers
           /\ conn[BrowserOf(r)].st # "none" /\ conn'[BrowserOf(r)].st # "none"
           /\ conn'[BrowserOf(r)].sid = conn[BrowserOf(r)].sid
           /\ drawn[r] # 0 /\ drawn'[r] = drawn[r]
<1> DEFINE b == BrowserOf(r)
<1>1. b \in Browsers /\ NumberOf(r) \in Nat /\ 1 =< NumberOf(r)
  BY RequestFacts
<1>2. NumberOf(r) =< conn[b].made /\ conn[b].made \in Nat
  BY <1>1 DEF Made, TypeOK, ConnType
<1>3. conn[b].st # "none"
  BY <1>1, <1>2 DEF DrawInv
<1>4. ConnMove(b)
  BY <1>1, ConnMoves
<1>5. conn'[b].st # "none" /\ conn'[b].sid = conn[b].sid
  BY <1>3, <1>4 DEF ConnMove, KeepsNumbers
<1>6. drawn[r] # 0
  BY DEF DrawInv
<1> QED
  BY <1>1, <1>3, <1>5, <1>6, DrawKept

(* What is true of every frame on a queue, and of one more, is true after  *)
(* a step.                                                                 *)
LEMMA UpKept ==
    ASSUME TypeOK, DrawInv, SessionsInv, MuxInv, UpInv, [Next]_vars
    PROVE  UpInv'
<1>1. ASSUME NEW f \in FrameType, UpFrame(f)
      PROVE  UpFrame(f)'
  <2>1. f.from \in Requests /\ Entered(f.from) /\ Made(f.from)
    BY <1>1 DEF FrameType, UpFrame, Entered
  <2>2. Entered(f.from)'
    BY <2>1, RequestMoves DEF RequestMove
  <2>3. /\ conn'[BrowserOf(f.from)].sid = conn[BrowserOf(f.from)].sid
        /\ drawn'[f.from] = drawn[f.from]
    BY <2>1, EnteredFacts
  <2> QED
    BY <1>1, <2>2, <2>3 DEF UpFrame, OfStream
<1>2. \A k \in 1..Len(up) : up[k] \in FrameType
  BY ElementOfSeq DEF TypeOK
<1>3. ASSUME NEW f \in FrameType, Sent(up, up', f), UpFrame(f)'
      PROVE  UpInv'
  <2>1. ASSUME NEW k \in 1..Len(up'), NEW g, g = up'[k]
        PROVE  UpFrame(g)'
    <3>1. CASE k \in 1..Len(up) /\ up'[k] = up[k]
      BY <1>1, <1>2, <2>1, <3>1 DEF UpInv
    <3>2. CASE up'[k] = f
      BY <1>3, <2>1, <3>2
    <3> QED
      BY <1>3, <3>1, <3>2 DEF Sent
  <2> QED
    BY <2>1 DEF UpInv
<1>4. ASSUME NEW b \in Browsers, Current(b) \in Requests,
             create_session(b), SentUp(Current(b), "SYN", conn[b].stream)
      PROVE  UpInv'
  <2>1. PICK f \in FrameType : f.from = Current(b) /\ f.type = "SYN"
                               /\ f.stream = conn[b].stream /\ Sent(up, up', f)
    BY <1>4 DEF SentUp
  <2>2. conn[b].st = "drew" /\ conn'[b].st \in {"open", "next"} /\ conn'[b].made = conn[b].made
    BY <1>4, EnterConn DEF KeepsNumbers
  <2>3. /\ conn[b].made > 0 /\ BrowserOf(f.from) = b /\ NumberOf(f.from) = conn[b].made
        /\ drawn[f.from] = conn[b].stream /\ conn[b].stream # 0
        /\ conn[b].made \in Nat
    BY <2>1, <2>2, CurrentFacts DEF DrawInv
  <2>4. drawn' = drawn
    BY <1>4 DEF create_session, history
  <2>5. Entered(f.from)'
    BY <2>2, <2>3 DEF Entered, Made
  <2>6. UpFrame(f)'
    BY <2>1, <2>3, <2>4, <2>5 DEF UpFrame, OfStream
  <2> QED
    BY <1>3, <2>1, <2>6
<1>5. ASSUME NEW b \in Browsers, Current(b) \in Requests,
             SendData(b), SentUp(Current(b), "DATA", StreamToSend(b))
      PROVE  UpInv'
  <2>1. PICK f \in FrameType : f.from = Current(b) /\ f.type = "DATA"
                               /\ f.stream = StreamToSend(b) /\ Sent(up, up', f)
    BY <1>5 DEF SentUp
  <2>2. conn[b].st = "connected"
    BY <1>5 DEF SendData
  <2>3. /\ conn[b].made > 0 /\ BrowserOf(f.from) = b /\ NumberOf(f.from) = conn[b].made
        /\ drawn[f.from] = conn[b].stream /\ conn[b].stream # 0
        /\ conn[b].made \in Nat
    BY <2>1, <2>2, CurrentFacts DEF DrawInv
  <2>4. UpFrame(f)
    BY <2>1, <2>2, <2>3 DEF UpFrame, OfStream, StreamToSend, Entered, Made
  <2>5. UpFrame(f)'
    BY <1>1, <2>4
  <2> QED
    BY <1>3, <2>1, <2>5
<1>6. ASSUME NEW b \in Browsers, Current(b) \in Requests,
             CloseSession(b), SentUp(Current(b), "FIN", conn[b].stream), conn[b].stream # 0
      PROVE  UpInv'
  <2>1. PICK f \in FrameType : f.from = Current(b) /\ f.type = "FIN"
                               /\ f.stream = conn[b].stream /\ Sent(up, up', f)
    BY <1>6 DEF SentUp
  <2>2. conn[b].st \in {"accepted", "open", "connected"}
    BY <1>6, CloseConn
  <2>3. /\ conn[b].made > 0 /\ BrowserOf(f.from) = b /\ NumberOf(f.from) = conn[b].made
        /\ drawn[f.from] = conn[b].stream
        /\ conn[b].made \in Nat
    BY <1>6, <2>1, CurrentFacts
  <2>4. UpFrame(f)
    BY <1>6, <2>1, <2>2, <2>3 DEF UpFrame, OfStream, Entered, Made
  <2>5. UpFrame(f)'
    BY <1>1, <2>4
  <2> QED
    BY <1>3, <2>1, <2>5
<1>7. CASE up # <<>> /\ up' = Tail(up)
  <2>1. /\ Len(up) \in Nat /\ Len(up') = Len(up) - 1
        /\ \A k \in 1..Len(up') : up'[k] = up[k + 1]
    BY <1>7, TailFacts DEF TypeOK
  <2>2. ASSUME NEW k \in 1..Len(up'), NEW g, g = up'[k]
        PROVE  UpFrame(g)'
    <3>1. k + 1 \in 1..Len(up) /\ g = up[k + 1]
      BY <2>1, <2>2
    <3> QED
      BY <1>1, <1>2, <3>1 DEF UpInv
  <2> QED
    BY <2>2 DEF UpInv
<1>8. CASE up' = <<>>
  BY <1>8 DEF UpInv
<1>9. CASE up' = up
  <2>1. ASSUME NEW k \in 1..Len(up'), NEW g, g = up'[k]
        PROVE  UpFrame(g)'
    BY <1>1, <1>2, <1>9, <2>1 DEF UpInv
  <2> QED
    BY <2>1 DEF UpInv
<1> QED
  BY <1>4, <1>5, <1>6, <1>7, <1>8, <1>9, UpMoves DEF UpMove

(* The frames for the client carry the numbers of the targets that sent    *)
(* them.                                                                   *)
LEMMA DownKept ==
    ASSUME TypeOK, DrawInv, SessionsInv, MuxInv, ServerTable(smux), ServerTable(tunnels),
           UpInv, SynInv, InstInv, DownInv, [Next]_vars
    PROVE  DownInv'
<1>1. \A i \in Requests : InstMove(i)
  BY InstMoves
<1>2. \A r \in Requests : drawn[r] # 0 => drawn'[r] = drawn[r]
  BY DrawKept
<1>3. ASSUME NEW f \in FrameType, DownFrame(f)
      PROVE  DownFrame(f)'
  <2>1. f.from \in Requests
    BY DEF FrameType
  <2>2. /\ inst'[f.from].st # "none"
        /\ inst[f.from].st = "closed" => inst'[f.from].st = "closed"
    BY <1>1, <1>3, <2>1 DEF InstMove, DownFrame, Running
  <2> QED
    BY <1>2, <1>3, <2>1, <2>2 DEF DownFrame, OfStream
<1>4. \A k \in 1..Len(down) : down[k] \in FrameType
  BY ElementOfSeq DEF TypeOK
<1>5. ASSUME NEW i \in Requests, NEW f \in FrameType,
             f.from = i, f.stream = inst[i].stream, Sent(down, down', f),
             inst[i].st # "none", inst'[i].st # "none",
             f.type = "FIN" => inst'[i].st = "closed"
      PROVE  DownInv'
  <2>1. DownFrame(f)'
    BY <1>2, <1>5 DEF InstInv, DownFrame, OfStream
  <2>2. ASSUME NEW k \in 1..Len(down'), NEW g, g = down'[k]
        PROVE  DownFrame(g)'
    <3>1. CASE k \in 1..Len(down) /\ down'[k] = down[k]
      BY <1>3, <1>4, <2>2, <3>1 DEF DownInv
    <3>2. CASE down'[k] = f
      BY <2>1, <2>2, <3>2
    <3> QED
      BY <1>5, <3>1, <3>2 DEF Sent
  <2> QED
    BY <2>2 DEF DownInv
<1>6. CASE down # <<>> /\ down' = Tail(down)
  <2>1. /\ Len(down) \in Nat /\ Len(down') = Len(down) - 1
        /\ \A k \in 1..Len(down') : down'[k] = down[k + 1]
    BY <1>6, TailFacts DEF TypeOK
  <2>2. ASSUME NEW k \in 1..Len(down'), NEW g, g = down'[k]
        PROVE  DownFrame(g)'
    <3>1. k + 1 \in 1..Len(down) /\ g = down[k + 1]
      BY <2>1, <2>2
    <3> QED
      BY <1>3, <1>4, <3>1 DEF DownInv
  <2> QED
    BY <2>2 DEF DownInv
<1>7. CASE down' = <<>>
  BY <1>7 DEF DownInv
<1>8. CASE down' = down
  <2>1. ASSUME NEW k \in 1..Len(down'), NEW g, g = down'[k]
        PROVE  DownFrame(g)'
    BY <1>3, <1>4, <1>8, <2>1 DEF DownInv
  <2> QED
    BY <2>1 DEF DownInv
<1> QED
  BY <1>5, <1>6, <1>7, <1>8, DownMoves DEF DownMove

(* A frame goes astray only on such a stream, or as a datagram.            *)
LEMMA RoutedKept ==
    ASSUME TypeOK, DrawInv, SessionsInv, MuxInv, ServerTable(smux), ServerTable(tunnels),
           InstInv, UpInv, DownInv, StrayInv, RoutedToOwner, [Next]_vars
    PROVE  StrayInv' /\ RoutedToOwner'
<1> DEFINE Excused(w) ==
        \/ w.frame.stream \in Redrawn
        \/ BrowserOf(w.frame.from) \in UdpBrowsers /\ w.frame.type = "DATA"
           /\ w.frame.stream = conn[BrowserOf(w.frame.from)].sid
<1>1. ASSUME NEW w, w.frame.from \in Requests, conn[BrowserOf(w.frame.from)].st # "none",
             Excused(w)
      PROVE  conn'[BrowserOf(w.frame.from)].st # "none" /\ Excused(w)'
  <2>1. BrowserOf(w.frame.from) \in Browsers
    BY <1>1, RequestFacts
  <2>2. ConnMove(BrowserOf(w.frame.from))
    BY <2>1, ConnMoves
  <2>3. /\ conn'[BrowserOf(w.frame.from)].st # "none"
        /\ conn'[BrowserOf(w.frame.from)].sid = conn[BrowserOf(w.frame.from)].sid
    BY <1>1, <2>2 DEF ConnMove, KeepsNumbers
  <2> QED
    BY <1>1, <2>3, DrawKept
<1>2. ASSUME NEW w \in strayed
      PROVE  /\ w.frame.from \in Requests
             /\ conn'[BrowserOf(w.frame.from)].st # "none" /\ Excused(w)'
  BY <1>1 DEF StrayInv, RoutedToOwner
<1>3. ASSUME NEW f \in FrameType, NEW r \in Requests, r # f.from,
             drawn[r] = f.stream, OfStream(f)
      PROVE  f.stream \in Redrawn
  BY <1>3, RedrawnFacts DEF OfStream, FrameType
<1>4. ASSUME NEW r \in Requests, drawn[r] # 0
      PROVE  conn[BrowserOf(r)].st # "none"
  BY <1>4, EnteredFacts DEF DrawInv
<1>5. CASE ClientReceives
  <2> DEFINE f == Head(down)
  <2>1. f \in FrameType /\ DownFrame(f)
    BY <1>5, TailFacts DEF ClientReceives, TypeOK, DownInv
  <2>2. f.from \in Requests
    BY <2>1 DEF FrameType
  <2>3. conn[BrowserOf(f.from)].st # "none"
    BY <1>4, <2>1, <2>2 DEF DownFrame, OfStream
  <2>4. strayed' = strayed \cup {[frame |-> f, to |-> mux[s]] : s \in
                   {s \in DOMAIN mux \cap {f.stream} : mux[s] # f.from}}
    BY <1>5 DEF ClientReceives, Strays
  <2>5. ASSUME f.stream \in DOMAIN mux, mux[f.stream] # f.from
        PROVE  f.stream \in Redrawn
    BY <1>3, <2>1, <2>5 DEF MuxInv, DownFrame
  <2>6. ASSUME NEW w \in strayed', w \notin strayed
        PROVE  w.frame = f /\ f.stream \in Redrawn
    BY <2>4, <2>5, <2>6
  <2> HIDE DEF f
  <2>7. ASSUME NEW w \in strayed'
        PROVE  /\ w.frame.from \in Requests
               /\ conn'[BrowserOf(w.frame.from)].st # "none" /\ Excused(w)'
    BY <1>1, <1>2, <2>2, <2>3, <2>6
  <2> QED
    BY <2>7 DEF StrayInv, RoutedToOwner
<1>6. CASE ServerReceives /\ Head(up).type # "SYN"
  <2> DEFINE f == Head(up)
  <2>1. f \in FrameType /\ UpFrame(f)
    BY <1>6, TailFacts DEF ServerReceives, TypeOK, UpInv
  <2>2. f.from \in Requests
    BY <2>1 DEF FrameType
  <2>3. conn[BrowserOf(f.from)].st # "none"
    BY <2>1, <2>2, EnteredFacts DEF UpFrame, Entered
  <2>4. strayed' = strayed \cup {[frame |-> f, to |-> smux[s]] : s \in
                   {s \in DOMAIN smux \cap {f.stream} : smux[s] # f.from}}
    BY <1>6 DEF ServerReceives, Strays
  <2>5. ASSUME f.stream \in DOMAIN smux, smux[f.stream] # f.from
        PROVE  \/ f.stream \in Redrawn
               \/ BrowserOf(f.from) \in UdpBrowsers /\ f.type = "DATA"
                  /\ f.stream = conn[BrowserOf(f.from)].sid
    <3>1. /\ smux[f.stream] \in Requests
          /\ drawn[smux[f.stream]] = f.stream
      BY <2>5 DEF ServerTable, InstInv, Running
    <3> QED
      BY <1>3, <2>1, <2>5, <3>1 DEF UpFrame
  <2>6. ASSUME NEW w \in strayed', w \notin strayed
        PROVE  /\ w.frame = f
               /\ \/ f.stream \in Redrawn
                  \/ BrowserOf(f.from) \in UdpBrowsers /\ f.type = "DATA"
                     /\ f.stream = conn[BrowserOf(f.from)].sid
    BY <2>4, <2>5, <2>6
  <2> HIDE DEF f
  <2>7. ASSUME NEW w \in strayed'
        PROVE  /\ w.frame.from \in Requests
               /\ conn'[BrowserOf(w.frame.from)].st # "none" /\ Excused(w)'
    BY <1>1, <1>2, <2>2, <2>3, <2>6
  <2> QED
    BY <2>7 DEF StrayInv, RoutedToOwner
<1>7. CASE strayed' = strayed
  BY <1>2, <1>7 DEF StrayInv, RoutedToOwner
<1>8. ASSUME ServerReceives, Head(up).type = "SYN"
      PROVE  strayed' = strayed
  BY <1>8 DEF ServerReceives
<1> QED
  BY <1>5, <1>6, <1>7, <1>8, Changes DEF WhoChanges

(* The server takes the oldest frame off.                                  *)
LEMMA UpTaken ==
    ASSUME TypeOK, ServerReceives
    PROVE  /\ Len(up) \in Nat /\ Len(up') = Len(up) - 1 /\ 1 \in 1..Len(up)
           /\ \A k \in 1..Len(up') : k + 1 \in 1..Len(up) /\ up'[k] = up[k + 1]
           /\ \A k \in 1..Len(up) : k # 1 => k - 1 \in 1..Len(up') /\ up'[k - 1] = up[k]
           /\ Head(up) = up[1] /\ Head(up) \in FrameType
           /\ conn' = conn
<1>1. up # <<>> /\ up' = Tail(up) /\ conn' = conn
  BY DEF ServerReceives, clientVars
<1>2. /\ Len(up) \in Nat /\ 1 \in 1..Len(up)
      /\ Head(up) = up[1] /\ Head(up) \in FrameType
      /\ Len(up') = Len(up) - 1
      /\ \A k \in 1..Len(up') : up'[k] = up[k + 1]
  BY <1>1, TailFacts DEF TypeOK
<1>3. \A k \in 1..Len(up') : k + 1 \in 1..Len(up)
  BY <1>2
<1>4. ASSUME NEW k \in 1..Len(up), k # 1
      PROVE  k - 1 \in 1..Len(up') /\ up'[k - 1] = up[k]
  <2>1. k - 1 \in 1..Len(up') /\ (k - 1) + 1 = k
    BY <1>2, <1>4
  <2>2. up'[k - 1] = up[(k - 1) + 1]
    BY <1>2, <2>1
  <2> QED
    BY <2>1, <2>2
<1> QED
  BY <1>1, <1>2, <1>3, <1>4

(* Nobody sends a SYN or a FIN, and none is taken off.                     *)
UpQuiet ==
    /\ \/ up' = up
       \/ \E b \in Browsers : SendData(b) /\ SentUp(Current(b), "DATA", StreamToSend(b))
    /\ ~ServerReceives
    /\ \A b \in Browsers : ~create_session(b) /\ ~CloseSession(b)

(* Only opening, closing, receiving and loss add or take SYN or FIN.       *)
LEMMA UpCases ==
    ASSUME TypeOK, DrawInv, [Next]_vars
    PROVE  \/ \E b \in Browsers : create_session(b) \/ CloseSession(b)
           \/ ServerReceives
           \/ UpIsLost
           \/ UpQuiet
BY UpMoves DEF UpMove, UpQuiet

(* A datagram more: SYN and FIN stay where they are.                       *)
LEMMA QuietFacts ==
    ASSUME TypeOK, UpQuiet
    PROVE  \A i \in Requests :
              /\ \A k \in 1..Len(up') :
                    (SynOf(i, k)' \/ FinOf(i, k)') =>
                       k \in 1..Len(up) /\ up'[k] = up[k]
              /\ \A k \in 1..Len(up) : k \in 1..Len(up') /\ up'[k] = up[k]
BY DEF UpQuiet, SentUp, Sent, SynOf, FinOf

(* A SYN once for each request, while its target does not exist.           *)
SynOne(i) ==
    /\ ~Entered(i) => inst[i].st = "none"
    /\ \A k \in 1..Len(up) :
          SynOf(i, k) => /\ inst[i].st = "none"
                         /\ \A l \in 1..Len(up) : SynOf(i, l) => l = k
    /\ (link /\ inst[i].st = "none" /\ Entered(i)) => \E k \in 1..Len(up) : SynOf(i, k)

(* Only create_session enters a request, that of its session_.             *)
LEMMA EnteredBy ==
    ASSUME TypeOK, DrawInv, SessionsInv, MuxInv, [Next]_vars,
           NEW i \in Requests, Entered(i)', ~Entered(i)
    PROVE  \E b \in Browsers : create_session(b) /\ i = Current(b)
<1>1. create_session(BrowserOf(i)) /\ NumberOf(i) = conn[BrowserOf(i)].made
  BY RequestMoves DEF RequestMove
<1>2. BrowserOf(i) \in Browsers /\ i = Current(BrowserOf(i))
  BY <1>1, RequestFacts DEF Current
<1> QED
  BY <1>1, <1>2

(* One session at a time.                                                  *)
LEMMA OneSession ==
    ASSUME TypeOK, NEW b \in Browsers, NEW c \in Browsers, create_session(b)
    PROVE  ~CloseSession(c) /\ (create_session(c) => c = b)
<1>1. conn[b].st = "drew" /\ conn'[b].st \in {"open", "next"}
      /\ \A d \in Browsers : d # b => conn'[d] = conn[d]
  BY EnterConn
<1>2. CloseSession(c) => conn'[c].st = "closed" /\ conn[c].st # "closed"
  BY CloseConn
<1>3. create_session(c) => conn[c].st = "drew" /\ conn'[c].st # "drew"
  BY EnterConn
<1> QED
  BY <1>1, <1>2, <1>3

(* A SYN is under way exactly while its target does not exist and the      *)
(* channel is open.                                                        *)
LEMMA SynKept ==
    ASSUME TypeOK, DrawInv, SessionsInv, MuxInv, ServerTable(smux), ServerTable(tunnels),
           UpInv, SynInv, [Next]_vars
    PROVE  SynInv'
<1>1. \A i \in Requests : InstMove(i) /\ (Entered(i) => Entered(i)')
  BY InstMoves, RequestMoves DEF RequestMove
<1>2. link' => link
  BY Changes DEF WhoChanges, LinkCloses
<1>3. \A i \in Requests : SynOne(i)
  BY DEF SynInv, SynOne
<1>4. ASSUME NEW i \in Requests
      PROVE  SynOne(i)'
  <2>1. CASE ServerReceives
    <3>1. UpFrame(up[1])
      BY <2>1, UpTaken DEF UpInv
    <3>2. Entered(i)' <=> Entered(i)
      BY <2>1, UpTaken DEF Entered, Made
    <3>3. CASE SynOf(i, 1)
      <4>1. inst'[i].st = "listed" /\ Entered(i)
        BY <2>1, <3>1, <3>3, UpTaken, SynInst DEF SynOf, UpFrame
      <4>2. ASSUME NEW k \in 1..Len(up'), SynOf(i, k)'
            PROVE  FALSE
        <5>1. k + 1 \in 1..Len(up) /\ SynOf(i, k + 1)
          BY <2>1, <4>2, UpTaken DEF SynOf
        <5>2. k + 1 = 1
          BY <1>3, <3>3, <5>1, <2>1, UpTaken DEF SynOne
        <5> QED
          BY <5>2
      <4> QED
        BY <3>2, <4>1, <4>2 DEF SynOne
    <3>4. CASE ~SynOf(i, 1)
      <4>1. inst'[i].st = "none" <=> inst[i].st = "none"
        BY <1>1, <2>1, <3>4, UpTaken DEF InstMove, SynOf, Running
      <4>2. ASSUME NEW k \in 1..Len(up'), SynOf(i, k)'
            PROVE  /\ inst'[i].st = "none"
                   /\ \A l \in 1..Len(up') : SynOf(i, l)' => l = k
        <5>1. k + 1 \in 1..Len(up) /\ SynOf(i, k + 1)
          BY <2>1, <4>2, UpTaken DEF SynOf
        <5>2. ASSUME NEW l \in 1..Len(up'), SynOf(i, l)'
              PROVE  l = k
          <6>1. l + 1 \in 1..Len(up) /\ SynOf(i, l + 1)
            BY <2>1, <5>2, UpTaken DEF SynOf
          <6>2. l + 1 = k + 1
            BY <1>3, <5>1, <6>1 DEF SynOne
          <6> QED
            BY <6>2
        <5> QED
          BY <1>3, <4>1, <5>1, <5>2 DEF SynOne
      <4>3. ASSUME link', inst'[i].st = "none", Entered(i)'
            PROVE  \E k \in 1..Len(up') : SynOf(i, k)'
        <5>1. PICK k \in 1..Len(up) : SynOf(i, k)
          BY <1>2, <1>3, <3>2, <4>1, <4>3 DEF SynOne
        <5>2. k - 1 \in 1..Len(up') /\ up'[k - 1] = up[k]
          BY <2>1, <3>4, <5>1, UpTaken
        <5>3. SynOf(i, k - 1)'
          BY <5>1, <5>2 DEF SynOf
        <5> QED
          BY <5>2, <5>3
      <4>4. ~Entered(i)' => inst'[i].st = "none"
        BY <1>3, <3>2, <4>1 DEF SynOne
      <4> QED
        BY <4>2, <4>3, <4>4 DEF SynOne
    <3> QED
      BY <3>3, <3>4
  <2>2. CASE UpIsLost
    <3>1. up' = <<>> /\ ~link' /\ conn' = conn /\ inst' = inst
      BY <2>2 DEF UpIsLost, clientVars, serverVars
    <3>2. Len(up') = 0 /\ (Entered(i)' <=> Entered(i))
      BY <3>1 DEF Entered, Made
    <3> QED
      BY <1>3, <3>1, <3>2 DEF SynOne
  <2>3. CASE UpQuiet
    <3>1. inst'[i].st = "none" <=> inst[i].st = "none"
      BY <1>1, <2>3 DEF InstMove, UpQuiet, Running
    <3>2. Entered(i)' <=> Entered(i)
      BY <1>1, <2>3, EnteredBy DEF UpQuiet
    <3> QED
      BY <1>2, <1>3, <2>3, <3>1, <3>2, QuietFacts DEF SynOne, SynOf
  <2>4. ASSUME NEW b \in Browsers, create_session(b)
        PROVE  SynOne(i)'
    <3>1. inst' = inst /\ link' = link
      BY <2>4 DEF create_session, serverVars
    <3>2. PICK f \in FrameType :
              f.from = Current(b) /\ f.type = "SYN" /\ Sent(up, up', f)
      BY <2>4, SynSent DEF SentUp
    <3>3. CASE i = Current(b)
      <4>1. conn[b].st = "drew" /\ conn[b].made > 0
        BY <2>4 DEF create_session, DrawInv
      <4>2. BrowserOf(i) = b /\ NumberOf(i) = conn[b].made
        BY <3>3, <4>1, CurrentFacts
      <4>3. ~Entered(i)
        BY <4>1, <4>2 DEF Entered
      <4>4. \A k \in 1..Len(up) : ~SynOf(i, k)
        BY <4>3 DEF UpInv, UpFrame, SynOf
      <4>5. inst[i].st = "none"
        BY <1>3, <4>3 DEF SynOne
      <4>6. \A k \in 1..Len(up') : SynOf(i, k)' => k = Len(up) + 1
        BY <3>2, <4>4 DEF Sent, SynOf
      <4>7. link => \E k \in 1..Len(up') : SynOf(i, k)'
        BY <3>2, <3>3 DEF Sent, SynOf
      <4> QED
        BY <1>2, <3>1, <4>5, <4>6, <4>7 DEF SynOne
    <3>4. CASE i # Current(b)
      <4>1. \A k \in 1..Len(up') : SynOf(i, k)' => k \in 1..Len(up) /\ SynOf(i, k)
        BY <3>2, <3>4 DEF Sent, SynOf
      <4>2. \A k \in 1..Len(up) : SynOf(i, k) => k \in 1..Len(up') /\ SynOf(i, k)'
        BY <3>2 DEF Sent, SynOf
      <4>3. Entered(i)' <=> Entered(i)
        BY <1>1, <2>4, <3>4, EnteredBy, OneSession
      <4> QED
        BY <1>2, <1>3, <3>1, <4>1, <4>2, <4>3 DEF SynOne
    <3> QED
      BY <3>3, <3>4
  <2>5. ASSUME NEW b \in Browsers, CloseSession(b)
        PROVE  SynOne(i)'
    <3>1. inst' = inst /\ link' = link
      BY <2>5 DEF CloseSession, serverVars
    <3>2. Entered(i)' <=> Entered(i)
      BY <1>1, <2>5, EnteredBy, OneSession
    <3>3. up' = up \/ \E f \in FrameType : f.type = "FIN" /\ Sent(up, up', f)
      BY <2>5, FinSent DEF SentUp
    <3>4. /\ \A k \in 1..Len(up') : SynOf(i, k)' => k \in 1..Len(up) /\ SynOf(i, k)
          /\ \A k \in 1..Len(up) : SynOf(i, k) => k \in 1..Len(up') /\ SynOf(i, k)'
      BY <3>3 DEF Sent, SynOf
    <3> QED
      BY <1>2, <1>3, <3>1, <3>2, <3>4 DEF SynOne
  <2> QED
    BY <2>1, <2>2, <2>3, <2>4, <2>5, UpCases
<1> QED
  BY <1>4 DEF SynInv, SynOne

(* The FIN of a connection that has ended: it comes after the SYN, and     *)
(* while the link is open it is under way or has told the target, unless   *)
(* the target's own FIN came first.                                        *)
FinAfterSyn(i) ==
    \A k \in 1..Len(up) :
        FinOf(i, k) => \/ inst[i].st # "none"
                       \/ \E l \in 1..Len(up) : l < k /\ SynOf(i, l)
FinComes(i) ==
    (link /\ Once(i) /\ Over(i)) =>
        \/ conn[BrowserOf(i)].p2pClosed \/ inst[i].asked \/ inst[i].st = "closed"
        \/ \E k \in 1..Len(up) : FinOf(i, k)
PeerClosed(i) ==
    (Once(i) /\ AskedOnce(i) /\ NumberOf(i) = 1 /\ conn[BrowserOf(i)].p2pClosed) =>
        inst[i].st = "closed"

(* A FIN does not overtake the SYN of its session: the channel is ordered. *)
LEMMA FinAfterSynKept ==
    ASSUME TypeOK, DrawInv, SessionsInv, MuxInv, ServerTable(smux), ServerTable(tunnels),
           UpInv, SynInv, FinInv, [Next]_vars, NEW i \in Requests
    PROVE  FinAfterSyn(i)'
<1>1. InstMove(i)
  BY InstMoves
<1>2. FinAfterSyn(i)
  BY DEF FinInv, FinAfterSyn
<1>3. inst[i].st # "none" => inst'[i].st # "none"
  BY <1>1 DEF InstMove, Running
<1>4. CASE inst[i].st # "none"
  BY <1>3, <1>4 DEF FinAfterSyn
<1>5. CASE inst[i].st = "none" /\ ServerReceives
  <2>1. ASSUME NEW k \in 1..Len(up'), FinOf(i, k)'
        PROVE  \/ inst'[i].st # "none"
               \/ \E l \in 1..Len(up') : l < k /\ SynOf(i, l)'
    <3>1. k + 1 \in 1..Len(up) /\ FinOf(i, k + 1)
      BY <1>5, <2>1, UpTaken DEF FinOf
    <3>2. PICK l \in 1..Len(up) : l < k + 1 /\ SynOf(i, l)
      BY <1>2, <1>5, <3>1 DEF FinAfterSyn
    <3>3. CASE l = 1
      BY <1>5, <3>2, <3>3, UpTaken, SynInst DEF SynOf
    <3>4. CASE l # 1
      <4>1. l - 1 \in 1..Len(up') /\ up'[l - 1] = up[l] /\ l - 1 < k
        BY <1>5, <3>2, <3>4, UpTaken
      <4>2. SynOf(i, l - 1)'
        BY <3>2, <4>1 DEF SynOf
      <4> QED
        BY <4>1, <4>2
    <3> QED
      BY <3>3, <3>4
  <2> QED
    BY <2>1 DEF FinAfterSyn
<1>6. CASE UpIsLost
  <2>1. Len(up') = 0
    BY <1>6 DEF UpIsLost
  <2> QED
    BY <2>1 DEF FinAfterSyn
<1>7. CASE UpQuiet
  BY <1>2, <1>3, <1>7, QuietFacts DEF FinAfterSyn, FinOf, SynOf
<1>8. ASSUME NEW b \in Browsers, create_session(b)
      PROVE  FinAfterSyn(i)'
  <2>1. PICK f \in FrameType : f.type = "SYN" /\ Sent(up, up', f)
    BY <1>8, SynSent DEF SentUp
  <2>2. \A k \in 1..Len(up') : FinOf(i, k)' => k \in 1..Len(up) /\ FinOf(i, k)
    BY <2>1 DEF Sent, FinOf
  <2>3. \A k \in 1..Len(up) : SynOf(i, k) => k \in 1..Len(up') /\ SynOf(i, k)'
    BY <2>1 DEF Sent, SynOf
  <2> QED
    BY <1>2, <1>3, <2>2, <2>3 DEF FinAfterSyn
<1>9. ASSUME NEW b \in Browsers, CloseSession(b)
      PROVE  FinAfterSyn(i)'
  <2>1. conn[b].st \in {"accepted", "open", "connected"}
    BY <1>9, CloseConn
  <2>2. CASE conn[b].stream # 0 /\ ~conn[b].p2pClosed
    <3>1. PICK f \in FrameType : f.from = Current(b) /\ f.type = "FIN" /\ Sent(up, up', f)
      BY <1>9, <2>2, FinSent DEF SentUp
    <3>2. \A k \in 1..Len(up) : SynOf(i, k) => k \in 1..Len(up') /\ SynOf(i, k)'
      BY <3>1 DEF Sent, SynOf
    <3>3. ASSUME NEW k \in 1..Len(up'), FinOf(i, k)'
          PROVE  \/ inst'[i].st # "none"
                 \/ \E l \in 1..Len(up') : l < k /\ SynOf(i, l)'
      <4>1. CASE k \in 1..Len(up) /\ up'[k] = up[k]
        BY <1>2, <1>3, <3>2, <3>3, <4>1 DEF FinAfterSyn, FinOf
      <4>2. CASE k = Len(up) + 1 /\ up'[k] = f /\ link
        <5>1. i = Current(b)
          BY <3>1, <3>3, <4>2 DEF FinOf
        <5>2. BrowserOf(i) = b /\ NumberOf(i) = conn[b].made /\ conn[b].made \in Nat
          BY <2>2, <5>1, CurrentFacts
        <5>3. Entered(i)
          BY <2>1, <5>2 DEF Entered, Made
        <5>4. CASE inst[i].st = "none"
          <6>1. PICK l \in 1..Len(up) : SynOf(i, l)
            BY <4>2, <5>3, <5>4 DEF SynInv
          <6>2. l < k
            BY <3>1, <4>2 DEF Sent
          <6> QED
            BY <3>2, <6>1, <6>2
        <5> QED
          BY <1>3, <5>4
      <4> QED
        BY <3>1, <4>1, <4>2 DEF Sent
    <3> QED
      BY <3>3 DEF FinAfterSyn
  <2>3. CASE ~(conn[b].stream # 0 /\ ~conn[b].p2pClosed)
    <3>1. up' = up
      BY <1>9, <2>3, FinSent
    <3> QED
      BY <1>2, <1>3, <3>1 DEF FinAfterSyn, FinOf, SynOf
  <2> QED
    BY <2>2, <2>3
<1> QED
  BY <1>4, <1>5, <1>6, <1>7, <1>8, <1>9, UpCases

(* A session that closed of itself has its FIN under way until its target  *)
(* is told, unless the peer closed first.                                  *)
LEMMA FinComesKept ==
    ASSUME TypeOK, DrawInv, SessionsInv, MuxInv, ServerTable(smux), ServerTable(tunnels),
           KeepsSession, InstInv, UpInv, SynInv, FinInv, [Next]_vars, NEW i \in Requests
    PROVE  FinComes(i)'
<1> DEFINE b == BrowserOf(i)
<1>1. b \in Browsers /\ NumberOf(i) \in Nat /\ 1 =< NumberOf(i)
  BY RequestFacts
<1>2. ConnMove(b) /\ InstMove(i)
  BY <1>1, ConnMoves, InstMoves
<1>3. link' => link
  BY Changes DEF WhoChanges, LinkCloses
<1>4. FinComes(i)
  BY DEF FinInv, FinComes
<1>5. Once(i)' => Once(i)
  BY OnceKept
<1>6. /\ conn[b].p2pClosed => conn'[b].p2pClosed
      /\ inst[i].asked => inst'[i].asked
      /\ inst[i].st = "closed" => inst'[i].st = "closed"
  BY <1>2 DEF ConnMove, InstMove, Running
<1>7. ASSUME Over(i)
      PROVE  FinComes(i)'
  <2>1. ASSUME NEW k \in 1..Len(up), FinOf(i, k), link', Once(i)
        PROVE  \/ inst'[i].asked \/ inst'[i].st = "closed"
               \/ \E l \in 1..Len(up') : FinOf(i, l)'
    <3>1. CASE ServerReceives /\ k = 1
      <4>1. /\ Head(up).type = "FIN" /\ Head(up).from = i
            /\ Head(up).stream = drawn[i]
        BY <2>1, <3>1, UpTaken DEF FinOf, UpInv, UpFrame, OfStream
      <4>2. inst[i].st # "none" /\ inst[i].st # "listed"
        <5>1. inst[i].st # "none"
          BY <2>1, <3>1, UpTaken DEF FinInv
        <5> QED
          BY <3>1, <5>1 DEF ServerReceives
      <4>3. CASE Started(i)
        <5>1. Head(up).stream \in DOMAIN smux /\ smux[Head(up).stream] = i
          BY <2>1, <4>1, <4>3 DEF KeepsSession, InstInv, Started, Running
        <5> QED
          BY <3>1, <4>1, <5>1, OtherInst
      <4>4. CASE ~Started(i)
        BY <1>6, <4>2, <4>4 DEF Started, Running
      <4> QED
        BY <4>3, <4>4
    <3>2. CASE ServerReceives /\ k # 1
      <4>1. k - 1 \in 1..Len(up') /\ FinOf(i, k - 1)'
        BY <2>1, <3>2, UpTaken DEF FinOf
      <4> QED
        BY <4>1
    <3>3. CASE UpQuiet
      BY <2>1, <3>3, QuietFacts DEF FinOf
    <3>4. ASSUME NEW c \in Browsers, create_session(c) \/ CloseSession(c)
          PROVE  k \in 1..Len(up') /\ FinOf(i, k)'
      <4>1. up' = up \/ \E f \in FrameType : Sent(up, up', f)
        BY <3>4, SynSent, FinSent DEF SentUp
      <4> QED
        BY <2>1, <4>1 DEF Sent, FinOf
    <3>5. ~UpIsLost
      BY <1>3, <2>1 DEF UpIsLost
    <3> QED
      BY <3>1, <3>2, <3>3, <3>4, <3>5, UpCases
  <2> QED
    BY <1>3, <1>4, <1>5, <1>6, <1>7, <2>1 DEF FinComes
<1>8. ASSUME ~Over(i), Over(i)', link'
      PROVE  conn'[b].p2pClosed \/ \E k \in 1..Len(up') : FinOf(i, k)'
  <2>1. CloseSession(b) /\ conn'[b].made = conn[b].made
    BY <1>2, <1>8 DEF ConnMove, Over, AskedOnce, Made, KeepsNumbers
  <2>2. NumberOf(i) =< conn[b].made /\ conn[b].made =< 1 /\ conn[b].made \in Nat
    BY <1>1, <1>8, <2>1 DEF Over, AskedOnce, Made, TypeOK, ConnType
  <2>3. NumberOf(i) = conn[b].made /\ conn[b].made > 0
    BY <1>1, <2>2
  <2>4. i = Current(b)
    BY <2>3, RequestFacts DEF Current
  <2>5. conn[b].stream # 0
    BY <1>1, <2>3, CurrentFacts
  <2>6. CASE ~conn[b].p2pClosed
    <3>1. PICK f \in FrameType : f.from = i /\ f.type = "FIN" /\ Sent(up, up', f)
      BY <1>1, <2>1, <2>4, <2>5, <2>6, FinSent DEF SentUp
    <3> QED
      BY <1>3, <1>8, <3>1 DEF Sent, FinOf
  <2> QED
    BY <1>6, <2>6
<1> QED
  BY <1>7, <1>8 DEF FinComes

(* A session that was told of the peer's FIN has a target that is closed.  *)
LEMMA PeerClosedKept ==
    ASSUME TypeOK, DrawInv, SessionsInv, MuxInv, ServerTable(smux), ServerTable(tunnels),
           UpInv, SynInv, DownInv, FinInv, [Next]_vars, NEW i \in Requests
    PROVE  PeerClosed(i)'
<1> DEFINE b == BrowserOf(i)
<1>1. b \in Browsers
  BY RequestFacts
<1>2. ConnMove(b) /\ InstMove(i) /\ conn[b].made \in Nat
  BY <1>1, ConnMoves, InstMoves DEF TypeOK, ConnType
<1>3. Once(i)' => Once(i)
  BY OnceKept
<1>4. AskedOnce(i)' => AskedOnce(i)
  BY <1>2 DEF AskedOnce, ConnMove, KeepsNumbers
<1>5. inst[i].st = "closed" => inst'[i].st = "closed"
  BY <1>2 DEF InstMove, Running
<1>6. CASE conn[b].p2pClosed
  BY <1>3, <1>4, <1>5, <1>6 DEF FinInv, PeerClosed
<1>7. ASSUME ~conn[b].p2pClosed, conn'[b].p2pClosed, Once(i), AskedOnce(i), NumberOf(i) = 1
      PROVE  inst'[i].st = "closed"
  <2> DEFINE f == Head(down)
             q == mux[f.stream]
  <2>1. ClientReceives /\ Hears(b) /\ f.type = "FIN"
    BY <1>2, <1>7 DEF ConnMove
  <2>2. f \in FrameType /\ DownFrame(f)
    BY <2>1, TailFacts DEF ClientReceives, TypeOK, DownInv
  <2>3. f.from \in Requests /\ drawn[f.from] = f.stream /\ f.stream # 0
    BY <2>2 DEF FrameType, DownFrame, OfStream
  <2>4. q \in Requests /\ drawn[q] = f.stream /\ Made(q) /\ BrowserOf(q) = b
    BY <2>1 DEF Hears, MuxInv, Owns
  <2> HIDE DEF f, q
  <2>5. q = i
    <3>1. NumberOf(q) =< conn[b].made /\ conn[b].made =< 1
      BY <1>7, <2>4 DEF Made, AskedOnce
    <3>2. NumberOf(q) \in Nat /\ 1 =< NumberOf(q) /\ q = Request(b, NumberOf(q))
          /\ i = Request(b, 1)
      BY <1>7, <2>4, RequestFacts
    <3> QED
      BY <1>2, <3>1, <3>2
  <2>6. f.from = i
    BY <1>7, <2>3, <2>4, <2>5, RedrawnFacts DEF Once
  <2>7. inst[i].st = "closed"
    BY <2>1, <2>2, <2>6 DEF DownFrame
  <2> QED
    BY <1>5, <2>7
<1> QED
  BY <1>3, <1>4, <1>6, <1>7 DEF PeerClosed

(* The three parts of FinInv are kept.                                     *)
LEMMA FinKept ==
    ASSUME TypeOK, DrawInv, SessionsInv, MuxInv, ServerTable(smux), ServerTable(tunnels),
           KeepsSession, InstInv, UpInv, SynInv, DownInv, FinInv, [Next]_vars
    PROVE  FinInv'
<1>1. \A i \in Requests : FinAfterSyn(i)' /\ FinComes(i)' /\ PeerClosed(i)'
  BY FinAfterSynKept, FinComesKept, PeerClosedKept
<1> QED
  BY <1>1 DEF FinInv, FinAfterSyn, FinComes, PeerClosed

-----------------------------------------------------------------------------
(* The loops that close everything.                                        *)

(* A loop whose table was changed under it stays known.                    *)
LEMMA DisturbedKept ==
    ASSUME [Next]_vars
    PROVE  disturbed \subseteq disturbed' /\ replaced \subseteq replaced'
<1>1. ASSUME NEW b \in Browsers, Accept(b)
      PROVE  disturbed \subseteq disturbed' /\ replaced \subseteq replaced'
  BY <1>1 DEF Accept, Disturb
<1>2. ASSUME NEW b \in Browsers, CloseSession(b)
      PROVE  disturbed \subseteq disturbed' /\ replaced \subseteq replaced'
  BY <1>2 DEF CloseSession, Disturb
<1>3. ASSUME NEW i \in Requests, CloseTunnel(i)
      PROVE  disturbed \subseteq disturbed' /\ replaced \subseteq replaced'
  BY <1>3 DEF CloseTunnel, Disturb
<1>4. CASE ServerReceives
  BY <1>4 DEF ServerReceives, on_syn, Disturb
<1> QED
  BY <1>1, <1>2, <1>3, <1>4, Changes DEF WhoChanges

(* What stop() has passed was told to close, and when it is done, all that *)
(* was in the table (SocksServer::stop).                                   *)
LEMMA StopKept ==
    ASSUME TypeOK, DrawInv, SessionsInv, MuxInv, ListedInv, StopInv, [Next]_vars
    PROVE  StopInv'
<1> DEFINE Passed == \A i \in DOMAIN sessions : i =< stopping.at => conn[sessions[i]].asked
           AllTold == \A b \in Browsers :
                        (Live(b) /\ b \notin replaced) => conn[b].asked \/ conn[b].late
<1>1. \A c \in Browsers : ConnMove(c)
  BY ConnMoves
<1>2. stopping'.st # "no" => listening' # "yes"
  <2>1. ASSUME NEW b \in Browsers, Accept(b)
        PROVE  stopping' = stopping /\ (listening' = listening \/ listening' = "no")
    BY <2>1 DEF Accept
  <2>2. CASE Stop
    BY <2>2 DEF Stop
  <2>3. CASE StopNext
    BY <2>3 DEF StopNext, StopInv
  <2>4. CASE StopEnds
    BY <2>4 DEF StopEnds, StopInv
  <2> QED
    BY <2>1, <2>2, <2>3, <2>4, Changes DEF WhoChanges, StopInv
<1>3. ASSUME stopping'.st = "on", "stop" \notin disturbed'
      PROVE  Passed'
  <2>1. CASE Stop
    <3>1. stopping'.at = 0 /\ sessions' = sessions
      BY <2>1 DEF Stop
    <3> QED
      BY <3>1 DEF SessionsInv
  <2>2. CASE StopNext
    <3>1. sessions' = sessions /\ disturbed' = disturbed
      BY <2>2 DEF StopNext, history
    <3>2. /\ stopping.st = "on"
          /\ \A j \in DOMAIN sessions :
                 j =< stopping'.at => j =< stopping.at \/ j = stopping'.at
          /\ conn'[sessions[stopping'.at]].asked
          /\ \A c \in Browsers : conn[c].asked => conn'[c].asked
      BY <2>2, StopNextConn
    <3>3. Passed
      BY <1>3, <3>1, <3>2 DEF StopInv
    <3> QED
      BY <3>1, <3>2, <3>3 DEF SessionsInv
  <2>3. CASE StopEnds
    BY <1>3, <2>3 DEF StopEnds, TypeOK, LoopType
  <2>4. ASSUME NEW b \in Browsers, Accept(b), stopping' = stopping
        PROVE  FALSE
    <3>1. disturbed' = disturbed \cup {"stop"}
      BY <1>3, <2>4 DEF Accept, Disturb
    <3> QED
      BY <1>3, <3>1
  <2>5. ASSUME NEW b \in Browsers, CloseSession(b), stopping' = stopping
        PROVE  sessions' = sessions /\ disturbed' = disturbed
    <3>1. CASE conn[b].onClose
      <4>1. disturbed' = disturbed \cup {"stop"}
        BY <1>3, <2>5, <3>1 DEF CloseSession, Disturb
      <4> QED
        BY <1>3, <4>1
    <3>2. CASE ~conn[b].onClose
      BY <2>5, <3>2 DEF CloseSession
    <3> QED
      BY <3>1, <3>2
  <2>6. CASE stopping' = stopping /\ sessions' = sessions
    <3>1. "stop" \notin disturbed
      BY <1>3, DisturbedKept
    <3>2. Passed
      BY <1>3, <2>6, <3>1 DEF StopInv
    <3> QED
      BY <1>1, <2>6, <3>2 DEF ConnMove, SessionsInv
  <2> QED
    BY <2>1, <2>2, <2>3, <2>4, <2>5, <2>6, Changes DEF WhoChanges
<1>4. ASSUME stopping'.st = "done", "stop" \notin disturbed'
      PROVE  AllTold'
  <2>1. CASE StopEnds
    <3>1. /\ stopping.st = "on" /\ "stop" \notin disturbed
          /\ Ahead(sessions, stopping) = {}
          /\ conn' = conn /\ replaced' = replaced
      BY <1>4, <2>1 DEF StopEnds, history
    <3>2. \A i \in DOMAIN sessions : conn[sessions[i]].asked
      <4>1. Passed
        BY <3>1 DEF StopInv
      <4>2. \A i \in DOMAIN sessions : i \in Nat /\ stopping.at \in Nat
        BY DEF SessionsInv, TypeOK, LoopType
      <4>3. \A i \in DOMAIN sessions : ~(i > stopping.at)
        BY <3>1 DEF Ahead
      <4> QED
        BY <4>1, <4>2, <4>3
    <3> QED
      BY <3>1, <3>2 DEF ListedInv, Live
  <2>2. CASE Stop \/ StopNext
    BY <1>4, <2>2, StopNextConn DEF Stop
  <2>3. CASE stopping' = stopping
    <3>1. disturbed \subseteq disturbed' /\ replaced \subseteq replaced'
      BY DisturbedKept
    <3>2. AllTold /\ listening # "yes"
      BY <1>4, <2>3, <3>1 DEF StopInv
    <3>3. ASSUME NEW b \in Browsers, Live(b)', b \notin replaced'
          PROVE  conn'[b].asked \/ conn'[b].late
      <4>1. CASE Accept(b)
        <5>1. listening = "late"
          BY <3>2, <4>1 DEF Accept, TypeOK
        <5>2. conn'[b].late
          BY <4>1, <5>1, AcceptConn
        <5> QED
          BY <5>2
      <4>2. CASE ~Accept(b)
        <5>1. Live(b) /\ conn'[b].late = conn[b].late /\ (conn[b].asked => conn'[b].asked)
          BY <1>1, <3>3, <4>2 DEF ConnMove, KeepsNumbers, Live
        <5> QED
          BY <3>1, <3>2, <3>3, <5>1
      <4> QED
        BY <4>1, <4>2
    <3> QED
      BY <3>3
  <2> QED
    BY <2>1, <2>2, <2>3, Changes DEF WhoChanges
<1> QED
  BY <1>2, <1>3, <1>4 DEF StopInv

(* The server's loop over tunnel_sessions_ has told every target it        *)
(* passed, one it has yet to pass is still in the table, and one that a    *)
(* SYN makes changes the table under the loop or comes after it            *)
(* (onStateChange, on_syn).                                                *)
LEMMA ClosedKept ==
    ASSUME TypeOK, DrawInv, SessionsInv, MuxInv, ServerTable(smux), ServerTable(tunnels),
           KeepsTunnel, UpInv, SynInv, ClosedInv, [Next]_vars
    PROVE  ClosedInv'
<1> DEFINE Passed == \A s \in DOMAIN tunnels : s =< closing.at => inst[tunnels[s]].asked
           AllTold == \A i \in Requests :
                        (Running(i) /\ Once(i)) => inst[i].asked \/ inst[i].late
<1>1. \A c \in Requests : InstMove(c)
  BY InstMoves
<1>2. closing'.st # "no" => ~link'
  <2>1. link' => link
    BY Changes DEF WhoChanges, LinkCloses
  <2>2. CASE OnClosed
    BY <2>1, <2>2 DEF OnClosed
  <2>3. CASE ClosedNext
    BY <2>1, <2>3 DEF ClosedNext, ClosedInv
  <2>4. CASE ClosedEnds
    BY <2>1, <2>4 DEF ClosedEnds, ClosedInv
  <2> QED
    BY <2>1, <2>2, <2>3, <2>4, Changes DEF WhoChanges, ClosedInv
<1>3. disturbed \subseteq disturbed'
  BY DisturbedKept
<1>4. ASSUME closing'.st = "on", "closed" \notin disturbed'
      PROVE  Passed'
  <2>1. CASE OnClosed
    <3>1. closing'.at = 0 /\ tunnels' = tunnels
      BY <2>1 DEF OnClosed
    <3>2. \A s \in DOMAIN tunnels : s \in Nat \ {0}
      BY StreamsAssumption DEF ServerTable
    <3> QED
      BY <3>1, <3>2
  <2>2. CASE ClosedNext
    <3>1. tunnels' = tunnels
      BY <2>2 DEF ClosedNext
    <3>2. /\ closing.st = "on"
          /\ \A j \in DOMAIN tunnels :
                 j =< closing'.at => j =< closing.at \/ j = closing'.at
          /\ inst'[tunnels[closing'.at]].asked
          /\ \A c \in Requests : inst[c].asked => inst'[c].asked
      BY <2>2, ClosedNextInst DEF ToldInst
    <3>3. Passed
      BY <1>3, <1>4, <3>2 DEF ClosedInv
    <3> QED
      BY <3>1, <3>2, <3>3 DEF ServerTable
  <2>3. CASE ClosedEnds
    BY <1>4, <2>3 DEF ClosedEnds, TypeOK, LoopType
  <2>4. CASE closing' = closing
    <3>1. ASSUME NEW i \in Requests, CloseTunnel(i)
          PROVE  FALSE
      <4>1. disturbed' = disturbed \cup {"closed"}
        BY <1>4, <2>4, <3>1 DEF CloseTunnel, Disturb
      <4> QED
        BY <1>4, <4>1
    <3>2. ASSUME ServerReceives
          PROVE  tunnels' = tunnels
      <4>1. CASE Head(up).type = "SYN"
        <5>1. disturbed' = disturbed \cup {"closed"}
          BY <1>4, <2>4, <3>2, <4>1 DEF ServerReceives, on_syn, Disturb
        <5> QED
          BY <1>4, <5>1
      <4>2. CASE Head(up).type # "SYN"
        BY <3>2, <4>2 DEF ServerReceives
      <4> QED
        BY <4>1, <4>2
    <3>3. tunnels' = tunnels
      BY <3>1, <3>2, Changes DEF WhoChanges
    <3>4. Passed
      BY <1>3, <1>4, <2>4 DEF ClosedInv
    <3> QED
      BY <1>1, <2>4, <3>3, <3>4 DEF InstMove, ServerTable
  <2> QED
    BY <2>1, <2>2, <2>3, <2>4, Changes DEF WhoChanges
<1>5. ASSUME closing'.st = "done", "closed" \notin disturbed'
      PROVE  AllTold'
  <2>1. CASE ClosedEnds
    <3>1. /\ closing.st = "on" /\ "closed" \notin disturbed
          /\ Ahead(tunnels, closing) = {}
          /\ drawn' = drawn /\ inst' = inst
      BY <1>5, <2>1 DEF ClosedEnds, history, clientVars
    <3>2. \A s \in DOMAIN tunnels : inst[tunnels[s]].asked
      <4>1. Passed
        BY <3>1 DEF ClosedInv
      <4>2. \A s \in DOMAIN tunnels : s \in Nat /\ closing.at \in Nat
        BY StreamsAssumption DEF ServerTable, TypeOK, LoopType
      <4>3. \A s \in DOMAIN tunnels : ~(s > closing.at)
        BY <3>1 DEF Ahead
      <4> QED
        BY <4>1, <4>2, <4>3
    <3>3. AllTold
      BY <3>2 DEF KeepsTunnel
    <3> QED
      BY <3>1, <3>3 DEF Running, Once, Redrawn
  <2>2. CASE OnClosed \/ ClosedNext
    BY <1>5, <2>2, ClosedNextInst DEF OnClosed
  <2>3. CASE closing' = closing
    <3>1. AllTold /\ closing.st = "done"
      BY <1>3, <1>5, <2>3 DEF ClosedInv
    <3>2. ASSUME NEW i \in Requests, Running(i)', Once(i)'
          PROVE  inst'[i].asked \/ inst'[i].late
      <4>1. Once(i)
        BY <3>2, OnceKept
      <4>2. CASE Running(i)
        <5>1. (inst[i].asked => inst'[i].asked) /\ inst'[i].late = inst[i].late
          BY <1>1, <4>2 DEF InstMove, Running
        <5> QED
          BY <3>1, <4>1, <4>2, <5>1
      <4>3. CASE ~Running(i)
        BY <1>1, <3>1, <3>2, <4>3 DEF InstMove, Running
      <4> QED
        BY <4>2, <4>3
    <3> QED
      BY <3>2
  <2> QED
    BY <2>1, <2>2, <2>3, Changes DEF WhoChanges
<1> QED
  BY <1>2, <1>4, <1>5 DEF ClosedInv

-----------------------------------------------------------------------------
(* The invariant.                                                          *)

(* Nothing has happened yet, or one session is there.                      *)
LEMMA InitConn ==
    ASSUME Init
    PROVE  /\ conn \in [Browsers -> ConnType]
           /\ id_ \in Nat
           /\ \A b \in Browsers :
                 /\ conn[b].stream = 0 /\ ~conn[b].p2pClosed /\ conn[b].made = 0
                 /\ conn[b].st \in {"none", "accepted"}
                 /\ conn[b].st = "accepted" =>
                       conn[b].sid \in DOMAIN sessions /\ sessions[conn[b].sid] = b
           /\ \A i \in DOMAIN sessions :
                 /\ i = 1 /\ sessions[i] \in Browsers
                 /\ conn[sessions[i]].st = "accepted"
<1>1. NoConn \in ConnType
  BY DEF NoConn, ConnType
<1>2. CASE id_ = 0 /\ sessions = NoTable /\ conn = [b \in Browsers |-> NoConn]
  <2>1. \A b \in Browsers : conn[b] = NoConn
    BY <1>2
  <2>2. DOMAIN sessions = {}
    BY <1>2 DEF NoTable
  <2>3. conn \in [Browsers -> ConnType]
    BY <1>1, <1>2
  <2> QED
    BY <1>2, <2>1, <2>2, <2>3 DEF NoConn
<1>3. ASSUME NEW first \in Browsers,
             id_ = LastId, sessions = Put(NoTable, 1, first),
             conn = [b \in Browsers |-> IF b = first
                        THEN [NoConn EXCEPT !.st = "accepted", !.sid = 1] ELSE NoConn]
      PROVE  /\ conn \in [Browsers -> ConnType]
             /\ id_ \in Nat
             /\ \A b \in Browsers :
                   /\ conn[b].stream = 0 /\ ~conn[b].p2pClosed /\ conn[b].made = 0
                   /\ conn[b].st \in {"none", "accepted"}
                   /\ conn[b].st = "accepted" =>
                         conn[b].sid \in DOMAIN sessions /\ sessions[conn[b].sid] = b
             /\ \A i \in DOMAIN sessions :
                   /\ i = 1 /\ sessions[i] \in Browsers
                   /\ conn[sessions[i]].st = "accepted"
  <2> DEFINE r == [NoConn EXCEPT !.st = "accepted", !.sid = 1]
  <2>1. /\ r \in ConnType
        /\ r.st = "accepted" /\ r.sid = 1 /\ r.stream = 0 /\ ~r.p2pClosed /\ r.made = 0
    BY <1>1 DEF NoConn, ConnType
  <2>2. IsPut(sessions, NoTable, 1, first)
    BY <1>3, PutFacts
  <2>3. DOMAIN sessions = {1} /\ sessions[1] = first
    BY <2>2 DEF IsPut, NoTable
  <2>4. conn = [b \in Browsers |-> IF b = first THEN r ELSE NoConn]
    BY <1>3
  <2> HIDE DEF r
  <2>5. conn \in [Browsers -> ConnType]
    BY <1>1, <2>1, <2>4
  <2>6. conn[first] = r /\ \A b \in Browsers : b # first => conn[b] = NoConn
    BY <2>4
  <2>7. NoConn.st = "none" /\ NoConn.stream = 0 /\ ~NoConn.p2pClosed /\ NoConn.made = 0
    BY DEF NoConn
  <2>8. id_ \in Nat
    BY <1>3, StreamsAssumption
  <2> QED
    BY <2>1, <2>3, <2>5, <2>6, <2>7, <2>8
<1> QED
  BY <1>2, <1>3, Zenon DEF Init

(* The two programs start with empty tables.                               *)
LEMMA InitInv ==
    ASSUME Init
    PROVE  IInv
<1>1. /\ listening = "yes"
      /\ mux = NoTable /\ smux = NoTable /\ tunnels = NoTable
      /\ inst = [r \in Requests |-> NoInst]
      /\ drawn = [r \in Requests |-> 0]
      /\ up = <<>> /\ down = <<>> /\ events = 0
      /\ stopping = [st |-> "no", at |-> 0] /\ closing = [st |-> "no", at |-> 0]
      /\ raced = {} /\ replaced = {} /\ disturbed = {} /\ strayed = {}
  BY DEF Init
<1>2. link \in BOOLEAN
  BY Zenon DEF Init
<1>3. NoInst \in InstType /\ NoInst.st = "none" /\ ~NoInst.asked
  BY DEF NoInst, InstType
<1>4. /\ inst \in [Requests -> InstType]
      /\ \A r \in Requests : inst[r].st = "none" /\ ~inst[r].asked
  BY <1>1, <1>3
<1>5. DOMAIN mux = {} /\ DOMAIN smux = {} /\ DOMAIN tunnels = {}
  BY <1>1 DEF NoTable
<1>6. Len(up) = 0 /\ Len(down) = 0 /\ up \in Seq(FrameType) /\ down \in Seq(FrameType)
  BY <1>1
<1>7. stopping.st = "no" /\ closing.st = "no"
      /\ stopping \in LoopType /\ closing \in LoopType
  BY <1>1 DEF LoopType
<1>8. listening \in {"yes", "late", "no"} /\ events \in Nat
  BY <1>1
<1>9. /\ drawn \in [Requests -> StreamIds \cup {0}]
      /\ \A r \in Requests : drawn[r] = 0 /\ ~Made(r) /\ ~Entered(r) /\ ~Owns(r) /\ ~Over(r)
  <2>1. \A r \in Requests : drawn[r] = 0
    BY <1>1
  <2>2. \A r \in Requests : ~Made(r)
    BY InitConn, RequestFacts DEF Made
  <2> QED
    BY <1>1, <2>1, <2>2 DEF Entered, Owns, Over
<1>10. TypeOK
  BY <1>2, <1>4, <1>6, <1>7, <1>8, <1>9, InitConn, Zenon DEF TypeOK
<1>11. ClientPart
  <2>1. DrawInv
    BY <1>9, InitConn, RequestFacts DEF DrawInv
  <2>2. SessionsInv /\ MuxInv /\ ListedInv
    BY <1>5, InitConn DEF SessionsInv, MuxInv, ListedInv, Live
  <2>3. OwnerInv
    BY <1>9 DEF OwnerInv
  <2> QED
    BY <2>1, <2>2, <2>3 DEF ClientPart
<1>12. ServerPart
  BY <1>4, <1>5
     DEF ServerPart, InstInv, DeafInv, ServerTable, KeepsTunnel, KeepsSession, Running, Started
<1>13. FramePart
  <2>1. UpInv /\ DownInv
    BY <1>6 DEF UpInv, DownInv
  <2>2. SynInv
    BY <1>4, <1>6, <1>9 DEF SynInv
  <2>3. FinInv
    BY <1>6, <1>9, InitConn, RequestFacts DEF FinInv
  <2>4. StrayInv /\ RoutedToOwner
    BY <1>1 DEF StrayInv, RoutedToOwner
  <2> QED
    BY <2>1, <2>2, <2>3, <2>4 DEF FramePart
<1>14. LoopPart
  BY <1>7 DEF LoopPart, StopInv, ClosedInv
<1> QED
  BY <1>10, <1>11, <1>12, <1>13, <1>14 DEF IInv

(* Every step of either program keeps the inductive invariant.             *)
LEMMA NextInv ==
    ASSUME IInv, [Next]_vars
    PROVE  IInv'
<1>1. /\ TypeOK
      /\ DrawInv /\ SessionsInv /\ MuxInv /\ ListedInv /\ OwnerInv
      /\ InstInv /\ DeafInv /\ ServerTable(smux) /\ ServerTable(tunnels)
      /\ KeepsTunnel /\ KeepsSession
      /\ UpInv /\ DownInv /\ SynInv /\ FinInv /\ StrayInv /\ RoutedToOwner
      /\ StopInv /\ ClosedInv
  BY DEF IInv, ClientPart, ServerPart, FramePart, LoopPart
<1>2. TypeOK'
  BY <1>1, NextTypeOK
<1>3. ClientPart'
  BY <1>1, DrawKept, SessionsKept, MuxKept, ListedKept, OwnerKept DEF ClientPart
<1>4. ServerPart'
  BY <1>1, InstKept, DeafKept, TablesKept, EntriesKept DEF ServerPart
<1>5. FramePart'
  BY <1>1, UpKept, DownKept, SynKept, FinKept, RoutedKept DEF FramePart
<1>6. LoopPart'
  BY <1>1, StopKept, ClosedKept DEF LoopPart
<1> QED
  BY <1>2, <1>3, <1>4, <1>5, <1>6 DEF IInv

(* Many connections over one link keep their tables in step, whatever the  *)
(* order of accepts, draws, frames, closings and loops.                    *)
THEOREM Invariance == Spec => []IInv
<1>1. Init => IInv
  BY InitInv
<1>2. IInv /\ [Next]_vars => IInv'
  BY NextInv
<1> QED
  BY <1>1, <1>2, PTL DEF Spec

(* SharedOnlyIfRaced: two open connections share a stream id only if it    *)
(* was drawn between another's gen_stream_id and create_session.           *)
THEOREM SharedOnlyIfRacedHolds == Spec => []SharedOnlyIfRaced
<1>1. IInv => SharedOnlyIfRaced
  BY SharedImplied DEF IInv, ClientPart
<1> QED
  BY <1>1, Invariance, PTL

(* RoutedToOwner: a frame reaches another's end only on a stream id that   *)
(* was drawn again, or as a datagram that UdpSession sends under its       *)
(* session id.                                                             *)
THEOREM RoutedToOwnerHolds == Spec => []RoutedToOwner
<1>1. IInv => RoutedToOwner
  BY DEF IInv, FramePart
<1> QED
  BY <1>1, Invariance, PTL

(* StopReachesAll: SocksServer::stop tells every session, but for those    *)
(* whose entry was lost, those accepted too late, and a loop whose map was *)
(* changed under it.                                                       *)
THEOREM StopReachesAllHolds == Spec => []StopReachesAll
<1>1. IInv => StopReachesAll
  BY DEF IInv, LoopPart, StopInv, StopReachesAll
<1> QED
  BY <1>1, Invariance, PTL

(* ClosedReachesAll: the server's walk on Closed tells every tunnel, but   *)
(* for those a SYN enters once it is over, those whose stream was drawn    *)
(* again, and a walk whose map was changed under it.                       *)
THEOREM ClosedReachesAllHolds == Spec => []ClosedReachesAll
<1>1. ASSUME IInv, closing.st = "done", "closed" \notin disturbed,
             NEW i \in Requests, inst[i].st \notin {"none", "closed"}
      PROVE  inst[i].asked \/ inst[i].late \/ inst[i].stream \in Redrawn
  <2>1. Running(i) /\ inst[i].stream = drawn[i]
    BY <1>1 DEF IInv, ServerPart, InstInv, Running
  <2>2. Once(i) => inst[i].asked \/ inst[i].late
    BY <1>1, <2>1 DEF IInv, LoopPart, ClosedInv
  <2> QED
    BY <2>1, <2>2 DEF Once
<1>2. IInv => ClosedReachesAll
  BY <1>1 DEF ClosedReachesAll
<1> QED
  BY <1>2, Invariance, PTL

(* EverythingIsReleased: when every browser has gone and nothing is under  *)
(* way, nothing is left but streams that a browser's later requests        *)
(* replaced, tunnels of such browsers, and, when the link has gone, what   *)
(* the walk on Closed could not tell.                                      *)
THEOREM EverythingIsReleasedHolds == Spec => []EverythingIsReleased
<1>1. ASSUME IInv, Quiet, Redrawn = {}
      PROVE  /\ DOMAIN sessions = {}
             /\ \A s \in DOMAIN mux : mux[s] # Current(BrowserOf(mux[s]))
             /\ \A s \in DOMAIN smux : MayStay(smux[s])
             /\ \A s \in DOMAIN tunnels : MayStay(tunnels[s])
             /\ \A i \in Requests : inst[i].st \notin {"none", "closed"} => MayStay(i)
  <2>1. /\ TypeOK /\ DrawInv /\ SessionsInv /\ MuxInv
        /\ InstInv /\ DeafInv /\ ServerTable(smux) /\ ServerTable(tunnels)
        /\ FinInv /\ ClosedInv
    BY <1>1 DEF IInv, ClientPart, ServerPart, FramePart, LoopPart
  <2>2. /\ \A b \in Browsers : conn[b].st \in {"none", "destroyed"}
        /\ Len(up) = 0
        /\ \A i \in Requests : inst[i].asked => inst[i].st \in {"closed", "deaf"}
        /\ link \/ closing.st = "done"
    BY <1>1 DEF Quiet
  <2>3. DOMAIN sessions = {}
    BY <2>1, <2>2 DEF SessionsInv
  <2>4. \A r \in Requests : Made(r) => /\ conn[BrowserOf(r)].st = "destroyed"
                                       /\ conn[BrowserOf(r)].made \in Nat
    BY <2>1, <2>2, RequestFacts DEF Made, DrawInv, TypeOK, ConnType
  <2>5. ASSUME NEW s \in DOMAIN mux
        PROVE  mux[s] # Current(BrowserOf(mux[s]))
    <3>1. mux[s] \in Requests /\ Owns(mux[s])
      BY <2>1 DEF MuxInv
    <3>2. NumberOf(mux[s]) # conn[BrowserOf(mux[s])].made
      BY <2>4, <3>1 DEF Owns
    <3> QED
      BY <3>2, RequestFacts DEF Current
  <2>6. ASSUME NEW i \in Requests, Running(i)
        PROVE  MayStay(i)
    <3>1. Made(i) /\ inst[i].st # "closed" /\ inst[i].st # "none"
      BY <2>1, <2>6 DEF InstInv, DrawInv, Running
    <3>2. Once(i)
      BY <1>1 DEF Once
    <3>3. CASE link
      <4>1. ~inst[i].asked
        BY <2>1, <2>2, <3>1, <3>3 DEF DeafInv
      <4>2. ASSUME ~(conn[BrowserOf(i)].made > 1)
            PROVE  FALSE
        <5>1. AskedOnce(i) /\ NumberOf(i) = 1
          BY <2>4, <3>1, <4>2, RequestFacts DEF AskedOnce, Made
        <5>2. Over(i)
          BY <2>4, <3>1, <5>1 DEF Over
        <5> QED
          BY <2>1, <2>2, <3>1, <3>2, <3>3, <4>1, <5>1, <5>2 DEF FinInv
      <4> QED
        BY <3>3, <4>2 DEF MayStay
    <3>4. CASE ~link
      <4>1. closing.st = "done"
        BY <2>2, <3>4
      <4>2. "closed" \notin disturbed => inst[i].asked \/ inst[i].late
        BY <2>1, <2>6, <3>2, <4>1 DEF ClosedInv
      <4>3. inst[i].asked => inst[i].st = "deaf"
        BY <2>2, <3>1
      <4> QED
        BY <3>4, <4>2, <4>3 DEF MayStay
    <3> QED
      BY <3>3, <3>4
  <2> QED
    BY <2>1, <2>3, <2>5, <2>6 DEF ServerTable, Running
<1>2. IInv => EverythingIsReleased
  BY <1>1 DEF EverythingIsReleased
<1> QED
  BY <1>2, Invariance, PTL

=============================================================================
