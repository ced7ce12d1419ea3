----------------------------- MODULE LinkProofs -----------------------------
(***************************************************************************)
(* Proofs about P2PController and the two programs built on it, for any    *)
(* number of reconnections, browsers and tunnels.                          *)
(*                                                                         *)
(* The link.  LinkInv says how the events still to be delivered relate to  *)
(* the state they announce, and which of the three reports of Closed is    *)
(* still to come.  It holds in any program whose steps are steps of        *)
(* LinkNext or leave the link alone, as those of both programs are.        *)
(*                                                                         *)
(* The client.  AcceptorInv ties SocksServer's acceptor to what the link   *)
(* reported last.                                                          *)
(*                                                                         *)
(* The server.  TimerInv follows the clean-up Timer: nothing sets it off   *)
(* but a report of Closed, and only its own handler releases it, together  *)
(* with the client's entry.                                                *)
(***************************************************************************)
EXTENDS ClientApp, ServerApp, SequenceTheorems, FiniteSetTheorems, TLAPS

-----------------------------------------------------------------------------
(* The link.                                                               *)

PcStates == {"connected", "disconnected", "failed", "closed"}
Words == {"Connected", "Closed"}

LinkTypeOK ==
    /\ role \in {"client", "server"}
    /\ ws \in {"connecting", "open", "closing", "closed"}
    /\ wsStep \in {"idle", "closed", "tested", "done"}
    /\ pc \in PcStates \cup {"none", "new"}
    /\ described \in BOOLEAN
    /\ dc \in {"none", "opening", "open", "closed"}
    /\ events \in Seq(PcStates)
    /\ pcStep \in {"idle", "connected", "closed"}
    /\ p2p_connected \in BOOLEAN
    /\ flaps \in Nat
    /\ notes \in Seq(Words)

(* A closed PeerConnection says so last, a failed one may only be closed.  *)
EventInv ==
    /\ \A i \in 1..Len(events) :
          /\ events[i] = "closed" => (i = Len(events) /\ pc = "closed")
          /\ events[i] = "failed" =>
                /\ pc \in {"failed", "closed"}
                /\ \A j \in 1..Len(events) : j > i => events[j] = "closed"
    /\ (pc = "closed" /\ events # <<>>) => events[Len(events)] = "closed"

LastIsClosed == notes # <<>> /\ Last(notes) = "Closed"

(* How far the two connections have come together.                         *)
EndInv ==
    /\ wsStep # "idle" => ws = "closed"
    /\ wsStep \in {"tested", "done"} => pc \in {"none", "closed"}
    /\ pc = "closed" => dc \in {"none", "closed"}
    /\ pc = "none" =>
          /\ dc = "none" /\ events = <<>> /\ pcStep = "idle" /\ ~p2p_connected
          /\ wsStep = "done" => LastIsClosed
    /\ (pc = "closed" /\ events = <<>>) =>
          /\ LastIsClosed
          /\ pcStep # "connected"
          /\ pcStep = "idle" => ~p2p_connected

(* Reports of Closed that are still to come: of the WebSocket's end, of a  *)
(* failure and of the PeerConnection's close.                              *)
WsOwes == wsStep # "done"
FailureOwes ==
    pc \notin {"failed", "closed"} \/ \E i \in 1..Len(events) : events[i] = "failed"
CloseOwes ==
    pc # "closed" \/ \E i \in 1..Len(events) : events[i] = "closed"

ClosedAt == {i \in 1..Len(notes) : notes[i] = "Closed"}

Owed(owes) == IF owes THEN 1 ELSE 0

CountInv ==
    Cardinality(ClosedAt) + Owed(WsOwes) + Owed(FailureOwes) + Owed(CloseOwes) =< 3

LinkInv ==
    /\ LinkTypeOK
    /\ EventInv
    /\ EndInv
    /\ CountInv

-----------------------------------------------------------------------------
(* Sequences and counts.                                                   *)

(* An event or a word more.                                                *)
LEMMA AppendFacts ==
    ASSUME NEW S, NEW s \in Seq(S), NEW e \in S
    PROVE  /\ Append(s, e) \in Seq(S)
           /\ Append(s, e) # <<>>
           /\ Last(Append(s, e)) = e
           /\ Len(s) \in Nat
           /\ Len(Append(s, e)) = Len(s) + 1
           /\ Append(s, e)[Len(s) + 1] = e
           /\ \A i \in 1..Len(s) : Append(s, e)[i] = s[i]
<1>1. /\ Append(s, e) \in Seq(S) /\ Len(s) \in Nat
      /\ Len(Append(s, e)) = Len(s) + 1
      /\ Append(s, e)[Len(s) + 1] = e
      /\ \A i \in 1..Len(s) : Append(s, e)[i] = s[i]
  BY AppendProperties, LenProperties
<1>2. Append(s, e) # <<>>
  BY <1>1, EmptySeq
<1>3. Last(Append(s, e)) = e
  BY <1>1 DEF Last
<1> QED
  BY <1>1, <1>2, <1>3

(* The oldest event taken off.                                             *)
LEMMA TailFacts ==
    ASSUME NEW S, NEW s \in Seq(S), s # <<>>
    PROVE  /\ Len(s) \in Nat /\ 1 \in 1..Len(s)
           /\ Head(s) = s[1] /\ Head(s) \in S
           /\ Tail(s) \in Seq(S)
           /\ Len(Tail(s)) = Len(s) - 1
           /\ \A i \in 1..Len(Tail(s)) : Tail(s)[i] = s[i + 1]
           /\ Tail(s) = <<>> <=> Len(s) = 1
<1>1. Len(s) \in Nat \ {0}
  BY EmptySeq
<1>2. /\ Head(s) \in S /\ Head(s) = s[1] /\ Tail(s) \in Seq(S)
      /\ Len(Tail(s)) = Len(s) - 1
      /\ \A i \in 1..Len(Tail(s)) : Tail(s)[i] = s[i + 1]
  BY HeadTailProperties
<1>3. Tail(s) = <<>> <=> Len(Tail(s)) = 0
  BY <1>2, EmptySeq
<1>4. Len(Tail(s)) = 0 <=> Len(s) = 1
  BY <1>1, <1>2
<1> QED
  BY <1>1, <1>2, <1>3, <1>4

(* Telling the owner of Closed raises the count by one, anything else      *)
(* leaves it.                                                              *)
LEMMA CountAppend ==
    ASSUME LinkTypeOK, NEW w \in Words, notes' = Append(notes, w)
    PROVE  /\ Cardinality(ClosedAt) \in Nat
           /\ Cardinality(ClosedAt') =
                Cardinality(ClosedAt) + (IF w = "Closed" THEN 1 ELSE 0)
<1>1. /\ Len(notes) \in Nat /\ Len(notes') = Len(notes) + 1
      /\ notes'[Len(notes) + 1] = w
      /\ \A i \in 1..Len(notes) : notes'[i] = notes[i]
  BY AppendFacts DEF LinkTypeOK
<1>2. IsFiniteSet(ClosedAt)
  <2>1. IsFiniteSet(1..Len(notes))
    BY <1>1, FS_Interval
  <2> QED
    BY <2>1, FS_Subset DEF ClosedAt
<1>3. Cardinality(ClosedAt) \in Nat
  BY <1>2, FS_CardinalityType
<1>4. Len(notes) + 1 \notin ClosedAt
  BY <1>1 DEF ClosedAt
<1>5. CASE w = "Closed"
  <2>1. ClosedAt' = ClosedAt \cup {Len(notes) + 1}
    BY <1>1, <1>5 DEF ClosedAt
  <2> QED
    BY <1>2, <1>3, <1>4, <1>5, <2>1, FS_AddElement
<1>6. CASE w # "Closed"
  <2>1. ClosedAt' = ClosedAt
    BY <1>1, <1>6 DEF ClosedAt
  <2> QED
    BY <1>3, <1>6, <2>1
<1> QED
  BY <1>5, <1>6

(* The count is a number.                                                  *)
LEMMA CountIsNat == LinkTypeOK => Cardinality(ClosedAt) \in Nat
<1> SUFFICES ASSUME LinkTypeOK PROVE Cardinality(ClosedAt) \in Nat
  OBVIOUS
<1>1. Len(notes) \in Nat
  BY LenProperties DEF LinkTypeOK
<1>2. IsFiniteSet(1..Len(notes))
  BY <1>1, FS_Interval
<1>3. IsFiniteSet(ClosedAt)
  BY <1>2, FS_Subset DEF ClosedAt
<1> QED
  BY <1>3, FS_CardinalityType

-----------------------------------------------------------------------------
(* Typing.                                                                 *)

(* The constructors establish the types.                                   *)
LEMMA LinkInitTypeOK == LinkInit => LinkTypeOK
<1> SUFFICES ASSUME LinkInit PROVE LinkTypeOK
  OBVIOUS
<1>1. described \in BOOLEAN /\ p2p_connected \in BOOLEAN
  BY Zenon DEF LinkInit
<1>2. ws \in {"connecting", "open", "closing", "closed"}
  BY DEF LinkInit
<1> QED
  BY <1>1, <1>2 DEF LinkInit, LinkTypeOK, PcStates

(* Every callback keeps the types.                                         *)
LEMMA LinkNextTypeOK ==
    ASSUME LinkTypeOK, [LinkNext]_linkVars
    PROVE  LinkTypeOK'
<1> USE DEF LinkTypeOK, PcStates, Words
<1>1. CASE WsOpens
  BY <1>1 DEF WsOpens
<1>2. CASE WsCloses
  BY <1>2 DEF WsCloses
<1>3. CASE GetVerify
  BY <1>3 DEF GetVerify
<1>4. ASSUME NEW ok \in BOOLEAN, GetVerifyAck(ok)
      PROVE  LinkTypeOK'
  BY <1>4 DEF GetVerifyAck, Disconnecting
<1>5. CASE GetDescription
  BY <1>5 DEF GetDescription
<1>6. ASSUME NEW to \in {"connected", "disconnected", "failed", "closed"}, PcMoves(to)
      PROVE  LinkTypeOK'
  BY <1>6 DEF PcMoves
<1>7. CASE DcOpens
  BY <1>7 DEF DcOpens
<1>8. CASE RunWsClosed
  BY <1>8 DEF RunWsClosed
<1>9. CASE RunPcConnectedRest
  BY <1>9 DEF RunPcConnectedRest
<1>10. CASE RunPcDisconnected
  BY <1>10, TailFacts DEF RunPcDisconnected, Handling
<1>11. CASE RunPcClosedRest
  BY <1>11 DEF RunPcClosedRest, Disconnecting
<1>12. CASE LinkDisconnects
  BY <1>12 DEF LinkDisconnects, Disconnecting
<1>13. CASE RunWsClosedTest
  BY <1>13 DEF RunWsClosedTest
<1>14. CASE RunPcConnected \/ RunPcConnectedThrows \/ RunPcClosed
  <2>1. events' \in Seq(PcStates)
    BY <1>14, TailFacts DEF RunPcConnected, RunPcConnectedThrows, RunPcClosed, Handling
  <2>2. notes' \in Seq(Words)
    <3>1. notes' = Append(notes, "Connected") \/ notes' = Append(notes, "Closed")
      BY <1>14 DEF RunPcConnected, RunPcConnectedThrows, RunPcClosed
    <3>2. notes \in Seq(Words) /\ "Connected" \in Words /\ "Closed" \in Words
      OBVIOUS
    <3> HIDE DEF Words
    <3> QED
      BY <3>1, <3>2, AppendFacts
  <2> QED
    BY <1>14, <2>1, <2>2 DEF RunPcConnected, RunPcConnectedThrows, RunPcClosed
<1>15. CASE UNCHANGED linkVars
  BY <1>15 DEF linkVars
<1> QED
  BY <1>1, <1>2, <1>3, <1>4, <1>5, <1>6, <1>7, <1>8, <1>9, <1>10, <1>11, <1>12,
     <1>13, <1>14, <1>15 DEF LinkNext, LinkEnvironment, LinkSilent

-----------------------------------------------------------------------------
(* The events.                                                             *)

(* The PeerConnection announces its new state behind the older ones.       *)
LEMMA EventPosted ==
    ASSUME LinkTypeOK, EventInv, NEW to \in PcStates, pc # "closed",
           to = "closed" \/ pc # "failed",
           events' = Append(events, to), pc' = to
    PROVE  EventInv'
<1>1. /\ Len(events) \in Nat /\ Len(events') = Len(events) + 1
      /\ events'[Len(events) + 1] = to
      /\ \A i \in 1..Len(events) : events'[i] = events[i]
      /\ events' # <<>>
  BY AppendFacts DEF LinkTypeOK
<1>2. \A i \in 1..Len(events') : i \in 1..Len(events) \/ i = Len(events) + 1
  BY <1>1
<1>3. \A i \in 1..Len(events) : events[i] # "closed"
  BY DEF EventInv
<1>4. \A i \in 1..Len(events) : events[i] = "failed" => pc = "failed"
  BY DEF EventInv
<1>5. ASSUME NEW i \in 1..Len(events')
      PROVE  /\ events'[i] = "closed" => (i = Len(events') /\ pc' = "closed")
             /\ events'[i] = "failed" =>
                   /\ pc' \in {"failed", "closed"}
                   /\ \A j \in 1..Len(events') : j > i => events'[j] = "closed"
  <2>1. CASE i \in 1..Len(events)
    <3>1. events'[i] = events[i] /\ events[i] # "closed"
      BY <1>1, <1>3, <2>1
    <3>2. ASSUME events[i] = "failed"
          PROVE  to = "closed" /\ \A j \in 1..Len(events) : ~(j > i)
      <4>1. to = "closed"
        BY <1>4, <2>1, <3>2
      <4>2. \A j \in 1..Len(events) : j > i => events[j] = "closed"
        BY <2>1, <3>2 DEF EventInv
      <4> QED
        BY <1>3, <4>1, <4>2
    <3> QED
      BY <1>1, <1>2, <3>1, <3>2
  <2>2. CASE i = Len(events) + 1
    <3>1. \A j \in 1..Len(events') : ~(j > i)
      BY <1>1, <2>2
    <3> QED
      BY <1>1, <2>2, <3>1
  <2> QED
    BY <1>2, <2>1, <2>2
<1>6. pc' = "closed" => events'[Len(events')] = "closed"
  BY <1>1
<1> QED
  BY <1>5, <1>6 DEF EventInv

(* The oldest event is delivered.                                          *)
LEMMA EventTaken ==
    ASSUME LinkTypeOK, EventInv, events # <<>>, events' = Tail(events), UNCHANGED pc
    PROVE  EventInv'
<1>1. /\ Len(events) \in Nat /\ 1 \in 1..Len(events)
      /\ Len(events') = Len(events) - 1
      /\ \A i \in 1..Len(events') : events'[i] = events[i + 1]
      /\ events' = <<>> <=> Len(events) = 1
  BY TailFacts DEF LinkTypeOK
<1>2. \A i \in 1..Len(events') : i + 1 \in 1..Len(events)
  BY <1>1
<1>3. \A i, j \in 1..Len(events') : j > i => j + 1 > i + 1
  BY <1>1
<1>4. events' # <<>> => (Len(events') \in 1..Len(events') /\ Len(events') + 1 = Len(events))
  BY <1>1
<1>5. ASSUME NEW i \in 1..Len(events'), events'[i] = "closed"
      PROVE  i = Len(events') /\ pc' = "closed"
  <2>1. i + 1 \in 1..Len(events) /\ events[i + 1] = "closed"
    BY <1>1, <1>2, <1>5
  <2>2. i + 1 = Len(events) /\ pc = "closed"
    BY <2>1 DEF EventInv
  <2>3. i = Len(events')
    <3>1. \A a, b, c \in Int : (b = c - 1 /\ a + 1 = c) => a = b
      OBVIOUS
    <3>2. i \in Int /\ Len(events) \in Int /\ Len(events') \in Int
      BY <1>1
    <3> QED
      BY <1>1, <2>2, <3>1, <3>2, Zenon
  <2>4. pc' = "closed"
    BY <2>2
  <2> QED
    BY <2>3, <2>4
<1>6. ASSUME NEW i \in 1..Len(events'), events'[i] = "failed"
      PROVE  /\ pc' \in {"failed", "closed"}
             /\ \A j \in 1..Len(events') : j > i => events'[j] = "closed"
  <2>1. events[i + 1] = "failed" /\ i + 1 \in 1..Len(events)
    BY <1>1, <1>2, <1>6
  <2> QED
    BY <1>1, <1>2, <1>3, <2>1 DEF EventInv
<1>7. (pc' = "closed" /\ events' # <<>>) => events'[Len(events')] = "closed"
  BY <1>1, <1>4 DEF EventInv
<1> QED
  BY <1>5, <1>6, <1>7 DEF EventInv

(* A closed event is the only one left; behind a failed one only a closed  *)
(* one may follow.                                                         *)
LEMMA LastEvents ==
    ASSUME LinkTypeOK, EventInv, events # <<>>, events' = Tail(events)
    PROVE  /\ Head(events) = "closed" => (events' = <<>> /\ pc = "closed")
           /\ Head(events) = "failed" =>
                 /\ pc \in {"failed", "closed"}
                 /\ \A i \in 1..Len(events') : events'[i] = "closed"
           /\ Head(events) # "closed" /\ pc = "closed" => events' # <<>>
<1>1. /\ Len(events) \in Nat /\ 1 \in 1..Len(events)
      /\ Head(events) = events[1]
      /\ Len(events') = Len(events) - 1
      /\ \A i \in 1..Len(events') : events'[i] = events[i + 1]
      /\ events' = <<>> <=> Len(events) = 1
  BY TailFacts DEF LinkTypeOK
<1>2. \A i \in 1..Len(events') : i + 1 \in 1..Len(events) /\ i + 1 > 1
  BY <1>1
<1>3. Head(events) = "closed" => (events' = <<>> /\ pc = "closed")
  BY <1>1 DEF EventInv
<1>4. ASSUME Head(events) = "failed"
      PROVE  /\ pc \in {"failed", "closed"}
             /\ \A i \in 1..Len(events') : events'[i] = "closed"
  BY <1>1, <1>2, <1>4 DEF EventInv
<1>5. Head(events) # "closed" /\ pc = "closed" => events' # <<>>
  BY <1>1 DEF EventInv
<1> QED
  BY <1>3, <1>4, <1>5

(* Every step keeps the events in agreement with the state.                *)
LEMMA NextEvents ==
    ASSUME LinkTypeOK, EventInv, EndInv, [LinkNext]_linkVars
    PROVE  EventInv'
<1>1. CASE UNCHANGED <<events, pc>>
  BY <1>1 DEF EventInv
<1>2. CASE GetVerify \/ \E ok \in BOOLEAN : GetVerifyAck(ok)
  <2>1. events = <<>> /\ events' = <<>> /\ pc' # "closed"
    BY <1>2 DEF GetVerify, GetVerifyAck, EndInv
  <2> QED
    BY <2>1 DEF EventInv
<1>3. ASSUME NEW to \in {"connected", "disconnected", "failed", "closed"}, PcMoves(to)
      PROVE  EventInv'
  BY <1>3, EventPosted DEF PcMoves, PcStates
<1>4. CASE RunWsClosed
  <2>1. CASE pc \in {"none", "closed"}
    BY <1>1, <1>4, <2>1 DEF RunWsClosed
  <2>2. CASE pc \notin {"none", "closed"}
    BY <1>4, <2>2, EventPosted DEF RunWsClosed, PcStates
  <2> QED
    BY <2>1, <2>2
<1>5. CASE RunPcConnected \/ RunPcConnectedThrows \/ RunPcDisconnected \/ RunPcClosed
  BY <1>5, EventTaken
     DEF RunPcConnected, RunPcConnectedThrows, RunPcDisconnected, RunPcClosed, Handling
<1>6. CASE WsOpens \/ WsCloses \/ GetDescription \/ DcOpens
  BY <1>1, <1>6 DEF WsOpens, WsCloses, GetDescription, DcOpens
<1>7. CASE RunPcConnectedRest \/ RunPcClosedRest \/ LinkDisconnects \/ RunWsClosedTest
  BY <1>1, <1>7 DEF RunPcConnectedRest, RunPcClosedRest, LinkDisconnects, RunWsClosedTest
<1>8. CASE UNCHANGED linkVars
  BY <1>1, <1>8 DEF linkVars
<1> QED
  BY <1>2, <1>3, <1>4, <1>5, <1>6, <1>7, <1>8 DEF LinkNext, LinkEnvironment, LinkSilent

-----------------------------------------------------------------------------
(* The two connections.                                                    *)

(* The owner is told something.                                            *)
LEMMA WordFacts ==
    ASSUME LinkTypeOK, NEW w \in Words, notes' = Append(notes, w)
    PROVE  notes' # <<>> /\ Last(notes') = w
BY AppendFacts DEF LinkTypeOK

(* Every step keeps the two connections in agreement: the last report of   *)
(* the PeerConnection is Closed, and after it the WebSocket's callback can *)
(* only repeat it.                                                         *)
LEMMA NextEnd ==
    ASSUME LinkTypeOK, EventInv, EndInv, [LinkNext]_linkVars
    PROVE  EndInv'
<1> USE DEF EndInv, LastIsClosed
<1>1. CASE WsOpens
  BY <1>1 DEF WsOpens
<1>2. CASE WsCloses
  BY <1>2 DEF WsCloses
<1>3. CASE GetVerify
  BY <1>3 DEF GetVerify, Delivers
<1>4. ASSUME NEW ok \in BOOLEAN, GetVerifyAck(ok)
      PROVE  EndInv'
  BY <1>4 DEF GetVerifyAck, Disconnecting, Delivers
<1>5. CASE GetDescription
  BY <1>5 DEF GetDescription
<1>6. ASSUME NEW to \in {"connected", "disconnected", "failed", "closed"}, PcMoves(to)
      PROVE  EndInv'
  <2>1. events' # <<>>
    BY <1>6, AppendFacts DEF PcMoves, LinkTypeOK, PcStates
  <2>2. pc \notin {"none", "closed"} /\ pc' = to
    BY <1>6 DEF PcMoves
  <2>3. pc' = "closed" => dc' \in {"none", "closed"}
    BY <1>6, <2>2 DEF PcMoves
  <2> QED
    BY <1>6, <2>1, <2>2, <2>3 DEF PcMoves
<1>7. CASE DcOpens
  BY <1>7 DEF DcOpens
<1>8. CASE RunWsClosed
  <2>1. CASE pc \in {"none", "closed"}
    BY <1>8, <2>1 DEF RunWsClosed
  <2>2. CASE pc \notin {"none", "closed"}
    <3>1. events' # <<>>
      BY <1>8, <2>2, AppendFacts DEF RunWsClosed, LinkTypeOK, PcStates
    <3> QED
      BY <1>8, <2>2, <3>1 DEF RunWsClosed
  <2> QED
    BY <2>1, <2>2
<1>9. CASE RunPcConnectedRest
  BY <1>9 DEF RunPcConnectedRest
<1>10. CASE RunPcConnected \/ RunPcConnectedThrows \/ RunPcDisconnected
  <2>1. /\ events # <<>> /\ events' = Tail(events) /\ Head(events) # "closed"
        /\ UNCHANGED <<ws, wsStep, pc, dc, p2p_connected>>
    BY <1>10 DEF RunPcConnected, RunPcConnectedThrows, RunPcDisconnected, Handling
  <2>2. pc # "none" /\ (pc = "closed" => events' # <<>>)
    BY <2>1, LastEvents
  <2> QED
    BY <2>1, <2>2
<1>11. CASE RunPcClosed
  <2>1. /\ events # <<>> /\ events' = Tail(events)
        /\ UNCHANGED <<ws, wsStep, pc, dc, p2p_connected>>
        /\ pcStep' = "closed" /\ notes' = Append(notes, "Closed")
    BY <1>11 DEF RunPcClosed, Handling
  <2>2. notes' # <<>> /\ Last(notes') = "Closed"
    BY <2>1, WordFacts DEF Words
  <2> QED
    BY <2>1, <2>2
<1>12. CASE RunPcClosedRest
  BY <1>12 DEF RunPcClosedRest, Disconnecting
<1>13. CASE LinkDisconnects
  BY <1>13 DEF LinkDisconnects, Disconnecting
<1>14. CASE RunWsClosedTest
  <2>1. CASE p2p_connected
    BY <1>14, <2>1 DEF RunWsClosedTest
  <2>2. CASE ~p2p_connected
    <3>1. notes' # <<>> /\ Last(notes') = "Closed"
      BY <1>14, <2>2, WordFacts DEF RunWsClosedTest, Words
    <3> QED
      BY <1>14, <3>1 DEF RunWsClosedTest
  <2> QED
    BY <2>1, <2>2
<1>15. CASE UNCHANGED linkVars
  BY <1>15 DEF linkVars
<1> QED
  BY <1>1, <1>2, <1>3, <1>4, <1>5, <1>6, <1>7, <1>8, <1>9, <1>10, <1>11, <1>12,
     <1>13, <1>14, <1>15 DEF LinkNext, LinkEnvironment, LinkSilent

-----------------------------------------------------------------------------
(* The reports of Closed.                                                  *)

(* A step that tells nothing and makes no report come due keeps the count. *)
LEMMA CountSame ==
    ASSUME LinkTypeOK, CountInv, UNCHANGED notes, WsOwes' => WsOwes,
           FailureOwes' => FailureOwes, CloseOwes' => CloseOwes
    PROVE  CountInv'
<1>1. ClosedAt' = ClosedAt
  BY DEF ClosedAt
<1>2. Cardinality(ClosedAt) \in Nat
  BY CountIsNat
<1> HIDE DEF WsOwes, FailureOwes, CloseOwes
<1>3. Owed(WsOwes') =< Owed(WsOwes)
  BY DEF Owed
<1>4. Owed(FailureOwes') =< Owed(FailureOwes)
  BY DEF Owed
<1>5. Owed(CloseOwes') =< Owed(CloseOwes)
  BY DEF Owed
<1>6. /\ Owed(WsOwes) \in Int /\ Owed(FailureOwes) \in Int /\ Owed(CloseOwes) \in Int
      /\ Owed(WsOwes') \in Int /\ Owed(FailureOwes') \in Int /\ Owed(CloseOwes') \in Int
  BY DEF Owed
<1> HIDE DEF Owed
<1> QED
  BY <1>1, <1>2, <1>3, <1>4, <1>5, <1>6 DEF CountInv

(* Delivering or announcing a state cannot make a report due.              *)
LEMMA OwesLess ==
    ASSUME LinkTypeOK, EventInv, events # <<>>, events' = Tail(events), UNCHANGED pc
    PROVE  (FailureOwes' => FailureOwes) /\ (CloseOwes' => CloseOwes)
<1>1. /\ Len(events) \in Nat
      /\ Len(events') = Len(events) - 1
      /\ \A i \in 1..Len(events') : events'[i] = events[i + 1]
  BY TailFacts DEF LinkTypeOK
<1>2. \A i \in 1..Len(events') : i + 1 \in 1..Len(events)
  BY <1>1
<1>3. \A i \in 1..Len(events') : \E j \in 1..Len(events) : events[j] = events'[i]
  BY <1>1, <1>2
<1> QED
  BY <1>3 DEF FailureOwes, CloseOwes

(* Telling of Closed settles a report that was due.                        *)
LEMMA CountTold ==
    ASSUME LinkTypeOK, CountInv, notes' = Append(notes, "Closed"),
           WsOwes' => WsOwes, FailureOwes' => FailureOwes, CloseOwes' => CloseOwes,
           \/ WsOwes /\ ~WsOwes'
           \/ FailureOwes /\ ~FailureOwes'
           \/ CloseOwes /\ ~CloseOwes'
    PROVE  CountInv'
<1> HIDE DEF WsOwes, FailureOwes, CloseOwes
<1>1. Cardinality(ClosedAt) \in Nat /\ Cardinality(ClosedAt') = Cardinality(ClosedAt) + 1
  BY CountAppend DEF Words
<1>2. /\ Owed(WsOwes') =< Owed(WsOwes)
      /\ WsOwes /\ ~WsOwes' => Owed(WsOwes') + 1 =< Owed(WsOwes)
  BY DEF Owed
<1>3. /\ Owed(FailureOwes') =< Owed(FailureOwes)
      /\ FailureOwes /\ ~FailureOwes' => Owed(FailureOwes') + 1 =< Owed(FailureOwes)
  BY DEF Owed
<1>4. /\ Owed(CloseOwes') =< Owed(CloseOwes)
      /\ CloseOwes /\ ~CloseOwes' => Owed(CloseOwes') + 1 =< Owed(CloseOwes)
  BY DEF Owed
<1>5. /\ Owed(WsOwes) \in Int /\ Owed(FailureOwes) \in Int /\ Owed(CloseOwes) \in Int
      /\ Owed(WsOwes') \in Int /\ Owed(FailureOwes') \in Int /\ Owed(CloseOwes') \in Int
  BY DEF Owed
<1> HIDE DEF Owed
<1> QED
  BY <1>1, <1>2, <1>3, <1>4, <1>5, SMTT(30) DEF CountInv

(* No step tells of Closed without a report that was due.                  *)
LEMMA NextCount ==
    ASSUME LinkTypeOK, EventInv, EndInv, CountInv, [LinkNext]_linkVars
    PROVE  CountInv'
<1>1. CASE UNCHANGED <<events, pc, notes>> /\ (WsOwes' => WsOwes)
  BY <1>1, CountSame DEF FailureOwes, CloseOwes
<1>2. CASE pc \notin {"failed", "closed"} /\ UNCHANGED <<wsStep, notes>>
  BY <1>2, CountSame DEF WsOwes, FailureOwes, CloseOwes
<1>3. CASE RunWsClosed
  <2>1. CASE pc \in {"none", "closed"}
    BY <1>1, <1>3, <2>1 DEF RunWsClosed, WsOwes
  <2>2. CASE pc \notin {"none", "closed"}
    <3>1. /\ events' = Append(events, "closed") /\ UNCHANGED notes
          /\ wsStep # "done" /\ pc' = "closed"
      BY <1>3, <2>2 DEF RunWsClosed
    <3>2. /\ Len(events) \in Nat /\ Len(events') = Len(events) + 1
          /\ events'[Len(events) + 1] = "closed"
          /\ \A i \in 1..Len(events) : events'[i] = events[i]
      BY <3>1, AppendFacts DEF LinkTypeOK, PcStates
    <3>3. \A i \in 1..Len(events') : i \in 1..Len(events) \/ i = Len(events) + 1
      BY <3>2
    <3>4. FailureOwes' => FailureOwes
      BY <3>1, <3>2, <3>3 DEF FailureOwes
    <3>5. WsOwes /\ CloseOwes
      BY <2>2, <3>1 DEF WsOwes, CloseOwes
    <3> QED
      BY <3>1, <3>4, <3>5, CountSame
  <2> QED
    BY <2>1, <2>2
<1>4. CASE RunPcConnected \/ RunPcConnectedThrows
  <2>1. /\ events # <<>> /\ events' = Tail(events)
        /\ notes' = Append(notes, "Connected") /\ UNCHANGED <<pc, wsStep>>
    BY <1>4 DEF RunPcConnected, RunPcConnectedThrows, Handling
  <2>2. Cardinality(ClosedAt) \in Nat /\ Cardinality(ClosedAt') = Cardinality(ClosedAt)
    BY <2>1, CountAppend DEF Words
  <2>3. (FailureOwes' => FailureOwes) /\ (CloseOwes' => CloseOwes) /\ (WsOwes' => WsOwes)
    BY <2>1, OwesLess DEF WsOwes
  <2> HIDE DEF WsOwes, FailureOwes, CloseOwes
  <2>4. /\ Owed(WsOwes') =< Owed(WsOwes) /\ Owed(FailureOwes') =< Owed(FailureOwes)
        /\ Owed(CloseOwes') =< Owed(CloseOwes)
    BY <2>3 DEF Owed
  <2>5. /\ Owed(WsOwes) \in Int /\ Owed(FailureOwes) \in Int /\ Owed(CloseOwes) \in Int
        /\ Owed(WsOwes') \in Int /\ Owed(FailureOwes') \in Int /\ Owed(CloseOwes') \in Int
    BY DEF Owed
  <2> HIDE DEF Owed
  <2> QED
    BY <2>2, <2>4, <2>5 DEF CountInv
<1>5. CASE RunPcDisconnected
  <2>1. /\ events # <<>> /\ events' = Tail(events) /\ UNCHANGED <<pc, wsStep, notes>>
    BY <1>5 DEF RunPcDisconnected, Handling
  <2> QED
    BY <2>1, OwesLess, CountSame DEF WsOwes
<1>6. CASE RunPcClosed
  <2>1. /\ events # <<>> /\ events' = Tail(events) /\ Head(events) \in {"failed", "closed"}
        /\ notes' = Append(notes, "Closed") /\ UNCHANGED <<pc, wsStep>>
    BY <1>6 DEF RunPcClosed, Handling
  <2>2. (FailureOwes' => FailureOwes) /\ (CloseOwes' => CloseOwes) /\ (WsOwes' => WsOwes)
    BY <2>1, OwesLess DEF WsOwes
  <2>3. 1 \in 1..Len(events) /\ Head(events) = events[1]
    BY <2>1, TailFacts DEF LinkTypeOK
  <2>4. CASE Head(events) = "closed"
    <3>1. events' = <<>> /\ pc = "closed"
      BY <2>1, <2>4, LastEvents
    <3>2. CloseOwes /\ ~CloseOwes'
      BY <2>1, <2>3, <2>4, <3>1 DEF CloseOwes
    <3> QED
      BY <2>1, <2>2, <3>2, CountTold
  <2>5. CASE Head(events) = "failed"
    <3>1. pc \in {"failed", "closed"} /\ \A i \in 1..Len(events') : events'[i] = "closed"
      BY <2>1, <2>5, LastEvents
    <3>2. FailureOwes /\ ~FailureOwes'
      BY <2>1, <2>3, <2>5, <3>1 DEF FailureOwes
    <3> QED
      BY <2>1, <2>2, <3>2, CountTold
  <2> QED
    BY <2>1, <2>4, <2>5
<1>7. CASE RunWsClosedTest
  <2>1. WsOwes /\ ~WsOwes' /\ UNCHANGED <<events, pc>>
    BY <1>7 DEF RunWsClosedTest, WsOwes
  <2>2. (FailureOwes' => FailureOwes) /\ (CloseOwes' => CloseOwes)
    BY <2>1 DEF FailureOwes, CloseOwes
  <2>3. notes' = notes \/ notes' = Append(notes, "Closed")
    BY <1>7 DEF RunWsClosedTest
  <2> QED
    BY <2>1, <2>2, <2>3, CountSame, CountTold
<1>8. CASE WsOpens \/ WsCloses \/ GetDescription \/ DcOpens
  BY <1>1, <1>8 DEF WsOpens, WsCloses, GetDescription, DcOpens, EndInv, WsOwes
<1>9. CASE GetVerify \/ \E ok \in BOOLEAN : GetVerifyAck(ok)
  BY <1>2, <1>9 DEF GetVerify, GetVerifyAck
<1>10. ASSUME NEW to \in {"connected", "disconnected", "failed", "closed"}, PcMoves(to)
       PROVE  CountInv'
  BY <1>2, <1>10 DEF PcMoves
<1>11. CASE RunPcConnectedRest \/ RunPcClosedRest \/ LinkDisconnects
  BY <1>1, <1>11 DEF RunPcConnectedRest, RunPcClosedRest, LinkDisconnects, WsOwes
<1>12. CASE UNCHANGED linkVars
  BY <1>1, <1>12 DEF linkVars, WsOwes
<1> QED
  BY <1>3, <1>4, <1>5, <1>6, <1>7, <1>8, <1>9, <1>10, <1>11, <1>12
     DEF LinkNext, LinkEnvironment, LinkSilent

-----------------------------------------------------------------------------
(* What the programs built on the link cite.                               *)

(* A new link satisfies LinkInv: all three reports are still to come.      *)
LEMMA LinkInvInitially == LinkInit => LinkInv
<1> SUFFICES ASSUME LinkInit PROVE LinkInv
  OBVIOUS
<1>1. LinkTypeOK
  BY LinkInitTypeOK
<1>2. ~p2p_connected
  BY Zenon DEF LinkInit
<1>3. events = <<>> /\ notes = <<>> /\ pc = "none" /\ dc = "none"
      /\ wsStep = "idle" /\ pcStep = "idle"
  BY DEF LinkInit
<1>4. EventInv
  BY <1>3 DEF EventInv
<1>5. EndInv
  BY <1>2, <1>3 DEF EndInv
<1>6. CountInv
  <2>1. ClosedAt = {}
    BY <1>3 DEF ClosedAt
  <2>2. Cardinality(ClosedAt) = 0
    BY <2>1, FS_EmptySet
  <2> QED
    BY <2>2 DEF CountInv, Owed
<1> QED
  BY <1>1, <1>4, <1>5, <1>6 DEF LinkInv

(* No callback of the link, in any order, breaks LinkInv.                  *)
LEMMA LinkInvKept ==
    ASSUME LinkInv, [LinkNext]_linkVars
    PROVE  LinkInv'
BY LinkNextTypeOK, NextEvents, NextEnd, NextCount DEF LinkInv

(* A link that is over has had its last word, and it was Closed.           *)
LEMMA LinkInvEnds == LinkInv => LastWordIsClosed
<1> SUFFICES ASSUME LinkInv, Over PROVE LastWordIsClosed
  BY DEF LastWordIsClosed
<1> USE DEF LinkInv
<1>1. pc \in {"none", "closed"} /\ wsStep = "done" /\ events = <<>> /\ pcStep = "idle"
  BY DEF Over, EndInv
<1>2. LastIsClosed /\ dc \in {"none", "closed"} /\ ~p2p_connected
  BY <1>1 DEF EndInv
<1>3. Cardinality({i \in DOMAIN notes : notes[i] = "Closed"}) =< 3
  <2>1. DOMAIN notes = 1..Len(notes)
    BY LenProperties DEF LinkTypeOK
  <2>2. {i \in DOMAIN notes : notes[i] = "Closed"} = ClosedAt
    BY <2>1 DEF ClosedAt
  <2>3. Cardinality(ClosedAt) \in Nat
    BY CountIsNat
  <2>4. Owed(WsOwes) \in Nat /\ Owed(FailureOwes) \in Nat /\ Owed(CloseOwes) \in Nat
    BY DEF Owed
  <2>5. Cardinality(ClosedAt) =< 3
    <3> HIDE DEF WsOwes, FailureOwes, CloseOwes, Owed
    <3> QED
      BY <2>3, <2>4 DEF CountInv
  <2> QED
    BY <2>2, <2>5
<1> QED
  BY <1>1, <1>2, <1>3 DEF LastWordIsClosed, LastIsClosed

-----------------------------------------------------------------------------
(* The theorems.                                                           *)

(* The events, the states and the reports still to come agree throughout a *)
(* link's life, for any number of reconnections.                           *)
THEOREM LinkInvariance == LinkSpec => []LinkInv
<1>1. LinkInit => LinkInv
  BY LinkInvInitially
<1>2. LinkInv /\ [LinkNext]_linkVars => LinkInv'
  BY LinkInvKept
<1> QED
  BY <1>1, <1>2, PTL DEF LinkSpec

(* Whichever thread came first, the last word the owner hears of a link    *)
(* that is over is Closed, told three times at most, and nothing of the    *)
(* link is left open (onStateChange, onClosed).                            *)
THEOREM LastWordIsClosedHolds == LinkSpec => []LastWordIsClosed
<1>1. LinkInv => LastWordIsClosed
  BY LinkInvEnds
<1> QED
  BY <1>1, LinkInvariance, PTL

-----------------------------------------------------------------------------
(* The client program.                                                     *)

AppTypeOK ==
    /\ acceptor \in {"fresh", "open", "listening", "closed"}
    /\ accept \in [AcceptStates -> Nat]
    /\ live \in Nat
    /\ associated \in Nat
    /\ stopping \in Nat
    /\ stranded \in Nat
    /\ arrived \in Nat
    /\ running \in BOOLEAN
    /\ main \in {"waiting", "stopping", "joining", "exited"}

(* An acceptor listens since a Connected, and no Closed came after it.     *)
AcceptorInv == acceptor = "listening" => notes # <<>> /\ Last(notes) = "Connected"

(* Only a listening acceptor has an accept pending.                        *)
PendingInv == acceptor # "listening" => accept["pending"] = 0

ClientInv ==
    /\ LinkInv
    /\ AppTypeOK
    /\ AcceptorInv
    /\ PendingInv

-----------------------------------------------------------------------------
(* The link inside the program.                                            *)

(* What happens to sessions touches only their counts, which stay counts.  *)
LEMMA SessionFacts ==
    ASSUME Sessions
    PROVE  /\ UNCHANGED <<linkVars, acceptor, accept, arrived, running, main>>
           /\ AppTypeOK => AppTypeOK'
<1>1. SessionStep
  BY DEF Sessions, SessionEnds, AssociationEnds, StoppedSessionEnds, UdpAssociates,
         StoppedAssociates, StrandedFails
<1>2. ASSUME AppTypeOK
      PROVE  /\ live' \in Nat /\ associated' \in Nat
             /\ stopping' \in Nat /\ stranded' \in Nat
  BY <1>2
     DEF AppTypeOK, Sessions, SessionEnds, AssociationEnds, StoppedSessionEnds,
         UdpAssociates, StoppedAssociates, StrandedFails
<1> QED
  BY <1>1, <1>2, Zenon DEF SessionStep, AppTypeOK

(* What the program adds to the link's callbacks does not touch the link.  *)
LEMMA ClientLinkSteps == [ClientNext]_clientVars => [LinkNext]_linkVars
<1> SUFFICES ASSUME [ClientNext]_clientVars PROVE [LinkNext]_linkVars
  OBVIOUS
<1>1. CASE LinkSteps \/ LinkConnected \/ LinkConnectedInVain \/ LinkClosed \/ WsClosedTested
  BY <1>1
     DEF LinkSteps, LinkConnected, LinkConnectedInVain, LinkClosed, WsClosedTested,
         LinkNext
<1>2. CASE BrowserConnects \/ AcceptFails \/ Sessions \/ Workers \/ Interrupted
  BY <1>2, SessionFacts
     DEF BrowserConnects, AcceptFails, Workers, RunAccepted, RunAcceptAborted,
         RunAcceptError, Interrupted
<1>3. CASE MainThread
  BY <1>3 DEF MainThread, MainStopsServer, MainDisconnects, MainExits, LinkNext
<1>4. CASE UNCHANGED clientVars
  BY <1>4 DEF clientVars
<1> QED
  BY <1>1, <1>2, <1>3, <1>4 DEF ClientNext

-----------------------------------------------------------------------------
(* Typing and the accepts.                                                 *)

(* An accept that goes from one state to another leaves the counts counts. *)
LEMMA AcceptGoesType ==
    ASSUME AppTypeOK, NEW from \in AcceptStates, NEW to \in AcceptStates, from # to,
           AcceptGoes(from, to)
    PROVE  /\ accept' \in [AcceptStates -> Nat]
           /\ from # "pending" /\ to # "pending" => accept'["pending"] = accept["pending"]
           /\ from = "pending" => accept["pending"] > 0
BY DEF AppTypeOK, AcceptGoes, AcceptStates

(* The program starts with a fresh acceptor and no accept.                 *)
LEMMA InitApp == ClientInit => AppTypeOK /\ AcceptorInv /\ PendingInv
<1> SUFFICES ASSUME ClientInit PROVE AppTypeOK /\ AcceptorInv /\ PendingInv
  OBVIOUS
<1>1. running \in BOOLEAN
  BY Zenon DEF ClientInit
<1> QED
  BY <1>1
     DEF ClientInit, AppTypeOK, AcceptorInv, PendingInv, NoAccept, AcceptStates

(* SocksServer::stop leaves nothing listening and no accept pending.       *)
LEMMA StoppedFacts ==
    ASSUME AppTypeOK, ServerStopped
    PROVE  /\ acceptor' \in {"fresh", "closed"}
           /\ accept' \in [AcceptStates -> Nat] /\ accept'["pending"] = 0
           /\ live' \in Nat /\ stopping' \in Nat /\ arrived' \in Nat
           /\ associated' \in Nat /\ stranded' \in Nat
BY DEF AppTypeOK, ServerStopped, AcceptStates

(* Every step keeps the types, and no accept waits on an acceptor that     *)
(* does not listen.                                                        *)
LEMMA NextApp ==
    ASSUME AppTypeOK, PendingInv, [ClientNext]_clientVars
    PROVE  AppTypeOK' /\ PendingInv'
<1>1. CASE UNCHANGED appVars
  BY <1>1 DEF appVars, sessionVars, AppTypeOK, PendingInv
<1>2. CASE LinkSteps \/ UNCHANGED clientVars
  BY <1>1, <1>2 DEF LinkSteps, clientVars
<1>3. CASE LinkConnected
  BY <1>3
     DEF LinkConnected, ServerStarts, AppTypeOK, PendingInv, AcceptStates, sessionVars
<1>4. CASE LinkConnectedInVain
  BY <1>4 DEF LinkConnectedInVain, AppTypeOK, PendingInv, sessionVars
<1>5. CASE LinkClosed
  <2>1. running' \in BOOLEAN
    BY <1>5, Zenon DEF LinkClosed
  <2> QED
    BY <1>5, <2>1, StoppedFacts DEF LinkClosed, AppTypeOK, PendingInv
<1>6. CASE WsClosedTested
  <2>1. CASE p2p_connected
    BY <1>1, <1>6, <2>1 DEF WsClosedTested
  <2>2. CASE ~p2p_connected
    <3>1. running' \in BOOLEAN
      BY <1>6, <2>2, Zenon DEF WsClosedTested
    <3> QED
      BY <1>6, <2>2, <3>1, StoppedFacts DEF WsClosedTested, AppTypeOK, PendingInv
  <2> QED
    BY <2>1, <2>2
<1>7. CASE BrowserConnects \/ AcceptFails
  <2>1. accept["pending"] > 0 /\ accept' \in [AcceptStates -> Nat]
    BY <1>7, AcceptGoesType DEF BrowserConnects, AcceptFails, AcceptStates
  <2>2. acceptor = "listening" /\ acceptor' = "listening"
    BY <1>7, <2>1 DEF BrowserConnects, AcceptFails, PendingInv, AppTypeOK, AcceptStates
  <2> QED
    BY <1>7, <2>1, <2>2
       DEF BrowserConnects, AcceptFails, AppTypeOK, PendingInv, sessionVars
<1>8. CASE RunAccepted \/ RunAcceptError
  <2>1. accept' \in [AcceptStates -> Nat] /\ (acceptor # "listening" => accept'["pending"] = accept["pending"])
    <3>1. DoAcceptAfter("accepted") \/ DoAcceptAfter("error")
      BY <1>8 DEF RunAccepted, RunAcceptError
    <3>2. CASE acceptor = "listening"
      BY <3>1, <3>2, AcceptGoesType DEF DoAcceptAfter, AcceptStates
    <3>3. CASE acceptor # "listening"
      <4>1. UNCHANGED accept \/ AcceptGoes("accepted", "error")
        BY <3>1, <3>3 DEF DoAcceptAfter
      <4> QED
        BY <4>1, AcceptGoesType DEF AcceptStates, AppTypeOK
    <3> QED
      BY <3>2, <3>3
  <2>2. /\ live' \in Nat
        /\ UNCHANGED <<acceptor, associated, stopping, stranded, arrived, running, main>>
    BY <1>8 DEF RunAccepted, RunAcceptError, AppTypeOK, sessionVars
  <2> QED
    BY <2>1, <2>2 DEF AppTypeOK, PendingInv
<1>9. CASE RunAcceptAborted
  BY <1>9 DEF RunAcceptAborted, AppTypeOK, PendingInv, AcceptStates, sessionVars
<1>10. CASE Sessions
  BY <1>10, SessionFacts DEF PendingInv
<1>11. CASE Interrupted
  <2>1. running' \in BOOLEAN
    BY <1>11, Zenon DEF Interrupted
  <2> QED
    BY <1>11, <2>1 DEF Interrupted, AppTypeOK, PendingInv, sessionVars
<1>12. CASE MainStopsServer
  <2>1. running' \in BOOLEAN
    BY <1>12, Zenon DEF MainStopsServer, AppTypeOK
  <2> QED
    BY <1>12, <2>1, StoppedFacts DEF MainStopsServer, AppTypeOK, PendingInv
<1>13. CASE MainDisconnects \/ MainExits
  BY <1>13 DEF MainDisconnects, MainExits, AppTypeOK, PendingInv, sessionVars
<1> QED
  BY <1>2, <1>3, <1>4, <1>5, <1>6, <1>7, <1>8, <1>9, <1>10, <1>11, <1>12, <1>13
     DEF ClientNext, Workers, MainThread

-----------------------------------------------------------------------------
(* The acceptor and the link's reports.                                    *)

(* Connected starts the acceptor and Closed stops it, in whichever order   *)
(* the two threads report.                                                 *)
LEMMA NextAcceptor ==
    ASSUME LinkTypeOK, AppTypeOK, AcceptorInv, [ClientNext]_clientVars
    PROVE  AcceptorInv'
<1>1. CASE UNCHANGED notes /\ (acceptor' = "listening" => acceptor = "listening")
  BY <1>1 DEF AcceptorInv
<1>2. CASE notes' = Append(notes, "Connected")
  <2>1. notes' # <<>> /\ Last(notes') = "Connected"
    BY <1>2, WordFacts DEF Words
  <2> QED
    BY <2>1 DEF AcceptorInv
<1>3. CASE ServerStopped
  BY <1>3, StoppedFacts DEF AcceptorInv
<1>4. CASE LinkSteps
  <2>1. UNCHANGED notes
    BY <1>4
       DEF LinkSteps, LinkEnvironment, LinkSilent, WsOpens, WsCloses, GetVerify,
           GetVerifyAck, GetDescription, PcMoves, DcOpens, RunWsClosed,
           RunPcConnectedRest, RunPcDisconnected, RunPcClosedRest
  <2> QED
    BY <1>1, <1>4, <2>1 DEF LinkSteps, appVars
<1>5. CASE LinkConnected \/ LinkConnectedInVain
  BY <1>2, <1>5 DEF LinkConnected, LinkConnectedInVain, RunPcConnected, RunPcConnectedThrows
<1>6. CASE LinkClosed \/ WsClosedTested
  BY <1>1, <1>3, <1>6 DEF LinkClosed, WsClosedTested, RunWsClosedTest, appVars
<1>7. CASE BrowserConnects \/ AcceptFails \/ Sessions \/ Workers \/ Interrupted
  BY <1>1, <1>7, SessionFacts
     DEF BrowserConnects, AcceptFails, Workers, RunAccepted, RunAcceptAborted,
         RunAcceptError, Interrupted, linkVars
<1>8. CASE MainThread
  BY <1>1, <1>3, <1>8
     DEF MainThread, MainStopsServer, MainDisconnects, MainExits, LinkDisconnects,
         linkVars
<1>9. CASE UNCHANGED clientVars
  BY <1>1, <1>9 DEF clientVars, linkVars, appVars
<1> QED
  BY <1>4, <1>5, <1>6, <1>7, <1>8, <1>9 DEF ClientNext

-----------------------------------------------------------------------------
(* The theorems.                                                           *)

(* The link's invariant, the types and the two about the acceptor hold     *)
(* throughout, whatever the callbacks, the workers and main do in turn.    *)
THEOREM ClientInvariance == ClientSpec => []ClientInv
<1>1. ClientInit => ClientInv
  <2>1. ClientInit => LinkInit
    BY DEF ClientInit
  <2> QED
    BY <2>1, LinkInvInitially, InitApp DEF ClientInv
<1>2. ClientInv /\ [ClientNext]_clientVars => ClientInv'
  <2> SUFFICES ASSUME ClientInv, [ClientNext]_clientVars PROVE ClientInv'
    OBVIOUS
  <2>1. LinkInv'
    BY ClientLinkSteps, LinkInvKept DEF ClientInv
  <2>2. AppTypeOK' /\ PendingInv'
    BY NextApp DEF ClientInv
  <2>3. AcceptorInv'
    BY NextAcceptor DEF ClientInv, LinkInv
  <2> QED
    BY <2>1, <2>2, <2>3 DEF ClientInv
<1> QED
  BY <1>1, <1>2, PTL DEF ClientSpec

(* The end of the link is seen to the end: Closed is the last word, and no *)
(* acceptor is left listening by the threads that raced (SocksServer).     *)
THEOREM EndIsSeenHolds == ClientSpec => []EndIsSeen
<1>1. ClientInv => EndIsSeen
  <2> SUFFICES ASSUME ClientInv PROVE EndIsSeen
    OBVIOUS
  <2>1. LastWordIsClosed
    BY LinkInvEnds DEF ClientInv
  <2>2. NotListeningWhenOver
    BY <2>1 DEF ClientInv, AcceptorInv, LastWordIsClosed, NotListeningWhenOver
  <2> QED
    BY <2>1, <2>2 DEF EndIsSeen
<1> QED
  BY <1>1, ClientInvariance, PTL

(* No browser can be accepted for a link that is over: no accept is        *)
(* pending (SocksServer::stop closes the acceptor, do_accept on a closed   *)
(* one fails).                                                             *)
THEOREM NoAcceptAfterTheEnd == ClientSpec => [](Over => accept["pending"] = 0)
<1>1. ClientInv /\ EndIsSeen => (Over => accept["pending"] = 0)
  BY DEF ClientInv, PendingInv, EndIsSeen, NotListeningWhenOver
<1> QED
  BY <1>1, ClientInvariance, EndIsSeenHolds, PTL

-----------------------------------------------------------------------------
(* The server program.                                                     *)

SideTypeOK ==
    /\ syn \in Nat
    /\ open \in Nat
    /\ closing \in Nat
    /\ opened \in Nat
    /\ timer \in BOOLEAN
    /\ waiting \in BOOLEAN
    /\ fired \in Nat
    /\ listed \in BOOLEAN
    /\ crashed \in BOOLEAN

ClosedTold == \E i \in 1..Len(notes) : notes[i] = "Closed"

(* timer_ and the client's entry go together, and only after a Closed.     *)
TimerInv ==
    /\ timer = listed
    /\ (waiting \/ fired > 0 \/ ~timer) => ClosedTold
    /\ crashed => ~timer

ServerInv ==
    /\ LinkInv
    /\ SideTypeOK
    /\ TimerInv

-----------------------------------------------------------------------------
(* The link inside the program.                                            *)

(* What the program adds to the link's callbacks does not touch the link.  *)
LEMMA ServerLinkSteps == [ServerNext]_serverVars => [LinkNext]_linkVars
<1> SUFFICES ASSUME [ServerNext]_serverVars PROVE [LinkNext]_linkVars
  OBVIOUS
<1>1. CASE LinkMoves \/ LinkComesUp \/ LinkGoesDown \/ WsLossTested \/ ServerStops
  BY <1>1
     DEF LinkMoves, LinkComesUp, LinkGoesDown, WsLossTested, ServerStops, LinkNext
<1>2. CASE SynArrives \/ RunSyn \/ OpenTunnelEnds \/ ClosingTunnelEnds
  BY <1>2 DEF SynArrives, RunSyn, OpenTunnelEnds, ClosingTunnelEnds
<1>3. CASE TimerExpires \/ RunTimer \/ UNCHANGED serverVars
  BY <1>3 DEF TimerExpires, RunTimer, serverVars
<1> QED
  BY <1>1, <1>2, <1>3 DEF ServerNext

(* What the owner was told it was told for good.                           *)
LEMMA ToldStays ==
    ASSUME LinkTypeOK, [LinkNext]_linkVars, ClosedTold
    PROVE  ClosedTold'
<1>1. CASE UNCHANGED notes
  BY <1>1 DEF ClosedTold
<1>2. ASSUME NEW w \in Words, notes' = Append(notes, w)
      PROVE  ClosedTold'
  <2>1. /\ Len(notes) \in Nat /\ Len(notes') = Len(notes) + 1
        /\ \A i \in 1..Len(notes) : notes'[i] = notes[i]
    BY <1>2, AppendFacts DEF LinkTypeOK
  <2>2. \A i \in 1..Len(notes) : i \in 1..Len(notes')
    BY <2>1
  <2> QED
    BY <2>1, <2>2 DEF ClosedTold
<1>3. CASE LinkEnvironment \/ LinkSilent \/ LinkDisconnects \/ UNCHANGED linkVars
  BY <1>1, <1>3
     DEF LinkEnvironment, LinkSilent, WsOpens, WsCloses, GetVerify, GetVerifyAck,
         GetDescription, PcMoves, DcOpens, RunWsClosed, RunPcConnectedRest,
         RunPcDisconnected, RunPcClosedRest, LinkDisconnects, linkVars
<1>4. CASE RunPcConnected \/ RunPcConnectedThrows \/ RunPcClosed \/ RunWsClosedTest
  BY <1>1, <1>2, <1>4
     DEF RunPcConnected, RunPcConnectedThrows, RunPcClosed, RunWsClosedTest, Words
<1> QED
  BY <1>3, <1>4 DEF LinkNext

(* A report of Closed is among what the owner was told.                    *)
LEMMA ToldNow ==
    ASSUME LinkTypeOK, notes' = Append(notes, "Closed")
    PROVE  ClosedTold'
<1>1. /\ Len(notes) \in Nat /\ Len(notes') = Len(notes) + 1
      /\ notes'[Len(notes) + 1] = "Closed"
  BY AppendFacts DEF LinkTypeOK, Words
<1>2. Len(notes) + 1 \in 1..Len(notes')
  BY <1>1
<1> QED
  BY <1>1, <1>2 DEF ClosedTold

-----------------------------------------------------------------------------
(* The timer.                                                              *)

(* A client is listed, with a timer that has not been started.             *)
LEMMA InitServerApp == ServerInit => SideTypeOK /\ TimerInv
<1> SUFFICES ASSUME ServerInit PROVE SideTypeOK /\ TimerInv
  OBVIOUS
<1>1. timer /\ listed /\ ~waiting /\ ~crashed
  BY Zenon DEF ServerInit
<1>2. timer \in BOOLEAN /\ listed \in BOOLEAN /\ waiting \in BOOLEAN /\ crashed \in BOOLEAN
  BY Zenon DEF ServerInit
<1>3. timer = listed
  BY Zenon DEF ServerInit
<1> QED
  BY <1>1, <1>2, <1>3 DEF ServerInit, SideTypeOK, TimerInv

(* Closed starts the timer, and is a use of a null timer_ only when the    *)
(* client has been forgotten.                                              *)
LEMMA ClosedReported ==
    ASSUME SideTypeOK, TimerInv, OnClosed, ClosedTold'
    PROVE  SideTypeOK' /\ TimerInv'
<1>1. CASE timer
  <2>1. waiting' \in BOOLEAN /\ UNCHANGED <<syn, opened, timer, fired, listed, crashed>>
    BY <1>1, Zenon DEF OnClosed
  <2>2. closing' \in Nat /\ open' \in Nat
    BY <1>1 DEF OnClosed, SideTypeOK
  <2> QED
    BY <1>1, <2>1, <2>2 DEF SideTypeOK, TimerInv
<1>2. CASE ~timer
  <2>1. crashed' \in BOOLEAN /\ UNCHANGED <<tunnelVars, timer, waiting, fired, listed>>
    BY <1>2, Zenon DEF OnClosed
  <2> QED
    BY <1>2, <2>1 DEF SideTypeOK, TimerInv, tunnelVars
<1> QED
  BY <1>1, <1>2

(* A step that leaves the timer alone.                                     *)
LEMMA TimerSame ==
    ASSUME TimerInv, UNCHANGED timerVars, ClosedTold => ClosedTold'
    PROVE  TimerInv'
BY DEF TimerInv, timerVars

(* No order of the callbacks, the tunnels' ends and the timer's handler    *)
(* loses the timer while the client is listed.                             *)
LEMMA NextServerApp ==
    ASSUME LinkTypeOK, SideTypeOK, TimerInv, [ServerNext]_serverVars
    PROVE  SideTypeOK' /\ TimerInv'
<1>0. ClosedTold => ClosedTold'
  BY ServerLinkSteps, ToldStays
<1>1. CASE UNCHANGED sideVars
  BY <1>0, <1>1, TimerSame DEF sideVars, tunnelVars, timerVars, SideTypeOK
<1>2. CASE LinkMoves \/ LinkComesUp \/ ServerStops \/ UNCHANGED serverVars
  BY <1>1, <1>2 DEF LinkMoves, LinkComesUp, ServerStops, serverVars
<1>3. CASE LinkGoesDown
  BY <1>3, ToldNow, ClosedReported DEF LinkGoesDown, RunPcClosed
<1>4. CASE WsLossTested
  BY <1>1, <1>4, ToldNow, ClosedReported DEF WsLossTested, RunWsClosedTest
<1>5. CASE SynArrives \/ RunSyn \/ OpenTunnelEnds \/ ClosingTunnelEnds
  <2>1. UNCHANGED timerVars
    BY <1>5 DEF SynArrives, RunSyn, OpenTunnelEnds, ClosingTunnelEnds
  <2>2. syn' \in Nat /\ open' \in Nat /\ closing' \in Nat /\ opened' \in Nat
    BY <1>5 DEF SynArrives, RunSyn, OpenTunnelEnds, ClosingTunnelEnds, SideTypeOK
  <2> QED
    BY <1>0, <2>1, <2>2, TimerSame DEF SideTypeOK, timerVars
<1>6. CASE TimerExpires
  <2>1. waiting' \in BOOLEAN /\ waiting
    BY <1>6, Zenon DEF TimerExpires
  <2> QED
    BY <1>0, <1>6, <2>1 DEF TimerExpires, SideTypeOK, TimerInv, tunnelVars
<1>7. CASE RunTimer
  <2>1. ClosedTold'
    BY <1>0, <1>7 DEF RunTimer, TimerInv
  <2>2. fired' \in Nat /\ UNCHANGED tunnelVars
    BY <1>7 DEF RunTimer, SideTypeOK
  <2>3. CASE open + closing = 0
    <3>1. timer' = FALSE /\ listed' = FALSE /\ UNCHANGED <<waiting, crashed>>
      BY <1>7, <2>3, Zenon DEF RunTimer
    <3>2. timer' = listed' /\ ~timer' /\ timer' \in BOOLEAN /\ listed' \in BOOLEAN
      BY <3>1, Zenon
    <3> QED
      BY <2>1, <2>2, <3>1, <3>2 DEF SideTypeOK, TimerInv, tunnelVars
  <2>4. CASE open + closing # 0
    <3>1. /\ waiting' \in BOOLEAN /\ crashed' \in BOOLEAN
          /\ UNCHANGED <<listed, timer>>
          /\ timer => crashed' = crashed
      BY <1>7, <2>4, Zenon DEF RunTimer, SideTypeOK
    <3> QED
      BY <2>1, <2>2, <3>1 DEF SideTypeOK, TimerInv, tunnelVars
  <2> QED
    BY <2>3, <2>4
<1> QED
  BY <1>2, <1>3, <1>4, <1>5, <1>6, <1>7 DEF ServerNext

-----------------------------------------------------------------------------
(* The theorems.                                                           *)

(* The link's invariant, the types and the timer's hold throughout.        *)
THEOREM ServerInvariance == ServerSpec => []ServerInv
<1>1. ServerInit => ServerInv
  <2>1. ServerInit => LinkInit
    BY DEF ServerInit
  <2> QED
    BY <2>1, LinkInvInitially, InitServerApp DEF ServerInv
<1>2. ServerInv /\ [ServerNext]_serverVars => ServerInv'
  BY ServerLinkSteps, LinkInvKept, NextServerApp DEF ServerInv, LinkInv
<1> QED
  BY <1>1, <1>2, PTL DEF ServerSpec

(* A null timer_ is used only by a report that comes late, when the client *)
(* has been forgotten after an earlier Closed (notifyClose,                *)
(* bindTimerFinish).                                                       *)
THEOREM NullTimerOnlyWhenForgottenHolds == ServerSpec => []NullTimerOnlyWhenForgotten
<1>1. ServerInv => NullTimerOnlyWhenForgotten
  BY DEF ServerInv, TimerInv, NullTimerOnlyWhenForgotten, ClosedTold, Contains
<1> QED
  BY <1>1, ServerInvariance, PTL

(* The server's end of a link, too, hears Closed last, whatever becomes of *)
(* the tunnels and of the timer.                                           *)
THEOREM ServerHearsClosedLast == ServerSpec => []LastWordIsClosed
<1>1. ServerInv => LastWordIsClosed
  BY LinkInvEnds DEF ServerInv
<1> QED
  BY <1>1, ServerInvariance, PTL
=============================================================================
