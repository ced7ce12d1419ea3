-------------------------- MODULE RtcLoggerProofs --------------------------
(***************************************************************************)
(* The log file tells what happened, for any number of threads, lanes and  *)
(* calls.  An entry that log() accepted is in a lane of the queue, in the  *)
(* hand of whoever took it, or in the file, and within one life of a       *)
(* thread the file comes before the hand and the hand before the lane.     *)
(* When main has found the queue empty, nothing logged before shutdown()   *)
(* is left anywhere but in the file.                                       *)
(***************************************************************************)
EXTENDS RtcLogger, SequenceTheorems, TLAPS

EntryType == Threads \X Nat \X Nat

TypeOK ==
    /\ lanes \in [1..MaxLanes -> Seq(EntryType)]
    /\ lane \in [Threads -> {0} \cup 1..MaxLanes]
    /\ caller \in {"idle", "asked", "finds", "found", "empty"}
    /\ caller = "found" => item \in EntryType
    /\ running \in BOOLEAN
    /\ worker \in {"loop", "waiting", "over"}
    /\ main \in {"up", "notify", "join", "drain", "closed"}
    /\ file \in [Threads -> Seq(EntryType)]
    /\ calls \in [Threads -> Nat]
    /\ life \in [Threads -> Nat]
    /\ accepted \in [Threads -> Seq(EntryType)]
    /\ before \in [Threads -> SUBSET EntryType]

(* Entries of one life of a thread stand in the order of its calls.        *)
Ordered(q) ==
    \A i, j \in 1..Len(q) : (i < j /\ OfOneLife(q[i], q[j])) => q[i][3] < q[j][3]

(* No entry is ahead of its thread, or of another thread.                  *)
CallsInv ==
    \A t \in Threads : \A e \in Range(accepted[t]) :
        e[1] = t /\ e[2] =< life[t] /\ e[3] =< calls[t]

(* One life of a thread uses one lane, the present life its present one.   *)
LaneInv ==
    \A l \in 1..MaxLanes :
        /\ Ordered(lanes[l])
        /\ \A e \in Range(lanes[l]) :
              /\ e \in Range(accepted[e[1]])
              /\ e[2] = life[e[1]] => lane[e[1]] = l
              /\ \A m \in 1..MaxLanes : \A d \in Range(lanes[m]) : OfOneLife(d, e) => m = l

(* An entry is ahead of what is still in the queue.                        *)
Ahead(e) ==
    \A l \in 1..MaxLanes : \A d \in Range(lanes[l]) : OfOneLife(d, e) => e[3] < d[3]

HeldInv == caller = "found" => item \in Range(accepted[item[1]]) /\ Ahead(item)

FileInv ==
    \A t \in Threads :
        /\ Ordered(file[t])
        /\ \A e \in Range(file[t]) :
              /\ e \in Range(accepted[t])
              /\ Ahead(e)
              /\ (caller = "found" /\ OfOneLife(item, e)) => e[3] < item[3]

(* Nothing is lost.                                                        *)
Waits(e) == \E l \in 1..MaxLanes : e \in Range(lanes[l])
Held(e) == caller = "found" /\ item = e

KeptInv ==
    \A t \in Threads : \A e \in Range(accepted[t]) :
        Waits(e) \/ Held(e) \/ e \in Range(file[t])

(* The worker is over before main drains the queue, and once main was told *)
(* that it is empty, all that shutdown() must write is in the file.        *)
WrittenInv == \A t \in Threads : before[t] \subseteq Range(file[t])

DrainInv ==
    /\ running => main = "up"
    /\ \A t \in Threads : before[t] \subseteq Range(accepted[t])
    /\ main \in {"drain", "closed"} => worker = "over"
    /\ (worker = "over" /\ main \notin {"drain", "closed"}) => caller = "idle"
    /\ main = "closed" => caller = "idle" /\ WrittenInv
    /\ (main = "drain" /\ caller \in {"asked", "empty"}) => WrittenInv

EntriesInv == CallsInv /\ LaneInv /\ HeldInv /\ FileInv /\ KeptInv

IInv == TypeOK /\ EntriesInv /\ DrainInv

-----------------------------------------------------------------------------
(* The operators the model is built from.                                  *)

(* A lane, or the file, that is empty.                                     *)
LEMMA EmptyFacts ==
    ASSUME NEW S, NEW q \in Seq(S)
    PROVE  /\ <<>> \in Seq(S) /\ Len(<<>>) = 0 /\ Range(<<>>) = {}
           /\ Len(q) \in Nat /\ DOMAIN q = 1..Len(q)
           /\ Range(q) \subseteq S
BY EmptySeq, LenProperties, ElementOfSeq DEF Range

(* enqueue, and the worker's write, add one entry.                         *)
LEMMA AppendFacts ==
    ASSUME NEW S, NEW q \in Seq(S), NEW e \in S
    PROVE  /\ Append(q, e) \in Seq(S)
           /\ Len(q) \in Nat /\ Len(Append(q, e)) = Len(q) + 1
           /\ \A i \in 1..Len(q) : Append(q, e)[i] = q[i]
           /\ Append(q, e)[Len(q) + 1] = e
           /\ Range(Append(q, e)) = Range(q) \cup {e}
<1>1. /\ Append(q, e) \in Seq(S)
      /\ Len(q) \in Nat /\ Len(Append(q, e)) = Len(q) + 1
      /\ \A i \in 1..Len(q) : Append(q, e)[i] = q[i]
      /\ Append(q, e)[Len(q) + 1] = e
  BY AppendProperties, LenProperties
<1>2. PICK n \in Nat : n = Len(q)
  BY <1>1
<1>3. PICK r \in Seq(S) : r = Append(q, e)
  BY <1>1
<1>4. DOMAIN q = 1..n /\ DOMAIN r = 1..n + 1
  BY <1>1, <1>2, <1>3, EmptyFacts
<1>5. \A i \in 1..n + 1 : i \in 1..n \/ i = n + 1
  OBVIOUS
<1>6. n + 1 \in 1..n + 1 /\ \A i \in 1..n : i \in 1..n + 1
  OBVIOUS
<1>7. Range(r) = Range(q) \cup {e}
  BY <1>1, <1>2, <1>3, <1>4, <1>5, <1>6 DEF Range
<1> QED
  BY <1>1, <1>3, <1>7

(* try_dequeue takes the oldest entry of a lane.                           *)
LEMMA TakeFacts ==
    ASSUME NEW S, NEW q \in Seq(S), q # <<>>
    PROVE  /\ Head(q) \in S /\ Tail(q) \in Seq(S)
           /\ Len(q) \in Nat /\ 1 \in 1..Len(q) /\ Head(q) = q[1]
           /\ Len(Tail(q)) = Len(q) - 1
           /\ \A i \in 1..Len(Tail(q)) : Tail(q)[i] = q[i + 1]
           /\ Range(q) = Range(Tail(q)) \cup {Head(q)}
<1>1. Len(q) \in Nat \ {0}
  BY EmptySeq
<1>2. /\ Head(q) \in S /\ Head(q) = q[1] /\ Tail(q) \in Seq(S)
      /\ Len(Tail(q)) = Len(q) - 1
      /\ \A i \in 1..Len(Tail(q)) : Tail(q)[i] = q[i + 1]
  BY HeadTailProperties
<1>3. PICK n \in Nat : n + 1 = Len(q)
  BY <1>1
<1>4. PICK r \in Seq(S) : r = Tail(q)
  BY <1>2
<1>5. DOMAIN q = 1..n + 1 /\ DOMAIN r = 1..n
  <2>n. PICK m \in Nat : m = Len(q)
    BY <1>1
  <2>r. Len(r) = m - 1
    BY <1>2, <1>4, <2>n
  <2>1. Len(r) = n
    BY <1>3, <2>n, <2>r
  <2>2. DOMAIN q = 1..Len(q) /\ DOMAIN r = 1..Len(r)
    BY EmptyFacts
  <2> QED
    BY <1>3, <2>1, <2>2
<1>6. /\ \A i \in 1..n : i + 1 \in 1..n + 1
      /\ \A i \in 1..n + 1 : i = 1 \/ \E j \in 1..n : i = j + 1
      /\ 1 \in 1..n + 1
  <2>1. \A i \in 1..n + 1 : i = 1 \/ (i - 1 \in 1..n /\ i = (i - 1) + 1)
    OBVIOUS
  <2> QED
    BY <2>1
<1>7. \A i \in 1..n : r[i] = q[i + 1]
  BY <1>2, <1>3, <1>4
<1>8. Range(q) = Range(r) \cup {q[1]}
  <2>1. \A x \in Range(r) : x \in Range(q)
    BY <1>5, <1>6, <1>7 DEF Range
  <2>2. q[1] \in Range(q)
    BY <1>5, <1>6 DEF Range
  <2>3. ASSUME NEW x \in Range(q), x # q[1]
        PROVE  x \in Range(r)
    <3>1. PICK i \in 1..n + 1 : x = q[i]
      BY <1>5 DEF Range
    <3>2. PICK j \in 1..n : i = j + 1
      BY <1>6, <2>3, <3>1
    <3> QED
      BY <1>5, <1>7, <3>1, <3>2 DEF Range
  <2> QED
    BY <2>1, <2>2, <2>3
<1> QED
  BY <1>1, <1>2, <1>4, <1>8

(* A later call's entry at the end keeps the order of each life.           *)
LEMMA OrderedAppend ==
    ASSUME NEW S, NEW q \in Seq(S), NEW e \in S, Ordered(q),
           \A d \in Range(q) : OfOneLife(d, e) => d[3] < e[3]
    PROVE  Ordered(Append(q, e))
<1>1. PICK n \in Nat : n = Len(q)
  BY AppendFacts
<1>2. PICK r : r = Append(q, e)
  OBVIOUS
<1>3. /\ Len(r) = n + 1 /\ r[n + 1] = e
      /\ \A i \in 1..n : r[i] = q[i] /\ q[i] \in Range(q)
  BY <1>1, <1>2, AppendFacts, EmptyFacts DEF Range
<1>4. \A i, j \in 1..n + 1 : i < j => i \in 1..n /\ (j \in 1..n \/ j = n + 1)
  OBVIOUS
<1>5. Ordered(r)
  BY <1>1, <1>3, <1>4 DEF Ordered
<1> QED
  BY <1>2, <1>5

(* The oldest entry taken was called before the others of its life.        *)
LEMMA OrderedTail ==
    ASSUME NEW S, NEW q \in Seq(S), q # <<>>, Ordered(q)
    PROVE  /\ Ordered(Tail(q))
           /\ \A d \in Range(Tail(q)) : OfOneLife(d, Head(q)) => Head(q)[3] < d[3]
<1>1. PICK n \in Nat : n + 1 = Len(q)
  <2>1. Len(q) \in Nat \ {0}
    BY EmptySeq
  <2> QED
    BY <2>1
<1>2. PICK r \in Seq(S) : r = Tail(q)
  BY TakeFacts
<1>3. /\ Len(r) = n /\ Head(q) = q[1] /\ DOMAIN r = 1..n
      /\ \A i \in 1..n : r[i] = q[i + 1]
  BY <1>1, <1>2, TakeFacts, EmptyFacts
<1>4. /\ \A i \in 1..n : i + 1 \in 1..n + 1 /\ 1 < i + 1
      /\ 1 \in 1..n + 1
      /\ \A i, j \in 1..n : i < j => i + 1 < j + 1
  OBVIOUS
<1>5. Ordered(r)
  BY <1>1, <1>3, <1>4, SMTT(30) DEF Ordered
<1>6. ASSUME NEW d \in Range(r), OfOneLife(d, q[1])
      PROVE  q[1][3] < d[3]
  <2>1. PICK i \in 1..n : d = r[i]
    BY <1>3 DEF Range
  <2>2. OfOneLife(q[1], q[i + 1])
    BY <1>3, <1>6, <2>1 DEF OfOneLife
  <2> QED
    BY <1>1, <1>3, <1>4, <2>1, <2>2 DEF Ordered
<1> QED
  BY <1>2, <1>3, <1>5, <1>6

-----------------------------------------------------------------------------
(* Types.                                                                  *)

(* log() puts an entry of the type behind those of the thread's lane.      *)
LEMMA AcceptedTypes ==
    ASSUME TypeOK, NEW t \in Threads, Accepted(t),
           NEW e, e = <<t, life[t], calls[t] + 1>>
    PROVE  /\ e \in EntryType /\ e[1] = t /\ e[2] = life[t] /\ e[3] = calls[t] + 1
           /\ calls[t] \in Nat /\ life[t] \in Nat
           /\ lane[t] \in 1..MaxLanes
           /\ lanes[lane[t]] \in Seq(EntryType) /\ accepted[t] \in Seq(EntryType)
           /\ lanes' = [lanes EXCEPT ![lane[t]] = Append(@, e)]
           /\ accepted' = [accepted EXCEPT ![t] = Append(@, e)]
           /\ calls' = [calls EXCEPT ![t] = @ + 1]
<1>1. calls[t] \in Nat /\ life[t] \in Nat
  BY DEF TypeOK
<1>2. e \in EntryType /\ e[1] = t /\ e[2] = life[t] /\ e[3] = calls[t] + 1
  BY <1>1 DEF EntryType
<1>3. lane[t] \in 1..MaxLanes
  BY DEF Accepted, Put, TypeOK
<1> QED
  BY <1>1, <1>2, <1>3 DEF Accepted, Calls, Put, TypeOK

(* try_dequeue takes an entry of the type from a lane.                     *)
LEMMA FindTypes ==
    ASSUME TypeOK, Find
    PROVE  \E l \in 1..MaxLanes :
              /\ lanes[l] \in Seq(EntryType) /\ lanes[l] # <<>>
              /\ item' = Head(lanes[l]) /\ item' \in EntryType
              /\ lanes' = [lanes EXCEPT ![l] = Tail(@)]
              /\ Tail(lanes[l]) \in Seq(EntryType)
              /\ caller \in {"asked", "finds"} /\ caller' = "found"
              /\ lane' = lane
<1>1. PICK l \in 1..MaxLanes :
         /\ lanes[l] # <<>>
         /\ item' = Head(lanes[l])
         /\ lanes' = [lanes EXCEPT ![l] = Tail(@)]
  BY DEF Find
<1>2. lanes[l] \in Seq(EntryType)
  BY DEF TypeOK
<1>3. Head(lanes[l]) \in EntryType /\ Tail(lanes[l]) \in Seq(EntryType)
  BY <1>1, <1>2, TakeFacts
<1> QED
  BY <1>1, <1>2, <1>3 DEF Find

(* Init's values are of the type (RtcLogger::init).                        *)
LEMMA InitTypeOK == Init => TypeOK
<1>1. <<>> \in Seq(EntryType)
  BY EmptySeq
<1> QED
  BY <1>1 DEF Init, QueueInit, TypeOK

(* Every step of log(), workerLoop and shutdown() keeps the types.         *)
LEMMA NextTypeOK == TypeOK /\ [Next]_vars => TypeOK'
<1> SUFFICES ASSUME TypeOK, [Next]_vars
             PROVE  TypeOK'
  OBVIOUS
<1>1. ASSUME NEW t \in Threads, Accepted(t)
      PROVE  TypeOK'
  <2>1. PICK e : e = <<t, life[t], calls[t] + 1>>
    OBVIOUS
  <2>2. /\ lane[t] \in 1..MaxLanes /\ calls[t] \in Nat
        /\ lanes' = [lanes EXCEPT ![lane[t]] = Append(@, e)]
        /\ accepted' = [accepted EXCEPT ![t] = Append(@, e)]
        /\ calls' = [calls EXCEPT ![t] = @ + 1]
        /\ Append(lanes[lane[t]], e) \in Seq(EntryType)
        /\ Append(accepted[t], e) \in Seq(EntryType)
    BY <1>1, <2>1, AcceptedTypes, AppendFacts
  <2>3. /\ lanes' \in [1..MaxLanes -> Seq(EntryType)]
        /\ accepted' \in [Threads -> Seq(EntryType)]
        /\ calls' \in [Threads -> Nat]
    BY <2>2 DEF TypeOK
  <2> QED
    BY <1>1, <2>3 DEF Accepted, Put, TypeOK
<1>2. ASSUME NEW t \in Threads, Dropped(t) \/ NotifyOne(t) \/ FirstCall(t) \/ ThreadExits(t)
      PROVE  TypeOK'
  <2>1. CASE Dropped(t)
    BY <2>1 DEF Dropped, Calls, queue, TypeOK
  <2>2. CASE NotifyOne(t)
    BY <2>2 DEF NotifyOne, Notify, queue, TypeOK
  <2>3. CASE FirstCall(t)
    <3>1. PICK l \in 1..MaxLanes : lane' = [lane EXCEPT ![t] = l]
      BY <2>3 DEF FirstCall, Join
    <3>2. lane' \in [Threads -> {0} \cup 1..MaxLanes]
      BY <3>1 DEF TypeOK
    <3> QED
      BY <2>3, <3>2 DEF FirstCall, Join, loggerVars, TypeOK
  <2>4. CASE ThreadExits(t)
    <3>1. life[t] + 1 \in Nat /\ life' = [life EXCEPT ![t] = @ + 1]
      BY <2>4 DEF ThreadExits, TypeOK
    <3>2. lane' \in [Threads -> {0} \cup 1..MaxLanes]
      BY <2>4 DEF ThreadExits, Leave, TypeOK
    <3> QED
      BY <2>4, <3>1, <3>2 DEF ThreadExits, Leave, TypeOK
  <2> QED
    BY <1>2, <2>1, <2>2, <2>3, <2>4
<1>3. CASE Looks
  <2>1. CASE Find
    <3>1. lanes' \in [1..MaxLanes -> Seq(EntryType)] /\ item' \in EntryType
      BY <2>1, FindTypes DEF TypeOK
    <3> QED
      BY <1>3, <2>1, <3>1 DEF Looks, Find, loggerVars, TypeOK
  <2>2. CASE FindNothing
    BY <1>3, <2>2 DEF Looks, FindNothing, loggerVars, TypeOK
  <2> QED
    BY <1>3, <2>1, <2>2 DEF Looks
<1>4. CASE writeEntry
  <2>1. item \in EntryType /\ item[1] \in Threads
    BY <1>4 DEF writeEntry, TypeOK, EntryType
  <2>2. Append(file[item[1]], item) \in Seq(EntryType)
    BY <2>1, AppendFacts DEF TypeOK
  <2>3. file' \in [Threads -> Seq(EntryType)]
    BY <1>4, <2>2 DEF writeEntry, TypeOK
  <2> QED
    BY <1>4, <2>3 DEF writeEntry, Return, TypeOK
<1>5. CASE WorkerLoop \/ WaitFor \/ WaitEnds \/ NotifyAll \/ drain \/ CloseFile
  BY <1>5 DEF WorkerLoop, WaitFor, WaitEnds, NotifyAll, Notify, drain, CloseFile, Call,
     Return, queue, TypeOK
<1>6. CASE shutdown
  <2>1. \A t \in Threads : Range(accepted[t]) \in SUBSET EntryType
    BY EmptyFacts DEF TypeOK
  <2> QED
    BY <1>6, <2>1 DEF shutdown, queue, TypeOK
<1>7. CASE UNCHANGED vars
  BY <1>7 DEF vars, queue, loggerVars, TypeOK
<1> QED
  BY <1>1, <1>2, <1>3, <1>4, <1>5, <1>6, <1>7
  DEF Next, Consuming, Closing, log

-----------------------------------------------------------------------------
(* The steps.                                                              *)

(* Nobody moves an entry.                                                  *)
Still ==
    /\ lanes' = lanes /\ file' = file /\ accepted' = accepted
    /\ caller' = "found" <=> caller = "found"
    /\ caller = "found" => item' = item
LivesStill == lane' = lane /\ life' = life

(* The steps of both loops that ask or wait, and a call that failed.       *)
LEMMA StillMoves ==
    ASSUME TypeOK, [Next]_vars
    PROVE  \/ Still /\ LivesStill
              /\ \A t \in Threads : calls'[t] = calls[t] \/ Dropped(t)
           \/ \E t \in Threads : Accepted(t) \/ FirstCall(t) \/ ThreadExits(t)
           \/ Looks /\ Find
           \/ writeEntry
<1>1. ASSUME NEW t \in Threads, Dropped(t)
      PROVE  Still /\ LivesStill /\ \A r \in Threads : calls'[r] = calls[r] \/ Dropped(r)
  BY <1>1 DEF Dropped, Calls, queue, Still, LivesStill, TypeOK
<1> QED
  BY <1>1 DEF Next, Consuming, Closing, log, NotifyOne, Looks, FindNothing, WorkerLoop, WaitFor,
     WaitEnds, NotifyAll, drain, CloseFile, shutdown, Call, Return, vars, queue, loggerVars,
     Still, LivesStill

(* What such a step keeps.                                                 *)
LEMMA StillKept ==
    ASSUME TypeOK, EntriesInv, Still, LivesStill,
           \A t \in Threads : calls'[t] = calls[t] \/ Dropped(t)
    PROVE  EntriesInv'
<1>1. CallsInv'
  <2>1. \A t \in Threads : calls[t] \in Nat /\ calls'[t] \in Nat /\ calls'[t] >= calls[t]
    BY DEF TypeOK, Dropped, Calls
  <2>2. ASSUME NEW t \in Threads, NEW e \in Range(accepted[t])
        PROVE  e[1] = t /\ e[2] =< life[t] /\ e[3] =< calls'[t]
    <3>1. e[1] = t /\ e[2] =< life[t] /\ e[3] =< calls[t]
      BY DEF EntriesInv, CallsInv
    <3>2. e \in EntryType
      BY EmptyFacts DEF TypeOK
    <3>3. e[3] \in Nat
      BY <3>2 DEF EntryType
    <3> QED
      BY <2>1, <3>1, <3>3
  <2> QED
    BY <2>2 DEF CallsInv, Still, LivesStill
<1>2. LaneInv'
  BY DEF EntriesInv, LaneInv, Still, LivesStill
<1>3. HeldInv'
  BY DEF EntriesInv, HeldInv, Ahead, Still
<1>4. FileInv'
  BY DEF EntriesInv, FileInv, Ahead, Still
<1>5. KeptInv'
  BY DEF EntriesInv, KeptInv, Waits, Held, Still
<1> QED
  BY <1>1, <1>2, <1>3, <1>4, <1>5 DEF EntriesInv

(* A thread's first call gives it a lane with none of its present life in  *)
(* it, and a thread that ends leaves its lane to another.                  *)
LEMMA LivesKept ==
    ASSUME TypeOK, EntriesInv, NEW t \in Threads, FirstCall(t) \/ ThreadExits(t)
    PROVE  EntriesInv'
<1>1. Still /\ calls' = calls
  BY DEF FirstCall, ThreadExits, Join, Leave, loggerVars, Still
<1>2. \/ lane[t] = 0 /\ life' = life
      \/ life'[t] = life[t] + 1
  BY DEF FirstCall, ThreadExits, Join, loggerVars, TypeOK
<1>3. \A r \in Threads : r # t => lane'[r] = lane[r] /\ life'[r] = life[r]
  BY DEF FirstCall, ThreadExits, Join, Leave, loggerVars, TypeOK
<1>4. \A r \in Threads : life[r] \in Nat
  BY DEF TypeOK
<1>5. ASSUME NEW l \in 1..MaxLanes, NEW e \in Range(lanes[l])
      PROVE  e[1] \in Threads /\ e[2] \in Nat /\ e[2] =< life[e[1]]
  <2>1. e \in EntryType
    BY EmptyFacts DEF TypeOK
  <2>2. e[1] \in Threads /\ e[2] \in Nat
    BY <2>1 DEF EntryType
  <2> QED
    BY <2>2 DEF EntriesInv, LaneInv, CallsInv
<1>6. CallsInv'
  <2>1. ASSUME NEW r \in Threads, NEW e \in Range(accepted[r])
        PROVE  e[1] = r /\ e[2] =< life'[r] /\ e[3] =< calls[r]
    <3>1. e[1] = r /\ e[2] =< life[r] /\ e[3] =< calls[r]
      BY DEF EntriesInv, CallsInv
    <3>2. e \in EntryType
      BY EmptyFacts DEF TypeOK
    <3>3. e[2] \in Nat
      BY <3>2 DEF EntryType
    <3> QED
      BY <1>2, <1>3, <1>4, <3>1, <3>3
  <2> QED
    BY <1>1, <2>1 DEF CallsInv, Still
<1>7. LaneInv'
  <2>1. ASSUME NEW l \in 1..MaxLanes, NEW e \in Range(lanes[l]), e[2] = life'[e[1]]
        PROVE  lane'[e[1]] = l
    <3>1. CASE e[1] # t
      BY <1>3, <1>5, <2>1, <3>1 DEF EntriesInv, LaneInv
    <3>2. CASE e[1] = t /\ lane[t] = 0 /\ life' = life
      <4>1. lane[t] = l
        BY <2>1, <3>2 DEF EntriesInv, LaneInv
      <4> QED
        BY <3>2, <4>1
    <3>3. CASE e[1] = t /\ life'[t] = life[t] + 1
      BY <1>4, <1>5, <2>1, <3>3
    <3> QED
      BY <1>2, <3>1, <3>2, <3>3
  <2> QED
    BY <1>1, <2>1 DEF EntriesInv, LaneInv, Still
<1>8. HeldInv' /\ FileInv' /\ KeptInv'
  BY <1>1 DEF EntriesInv, HeldInv, FileInv, KeptInv, Ahead, Waits, Held, Still
<1> QED
  BY <1>6, <1>7, <1>8 DEF EntriesInv

(* Whose an entry of the queue is.                                         *)
LEMMA LaneFacts ==
    ASSUME TypeOK, EntriesInv, NEW l \in 1..MaxLanes, NEW d \in Range(lanes[l])
    PROVE  d \in EntryType /\ d[1] \in Threads /\ d \in Range(accepted[d[1]])
<1>1. d \in EntryType
  BY EmptyFacts DEF TypeOK
<1> QED
  BY <1>1 DEF EntryType, EntriesInv, LaneInv

(* log(): the entry comes behind all of its thread's life.                 *)
LEMMA AcceptedKept ==
    ASSUME TypeOK, EntriesInv, NEW t \in Threads, Accepted(t)
    PROVE  EntriesInv'
<1>0. PICK e : e = <<t, life[t], calls[t] + 1>>
  OBVIOUS
<1>1. PICK o : o = lane[t]
  OBVIOUS
<1>2. /\ e \in EntryType /\ e[1] = t /\ e[2] = life[t] /\ e[3] = calls[t] + 1
      /\ calls[t] \in Nat /\ life[t] \in Nat /\ o \in 1..MaxLanes
      /\ lanes[o] \in Seq(EntryType) /\ accepted[t] \in Seq(EntryType)
      /\ lanes' = [lanes EXCEPT ![o] = Append(@, e)]
      /\ accepted' = [accepted EXCEPT ![t] = Append(@, e)]
      /\ calls' = [calls EXCEPT ![t] = @ + 1]
  BY <1>0, <1>1, AcceptedTypes
<1>3. /\ lanes'[o] = Append(lanes[o], e) /\ Range(lanes'[o]) = Range(lanes[o]) \cup {e}
      /\ \A l \in 1..MaxLanes : l # o => lanes'[l] = lanes[l]
  BY <1>2, AppendFacts DEF TypeOK
<1>4. /\ Range(accepted'[t]) = Range(accepted[t]) \cup {e}
      /\ \A r \in Threads : r # t => accepted'[r] = accepted[r]
  BY <1>2, AppendFacts DEF TypeOK
<1>5. /\ file' = file /\ caller' = caller /\ item' = item /\ lane' = lane /\ life' = life
      /\ calls'[t] = calls[t] + 1 /\ \A r \in Threads : r # t => calls'[r] = calls[r]
  BY <1>2 DEF Accepted, Put, TypeOK
<1>6. ASSUME NEW r \in Threads, NEW d \in Range(accepted[r])
      PROVE  /\ d[1] = r /\ d[2] =< life[r] /\ d[3] =< calls[r] /\ d[3] \in Nat
             /\ OfOneLife(d, e) => d[3] < e[3]
  <2>1. d[1] = r /\ d[2] =< life[r] /\ d[3] =< calls[r]
    BY DEF EntriesInv, CallsInv
  <2>2. d \in EntryType
    BY EmptyFacts DEF TypeOK
  <2>3. d[3] \in Nat
    BY <2>2 DEF EntryType
  <2> QED
    BY <1>2, <2>1, <2>3 DEF OfOneLife
<1>7. ASSUME NEW l \in 1..MaxLanes, NEW d \in Range(lanes[l]), OfOneLife(d, e)
      PROVE  l = o /\ d[3] < e[3]
  <2>1. d[1] \in Threads /\ d \in Range(accepted[d[1]])
    BY LaneFacts
  <2>2. d[3] < e[3]
    BY <1>6, <1>7, <2>1
  <2>3. d[2] = life[d[1]] /\ d[1] = t
    BY <1>2, <1>7 DEF OfOneLife
  <2>4. lane[t] = l
    BY <2>3 DEF EntriesInv, LaneInv
  <2> QED
    BY <1>1, <2>2, <2>4
<1>8. CallsInv'
  <2>1. ASSUME NEW r \in Threads, NEW d \in Range(accepted'[r])
        PROVE  d[1] = r /\ d[2] =< life[r] /\ d[3] =< calls'[r]
    <3>1. CASE d \in Range(accepted[r])
      BY <1>2, <1>5, <1>6, <3>1
    <3>2. CASE r = t /\ d = e
      BY <1>2, <1>5, <3>2
    <3> QED
      BY <1>4, <3>1, <3>2
  <2> QED
    BY <1>5, <2>1 DEF CallsInv
<1>9. LaneInv'
  <2>1. ASSUME NEW l \in 1..MaxLanes
        PROVE  Ordered(lanes'[l])
    <3>1. Ordered(lanes[l])
      BY DEF EntriesInv, LaneInv
    <3>2. CASE l = o
      BY <1>2, <1>3, <1>7, <3>1, <3>2, OrderedAppend
    <3> QED
      BY <1>3, <3>1, <3>2
  <2>2. ASSUME NEW l \in 1..MaxLanes, NEW x \in Range(lanes'[l])
        PROVE  x \in Range(lanes[l]) \/ (l = o /\ x = e)
    BY <1>3
  <2>3. ASSUME NEW l \in 1..MaxLanes, NEW x \in Range(lanes'[l])
        PROVE  /\ x \in Range(accepted'[x[1]])
               /\ x[2] = life[x[1]] => lane[x[1]] = l
    <3>1. CASE x \in Range(lanes[l])
      <4>1. x[1] \in Threads /\ x \in Range(accepted[x[1]])
        BY <3>1, LaneFacts
      <4> QED
        BY <1>4, <3>1, <4>1 DEF EntriesInv, LaneInv
    <3>2. CASE l = o /\ x = e
      BY <1>1, <1>2, <1>4, <3>2
    <3> QED
      BY <2>2, <3>1, <3>2
  <2>4. ASSUME NEW l \in 1..MaxLanes, NEW x \in Range(lanes'[l]),
               NEW m \in 1..MaxLanes, NEW d \in Range(lanes'[m]), OfOneLife(d, x)
        PROVE  m = l
    <3>1. CASE x \in Range(lanes[l]) /\ d \in Range(lanes[m])
      BY <2>4, <3>1 DEF EntriesInv, LaneInv
    <3>2. CASE x \in Range(lanes[l]) /\ m = o /\ d = e
      BY <1>7, <2>4, <3>2 DEF OfOneLife
    <3>3. CASE l = o /\ x = e /\ d \in Range(lanes[m])
      BY <1>7, <2>4, <3>3
    <3> QED
      BY <2>2, <3>1, <3>2, <3>3
  <2> QED
    BY <1>5, <2>1, <2>3, <2>4 DEF LaneInv
<1>10. ASSUME NEW r \in Threads, NEW x \in Range(accepted[r]), Ahead(x)
       PROVE  Ahead(x)'
  <2>1. OfOneLife(e, x) => x[3] < e[3]
    BY <1>6 DEF OfOneLife
  <2> QED
    BY <1>3, <1>10, <2>1 DEF Ahead
<1>11. HeldInv'
  <2>0. PICK x : x = item
    OBVIOUS
  <2>1. ASSUME caller = "found"
        PROVE  x \in Range(accepted'[x[1]]) /\ Ahead(x)'
    <3>1. x[1] \in Threads /\ x \in Range(accepted[x[1]]) /\ Ahead(x)
      BY <2>0, <2>1 DEF EntriesInv, HeldInv, TypeOK, EntryType
    <3>2. x \in Range(accepted'[x[1]])
      BY <1>4, <3>1
    <3>3. Ahead(x)'
      BY <1>10, <3>1
    <3> QED
      BY <3>2, <3>3
  <2> QED
    BY <1>5, <2>0, <2>1 DEF HeldInv, Ahead
<1>12. FileInv'
  <2>1. ASSUME NEW r \in Threads, NEW x \in Range(file[r])
        PROVE  x \in Range(accepted'[r]) /\ Ahead(x)'
    <3>1. x \in Range(accepted[r]) /\ Ahead(x)
      BY DEF EntriesInv, FileInv
    <3> QED
      BY <1>4, <1>10, <3>1
  <2> QED
    BY <1>5, <2>1 DEF EntriesInv, FileInv, Ahead
<1>13. KeptInv'
  <2>1. ASSUME NEW r \in Threads, NEW x \in Range(accepted'[r])
        PROVE  Waits(x)' \/ Held(x) \/ x \in Range(file[r])
    <3>1. CASE x = e
      BY <1>2, <1>3, <3>1 DEF Waits
    <3>2. CASE x \in Range(accepted[r])
      <4>1. Waits(x) => Waits(x)'
        BY <1>3 DEF Waits
      <4> QED
        BY <3>2, <4>1 DEF EntriesInv, KeptInv
    <3> QED
      BY <1>4, <3>1, <3>2
  <2> QED
    BY <1>5, <2>1 DEF KeptInv, Held
<1> QED
  BY <1>8, <1>9, <1>11, <1>12, <1>13 DEF EntriesInv

(* try_dequeue: what is taken was called before what stays.                *)
LEMMA FindKept ==
    ASSUME TypeOK, EntriesInv, Looks, Find
    PROVE  EntriesInv'
<1>1. PICK o \in 1..MaxLanes :
         /\ lanes[o] \in Seq(EntryType) /\ lanes[o] # <<>>
         /\ item' = Head(lanes[o]) /\ item' \in EntryType
         /\ lanes' = [lanes EXCEPT ![o] = Tail(@)]
         /\ caller \in {"asked", "finds"} /\ caller' = "found"
         /\ lane' = lane
  BY FindTypes
<1>2. PICK x : x = Head(lanes[o])
  OBVIOUS
<1>3. /\ lanes'[o] = Tail(lanes[o]) /\ Range(lanes[o]) = Range(lanes'[o]) \cup {x}
      /\ \A l \in 1..MaxLanes : l # o => lanes'[l] = lanes[l]
  BY <1>1, <1>2, TakeFacts DEF TypeOK
<1>4. /\ Ordered(lanes'[o])
      /\ \A d \in Range(lanes'[o]) : OfOneLife(d, x) => x[3] < d[3]
  BY <1>1, <1>2, <1>3, OrderedTail DEF EntriesInv, LaneInv
<1>5. /\ file' = file /\ accepted' = accepted /\ calls' = calls /\ life' = life
  BY DEF Looks, loggerVars, Find, FindNothing
<1>6. ASSUME NEW l \in 1..MaxLanes, NEW d \in Range(lanes'[l])
      PROVE  d \in Range(lanes[l])
  BY <1>3
<1>7. x \in Range(lanes[o]) /\ x[1] \in Threads /\ x \in Range(accepted[x[1]])
  BY <1>3, LaneFacts
<1>8. CallsInv'
  BY <1>5 DEF EntriesInv, CallsInv
<1>9. LaneInv'
  <2>1. ASSUME NEW l \in 1..MaxLanes
        PROVE  Ordered(lanes'[l])
    BY <1>3, <1>4 DEF EntriesInv, LaneInv
  <2> QED
    BY <1>1, <1>5, <1>6, <2>1 DEF EntriesInv, LaneInv
<1>10. ASSUME NEW y, Ahead(y)
       PROVE  Ahead(y)'
  BY <1>6, <1>10 DEF Ahead
<1>11. Ahead(x)'
  <2>1. ASSUME NEW l \in 1..MaxLanes, NEW d \in Range(lanes'[l]), OfOneLife(d, x)
        PROVE  x[3] < d[3]
    <3>1. l = o
      BY <1>6, <1>7, <2>1 DEF EntriesInv, LaneInv
    <3> QED
      BY <1>4, <2>1, <3>1
  <2> QED
    BY <2>1 DEF Ahead
<1>12. HeldInv'
  BY <1>1, <1>2, <1>5, <1>7, <1>11 DEF HeldInv, Ahead
<1>13. FileInv'
  <2>1. ASSUME NEW t \in Threads, NEW e \in Range(file[t])
        PROVE  e \in Range(accepted[t]) /\ Ahead(e)' /\ (OfOneLife(x, e) => e[3] < x[3])
    <3>1. e \in Range(accepted[t]) /\ Ahead(e)
      BY DEF EntriesInv, FileInv
    <3>2. OfOneLife(x, e) => e[3] < x[3]
      BY <1>7, <3>1 DEF Ahead
    <3> QED
      BY <1>10, <3>1, <3>2
  <2> QED
    BY <1>1, <1>2, <1>5, <2>1 DEF EntriesInv, FileInv, Ahead
<1>14. KeptInv'
  <2>1. ASSUME NEW t \in Threads, NEW e \in Range(accepted[t])
        PROVE  Waits(e)' \/ e = x \/ e \in Range(file[t])
    <3>1. Waits(e) => Waits(e)' \/ e = x
      BY <1>3 DEF Waits
    <3>2. ~Held(e)
      BY <1>1 DEF Held
    <3> QED
      BY <3>1, <3>2 DEF EntriesInv, KeptInv
  <2> QED
    BY <1>1, <1>2, <1>5, <2>1 DEF KeptInv, Held
<1> QED
  BY <1>8, <1>9, <1>12, <1>13, <1>14 DEF EntriesInv

(* workerLoop and shutdown() write the entry behind all of its life that   *)
(* is in the file.                                                         *)
LEMMA WriteKept ==
    ASSUME TypeOK, EntriesInv, writeEntry
    PROVE  EntriesInv'
<1>1. PICK x : x = item
  OBVIOUS
<1>2. PICK t : t = x[1]
  OBVIOUS
<1>3. /\ caller = "found" /\ x \in EntryType /\ t \in Threads
      /\ file' = [file EXCEPT ![t] = Append(@, x)]
      /\ caller' = "idle" /\ lanes' = lanes /\ lane' = lane
      /\ accepted' = accepted /\ calls' = calls /\ life' = life
  BY <1>1, <1>2 DEF writeEntry, Return, TypeOK, EntryType
<1>4. /\ file[t] \in Seq(EntryType) /\ file'[t] = Append(file[t], x)
      /\ Range(file'[t]) = Range(file[t]) \cup {x}
      /\ \A r \in Threads : r # t => file'[r] = file[r]
  BY <1>3, AppendFacts DEF TypeOK
<1>5. x \in Range(accepted[t]) /\ Ahead(x)
  BY <1>1, <1>2, <1>3 DEF EntriesInv, HeldInv
<1>6. CallsInv' /\ LaneInv'
  BY <1>3 DEF EntriesInv, CallsInv, LaneInv
<1>7. HeldInv'
  BY <1>3 DEF HeldInv
<1>8. FileInv'
  <2>1. \A r \in Threads : \A e \in Range(file[r]) :
           e \in Range(accepted[r]) /\ Ahead(e) /\ (OfOneLife(x, e) => e[3] < x[3])
    BY <1>1, <1>3 DEF EntriesInv, FileInv
  <2>2. \A d \in Range(file[t]) : OfOneLife(d, x) => d[3] < x[3]
    BY <1>3, <2>1 DEF OfOneLife
  <2>3. Ordered(file'[t])
    BY <1>3, <1>4, <2>2, OrderedAppend DEF EntriesInv, FileInv
  <2>4. ASSUME NEW r \in Threads, NEW e \in Range(file'[r])
        PROVE  e \in Range(accepted[r]) /\ Ahead(e)
    BY <1>4, <1>5, <2>1
  <2>5. \A r \in Threads : Ordered(file'[r])
    BY <1>4, <2>3 DEF EntriesInv, FileInv
  <2> QED
    BY <1>3, <2>4, <2>5 DEF FileInv, Ahead
<1>9. KeptInv'
  <2>1. ASSUME NEW r \in Threads, NEW e \in Range(accepted[r])
        PROVE  Waits(e) \/ e \in Range(file'[r])
    <3>1. CASE e = x
      <4>1. e[1] = r
        BY DEF EntriesInv, CallsInv
      <4> QED
        BY <1>2, <1>4, <3>1, <4>1
    <3>2. CASE e # x
      BY <1>1, <1>4, <3>2 DEF EntriesInv, KeptInv, Held
    <3> QED
      BY <3>1, <3>2
  <2> QED
    BY <1>3, <2>1 DEF KeptInv, Waits
<1> QED
  BY <1>6, <1>7, <1>8, <1>9 DEF EntriesInv

-----------------------------------------------------------------------------
(* shutdown().                                                             *)

(* Once try_dequeue, called by main, saw nothing in the queue, all that    *)
(* was accepted is in the file.                                            *)
LEMMA EmptyMeansWritten ==
    ASSUME EntriesInv, DrainInv, caller # "found",
           \A l \in 1..MaxLanes : lanes[l] = <<>>
    PROVE  WrittenInv
<1>0. Range(<<>>) = {}
  <2>1. <<>> \in Seq(EntryType)
    BY EmptySeq
  <2> QED
    BY <2>1, EmptyFacts
<1>1. \A l \in 1..MaxLanes : Range(lanes[l]) = {}
  BY <1>0
<1> QED
  BY <1>1 DEF EntriesInv, KeptInv, Waits, Held, DrainInv, WrittenInv

(* The file only grows.                                                    *)
LEMMA FileGrows ==
    ASSUME TypeOK, [Next]_vars
    PROVE  /\ \A t \in Threads : Range(file[t]) \subseteq Range(file'[t])
           /\ \A t \in Threads : Range(accepted[t]) \subseteq Range(accepted'[t])
<1>1. CASE writeEntry
  <2>1. item \in EntryType /\ item[1] \in Threads
    BY <1>1 DEF writeEntry, TypeOK, EntryType
  <2>2. /\ \A t \in Threads : file[t] \in Seq(EntryType)
        /\ \A t \in Threads : file'[t] = file[t] \/ file'[t] = Append(file[t], item)
        /\ accepted' = accepted
    BY <1>1, <2>1 DEF writeEntry, TypeOK
  <2>3. PICK x \in EntryType : x = item
    BY <2>1
  <2>4. ASSUME NEW t \in Threads
        PROVE  Range(file[t]) \subseteq Range(file'[t])
    <3>1. Range(Append(file[t], x)) = Range(file[t]) \cup {x}
      BY <2>2, AppendFacts
    <3> QED
      BY <2>2, <2>3, <3>1
  <2> QED
    BY <2>2, <2>4
<1>2. ASSUME NEW t \in Threads, Accepted(t)
      PROVE  /\ \A r \in Threads : Range(accepted[r]) \subseteq Range(accepted'[r])
             /\ file' = file
  <2>0. PICK e : e = <<t, life[t], calls[t] + 1>>
    OBVIOUS
  <2>1. e \in EntryType /\ accepted' = [accepted EXCEPT ![t] = Append(@, e)]
    BY <1>2, <2>0, AcceptedTypes
  <2>2. /\ \A r \in Threads : accepted[r] \in Seq(EntryType)
        /\ \A r \in Threads : accepted'[r] = accepted[r] \/ accepted'[r] = Append(accepted[r], e)
    BY <2>1 DEF TypeOK
  <2>3. ASSUME NEW r \in Threads
        PROVE  Range(accepted[r]) \subseteq Range(accepted'[r])
    <3>1. Range(Append(accepted[r], e)) = Range(accepted[r]) \cup {e}
      BY <2>1, <2>2, AppendFacts
    <3> QED
      BY <2>2, <3>1
  <2> QED
    BY <1>2, <2>3 DEF Accepted
<1>3. \/ file' = file /\ accepted' = accepted
      \/ writeEntry
      \/ \E t \in Threads : Accepted(t)
  BY DEF Next, Consuming, Closing, log, Dropped, NotifyOne, FirstCall, ThreadExits, Looks,
     WorkerLoop, WaitFor, WaitEnds, NotifyAll, drain, CloseFile, shutdown, vars, loggerVars
<1> QED
  BY <1>1, <1>2, <1>3

(* shutdown() stops the worker, waits for it and then writes what is left  *)
(* until the queue is empty; who logs meanwhile may or may not be written. *)
LEMMA DrainKept ==
    ASSUME TypeOK, EntriesInv, DrainInv, [Next]_vars
    PROVE  DrainInv'
<1>1. WrittenInv /\ before' = before => WrittenInv'
  BY FileGrows DEF WrittenInv
<1>2. ASSUME before' = before, running' = running, main' = main, worker' = worker,
             caller' = caller \/ (main = "drain" /\ caller' # "asked" /\ caller' # "empty")
      PROVE  DrainInv'
  BY <1>1, <1>2, FileGrows DEF DrainInv
<1>3. ASSUME NEW t \in Threads, log(t) \/ FirstCall(t) \/ ThreadExits(t)
      PROVE  DrainInv'
  <2>1. CASE NotifyOne(t)
    <3>1. /\ before' = before /\ running' = running /\ main' = main /\ caller' = caller
          /\ worker' = "over" <=> worker = "over"
      BY <2>1 DEF NotifyOne, Notify, queue
    <3> QED
      BY <1>1, <3>1, FileGrows DEF DrainInv
  <2>2. CASE Accepted(t) \/ Dropped(t) \/ FirstCall(t) \/ ThreadExits(t)
    BY <1>2, <2>2 DEF Accepted, Dropped, FirstCall, ThreadExits, Put, Join, Leave, queue,
       loggerVars
  <2> QED
    BY <1>3, <2>1, <2>2 DEF log
<1>4. CASE Looks
  <2>1. /\ before' = before /\ running' = running /\ main' = main /\ worker' = worker
        /\ caller # "idle" /\ caller' \in {"found", "empty"}
        /\ caller' = "empty" => caller = "asked"
    BY <1>4 DEF Looks, Find, FindNothing, loggerVars
  <2> QED
    BY <1>1, <2>1, FileGrows DEF DrainInv
<1>5. CASE WorkerLoop \/ WaitFor \/ WaitEnds
  <2>1. /\ before' = before /\ running' = running /\ main' = main
        /\ worker \in {"loop", "waiting"}
        /\ worker' = "over" => caller = "idle" /\ caller' = caller
    BY <1>5 DEF WorkerLoop, WaitFor, WaitEnds, queue
  <2> QED
    BY <2>1, FileGrows DEF DrainInv, TypeOK
<1>6. CASE writeEntry
  <2>1. /\ before' = before /\ running' = running /\ main' = main /\ worker' = worker
        /\ caller' = "idle"
    BY <1>6 DEF writeEntry, Return
  <2> QED
    BY <1>1, <2>1, FileGrows DEF DrainInv
<1>7. CASE shutdown
  BY <1>7 DEF shutdown, queue, DrainInv, TypeOK
<1>8. CASE NotifyAll
  <2>1. /\ before' = before /\ running' = running /\ caller' = caller
        /\ main = "notify" /\ main' = "join"
        /\ worker' = "over" <=> worker = "over"
    BY <1>8 DEF NotifyAll, Notify, queue
  <2> QED
    BY <2>1, FileGrows DEF DrainInv
<1>9. CASE drain
  <2>1. /\ before' = before /\ running' = running /\ main' = "drain" /\ main # "up"
        /\ worker' = "over" /\ file' = file
        /\ caller = "idle" /\ caller' \in {"asked", "finds"}
        /\ caller' = "asked" => \A l \in 1..MaxLanes : lanes[l] = <<>>
    BY <1>9 DEF drain, Call
  <2>2. caller' = "asked" => WrittenInv
    BY <2>1, EmptyMeansWritten
  <2> QED
    BY <1>1, <2>1, <2>2, FileGrows DEF DrainInv
<1>10. CASE CloseFile
  <2>1. /\ before' = before /\ running' = running /\ main = "drain" /\ main' = "closed"
        /\ worker' = worker /\ caller = "empty" /\ caller' = "idle"
    BY <1>10 DEF CloseFile, Return
  <2> QED
    BY <1>1, <2>1, FileGrows DEF DrainInv
<1>11. CASE UNCHANGED vars
  BY <1>2, <1>11 DEF vars, queue, loggerVars
<1> QED
  BY <1>3, <1>4, <1>5, <1>6, <1>7, <1>8, <1>9, <1>10, <1>11 DEF Next, Consuming, Closing

-----------------------------------------------------------------------------
(* The theorems.                                                           *)

(* RtcLogger::init: nothing is logged yet.                                 *)
LEMMA InitInv == Init => IInv
<1> SUFFICES ASSUME Init
             PROVE  IInv
  OBVIOUS
<1>1. Range(<<>>) = {} /\ Len(<<>>) = 0
  <2>1. <<>> \in Seq(EntryType)
    BY EmptySeq
  <2> QED
    BY <2>1, EmptyFacts
<1>2. /\ \A l \in 1..MaxLanes : lanes[l] = <<>>
      /\ \A t \in Threads : file[t] = <<>> /\ accepted[t] = <<>> /\ before[t] = {}
      /\ caller = "idle" /\ running /\ main = "up" /\ worker = "loop"
  BY DEF Init, QueueInit
<1>3. Ordered(<<>>)
  BY <1>1 DEF Ordered
<1>4. EntriesInv
  BY <1>1, <1>2, <1>3 DEF EntriesInv, CallsInv, LaneInv, HeldInv, FileInv, KeptInv
<1>5. DrainInv
  BY <1>1, <1>2 DEF DrainInv
<1> QED
  BY <1>4, <1>5, InitTypeOK DEF IInv

(* Every step of the threads, the worker and main keeps it.                *)
LEMMA NextInv == IInv /\ [Next]_vars => IInv'
<1> SUFFICES ASSUME TypeOK, EntriesInv, DrainInv, [Next]_vars
             PROVE  IInv'
  BY DEF IInv
<1>1. EntriesInv'
  BY StillMoves, StillKept, LivesKept, AcceptedKept, FindKept, WriteKept
<1> QED
  BY <1>1, NextTypeOK, DrainKept DEF IInv

(* Where every entry that log() accepted is, whatever thread runs when: in *)
(* a lane, taken by the worker or by shutdown(), or in the file, and each  *)
(* life of a thread in the order of its calls.                             *)
THEOREM LoggerInvariance == Spec => []IInv
<1>1. Init => IInv
  BY InitInv
<1>2. IInv /\ [Next]_vars => IInv'
  BY NextInv
<1> QED
  BY <1>1, <1>2, PTL DEF Spec

(* The file can be read as what happened: each thread's entries in its     *)
(* order, nothing twice and nothing left out in between, and once          *)
(* shutdown() has closed it, all that was logged before shutdown().        *)
THEOREM FileIsTrueHolds == Spec => []FileIsTrue
<1>1. IInv => FileIsTrue
  <2> SUFFICES ASSUME IInv
               PROVE  FileIsTrue
    OBVIOUS
  <2>1. ASSUME NEW t \in Threads, NEW d \in Range(accepted[t]), NEW e \in Range(file[t]),
               OfOneLife(d, e), d[3] < e[3]
        PROVE  d \in Range(file[t])
    <3>1. d \in EntryType /\ e \in EntryType
      BY EmptyFacts DEF IInv, TypeOK
    <3>2. d[3] \in Nat /\ e[3] \in Nat
      BY <3>1 DEF EntryType
    <3>3. ~Waits(d)
      <4>1. Waits(d) => e[3] < d[3]
        BY <2>1 DEF IInv, EntriesInv, FileInv, Ahead, Waits
      <4> QED
        BY <2>1, <3>2, <4>1
    <3>4. ~Held(d)
      <4>1. Held(d) => e[3] < d[3]
        BY <2>1 DEF IInv, EntriesInv, FileInv, Held
      <4> QED
        BY <2>1, <3>2, <4>1
    <3> QED
      BY <3>3, <3>4 DEF IInv, EntriesInv, KeptInv
  <2>2. ASSUME NEW t \in Threads
        PROVE  /\ Range(file[t]) \subseteq Range(accepted[t])
               /\ \A i, j \in DOMAIN file[t] :
                     (i < j /\ OfOneLife(file[t][i], file[t][j])) =>
                         file[t][i][3] < file[t][j][3]
    <3>1. DOMAIN file[t] = 1..Len(file[t])
      BY EmptyFacts DEF IInv, TypeOK
    <3> QED
      BY <3>1 DEF IInv, EntriesInv, FileInv, Ordered
  <2>3. FileIsInOrder
    BY <2>1, <2>2 DEF FileIsInOrder
  <2>4. ShutdownWritesAll
    BY DEF IInv, DrainInv, WrittenInv, ShutdownWritesAll
  <2> QED
    BY <2>3, <2>4 DEF FileIsTrue
<1> QED
  BY <1>1, LoggerInvariance, PTL
=============================================================================
