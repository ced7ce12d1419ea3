--------------------------- MODULE LogQueueProofs ---------------------------
(***************************************************************************)
(* The lock-free queue is the queue EntryQueue describes, for any number   *)
(* of threads, blocks, calls and exits.  What has to be known for it is    *)
(* who holds which sub-queue, that a sub-queue without a holder is found   *)
(* before a new one is added (so that there never are more of them than    *)
(* threads), that the indexes count what was published and not yet         *)
(* claimed, and what the consumer's scan has seen.                         *)
(***************************************************************************)
EXTENDS LogQueue, SequenceTheorems, FiniteSetTheorems, TLAPS

-----------------------------------------------------------------------------
(* The invariant.                                                          *)

(* What an actor may be at while it works on its sub-queue.                *)
Working ==
    {"enqueue", "pool", "malloc", "place", "publish", "load", "ref", "refcas",
     "next", "swing", "got", "unref", "readd", "link", "addcas", "undo"}

(* Registers, and sub-queues as far as they matter here.                   *)
IsRegisters(r) == DOMAIN r = DOMAIN Idle

IsProducer(q) ==
    /\ "tailIndex" \in DOMAIN q /\ "headIndex" \in DOMAIN q /\ "inactive" \in DOMAIN q
    /\ q.tailIndex \in Nat /\ q.headIndex \in Nat /\ q.inactive \in BOOLEAN

IsList(s) == s \in Seq(Range(s))

TypeOK ==
    /\ DOMAIN local = Actors /\ \A a \in Actors : IsRegisters(local[a])
    /\ IsList(producers) /\ \A p \in 1..Len(producers) : IsProducer(producers[p])
    /\ owner \in [Threads -> Nat]
    /\ lanes \in [1..Cardinality(Threads) -> Seq(Logged)]
    /\ calls \in [Threads -> Nat] /\ exits \in [Threads -> Nat]
    /\ \A t \in Threads : calls[t] =< MaxLogs[t] /\ exits[t] =< MaxExits[t]

(* The sub-queue a thread has, until it lets others take it over.          *)
Held(t) == IF At(t, "exiting") THEN local[t].p ELSE owner[t]

(* A thread that works has a sub-queue, one that looks for one or leaves   *)
(* its own is in no table.                                                 *)
IsPlaced(t) ==
    /\ Held(t) \in 0..Len(producers)
    /\ local[t].pc \in Working =>
          owner[t] # None /\ local[t].p = owner[t] /\ local[t].entry \in Logged
    /\ At(t, "recycle") =>
          /\ owner[t] = None /\ local[t].entry \in Logged
          /\ local[t].at \in 0..Len(producers)
    /\ At(t, "exiting") =>
          owner[t] = None /\ local[t].p # None /\ exits[t] < MaxExits[t]
    /\ local[t].pc \in Working \cup {"idle", "recycle", "exiting"}

ThreadInv == \A t \in Threads : IsPlaced(t)

(* A sub-queue has one holder, or it is marked as left.                    *)
HolderInv ==
    /\ \A s, t \in Threads : (Held(s) = Held(t) /\ Held(s) # None) => s = t
    /\ \A p \in 1..Len(producers) :
          producers[p].inactive <=> \A t \in Threads : Held(t) # p

(* The threads that look for a sub-queue up to k, and those they may find. *)
Seekers(k) == {t \in Threads : At(t, "recycle") /\ local[t].at =< k}
Left(k) == {p \in 1..k : p =< Len(producers) /\ producers[p].inactive}

(* Every seeker that got as far as k finds one, or there is room for one.  *)
RoomInv ==
    \A k \in 0..Len(producers) :
        Cardinality(Seekers(k)) + Len(producers)
            =< Cardinality(Left(k)) + Cardinality(Threads)

(* The indexes of a sub-queue count its lane.                              *)
LaneInv ==
    \A l \in 1..Cardinality(Threads) :
        IF l =< Len(producers)
        THEN producers[l].tailIndex = producers[l].headIndex + Len(lanes[l])
        ELSE lanes[l] = <<>>

(* What the scan has seen so far, and what it must see yet.                *)
ScanInv ==
    LET c == local[Consumer]
    IN  /\ At(Consumer, "idle") => c = Idle
        /\ At(Consumer, "scan") =>
            /\ c.at \in 0..Len(producers) /\ c.seen \in Nat /\ c.size \in Nat
            /\ c.seen = 0 => c.size = 0
            /\ c.seen # 0 => /\ c.size > 0 /\ c.best \in 1..Len(producers)
                             /\ lanes[c.best] # <<>>
            /\ c.seen = 0 /\ c.must => \E p \in 1..c.at : lanes[p] # <<>>
            /\ c.must \in BOOLEAN

QueueInv == TypeOK /\ ThreadInv /\ HolderInv /\ RoomInv /\ LaneInv /\ ScanInv

-----------------------------------------------------------------------------
(* Lists and records.                                                      *)

With(s, i, e) == [s EXCEPT ![i] = e]

(* A list with another element is a list, and so is one that grew.         *)
LEMMA ListFacts ==
    ASSUME NEW s, IsList(s)
    PROVE  Len(s) \in Nat /\ DOMAIN s = 1..Len(s)
BY LenProperties DEF IsList

(* One with another element is one of that length.                         *)
LEMMA ListExcept ==
    ASSUME NEW s, IsList(s), NEW i \in 1..Len(s), NEW e
    PROVE  /\ IsList(With(s, i, e)) /\ Len(With(s, i, e)) = Len(s)
           /\ With(s, i, e)[i] = e
           /\ \A j \in 1..Len(s) : j # i => With(s, i, e)[j] = s[j]
<1> DEFINE S == Range(s) \cup {e}
<1>1. s \in Seq(S) /\ e \in S
  BY SeqMonotonic DEF IsList
<1>2. /\ [s EXCEPT ![i] = e] \in Seq(S) /\ Len([s EXCEPT ![i] = e]) = Len(s)
      /\ \A j \in 1..Len(s) : [s EXCEPT ![i] = e][j] = IF j = i THEN e ELSE s[j]
  BY <1>1, ExceptSeq
<1> QED
  BY <1>2, SeqOfRange DEF IsList, With

(* So is one that grew, with the new element last.                         *)
LEMMA ListAppend ==
    ASSUME NEW s, IsList(s), NEW e, NEW n, n = Append(s, e)
    PROVE  /\ IsList(n) /\ Len(n) = Len(s) + 1
           /\ \A j \in 1..Len(s) : n[j] = s[j]
           /\ n[Len(s) + 1] = e
<1> DEFINE S == Range(s) \cup {e}
<1>1. s \in Seq(S) /\ e \in S
  BY SeqMonotonic DEF IsList
<1>2. /\ Append(s, e) \in Seq(S) /\ Len(Append(s, e)) = Len(s) + 1
      /\ \A j \in 1..Len(s) : Append(s, e)[j] = s[j]
      /\ Append(s, e)[Len(s) + 1] = e
  BY <1>1, AppendProperties
<1> QED
  BY <1>2, SeqOfRange DEF IsList

(* The fields of the registers.                                            *)
LEMMA Registers ==
    ASSUME NEW r, IsRegisters(r)
    PROVE  /\ "pc" \in DOMAIN r /\ "p" \in DOMAIN r /\ "entry" \in DOMAIN r
           /\ "block" \in DOMAIN r /\ "at" \in DOMAIN r /\ "next" \in DOMAIN r
           /\ "refs" \in DOMAIN r /\ "must" \in DOMAIN r /\ "best" \in DOMAIN r
           /\ "size" \in DOMAIN r /\ "seen" \in DOMAIN r
BY DEF IsRegisters, Idle

-----------------------------------------------------------------------------
(* Steps that nobody but their actor sees.                                 *)

(* Of the registers only a's change.                                       *)
Only(a) ==
    /\ DOMAIN local' = Actors /\ IsRegisters(local'[a])
    /\ \A b \in Actors \ {a} : local'[b] = local[b]

(* What matters of the sub-queues does not change.                         *)
SameFace(q, r) ==
    /\ IsProducer(r) /\ r.tailIndex = q.tailIndex /\ r.headIndex = q.headIndex
    /\ r.inactive = q.inactive

SameFaces ==
    /\ IsList(producers') /\ Len(producers') = Len(producers)
    /\ \A p \in 1..Len(producers) : SameFace(producers[p], producers'[p])

Quiet == SameFaces /\ UNCHANGED <<owner, lanes, item, calls, exits>>

(* The sub-queues are as they were.                                        *)
LEMMA FacesUnchanged ==
    ASSUME TypeOK, UNCHANGED producers
    PROVE  SameFaces
BY DEF TypeOK, SameFaces, SameFace

(* One sub-queue is replaced, the others stay.                             *)
LEMMA OneProducer ==
    ASSUME TypeOK, NEW p \in 1..Len(producers), NEW q,
           producers' = [producers EXCEPT ![p] = q]
    PROVE  /\ IsList(producers') /\ Len(producers') = Len(producers)
           /\ producers'[p] = q
           /\ \A j \in 1..Len(producers) : j # p => producers'[j] = producers[j]
<1>1. IsList(producers)
  BY DEF TypeOK
<1>2. producers' = With(producers, p, q)
  BY DEF With
<1>3. IsList(With(producers, p, q)) /\ Len(With(producers, p, q)) = Len(producers)
  BY <1>1, ListExcept, ZenonT(60)
<1>4. With(producers, p, q)[p] = q
  BY <1>1, ListExcept
<1>5. \A j \in 1..Len(producers) : j # p => With(producers, p, q)[j] = producers[j]
  BY <1>1, ListExcept
<1> QED
  BY <1>2, <1>3, <1>4, <1>5

(* Replacing one by one that looks the same changes no face.               *)
LEMMA FaceKept ==
    ASSUME TypeOK, NEW p \in 1..Len(producers), NEW q, SameFace(producers[p], q),
           producers' = [producers EXCEPT ![p] = q]
    PROVE  SameFaces
<1>1. /\ IsList(producers') /\ Len(producers') = Len(producers)
      /\ producers'[p] = q
      /\ \A j \in 1..Len(producers) : j # p => producers'[j] = producers[j]
  BY OneProducer
<1>2. \A j \in 1..Len(producers) : SameFace(producers[j], producers[j])
  BY DEF TypeOK, SameFace
<1> QED
  BY <1>1, <1>2 DEF SameFaces

(* The index of blocks of a sub-queue is not part of its face.             *)
LEMMA InsertedFace ==
    ASSUME NEW q, IsProducer(q), NEW i PROVE SameFace(q, Inserted(q, i))
BY DEF IsProducer, SameFace, Inserted

(* A larger index does not show either.                                    *)
LEMMA GrownFace == ASSUME NEW q, IsProducer(q) PROVE SameFace(q, Grown(q))
BY DEF IsProducer, SameFace, Grown

(* Nor does one step back in it.                                           *)
LEMMA RewoundFace == ASSUME NEW q, IsProducer(q) PROVE SameFace(q, Rewound(q))
BY DEF IsProducer, SameFace, Rewound

(* A quiet step keeps all of the invariant that is not about registers.    *)
LEMMA QuietType ==
    ASSUME TypeOK, Quiet, NEW a \in Actors, Only(a)
    PROVE  TypeOK'
<1>1. /\ DOMAIN local' = Actors /\ \A b \in Actors : IsRegisters(local'[b])
  BY DEF TypeOK, Only
<1>2. IsList(producers') /\ \A p \in 1..Len(producers') : IsProducer(producers'[p])
  BY DEF Quiet, SameFaces, SameFace
<1>3. UNCHANGED <<owner, lanes, calls, exits>>
  BY DEF Quiet
<1> QED
  BY <1>1, <1>2, <1>3 DEF TypeOK, Logged

(* The indexes still count the lanes.                                      *)
LEMMA QuietLanes ==
    ASSUME TypeOK, LaneInv, Quiet
    PROVE  LaneInv'
<1>1. /\ Len(producers') = Len(producers) /\ lanes' = lanes
      /\ \A p \in 1..Len(producers) : /\ producers'[p].tailIndex = producers[p].tailIndex
                                      /\ producers'[p].headIndex = producers[p].headIndex
  BY DEF Quiet, SameFaces, SameFace
<1>2. Len(producers) \in Nat
  BY ListFacts DEF TypeOK
<1> QED
  BY <1>1, <1>2 DEF LaneInv

(* The consumer is none of the threads.                                    *)
LEMMA ActorFacts ==
    /\ IsFiniteSet(Threads) /\ Cardinality(Threads) \in Nat
    /\ Consumer \in Actors /\ Consumer \notin Threads
    /\ \A t \in Threads : t \in Actors /\ t # Consumer
BY ThreadsAreFinite, FS_CardinalityType DEF Actors, Consumer

(* A thread goes on with its work, or gives up.                            *)
WorksOn(t) ==
    /\ local[t].pc \in Working
    /\ \/ At(t, "idle")'
       \/ /\ local'[t].pc \in Working
          /\ local'[t].p = local[t].p /\ local'[t].entry = local[t].entry

(* As long as threads only work, nothing about who holds what changes.     *)
LEMMA HoldersKept ==
    ASSUME TypeOK, ThreadInv, HolderInv, RoomInv,
           UNCHANGED <<owner, exits>>, Len(producers') = Len(producers),
           \A p \in 1..Len(producers) : producers'[p].inactive = producers[p].inactive,
           \A t \in Threads : local'[t] = local[t] \/ WorksOn(t)
    PROVE  ThreadInv' /\ HolderInv' /\ RoomInv'
<1>w. "exiting" \notin Working /\ "recycle" \notin Working /\ "idle" \notin Working
  BY DEF Working
<1>1. ASSUME NEW t \in Threads
      PROVE  /\ Held(t)' = Held(t)
             /\ At(t, "recycle")' <=> At(t, "recycle")
             /\ At(t, "recycle") => local'[t] = local[t]
  <2>1. CASE local'[t] = local[t]
    BY <2>1 DEF Held, At
  <2>2. CASE WorksOn(t)
    <3>1. local[t].pc # "exiting" /\ local[t].pc # "recycle"
      BY <1>w, <2>2 DEF WorksOn
    <3>2. local'[t].pc # "exiting" /\ local'[t].pc # "recycle"
      BY <1>w, <2>2 DEF WorksOn, At
    <3> QED
      BY <3>1, <3>2 DEF Held, At
  <2> QED
    BY <2>1, <2>2
<1>2. ThreadInv'
  <2> SUFFICES ASSUME NEW t \in Threads
               PROVE  /\ Held(t)' \in 0..Len(producers)
                      /\ local'[t].pc \in Working =>
                            /\ owner[t] # None /\ local'[t].p = owner[t]
                            /\ local'[t].entry \in Logged
                      /\ At(t, "recycle")' =>
                            /\ owner[t] = None /\ local'[t].entry \in Logged
                            /\ local'[t].at \in 0..Len(producers)
                      /\ At(t, "exiting")' => /\ owner[t] = None /\ local'[t].p # None
                                             /\ exits[t] < MaxExits[t]
                      /\ local'[t].pc \in Working \cup {"idle", "recycle", "exiting"}
    BY DEF ThreadInv, IsPlaced, Logged
  <2>1. Held(t)' \in 0..Len(producers)
    BY <1>1 DEF ThreadInv, IsPlaced
  <2>2. CASE local'[t] = local[t]
    BY <2>1, <2>2 DEF ThreadInv, IsPlaced, At
  <2>3. CASE WorksOn(t)
    <3>1. owner[t] # None /\ local[t].p = owner[t] /\ local[t].entry \in Logged
      BY <2>3 DEF WorksOn, ThreadInv, IsPlaced
    <3>2. local'[t].pc # "exiting" /\ local'[t].pc # "recycle"
      BY <1>w, <2>3 DEF WorksOn, At
    <3>3. local'[t].pc = "idle" \/ (local'[t].pc \in Working /\ local'[t].p = owner[t]
                                     /\ local'[t].entry \in Logged)
      BY <2>3, <3>1 DEF WorksOn, At
    <3> QED
      BY <1>w, <2>1, <3>1, <3>2, <3>3 DEF At
  <2> QED
    BY <2>2, <2>3
<1>3. HolderInv'
  BY <1>1 DEF HolderInv
<1>4. RoomInv'
  <2>1. ASSUME NEW k \in 0..Len(producers)
        PROVE  Seekers(k)' = Seekers(k) /\ Left(k)' = Left(k)
    <3>1. Seekers(k)' = Seekers(k)
      BY <1>1 DEF Seekers
    <3>2. Left(k)' = Left(k)
      BY DEF Left
    <3> QED
      BY <3>1, <3>2
  <2> QED
    BY <2>1 DEF RoomInv
<1> QED
  BY <1>2, <1>3, <1>4

(* The consumer's scan does not mind more entries or more sub-queues.      *)
LEMMA ScanKept ==
    ASSUME TypeOK, ScanInv, local'[Consumer] = local[Consumer],
           Len(producers') \in Nat, Len(producers') >= Len(producers),
           \A l \in 1..Len(producers) : lanes[l] # <<>> => lanes'[l] # <<>>
    PROVE  ScanInv'
<1>1. Len(producers) \in Nat
  BY ListFacts DEF TypeOK
<1> QED
  BY <1>1 DEF ScanInv, At

(* What the consumer is told depends on its registers alone.               *)
LEMMA AnswerKept ==
    ASSUME local'[Consumer] = local[Consumer]
    PROVE  Answer' = Answer
BY DEF Answer

(* What EntryQueue's caller sees.                                          *)
Unseen == UNCHANGED <<lanes, owner, Answer, item>>

(* A thread's work is quiet.                                               *)
LEMMA ThreadQuiet ==
    ASSUME QueueInv, Quiet, NEW t \in Threads, Only(t), WorksOn(t)
    PROVE  QueueInv' /\ Unseen
<1>1. /\ UNCHANGED <<owner, lanes, item, exits>> /\ Len(producers') = Len(producers)
      /\ \A p \in 1..Len(producers) : producers'[p].inactive = producers[p].inactive
  BY DEF Quiet, SameFaces, SameFace
<1>2. t \in Actors /\ local'[Consumer] = local[Consumer]
  BY ActorFacts DEF Only
<1>3. \A s \in Threads : local'[s] = local[s] \/ WorksOn(s)
  BY ActorFacts DEF Only
<1>4. Len(producers) \in Nat
  BY ListFacts DEF QueueInv, TypeOK
<1>5. TypeOK' /\ LaneInv'
  BY <1>2, QuietType, QuietLanes DEF QueueInv
<1>6. ThreadInv' /\ HolderInv' /\ RoomInv'
  BY <1>1, <1>3, HoldersKept DEF QueueInv
<1>7. ScanInv'
  BY <1>1, <1>2, <1>4, ScanKept DEF QueueInv
<1>8. Unseen
  BY <1>1, <1>2, AnswerKept DEF Unseen
<1> QED
  BY <1>5, <1>6, <1>7, <1>8 DEF QueueInv

(* So is what the consumer does after it claimed an entry.                 *)
LEMMA ConsumerQuiet ==
    ASSUME QueueInv, Quiet, Only(Consumer), Answer' = Answer,
           local'[Consumer].pc # "scan", local'[Consumer].pc # "idle"
    PROVE  QueueInv' /\ Unseen
<1>1. /\ UNCHANGED <<owner, lanes, item, exits>> /\ Len(producers') = Len(producers)
      /\ \A p \in 1..Len(producers) : producers'[p].inactive = producers[p].inactive
  BY DEF Quiet, SameFaces, SameFace
<1>2. \A s \in Threads : local'[s] = local[s]
  BY ActorFacts DEF Only
<1>3. TypeOK' /\ LaneInv'
  BY ActorFacts, QuietType, QuietLanes DEF QueueInv
<1>4. ThreadInv' /\ HolderInv' /\ RoomInv'
  BY <1>1, <1>2, HoldersKept DEF QueueInv
<1>5. ScanInv'
  BY DEF ScanInv, At
<1> QED
  BY <1>1, <1>3, <1>4, <1>5 DEF QueueInv, Unseen

-----------------------------------------------------------------------------
(* Threads at work.                                                        *)

(* Where a thread at work is.                                              *)
LEMMA WorkFacts ==
    ASSUME QueueInv, NEW t \in Threads, local[t].pc \in Working
    PROVE  /\ local[t].p = owner[t] /\ local[t].p \in 1..Len(producers)
           /\ IsProducer(producers[local[t].p]) /\ IsRegisters(local[t])
           /\ local[t].entry \in Logged
<1>1. Len(producers) \in Nat
  BY ListFacts DEF QueueInv, TypeOK
<1>2. local[t].pc # "exiting"
  BY DEF Working
<1>3. owner[t] # None /\ local[t].p = owner[t] /\ local[t].entry \in Logged
      /\ owner[t] \in 0..Len(producers)
  BY <1>2 DEF QueueInv, ThreadInv, IsPlaced, Held, At
<1>4. owner[t] \in 1..Len(producers)
  BY <1>1, <1>3 DEF None
<1> QED
  BY <1>3, <1>4, ActorFacts DEF QueueInv, TypeOK

(* A step that changes the registers of a only.                            *)
LEMMA OnlyOne ==
    ASSUME TypeOK, NEW a \in Actors, NEW r, IsRegisters(r),
           local' = [local EXCEPT ![a] = r]
    PROVE  Only(a) /\ local'[a] = r
BY DEF TypeOK, Only

(* It gives up ...                                                         *)
LEMMA GivesUp ==
    ASSUME QueueInv, NEW t \in Threads, local[t].pc \in Working, Reject(t)
    PROVE  Only(t) /\ WorksOn(t)
<1>1. IsRegisters(Idle) /\ Idle.pc = "idle"
  BY DEF IsRegisters, Idle
<1>2. Only(t) /\ local'[t] = Idle
  BY <1>1, ActorFacts, OnlyOne DEF QueueInv, Reject
<1> QED
  BY <1>1, <1>2 DEF WorksOn, At

(* ... or goes on, with other registers set or not.                        *)
LEMMA GoesOn ==
    ASSUME QueueInv, NEW t \in Threads, local[t].pc \in Working,
           NEW r, IsRegisters(r), r.pc \in Working,
           r.p = local[t].p, r.entry = local[t].entry,
           local' = [local EXCEPT ![t] = r]
    PROVE  Only(t) /\ WorksOn(t)
<1>1. Only(t) /\ local'[t] = r
  BY ActorFacts, OnlyOne DEF QueueInv
<1> QED
  BY <1>1 DEF WorksOn

(* A step to another place of work.                                        *)
LEMMA GotoWorks ==
    ASSUME QueueInv, NEW t \in Threads, local[t].pc \in Working,
           NEW pc \in Working, Goto(t, pc)
    PROVE  Only(t) /\ WorksOn(t)
<1> DEFINE r == [local[t] EXCEPT !.pc = pc]
<1>1. IsRegisters(local[t])
  BY WorkFacts
<1>2. /\ IsRegisters(r) /\ r.pc = pc /\ r.p = local[t].p /\ r.entry = local[t].entry
  BY <1>1, Registers DEF IsRegisters
<1>3. local' = [local EXCEPT ![t] = r]
  BY DEF Goto
<1> HIDE DEF r
<1> QED
  BY <1>2, <1>3, GoesOn

(* The next block: a place in the index, ...                               *)
LEMMA StartBlockStep ==
    ASSUME QueueInv, NEW t \in Threads, StartBlock(t)
    PROVE  QueueInv' /\ Unseen
<1>1. local[t].pc \in Working
  BY DEF StartBlock, At, Working
<1>2. UNCHANGED <<owner, lanes, item, calls, exits>>
  BY DEF StartBlock, ghosts, bounds
<1>3. CASE Mine(t).header = None
  <2>1. Reject(t) /\ UNCHANGED producers
    BY <1>3 DEF StartBlock
  <2>2. Only(t) /\ WorksOn(t)
    BY <1>1, <2>1, GivesUp
  <2>3. Quiet
    BY <1>2, <2>1, FacesUnchanged DEF QueueInv, Quiet
  <2> QED
    BY <2>2, <2>3, ThreadQuiet
<1>4. CASE Mine(t).header # None
  <2>1. /\ Goto(t, "pool")
        /\ producers' = [producers EXCEPT
               ![local[t].p] = Inserted(producers[local[t].p],
                                        producers[local[t].p].tailIndex)]
    BY <1>4 DEF StartBlock
  <2>2. Only(t) /\ WorksOn(t)
    BY <1>1, <2>1, GotoWorks DEF Working
  <2>3. SameFaces
    <3>1. local[t].p \in 1..Len(producers) /\ IsProducer(producers[local[t].p])
      BY <1>1, WorkFacts
    <3>2. SameFace(producers[local[t].p],
                   Inserted(producers[local[t].p], producers[local[t].p].tailIndex))
      BY <3>1, InsertedFace
    <3> QED
      BY <2>1, <3>1, <3>2, FaceKept DEF QueueInv
  <2> QED
    BY <1>2, <2>2, <2>3, ThreadQuiet DEF Quiet
<1> QED
  BY <1>3, <1>4

(* ... in a larger one if need be, ...                                     *)
LEMMA GrowIndexStep ==
    ASSUME QueueInv, NEW t \in Threads, GrowIndex(t)
    PROVE  QueueInv' /\ Unseen
<1>1. local[t].pc \in Working
  BY DEF GrowIndex, At, Working
<1>2. UNCHANGED <<owner, lanes, item, calls, exits>>
  BY DEF GrowIndex, ghosts
<1>3. CASE Reject(t) /\ UNCHANGED producers
  <2>1. Only(t) /\ WorksOn(t)
    BY <1>1, <1>3, GivesUp
  <2>2. Quiet
    BY <1>2, <1>3, FacesUnchanged DEF QueueInv, Quiet
  <2> QED
    BY <2>1, <2>2, ThreadQuiet
<1>4. CASE /\ producers' = [producers EXCEPT ![local[t].p] = Grown(producers[local[t].p])]
           /\ UNCHANGED local
  <2>1. SameFaces
    BY <1>1, <1>4, WorkFacts, GrownFace, FaceKept DEF QueueInv
  <2>2. Only(t) /\ WorksOn(t)
    BY <1>1, <1>4, ActorFacts DEF QueueInv, TypeOK, Only, WorksOn
  <2> QED
    BY <1>2, <2>1, <2>2, ThreadQuiet DEF Quiet
<1> QED
  BY <1>3, <1>4 DEF GrowIndex

(* The registers of a thread at work.                                      *)
LEMMA AtWork ==
    ASSUME QueueInv, NEW t \in Threads
    PROVE  /\ DOMAIN local = Actors /\ t \in Actors /\ t # Consumer /\ IsRegisters(local[t])
           /\ "pc" \in DOMAIN local[t] /\ "p" \in DOMAIN local[t]
           /\ "entry" \in DOMAIN local[t] /\ "block" \in DOMAIN local[t]
           /\ "at" \in DOMAIN local[t] /\ "next" \in DOMAIN local[t]
           /\ "refs" \in DOMAIN local[t]
<1>1. DOMAIN local = Actors /\ t \in Actors /\ t # Consumer /\ IsRegisters(local[t])
  BY ActorFacts DEF QueueInv, TypeOK
<1> QED
  BY <1>1, Registers

(* A step that leaves the sub-queues alone, if it is work, is quiet.       *)
LEMMA WorkIsQuiet ==
    ASSUME QueueInv, NEW t \in Threads, Only(t), WorksOn(t),
           UNCHANGED <<producers, owner, lanes, item, calls, exits>>
    PROVE  QueueInv' /\ Unseen
<1>1. Quiet
  BY FacesUnchanged DEF QueueInv, Quiet
<1> QED
  BY <1>1, ThreadQuiet

(* ... for a block of the pool, ...                                        *)
LEMMA TakeFromPoolStep ==
    ASSUME QueueInv, NEW t \in Threads, TakeFromPool(t)
    PROVE  QueueInv' /\ Unseen
<1>1. local[t].pc \in Working /\ "place" \in Working /\ "load" \in Working
  BY DEF TakeFromPool, At, Working
<1>2. Only(t) /\ WorksOn(t)
  BY <1>1, AtWork DEF TakeFromPool, Goto, Only, WorksOn, IsRegisters
<1> QED
  BY <1>2, WorkIsQuiet DEF TakeFromPool, ghosts, bounds


(* The free list is none of the queue's callers' business ...              *)
LEMMA TryGetStep ==
    ASSUME QueueInv, NEW t \in Threads, try_get(t)
    PROVE  QueueInv' /\ Unseen
<1>w. /\ "load" \in Working /\ "ref" \in Working /\ "refcas" \in Working
      /\ "next" \in Working /\ "swing" \in Working /\ "got" \in Working
      /\ "unref" \in Working /\ "malloc" \in Working /\ "readd" \in Working
      /\ "place" \in Working
  BY DEF Working
<1>1. CASE LoadHead(t)
  <2>1. Only(t) /\ WorksOn(t)
    BY <1>w, <1>1, AtWork DEF LoadHead, At, Only, WorksOn, IsRegisters
  <2> QED
    BY <1>1, <2>1, WorkIsQuiet DEF LoadHead, ghosts, bounds
<1>2. CASE LoadReferences(t)
  <2>1. Only(t) /\ WorksOn(t)
    BY <1>w, <1>2, AtWork DEF LoadReferences, At, Only, WorksOn, IsRegisters
  <2> QED
    BY <1>2, <2>1, WorkIsQuiet DEF LoadReferences, ghosts, bounds
<1>3. CASE TakeReference(t)
  <2>1. Only(t) /\ WorksOn(t)
    BY <1>w, <1>3, AtWork DEF TakeReference, At, Only, WorksOn, IsRegisters
  <2> QED
    BY <1>3, <2>1, WorkIsQuiet DEF TakeReference, ghosts, bounds
<1>4. CASE ReadNext(t)
  <2>1. Only(t) /\ WorksOn(t)
    BY <1>w, <1>4, AtWork DEF ReadNext, At, Only, WorksOn, IsRegisters
  <2> QED
    BY <1>4, <2>1, WorkIsQuiet DEF ReadNext, ghosts, bounds
<1>5. CASE SwingHead(t)
  <2>1. Only(t) /\ WorksOn(t)
    BY <1>w, <1>5, AtWork DEF SwingHead, At, Only, WorksOn, IsRegisters
  <2> QED
    BY <1>5, <2>1, WorkIsQuiet DEF SwingHead, ghosts, bounds
<1>6. CASE GotNode(t)
  <2>1. Only(t) /\ WorksOn(t)
    BY <1>w, <1>6, AtWork DEF GotNode, Goto, At, Only, WorksOn, IsRegisters
  <2> QED
    BY <1>6, <2>1, WorkIsQuiet DEF GotNode, ghosts, bounds
<1>7. CASE LetGo(t)
  <2>1. Only(t) /\ WorksOn(t)
    BY <1>w, <1>7, AtWork DEF LetGo, Continue, At, Only, WorksOn, IsRegisters
  <2> QED
    BY <1>7, <2>1, WorkIsQuiet DEF LetGo, ghosts, bounds
<1> QED
  BY <1>1, <1>2, <1>3, <1>4, <1>5, <1>6, <1>7 DEF try_get

(* ... and so is putting a node back on it.                                *)
LEMMA ReaddStep ==
    ASSUME QueueInv, NEW t \in Threads, add_knowing_refcount_is_zero(t)
    PROVE  QueueInv' /\ Unseen
<1>w. /\ "readd" \in Working /\ "link" \in Working /\ "addcas" \in Working
      /\ "undo" \in Working /\ "malloc" \in Working /\ "ref" \in Working
  BY DEF Working
<1>1. CASE AddLoad(t)
  <2>1. Only(t) /\ WorksOn(t)
    BY <1>w, <1>1, AtWork DEF AddLoad, At, Only, WorksOn, IsRegisters
  <2> QED
    BY <1>1, <2>1, WorkIsQuiet DEF AddLoad, ghosts, bounds
<1>2. CASE AddLink(t)
  <2>1. Only(t) /\ WorksOn(t)
    BY <1>w, <1>2, AtWork DEF AddLink, Goto, At, Only, WorksOn, IsRegisters
  <2> QED
    BY <1>2, <2>1, WorkIsQuiet DEF AddLink, ghosts, bounds
<1>3. CASE AddSwing(t)
  <2>1. Only(t) /\ WorksOn(t)
    BY <1>w, <1>3, AtWork DEF AddSwing, Continue, At, Only, WorksOn, IsRegisters
  <2> QED
    BY <1>3, <2>1, WorkIsQuiet DEF AddSwing, ghosts, bounds
<1>4. CASE AddUndo(t)
  <2>1. Only(t) /\ WorksOn(t)
    BY <1>w, <1>4, AtWork DEF AddUndo, Continue, At, Only, WorksOn, IsRegisters
  <2> QED
    BY <1>4, <2>1, WorkIsQuiet DEF AddUndo, ghosts, bounds
<1> QED
  BY <1>1, <1>2, <1>3, <1>4 DEF add_knowing_refcount_is_zero

(* ... from memory that may not be there, ...                              *)
LEMMA AllocateStep ==
    ASSUME QueueInv, NEW t \in Threads, Allocate(t)
    PROVE  QueueInv' /\ Unseen
<1>1. local[t].pc \in Working /\ "place" \in Working
  BY DEF Allocate, At, Working
<1>2. UNCHANGED <<owner, lanes, item, calls, exits>>
  BY DEF Allocate, ghosts
<1>3. CASE /\ producers' = [producers EXCEPT ![local[t].p] = Rewound(producers[local[t].p])]
           /\ Reject(t)
  <2>1. Only(t) /\ WorksOn(t)
    BY <1>1, <1>3, GivesUp
  <2>2. local[t].p \in 1..Len(producers) /\ IsProducer(producers[local[t].p])
    BY <1>1, WorkFacts
  <2>3. SameFace(producers[local[t].p], Rewound(producers[local[t].p]))
    BY <2>2, RewoundFace
  <2>4. SameFaces
    BY <1>3, <2>2, <2>3, FaceKept DEF QueueInv
  <2> QED
    BY <1>2, <2>1, <2>4, ThreadQuiet DEF Quiet
<1>4. ASSUME NEW b, UNCHANGED producers,
             local' = [local EXCEPT ![t].block = b, ![t].pc = "place"]
      PROVE  QueueInv' /\ Unseen
  <2>1. Only(t) /\ WorksOn(t)
    BY <1>1, <1>4, AtWork DEF Only, WorksOn, IsRegisters
  <2> QED
    BY <1>2, <1>4, <2>1, WorkIsQuiet
<1> QED
  BY <1>3, <1>4 DEF Allocate

(* ... set up in its sub-queue ...                                         *)
LEMMA PlacedFace ==
    ASSUME NEW q, IsProducer(q), NEW e, NEW b
    PROVE  SameFace(q, [q EXCEPT !.entries[e].value = b, !.tailBlock = b])
BY DEF IsProducer, SameFace

(* It is in the index then, and holds the entry.                           *)
LEMMA PlaceBlockStep ==
    ASSUME QueueInv, NEW t \in Threads, PlaceBlock(t)
    PROVE  QueueInv' /\ Unseen
<1>1. local[t].pc \in Working /\ "publish" \in Working
  BY DEF PlaceBlock, At, Working
<1>2. UNCHANGED <<owner, lanes, item, calls, exits>>
  BY DEF PlaceBlock, ghosts, bounds
<1>3. Only(t) /\ WorksOn(t)
  BY <1>1, AtWork DEF PlaceBlock, Only, WorksOn, IsRegisters
<1>4. local[t].p \in 1..Len(producers) /\ IsProducer(producers[local[t].p])
  BY <1>1, WorkFacts
<1> DEFINE q == producers[local[t].p]
           e == q.headers[q.header].index[q.headers[q.header].tail]
           r == [q EXCEPT !.entries[e].value = local[t].block, !.tailBlock = local[t].block]
<1>5. SameFace(q, r)
  BY <1>4, PlacedFace
<1>6. producers' = [producers EXCEPT ![local[t].p] = r]
  BY <1>4 DEF PlaceBlock, Mine
<1> HIDE DEF r
<1>7. SameFaces
  BY <1>4, <1>5, <1>6, FaceKept DEF QueueInv
<1> QED
  BY <1>2, <1>3, <1>7, ThreadQuiet DEF Quiet

(* ... and written to.                                                     *)
LEMMA ConstructStep ==
    ASSUME QueueInv, NEW t \in Threads, Construct(t)
    PROVE  QueueInv' /\ Unseen
<1>1. local[t].pc \in Working /\ "publish" \in Working
  BY DEF Construct, At, Working
<1>2. Only(t) /\ WorksOn(t)
  BY <1>1, AtWork DEF Construct, Goto, Only, WorksOn, IsRegisters
<1> QED
  BY <1>2, WorkIsQuiet DEF Construct, ghosts, bounds

-----------------------------------------------------------------------------
(* The consumer with its claim.                                            *)

(* The consumer's registers.                                               *)
LEMMA ConsumerFacts ==
    ASSUME QueueInv
    PROVE  /\ DOMAIN local = Actors /\ Consumer \in Actors /\ IsRegisters(local[Consumer])
           /\ "pc" \in DOMAIN local[Consumer] /\ "p" \in DOMAIN local[Consumer]
           /\ "entry" \in DOMAIN local[Consumer] /\ "block" \in DOMAIN local[Consumer]
           /\ "at" \in DOMAIN local[Consumer] /\ "next" \in DOMAIN local[Consumer]
           /\ "refs" \in DOMAIN local[Consumer] /\ "must" \in DOMAIN local[Consumer]
           /\ "best" \in DOMAIN local[Consumer] /\ "size" \in DOMAIN local[Consumer]
           /\ "seen" \in DOMAIN local[Consumer]
<1>1. DOMAIN local = Actors /\ Consumer \in Actors /\ IsRegisters(local[Consumer])
  BY ActorFacts DEF QueueInv, TypeOK
<1> QED
  BY <1>1, Registers

(* What it is told is found, until it is back.                             *)
Finding == {"entry", "take", "add", "readd", "link", "addcas", "undo", "dequeued"}

(* Until then its steps are quiet, ...                                     *)
LEMMA FindingIsQuiet ==
    ASSUME QueueInv, Only(Consumer), SameFaces,
           UNCHANGED <<owner, lanes, item, calls, exits>>,
           local[Consumer].pc \in Finding, local'[Consumer].pc \in Finding
    PROVE  QueueInv' /\ Unseen
<1>1. /\ Answer' = Answer
      /\ local'[Consumer].pc # "scan" /\ local'[Consumer].pc # "idle"
  BY DEF Answer, Finding
<1> QED
  BY <1>1, ConsumerQuiet DEF Quiet

(* ... those in which no sub-queue changes first.                          *)
LEMMA FindingStep ==
    ASSUME QueueInv, UNCHANGED <<owner, lanes, item, calls, exits, producers>>,
           Only(Consumer), local[Consumer].pc \in Finding, local'[Consumer].pc \in Finding
    PROVE  QueueInv' /\ Unseen
<1>1. SameFaces
  BY FacesUnchanged DEF QueueInv
<1> QED
  BY <1>1, FindingIsQuiet

(* It looks up the block.                                                  *)
LEMMA FindBlockStep ==
    ASSUME QueueInv, FindBlock
    PROVE  QueueInv' /\ Unseen
<1>1. local[Consumer].pc \in Finding /\ "take" \in Finding
  BY DEF FindBlock, At, Finding
<1>2. Only(Consumer) /\ local'[Consumer].pc \in Finding
  BY <1>1, ConsumerFacts DEF FindBlock, Only, IsRegisters
<1> QED
  BY <1>1, <1>2, FindingStep DEF FindBlock, ghosts, bounds

(* It gives a block back to the free list.                                 *)
LEMMA GiveBackStep ==
    ASSUME QueueInv, add(Consumer) \/ add_knowing_refcount_is_zero(Consumer)
    PROVE  QueueInv' /\ Unseen
<1>w. /\ "readd" \in Finding /\ "link" \in Finding /\ "addcas" \in Finding
      /\ "undo" \in Finding /\ "add" \in Finding /\ "dequeued" \in Finding
  BY DEF Finding
<1>1. CASE add(Consumer)
  <2>1. Only(Consumer) /\ local[Consumer].pc \in Finding /\ local'[Consumer].pc \in Finding
    BY <1>w, <1>1, ConsumerFacts DEF add, Continue, At, Only, IsRegisters
  <2> QED
    BY <1>1, <2>1, FindingStep DEF add, ghosts, bounds
<1>2. CASE AddLoad(Consumer)
  <2>1. Only(Consumer) /\ local[Consumer].pc \in Finding /\ local'[Consumer].pc \in Finding
    BY <1>w, <1>2, ConsumerFacts DEF AddLoad, At, Only, IsRegisters
  <2> QED
    BY <1>2, <2>1, FindingStep DEF AddLoad, ghosts, bounds
<1>3. CASE AddLink(Consumer)
  <2>1. Only(Consumer) /\ local[Consumer].pc \in Finding /\ local'[Consumer].pc \in Finding
    BY <1>w, <1>3, ConsumerFacts DEF AddLink, Goto, At, Only, IsRegisters
  <2> QED
    BY <1>3, <2>1, FindingStep DEF AddLink, ghosts, bounds
<1>4. CASE AddSwing(Consumer)
  <2>1. Only(Consumer) /\ local[Consumer].pc \in Finding /\ local'[Consumer].pc \in Finding
    BY <1>w, <1>4, ConsumerFacts DEF AddSwing, Continue, At, Only, IsRegisters
  <2> QED
    BY <1>4, <2>1, FindingStep DEF AddSwing, ghosts, bounds
<1>5. CASE AddUndo(Consumer)
  <2>1. Only(Consumer) /\ local[Consumer].pc \in Finding /\ local'[Consumer].pc \in Finding
    BY <1>w, <1>5, ConsumerFacts DEF AddUndo, Continue, At, Only, IsRegisters
  <2> QED
    BY <1>5, <2>1, FindingStep DEF AddUndo, ghosts, bounds
<1> QED
  BY <1>1, <1>2, <1>3, <1>4, <1>5 DEF add_knowing_refcount_is_zero

(* A block leaves the index: the sub-queue's face is the same.             *)
LEMMA EmptiedFace ==
    ASSUME NEW q, IsProducer(q), NEW e
    PROVE  SameFace(q, [q EXCEPT !.entries[e].value = None])
BY DEF IsProducer, SameFace

(* It takes the entry out of its place.                                    *)
LEMMA TakeEntryStep ==
    ASSUME QueueInv, TakeEntry
    PROVE  QueueInv' /\ Unseen
<1>1. local[Consumer].pc \in Finding /\ "add" \in Finding /\ "dequeued" \in Finding
  BY DEF TakeEntry, At, Finding
<1>2. UNCHANGED <<owner, lanes, item, calls, exits>>
  BY DEF TakeEntry, ghosts, bounds
<1>3. Only(Consumer) /\ local'[Consumer].pc \in Finding
  BY <1>1, ConsumerFacts DEF TakeEntry, Only, IsRegisters, Idle
<1> DEFINE p == local[Consumer].p
           r == [producers[p] EXCEPT !.entries[local[Consumer].best].value = None]
<1>4. \/ UNCHANGED producers
      \/ producers' = [producers EXCEPT ![p] = r]
  BY DEF TakeEntry
<1>5. CASE UNCHANGED producers
  BY <1>1, <1>2, <1>3, <1>5, FindingStep
<1>6. CASE producers' = [producers EXCEPT ![p] = r]
  <2>1. p \in 1..Len(producers) => SameFaces
    <3> SUFFICES ASSUME p \in 1..Len(producers) PROVE SameFaces
      OBVIOUS
    <3>1. SameFace(producers[p], r)
      BY EmptiedFace DEF QueueInv, TypeOK
    <3> HIDE DEF r, p
    <3> QED
      BY <1>6, <3>1, FaceKept DEF QueueInv
  <2>2. p \notin 1..Len(producers) => SameFaces
    <3> SUFFICES ASSUME p \notin 1..Len(producers) PROVE UNCHANGED producers
      BY FacesUnchanged DEF QueueInv
    <3>1. DOMAIN producers = 1..Len(producers) /\ producers = [i \in DOMAIN producers |-> producers[i]]
      BY ListFacts DEF QueueInv, TypeOK, IsList
    <3> HIDE DEF r, p
    <3> QED
      BY <1>6, <3>1
  <2> QED
    BY <1>1, <1>2, <1>3, <2>1, <2>2, FindingIsQuiet
<1> QED
  BY <1>4, <1>5, <1>6

-----------------------------------------------------------------------------
(* The consumer's call, its claim and its return.                          *)

(* What a step of the consumer that leaves sub-queues and lanes keeps.     *)
LEMMA ConsumerKeeps ==
    ASSUME QueueInv, Only(Consumer),
           UNCHANGED <<producers, owner, lanes, calls, exits>>
    PROVE  TypeOK' /\ ThreadInv' /\ HolderInv' /\ RoomInv' /\ LaneInv'
<1>1. \A s \in Threads : local'[s] = local[s]
  BY ActorFacts DEF Only
<1>2. TypeOK'
  <2>1. DOMAIN local' = Actors /\ \A a \in Actors : IsRegisters(local'[a])
    BY DEF QueueInv, TypeOK, Only
  <2> QED
    BY <2>1 DEF QueueInv, TypeOK, Logged
<1>3. ThreadInv' /\ HolderInv' /\ RoomInv'
  BY <1>1, HoldersKept DEF QueueInv
<1>4. LaneInv'
  BY DEF QueueInv, LaneInv
<1> QED
  BY <1>2, <1>3, <1>4

(* There never are more sub-queues than threads, and each has its lane.    *)
LEMMA LaneFacts ==
    ASSUME QueueInv
    PROVE  /\ Len(producers) \in Nat /\ Len(producers) =< Cardinality(Threads)
           /\ Cardinality(Threads) \in Nat
           /\ \A l \in 1..Cardinality(Threads) :
                 /\ lanes[l] \in Seq(Logged)
                 /\ l > Len(producers) => lanes[l] = <<>>
           /\ \A p \in 1..Len(producers) :
                 size_approx(producers[p]) = Len(lanes[p])
<1>1. Len(producers) \in Nat /\ Cardinality(Threads) \in Nat /\ IsFiniteSet(Threads)
  BY ListFacts, ActorFacts DEF QueueInv, TypeOK
<1>2. Len(producers) =< Cardinality(Threads)
  <2>1. Left(0) = {}
    BY DEF Left
  <2>2. Cardinality(Left(0)) = 0
    BY <2>1, FS_EmptySet
  <2>3. Seekers(0) \subseteq Threads
    BY DEF Seekers
  <2>4. Cardinality(Seekers(0)) \in Nat
    BY <1>1, <2>3, FS_Subset, FS_CardinalityType
  <2>5. Cardinality(Seekers(0)) + Len(producers) =< Cardinality(Left(0)) + Cardinality(Threads)
    BY <1>1 DEF QueueInv, RoomInv
  <2> QED
    BY <1>1, <2>2, <2>4, <2>5
<1>3. \A l \in 1..Cardinality(Threads) : lanes[l] \in Seq(Logged)
  BY DEF QueueInv, TypeOK
<1>4. \A l \in 1..Cardinality(Threads) : l > Len(producers) => lanes[l] = <<>>
  BY <1>1 DEF QueueInv, LaneInv
<1>5. ASSUME NEW p \in 1..Len(producers)
      PROVE  size_approx(producers[p]) = Len(lanes[p])
  <2>1. p \in 1..Cardinality(Threads)
    BY <1>1, <1>2
  <2>2. /\ producers[p].tailIndex \in Nat /\ producers[p].headIndex \in Nat
        /\ producers[p].tailIndex = producers[p].headIndex + Len(lanes[p])
    BY <1>1, <2>1 DEF QueueInv, TypeOK, IsProducer, LaneInv
  <2>3. Len(lanes[p]) \in Nat
    BY <1>3, <2>1, LenProperties
  <2> QED
    BY <2>2, <2>3 DEF size_approx
<1> QED
  BY <1>1, <1>2, <1>3, <1>4, <1>5

(* It is called: must is whether some lane has an entry.                   *)
LEMMA TryDequeueStep ==
    ASSUME QueueInv, TryDequeue
    PROVE  QueueInv' /\ Queue!Call
<1>1. /\ local[Consumer] = Idle /\ Len(producers) \in Nat
      /\ UNCHANGED <<producers, owner, lanes, item, calls, exits>>
  BY LaneFacts DEF QueueInv, ScanInv, TryDequeue, ghosts, bounds
<1> DEFINE some == \E p \in 1..Len(producers) : size_approx(producers[p]) > 0
<1>2. local' = [local EXCEPT ![Consumer].at = Len(producers), ![Consumer].pc = "scan",
                             ![Consumer].must = some]
  BY DEF TryDequeue
<1>3. some \in BOOLEAN
  OBVIOUS
<1>4. some <=> \E l \in 1..Cardinality(Threads) : lanes[l] # <<>>
  <2>1. \A p \in 1..Len(producers) : p \in 1..Cardinality(Threads)
    BY LaneFacts
  <2>2. \A l \in 1..Cardinality(Threads) : Len(lanes[l]) > 0 <=> lanes[l] # <<>>
    BY LaneFacts, EmptySeq, LenProperties
  <2>3. \A p \in 1..Len(producers) : size_approx(producers[p]) > 0 <=> lanes[p] # <<>>
    BY <2>1, <2>2, LaneFacts
  <2>4. \A l \in 1..Cardinality(Threads) : lanes[l] # <<>> => l \in 1..Len(producers)
    BY LaneFacts
  <2> QED
    BY <2>1, <2>3, <2>4
<1>5. some => \E p \in 1..Len(producers) : lanes[p] # <<>>
  BY <1>4, LaneFacts
<1> HIDE DEF some
<1>6. /\ Only(Consumer)
      /\ local'[Consumer].pc = "scan" /\ local'[Consumer].at = Len(producers)
      /\ local'[Consumer].must = some /\ local'[Consumer].seen = 0 /\ local'[Consumer].size = 0
  BY <1>1, <1>2, ConsumerFacts DEF Only, IsRegisters, Idle
<1>7. ScanInv'
  BY <1>1, <1>3, <1>5, <1>6 DEF ScanInv, At
<1>8. Answer = "idle" /\ Answer' = IF some THEN "finds" ELSE "asked"
  BY <1>1, <1>6 DEF Answer, Idle
<1>9. Queue!Call
  BY <1>1, <1>4, <1>8 DEF Queue!Call
<1> QED
  BY <1>1, <1>6, <1>7, <1>9, ConsumerKeeps DEF QueueInv

(* It returns, and the entry is forgotten.                                 *)
LEMMA ReturnStep ==
    ASSUME QueueInv, Return
    PROVE  QueueInv' /\ Queue!Return
<1>1. /\ Only(Consumer) /\ local'[Consumer] = Idle
      /\ UNCHANGED <<producers, owner, lanes, calls, exits>>
  BY ConsumerFacts DEF Return, Only, IsRegisters, bounds
<1>2. ScanInv'
  BY <1>1 DEF ScanInv, At, Idle
<1>3. Answer \in {"found", "empty"} /\ Answer' = "idle"
  BY <1>1 DEF Return, Answer, Idle
<1>4. Queue!Return
  BY <1>1, <1>3 DEF Return, Queue!Return, NoEntry, Queue!NoEntry
<1> QED
  BY <1>1, <1>2, <1>4, ConsumerKeeps DEF QueueInv

(* The scan remembers a sub-queue with entries, if it saw one, and has not *)
(* passed the last one with entries, if there were some at the call.       *)
LEMMA ScanStep ==
    ASSUME QueueInv, Scan
    PROVE  QueueInv' /\ Unseen
<1> DEFINE c == local[Consumer]
           d == local'[Consumer]
           n == size_approx(producers[c.at])
<1>1. UNCHANGED <<producers, owner, lanes, item, calls, exits>>
  BY DEF Scan, ghosts, bounds
<1>2. /\ c.at \in 0..Len(producers) /\ c.seen \in Nat /\ c.size \in Nat
      /\ c.seen = 0 => c.size = 0
      /\ c.seen # 0 => /\ c.size > 0 /\ c.best \in 1..Len(producers)
                       /\ lanes[c.best] # <<>>
      /\ c.seen = 0 /\ c.must => \E p \in 1..c.at : lanes[p] # <<>>
      /\ c.must \in BOOLEAN
  BY DEF QueueInv, ScanInv, Scan
<1>3. c.at \in 1..Len(producers) /\ Len(producers) \in Nat
  BY <1>2, LaneFacts DEF Scan, None
<1>4. /\ n = Len(lanes[c.at]) /\ n \in Nat
      /\ n > 0 <=> lanes[c.at] # <<>>
  <2>1. c.at \in 1..Cardinality(Threads)
    BY <1>3, LaneFacts
  <2> QED
    BY <1>3, <2>1, LaneFacts, EmptySeq, LenProperties
<1> HIDE DEF n
<1>5. /\ Only(Consumer)
      /\ d.pc = "scan" /\ d.must = c.must /\ d.at = c.at - 1
      /\ d.seen = IF n > 0 THEN c.seen + 1 ELSE c.seen
      /\ d.best = IF n > c.size THEN c.at ELSE c.best
      /\ d.size = IF n > c.size THEN n ELSE c.size
  BY ConsumerFacts DEF Scan, n, Only, IsRegisters, At
<1> HIDE DEF c, d
<1>6. d.seen = 0 /\ d.must => \E p \in 1..d.at : lanes[p] # <<>>
  <2> SUFFICES ASSUME d.seen = 0, d.must PROVE \E p \in 1..d.at : lanes[p] # <<>>
    OBVIOUS
  <2>1. c.seen = 0 /\ lanes[c.at] = <<>>
    BY <1>2, <1>4, <1>5
  <2>2. PICK p \in 1..c.at : lanes[p] # <<>>
    BY <1>2, <1>5, <2>1
  <2>3. p # c.at
    BY <2>1, <2>2
  <2> QED
    BY <1>3, <1>5, <2>2, <2>3
<1>7. /\ d.at \in 0..Len(producers) /\ d.seen \in Nat /\ d.size \in Nat
      /\ d.seen = 0 => d.size = 0
      /\ d.must \in BOOLEAN
  BY <1>2, <1>3, <1>4, <1>5
<1>8. d.seen # 0 => d.size > 0 /\ d.best \in 1..Len(producers) /\ lanes[d.best] # <<>>
  BY <1>2, <1>3, <1>4, <1>5
<1>9. ScanInv'
  BY <1>1, <1>5, <1>6, <1>7, <1>8 DEF ScanInv, At, d
<1>10. Answer' = Answer
  BY <1>5 DEF Answer, Scan, At, c, d
<1> QED
  BY <1>1, <1>5, <1>9, <1>10, ConsumerKeeps DEF QueueInv, Unseen

(* Nothing is claimed only if there was nothing at the call ...            *)
LEMMA ClaimNothingStep ==
    ASSUME QueueInv, Claim, local[Consumer].seen = 0
    PROVE  QueueInv' /\ Queue!FindNothing
<1>1. /\ UNCHANGED <<producers, owner, lanes, item, calls, exits>>
      /\ local' = [local EXCEPT ![Consumer] = [Idle EXCEPT !.pc = "empty"]]
  BY DEF Claim, ghosts, bounds
<1>2. Only(Consumer) /\ local'[Consumer].pc = "empty"
  BY <1>1, ConsumerFacts DEF Only, IsRegisters, Idle
<1>3. local[Consumer].must = FALSE
  <2>1. local[Consumer].at = 0
    BY DEF Claim, None
  <2>2. local[Consumer].must \in BOOLEAN
        /\ (local[Consumer].must => \E p \in 1..0 : lanes[p] # <<>>)
    BY <2>1 DEF QueueInv, ScanInv, Claim
  <2> QED
    BY <2>2
<1>4. Answer = "asked" /\ Answer' = "empty"
  BY <1>2, <1>3 DEF Answer, Claim, At
<1>5. ScanInv'
  BY <1>2 DEF ScanInv, At
<1> QED
  BY <1>1, <1>2, <1>4, <1>5, ConsumerKeeps DEF QueueInv, Queue!FindNothing

(* ... and the claim is for the oldest entry of a lane.                    *)
LEMMA ClaimStep ==
    ASSUME QueueInv, Claim, local[Consumer].seen # 0
    PROVE  QueueInv' /\ Queue!Find
<1> DEFINE c == local[Consumer]
           b == c.best
           q == [producers[b] EXCEPT !.headIndex = producers[b].headIndex + 1]
<1>1. /\ UNCHANGED <<owner, calls, exits>>
      /\ producers' = [producers EXCEPT ![b] = q]
      /\ lanes' = [lanes EXCEPT ![b] = Tail(lanes[b])]
      /\ item' = Head(lanes[b])
      /\ local' = [local EXCEPT ![Consumer] = [Idle EXCEPT
             !.p = b, !.at = producers[b].headIndex,
             !.best = producers[b].header, !.pc = "entry"]]
  BY DEF Claim, bounds
<1>2. b \in 1..Len(producers) /\ lanes[b] # <<>> /\ At(Consumer, "scan")
  BY DEF QueueInv, ScanInv, Claim
<1>3. /\ b \in 1..Cardinality(Threads) /\ lanes[b] \in Seq(Logged)
      /\ Len(producers) \in Nat /\ Cardinality(Threads) \in Nat
  BY <1>2, LaneFacts
<1>4. IsProducer(producers[b]) /\ producers[b].tailIndex = producers[b].headIndex + Len(lanes[b])
  BY <1>2, <1>3 DEF QueueInv, TypeOK, LaneInv
<1>5. /\ IsProducer(q) /\ q.tailIndex = producers[b].tailIndex
      /\ q.headIndex = producers[b].headIndex + 1 /\ q.inactive = producers[b].inactive
  BY <1>4 DEF IsProducer
<1>6. /\ Only(Consumer) /\ local'[Consumer].pc = "entry"
  BY <1>1, ConsumerFacts DEF Only, IsRegisters, Idle
<1> HIDE DEF q, b
<1>7. /\ IsList(producers') /\ Len(producers') = Len(producers) /\ producers'[b] = q
      /\ \A j \in 1..Len(producers) : j # b => producers'[j] = producers[j]
  BY <1>1, <1>2, OneProducer DEF QueueInv
<1>8. /\ Tail(lanes[b]) \in Seq(Logged) /\ Len(Tail(lanes[b])) = Len(lanes[b]) - 1
      /\ Len(lanes[b]) \in Nat
  BY <1>2, <1>3, HeadTailProperties, LenProperties
<1>9. /\ lanes' \in [1..Cardinality(Threads) -> Seq(Logged)]
      /\ lanes'[b] = Tail(lanes[b])
      /\ \A l \in 1..Cardinality(Threads) : l # b => lanes'[l] = lanes[l]
  BY <1>1, <1>3, <1>8 DEF QueueInv, TypeOK
<1>10. TypeOK'
  <2>1. \A p \in 1..Len(producers') : IsProducer(producers'[p])
    BY <1>5, <1>7 DEF QueueInv, TypeOK
  <2>2. DOMAIN local' = Actors /\ \A a \in Actors : IsRegisters(local'[a])
    BY <1>6 DEF QueueInv, TypeOK, Only
  <2>3. /\ owner' \in [Threads -> Nat]
        /\ calls' \in [Threads -> Nat] /\ exits' \in [Threads -> Nat]
        /\ \A t \in Threads : calls'[t] =< MaxLogs[t] /\ exits'[t] =< MaxExits[t]
    BY <1>1 DEF QueueInv, TypeOK
  <2> QED
    BY <1>7, <1>9, <2>1, <2>2, <2>3 DEF TypeOK, Logged
<1>11. ThreadInv' /\ HolderInv' /\ RoomInv'
  <2>1. \A s \in Threads : local'[s] = local[s]
    BY <1>6, ActorFacts DEF Only
  <2>2. \A p \in 1..Len(producers) : producers'[p].inactive = producers[p].inactive
    BY <1>5, <1>7
  <2> QED
    BY <1>1, <1>7, <2>1, <2>2, HoldersKept DEF QueueInv
<1>12. LaneInv'
  <2> SUFFICES ASSUME NEW l \in 1..Cardinality(Threads)
               PROVE  IF l =< Len(producers)
                      THEN producers'[l].tailIndex = producers'[l].headIndex + Len(lanes'[l])
                      ELSE lanes'[l] = <<>>
    BY <1>7 DEF LaneInv
  <2>1. CASE l = b
    <3>1. producers[b].headIndex \in Nat
      BY <1>4 DEF IsProducer
    <3>2. b =< Len(producers)
      BY <1>2, <1>3
    <3>3. /\ producers'[b].tailIndex = producers[b].headIndex + Len(lanes[b])
          /\ producers'[b].headIndex = producers[b].headIndex + 1
      BY <1>4, <1>5, <1>7
    <3>4. Len(lanes'[b]) = Len(lanes[b]) - 1
      BY <1>8, <1>9
    <3> DEFINE m == Len(lanes[b])
               m2 == Len(lanes'[b])
               h == producers[b].headIndex
               h2 == producers'[b].headIndex
    <3>5. m \in Nat /\ m2 = m - 1 /\ h \in Nat /\ h2 = h + 1 /\ producers'[b].tailIndex = h + m
      BY <1>8, <3>1, <3>3, <3>4
    <3> HIDE DEF m, m2, h, h2
    <3>6. producers'[b].tailIndex = h2 + m2
      BY <3>5
    <3> QED
      BY <2>1, <3>2, <3>6 DEF h2, m2
  <2>2. CASE l # b
    <3>1. lanes'[l] = lanes[l] /\ (l =< Len(producers) => producers'[l] = producers[l])
      BY <1>3, <1>7, <1>9, <2>2
    <3> QED
      BY <3>1 DEF QueueInv, LaneInv
  <2> QED
    BY <2>1, <2>2
<1>13. ScanInv'
  BY <1>6 DEF ScanInv, At
<1>14. Answer \in {"asked", "finds"} /\ Answer' = "found"
  BY <1>2, <1>6 DEF Answer, At
<1>15. Queue!Find
  BY <1>1, <1>2, <1>3, <1>14 DEF Queue!Find
<1> QED
  BY <1>10, <1>11, <1>12, <1>13, <1>15 DEF QueueInv

-----------------------------------------------------------------------------
(* Threads that look for a sub-queue, and threads that leave theirs.       *)

(* At the end of the list there always is room: every sub-queue that is    *)
(* not left has a holder, and a holder does not look for one.              *)
LEMMA RoomAtTheEnd ==
    ASSUME NEW n \in Nat, NEW S \in SUBSET Threads, NEW L \in SUBSET (1..n),
           NEW held, \A p \in (1..n) \ L : \E t \in Threads \ S : held[t] = p
    PROVE  Cardinality(S) + n =< Cardinality(L) + Cardinality(Threads)
<1> DEFINE A == (1..n) \ L
           H == {t \in Threads \ S : held[t] \in A}
           f == [t \in H |-> held[t]]
<1>1. IsFiniteSet(Threads) /\ IsFiniteSet(1..n) /\ Cardinality(1..n) = n
  BY ThreadsAreFinite, FS_Interval
<1>2. IsFiniteSet(L) /\ IsFiniteSet(S) /\ IsFiniteSet(Threads \ S)
  BY <1>1, FS_Subset, FS_Difference
<1>3. Cardinality(A) = n - Cardinality(L)
  <2>1. (1..n) \cap L = L
    OBVIOUS
  <2>2. Cardinality((1..n) \ L) = Cardinality(1..n) - Cardinality((1..n) \cap L)
    BY <1>1, FS_Difference, Zenon
  <2> QED
    BY <1>1, <2>1, <2>2
<1>4. Cardinality(Threads \ S) = Cardinality(Threads) - Cardinality(S)
  <2>1. Threads \cap S = S
    OBVIOUS
  <2> QED
    BY <1>1, <2>1, FS_Difference
<1>5. IsFiniteSet(H) /\ Cardinality(H) =< Cardinality(Threads \ S)
  <2>1. H \in SUBSET (Threads \ S)
    OBVIOUS
  <2> QED
    BY <1>2, <2>1, FS_Subset
<1>6. Cardinality(A) =< Cardinality(H)
  <2>1. f \in Surjection(H, A)
    BY DEF Surjection
  <2> QED
    BY <1>5, <2>1, FS_Surjection
<1>7. /\ Cardinality(A) \in Int /\ Cardinality(H) \in Nat /\ Cardinality(S) \in Nat
      /\ Cardinality(L) \in Nat /\ Cardinality(Threads) \in Nat
  BY <1>1, <1>2, <1>3, <1>5, FS_CardinalityType
<1> HIDE DEF A, H
<1> QED
  BY <1>3, <1>4, <1>5, <1>6, <1>7

(* Seekers and left sub-queues can be counted.                             *)
LEMMA CanBeCounted ==
    ASSUME NEW n \in Nat, NEW S \in SUBSET Threads, NEW L \in SUBSET (1..n)
    PROVE  /\ IsFiniteSet(S) /\ Cardinality(S) \in Nat
           /\ IsFiniteSet(L) /\ Cardinality(L) \in Nat
           /\ Cardinality(Threads) \in Nat
<1>1. IsFiniteSet(1..n)
  BY FS_Interval
<1> QED
  BY <1>1, ThreadsAreFinite, FS_Subset, FS_CardinalityType

(* A step of t leaves the others where they are.                           *)
LEMMA OthersPlaced ==
    ASSUME QueueInv, NEW t \in Threads, Only(t), NEW s \in Threads, s # t,
           Len(producers') \in Nat, Len(producers') >= Len(producers),
           owner'[s] = owner[s], exits'[s] = exits[s]
    PROVE  IsPlaced(s)' /\ Held(s)' = Held(s) /\ local'[s] = local[s]
<1>1. local'[s] = local[s]
  BY ActorFacts DEF Only
<1>2. IsPlaced(s) /\ Len(producers) \in Nat
  BY LaneFacts DEF QueueInv, ThreadInv
<1> QED
  BY <1>1, <1>2 DEF IsPlaced, Held, At, Logged

(* A thread's step keeps the registers, and what the consumer is told.     *)
LEMMA ThreadStep ==
    ASSUME QueueInv, NEW t \in Threads, Only(t), IsList(producers'),
           Len(producers') >= Len(producers),
           \A l \in 1..Len(producers) : lanes[l] # <<>> => lanes'[l] # <<>>
    PROVE  /\ DOMAIN local' = Actors /\ \A a \in Actors : IsRegisters(local'[a])
           /\ ScanInv' /\ Answer' = Answer
<1>1. local'[Consumer] = local[Consumer]
  BY ActorFacts DEF Only
<1>2. \A a \in Actors : IsRegisters(local'[a])
  BY DEF QueueInv, TypeOK, Only
<1>3. Len(producers') \in Nat
  BY LenProperties DEF IsList
<1> QED
  BY <1>1, <1>2, <1>3, ScanKept, AnswerKept DEF QueueInv, Only

(* Calls and exits stay within their bounds.                               *)
LEMMA BoundsHold ==
    ASSUME QueueInv, NEW t \in Threads
    PROVE  /\ MaxLogs[t] \in Nat /\ MaxExits[t] \in Nat
           /\ calls[t] \in 0..MaxLogs[t] /\ exits[t] \in 0..MaxExits[t]
<1>1. MaxLogs \in [Threads -> Nat] /\ MaxExits \in [Threads -> Nat]
  BY BoundsAreNat
<1>2. /\ calls \in [Threads -> Nat] /\ exits \in [Threads -> Nat]
      /\ calls[t] =< MaxLogs[t] /\ exits[t] =< MaxExits[t]
  BY DEF QueueInv, TypeOK
<1> QED
  BY <1>1, <1>2

(* A call finds its sub-queue in the table, or looks from the last one on. *)
LEMMA EnqueueStep ==
    ASSUME QueueInv, NEW t \in Threads, Enqueue(t)
    PROVE  QueueInv' /\ Unseen
<1>1. UNCHANGED <<producers, owner, lanes, item, exits>>
  BY DEF Enqueue, ghosts
<1>2. /\ Only(t) /\ At(t, "idle") /\ calls[t] < MaxLogs[t]
      /\ calls' = [calls EXCEPT ![t] = @ + 1]
      /\ local'[t].pc = IF owner[t] # None THEN "enqueue" ELSE "recycle"
      /\ local'[t].p = owner[t] /\ local'[t].at = Len(producers)
      /\ local'[t].entry = <<t, exits[t], calls[t] + 1>>
  BY AtWork DEF Enqueue, Only, IsRegisters, Idle
<1>3. Len(producers) \in Nat
  BY LaneFacts
<1>4. /\ DOMAIN local' = Actors /\ \A a \in Actors : IsRegisters(local'[a])
      /\ ScanInv' /\ Answer' = Answer
  BY <1>1, <1>2, <1>3, ThreadStep DEF QueueInv, TypeOK
<1>5. \A s \in Threads : s # t => IsPlaced(s)' /\ Held(s)' = Held(s) /\ local'[s] = local[s]
  BY <1>1, <1>2, <1>3, OthersPlaced
<1>6. /\ Held(t) = owner[t] /\ Held(t)' = owner[t] /\ owner[t] \in 0..Len(producers)
  BY <1>1, <1>2 DEF QueueInv, ThreadInv, IsPlaced, Held, At
<1>7. local'[t].entry \in Logged
  <2>1. /\ exits[t] \in 0..MaxExits[t] /\ calls[t] + 1 \in 1..MaxLogs[t]
    BY <1>2, BoundsHold
  <2> QED
    BY <1>2, <2>1 DEF Logged
<1>8. TypeOK'
  <2>1. /\ calls' \in [Threads -> Nat] /\ \A s \in Threads : calls'[s] =< MaxLogs[s]
    BY <1>2, BoundsHold DEF QueueInv, TypeOK
  <2> QED
    BY <1>1, <1>4, <2>1 DEF QueueInv, TypeOK, Logged
<1>9. ThreadInv'
  <2>1. IsPlaced(t)'
    BY <1>1, <1>2, <1>3, <1>6, <1>7 DEF IsPlaced, At, Working, Logged
  <2> QED
    BY <1>5, <2>1 DEF ThreadInv
<1>10. HolderInv'
  BY <1>1, <1>5, <1>6 DEF QueueInv, HolderInv
<1>11. RoomInv'
  <2> SUFFICES ASSUME NEW k \in 0..Len(producers)
               PROVE  Cardinality(Seekers(k)') + Len(producers)
                        =< Cardinality(Left(k)') + Cardinality(Threads)
    BY <1>1 DEF RoomInv
  <2>1. CASE k = Len(producers)
    <3> DEFINE held == [s \in Threads |-> Held(s)']
    <3>1. Seekers(k)' \in SUBSET Threads /\ Left(k)' \in SUBSET (1..Len(producers))
      BY <2>1 DEF Seekers, Left
    <3>2. \A p \in (1..Len(producers)) \ Left(k)' : \E s \in Threads : Held(s)' = p
      BY <1>1, <1>3, <1>10, <2>1 DEF HolderInv, Left
    <3>3. \A s \in Seekers(k)' : Held(s)' = 0
      BY <1>9 DEF Seekers, ThreadInv, IsPlaced, Held, At, None
    <3>4. \A p \in (1..Len(producers)) \ Left(k)' : \E s \in Threads \ Seekers(k)' : held[s] = p
      BY <3>2, <3>3
    <3> HIDE DEF held
    <3> QED
      BY <1>3, <3>1, <3>4, RoomAtTheEnd
  <2>2. CASE k # Len(producers)
    <3>1. Seekers(k)' = Seekers(k)
      BY <1>2, <1>3, <1>5, <2>2 DEF Seekers, At
    <3>2. Left(k)' = Left(k)
      BY <1>1 DEF Left
    <3> QED
      BY <3>1, <3>2 DEF QueueInv, RoomInv
  <2> QED
    BY <2>1, <2>2
<1>12. LaneInv'
  BY <1>1 DEF QueueInv, LaneInv
<1> QED
  BY <1>1, <1>4, <1>8, <1>9, <1>10, <1>11, <1>12 DEF QueueInv, Unseen

(* A thread that ends is out of the table first ...                        *)
LEMMA ThreadExitsStep ==
    ASSUME QueueInv, NEW t \in Threads, ThreadExits(t)
    PROVE  QueueInv' /\ Queue!Leave(t)
<1>1. UNCHANGED <<producers, lanes, item, calls, exits>>
  BY DEF ThreadExits, ghosts, bounds
<1>2. /\ Only(t) /\ At(t, "idle") /\ owner[t] # None /\ exits[t] < MaxExits[t]
      /\ owner' = [owner EXCEPT ![t] = None]
      /\ local'[t].pc = "exiting" /\ local'[t].p = owner[t]
  BY AtWork DEF ThreadExits, Only, IsRegisters
<1>3. Len(producers) \in Nat
  BY LaneFacts
<1>4. /\ DOMAIN local' = Actors /\ \A a \in Actors : IsRegisters(local'[a])
      /\ ScanInv' /\ Answer' = Answer
  BY <1>1, <1>2, <1>3, ThreadStep DEF QueueInv, TypeOK
<1>5. /\ owner' \in [Threads -> Nat] /\ owner'[t] = None
      /\ \A s \in Threads : s # t => owner'[s] = owner[s]
  BY <1>2 DEF QueueInv, TypeOK, None
<1>6. \A s \in Threads : s # t => IsPlaced(s)' /\ Held(s)' = Held(s) /\ local'[s] = local[s]
  BY <1>1, <1>2, <1>3, <1>5, OthersPlaced
<1>7. Held(t) = owner[t] /\ Held(t)' = owner[t] /\ owner[t] \in 0..Len(producers)
  BY <1>1, <1>2 DEF QueueInv, ThreadInv, IsPlaced, Held, At
<1>8. TypeOK'
  BY <1>1, <1>4, <1>5 DEF QueueInv, TypeOK, Logged
<1>9. ThreadInv'
  <2>1. IsPlaced(t)'
    BY <1>1, <1>2, <1>5, <1>7 DEF IsPlaced, At, Working
  <2> QED
    BY <1>6, <2>1 DEF ThreadInv
<1>10. HolderInv'
  BY <1>1, <1>6, <1>7 DEF QueueInv, HolderInv
<1>11. RoomInv'
  <2>1. ASSUME NEW k \in 0..Len(producers)
        PROVE  Seekers(k)' = Seekers(k) /\ Left(k)' = Left(k)
    BY <1>1, <1>2, <1>6 DEF Seekers, Left, At
  <2> QED
    BY <1>1, <2>1 DEF QueueInv, RoomInv
<1>12. LaneInv'
  BY <1>1 DEF QueueInv, LaneInv
<1>13. Queue!Leave(t)
  BY <1>1, <1>2, <1>4 DEF Queue!Leave, None
<1> QED
  BY <1>4, <1>8, <1>9, <1>10, <1>11, <1>12, <1>13 DEF QueueInv

(* ... and then its sub-queue is free to be taken over.                    *)
LEMMA LeavesProducerStep ==
    ASSUME QueueInv, NEW t \in Threads, LeavesProducer(t)
    PROVE  QueueInv' /\ Unseen
<1> DEFINE p == local[t].p
           q == [producers[p] EXCEPT !.inactive = TRUE]
<1>1. UNCHANGED <<owner, lanes, item, calls>>
  BY DEF LeavesProducer, ghosts
<1>2. /\ Only(t) /\ At(t, "exiting") /\ local'[t] = Idle
      /\ exits' = [exits EXCEPT ![t] = @ + 1]
      /\ producers' = [producers EXCEPT ![p] = q]
  BY AtWork DEF LeavesProducer, Only, IsRegisters
<1>3. /\ owner[t] = None /\ p # None /\ exits[t] < MaxExits[t]
      /\ Held(t) = p /\ p \in 1..Len(producers) /\ Len(producers) \in Nat
  BY <1>2, LaneFacts DEF QueueInv, ThreadInv, IsPlaced, Held, None
<1>4. Held(t)' = None /\ ~At(t, "recycle")' /\ ~At(t, "recycle")
  BY <1>1, <1>2, <1>3 DEF Held, At, Idle
<1>5. /\ IsProducer(q) /\ q.tailIndex = producers[p].tailIndex
      /\ q.headIndex = producers[p].headIndex /\ q.inactive = TRUE
  BY <1>3 DEF QueueInv, TypeOK, IsProducer
<1> HIDE DEF p, q
<1>6. /\ IsList(producers') /\ Len(producers') = Len(producers) /\ producers'[p] = q
      /\ \A j \in 1..Len(producers) : j # p => producers'[j] = producers[j]
  BY <1>2, <1>3, OneProducer DEF QueueInv
<1>7. /\ DOMAIN local' = Actors /\ \A a \in Actors : IsRegisters(local'[a])
      /\ ScanInv' /\ Answer' = Answer
  <2>1. Len(producers') >= Len(producers) /\ lanes' = lanes
    BY <1>1, <1>3, <1>6
  <2> QED
    BY <1>2, <1>6, <2>1, ThreadStep
<1>8. /\ exits' \in [Threads -> Nat] /\ \A s \in Threads : exits'[s] =< MaxExits[s]
      /\ \A s \in Threads : s # t => exits'[s] = exits[s]
  BY <1>2, <1>3, BoundsHold DEF QueueInv, TypeOK
<1>9. \A s \in Threads : s # t => IsPlaced(s)' /\ Held(s)' = Held(s) /\ local'[s] = local[s]
  BY <1>1, <1>2, <1>3, <1>6, <1>8, OthersPlaced
<1>10. TypeOK'
  <2>1. \A j \in 1..Len(producers') : IsProducer(producers'[j])
    BY <1>5, <1>6 DEF QueueInv, TypeOK
  <2> QED
    BY <1>1, <1>6, <1>7, <1>8, <2>1 DEF QueueInv, TypeOK, Logged
<1>11. ThreadInv'
  <2>1. IsPlaced(t)'
    BY <1>2, <1>3, <1>4, <1>6 DEF IsPlaced, At, Idle, Working, None
  <2> QED
    BY <1>9, <2>1 DEF ThreadInv
<1>12. HolderInv'
  <2>1. \A r, s \in Threads : Held(r)' = Held(s)' /\ Held(r)' # None => r = s
    BY <1>4, <1>9 DEF QueueInv, HolderInv
  <2>2. \A s \in Threads : Held(s)' # p
    BY <1>3, <1>4, <1>9 DEF QueueInv, HolderInv
  <2>3. ASSUME NEW j \in 1..Len(producers), j # p
        PROVE  producers'[j].inactive <=> \A s \in Threads : Held(s)' # j
    <3>1. producers'[j].inactive <=> \A s \in Threads : Held(s) # j
      BY <1>6, <2>3 DEF QueueInv, HolderInv
    <3>2. \A s \in Threads : Held(s)' = j <=> Held(s) = j
      BY <1>3, <1>4, <1>9, <2>3 DEF None
    <3> QED
      BY <3>1, <3>2
  <2> QED
    BY <1>3, <1>5, <1>6, <2>1, <2>2, <2>3 DEF HolderInv
<1>13. RoomInv'
  <2> SUFFICES ASSUME NEW k \in 0..Len(producers)
               PROVE  Cardinality(Seekers(k)') + Len(producers)
                        =< Cardinality(Left(k)') + Cardinality(Threads)
    BY <1>6 DEF RoomInv
  <2>1. Seekers(k)' = Seekers(k)
    BY <1>4, <1>9 DEF Seekers, At
  <2>2. Left(k) \subseteq Left(k)'
    BY <1>5, <1>6 DEF Left
  <2>3. /\ Seekers(k) \in SUBSET Threads
        /\ Left(k) \in SUBSET (1..k) /\ Left(k)' \in SUBSET (1..k)
    BY DEF Seekers, Left
  <2>4. /\ IsFiniteSet(Left(k)') /\ Cardinality(Left(k)) \in Nat /\ Cardinality(Left(k)') \in Nat
        /\ Cardinality(Seekers(k)) \in Nat /\ Cardinality(Threads) \in Nat
    <3>1. k \in Nat
      BY <1>3
    <3>2. /\ Cardinality(Left(k)) \in Nat
          /\ Cardinality(Seekers(k)) \in Nat /\ Cardinality(Threads) \in Nat
      BY <2>3, <3>1, CanBeCounted
    <3>3. IsFiniteSet(Left(k)') /\ Cardinality(Left(k)') \in Nat
      BY <2>3, <3>1, CanBeCounted
    <3> QED
      BY <3>2, <3>3
  <2>5. Cardinality(Left(k)) =< Cardinality(Left(k)')
    BY <2>2, <2>4, FS_Subset
  <2>6. Cardinality(Seekers(k)) + Len(producers) =< Cardinality(Left(k)) + Cardinality(Threads)
    BY DEF QueueInv, RoomInv
  <2> QED
    BY <1>3, <2>1, <2>4, <2>5, <2>6
<1>14. LaneInv'
  <2>1. \A j \in 1..Len(producers) : /\ producers'[j].tailIndex = producers[j].tailIndex
                                     /\ producers'[j].headIndex = producers[j].headIndex
    BY <1>5, <1>6
  <2> QED
    BY <1>1, <1>3, <1>6, <2>1 DEF QueueInv, LaneInv
<1> QED
  BY <1>1, <1>7, <1>10, <1>11, <1>12, <1>13, <1>14 DEF QueueInv, Unseen

(* The entry is in the lane of its thread.                                 *)
LEMMA PublishStep ==
    ASSUME QueueInv, NEW t \in Threads, Publish(t)
    PROVE  QueueInv' /\ \E e \in Logged : Queue!Put(t, e)
<1> DEFINE p == local[t].p
           e == local[t].entry
           q == [producers[p] EXCEPT !.tailIndex = producers[p].tailIndex + 1]
<1>1. /\ UNCHANGED <<owner, item, calls, exits>>
      /\ producers' = [producers EXCEPT ![p] = q]
      /\ lanes' = [lanes EXCEPT ![p] = Append(lanes[p], e)]
  BY DEF Publish, bounds
<1>2. Only(t) /\ local'[t] = Idle /\ local[t].pc = "publish"
  BY AtWork DEF Publish, Only, IsRegisters, At
<1>3. /\ p = owner[t] /\ p \in 1..Len(producers) /\ e \in Logged
      /\ IsProducer(producers[p]) /\ Len(producers) \in Nat
  BY <1>2, WorkFacts, LaneFacts DEF Working
<1>4. p \in 1..Cardinality(Threads) /\ lanes[p] \in Seq(Logged)
  BY <1>3, LaneFacts
<1>5. /\ IsProducer(q) /\ q.tailIndex = producers[p].tailIndex + 1
      /\ q.headIndex = producers[p].headIndex /\ q.inactive = producers[p].inactive
  BY <1>3 DEF IsProducer
<1> HIDE DEF p, q, e
<1>6. /\ IsList(producers') /\ Len(producers') = Len(producers) /\ producers'[p] = q
      /\ \A j \in 1..Len(producers) : j # p => producers'[j] = producers[j]
  BY <1>1, <1>3, OneProducer DEF QueueInv
<1>7. /\ Append(lanes[p], e) \in Seq(Logged) /\ Append(lanes[p], e) # <<>>
      /\ Len(Append(lanes[p], e)) = Len(lanes[p]) + 1 /\ Len(lanes[p]) \in Nat
  BY <1>3, <1>4, AppendProperties, LenProperties
<1>8. /\ lanes' \in [1..Cardinality(Threads) -> Seq(Logged)]
      /\ lanes'[p] = Append(lanes[p], e)
      /\ \A l \in 1..Cardinality(Threads) : l # p => lanes'[l] = lanes[l]
  BY <1>1, <1>4, <1>7 DEF QueueInv, TypeOK
<1>9. /\ DOMAIN local' = Actors /\ \A a \in Actors : IsRegisters(local'[a])
      /\ ScanInv' /\ Answer' = Answer
  <2>1. \A l \in 1..Len(producers) : lanes[l] # <<>> => lanes'[l] # <<>>
    BY <1>7, <1>8, LaneFacts
  <2> QED
    BY <1>2, <1>3, <1>6, <2>1, ThreadStep
<1>10. TypeOK'
  <2>1. \A j \in 1..Len(producers') : IsProducer(producers'[j])
    BY <1>5, <1>6 DEF QueueInv, TypeOK
  <2> QED
    BY <1>1, <1>6, <1>8, <1>9, <2>1 DEF QueueInv, TypeOK, Logged
<1>11. ThreadInv' /\ HolderInv' /\ RoomInv'
  <2>1. WorksOn(t)
    BY <1>2 DEF WorksOn, At, Idle, Working
  <2>2. \A s \in Threads : local'[s] = local[s] \/ WorksOn(s)
    BY <1>2, <2>1, ActorFacts DEF Only
  <2>3. \A j \in 1..Len(producers) : producers'[j].inactive = producers[j].inactive
    BY <1>5, <1>6
  <2> QED
    BY <1>1, <1>6, <2>2, <2>3, HoldersKept DEF QueueInv
<1>12. LaneInv'
  <2> SUFFICES ASSUME NEW l \in 1..Cardinality(Threads)
               PROVE  IF l =< Len(producers)
                      THEN producers'[l].tailIndex = producers'[l].headIndex + Len(lanes'[l])
                      ELSE lanes'[l] = <<>>
    BY <1>6 DEF LaneInv
  <2>1. CASE l = p
    <3>1. producers[p].tailIndex = producers[p].headIndex + Len(lanes[p])
      BY <1>3, <1>4 DEF QueueInv, LaneInv
    <3>2. producers[p].tailIndex \in Nat /\ producers[p].headIndex \in Nat
      BY <1>3 DEF IsProducer
    <3>3. producers'[p].tailIndex = producers[p].tailIndex + 1
          /\ producers'[p].headIndex = producers[p].headIndex
      BY <1>5, <1>6
    <3>4. Len(lanes'[p]) = Len(lanes[p]) + 1
      BY <1>7, <1>8
    <3>5. producers'[p].tailIndex = producers'[p].headIndex + Len(lanes'[p])
      BY <1>7, <3>1, <3>2, <3>3, <3>4
    <3> QED
      BY <1>3, <2>1, <3>5
  <2>2. CASE l # p
    <3>1. lanes'[l] = lanes[l] /\ (l =< Len(producers) => producers'[l] = producers[l])
      BY <1>3, <1>6, <1>8, <2>2
    <3> QED
      BY <3>1 DEF QueueInv, LaneInv
  <2> QED
    BY <2>1, <2>2
<1>13. Queue!Put(t, e)
  BY <1>1, <1>3, <1>9 DEF Queue!Put
<1> QED
  BY <1>3, <1>9, <1>10, <1>11, <1>12, <1>13 DEF QueueInv

(* It looks at the sub-queues one after the other, and passes one that is  *)
(* in use: whoever could find it before still can.                         *)
LEMMA PassesByStep ==
    ASSUME QueueInv, NEW t \in Threads, Recycle(t), ~producers[local[t].at].inactive
    PROVE  QueueInv' /\ Unseen
<1> DEFINE p == local[t].at
<1>1. UNCHANGED <<producers, owner, lanes, item, calls, exits>>
  BY DEF Recycle, ghosts, bounds
<1>2. /\ Only(t) /\ At(t, "recycle") /\ At(t, "recycle")'
      /\ local'[t].at = p - 1 /\ local'[t].entry = local[t].entry
  BY AtWork DEF Recycle, Only, IsRegisters, At
<1>3. /\ owner[t] = None /\ local[t].entry \in Logged /\ p \in 1..Len(producers)
      /\ Len(producers) \in Nat
  BY <1>2, LaneFacts DEF Recycle, QueueInv, ThreadInv, IsPlaced, None
<1>4. /\ DOMAIN local' = Actors /\ \A a \in Actors : IsRegisters(local'[a])
      /\ ScanInv' /\ Answer' = Answer
  BY <1>1, <1>2, <1>3, ThreadStep DEF QueueInv, TypeOK
<1>5. \A s \in Threads : s # t => IsPlaced(s)' /\ Held(s)' = Held(s) /\ local'[s] = local[s]
  BY <1>1, <1>2, <1>3, OthersPlaced
<1>6. Held(t)' = Held(t)
  BY <1>1, <1>2 DEF Held, At
<1>7. TypeOK'
  BY <1>1, <1>4 DEF QueueInv, TypeOK, Logged
<1>8. ThreadInv'
  <2>1. Held(t) \in 0..Len(producers)
    BY DEF QueueInv, ThreadInv, IsPlaced
  <2>2. p - 1 \in 0..Len(producers)
    BY <1>3
  <2>3. IsPlaced(t)'
    BY <1>1, <1>2, <1>3, <1>6, <2>1, <2>2 DEF IsPlaced, At, Working, Logged
  <2> QED
    BY <1>5, <2>3 DEF ThreadInv
<1>9. HolderInv'
  BY <1>1, <1>5, <1>6 DEF QueueInv, HolderInv
<1>10. RoomInv'
  <2> SUFFICES ASSUME NEW k \in 0..Len(producers)
               PROVE  Cardinality(Seekers(k)') + Len(producers)
                        =< Cardinality(Left(k)') + Cardinality(Threads)
    BY <1>1 DEF RoomInv
  <2>1. Left(k)' = Left(k)
    BY <1>1 DEF Left
  <2>2. CASE k # p - 1
    <3>1. Seekers(k)' = Seekers(k)
      BY <1>2, <1>3, <1>5, <2>2 DEF Seekers, At
    <3> QED
      BY <2>1, <3>1 DEF QueueInv, RoomInv
  <2>3. CASE k = p - 1
    <3>1. Seekers(k)' \subseteq Seekers(p)
      <4> SUFFICES ASSUME NEW s \in Threads, At(s, "recycle")', local'[s].at =< k
                   PROVE  At(s, "recycle") /\ local[s].at =< p
        BY DEF Seekers
      <4>1. CASE s = t
        BY <1>2, <1>3, <4>1
      <4>2. CASE s # t
        <5>1. At(s, "recycle") /\ local[s].at =< k
          BY <1>5, <4>2 DEF At
        <5>2. local[s].at \in 0..Len(producers)
          BY <5>1 DEF QueueInv, ThreadInv, IsPlaced
        <5> QED
          BY <1>3, <2>3, <5>1, <5>2
      <4> QED
        BY <4>1, <4>2
    <3>2. Left(k) = Left(p)
      BY <1>3, <2>3 DEF Left
    <3>3. /\ Seekers(p) \in SUBSET Threads /\ Seekers(k)' \in SUBSET Threads
          /\ Left(p) \in SUBSET (1..p) /\ p \in Nat
      BY <1>3 DEF Seekers, Left
    <3>4. /\ IsFiniteSet(Seekers(p)) /\ Cardinality(Seekers(p)) \in Nat
          /\ Cardinality(Left(p)) \in Nat /\ Cardinality(Threads) \in Nat
      BY <3>3, CanBeCounted
    <3>5. Cardinality(Seekers(k)') =< Cardinality(Seekers(p))
      BY <3>1, <3>4, FS_Subset
    <3>6. Cardinality(Seekers(k)') \in Nat
      BY <3>3, CanBeCounted
    <3>7. Cardinality(Seekers(p)) + Len(producers) =< Cardinality(Left(p)) + Cardinality(Threads)
      BY <1>3 DEF QueueInv, RoomInv
    <3> QED
      BY <1>3, <2>1, <3>2, <3>4, <3>5, <3>6, <3>7
  <2> QED
    BY <2>2, <2>3
<1>11. LaneInv'
  BY <1>1 DEF QueueInv, LaneInv
<1> QED
  BY <1>1, <1>4, <1>7, <1>8, <1>9, <1>10, <1>11 DEF QueueInv, Unseen

(* One that was left is taken over, by nobody else.                        *)
LEMMA TakesOverStep ==
    ASSUME QueueInv, NEW t \in Threads, Recycle(t), producers[local[t].at].inactive
    PROVE  QueueInv' /\ Queue!Join(t)
<1> DEFINE p == local[t].at
           q == [producers[p] EXCEPT !.inactive = FALSE]
<1>1. UNCHANGED <<lanes, item, calls, exits>>
  BY DEF Recycle, ghosts, bounds
<1>2. /\ Only(t) /\ At(t, "recycle")
      /\ local'[t].pc = "enqueue" /\ local'[t].p = p /\ local'[t].entry = local[t].entry
      /\ owner' = [owner EXCEPT ![t] = p]
      /\ producers' = [producers EXCEPT ![p] = q]
  BY AtWork DEF Recycle, Owns, Only, IsRegisters
<1>3. /\ owner[t] = None /\ local[t].entry \in Logged /\ p \in 1..Len(producers)
      /\ Len(producers) \in Nat /\ Held(t) = None
  BY <1>2, LaneFacts DEF Recycle, QueueInv, ThreadInv, IsPlaced, Held, At, None
<1>4. \A s \in Threads : Held(s) # p
  BY <1>3 DEF QueueInv, HolderInv
<1>5. /\ IsProducer(q) /\ q.tailIndex = producers[p].tailIndex
      /\ q.headIndex = producers[p].headIndex /\ q.inactive = FALSE
  BY <1>3 DEF QueueInv, TypeOK, IsProducer
<1>inactive. producers[p].inactive
  OBVIOUS
<1> HIDE DEF p, q
<1>6. /\ IsList(producers') /\ Len(producers') = Len(producers) /\ producers'[p] = q
      /\ \A j \in 1..Len(producers) : j # p => producers'[j] = producers[j]
  BY <1>2, <1>3, OneProducer DEF QueueInv
<1>7. /\ DOMAIN local' = Actors /\ \A a \in Actors : IsRegisters(local'[a])
      /\ ScanInv' /\ Answer' = Answer
  <2>1. Len(producers') >= Len(producers) /\ lanes' = lanes
    BY <1>1, <1>3, <1>6
  <2> QED
    BY <1>2, <1>6, <2>1, ThreadStep
<1>8. /\ owner' \in [Threads -> Nat] /\ owner'[t] = p
      /\ \A s \in Threads : s # t => owner'[s] = owner[s]
  BY <1>2, <1>3 DEF QueueInv, TypeOK
<1>9. \A s \in Threads : s # t => IsPlaced(s)' /\ Held(s)' = Held(s) /\ local'[s] = local[s]
  BY <1>1, <1>2, <1>3, <1>6, <1>8, OthersPlaced
<1>10. Held(t)' = p
  BY <1>2, <1>8 DEF Held, At
<1>11. TypeOK'
  <2>1. \A j \in 1..Len(producers') : IsProducer(producers'[j])
    BY <1>5, <1>6 DEF QueueInv, TypeOK
  <2> QED
    BY <1>1, <1>6, <1>7, <1>8, <2>1 DEF QueueInv, TypeOK, Logged
<1>12. ThreadInv'
  <2>1. IsPlaced(t)'
    BY <1>2, <1>3, <1>6, <1>8, <1>10 DEF IsPlaced, At, Working, Logged, None
  <2> QED
    BY <1>9, <2>1 DEF ThreadInv
<1>13. HolderInv'
  <2>1. \A r, s \in Threads : Held(r)' = Held(s)' /\ Held(r)' # None => r = s
    BY <1>4, <1>9, <1>10 DEF QueueInv, HolderInv
  <2>2. ASSUME NEW j \in 1..Len(producers), j # p
        PROVE  producers'[j].inactive <=> \A s \in Threads : Held(s)' # j
    <3>1. producers'[j].inactive <=> \A s \in Threads : Held(s) # j
      BY <1>6, <2>2 DEF QueueInv, HolderInv
    <3>2. \A s \in Threads : Held(s)' = j <=> Held(s) = j
      BY <1>3, <1>9, <1>10, <2>2 DEF None
    <3> QED
      BY <3>1, <3>2
  <2> QED
    BY <1>5, <1>6, <1>10, <2>1, <2>2 DEF HolderInv
<1>14. RoomInv'
  <2> SUFFICES ASSUME NEW k \in 0..Len(producers)
               PROVE  Cardinality(Seekers(k)') + Len(producers)
                        =< Cardinality(Left(k)') + Cardinality(Threads)
    BY <1>6 DEF RoomInv
  <2>1. Cardinality(Seekers(k)) + Len(producers) =< Cardinality(Left(k)) + Cardinality(Threads)
    BY DEF QueueInv, RoomInv
  <2>2. Seekers(k)' = Seekers(k) \ {t} /\ Left(k)' = Left(k) \ {p}
    BY <1>2, <1>5, <1>6, <1>9 DEF Seekers, Left, At
  <2>3. t \in Seekers(k) <=> p \in Left(k)
    BY <1>2, <1>3, <1>inactive DEF Seekers, Left, p
  <2>4. /\ Seekers(k) \in SUBSET Threads /\ Left(k) \in SUBSET (1..k) /\ k \in Nat
    BY <1>3 DEF Seekers, Left
  <2>5. /\ IsFiniteSet(Seekers(k)) /\ Cardinality(Seekers(k)) \in Nat
        /\ IsFiniteSet(Left(k)) /\ Cardinality(Left(k)) \in Nat /\ Cardinality(Threads) \in Nat
    BY <2>4, CanBeCounted
  <2>6. Cardinality(Seekers(k)') =
            IF t \in Seekers(k) THEN Cardinality(Seekers(k)) - 1 ELSE Cardinality(Seekers(k))
    BY <2>2, <2>5, FS_RemoveElement
  <2>7. Cardinality(Left(k)') =
            IF p \in Left(k) THEN Cardinality(Left(k)) - 1 ELSE Cardinality(Left(k))
    BY <2>2, <2>5, FS_RemoveElement
  <2> QED
    BY <1>3, <2>1, <2>3, <2>5, <2>6, <2>7
<1>15. LaneInv'
  <2>1. \A j \in 1..Len(producers) : /\ producers'[j].tailIndex = producers[j].tailIndex
                                     /\ producers'[j].headIndex = producers[j].headIndex
    BY <1>5, <1>6
  <2> QED
    BY <1>1, <1>3, <1>6, <2>1 DEF QueueInv, LaneInv
<1>16. Queue!Join(t)
  <2>1. p \in 1..Cardinality(Threads)
    BY <1>3, LaneFacts
  <2>2. \A s \in Threads : owner[s] # p
    BY <1>3, <1>4 DEF Held, At, QueueInv, ThreadInv, IsPlaced, None
  <2> QED
    BY <1>1, <1>2, <1>3, <1>7, <2>1, <2>2 DEF Queue!Join, None
<1> QED
  BY <1>7, <1>11, <1>12, <1>13, <1>14, <1>15, <1>16 DEF QueueInv

(* With none left and none of its own, a thread adds a sub-queue: there    *)
(* are less of them than threads.                                          *)
LEMMA RoomForOne ==
    ASSUME QueueInv, NEW t \in Threads, At(t, "recycle"), local[t].at = None
    PROVE  Len(producers) + 1 =< Cardinality(Threads)
<1>1. Len(producers) \in Nat /\ IsFiniteSet(Threads) /\ Cardinality(Threads) \in Nat
  BY LaneFacts, ActorFacts
<1>2. t \in Seekers(0) /\ Seekers(0) \subseteq Threads /\ Left(0) = {}
  BY DEF Seekers, Left, None
<1>3. IsFiniteSet(Seekers(0)) /\ Cardinality(Seekers(0)) \in Nat
  BY <1>1, <1>2, FS_Subset, FS_CardinalityType
<1>4. Cardinality(Seekers(0)) # 0
  BY <1>2, <1>3, FS_EmptySet
<1>5. Cardinality(Left(0)) = 0
  BY <1>2, FS_EmptySet
<1>6. Cardinality(Seekers(0)) + Len(producers) =< Cardinality(Left(0)) + Cardinality(Threads)
  BY <1>1 DEF QueueInv, RoomInv
<1> QED
  BY <1>1, <1>3, <1>4, <1>5, <1>6

(* The new one is its own.                                                 *)
LEMMA AddsOneStep ==
    ASSUME QueueInv, NEW t \in Threads, At(t, "recycle"), local[t].at = None,
           NEW indexed, producers' = Append(producers, NewProducer(indexed)),
           Owns(t, Len(producers) + 1), UNCHANGED <<lanes, item, calls, exits>>
    PROVE  QueueInv' /\ Queue!Join(t)
<1> DEFINE n == Len(producers) + 1
           q == NewProducer(indexed)
<1>1. UNCHANGED <<lanes, item, calls, exits>>
  OBVIOUS
<1>2. /\ Only(t) /\ At(t, "recycle")
      /\ local'[t].pc = "enqueue" /\ local'[t].p = n /\ local'[t].entry = local[t].entry
      /\ owner' = [owner EXCEPT ![t] = n]
  BY AtWork DEF Owns, Only, IsRegisters
<1>3. /\ owner[t] = None /\ local[t].entry \in Logged
      /\ Len(producers) \in Nat /\ Held(t) = None
  BY <1>2, LaneFacts DEF QueueInv, ThreadInv, IsPlaced, Held, At, None
<1>4. n \in 1..Cardinality(Threads) /\ n \in Nat
  BY <1>3, RoomForOne, LaneFacts
<1>5. IsProducer(q) /\ q.tailIndex = 0 /\ q.headIndex = 0 /\ q.inactive = FALSE
  BY DEF NewProducer, IsProducer
<1> HIDE DEF q
<1>6. /\ IsList(producers') /\ Len(producers') = n /\ producers'[n] = q
      /\ \A j \in 1..Len(producers) : producers'[j] = producers[j]
  <2>1. IsList(producers) /\ producers' = Append(producers, q)
    BY DEF QueueInv, TypeOK, q
  <2>2. IsList(producers') /\ Len(producers') = n
    BY <2>1, ListAppend
  <2>3. producers'[n] = q
    BY <2>1, ListAppend
  <2>4. \A j \in 1..Len(producers) : producers'[j] = producers[j]
    BY <2>1, ListAppend
  <2> QED
    BY <2>2, <2>3, <2>4
<1>7. n > Len(producers) /\ n - 1 = Len(producers) /\ \A s \in Threads : Held(s) # n
  BY <1>3 DEF QueueInv, ThreadInv, IsPlaced
<1>8. /\ DOMAIN local' = Actors /\ \A a \in Actors : IsRegisters(local'[a])
      /\ ScanInv' /\ Answer' = Answer
  <2>1. Len(producers') >= Len(producers) /\ lanes' = lanes
    BY <1>1, <1>3, <1>6
  <2> QED
    BY <1>2, <1>6, <2>1, ThreadStep
<1>9. /\ owner' \in [Threads -> Nat] /\ owner'[t] = n
      /\ \A s \in Threads : s # t => owner'[s] = owner[s]
  BY <1>2, <1>4 DEF QueueInv, TypeOK
<1>10. \A s \in Threads : s # t => IsPlaced(s)' /\ Held(s)' = Held(s) /\ local'[s] = local[s]
  BY <1>1, <1>2, <1>3, <1>6, <1>9, OthersPlaced
<1>11. Held(t)' = n
  BY <1>2, <1>9 DEF Held, At
<1>12. \A j \in 1..n : j # n => j \in 1..Len(producers)
  BY <1>3
<1>13. TypeOK'
  <2>1. \A j \in 1..Len(producers') : IsProducer(producers'[j])
    BY <1>5, <1>6, <1>12 DEF QueueInv, TypeOK
  <2> QED
    BY <1>1, <1>6, <1>8, <1>9, <2>1 DEF QueueInv, TypeOK, Logged
<1>14. ThreadInv'
  <2>1. IsPlaced(t)'
    BY <1>2, <1>3, <1>4, <1>6, <1>9, <1>11 DEF IsPlaced, At, Working, Logged, None
  <2> QED
    BY <1>10, <2>1 DEF ThreadInv
<1>15. HolderInv'
  <2>1. \A r, s \in Threads : Held(r)' = Held(s)' /\ Held(r)' # None => r = s
    BY <1>7, <1>10, <1>11 DEF QueueInv, HolderInv
  <2>2. ASSUME NEW j \in 1..Len(producers)
        PROVE  producers'[j].inactive <=> \A s \in Threads : Held(s)' # j
    <3>1. producers'[j].inactive <=> \A s \in Threads : Held(s) # j
      BY <1>6 DEF QueueInv, HolderInv
    <3>2. \A s \in Threads : Held(s)' = j <=> Held(s) = j
      BY <1>3, <1>7, <1>10, <1>11 DEF None
    <3> QED
      BY <3>1, <3>2
  <2> QED
    BY <1>5, <1>6, <1>11, <1>12, <2>1, <2>2 DEF HolderInv
<1>16. RoomInv'
  <2> SUFFICES ASSUME NEW k \in 0..n
               PROVE  Cardinality(Seekers(k)') + n =< Cardinality(Left(k)') + Cardinality(Threads)
    BY <1>6 DEF RoomInv
  <2>1. CASE k = n
    <3> DEFINE held == [s \in Threads |-> Held(s)']
    <3>1. Seekers(k)' \in SUBSET Threads /\ Left(k)' \in SUBSET (1..n)
      BY <2>1 DEF Seekers, Left
    <3>2. \A p \in (1..n) \ Left(k)' : \E s \in Threads : Held(s)' = p
      BY <1>6, <1>15, <2>1 DEF HolderInv, Left
    <3>3. \A s \in Seekers(k)' : Held(s)' = 0
      BY <1>14 DEF Seekers, ThreadInv, IsPlaced, Held, At, None
    <3>4. \A p \in (1..n) \ Left(k)' : \E s \in Threads \ Seekers(k)' : held[s] = p
      BY <3>2, <3>3
    <3> HIDE DEF held
    <3> QED
      BY <1>4, <3>1, <3>4, RoomAtTheEnd
  <2>2. CASE k # n
    <3>1. k \in 0..Len(producers)
      BY <1>3, <2>2
    <3>2. Cardinality(Seekers(k)) + Len(producers) =< Cardinality(Left(k)) + Cardinality(Threads)
      BY <3>1 DEF QueueInv, RoomInv
    <3>3. Left(k)' = Left(k)
      BY <1>3, <1>6, <3>1 DEF Left
    <3>4. Seekers(k)' = Seekers(k) \ {t} /\ t \in Seekers(k)
      BY <1>2, <1>3, <1>10, <3>1 DEF Seekers, At, None
    <3>5. /\ Seekers(k) \in SUBSET Threads /\ Left(k) \in SUBSET (1..k) /\ k \in Nat
      BY <1>3 DEF Seekers, Left
    <3>6. /\ IsFiniteSet(Seekers(k)) /\ Cardinality(Seekers(k)) \in Nat
          /\ Cardinality(Left(k)) \in Nat /\ Cardinality(Threads) \in Nat
      BY <3>5, CanBeCounted
    <3>7. Cardinality(Seekers(k)') = Cardinality(Seekers(k)) - 1
      BY <3>4, <3>6, FS_RemoveElement
    <3> QED
      BY <1>3, <3>2, <3>3, <3>6, <3>7
  <2> QED
    BY <2>1, <2>2
<1>17. LaneInv'
  <2> SUFFICES ASSUME NEW l \in 1..Cardinality(Threads)
               PROVE  IF l =< n
                      THEN producers'[l].tailIndex = producers'[l].headIndex + Len(lanes[l])
                      ELSE lanes[l] = <<>>
    BY <1>1, <1>6 DEF LaneInv
  <2>1. CASE l = n
    BY <1>5, <1>6, <1>7, <2>1, EmptySeq, LaneFacts
  <2>2. CASE l # n
    <3>1. l =< n <=> l =< Len(producers)
      BY <1>3, <2>2
    <3>2. l =< n => producers'[l] = producers[l]
      BY <1>6, <1>12, <2>2
    <3> QED
      BY <3>1, <3>2 DEF QueueInv, LaneInv
  <2> QED
    BY <2>1, <2>2
<1>18. Queue!Join(t)
  <2>1. \A s \in Threads : owner[s] # n
    BY <1>3, <1>4, <1>7 DEF Held, At, QueueInv, ThreadInv, IsPlaced, None
  <2> QED
    BY <1>1, <1>2, <1>3, <1>4, <1>8, <2>1 DEF Queue!Join, None
<1> QED
  BY <1>8, <1>13, <1>14, <1>15, <1>16, <1>17, <1>18 DEF QueueInv

(* Or it gets none, and gives up.                                          *)
LEMMA GetsNoneStep ==
    ASSUME QueueInv, NEW t \in Threads, At(t, "recycle"), Reject(t),
           UNCHANGED <<producers, owner, lanes, item, calls, exits>>
    PROVE  QueueInv' /\ Unseen
<1>1. Only(t) /\ local'[t] = Idle
  BY AtWork DEF Reject, Only, IsRegisters
<1>2. Len(producers) \in Nat /\ owner[t] = None /\ Held(t) = None
  BY LaneFacts DEF QueueInv, ThreadInv, IsPlaced, Held, At
<1>3. /\ DOMAIN local' = Actors /\ \A a \in Actors : IsRegisters(local'[a])
      /\ ScanInv' /\ Answer' = Answer
  BY <1>1, <1>2, ThreadStep DEF QueueInv, TypeOK
<1>4. \A s \in Threads : s # t => IsPlaced(s)' /\ Held(s)' = Held(s) /\ local'[s] = local[s]
  BY <1>1, <1>2, OthersPlaced
<1>5. Held(t)' = None /\ ~At(t, "recycle")'
  BY <1>1, <1>2 DEF Held, At, Idle
<1>6. TypeOK'
  BY <1>3 DEF QueueInv, TypeOK, Logged
<1>7. ThreadInv'
  <2>1. IsPlaced(t)'
    BY <1>1, <1>2, <1>5 DEF IsPlaced, At, Idle, Working, None
  <2> QED
    BY <1>4, <2>1 DEF ThreadInv
<1>8. HolderInv'
  BY <1>2, <1>4, <1>5 DEF QueueInv, HolderInv
<1>9. RoomInv'
  <2> SUFFICES ASSUME NEW k \in 0..Len(producers)
               PROVE  Cardinality(Seekers(k)') + Len(producers)
                        =< Cardinality(Left(k)) + Cardinality(Threads)
    BY DEF RoomInv, Left
  <2>1. Seekers(k)' \subseteq Seekers(k)
    BY <1>4, <1>5 DEF Seekers, At
  <2>2. /\ Seekers(k) \in SUBSET Threads /\ Left(k) \in SUBSET (1..k) /\ k \in Nat
        /\ Seekers(k)' \in SUBSET Threads
    BY <1>2 DEF Seekers, Left
  <2>3. /\ IsFiniteSet(Seekers(k)) /\ Cardinality(Seekers(k)) \in Nat
        /\ Cardinality(Left(k)) \in Nat /\ Cardinality(Threads) \in Nat
    BY <2>2, CanBeCounted
  <2>4. Cardinality(Seekers(k)') \in Nat
    BY <2>2, CanBeCounted
  <2>5. Cardinality(Seekers(k)') =< Cardinality(Seekers(k))
    BY <2>1, <2>3, FS_Subset
  <2>6. Cardinality(Seekers(k)) + Len(producers) =< Cardinality(Left(k)) + Cardinality(Threads)
    BY DEF QueueInv, RoomInv
  <2> QED
    BY <1>2, <2>3, <2>4, <2>5, <2>6
<1>10. LaneInv'
  BY DEF QueueInv, LaneInv
<1> QED
  BY <1>3, <1>6, <1>7, <1>8, <1>9, <1>10 DEF QueueInv, Unseen

-----------------------------------------------------------------------------
(* The invariant and the refinement.                                       *)

(* No sub-queue, no entry, nobody at work: EntryQueue's beginning.         *)
LEMMA InitInv == Init => QueueInv /\ Queue!QueueInit
<1> SUFFICES ASSUME Init PROVE QueueInv /\ Queue!QueueInit
  OBVIOUS
<1>1. IsFiniteSet(Threads) /\ Cardinality(Threads) \in Nat /\ Consumer \in Actors
  BY ActorFacts
<1>2. IsList(producers) /\ Len(producers) = 0
  BY EmptySeq DEF Init, IsList
<1>3. TypeOK
  <2>1. DOMAIN local = Actors /\ \A a \in Actors : IsRegisters(local[a])
    BY DEF Init, IsRegisters
  <2>2. lanes \in [1..Cardinality(Threads) -> Seq(Logged)]
    BY DEF Init
  <2>3. \A t \in Threads : MaxLogs[t] \in Nat /\ MaxExits[t] \in Nat
    BY BoundsAreNat
  <2>4. /\ calls \in [Threads -> Nat] /\ exits \in [Threads -> Nat] /\ owner \in [Threads -> Nat]
        /\ \A t \in Threads : calls[t] = 0 /\ exits[t] = 0
    BY DEF Init, None
  <2> QED
    BY <1>2, <2>1, <2>2, <2>3, <2>4 DEF TypeOK
<1>4. \A a \in Actors : local[a] = Idle /\ local[a].pc = "idle"
  BY DEF Init, Idle
<1>5. \A t \in Threads : Held(t) = 0 /\ local[t].pc = "idle"
  BY <1>4, ActorFacts DEF Init, Held, At, None
<1>6. ThreadInv
  BY <1>2, <1>5 DEF ThreadInv, IsPlaced, At, Working
<1>7. HolderInv
  BY <1>2, <1>5 DEF HolderInv, None
<1>8. RoomInv
  <2>1. ASSUME NEW k \in 0..0
        PROVE  Cardinality(Seekers(k)) = 0 /\ Cardinality(Left(k)) = 0
    <3>1. Seekers(k) = {} /\ Left(k) = {}
      BY <1>2, <1>5 DEF Seekers, Left, At
    <3> QED
      BY <3>1, FS_EmptySet
  <2> QED
    BY <1>1, <1>2, <2>1 DEF RoomInv
<1>9. LaneInv
  BY <1>1, <1>2 DEF LaneInv, Init
<1>10. ScanInv
  BY <1>1, <1>4 DEF ScanInv, At
<1>11. Answer = "idle"
  BY <1>1, <1>4 DEF Answer
<1>12. Queue!QueueInit
  BY <1>11 DEF Init, Queue!QueueInit, NoEntry, Queue!NoEntry, None
<1> QED
  BY <1>3, <1>6, <1>7, <1>8, <1>9, <1>10, <1>12 DEF QueueInv

(* Every step of a thread joins, leaves or puts, or is not seen.           *)
LEMMA ThreadsDo ==
    ASSUME QueueInv, NEW t \in Threads,
           \/ Enqueue(t) \/ Recycle(t) \/ AddProducer(t)
           \/ StartBlock(t) \/ GrowIndex(t)
           \/ TakeFromPool(t) \/ try_get(t) \/ Allocate(t)
           \/ PlaceBlock(t) \/ Construct(t) \/ Publish(t)
           \/ ThreadExits(t) \/ LeavesProducer(t)
    PROVE  /\ QueueInv'
           /\ \/ Queue!Join(t) \/ Queue!Leave(t) \/ \E e \in Logged : Queue!Put(t, e)
              \/ Unseen
<1>1. CASE Enqueue(t)
  BY <1>1, EnqueueStep
<1>2. CASE Recycle(t)
  BY <1>2, PassesByStep, TakesOverStep
<1>3. CASE AddProducer(t)
  <2>1. At(t, "recycle") /\ local[t].at = None /\ UNCHANGED <<lanes, item, calls, exits>>
    BY <1>3 DEF AddProducer, ghosts
  <2>2. CASE producers' = Append(producers, NewProducer(TRUE)) /\ Owns(t, Len(producers) + 1)
    BY <2>1, <2>2, AddsOneStep
  <2>3. CASE producers' = Append(producers, NewProducer(FALSE)) /\ Owns(t, Len(producers) + 1)
    BY <2>1, <2>3, AddsOneStep
  <2>4. CASE Reject(t) /\ UNCHANGED <<producers, owner>>
    BY <2>1, <2>4, GetsNoneStep
  <2> QED
    BY <1>3, <2>2, <2>3, <2>4 DEF AddProducer
<1>4. CASE StartBlock(t)
  BY <1>4, StartBlockStep
<1>5. CASE GrowIndex(t)
  BY <1>5, GrowIndexStep
<1>6. CASE TakeFromPool(t)
  BY <1>6, TakeFromPoolStep
<1>7. CASE try_get(t)
  BY <1>7, TryGetStep
<1>8. CASE Allocate(t)
  BY <1>8, AllocateStep
<1>9. CASE PlaceBlock(t)
  BY <1>9, PlaceBlockStep
<1>10. CASE Construct(t)
  BY <1>10, ConstructStep
<1>11. CASE Publish(t)
  BY <1>11, PublishStep
<1>12. CASE ThreadExits(t)
  BY <1>12, ThreadExitsStep
<1>13. CASE LeavesProducer(t)
  BY <1>13, LeavesProducerStep
<1> QED
  BY <1>1, <1>2, <1>3, <1>4, <1>5, <1>6, <1>7, <1>8, <1>9, <1>10, <1>11, <1>12, <1>13

(* Every step of the consumer calls, finds, finds nothing or returns, or   *)
(* is not seen.                                                            *)
LEMMA ConsumerDoes ==
    ASSUME QueueInv,
           \/ TryDequeue \/ Scan \/ Claim \/ FindBlock \/ TakeEntry \/ Return
           \/ add(Consumer) \/ add_knowing_refcount_is_zero(Consumer)
    PROVE  /\ QueueInv'
           /\ \/ Queue!Call \/ Queue!Find \/ Queue!FindNothing \/ Queue!Return \/ Unseen
<1>1. CASE TryDequeue
  BY <1>1, TryDequeueStep
<1>2. CASE Scan
  BY <1>2, ScanStep
<1>3. CASE Claim
  BY <1>3, ClaimNothingStep, ClaimStep
<1>4. CASE FindBlock
  BY <1>4, FindBlockStep
<1>5. CASE TakeEntry
  BY <1>5, TakeEntryStep
<1>6. CASE Return
  BY <1>6, ReturnStep
<1>7. CASE add(Consumer) \/ add_knowing_refcount_is_zero(Consumer)
  BY <1>7, GiveBackStep
<1> QED
  BY <1>1, <1>2, <1>3, <1>4, <1>5, <1>6, <1>7

(* Every step keeps the invariant, and is one of EntryQueue's or none.     *)
LEMMA NextInv == QueueInv /\ [Next]_vars => QueueInv' /\ [Queue!QueueNext]_(Queue!queueVars)
<1> SUFFICES ASSUME QueueInv, [Next]_vars
             PROVE  QueueInv' /\ [Queue!QueueNext]_(Queue!queueVars)
  OBVIOUS
<1>u. Unseen => UNCHANGED Queue!queueVars
  BY DEF Unseen, Queue!queueVars
<1>t. ASSUME NEW t \in Threads,
             \/ Queue!Join(t) \/ Queue!Leave(t) \/ \E e \in Logged : Queue!Put(t, e)
             \/ Unseen
      PROVE  [Queue!QueueNext]_(Queue!queueVars)
  BY <1>t, <1>u DEF Queue!QueueNext
<1>c. ASSUME Queue!Call \/ Queue!Find \/ Queue!FindNothing \/ Queue!Return \/ Unseen
      PROVE  [Queue!QueueNext]_(Queue!queueVars)
  BY <1>c, <1>u DEF Queue!QueueNext
<1>1. ASSUME NEW t \in Threads,
             \/ Enqueue(t) \/ Recycle(t) \/ AddProducer(t)
             \/ StartBlock(t) \/ GrowIndex(t)
             \/ TakeFromPool(t) \/ try_get(t) \/ Allocate(t)
             \/ PlaceBlock(t) \/ Construct(t) \/ Publish(t)
             \/ ThreadExits(t) \/ LeavesProducer(t)
      PROVE  QueueInv' /\ [Queue!QueueNext]_(Queue!queueVars)
  BY <1>1, <1>t, ThreadsDo
<1>2. CASE \/ TryDequeue \/ Scan \/ Claim \/ FindBlock \/ TakeEntry \/ Return
           \/ add(Consumer) \/ add_knowing_refcount_is_zero(Consumer)
  BY <1>2, <1>c, ConsumerDoes
<1>3. ASSUME NEW t \in Threads, add_knowing_refcount_is_zero(t)
      PROVE  QueueInv' /\ [Queue!QueueNext]_(Queue!queueVars)
  BY <1>3, <1>u, ReaddStep
<1>4. CASE UNCHANGED vars
  <2>1. UNCHANGED <<producers, owner, local, lanes, item, calls, exits>>
    BY <1>4 DEF vars
  <2>2. Only(Consumer) /\ Answer' = Answer
    BY <2>1, ConsumerFacts DEF Only, Answer
  <2>3. ScanInv'
    BY <2>1 DEF QueueInv, ScanInv, At
  <2>4. QueueInv' /\ Unseen
    BY <2>1, <2>2, <2>3, ConsumerKeeps DEF QueueInv, Unseen
  <2> QED
    BY <1>u, <2>4
<1> QED
  BY <1>1, <1>2, <1>3, <1>4 DEF Next, Actors

(* A sub-queue has one holder or is marked as left, there never are more   *)
(* of them than threads, their indexes count their lanes, and the scan of  *)
(* try_dequeue has not passed the last entry there was at the call         *)
(* (recycle_or_create_producer, try_dequeue).                              *)
THEOREM QueueInvariant == Spec => []QueueInv
<1>1. Init => QueueInv
  BY InitInv
<1>2. QueueInv /\ [Next]_vars => QueueInv'
  BY NextInv
<1> QED
  BY <1>1, <1>2, PTL DEF Spec

(* The queue implements EntryQueue: a thread has its lane alone, even one  *)
(* taken over from a thread that ended, entries are claimed in the order   *)
(* of their lane, and try_dequeue says "empty" only if nothing was there   *)
(* when it was called.                                                     *)
THEOREM ItIsAQueue == Spec => IsAQueue
<1>1. Init => QueueInv /\ Queue!QueueInit
  BY InitInv
<1>2. QueueInv /\ [Next]_vars => QueueInv' /\ [Queue!QueueNext]_(Queue!queueVars)
  BY NextInv
<1> QED
  BY <1>1, <1>2, PTL DEF Spec, IsAQueue, Queue!QueueSpec
=============================================================================
