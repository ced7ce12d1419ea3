----------------------------- MODULE EntryQueue -----------------------------
(***************************************************************************)
(* What the logger relies on in its queue: every thread that logs has a    *)
(* lane of its own, a lane is first in first out, and try_dequeue says     *)
(* that there is nothing only if there was nothing when it was called.     *)
(* Lanes are not ordered among each other.                                 *)
(***************************************************************************)
EXTENDS Naturals, Sequences

CONSTANTS
    Threads,    \* the threads that log
    Entries,    \* what they log
    MaxLanes    \* bound: lanes, one per thread that ever logged

VARIABLES
    lanes,      \* lane -> the entries in it, oldest first
    lane,       \* thread -> its lane, or 0
    caller,     \* what the consumer was told, or knows so far
    item        \* the entry it was given

queueVars == <<lanes, lane, caller, item>>

NoEntry == <<>>

QueueInit ==
    /\ lanes = [l \in 1..MaxLanes |-> <<>>]
    /\ lane = [t \in Threads |-> 0]
    /\ caller = "idle"
    /\ item = NoEntry

(* A thread gets a lane that no other has, and leaves it when it ends.     *)
Join(t) ==
    /\ lane[t] = 0
    /\ \E l \in 1..MaxLanes :
           /\ \A s \in Threads : lane[s] # l
           /\ lane' = [lane EXCEPT ![t] = l]
    /\ UNCHANGED <<lanes, caller, item>>

Leave(t) ==
    /\ lane[t] # 0
    /\ lane' = [lane EXCEPT ![t] = 0]
    /\ UNCHANGED <<lanes, caller, item>>

Put(t, e) ==
    /\ lane[t] # 0
    /\ lanes' = [lanes EXCEPT ![lane[t]] = Append(@, e)]
    /\ UNCHANGED <<lane, caller, item>>

Call ==
    /\ caller = "idle"
    /\ caller' = IF \A l \in 1..MaxLanes : lanes[l] = <<>> THEN "asked" ELSE "finds"
    /\ UNCHANGED <<lanes, lane, item>>

Find ==
    /\ caller \in {"asked", "finds"}
    /\ \E l \in 1..MaxLanes :
           /\ lanes[l] # <<>>
           /\ item' = Head(lanes[l])
           /\ lanes' = [lanes EXCEPT ![l] = Tail(@)]
    /\ caller' = "found"
    /\ UNCHANGED lane

FindNothing ==
    /\ caller = "asked"
    /\ caller' = "empty"
    /\ UNCHANGED <<lanes, lane, item>>

Return ==
    /\ caller \in {"found", "empty"}
    /\ caller' = "idle"
    /\ item' = NoEntry
    /\ UNCHANGED <<lanes, lane>>

QueueNext ==
    \/ \E t \in Threads : Join(t) \/ Leave(t) \/ \E e \in Entries : Put(t, e)
    \/ Call \/ Find \/ FindNothing \/ Return

QueueSpec == QueueInit /\ [][QueueNext]_queueVars
=============================================================================
