------------------------------ MODULE LogQueue ------------------------------
(***************************************************************************)
(* The lock-free queue behind the logger, as the logger uses it: enqueue   *)
(* without a token by many threads, try_dequeue by one thread at a time.   *)
(* Each thread writes to a sub-queue ("producer") of its own.  What the    *)
(* threads share are the list of sub-queues, which a thread that exits     *)
(* leaves to others, and the blocks, which the consumer gives back to a    *)
(* lock-free free list.                                                    *)
(*                                                                         *)
(* One action is one access to memory that another thread can see; steps   *)
(* on private memory are joined with the access before or after them.      *)
(* Memory is sequentially consistent.                                      *)
(***************************************************************************)
EXTENDS Integers, Sequences, FiniteSets, FiniteSetsExt

CONSTANTS
    Threads,         \* the threads that log
    BlockSize,       \* BLOCK_SIZE: entries per block
    PoolSize,        \* blocks of the initial pool; only these are recycled
    IndexSize,       \* IMPLICIT_INITIAL_INDEX_SIZE: slots of a first index
    MaxHeap,         \* bound: blocks alive at once that came from malloc
    MaxLogs,         \* bound: thread -> its calls of log()
    MaxExits,        \* bound: thread -> how often it exits and a new one starts
    MaxAllocFails    \* bound: thread -> how many of its allocations fail

(* At least two, and no odd number but 1 divides it.                       *)
IsPowerOfTwo(n) == n \in Nat /\ n > 1 /\ \A d \in 2..n : n % d = 0 => d % 2 = 0

ASSUME BoundsAreNat ==
    /\ {PoolSize, MaxHeap} \subseteq Nat
    /\ {MaxLogs, MaxExits, MaxAllocFails} \subseteq [Threads -> Nat]
    /\ IsPowerOfTwo(BlockSize) /\ IsPowerOfTwo(IndexSize)

ASSUME ThreadsAreFinite == IsFiniteSet(Threads) /\ "consumer" \notin Threads

VARIABLES
    producers,   \* the sub-queues, in the order they were added to the list
    owner,       \* the hash table: thread -> its sub-queue, or None
    pool,        \* initialBlockPoolIndex
    heap,        \* blocks that came from malloc and were not destroyed
    slots,       \* block -> position -> entry or NoEntry
    emptied,     \* block -> elementsCompletelyDequeued
    head,        \* freeListHead, or None
    next,        \* freeListNext of the pool's blocks
    refs,        \* freeListRefs: count and the SHOULD_BE_ON_FREELIST bit
    local,       \* the registers of each thread and of the consumer
    lanes,       \* ghost: sub-queue -> the entries that should be in it
    item,        \* ghost: the entry the consumer should be given
    calls,       \* thread -> its calls of log()
    exits,       \* thread -> how often it exited
    fails        \* thread -> its allocations that failed

vars == <<producers, owner, pool, heap, slots, emptied, head, next, refs,
          local, lanes, item, calls, exits, fails>>

ghosts == <<lanes, item>>
blocks == <<pool, heap, slots, emptied>>
freeList == <<head, next, refs>>
bounds == <<calls, exits, fails>>

None == 0
Consumer == "consumer"
Actors == Threads \cup {Consumer}
PoolBlocks == 1..PoolSize
Blocks == 1..(PoolSize + MaxHeap)
NoEntry == <<>>

(* The block size is at least two, so an odd number is no block's start.   *)
INVALID_BLOCK_BASE == 1

Unreferenced == [n |-> 0, on |-> FALSE]

(* What an actor holds between two steps: `p` the sub-queue it works on,   *)
(* `entry` the log entry, `block` and `at`, `next`, `refs` the free list's *)
(* locals; `best`, `size`, `seen` are those of try_dequeue's scan; `must`  *)
(* remembers that the queue was not empty when it was called.              *)
Idle == [pc |-> "idle", p |-> None, entry |-> NoEntry, block |-> None,
         at |-> None, next |-> None, refs |-> Unreferenced,
         best |-> None, size |-> 0, seen |-> 0, must |-> FALSE]

-----------------------------------------------------------------------------
(* A sub-queue and its index of blocks: `index` maps positions to entries, *)
(* and an index that grew shares the entries of the one before it.         *)

Fresh == [key |-> INVALID_BLOCK_BASE, value |-> None]

(* new_block_index: the old entries, oldest first, then as many new ones.  *)
Grown(q) ==
    LET old == q.headers[q.header]
        cap == old.capacity
        n   == Len(q.entries)
    IN  [q EXCEPT
           !.entries = @ \o [i \in 1..cap |-> Fresh],
           !.headers = Append(@,
               [capacity |-> 2 * cap,
                tail |-> cap - 1,
                index |-> [i \in 0..(2 * cap - 1) |->
                             IF i < cap THEN old.index[(old.tail + 1 + i) % cap]
                                        ELSE n + 1 + i - cap]]),
           !.header = @ + 1]

FirstHeader ==
    [capacity |-> IndexSize, tail |-> IndexSize - 1,
     index |-> [i \in 0..(IndexSize - 1) |-> i + 1]]

(* A new ImplicitProducer; without memory for its index it has none.       *)
NewProducer(indexed) ==
    [tailIndex |-> 0, headIndex |-> 0, tailBlock |-> None, inactive |-> FALSE,
     header  |-> IF indexed THEN 1 ELSE None,
     headers |-> IF indexed THEN <<FirstHeader>> ELSE <<>>,
     entries |-> IF indexed THEN [i \in 1..IndexSize |-> Fresh] ELSE <<>>]

(* insert_block_index_entry: where the next block goes, and if it is free. *)
NextTail(h) == (h.tail + 1) % h.capacity
NextEntry(q) == LET h == q.headers[q.header] IN h.index[NextTail(h)]
\* Faulty: the entry is taken whether the consumer has left it or not.
AlwaysRoom(q) == TRUE

HasRoom(q) ==
    LET e == q.entries[NextEntry(q)]
    IN  e.key = INVALID_BLOCK_BASE \/ e.value = None

Inserted(q, start) ==
    [q EXCEPT !.entries[NextEntry(q)].key = start,
              !.headers[q.header].tail = NextTail(q.headers[q.header])]

(* rewind_block_index_tail and the null entry, when there is no block.     *)
Rewound(q) ==
    LET h == q.headers[q.header]
    IN  [q EXCEPT !.entries[h.index[h.tail]].value = None,
                  !.headers[q.header].tail = (h.tail - 1) % h.capacity]

(* get_block_index_index_for_index: the entry of the block an index is in. *)
EntryOf(q, hdr, index) ==
    LET h    == q.headers[hdr]
        base == index - (index % BlockSize)
        from == q.entries[h.index[h.tail]].key
    IN  h.index[(h.tail + (base - from) \div BlockSize) % h.capacity]

size_approx(q) == IF q.headIndex < q.tailIndex THEN q.tailIndex - q.headIndex ELSE 0

-----------------------------------------------------------------------------
Init ==
    /\ producers = <<>>
    /\ owner = [t \in Threads |-> None]
    /\ pool = 0
    /\ heap = {}
    /\ slots = [b \in Blocks |-> [i \in 0..(BlockSize - 1) |-> NoEntry]]
    /\ emptied = [b \in Blocks |-> 0]
    /\ head = None
    /\ next = [b \in PoolBlocks |-> None]
    /\ refs = [b \in PoolBlocks |-> Unreferenced]
    /\ local = [a \in Actors |-> Idle]
    /\ lanes = [l \in 1..Cardinality(Threads) |-> <<>>]
    /\ item = NoEntry
    /\ calls = [t \in Threads |-> 0]
    /\ exits = [t \in Threads |-> 0]
    /\ fails = [t \in Threads |-> 0]

At(a, pc) == local[a].pc = pc
Goto(a, pc) == local' = [local EXCEPT ![a].pc = pc]
Mine(a) == producers[local[a].p]

(* enqueue gives up: the caller is told FALSE.                             *)
Reject(t) == local' = [local EXCEPT ![t] = Idle]

FailsToAllocate(t) ==
    /\ fails[t] < MaxAllocFails[t]
    /\ fails' = [fails EXCEPT ![t] = @ + 1]

-----------------------------------------------------------------------------
(* get_or_add_implicit_producer.  A thread only ever looks for its own id, *)
(* so the table is a map; its growing is not visible to a thread.  An      *)
(* entry names its thread, which of the lives of that thread logged it,    *)
(* and the call.                                                           *)

Enqueue(t) ==
    /\ At(t, "idle") /\ calls[t] < MaxLogs[t]
    /\ calls' = [calls EXCEPT ![t] = @ + 1]
    /\ local' = [local EXCEPT ![t] = [Idle EXCEPT
           !.entry = <<t, exits[t], calls[t] + 1>>, !.p = owner[t], !.at = Len(producers),
           !.pc = IF owner[t] # None THEN "enqueue" ELSE "recycle"]]
    /\ UNCHANGED <<ghosts, producers, owner, blocks, freeList, exits, fails>>

Owns(t, p) ==
    /\ owner' = [owner EXCEPT ![t] = p]
    /\ local' = [local EXCEPT ![t].p = p, ![t].at = None, ![t].pc = "enqueue"]

\* Faulty: it does not look whether the thread of the sub-queue is gone.
RecycleAny(t) ==
    /\ At(t, "recycle") /\ local[t].at # None
    /\ producers' = [producers EXCEPT ![local[t].at].inactive = FALSE]
    /\ Owns(t, local[t].at)
    /\ UNCHANGED <<ghosts, blocks, freeList, bounds>>

(* recycle_or_create_producer: take over a sub-queue whose thread is gone. *)
Recycle(t) ==
    /\ At(t, "recycle") /\ local[t].at # None
    /\ LET p == local[t].at
       IN  IF producers[p].inactive
           THEN /\ producers' = [producers EXCEPT ![p].inactive = FALSE]
                /\ Owns(t, p)
           ELSE /\ local' = [local EXCEPT ![t].at = p - 1]
                /\ UNCHANGED <<producers, owner>>
    /\ UNCHANGED <<ghosts, blocks, freeList, bounds>>

(* add_producer: a new one, at the end of the list.                        *)
AddProducer(t) ==
    /\ At(t, "recycle") /\ local[t].at = None
    /\ \/ /\ producers' = Append(producers, NewProducer(TRUE))
          /\ Owns(t, Len(producers) + 1)
          /\ UNCHANGED fails
       \/ /\ FailsToAllocate(t)
          /\ producers' = Append(producers, NewProducer(FALSE))
          /\ Owns(t, Len(producers) + 1)
       \/ /\ FailsToAllocate(t)
          /\ Reject(t)
          /\ UNCHANGED <<producers, owner>>
    /\ UNCHANGED <<ghosts, blocks, freeList, exits, calls>>

(* implicit_producer_thread_exited: out of the table first, then free to   *)
(* be taken over.                                                          *)
ThreadExits(t) ==
    /\ At(t, "idle") /\ owner[t] # None /\ exits[t] < MaxExits[t]
    /\ owner' = [owner EXCEPT ![t] = None]
    /\ local' = [local EXCEPT ![t].pc = "exiting", ![t].p = owner[t]]
    /\ UNCHANGED <<ghosts, producers, blocks, freeList, bounds>>

LeavesProducer(t) ==
    /\ At(t, "exiting")
    /\ producers' = [producers EXCEPT ![local[t].p].inactive = TRUE]
    /\ local' = [local EXCEPT ![t] = Idle]
    /\ exits' = [exits EXCEPT ![t] = @ + 1]
    /\ UNCHANGED <<ghosts, owner, blocks, freeList, fails, calls>>

-----------------------------------------------------------------------------
(* ImplicitProducer::enqueue.                                              *)

(* A full block, or none yet: a place for a new one in the index.          *)
StartBlock(t) ==
    /\ At(t, "enqueue") /\ Mine(t).tailIndex % BlockSize = 0
    /\ IF Mine(t).header = None
       THEN /\ Reject(t)
            /\ UNCHANGED producers
       ELSE /\ HasRoom(Mine(t))
            /\ producers' = [producers EXCEPT
                   ![local[t].p] = Inserted(@, @.tailIndex)]
            /\ Goto(t, "pool")
    /\ UNCHANGED <<ghosts, owner, blocks, freeList, bounds>>

(* The index is full: a larger one is published before it is used.         *)
GrowIndex(t) ==
    /\ At(t, "enqueue") /\ Mine(t).tailIndex % BlockSize = 0
    /\ Mine(t).header # None /\ ~HasRoom(Mine(t))
    /\ \/ /\ producers' = [producers EXCEPT ![local[t].p] = Grown(@)]
          /\ UNCHANGED <<local, fails>>
       \/ /\ FailsToAllocate(t)
          /\ Reject(t)
          /\ UNCHANGED producers
    /\ UNCHANGED <<ghosts, owner, blocks, freeList, exits, calls>>

(* requisition_block: the initial pool, then the free list, then malloc.   *)
TakeFromPool(t) ==
    /\ At(t, "pool")
    /\ IF pool < PoolSize
       THEN /\ pool' = pool + 1
            /\ local' = [local EXCEPT ![t].block = pool + 1, ![t].pc = "place"]
       ELSE /\ UNCHANGED pool
            /\ Goto(t, "load")
    /\ UNCHANGED <<ghosts, producers, owner, heap, slots, emptied, freeList, bounds>>

Allocate(t) ==
    /\ At(t, "malloc")
    /\ \/ LET free == Blocks \ (PoolBlocks \cup heap)
              b == Min(free)
          IN  /\ free # {}
              /\ heap' = heap \cup {b}
              /\ local' = [local EXCEPT ![t].block = b, ![t].pc = "place"]
              /\ UNCHANGED <<producers, fails>>
       \/ /\ FailsToAllocate(t)
          /\ producers' = [producers EXCEPT ![local[t].p] = Rewound(@)]
          /\ Reject(t)
          /\ UNCHANGED heap
    /\ UNCHANGED <<ghosts, owner, pool, slots, emptied, freeList, exits, calls>>

(* A new block is reset and goes into the index; the entry is constructed  *)
(* in it.  Nobody looks at that place before tailIndex is stored.          *)
PlaceBlock(t) ==
    /\ At(t, "place")
    /\ LET b == local[t].block
           q == Mine(t)
           h == q.headers[q.header]
       IN  /\ emptied' = [emptied EXCEPT ![b] = 0]
           /\ slots' = [slots EXCEPT ![b][0] = local[t].entry]
           /\ producers' = [producers EXCEPT
                  ![local[t].p].entries[h.index[h.tail]].value = b,
                  ![local[t].p].tailBlock = b]
    /\ local' = [local EXCEPT ![t].pc = "publish", ![t].block = None]
    /\ UNCHANGED <<ghosts, owner, pool, heap, freeList, bounds>>

Construct(t) ==
    /\ At(t, "enqueue") /\ Mine(t).tailIndex % BlockSize # 0
    /\ slots' = [slots EXCEPT
           ![Mine(t).tailBlock][Mine(t).tailIndex % BlockSize] = local[t].entry]
    /\ Goto(t, "publish")
    /\ UNCHANGED <<ghosts, producers, owner, pool, heap, emptied, freeList, bounds>>

(* The store to tailIndex makes the entry visible.                         *)
Publish(t) ==
    /\ At(t, "publish")
    /\ producers' = [producers EXCEPT ![local[t].p].tailIndex = @ + 1]
    /\ lanes' = [lanes EXCEPT ![local[t].p] = Append(@, local[t].entry)]
    /\ local' = [local EXCEPT ![t] = Idle]
    /\ UNCHANGED <<owner, blocks, freeList, bounds, item>>

-----------------------------------------------------------------------------
(* FreeList.  A node's references count the list itself and the threads    *)
(* that are looking at it; a node that should be on the list but is still  *)
(* looked at is put there by the last one to let go of it.                 *)

(* try_get: read the head ...                                              *)
LoadHead(t) ==
    /\ At(t, "load")
    /\ local' = [local EXCEPT ![t].at = head, ![t].refs = Unreferenced,
                              ![t].pc = IF head = None THEN "malloc" ELSE "ref"]
    /\ UNCHANGED <<ghosts, producers, owner, blocks, freeList, bounds>>

(* ... and its references: with none the node is not on the list ...       *)
LoadReferences(t) ==
    /\ At(t, "ref")
    /\ LET r == refs[local[t].at]
       IN  local' = [local EXCEPT ![t].refs = r,
                                 ![t].pc = IF r.n = 0 THEN "load" ELSE "refcas"]
    /\ UNCHANGED <<ghosts, producers, owner, blocks, freeList, bounds>>

\* Faulty: the references are added to without a compare-and-swap.
TakeReferenceBlindly(t) ==
    /\ At(t, "refcas")
    /\ refs' = [refs EXCEPT ![local[t].at].n = @ + 1]
    /\ local' = [local EXCEPT ![t].refs = Unreferenced, ![t].pc = "next"]
    /\ UNCHANGED <<ghosts, producers, owner, blocks, head, next, bounds>>

(* ... add one, unless they changed meanwhile ...                          *)
TakeReference(t) ==
    /\ At(t, "refcas")
    /\ LET b == local[t].at
       IN  IF refs[b] = local[t].refs
           THEN /\ refs' = [refs EXCEPT ![b].n = @ + 1]
                /\ local' = [local EXCEPT ![t].refs = Unreferenced, ![t].pc = "next"]
           ELSE /\ local' = [local EXCEPT ![t].refs = Unreferenced, ![t].pc = "load"]
                /\ UNCHANGED refs
    /\ UNCHANGED <<ghosts, producers, owner, blocks, head, next, bounds>>

ReadNext(t) ==
    /\ At(t, "next")
    /\ local' = [local EXCEPT ![t].next = next[local[t].at], ![t].pc = "swing"]
    /\ UNCHANGED <<ghosts, producers, owner, blocks, freeList, bounds>>

(* ... and swing the head to the next node.  The compare-and-swap that     *)
(* fails leaves the head it found.                                         *)
SwingHead(t) ==
    /\ At(t, "swing")
    /\ LET b == local[t].at
       IN  IF head = b
           THEN /\ head' = local[t].next
                /\ local' = [local EXCEPT ![t].block = b, ![t].next = None,
                                          ![t].at = None, ![t].pc = "got"]
           ELSE /\ local' = [local EXCEPT ![t].block = b, ![t].next = None,
                                          ![t].at = head, ![t].pc = "unref"]
                /\ UNCHANGED head
    /\ UNCHANGED <<ghosts, producers, owner, blocks, next, refs, bounds>>

(* Two references less: this thread's and the list's.                      *)
GotNode(t) ==
    /\ At(t, "got")
    /\ refs' = [refs EXCEPT ![local[t].block].n = @ - 2]
    /\ Goto(t, "place")
    /\ UNCHANGED <<ghosts, producers, owner, blocks, head, next, bounds>>

(* Where an actor goes on after it left the free list.                     *)
Continue(a, found) ==
    IF a = Consumer
    THEN [local EXCEPT ![a].block = None, ![a].at = None, ![a].pc = "dequeued"]
    ELSE [local EXCEPT ![a].block = None, ![a].at = found, ![a].next = None,
                       ![a].pc = IF found = None THEN "malloc" ELSE "ref"]

LetGo(t) ==
    /\ At(t, "unref")
    /\ LET b == local[t].block
       IN  /\ refs' = [refs EXCEPT ![b].n = @ - 1]
           /\ local' = IF refs[b] = [n |-> 1, on |-> TRUE]
                       THEN [local EXCEPT ![t].pc = "readd", ![t].next = local[t].at]
                       ELSE Continue(t, local[t].at)
    /\ UNCHANGED <<ghosts, producers, owner, blocks, head, next, bounds>>

(* add: the consumer gives a block back.                                   *)
add(a) ==
    /\ At(a, "add")
    /\ LET b == local[a].block
       IN  /\ refs' = [refs EXCEPT ![b].on = TRUE]
           /\ local' = IF refs[b] = [n |-> 0, on |-> FALSE]
                       THEN [local EXCEPT ![a].pc = "readd"]
                       ELSE Continue(a, None)
    /\ UNCHANGED <<ghosts, producers, owner, blocks, head, next, bounds>>

(* add_knowing_refcount_is_zero: read the head, link the node to it, ...   *)
AddLoad(a) ==
    /\ At(a, "readd")
    /\ local' = [local EXCEPT ![a].at = head, ![a].pc = "link"]
    /\ UNCHANGED <<ghosts, producers, owner, blocks, freeList, bounds>>

AddLink(a) ==
    /\ At(a, "link")
    /\ next' = [next EXCEPT ![local[a].block] = local[a].at]
    /\ refs' = [refs EXCEPT ![local[a].block] = [n |-> 1, on |-> FALSE]]
    /\ Goto(a, "addcas")
    /\ UNCHANGED <<ghosts, producers, owner, blocks, head, bounds>>

(* ... and swing the head to it, or take the list's reference back.        *)
AddSwing(a) ==
    /\ At(a, "addcas")
    /\ IF head = local[a].at
       THEN /\ head' = local[a].block
            /\ local' = Continue(a, local[a].next)
       ELSE /\ local' = [local EXCEPT ![a].at = head, ![a].pc = "undo"]
            /\ UNCHANGED head
    /\ UNCHANGED <<ghosts, producers, owner, blocks, next, refs, bounds>>

AddUndo(a) ==
    /\ At(a, "undo")
    /\ LET b == local[a].block
       IN  /\ refs' = [refs EXCEPT ![b] = [n |-> @.n - 1, on |-> TRUE]]
           /\ local' = IF refs[b] = [n |-> 1, on |-> FALSE]
                       THEN [local EXCEPT ![a].pc = "link"]
                       ELSE Continue(a, local[a].next)
    /\ UNCHANGED <<ghosts, producers, owner, blocks, head, next, bounds>>

-----------------------------------------------------------------------------
(* try_dequeue, by the only consumer: what it saw in a sub-queue stays     *)
(* there until it takes it.  So dequeueOptimisticCount is headIndex, there *)
(* is no overcommit, and the second pass over the sub-queues never runs.   *)

TryDequeue ==
    /\ At(Consumer, "idle")
    /\ local' = [local EXCEPT ![Consumer].at = Len(producers), ![Consumer].pc = "scan",
                              ![Consumer].must = \E p \in 1..Len(producers) :
                                                     size_approx(producers[p]) > 0]
    /\ UNCHANGED <<ghosts, producers, owner, blocks, freeList, bounds>>

(* One sub-queue after the other, newest first, until three have entries.  *)
Scan ==
    LET c == local[Consumer]
        n == size_approx(producers[c.at])
    IN  /\ At(Consumer, "scan") /\ c.at # None /\ c.seen < 3
        /\ local' = [local EXCEPT ![Consumer] = [c EXCEPT
               !.at = c.at - 1,
               !.seen = IF n > 0 THEN @ + 1 ELSE @,
               !.best = IF n > c.size THEN c.at ELSE @,
               !.size = IF n > c.size THEN n ELSE @]]
        /\ UNCHANGED <<ghosts, producers, owner, blocks, freeList, bounds>>

(* Nothing anywhere, or the next index of the fullest sub-queue, which is  *)
(* looked up in the blockIndex of now: it may be an old one afterwards.    *)
Claim ==
    LET c == local[Consumer]
    IN  /\ At(Consumer, "scan") /\ (c.at = None \/ c.seen = 3)
        /\ IF c.seen = 0
           THEN /\ local' = [local EXCEPT ![Consumer] = [Idle EXCEPT !.pc = "empty"]]
                /\ UNCHANGED <<producers, ghosts>>
           ELSE /\ producers' = [producers EXCEPT ![c.best].headIndex = @ + 1]
                /\ lanes' = [lanes EXCEPT ![c.best] = Tail(@)]
                /\ item' = Head(lanes[c.best])
                /\ local' = [local EXCEPT ![Consumer] = [Idle EXCEPT
                       !.p = c.best, !.at = producers[c.best].headIndex,
                       !.best = producers[c.best].header, !.pc = "entry"]]
        /\ UNCHANGED <<owner, blocks, freeList, bounds>>

FindBlock ==
    LET c == local[Consumer]
        e == EntryOf(Mine(Consumer), c.best, c.at)
    IN  /\ At(Consumer, "entry")
        /\ local' = [local EXCEPT ![Consumer].best = e,
               ![Consumer].block = Mine(Consumer).entries[e].value,
               ![Consumer].pc = "take"]
        /\ UNCHANGED <<ghosts, producers, owner, blocks, freeList, bounds>>

(* The entry is moved out and destroyed; when set_empty finds the block    *)
(* empty it leaves the index, and add_block_to_free_list destroys one that *)
(* came from malloc.                                                       *)
TakeEntry ==
    LET c == local[Consumer]
        i == c.at % BlockSize
        isEmpty == emptied[c.block] + 1 = BlockSize
        recycled == isEmpty /\ c.block \in PoolBlocks
    IN  /\ At(Consumer, "take")
        /\ slots' = [slots EXCEPT ![c.block][i] = NoEntry]
        /\ emptied' = [emptied EXCEPT ![c.block] = @ + 1]
        /\ producers' = IF isEmpty
                        THEN [producers EXCEPT ![c.p].entries[c.best].value = None]
                        ELSE producers
        /\ heap' = IF isEmpty THEN heap \ {c.block} ELSE heap
        /\ local' = [local EXCEPT ![Consumer] = [Idle EXCEPT
               !.entry = slots[c.block][i],
               !.block = IF recycled THEN c.block ELSE None,
               !.pc = IF recycled THEN "add" ELSE "dequeued"]]
        /\ UNCHANGED <<ghosts, owner, pool, freeList, bounds>>

(* The logger has what it asked for, and writes it before it asks again.   *)
Return ==
    /\ local[Consumer].pc \in {"dequeued", "empty"}
    /\ local' = [local EXCEPT ![Consumer] = Idle]
    /\ item' = NoEntry
    /\ UNCHANGED <<producers, owner, blocks, freeList, bounds, lanes>>

-----------------------------------------------------------------------------
try_get(t) ==
    \/ LoadHead(t) \/ LoadReferences(t) \/ TakeReference(t) \/ ReadNext(t)
    \/ SwingHead(t) \/ GotNode(t) \/ LetGo(t)

add_knowing_refcount_is_zero(a) ==
    AddLoad(a) \/ AddLink(a) \/ AddSwing(a) \/ AddUndo(a)

Next ==
    \/ \E t \in Threads :
          \/ Enqueue(t) \/ Recycle(t) \/ AddProducer(t)
          \/ StartBlock(t) \/ GrowIndex(t)
          \/ TakeFromPool(t) \/ try_get(t) \/ Allocate(t)
          \/ PlaceBlock(t) \/ Construct(t) \/ Publish(t)
          \/ ThreadExits(t) \/ LeavesProducer(t)
    \/ TryDequeue \/ Scan \/ Claim \/ FindBlock \/ TakeEntry \/ Return
    \/ add(Consumer)
    \/ \E a \in Actors : add_knowing_refcount_is_zero(a)

Spec == Init /\ [][Next]_vars

-----------------------------------------------------------------------------
(* Where the blocks are.                                                   *)
Indexed ==
    (UNION {{producers[p].entries[e].value : e \in DOMAIN producers[p].entries} :
               p \in DOMAIN producers}) \ {None}

(* What is reached from h along nx is in every set that is closed under it.*)
Reach(h, nx) ==
    LET IsClosed(S) == h \in S \cup {None} /\ \A b \in S : nx[b] \in S \cup {None}
    IN  {b \in PoolBlocks : \A S \in SUBSET PoolBlocks : IsClosed(S) => b \in S}
OnList == Reach(head, next)
InHand(a) == IF local[a].pc \in {"got", "place", "add"} THEN {local[a].block} ELSE {}

(* A block has one user: two threads never hold the same, a block in use   *)
(* by a sub-queue is not on the free list, and (the assertion in try_get)  *)
(* a block just taken from the list is not marked to be put there.         *)
BlockHasOneUser ==
    /\ \A a, b \in Actors : a # b => InHand(a) \cap InHand(b) = {}
    /\ \A a \in Actors : InHand(a) \cap (Indexed \cup OnList) = {}
    /\ OnList \cap Indexed = {}
    /\ \A t \in Threads : At(t, "got") => ~refs[local[t].block].on

(* No block is lost: when nobody is in the middle of a call, each one that *)
(* was handed out is in a sub-queue's index or on the free list, with the  *)
(* list's reference as its only one (requisition_block and                 *)
(* add_block_to_free_list, on every path through the free list).           *)
NoBlockIsLost ==
    (\A a \in Actors : At(a, "idle")) =>
        /\ (1..pool) \cup heap = Indexed \cup OnList
        /\ \A b \in OnList : refs[b] = [n |-> 1, on |-> FALSE]

(* Every block has one place: no two users, and never none.                *)
BlocksAreAccounted == BlockHasOneUser /\ NoBlockIsLost

-----------------------------------------------------------------------------
(* What the memory holds between a sub-queue's headIndex and tailIndex,    *)
(* found as the consumer finds it.                                         *)
SlotAt(q, index) ==
    LET b == q.entries[EntryOf(q, q.header, index)].value
    IN  IF b = None THEN NoEntry ELSE slots[b][index % BlockSize]

Contents(p) ==
    IF p \notin DOMAIN producers THEN <<>>
    ELSE LET q == producers[p]
         IN  [k \in 1..(q.tailIndex - q.headIndex) |-> SlotAt(q, q.headIndex + k - 1)]

Claimed ==
    LET c == local[Consumer]
    IN  CASE c.pc = "entry" -> SlotAt(Mine(Consumer), c.at)
          [] c.pc = "take" /\ c.block = None -> NoEntry
          [] c.pc = "take"  -> slots[c.block][c.at % BlockSize]
          [] OTHER          -> c.entry

(* Whatever the threads do at the same time, the blocks hold what was put  *)
(* into the queue and not yet taken, in its place, and the consumer's      *)
(* claim leads it to the entry that was next: no block is given away while *)
(* it is in use, no index loses one, and no entry is read before it is     *)
(* constructed.                                                            *)
MemoryHoldsTheEntries ==
    /\ \A l \in DOMAIN lanes : Contents(l) = lanes[l]
    /\ Claimed = item

Answer ==
    LET c == local[Consumer]
    IN  CASE c.pc = "idle"  -> "idle"
          [] c.pc = "scan"  -> IF c.must THEN "finds" ELSE "asked"
          [] c.pc = "empty" -> "empty"
          [] OTHER          -> "found"

Logged ==
    UNION {{<<t, k, n>> : k \in 0..MaxExits[t], n \in 1..MaxLogs[t]} : t \in Threads}

Queue == INSTANCE EntryQueue WITH
    MaxLanes <- Cardinality(Threads), Entries <- Logged, lane <- owner, caller <- Answer

(* The queue implements EntryQueue: a thread has its lane alone, even one  *)
(* taken over from a thread that ended, and try_dequeue says "empty" only  *)
(* if nothing was there when it was called.                                *)
IsAQueue == Queue!QueueSpec
=============================================================================
