----------------------------- MODULE RtcLogger -----------------------------
(***************************************************************************)
(* The logger: the threads of the rtc library call log(), which puts an    *)
(* entry into the lock-free queue and wakes the worker; the worker takes   *)
(* entries out and writes them to the file; main calls shutdown(), which   *)
(* stops the worker and writes what is left itself.  The worker and, once  *)
(* it is joined, main are the queue's one consumer.  Of the queue only     *)
(* EntryQueue is used, which LogQueue implements.                          *)
(***************************************************************************)
EXTENDS Naturals, Sequences, SequencesExt

CONSTANTS
    Threads,     \* the threads that log
    MaxLanes,    \* bound: lanes of the queue
    MaxLogs,     \* bound: calls of log() by one thread
    MaxExits,    \* bound: threads that end and come back as another one
    MaxDropped   \* bound: entries the queue has no memory for

ASSUME LoggerBoundsAreNat == {MaxLanes, MaxLogs, MaxExits, MaxDropped} \subseteq Nat

VARIABLES
    lanes, lane, caller, item,    \* the queue
    running,    \* running_
    worker,     \* the worker: in its "loop", "waiting" or "over"
    main,       \* how far main is in shutdown()
    file,       \* thread -> its entries in the file, in order
    dropped,    \* dropped_
    calls,      \* thread -> its calls of log()
    life,       \* thread -> how often it ended
    notifies,   \* the threads whose log() has yet to call notify_one
    accepted,   \* history: thread -> its entries that became visible, in order
    before      \* history: thread -> its entries visible when shutdown() was called

(* An entry names its thread, which of the lives of that thread logged it, *)
(* and the call.                                                           *)
INSTANCE EntryQueue WITH
    Entries <- {<<t, k, n>> : t \in Threads, k \in 0..MaxExits, n \in 1..MaxLogs}

queue == <<lanes, lane, caller, item>>
loggerVars == <<running, worker, main, file, dropped, calls, life, notifies, accepted,
                before>>
vars == <<queue, loggerVars>>

(* RtcLogger::init runs before the library is given rtcLogCallback, so the *)
(* worker is there before the first call of log().                         *)
Init ==
    /\ QueueInit
    /\ running = TRUE
    /\ worker = "loop"
    /\ main = "up"
    /\ file = [t \in Threads |-> <<>>]
    /\ dropped = 0
    /\ calls = [t \in Threads |-> 0]
    /\ life = [t \in Threads |-> 0]
    /\ notifies = {}
    /\ accepted = [t \in Threads |-> <<>>]
    /\ before = [t \in Threads |-> {}]

-----------------------------------------------------------------------------
(* log(), by a thread of the library: enqueue, which may fail, ...         *)
Calls(t) ==
    /\ t \notin notifies /\ calls[t] < MaxLogs
    /\ calls' = [calls EXCEPT ![t] = @ + 1]

Accepted(t) ==
    LET e == <<t, life[t], calls[t] + 1>>
    IN  /\ Calls(t)
        /\ Put(t, e)
        /\ accepted' = [accepted EXCEPT ![t] = Append(@, e)]
        /\ notifies' = notifies \cup {t}
        /\ UNCHANGED <<running, worker, main, file, dropped, life, before>>

Dropped(t) ==
    /\ Calls(t) /\ dropped < MaxDropped
    /\ dropped' = dropped + 1
    /\ UNCHANGED <<queue, running, worker, main, file, life, notifies, accepted, before>>

(* ... then notify_one: a worker that is not waiting does not hear it.     *)
Notify == worker' = IF worker = "waiting" THEN "loop" ELSE worker

NotifyOne(t) ==
    /\ t \in notifies
    /\ notifies' = notifies \ {t}
    /\ Notify
    /\ UNCHANGED <<queue, running, main, file, dropped, calls, life, accepted, before>>

log(t) == Accepted(t) \/ Dropped(t) \/ NotifyOne(t)

FirstCall(t) == Join(t) /\ UNCHANGED loggerVars

ThreadExits(t) ==
    /\ t \notin notifies /\ (\A s \in Threads : life[s] < MaxExits)
    /\ Leave(t)
    /\ life' = [life EXCEPT ![t] = @ + 1]
    /\ UNCHANGED <<running, worker, main, file, dropped, calls, notifies, accepted,
                   before>>

-----------------------------------------------------------------------------
(* try_dequeue looks for an entry.                                         *)
Looks == (Find \/ FindNothing) /\ UNCHANGED loggerVars

\* Faulty: running_ is not looked at.
WorkerLoopForever ==
    /\ worker = "loop" /\ caller = "idle"
    /\ Call
    /\ UNCHANGED <<running, worker, main, file, dropped, calls, life, notifies, accepted,
                   before>>

(* workerLoop: running_ is read, then the queue is tried.                  *)
WorkerLoop ==
    /\ worker = "loop" /\ caller = "idle"
    /\ IF running
       THEN Call /\ UNCHANGED worker
       ELSE worker' = "over" /\ UNCHANGED queue
    /\ UNCHANGED <<running, main, file, dropped, calls, life, notifies, accepted, before>>

writeEntry ==
    /\ caller = "found"
    /\ file' = [file EXCEPT ![item[1]] = Append(@, item)]
    /\ Return
    /\ UNCHANGED <<running, worker, main, dropped, calls, life, notifies, accepted, before>>

(* The queue was empty: wait_for has no predicate, so what happened since  *)
(* the queue was tried is not looked at again.                             *)
WaitFor ==
    /\ worker = "loop" /\ caller = "empty"
    /\ worker' = "waiting"
    /\ Return
    /\ UNCHANGED <<running, main, file, dropped, calls, life, notifies, accepted, before>>

\* Faulty: wait instead of wait_for.
WaitNeverEnds == worker = "waiting" /\ FALSE /\ UNCHANGED vars

(* 50 milliseconds passed, or the wait ended for no reason.                *)
WaitEnds ==
    /\ worker = "waiting"
    /\ worker' = "loop"
    /\ UNCHANGED <<queue, running, main, file, dropped, calls, life, notifies, accepted,
                   before>>

-----------------------------------------------------------------------------
(* shutdown(), by main; the destructor's call finds running_ FALSE.        *)
shutdown ==
    /\ main = "up" /\ running
    /\ running' = FALSE
    /\ main' = "notify"
    /\ before' = [t \in Threads |-> Range(accepted[t])]
    /\ UNCHANGED <<queue, worker, file, dropped, calls, life, notifies, accepted>>

NotifyAll ==
    /\ main = "notify"
    /\ main' = "join"
    /\ Notify
    /\ UNCHANGED <<queue, running, file, dropped, calls, life, notifies, accepted, before>>

\* Faulty: the file is closed once the worker is joined.
drainNothing ==
    /\ main = "join" /\ worker = "over"
    /\ main' = "closed"
    /\ UNCHANGED <<queue, running, worker, file, dropped, calls, life, notifies, accepted,
                   before>>

(* join, then drain: main tries the queue until it finds it empty.         *)
drain ==
    /\ main \in {"join", "drain"} /\ worker = "over"
    /\ main' = "drain"
    /\ Call
    /\ UNCHANGED <<running, worker, file, dropped, calls, life, notifies, accepted, before>>

CloseFile ==
    /\ main = "drain" /\ caller = "empty"
    /\ main' = "closed"
    /\ Return
    /\ UNCHANGED <<running, worker, file, dropped, calls, life, notifies, accepted, before>>

-----------------------------------------------------------------------------
Consuming == Looks \/ WorkerLoop \/ writeEntry \/ WaitFor \/ WaitEnds
Closing == NotifyAll \/ drain \/ CloseFile

Next ==
    \/ Consuming
    \/ shutdown
    \/ Closing
    \/ \E t \in Threads : log(t) \/ FirstCall(t) \/ ThreadExits(t)

(* Every thread is scheduled, and a wait ends after 50 milliseconds.       *)
(* Nobody has to log, to call shutdown() or to exit.                       *)
Spec ==
    /\ Init /\ [][Next]_vars
    /\ WF_vars(Consuming)
    /\ WF_vars(Closing)
    /\ \A t \in Threads : WF_vars(NotifyOne(t))

-----------------------------------------------------------------------------
(* Properties.                                                             *)

(* What a thread logs is written in its order, nothing twice, nothing left *)
(* out in between (log, workerLoop, drain).  A thread that comes back as   *)
(* another one may overtake itself.  Calls are numbered as they are made.  *)
OfOneLife(d, e) == d[1] = e[1] /\ d[2] = e[2]

FileIsInOrder ==
    \A t \in Threads :
        /\ Range(file[t]) \subseteq Range(accepted[t])
        /\ \A i, j \in DOMAIN file[t] :
              (i < j /\ OfOneLife(file[t][i], file[t][j])) => file[t][i][3] < file[t][j][3]
        /\ \A d \in Range(accepted[t]), e \in Range(file[t]) :
              (OfOneLife(d, e) /\ d[3] < e[3]) => d \in Range(file[t])

(* shutdown() writes all that was logged before it was called, also what   *)
(* the worker had just taken from the queue.                               *)
ShutdownWritesAll == main = "closed" =>
    \A t \in Threads : before[t] \subseteq Range(file[t])

(* So the file can be read as what happened.                               *)
FileIsTrue == FileIsInOrder /\ ShutdownWritesAll

(* An entry in the queue is written, though the worker's wait may miss the *)
(* notification, unless shutdown() is called first.                        *)
LoggedIsWritten ==
    \A t \in Threads : \A n \in 1..MaxLogs :
        (Len(accepted[t]) >= n) ~>
            (~running \/ (Len(accepted[t]) >= n /\ Contains(file[t], accepted[t][n])))

(* shutdown() returns, even if the worker misses notify_all, once the      *)
(* other threads stop logging.                                             *)
ShutdownReturns == ~running ~> main = "closed"
============================================================================
