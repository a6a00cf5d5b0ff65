----------------------------- MODULE ThreadPool -----------------------------
(***************************************************************************)
(* thread_pool (BaseNet/threadpool.h, threadpool.cpp): a mutex, a          *)
(* condition variable and a queue of suspended coroutine handles, served   *)
(* by threads that run thread_loop.  A coroutine enters the queue by       *)
(* co_await schedule(), either from the thread that owns the pool or, when *)
(* it awaits again, from the pool thread that was running it.              *)
(*                                                                         *)
(* The lock-protected parts of thread_loop and enqueue are one step each:  *)
(* nothing but the stop flag can change while the mutex is held.  What is  *)
(* split is what other threads can see in between: the test of the flag    *)
(* outside the lock, the acquisition of the mutex, the decision to sleep   *)
(* (the predicate was false) and the sleep itself, and the three stages of *)
(* the destructor, which never takes the mutex.                            *)
(***************************************************************************)
EXTENDS Naturals, Sequences, FiniteSets

CONSTANTS
    Threads,      \* the pool's threads
    Coroutines,   \* the coroutines that await schedule()
    Endless,      \* those that, once resumed, never return to the pool
    MaxAwaits,    \* a coroutine awaits schedule() at most so often
    Nobody        \* no thread, no coroutine

ASSUME ThreadsAssumption == IsFiniteSet(Threads)
ASSUME EndlessAssumption == Endless \subseteq Coroutines
ASSUME AwaitsAssumption == MaxAwaits \in Nat \ {0}
ASSUME NobodyAssumption == Nobody \notin Threads /\ Nobody \notin Coroutines

VARIABLES
    pc,       \* where each thread is in thread_loop
    running,  \* the coroutine each thread is resuming, or Nobody
    queue,    \* m_coroutine_queue
    mutex,    \* the thread that holds m_mutex, or Nobody
    stop,     \* m_stop_source.stop_requested()
    owner,    \* what the thread that owns the pool is doing
    awaits    \* how often each coroutine may still await schedule()

vars == <<pc, running, queue, mutex, stop, owner, awaits>>

Init ==
    /\ pc = [t \in Threads |-> "check"]
    /\ running = [t \in Threads |-> Nobody]
    /\ queue = <<>>
    /\ mutex = Nobody
    /\ stop = FALSE
    /\ owner = "using"
    /\ awaits = [h \in Coroutines |-> MaxAwaits]

-----------------------------------------------------------------------------
(* m_cv.wait(lock, predicate) and the notifications *)

(* A mutant: off by one, the last handle does not count. *)
HasMoreWork == Len(queue) > 1

(* The predicate of the wait, the stop flag apart. *)
HasWork == queue # <<>>

(* A mutant: notify only when the queue was empty before the push. *)
NotifyFirst(p) ==
    LET asleep == {t \in Threads : p[t] = "asleep"}
    IN  IF asleep = {} \/ HasWork THEN {p}
        ELSE {[p EXCEPT ![t] = "lock"] : t \in asleep}

(* notify_one: some sleeping thread, if there is one, goes for the mutex. *)
NotifyOne(p) ==
    LET asleep == {t \in Threads : p[t] = "asleep"}
    IN  IF asleep = {} THEN {p}
        ELSE {[p EXCEPT ![t] = "lock"] : t \in asleep}

(* notify_all: every sleeping thread goes for the mutex. *)
NotifyAll(p) ==
    [t \in Threads |-> IF p[t] = "asleep" THEN "lock" ELSE p[t]]

-----------------------------------------------------------------------------
(* thread_loop *)

(* while (!stop_requested()): read without the mutex. *)
Check(t) ==
    /\ pc[t] = "check"
    /\ pc' = [pc EXCEPT ![t] = IF stop THEN "exit" ELSE "lock"]
    /\ UNCHANGED <<running, queue, mutex, stop, owner, awaits>>

(* The unique_lock, and the lock that wait takes again when woken. *)
Lock(t) ==
    /\ pc[t] = "lock"
    /\ mutex = Nobody
    /\ mutex' = t
    /\ pc' = [pc EXCEPT ![t] = "locked"]
    /\ UNCHANGED <<running, queue, stop, owner, awaits>>

(* The predicate was true because of the stop flag: return, unlocking. *)
Leave(t) ==
    /\ pc[t] = "locked"
    /\ stop
    /\ pc' = [pc EXCEPT ![t] = "exit"]
    /\ mutex' = Nobody
    /\ UNCHANGED <<running, queue, stop, owner, awaits>>

(* A mutant: front() without pop(). *)
PopNothing == UNCHANGED queue

Pop == queue' = Tail(queue)

(* front, pop, unlock, and handle.resume() begins. *)
Take(t) ==
    /\ pc[t] = "locked"
    /\ ~stop
    /\ HasWork
    /\ running' = [running EXCEPT ![t] = Head(queue)]
    /\ Pop
    /\ pc' = [pc EXCEPT ![t] = "run"]
    /\ mutex' = Nobody
    /\ UNCHANGED <<stop, owner, awaits>>

(* The predicate was false: wait is going to sleep, still with the mutex. *)
DecideToSleep(t) ==
    /\ pc[t] = "locked"
    /\ ~stop
    /\ ~HasWork
    /\ pc' = [pc EXCEPT ![t] = "dozing"]
    /\ UNCHANGED <<running, queue, mutex, stop, owner, awaits>>

(* wait releases the mutex and sleeps, in one step. *)
Sleep(t) ==
    /\ pc[t] = "dozing"
    /\ pc' = [pc EXCEPT ![t] = "asleep"]
    /\ mutex' = Nobody
    /\ UNCHANGED <<running, queue, stop, owner, awaits>>

(* A condition variable may wake a thread that nobody notified. *)
SpuriousWakeup(t) ==
    /\ pc[t] = "asleep"
    /\ pc' = [pc EXCEPT ![t] = "lock"]
    /\ UNCHANGED <<running, queue, mutex, stop, owner, awaits>>

(* The resumed coroutine ends or suspends elsewhere: resume() returns. *)
Return(t) ==
    /\ pc[t] = "run"
    /\ running[t] \in Coroutines \ Endless
    /\ running' = [running EXCEPT ![t] = Nobody]
    /\ pc' = [pc EXCEPT ![t] = "check"]
    /\ UNCHANGED <<queue, mutex, stop, owner, awaits>>

-----------------------------------------------------------------------------
(* schedule().await_suspend -> enqueue: lock, push, notify_one, unlock *)

(* A mutant: the handle was moved from before it is pushed. *)
PushNull(h) == queue' = Append(queue, Nobody)

(* Once the queue is destroyed a push is undefined; the handle is lost.    *)
Push(h) == queue' = IF owner = "joining" THEN queue ELSE Append(queue, h)

(* A resumed coroutine awaits schedule() again on the pool's own thread; *)
(* once its handle is queued, resume() returns to thread_loop.           *)
Reschedule(t) ==
    /\ pc[t] = "run"
    /\ running[t] \in Coroutines \ Endless
    /\ awaits[running[t]] > 0
    /\ mutex = Nobody
    /\ awaits' = [awaits EXCEPT ![running[t]] = @ - 1]
    /\ Push(running[t])
    /\ pc' \in NotifyOne([pc EXCEPT ![t] = "check"])
    /\ running' = [running EXCEPT ![t] = Nobody]
    /\ UNCHANGED <<mutex, stop, owner>>

(* The owner resumes a coroutine up to its first co_await schedule(). *)
Schedule(h) ==
    /\ owner = "using"
    /\ awaits[h] = MaxAwaits
    /\ mutex = Nobody
    /\ awaits' = [awaits EXCEPT ![h] = @ - 1]
    /\ Push(h)
    /\ pc' \in NotifyOne(pc)
    /\ UNCHANGED <<running, mutex, stop, owner>>

-----------------------------------------------------------------------------
(* ~thread_pool: request_stop(), notify_all(), neither under the mutex;    *)
(* then the members in reverse order: the queue and the condition variable *)
(* (whose destruction waits for the threads that sleep on it), the mutex,  *)
(* and last the jthreads, which are joined.                                *)

RequestStop ==
    /\ owner = "using"
    /\ stop' = TRUE
    /\ owner' = "stopping"
    /\ UNCHANGED <<pc, running, queue, mutex, awaits>>

WakeAll ==
    /\ owner = "stopping"
    /\ pc' = NotifyAll(pc)
    /\ owner' = "destroying"
    /\ UNCHANGED <<running, queue, mutex, stop, awaits>>

(* Handles still queued are dropped: their coroutines are never resumed. *)
DestroyMembers ==
    /\ owner = "destroying"
    /\ \A t \in Threads : pc[t] # "asleep"
    /\ queue' = <<>>
    /\ owner' = "joining"
    /\ UNCHANGED <<pc, running, mutex, stop, awaits>>

Join ==
    /\ owner = "joining"
    /\ \A t \in Threads : pc[t] = "exit"
    /\ owner' = "gone"
    /\ UNCHANGED <<pc, running, queue, mutex, stop, awaits>>

-----------------------------------------------------------------------------
ThreadStep(t) ==
    \/ Check(t) \/ Lock(t) \/ Leave(t) \/ Take(t) \/ DecideToSleep(t)
    \/ Sleep(t) \/ Return(t) \/ Reschedule(t)

Destructor == WakeAll \/ DestroyMembers \/ Join

Next ==
    \/ \E t \in Threads : ThreadStep(t) \/ SpuriousWakeup(t)
    \/ \E h \in Coroutines : Schedule(h)
    \/ RequestStop
    \/ Destructor

Spec == Init /\ [][Next]_vars

(* Threads that can step do so, and a destructor that has begun goes on.  *)
(* Nothing forces a spurious wakeup, a new coroutine or the pool's end.   *)
Fairness ==
    /\ \A t \in Threads : WF_vars(ThreadStep(t))
    /\ WF_vars(Destructor)

FairSpec == Spec /\ Fairness

-----------------------------------------------------------------------------
(* Every variable has the values thread_loop, enqueue and the destructor   *)
(* give it.                                                                *)
TypeOK ==
    /\ pc \in [Threads -> {"check", "lock", "locked", "dozing", "asleep",
                           "run", "exit"}]
    /\ running \in [Threads -> Coroutines \cup {Nobody}]
    /\ queue \in Seq(Coroutines)
    /\ mutex \in Threads \cup {Nobody}
    /\ stop \in BOOLEAN
    /\ owner \in {"using", "stopping", "destroying", "joining", "gone"}
    /\ awaits \in [Coroutines -> 0 .. MaxAwaits]

(* A coroutine handle is in one place at a time: queued once, or being     *)
(* resumed by one thread.  Resuming a handle from two threads, or once     *)
(* more after it was popped, would run one frame twice at the same time    *)
(* (threadpool.cpp:33-36, 40-44).                                          *)
HandleInOnePlace ==
    /\ \A i, j \in 1 .. Len(queue) : queue[i] = queue[j] => i = j
    /\ \A t, u \in Threads :
          running[t] = running[u] /\ running[t] # Nobody => t = u
    /\ \A t \in Threads, i \in 1 .. Len(queue) : running[t] # queue[i]

(* No lost wakeup for work, and no idle thread either: while the pool is   *)
(* in use and some thread sleeps, each queued handle has a thread of its   *)
(* own on the way to the queue.  http_server::listen needs it: it queues   *)
(* as many coroutines as there are threads and none of them ever returns   *)
(* (threadpool.cpp:26-29, 40-44; http_server.cpp:159-164).                 *)
OnTheWay == {t \in Threads : pc[t] \in {"check", "lock", "locked"}}

Idle == {t \in Threads : pc[t] \in {"dozing", "asleep"}}

WorkConserving ==
    owner = "using" /\ Idle # {} => Len(queue) <= Cardinality(OnTheWay)

(* Each queued handle is resumed, as long as the pool is not destroyed and *)
(* no more coroutines than threads keep their thread for ever.             *)
QueuedIsResumed ==
    \A h \in Coroutines :
        (\E i \in 1 .. Len(queue) : queue[i] = h)
            ~> (\E t \in Threads : running[t] = h) \/ owner # "using"

(* The destructor returns once it has begun: threads notice the stop and   *)
(* are joined.  threadpool_test.cpp relies on it when main ends.           *)
DestructorReturns == owner = "stopping" ~> owner = "gone"
=============================================================================
