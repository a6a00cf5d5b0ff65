------------------------------- MODULE Listen -------------------------------
(***************************************************************************)
(* http_server::listen (BaseNet/http_server.cpp) with the tasks it makes   *)
(* (task.h) and sync_wait_all (sync_wait.h): one coroutine for each thread *)
(* of the pool.  Each moves to a pool thread by co_await schedule(), makes *)
(* a thread_worker there and awaits its event_loop, which never ends;      *)
(* meanwhile listen awaits the coroutines in order.                        *)
(*                                                                         *)
(* A coroutine frame is resumed at the suspension point it has stored, by  *)
(* whichever thread calls resume.  Awaiting a task resumes it (symmetric   *)
(* transfer from task_awaiter::await_suspend), whether it has been started *)
(* before or not, and schedule() leaves a handle with the pool: so two     *)
(* threads may resume one frame, one after the other or together.          *)
(*                                                                         *)
(* The pool is what ThreadPool promises: a queued handle is resumed by one *)
(* thread that has nothing else to do.                                     *)
(***************************************************************************)
EXTENDS Naturals, Sequences

CONSTANT N  \* thread_pool_.size(), and so many coroutines

ASSUME NAssumption == N \in Nat \ {0}

Main == 0        \* the thread that calls listen

Pool == 1 .. N   \* the threads of the pool

Workers == 1 .. N  \* thread_worker_list, and the coroutine of each task

VARIABLES
    queue,   \* the handles in the pool's queue
    point,   \* where each coroutine continues when it is resumed
    caller,  \* the coroutines whose calling_coroutine is sync_wait's
    flag,    \* the coroutines whose sync_wait has been notified
    pc,      \* what each thread does
    job,     \* the coroutine it does it for
    open     \* the coroutines whose thread_worker exists

vars == <<queue, point, caller, flag, pc, job, open>>

Threads == {Main} \cup Pool

Init ==
    /\ queue = <<>>
    /\ point = [i \in Workers |-> "initial"]
    /\ caller = {}
    /\ flag = {}
    /\ pc = [t \in Threads |-> IF t = Main THEN "starting" ELSE "idle"]
    /\ job = [t \in Threads |-> 1]
    /\ open = {}

Goto(t, next) == pc' = [pc EXCEPT ![t] = next]

-----------------------------------------------------------------------------
(* listen, on the main thread *)

(* A mutant: the task is awaited before the next is made. *)
AfterStartWait(i) == Goto(Main, "awaiting") /\ UNCHANGED job

(* A mutant: off by one, the loop makes a task more. *)
AfterStartOneMore(i) ==
    IF i <= N THEN job' = [job EXCEPT ![Main] = i + 1] /\ UNCHANGED pc
              ELSE job' = [job EXCEPT ![Main] = 1] /\ Goto(Main, "awaiting")

(* The loop goes on, and sync_wait_all follows it. *)
AfterStart(i) ==
    IF i < N THEN job' = [job EXCEPT ![Main] = i + 1] /\ UNCHANGED pc
             ELSE job' = [job EXCEPT ![Main] = 1] /\ Goto(Main, "awaiting")

(* construct_task, and its resume up to co_await schedule(). *)
Start ==
    /\ pc[Main] = "starting"
    /\ LET i == job[Main]
       IN  /\ point' = [point EXCEPT ![i] = "schedule"]
           /\ queue' = Append(queue, i)
           /\ AfterStart(i)
    /\ UNCHANGED <<caller, flag, open>>

(* A mutant: a task counts as done once it has been started. *)
DoneOnceStarted(i) == point[i] # "initial"

(* coroutine_.done() *)
Done(i) == point[i] = "final"

(* sync_wait: co_await task.  If the task is done sync_wait's coroutine    *)
(* ends at once; otherwise await_suspend notes it as the caller and        *)
(* transfers to the task's coroutine.                                      *)
Await ==
    /\ pc[Main] = "awaiting"
    /\ IF Done(job[Main])
       THEN /\ flag' = flag \cup {job[Main]}
            /\ Goto(Main, "waiting")
            /\ UNCHANGED caller
       ELSE /\ caller' = caller \cup {job[Main]}
            /\ Goto(Main, "resume")
            /\ UNCHANGED flag
    /\ UNCHANGED <<queue, point, job, open>>

(* atomic_flag.wait(false); then the next task, or the end of listen. *)
Wait ==
    /\ pc[Main] = "waiting"
    /\ job[Main] \in flag
    /\ IF job[Main] < N
       THEN job' = [job EXCEPT ![Main] = @ + 1] /\ Goto(Main, "awaiting")
       ELSE UNCHANGED job /\ Goto(Main, "returned")
    /\ UNCHANGED <<queue, point, caller, flag, open>>

-----------------------------------------------------------------------------
(* thread_loop: take a handle, then resume it *)

(* A mutant: front() without pop(). *)
PopNothing == UNCHANGED queue

Pop == queue' = Tail(queue)

Take(t) ==
    /\ t \in Pool
    /\ pc[t] = "idle"
    /\ queue # <<>>
    /\ job' = [job EXCEPT ![t] = Head(queue)]
    /\ Pop
    /\ Goto(t, "resume")
    /\ UNCHANGED <<point, caller, flag, open>>

-----------------------------------------------------------------------------
(* A coroutine, on the thread t that resumes it *)

(* resume reads the suspension point; running on does not change it. *)
Resume(t) ==
    /\ pc[t] = "resume"
    /\ \/ point[job[t]] = "schedule" /\ Goto(t, "making")
       \/ point[job[t]] = "event_loop" /\ Goto(t, "leaving")
    /\ UNCHANGED <<queue, point, caller, flag, job, open>>

(* The thread_worker is made, in the frame; then co_await event_loop().    *)
(* A second thread that comes here makes it again over the first.          *)
Serve(t) ==
    /\ pc[t] = "making"
    /\ open' = open \cup {job[t]}
    /\ point' = [point EXCEPT ![job[t]] = "event_loop"]
    /\ Goto(t, "serving")
    /\ UNCHANGED <<queue, caller, flag, job>>

(* After co_await event_loop(): the temporaries are destroyed, the         *)
(* thread_worker and with it its socket, and the coroutine is done.        *)
Leave(t) ==
    /\ pc[t] = "leaving"
    /\ open' = open \ {job[t]}
    /\ point' = [point EXCEPT ![job[t]] = "final"]
    /\ Goto(t, "ending")
    /\ UNCHANGED <<queue, caller, flag, job>>

(* final_suspend transfers to the caller, if there is one: sync_wait's     *)
(* coroutine, whose own final_suspend sets the flag.  Then resume returns. *)
End(t) ==
    /\ pc[t] = "ending"
    /\ flag' = IF job[t] \in caller THEN flag \cup {job[t]} ELSE flag
    /\ Goto(t, IF t = Main THEN "waiting" ELSE "idle")
    /\ UNCHANGED <<queue, point, caller, job, open>>

-----------------------------------------------------------------------------
ListenStep == Start \/ Await \/ Wait

CoroutineStep(t) == Resume(t) \/ Serve(t) \/ Leave(t) \/ End(t)

Next ==
    \/ ListenStep
    \/ \E t \in Threads : Take(t) \/ CoroutineStep(t)

Spec == Init /\ [][Next]_vars

(* Threads run, and the pool resumes what is queued. *)
Fairness ==
    /\ WF_vars(ListenStep)
    /\ \A t \in Threads : WF_vars(Take(t) \/ CoroutineStep(t))

FairSpec == Spec /\ Fairness

-----------------------------------------------------------------------------
(* Every variable has the values the code gives it.                        *)
TypeOK ==
    /\ queue \in Seq(Workers)
    /\ point \in [Workers -> {"initial", "schedule", "event_loop", "final"}]
    /\ caller \subseteq Workers
    /\ flag \subseteq Workers
    /\ pc \in [Threads -> {"starting", "awaiting", "waiting", "returned", "idle",
                           "resume", "making", "serving", "leaving", "ending"}]
    /\ job \in [Threads -> Workers]
    /\ open \subseteq Workers

(* A frame that has ended is never resumed, although two threads may       *)
(* resume it and each looks only before: listen at done(), the pool not at *)
(* all (task.h:48-50, 58-63; threadpool.cpp:33-36).                        *)
EndedNotResumed ==
    \A t \in Threads : pc[t] = "resume" => point[job[t]] # "final"

(* listen goes on from a task only when its coroutine has ended and its    *)
(* worker is gone, whoever ended it (sync_wait.h:34-37, 58-64, 148-151).   *)
Passed(i) == pc[Main] = "returned" \/ (pc[Main] \notin {"starting"} /\ i < job[Main])

WaitsForEach ==
    \A i \in Workers : Passed(i) => point[i] = "final" /\ i \notin open

(* Each thread that serves has a worker of its own, with its own socket,   *)
(* as long as it serves (readme.md:4).                                     *)
OwnWorker ==
    \A t \in Threads :
        pc[t] = "serving" =>
            /\ job[t] \in open
            /\ \A u \in Threads \ {t} :
                  job[u] = job[t] => pc[u] \notin {"making", "serving"}

(* Each coroutine gets a thread and makes its worker, although each of     *)
(* them keeps its thread for ever, and one may keep listen's.              *)
EachWorkerStarts == \A i \in Workers : <>(i \in open)
=============================================================================
