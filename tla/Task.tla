-------------------------------- MODULE Task --------------------------------
(***************************************************************************)
(* task<T> (BaseNet/task.h) and sync_wait (BaseNet/sync_wait.h): coroutine *)
(* frames, the task objects that own them, and the threads that run them.  *)
(*                                                                         *)
(* A program gives every thread and every coroutine a sequence of          *)
(* operations on tasks.  co_await f() is make, await, read and drop: the   *)
(* temporary is destroyed at the end of the expression; sync_wait(f) is    *)
(* wait and block.  Code between the operations is left out.  A coroutine  *)
(* suspends for a request of its thread's io_uring ("io"), whose event     *)
(* loop resumes it, or to go on in a thread of the pool ("schedule").      *)
(* Both resume a handle once for each suspension.                          *)
(*                                                                         *)
(* The steps in which one thread sees what another does to a frame are     *)
(* split: ~task tests done() and then sets the flag; final_suspend is      *)
(* reached (done() is true from here on), tests the flag, may destroy the  *)
(* frame, and reads its promise; sync_wait's coroutine sets its flag and   *)
(* then notifies.                                                          *)
(***************************************************************************)
EXTENDS Naturals, Sequences, FiniteSets

CONSTANTS
    Threads,   \* the threads
    Pool,      \* those that belong to the pool
    Coros,     \* the coroutines, each called at most once
    Programs,  \* functions from threads and coroutines to operations
    None       \* no coroutine, no value

(* The coroutine that sync_wait makes in thread t. *)
Sync(t) == <<"sync", t>>

Syncs == {Sync(t) : t \in Threads}

Frames == Coros \cup Syncs

ASSUME PoolAssumption == Pool \subseteq Threads
ASSUME NamesAssumption ==
    /\ Threads \cap Coros = {}
    /\ (Threads \cup Coros \cup {None}) \cap Syncs = {}
    /\ None \notin Threads \cup Coros

Operations ==
    ({"make", "resume", "detach", "drop", "await", "read", "wait", "block", "sleep"} \X Coros)
        \cup ({"io", "schedule"} \X {None})

(* What the language allows: only a coroutine awaits or suspends; the      *)
(* value of a task is what its co_await returns, and sync_wait waits and   *)
(* then blocks.  That it is called in a thread's own code is the program's *)
(* way.                                                                    *)
WellFormed(p) ==
    /\ p \in [Threads \cup Coros -> Seq(Operations)]
    /\ \A c \in Threads \cup Coros : \A i \in DOMAIN p[c] :
          LET op == p[c][i][1]
              g == p[c][i][2]
          IN  /\ op \in {"await", "read", "io", "schedule"} => c \in Coros
              /\ op \in {"wait", "block"} => c \in Threads
              /\ op = "read" => i > 1 /\ p[c][i - 1] = <<"await", g>>
              /\ op = "block" => i > 1 /\ p[c][i - 1] = <<"wait", g>>
              /\ op = "wait" => i < Len(p[c]) /\ p[c][i + 1] = <<"block", g>>

ASSUME ProgramsAssumption == \A p \in Programs : WellFormed(p)

VARIABLES
    program,   \* the program that is run
    pos,       \* the next operation of each thread and frame
    state,     \* the state of each frame
    detached,  \* the frames whose detached_flag_ is set
    caller,    \* calling_coroutine_ of each frame, or None
    result,    \* return_value_ of each frame, or None
    stack,     \* the frames each thread has resumed, the running one last
    mode,      \* where in a function of task.h or sync_wait.h it is
    queue,     \* the pool's queue
    io,        \* the frames that await a request of each thread's io_uring
    target,    \* the task that each thread's sync_wait awaits
    flag,      \* atomic_flag_ of each thread's sync_wait
    asleep,    \* the threads that sleep until it is notified
    reads,     \* what was read of tasks: by whom, of which, which value
    misuse     \* uses of frames that do not allow them

promises == <<detached, caller, result>>
threads == <<stack, mode>>
waiting == <<queue, io>>
sync == <<target, flag, asleep>>
ghosts == <<reads, misuse>>

vars == <<program, pos, state, promises, threads, waiting, sync, ghosts>>

Owner(s) == s[2]

Init ==
    /\ program \in Programs
    /\ pos = [c \in Threads \cup Frames |-> 1]
    /\ state = [f \in Frames |-> "none"]
    /\ detached = {}
    /\ caller = [f \in Frames |-> None]
    /\ result = [f \in Frames |-> None]
    /\ stack = [t \in Threads |-> <<>>]
    /\ mode = [t \in Threads |-> "run"]
    /\ queue = <<>>
    /\ io = [t \in Threads |-> {}]
    /\ target = [t \in Threads |-> None]
    /\ flag = [t \in Threads |-> FALSE]
    /\ asleep = {}
    /\ reads = {}
    /\ misuse = {}

-----------------------------------------------------------------------------
Top(t) == stack[t][Len(stack[t])]

Below(t) == SubSeq(stack[t], 1, Len(stack[t]) - 1)

(* What thread t is executing: its own code or a frame. *)
Running(t) == IF stack[t] = <<>> THEN t ELSE Top(t)

Code(c) ==
    IF c \in Syncs THEN <<<<"await", target[Owner(c)]>>, <<"read", target[Owner(c)]>>>>
                   ELSE program[c]

AtEnd(t) == mode[t] = "run" /\ pos[Running(t)] > Len(Code(Running(t)))

(* Thread t is about to do an operation of this kind to coroutine g. *)
Does(t, op, g) ==
    /\ mode[t] = "run"
    /\ ~ AtEnd(t)
    /\ Code(Running(t))[pos[Running(t)]] = <<op, g>>

Goes(t) == pos' = [pos EXCEPT ![Running(t)] = @ + 1]

Becomes(f, s) == state' = [state EXCEPT ![f] = s]

Enters(t, m) == mode' = [mode EXCEPT ![t] = m]

Done(f) == state[f] = "final"

(* A use of a frame's memory, noted if the frame is not there any more.    *)
Uses(what, f) ==
    misuse' = IF state[f] = "destroyed" THEN misuse \cup {<<what, f>>} ELSE misuse

(* A frame that is resumed must be suspended.                              *)
Resumes(f) ==
    misuse' = IF state[f] \in {"initial", "suspended"} THEN misuse
                                                       ELSE misuse \cup {<<"resume", f>>}

-----------------------------------------------------------------------------
(* task *)

(* The call of a coroutine: initial_suspend is suspend_always. *)
Make(t, g) ==
    /\ Does(t, "make", g)
    /\ Becomes(g, "initial")
    /\ Goes(t)
    /\ UNCHANGED <<program, promises, threads, waiting, sync, ghosts>>

(* task::resume returns at once if the coroutine is done. *)
Resume(t, g) ==
    /\ Does(t, "resume", g)
    /\ Goes(t)
    /\ IF Done(g)
       THEN UNCHANGED <<state, stack, misuse>>
       ELSE /\ Resumes(g)
            /\ Becomes(g, "running")
            /\ stack' = [stack EXCEPT ![t] = Append(@, g)]
    /\ UNCHANGED <<program, promises, mode, waiting, sync, reads>>

(* A mutant: only the handle is forgotten. *)
DetachedWithoutFlag(g) == detached

Detached(g) == detached \cup {g}

Detach(t, g) ==
    /\ Does(t, "detach", g)
    /\ Uses("flag", g)
    /\ detached' = Detached(g)
    /\ Goes(t)
    /\ UNCHANGED <<program, state, caller, result, threads, waiting, sync, reads>>

(* ~task *)
Drop(t, g) ==
    /\ Does(t, "drop", g)
    /\ Uses("done", g)
    /\ IF Done(g)
       THEN Becomes(g, "destroyed") /\ Goes(t) /\ UNCHANGED mode
       ELSE Enters(t, "dropping") /\ UNCHANGED <<state, pos>>
    /\ UNCHANGED <<program, promises, stack, waiting, sync, reads>>

(* It was not done. *)
SetDetached(t, g) ==
    /\ mode[t] = "dropping"
    /\ Code(Running(t))[pos[Running(t)]][2] = g
    /\ Uses("flag", g)
    /\ detached' = Detached(g)
    /\ Enters(t, "run")
    /\ Goes(t)
    /\ UNCHANGED <<program, state, caller, result, stack, waiting, sync, reads>>

Noted(g, c) == [caller EXCEPT ![g] = c]

(* co_await: await_ready, and if it is not done await_suspend, which       *)
(* transfers to the coroutine.                                             *)
Await(t, g) ==
    /\ Does(t, "await", g)
    /\ Goes(t)
    /\ IF Done(g)
       THEN UNCHANGED <<state, caller, stack, misuse>>
       ELSE /\ Resumes(g)
            /\ caller' = Noted(g, Running(t))
            /\ state' = [state EXCEPT ![Running(t)] = "suspended", ![g] = "running"]
            /\ stack' = [stack EXCEPT ![t] = Append(Below(t), g)]
    /\ UNCHANGED <<program, detached, result, mode, waiting, sync, reads>>

(* await_resume: get_return_value. *)
Read(t, g) ==
    /\ Does(t, "read", g)
    /\ Uses("value", g)
    /\ reads' = reads \cup {<<Running(t), g, result[g]>>}
    /\ Goes(t)
    /\ UNCHANGED <<program, state, promises, threads, waiting, sync>>

-----------------------------------------------------------------------------
(* The event loop and the pool *)

Suspend(t) ==
    /\ Goes(t)
    /\ Becomes(Top(t), "suspended")
    /\ stack' = [stack EXCEPT ![t] = Below(t)]

Io(t) ==
    /\ Does(t, "io", None)
    /\ Suspend(t)
    /\ io' = [io EXCEPT ![t] = @ \cup {Top(t)}]
    /\ UNCHANGED <<program, promises, mode, queue, sync, ghosts>>

Schedule(t) ==
    /\ Does(t, "schedule", None)
    /\ Suspend(t)
    /\ queue' = Append(queue, Top(t))
    /\ UNCHANGED <<program, promises, mode, io, sync, ghosts>>

ResumeHandle(t, f) ==
    /\ stack[t] = <<>>
    /\ AtEnd(t)
    /\ Resumes(f)
    /\ Becomes(f, "running")
    /\ stack' = [stack EXCEPT ![t] = <<f>>]
    /\ UNCHANGED <<program, pos, promises, mode, sync, reads>>

Completion(t) ==
    \E f \in io[t] :
        ResumeHandle(t, f) /\ io' = [io EXCEPT ![t] = @ \ {f}] /\ UNCHANGED queue

Dequeue(t) ==
    /\ t \in Pool
    /\ queue # <<>>
    /\ ResumeHandle(t, Head(queue))
    /\ queue' = Tail(queue)
    /\ UNCHANGED io

-----------------------------------------------------------------------------
(* The end of a coroutine *)

(* The coroutine of sync_wait returns what it read. *)
SyncValue(t) == result[target[t]]

(* The value another coroutine returns is its name. *)
Value(f) == IF f \in Syncs THEN SyncValue(Owner(f)) ELSE f

(* return_value, and final_suspend begins: from here on done() is true.    *)
Return(t) ==
    /\ AtEnd(t)
    /\ stack[t] # <<>>
    /\ result' = [result EXCEPT ![Top(t)] = Value(Top(t))]
    /\ Becomes(Top(t), "final")
    /\ Enters(t, IF Top(t) \in Syncs THEN "setting" ELSE "testing")
    /\ UNCHANGED <<program, pos, detached, caller, stack, waiting, sync, ghosts>>

(* A mutant: the flag is not tested. *)
DestroysAlways(f) == TRUE

Destroys(f) == f \in detached

TestFlag(t) ==
    /\ mode[t] = "testing"
    /\ Uses("flag", Top(t))
    /\ IF Destroys(Top(t)) THEN Becomes(Top(t), "destroyed") ELSE UNCHANGED state
    /\ Enters(t, "transferring")
    /\ UNCHANGED <<program, pos, promises, stack, waiting, sync, reads>>

(* The promise is read even if the frame has been destroyed, in memory     *)
(* that this thread has just freed and that still has what it had; then    *)
(* the caller is resumed.                                                  *)
Transfer(t) ==
    /\ mode[t] = "transferring"
    /\ LET c == caller[Top(t)]
       IN  IF c = None
           THEN /\ Uses("caller", Top(t))
                /\ stack' = [stack EXCEPT ![t] = Below(t)]
                /\ UNCHANGED state
           ELSE /\ misuse' = misuse
                     \cup (IF state[Top(t)] = "destroyed" THEN {<<"caller", Top(t)>>} ELSE {})
                     \cup (IF state[c] = "suspended" THEN {} ELSE {<<"resume", c>>})
                /\ stack' = [stack EXCEPT ![t] = Append(Below(t), c)]
                /\ Becomes(c, "running")
    /\ Enters(t, "run")
    /\ UNCHANGED <<program, pos, promises, waiting, sync, reads>>

-----------------------------------------------------------------------------
(* sync_wait *)

(* The lambda is a coroutine that does not suspend at its beginning. *)
Wait(t, g) ==
    /\ Does(t, "wait", g)
    /\ target' = [target EXCEPT ![t] = g]
    /\ flag' = [flag EXCEPT ![t] = FALSE]
    /\ Becomes(Sync(t), "running")
    /\ pos' = [pos EXCEPT ![t] = @ + 1, ![Sync(t)] = 1]
    /\ stack' = [stack EXCEPT ![t] = <<Sync(t)>>]
    /\ UNCHANGED <<program, promises, mode, waiting, asleep, ghosts>>

(* final_suspend of the lambda: test_and_set ... *)
SetFlag(t) ==
    /\ mode[t] = "setting"
    /\ Uses("flag", Top(t))
    /\ flag' = [flag EXCEPT ![Owner(Top(t))] = TRUE]
    /\ Enters(t, "notifying")
    /\ UNCHANGED <<program, pos, state, promises, stack, waiting, target, asleep, reads>>

(* ... and notify_all, on the flag by its address. *)
Notify(t) ==
    /\ mode[t] = "notifying"
    /\ Uses("notify", Top(t))
    /\ asleep' = asleep \ {Owner(Top(t))}
    /\ stack' = [stack EXCEPT ![t] = Below(t)]
    /\ Enters(t, "run")
    /\ UNCHANGED <<program, pos, state, promises, waiting, target, flag, reads>>

(* A mutant: the flag is not waited for. *)
NotWaited(t) == t \notin asleep

Released(t) == flag[t] /\ t \notin asleep

(* wait(false) sleeps, or returns; then the value is read and the lambda's *)
(* frame destroyed.                                                        *)
Block(t, g) ==
    /\ Does(t, "block", g)
    /\ \/ /\ Released(t)
          /\ reads' = reads \cup {<<t, g, result[Sync(t)]>>}
          /\ Becomes(Sync(t), "destroyed")
          /\ Goes(t)
          /\ UNCHANGED asleep
       \/ /\ ~ flag[t] /\ t \notin asleep
          /\ asleep' = asleep \cup {t}
          /\ UNCHANGED <<pos, state, reads>>
    /\ UNCHANGED <<program, promises, threads, waiting, target, flag, misuse>>

(* A program that waits, by the clock, until a coroutine has ended.        *)
Sleep(t, g) ==
    /\ Does(t, "sleep", g)
    /\ Done(g)
    /\ \A u \in Threads : \A i \in DOMAIN stack[u] : stack[u][i] # g
    /\ Goes(t)
    /\ UNCHANGED <<program, state, promises, threads, waiting, sync, ghosts>>

-----------------------------------------------------------------------------
Step(t) ==
    \/ \E g \in Coros :
          \/ Make(t, g) \/ Resume(t, g) \/ Detach(t, g)
          \/ Drop(t, g) \/ SetDetached(t, g)
          \/ Await(t, g) \/ Read(t, g)
          \/ Wait(t, g) \/ Block(t, g) \/ Sleep(t, g)
    \/ Io(t) \/ Schedule(t)
    \/ Completion(t) \/ Dequeue(t)
    \/ Return(t) \/ TestFlag(t) \/ Transfer(t)
    \/ SetFlag(t) \/ Notify(t)

Next == \E t \in Threads : Step(t)

(* Threads run, and the kernel completes every request.                    *)
Spec == Init /\ [][Next]_vars /\ \A t \in Threads : WF_vars(Step(t))

-----------------------------------------------------------------------------
(* No frame is used once it is destroyed, destroyed twice, or resumed      *)
(* unless it is suspended, but for what the code itself does: the promise  *)
(* of a detached frame is read after the frame is destroyed (task.h:108),  *)
(* and sync_wait's caller, released by the flag, may destroy the frame     *)
(* before its flag is notified (sync_wait.h:63).                           *)
UsedAlive ==
    misuse \subseteq ({"caller"} \X detached) \cup ({"notify"} \X Syncs)

(* Whoever has awaited a task, on whatever thread it ended, reads the      *)
(* value it returned (task.h:48, sync_wait.h:29).                          *)
ReadsReturned == \A r \in reads : r[3] = r[2]

(* Programs of which more can be said. One runs each coroutine in one      *)
(* place; Listen is about what two do.                                     *)
Starts == {"resume", "await", "wait"}

StartedOnce(p) ==
    \A c, d \in Threads \cup Coros : \A i \in DOMAIN p[c], j \in DOMAIN p[d] :
        p[c][i][1] \in Starts /\ p[d][j][1] \in Starts /\ p[c][i][2] = p[d][j][2]
        => c = d /\ i = j

(* Each coroutine has an owner, which makes it, starts it and lets it go,  *)
(* and does nothing with it afterwards.                                    *)
Owned(p) ==
    /\ \A c, d \in Threads \cup Coros : \A i \in DOMAIN p[c], j \in DOMAIN p[d] :
          p[c][i][2] = p[d][j][2] =>
              /\ p[c][i][1] = "make" => c = d /\ i <= j
              /\ p[c][i][1] \in {"detach", "drop"} => c = d /\ j <= i
    /\ \A c \in Threads \cup Coros : \A i \in DOMAIN p[c] :
          p[c][i][1] \in Starts => \E j \in 1 .. i - 1 : p[c][j] = <<"make", p[c][i][2]>>

(* What is dropped has ended, or no coroutine leaves the thread, home to   *)
(* it, that starts it.                                                     *)
DropsEnded(p) ==
    \A c \in Threads \cup Coros : \A i \in DOMAIN p[c] : p[c][i][1] = "drop" =>
        \E j \in 1 .. i - 1 : p[c][j] \in {"read", "block", "sleep"} \X {p[c][i][2]}

StaysHome(p, home) ==
    /\ \A t \in Threads : home[t] = t
    /\ \A c \in Threads \cup Coros : \A i \in DOMAIN p[c] :
          /\ p[c][i][1] # "schedule"
          /\ p[c][i][1] \in Starts => home[p[c][i][2]] = home[c]

Orderly(p) ==
    /\ StartedOnce(p) /\ Owned(p)
    /\ DropsEnded(p) \/ \E home \in [Threads \cup Coros -> Threads] : StaysHome(p, home)

(* Every frame is destroyed at last: the tasks that are awaited return to  *)
(* their callers, sync_wait returns, and no detached frame is left behind  *)
(* (task.h:23, 80, 102; sync_wait.h:34).                                   *)
FramesFreed == \A f \in Frames : state[f] # "none" ~> state[f] = "destroyed"
=============================================================================
