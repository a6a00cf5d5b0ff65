------------------------------- MODULE MCTask -------------------------------
(***************************************************************************)
(* Task with programs in which every coroutine is started in one place:    *)
(* how the repository's tests, handlers and responses use tasks, and       *)
(* sync_wait of tasks that nobody has started.  listen is not one of them: *)
(* it resumes its tasks, which leaves their handles in the pool's queue,   *)
(* and then awaits them (http_server.cpp:162, 165).  What comes of that,   *)
(* two threads in one frame, is Listen's.                                  *)
(***************************************************************************)
EXTENDS Task, SequencesExt

CONSTANTS main, p1, p2, a, b, x, y

MCThreads == {main, p1, p2}
MCCoros == {a, b, x, y}

Io1 == <<<<"io", None>>>>
Schedule1 == <<<<"schedule", None>>>>

Co(f) == <<<<"make", f>>, <<"await", f>>, <<"read", f>>, <<"drop", f>>>>
Fire(f) == <<<<"make", f>>, <<"resume", f>>, <<"detach", f>>>>
Started(f) == <<<<"make", f>>, <<"resume", f>>>>
SyncWait(f) == <<<<"wait", f>>, <<"block", f>>>>
Dropped(f) == <<<<"drop", f>>>>
Slept(f) == <<<<"sleep", f>>>>
Called(f) == <<<<"make", f>>>>

(* What the threads and coroutines do, the others of them nothing.         *)
Program(code) ==
    [c \in MCThreads \cup MCCoros |-> IF c \in DOMAIN code THEN code[c] ELSE <<>>]

(* A coroutine's own suspensions. *)
Hops == {<<>>, Schedule1, Schedule1 \o Schedule1}
Waits == {<<>>, Io1, Io1 \o Io1}

(* task_test: nested coroutines that end at once. *)
Nested == Program([c \in {main, a, x} |->
    CASE c = main -> Started(a) \o Dropped(a) [] c = a -> Co(x) [] c = x -> Co(y)])

(* threadpool_test: tasks that go on in the pool, dropped after a second.  *)
Pooled(h, k) == Program([c \in {main, a, b} |->
    CASE c = main -> Started(a) \o Started(b) \o Slept(a) \o Slept(b)
                       \o Dropped(b) \o Dropped(a)
      [] c = a -> h [] c = b -> k])

(* sync_wait_all of tasks that it starts itself, which await others in     *)
(* turn and go on in the pool.                                             *)
Awaited(h, k, j) == Program([c \in {main, a, b, x} |->
    CASE c = main -> Called(a) \o Called(b) \o SyncWait(a) \o SyncWait(b)
                       \o Dropped(a) \o Dropped(b)
      [] c = a -> Schedule1 \o Co(x) \o h [] c = b -> k \o Co(y) [] c = x -> j])

(* handle_client and the send of a response, both detached. *)
Served(w, v) == Program([c \in {main, a, x, b} |->
    CASE c = main -> Fire(a) \o Started(b) \o Dropped(b)
      [] c = a -> Io1 \o Fire(x) \o w [] c = x -> Io1 \o v [] c = b -> Io1 \o Co(y)])

(* sync_wait of a task that has ended. *)
Late == Program([c \in {main, a} |->
    CASE c = main -> Started(a) \o SyncWait(a) \o Dropped(a) [] c = a -> Co(x)])

MCPrograms ==
    {Nested, Late}
        \cup {Pooled(h, k) : h \in Hops, k \in Hops}
        \cup {Awaited(h, k, j) : h \in Hops, k \in Hops, j \in Hops}
        \cup {Served(w, v) : w \in Waits, v \in Waits}

(* What the theorems suppose of the programs. *)
ASSUME OrderlyAssumption == \A p \in MCPrograms \ {Late} : Orderly(p)
==============================================================================
