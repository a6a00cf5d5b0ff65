----------------------------- MODULE TaskProofs -----------------------------
(***************************************************************************)
(* For any threads and coroutines: whoever awaits a task reads the value   *)
(* that it returned, for every program that starts each coroutine in one   *)
(* place; and frames are used while they are there, for every program in   *)
(* which each coroutine has an owner.                                      *)
(*                                                                         *)
(* The argument for the first: a coroutine that has not ended is in one    *)
(* place at most (a thread's stack, the pool's queue, a request), or is    *)
(* the caller of one that is; so who has awaited a task goes on when that  *)
(* task hands over, which it does after its value is there, and nobody     *)
(* else resumes it.                                                        *)
(*                                                                         *)
(* Lemmas say what taking a frame from one of those places and putting it  *)
(* in another does; OperationKeeps and StandingKeeps do what is common to  *)
(* the steps that do an operation of a program and to those that do not;   *)
(* then there is a lemma for each action.                                  *)
(*                                                                         *)
(* The argument for the second: the place of a frame gives its state (one  *)
(* that runs, or has resumed one that does, is running; one that is to be  *)
(* resumed is suspended; one at its end is final, or has destroyed itself, *)
(* detached); what has begun and what was let go are read off the          *)
(* program.  A task that is dropped when it is done may be in its          *)
(* final_suspend only if another thread runs it: not after a co_await of   *)
(* it, and not where nothing leaves its thread.  OperationAlive and        *)
(* StandingAlive are to it what the two lemmas above are to the first.     *)
(***************************************************************************)
EXTENDS Task, SequenceTheorems, TLAPS

States == {"none", "initial", "running", "suspended", "final", "destroyed"}

Ends == {"testing", "transferring"}

Modes == {"run", "dropping", "setting", "notifying"} \cup Ends

TypeOK ==
    /\ program \in Programs
    /\ pos \in [Threads \cup Frames -> Nat \ {0}]
    /\ \A c \in Threads \cup Coros : pos[c] <= Len(program[c]) + 1
    /\ state \in [Frames -> States]
    /\ caller \in [Frames -> Frames \cup {None}]
    /\ result \in [Frames -> Coros \cup {None}]
    /\ stack \in [Threads -> Seq(Frames)]
    /\ mode \in [Threads -> Modes]
    /\ \A t \in Threads : mode[t] \notin {"run", "dropping"} => stack[t] # <<>>
    /\ queue \in Seq(Frames)
    /\ io \in [Threads -> SUBSET Frames]
    /\ target \in [Threads -> Coros \cup {None}]
    /\ flag \in [Threads -> BOOLEAN]

-----------------------------------------------------------------------------
(* Where frames are: in the stacks, in the queue, with a request.          *)

Inside(s, q, w, f) ==
    \/ \E t \in Threads : \E i \in 1 .. Len(s[t]) : s[t][i] = f
    \/ \E i \in 1 .. Len(q) : q[i] = f
    \/ \E t \in Threads : f \in w[t]

Alone(s, q, w, f) ==
    /\ \A t, u \in Threads : \A i \in 1 .. Len(s[t]), j \in 1 .. Len(s[u]) :
          s[t][i] = f /\ s[u][j] = f => t = u /\ i = j
    /\ \A i, j \in 1 .. Len(q) : q[i] = f /\ q[j] = f => i = j
    /\ \A t, u \in Threads : f \in w[t] /\ f \in w[u] => t = u
    /\ \A t \in Threads : \A i \in 1 .. Len(s[t]) : s[t][i] = f =>
          /\ \A j \in 1 .. Len(q) : q[j] # f
          /\ \A u \in Threads : f \notin w[u]
    /\ \A i \in 1 .. Len(q) : q[i] = f => \A t \in Threads : f \notin w[t]

(* sync_wait's coroutine has ended once its flag is set, although its      *)
(* thread has yet to notify.                                               *)
Live == [t \in Threads |-> IF mode[t] = "notifying" THEN Below(t) ELSE stack[t]]

Present(f) == Inside(Live, queue, io, f)

OnlyOnce == \A f \in Frames : Alone(Live, queue, io, f)

(* What a thread or a coroutine did last. *)
Previous(c) == Code(c)[pos[c] - 1]

Ending(f) == \E t \in Threads : stack[t] # <<>> /\ Top(t) = f /\ mode[t] \in Ends

(* It has not handed over to its caller.                                   *)
Pending(g) == result[g] = None \/ Ending(g)

(* No operation that starts f was done.  A sync_wait starts f when its     *)
(* coroutine awaits it.                                                    *)
NotStarted(f) ==
    \A c \in Threads \cup Coros : \A i \in DOMAIN program[c] :
        /\ program[c][i] = <<"resume", f>> \/ program[c][i] = <<"await", f>> => pos[c] <= i
        /\ program[c][i] = <<"wait", f>> =>
              pos[c] <= i \/ (pos[c] = i + 1 /\ pos[Sync(c)] = 1)

-----------------------------------------------------------------------------
(* The inductive invariant                                                 *)

Results == \A f \in Coros : result[f] \in {None, f} /\ (state[f] = "final" => result[f] = f)

(* Only a coroutine that has not ended can be resumed.                     *)
Unended == \A f \in Coros : Present(f) => Pending(f)

Fresh == \A f \in Coros : NotStarted(f) => ~ Present(f) /\ pos[f] = 1 /\ result[f] = None

(* Who is noted as the caller of a coroutine waits for it, and for nothing *)
(* else.                                                                   *)
Callers ==
    \A g \in Coros, c \in Frames : caller[g] = c /\ Pending(g) =>
        /\ ~ Present(c)
        /\ pos[c] > 1 /\ Previous(c) = <<"await", g>>
        /\ c \in Coros => result[c] = None

(* Who has awaited a coroutine is noted as its caller.                     *)
Awaiters ==
    \A c \in Frames, g \in Coros :
        pos[c] > 1 /\ Previous(c) = <<"await", g>> => caller[g] = c

Drops ==
    \A t \in Threads, c \in Threads \cup Frames : mode[t] = "dropping" /\ Running(t) = c =>
        pos[c] <= Len(Code(c)) /\ \E g \in Coros : Code(c)[pos[c]] = <<"drop", g>>

Endings ==
    \A t \in Threads, f \in Frames : stack[t] # <<>> /\ Top(t) = f =>
        /\ mode[t] \in Ends => f \in Coros /\ result[f] = f
        /\ mode[t] \in {"setting", "notifying"} => f \in Syncs
        /\ mode[t] = "setting" => result[f] = target[Owner(f)] /\ pos[f] = 3

(* sync_wait: its target is what its thread has waited for last ...        *)
Targets ==
    \A t \in Threads :
        /\ target[t] # None =>
              \E i \in 1 .. pos[t] - 1 :
                  i \in DOMAIN program[t] /\ program[t][i] = <<"wait", target[t]>>
        /\ \A g \in Coros : pos[t] > 1 /\ Previous(t) = <<"wait", g>> => target[t] = g

(* ... its coroutine runs while the thread waits ...                       *)
SyncTurns ==
    \A t \in Threads :
        Present(Sync(t)) \/ (\E g \in Coros : caller[g] = Sync(t) /\ Pending(g)) =>
            /\ pos[t] > 1 /\ target[t] # None /\ Previous(t) = <<"wait", target[t]>>
            /\ ~ flag[t]

(* ... and reads and returns the target's value.                           *)
SyncReads ==
    \A t \in Threads :
        /\ pos[Sync(t)] <= 3
        /\ pos[Sync(t)] = 3 => target[t] # None /\ ~ Pending(target[t])
        /\ flag[t] => result[Sync(t)] = target[t] /\ pos[Sync(t)] = 3

TInv ==
    /\ TypeOK /\ OnlyOnce /\ Results /\ Unended /\ Fresh /\ Callers /\ Awaiters
    /\ Drops /\ Endings /\ Targets /\ SyncTurns /\ SyncReads
    /\ ReadsReturned

-----------------------------------------------------------------------------
(* Taking a frame away and putting one                                     *)

LEMMA Front ==
    ASSUME NEW q \in Seq(Frames), q # <<>>
    PROVE  /\ SubSeq(q, 1, Len(q) - 1) \in Seq(Frames)
           /\ Len(SubSeq(q, 1, Len(q) - 1)) = Len(q) - 1
           /\ \A i \in 1 .. Len(q) - 1 : SubSeq(q, 1, Len(q) - 1)[i] = q[i]
  <1>1. Len(q) \in Nat \ {0} /\ \A i \in 1 .. Len(q) : q[i] \in Frames
    OBVIOUS
  <1> DEFINE n == Len(q) - 1
  <1>2. 1 \in Int /\ n \in Int /\ \A i \in 1 .. n : q[i] \in Frames
    BY <1>1
  <1>0. n \in Nat
    BY <1>1
  <1> HIDE DEF n
  <1>3. n - 1 + 1 = n /\ (IF 1 <= n THEN n - 1 + 1 ELSE 0) = n
    BY <1>0
  <1>4. /\ SubSeq(q, 1, n) \in Seq(Frames)
        /\ Len(SubSeq(q, 1, n)) = IF 1 <= n THEN n - 1 + 1 ELSE 0
        /\ \A i \in 1 .. n - 1 + 1 : SubSeq(q, 1, n)[i] = q[1 + i - 1]
    BY <1>2, SubSeqProperties
  <1>5. \A i \in 1 .. n : 1 + i - 1 = i
    BY <1>2
  <1> QED  BY <1>3, <1>4, <1>5 DEF n

LEMMA Popped ==
    ASSUME NEW s \in [Threads -> Seq(Frames)], NEW q, NEW w,
           NEW t \in Threads, s[t] # <<>>,
           NEW f
    PROVE  LET s1 == [s EXCEPT ![t] = SubSeq(s[t], 1, Len(s[t]) - 1)]
           IN  /\ Inside(s1, q, w, f) => Inside(s, q, w, f)
               /\ Alone(s, q, w, f) => Alone(s1, q, w, f)
               /\ Alone(s, q, w, f) /\ f = s[t][Len(s[t])] => ~ Inside(s1, q, w, f)
  <1> DEFINE s1 == [s EXCEPT ![t] = SubSeq(s[t], 1, Len(s[t]) - 1)]
  <1>1. /\ Len(s[t]) \in Nat \ {0}
        /\ Len(s1[t]) = Len(s[t]) - 1
        /\ \A i \in 1 .. Len(s1[t]) : s1[t][i] = s[t][i]
    <2>1. s[t] \in Seq(Frames) /\ Len(s[t]) \in Nat \ {0}
      OBVIOUS
    <2>2. s1[t] = SubSeq(s[t], 1, Len(s[t]) - 1)
      OBVIOUS
    <2> QED  BY <2>1, <2>2, Front
  <1>2. \A u \in Threads : u # t => s1[u] = s[u]
    OBVIOUS
  <1>3. \A u \in Threads : \A i \in 1 .. Len(s1[u]) :
            i \in 1 .. Len(s[u]) /\ s1[u][i] = s[u][i]
    BY <1>1, <1>2
  <1>4. Inside(s1, q, w, f) => Inside(s, q, w, f)
    BY <1>3 DEF Inside
  <1>5. Alone(s, q, w, f) => Alone(s1, q, w, f)
    BY <1>3 DEF Alone
  <1>6. ASSUME Alone(s, q, w, f), f = s[t][Len(s[t])]
        PROVE  ~ Inside(s1, q, w, f)
    <2>1. Len(s[t]) \in 1 .. Len(s[t])
      BY <1>1
    <2>2. ASSUME NEW u \in Threads, NEW i \in 1 .. Len(s1[u]), s1[u][i] = f
          PROVE  FALSE
      <3>1. u = t /\ i = Len(s[t])
        BY <1>3, <1>6, <2>1, <2>2 DEF Alone
      <3> QED  BY <1>1, <3>1
    <2>3. /\ \A i \in 1 .. Len(q) : q[i] # f
          /\ \A u \in Threads : f \notin w[u]
      BY <1>6, <2>1 DEF Alone
    <2> QED  BY <2>2, <2>3 DEF Inside
  <1> QED  BY <1>4, <1>5, <1>6

LEMMA Pushed ==
    ASSUME NEW s \in [Threads -> Seq(Frames)], NEW q, NEW w,
           NEW t \in Threads, NEW g \in Frames, ~ Inside(s, q, w, g),
           NEW f
    PROVE  LET s1 == [s EXCEPT ![t] = Append(s[t], g)]
           IN  /\ Inside(s1, q, w, f) => Inside(s, q, w, f) \/ f = g
               /\ Alone(s, q, w, f) => Alone(s1, q, w, f)
  <1> DEFINE s1 == [s EXCEPT ![t] = Append(s[t], g)]
  <1>1. /\ Len(s[t]) \in Nat
        /\ Len(s1[t]) = Len(s[t]) + 1
        /\ s1[t][Len(s[t]) + 1] = g
        /\ \A i \in 1 .. Len(s[t]) : s1[t][i] = s[t][i]
    OBVIOUS
  <1>2. \A u \in Threads : u # t => s1[u] = s[u]
    OBVIOUS
  <1>3. \A u \in Threads : \A i \in 1 .. Len(s1[u]) :
            \/ i \in 1 .. Len(s[u]) /\ s1[u][i] = s[u][i]
            \/ u = t /\ i = Len(s[t]) + 1 /\ s1[u][i] = g
    BY <1>1, <1>2
  <1>4. Inside(s1, q, w, f) => Inside(s, q, w, f) \/ f = g
    BY <1>3 DEF Inside
  <1>5. ASSUME Alone(s, q, w, f), f # g
        PROVE  Alone(s1, q, w, f)
    BY <1>3, <1>5 DEF Alone
  <1>6. ASSUME Alone(s, q, w, f), f = g
        PROVE  Alone(s1, q, w, f)
    <2>1. /\ \A u \in Threads : \A i \in 1 .. Len(s[u]) : s[u][i] # f
          /\ \A i \in 1 .. Len(q) : q[i] # f
          /\ \A u \in Threads : f \notin w[u]
      BY <1>6 DEF Inside
    <2>2. \A u \in Threads : \A i \in 1 .. Len(s1[u]) :
              s1[u][i] = f => u = t /\ i = Len(s[t]) + 1
      BY <1>3, <2>1
    <2> QED  BY <2>1, <2>2 DEF Alone
  <1> QED  BY <1>4, <1>5, <1>6

LEMMA Enqueued ==
    ASSUME NEW s, NEW q \in Seq(Frames), NEW w,
           NEW g \in Frames, ~ Inside(s, q, w, g), NEW f
    PROVE  /\ Inside(s, Append(q, g), w, f) => Inside(s, q, w, f) \/ f = g
           /\ Alone(s, q, w, f) => Alone(s, Append(q, g), w, f)
  <1> DEFINE q1 == Append(q, g)
  <1>1. Len(q) \in Nat /\ Len(q1) = Len(q) + 1 /\ q1[Len(q) + 1] = g
    OBVIOUS
  <1>2. \A i \in 1 .. Len(q1) : \/ i \in 1 .. Len(q) /\ q1[i] = q[i]
                                \/ i = Len(q) + 1 /\ q1[i] = g
    OBVIOUS
  <1> HIDE DEF q1
  <1>3. Inside(s, q1, w, f) => Inside(s, q, w, f) \/ f = g
    BY <1>2 DEF Inside
  <1>4. ASSUME Alone(s, q, w, f), f # g
        PROVE  Alone(s, q1, w, f)
    BY <1>2, <1>4 DEF Alone
  <1>5. ASSUME Alone(s, q, w, f), f = g
        PROVE  Alone(s, q1, w, f)
    <2>1. /\ \A u \in Threads : \A i \in 1 .. Len(s[u]) : s[u][i] # f
          /\ \A i \in 1 .. Len(q) : q[i] # f
          /\ \A u \in Threads : f \notin w[u]
      BY <1>5 DEF Inside
    <2>2. \A i \in 1 .. Len(q1) : q1[i] = f => i = Len(q) + 1
      BY <1>2, <2>1
    <2> QED  BY <2>1, <2>2 DEF Alone
  <1> QED  BY <1>3, <1>4, <1>5 DEF q1

LEMMA Dequeued ==
    ASSUME NEW s, NEW q \in Seq(Frames), NEW w, q # <<>>, NEW f
    PROVE  /\ Inside(s, Tail(q), w, f) => Inside(s, q, w, f)
           /\ Inside(s, q, w, Head(q))
           /\ Alone(s, q, w, f) => Alone(s, Tail(q), w, f)
           /\ Alone(s, q, w, f) /\ f = Head(q) => ~ Inside(s, Tail(q), w, f)
  <1> DEFINE q1 == Tail(q)
  <1>1. /\ Len(q) \in Nat \ {0} /\ Len(q1) = Len(q) - 1
        /\ Head(q) = q[1] /\ 1 \in 1 .. Len(q)
    OBVIOUS
  <1>2. \A i \in 1 .. Len(q1) : i + 1 \in 1 .. Len(q) /\ q1[i] = q[i + 1] /\ i + 1 # 1
    BY <1>1
  <1> HIDE DEF q1
  <1>3. Inside(s, q1, w, f) => Inside(s, q, w, f)
    BY <1>2 DEF Inside
  <1>4. Inside(s, q, w, Head(q))
    BY <1>1 DEF Inside
  <1>5. Alone(s, q, w, f) => Alone(s, q1, w, f)
    <2> SUFFICES ASSUME Alone(s, q, w, f) PROVE Alone(s, q1, w, f)
      OBVIOUS
    <2>1. \A i, j \in 1 .. Len(q1) : q1[i] = f /\ q1[j] = f => i = j
      <3> SUFFICES ASSUME NEW i \in 1 .. Len(q1), NEW j \in 1 .. Len(q1),
                          q1[i] = f, q1[j] = f
                   PROVE  i = j
        OBVIOUS
      <3>1. i + 1 = j + 1
        BY <1>2 DEF Alone
      <3> QED  BY <3>1
    <2> QED  BY <1>2, <2>1 DEF Alone
  <1>6. ASSUME Alone(s, q, w, f), f = Head(q)
        PROVE  ~ Inside(s, q1, w, f)
    <2>1. \A i \in 1 .. Len(q1) : q1[i] # f
      BY <1>1, <1>2, <1>6 DEF Alone
    <2> QED  BY <1>1, <1>6, <2>1 DEF Alone, Inside
  <1> QED  BY <1>3, <1>4, <1>5, <1>6 DEF q1

LEMMA Requested ==
    ASSUME NEW s, NEW q, NEW w \in [Threads -> SUBSET Frames],
           NEW t \in Threads, NEW g \in Frames, ~ Inside(s, q, w, g),
           NEW f
    PROVE  LET w1 == [w EXCEPT ![t] = w[t] \cup {g}]
           IN  /\ Inside(s, q, w1, f) => Inside(s, q, w, f) \/ f = g
               /\ Alone(s, q, w, f) => Alone(s, q, w1, f)
  <1> DEFINE w1 == [w EXCEPT ![t] = w[t] \cup {g}]
  <1>1. \A u \in Threads : f \in w1[u] => f \in w[u] \/ (u = t /\ f = g)
    OBVIOUS
  <1>2. Inside(s, q, w1, f) => Inside(s, q, w, f) \/ f = g
    BY <1>1 DEF Inside
  <1>3. ASSUME Alone(s, q, w, f), f # g
        PROVE  Alone(s, q, w1, f)
    BY <1>1, <1>3 DEF Alone
  <1>4. ASSUME Alone(s, q, w, f), f = g
        PROVE  Alone(s, q, w1, f)
    BY <1>1, <1>4 DEF Alone, Inside
  <1> QED  BY <1>2, <1>3, <1>4

LEMMA Completed ==
    ASSUME NEW s, NEW q, NEW w \in [Threads -> SUBSET Frames],
           NEW t \in Threads, NEW g \in w[t],
           NEW f
    PROVE  LET w1 == [w EXCEPT ![t] = w[t] \ {g}]
           IN  /\ Inside(s, q, w1, f) => Inside(s, q, w, f)
               /\ Inside(s, q, w, g)
               /\ Alone(s, q, w, f) => Alone(s, q, w1, f)
               /\ Alone(s, q, w, f) /\ f = g => ~ Inside(s, q, w1, f)
  <1> DEFINE w1 == [w EXCEPT ![t] = w[t] \ {g}]
  <1>1. \A u \in Threads : f \in w1[u] => f \in w[u] /\ (u = t => f # g)
    OBVIOUS
  <1>2. /\ Inside(s, q, w1, f) => Inside(s, q, w, f)
        /\ Inside(s, q, w, g)
    BY <1>1 DEF Inside
  <1>3. Alone(s, q, w, f) => Alone(s, q, w1, f)
    BY <1>1 DEF Alone
  <1>4. ASSUME Alone(s, q, w, f), f = g
        PROVE  ~ Inside(s, q, w1, f)
    BY <1>1, <1>4 DEF Alone, Inside
  <1> QED  BY <1>2, <1>3, <1>4

-----------------------------------------------------------------------------
(* Who runs, and what                                                      *)

LEMMA Names ==
    /\ \A t \in Threads : /\ Sync(t) \in Syncs /\ Sync(t) \in Frames
                          /\ Owner(Sync(t)) = t
    /\ \A f \in Syncs : Owner(f) \in Threads /\ f = Sync(Owner(f))
    /\ \A t, u \in Threads : Sync(t) = Sync(u) => t = u
    /\ \A f \in Frames : f \notin Threads /\ f # None
    /\ \A f \in Coros : f \notin Syncs
  BY NamesAssumption DEF Frames, Syncs, Sync, Owner

LEMMA Codes ==
    /\ \A c \in Threads \cup Coros : Code(c) = program[c]
    /\ \A t \in Threads :
          /\ Code(Sync(t)) = <<<<"await", target[t]>>, <<"read", target[t]>>>>
          /\ Len(Code(Sync(t))) = 2
          /\ Code(Sync(t))[1] = <<"await", target[t]>>
          /\ Code(Sync(t))[2] = <<"read", target[t]>>
  <1>1. \A c \in Threads \cup Coros : c \notin Syncs
    BY Names DEF Frames
  <1>2. \A c \in Threads \cup Coros : Code(c) = program[c]
    BY <1>1 DEF Code
  <1>3. \A t \in Threads : Code(Sync(t)) = <<<<"await", target[t]>>, <<"read", target[t]>>>>
    BY Names DEF Code
  <1> QED  BY <1>2, <1>3

LEMMA LiveType == ASSUME TypeOK PROVE Live \in [Threads -> Seq(Frames)]
  <1> SUFFICES ASSUME NEW t \in Threads
               PROVE  (IF mode[t] = "notifying" THEN Below(t) ELSE stack[t]) \in Seq(Frames)
    BY DEF Live
  <1>1. stack[t] \in Seq(Frames)
    BY DEF TypeOK
  <1>2. CASE mode[t] = "notifying"
    <2>1. stack[t] # <<>>
      BY <1>2 DEF TypeOK
    <2> QED  BY <1>1, <1>2, <2>1, Front DEF Below
  <1> QED  BY <1>1, <1>2

LEMMA Runs ==
    ASSUME TypeOK, NEW t \in Threads, mode[t] # "notifying"
    PROVE  /\ Live[t] = stack[t]
           /\ Running(t) \in Threads \cup Frames
           /\ stack[t] = <<>> => Running(t) = t
           /\ stack[t] # <<>> =>
                 /\ Running(t) = Top(t)
                 /\ Top(t) \in Frames
                 /\ Len(stack[t]) \in 1 .. Len(stack[t])
                 /\ Present(Top(t))
  <1>1. Live[t] = stack[t]
    BY DEF Live
  <1>2. stack[t] \in Seq(Frames)
    BY DEF TypeOK
  <1>3. ASSUME stack[t] # <<>>
        PROVE  /\ Top(t) \in Frames /\ Running(t) = Top(t)
               /\ Len(stack[t]) \in 1 .. Len(stack[t])
               /\ Present(Top(t))
    <2>1. Len(stack[t]) \in 1 .. Len(stack[t])
      BY <1>2, <1>3
    <2>2. Top(t) \in Frames
      BY <1>2, <2>1 DEF Top
    <2>3. Present(Top(t))
      BY <1>1, <2>1 DEF Present, Inside, Top
    <2> QED  BY <1>3, <2>1, <2>2, <2>3 DEF Running
  <1>4. stack[t] = <<>> => Running(t) = t
    BY DEF Running
  <1> QED  BY <1>1, <1>3, <1>4

(* No two threads run the same. *)
LEMMA Apart ==
    ASSUME TypeOK, OnlyOnce, NEW t \in Threads, NEW u \in Threads,
           mode[t] # "notifying", mode[u] # "notifying", Running(t) = Running(u)
    PROVE  t = u
  <1>1. CASE stack[t] = <<>> \/ stack[u] = <<>>
    BY <1>1, Runs, Names
  <1>2. CASE stack[t] # <<>> /\ stack[u] # <<>>
    <2>1. /\ Len(stack[t]) \in 1 .. Len(Live[t]) /\ Live[t][Len(stack[t])] = Top(t)
          /\ Len(stack[u]) \in 1 .. Len(Live[u]) /\ Live[u][Len(stack[u])] = Top(t)
          /\ Top(t) \in Frames
      BY <1>2, Runs DEF Top
    <2> QED  BY <2>1 DEF OnlyOnce, Alone
  <1> QED  BY <1>1, <1>2

(* The operation that is done. *)
Doing(t, op, g) ==
    LET c == Running(t)
    IN  pos[c] <= Len(Code(c)) /\ Code(c)[pos[c]] = <<op, g>>

LEMMA Operation ==
    ASSUME TypeOK, SyncReads, NEW t \in Threads, mode[t] # "notifying",
           NEW op, NEW g, Doing(t, op, g), NEW c, c = Running(t)
    PROVE  /\ c \in Threads \cup Coros =>
                 /\ pos[c] \in DOMAIN program[c] /\ program[c][pos[c]] = <<op, g>>
           /\ \A u \in Threads : c = Sync(u) =>
                 \/ pos[c] = 1 /\ op = "await" /\ g = target[u]
                 \/ pos[c] = 2 /\ op = "read" /\ g = target[u]
  <1>1. c \in Threads \cup Frames /\ pos[c] \in Nat \ {0}
    BY Runs DEF TypeOK
  <1>2. ASSUME c \in Threads \cup Coros
        PROVE  pos[c] \in DOMAIN program[c] /\ program[c][pos[c]] = <<op, g>>
    <2>1. program[c] \in Seq(Operations)
      BY <1>2, ProgramsAssumption DEF TypeOK, WellFormed
    <2> QED  BY <1>1, <1>2, <2>1, Codes DEF Doing
  <1>3. ASSUME NEW u \in Threads, c = Sync(u)
        PROVE  \/ pos[c] = 1 /\ op = "await" /\ g = target[u]
               \/ pos[c] = 2 /\ op = "read" /\ g = target[u]
    <2>1. pos[c] = 1 \/ pos[c] = 2
      BY <1>1, <1>3, Codes DEF Doing
    <2> QED  BY <1>3, <2>1, Codes DEF Doing
  <1> QED  BY <1>2, <1>3

LEMMA SyncOperation ==
    ASSUME TypeOK, SyncReads, NEW t \in Threads, mode[t] # "notifying",
           NEW op, NEW g, Doing(t, op, g), NEW u \in Threads, Running(t) = Sync(u)
    PROVE  \/ pos[Sync(u)] = 1 /\ op = "await" /\ g = target[u]
           \/ pos[Sync(u)] = 2 /\ op = "read" /\ g = target[u]
  <1> DEFINE c == Running(t)
  <1>1. \/ pos[c] = 1 /\ op = "await" /\ g = target[u]
        \/ pos[c] = 2 /\ op = "read" /\ g = target[u]
    BY Operation
  <1> QED  BY <1>1

LEMMA WellWritten ==
    ASSUME TypeOK, NEW c \in Threads \cup Coros, NEW i \in DOMAIN program[c]
    PROVE  /\ program[c] \in Seq(Operations) /\ i \in 1 .. Len(program[c])
           /\ program[c][i][1] \in {"await", "read", "io", "schedule"} => c \in Coros
           /\ program[c][i][1] \in {"wait", "block"} => c \in Threads
           /\ program[c][i][1] = "read" =>
                 i > 1 /\ program[c][i - 1] = <<"await", program[c][i][2]>>
           /\ program[c][i][1] = "block" =>
                 i > 1 /\ program[c][i - 1] = <<"wait", program[c][i][2]>>
           /\ program[c][i][1] = "wait" =>
                 i < Len(program[c]) /\ program[c][i + 1] = <<"block", program[c][i][2]>>
  <1>1. WellFormed(program)
    BY ProgramsAssumption DEF TypeOK
  <1>2. program[c] \in Seq(Operations)
    BY <1>1 DEF WellFormed
  <1> QED  BY <1>1, <1>2 DEF WellFormed

-----------------------------------------------------------------------------
(* What the invariant says of who runs                                     *)

LEMMA CanGoOn ==
    ASSUME TInv, NEW c \in Frames, Present(c), NEW g \in Coros,
           pos[c] > 1, Previous(c) = <<"await", g>>
    PROVE  ~ Pending(g) /\ result[g] = g
  <1>1. caller[g] = c
    BY DEF TInv, Awaiters
  <1>2. ~ Pending(g)
    BY <1>1 DEF TInv, Callers
  <1>3. ~ Pending(g) => result[g] # None
    BY DEF Pending
  <1> QED  BY <1>2, <1>3 DEF TInv, Results

(* A thread whose sync_wait has not returned blocks. *)
LEMMA Blocked ==
    ASSUME TInv, NEW t \in Threads,
           Present(Sync(t)) \/ (\E g \in Coros : caller[g] = Sync(t) /\ Pending(g)),
           mode[t] # "notifying", Running(t) = t, NEW op, NEW g, Doing(t, op, g)
    PROVE  op = "block" /\ ~ flag[t]
  <1>1. /\ pos[t] > 1 /\ Previous(t) = <<"wait", target[t]>> /\ ~ flag[t]
    BY DEF TInv, SyncTurns
  <1>2. /\ Code(t) = program[t] /\ pos[t] \in Nat \ {0}
        /\ pos[t] \in DOMAIN program[t] /\ program[t][pos[t]] = <<op, g>>
    BY Codes, Operation DEF TInv, TypeOK
  <1>3. program[t] \in Seq(Operations)
    BY <1>2, WellWritten DEF TInv
  <1>4. pos[t] - 1 \in DOMAIN program[t] /\ program[t][pos[t] - 1] = <<"wait", target[t]>>
    BY <1>1, <1>2, <1>3 DEF Previous
  <1>5. program[t][pos[t] - 1 + 1] = <<"block", target[t]>>
    <2> DEFINE i == pos[t] - 1
    <2>1. program[t][i][1] = "wait" /\ program[t][i][2] = target[t]
      BY <1>4
    <2> HIDE DEF i
    <2>2. program[t][i + 1] = <<"block", program[t][i][2]>>
      BY <1>4, <2>1, WellWritten DEF TInv, i
    <2> QED  BY <2>1, <2>2 DEF i
  <1>6. pos[t] - 1 + 1 = pos[t]
    BY <1>2
  <1> QED  BY <1>1, <1>2, <1>5, <1>6

StartsAt(c, i, f) ==
    /\ i \in DOMAIN program[c]
    /\ \/ program[c][i] = <<"resume", f>>
       \/ program[c][i] = <<"await", f>>
       \/ program[c][i] = <<"wait", f>>

LEMMA OneStart ==
    ASSUME StartedOnce(program), NEW f,
           NEW c \in Threads \cup Coros, NEW i, StartsAt(c, i, f),
           NEW d \in Threads \cup Coros, NEW j, StartsAt(d, j, f)
    PROVE  c = d /\ i = j
  <1>1. /\ i \in DOMAIN program[c] /\ j \in DOMAIN program[d]
        /\ program[c][i][1] \in {"resume", "await", "wait"} /\ program[c][i][2] = f
        /\ program[d][j][1] \in {"resume", "await", "wait"} /\ program[d][j][2] = f
    BY DEF StartsAt
  <1> QED  BY <1>1 DEF StartedOnce, Starts

(* Where the operation is that starts what a frame starts now. *)
LEMMA StartPlace ==
    ASSUME TInv, NEW t \in Threads, mode[t] # "notifying",
           NEW g \in Coros, NEW op \in {"resume", "await"}, Doing(t, op, g)
    PROVE  LET c == Running(t)
           IN  \/ c \in Threads \cup Coros /\ StartsAt(c, pos[c], g)
                    /\ program[c][pos[c]] = <<op, g>>
               \/ \E u \in Threads : /\ c = Sync(u) /\ pos[c] = 1 /\ g = target[u]
                                     /\ StartsAt(u, pos[u] - 1, g)
                                     /\ program[u][pos[u] - 1] = <<"wait", g>>
  <1> DEFINE c == Running(t)
  <1>1. c \in Threads \cup Frames
    BY Runs DEF TInv
  <1>2. CASE c \in Threads \cup Coros
    <2>1. pos[c] \in DOMAIN program[c] /\ program[c][pos[c]] = <<op, g>>
      BY <1>2, Operation DEF TInv
    <2>2. StartsAt(c, pos[c], g)
      BY <2>1 DEF StartsAt
    <2> QED  BY <1>2, <2>1, <2>2
  <1>3. CASE c \notin Threads \cup Coros
    <2>1. PICK u \in Threads : c = Sync(u)
      BY <1>1, <1>3 DEF Frames, Syncs
    <2>2. pos[c] = 1 /\ g = target[u]
      BY <2>1, Operation DEF TInv
    <2>3. Present(c)
      BY <1>3, <1>1, Runs DEF TInv
    <2>4. pos[u] > 1 /\ Previous(u) = <<"wait", g>>
      BY <2>1, <2>2, <2>3 DEF TInv, SyncTurns
    <2>5. /\ program[u] \in Seq(Operations) /\ pos[u] \in Nat
          /\ pos[u] <= Len(program[u]) + 1 /\ Code(u) = program[u]
      BY Codes, ProgramsAssumption DEF TInv, TypeOK, WellFormed
    <2>6. pos[u] - 1 \in DOMAIN program[u] /\ program[u][pos[u] - 1] = <<"wait", g>>
      BY <2>4, <2>5 DEF Previous
    <2> QED  BY <2>1, <2>2, <2>6 DEF StartsAt
  <1> QED  BY <1>2, <1>3

LEMMA Starting ==
    ASSUME TInv, StartedOnce(program), NEW t \in Threads, mode[t] # "notifying",
           NEW g \in Coros, NEW op \in {"resume", "await"}, Doing(t, op, g)
    PROVE  NotStarted(g)
  <1> DEFINE c == Running(t)
  <1>1. ASSUME NEW d \in Threads \cup Coros, NEW j, StartsAt(d, j, g)
        PROVE  \/ pos[d] <= j
               \/ program[d][j] = <<"wait", g>> /\ pos[d] = j + 1 /\ pos[Sync(d)] = 1
    <2>1. pos[d] \in Nat
      BY DEF TInv, TypeOK, Frames
    <2>2. CASE c \in Threads \cup Coros /\ StartsAt(c, pos[c], g)
      <3>1. d = c /\ j = pos[c]
        BY <1>1, <2>2, OneStart
      <3> QED  BY <2>1, <3>1
    <2>3. ASSUME NEW u \in Threads, c = Sync(u), pos[c] = 1,
                 StartsAt(u, pos[u] - 1, g), program[u][pos[u] - 1] = <<"wait", g>>
          PROVE  program[d][j] = <<"wait", g>> /\ pos[d] = j + 1 /\ pos[Sync(d)] = 1
      <3>1. d = u /\ j = pos[u] - 1
        BY <1>1, <2>3, OneStart
      <3> QED  BY <2>1, <2>3, <3>1
    <2> QED  BY <2>2, <2>3, StartPlace
  <1>2. ASSUME NEW d \in Threads \cup Coros, NEW j \in DOMAIN program[d],
               \/ program[d][j] = <<"resume", g>> \/ program[d][j] = <<"await", g>>
        PROVE  pos[d] <= j
    <2>1. StartsAt(d, j, g) /\ program[d][j] # <<"wait", g>>
      BY <1>2 DEF StartsAt
    <2> QED  BY <1>1, <2>1
  <1>3. ASSUME NEW d \in Threads \cup Coros, NEW j \in DOMAIN program[d],
               program[d][j] = <<"wait", g>>
        PROVE  pos[d] <= j \/ (pos[d] = j + 1 /\ pos[Sync(d)] = 1)
    <2>1. StartsAt(d, j, g)
      BY <1>3 DEF StartsAt
    <2> QED  BY <1>1, <2>1
  <1> QED  BY <1>2, <1>3 DEF NotStarted

(* The same operation, when it is done. *)
LEMMA Started ==
    ASSUME TInv, NEW t \in Threads, mode[t] # "notifying",
           NEW g \in Coros, NEW op \in {"resume", "await"}, Doing(t, op, g),
           program' = program, Goes(t)
    PROVE  ~ NotStarted(g)'
  <1> DEFINE c == Running(t)
  <1>1. /\ c \in Threads \cup Frames /\ pos[c] \in Nat /\ pos'[c] = pos[c] + 1
        /\ \A d \in Threads \cup Frames : d # c => pos'[d] = pos[d]
    BY Runs DEF TInv, TypeOK, Goes
  <1>2. CASE c \in Threads \cup Coros /\ StartsAt(c, pos[c], g)
             /\ program[c][pos[c]] = <<op, g>>
    <2>1. pos[c] \in DOMAIN program'[c] /\ ~ (pos'[c] <= pos[c])
          /\ \/ program'[c][pos[c]] = <<"resume", g>>
             \/ program'[c][pos[c]] = <<"await", g>>
      BY <1>1, <1>2 DEF StartsAt
    <2> HIDE DEF c
    <2> QED  BY <1>2, <2>1 DEF NotStarted
  <1>3. ASSUME NEW u \in Threads, c = Sync(u), pos[c] = 1,
               StartsAt(u, pos[u] - 1, g), program[u][pos[u] - 1] = <<"wait", g>>
        PROVE  ~ NotStarted(g)'
    <2>1. u # c /\ pos'[u] = pos[u] /\ pos'[Sync(u)] = 2 /\ pos[u] \in Nat
      BY <1>1, <1>3, Names DEF TInv, TypeOK
    <2>2. ~ (pos'[u] <= pos[u] - 1) /\ pos'[Sync(u)] # 1
      BY <2>1
    <2> QED  BY <1>3, <2>2 DEF NotStarted, StartsAt
  <1> QED  BY <1>2, <1>3, StartPlace

-----------------------------------------------------------------------------
(* Steps that do an operation                                              *)

LEMMA Earlier ==
    ASSUME TypeOK, TypeOK', program' = program,
           \A c \in Threads \cup Coros : pos[c] <= pos'[c],
           \A t \in Threads : pos[t] < pos'[t] \/ pos[Sync(t)] <= pos'[Sync(t)],
           NEW f, NotStarted(f)'
    PROVE  NotStarted(f)
  <1>1. \A c \in Threads \cup Frames : pos[c] \in Nat \ {0} /\ pos'[c] \in Nat \ {0}
    BY DEF TypeOK
  <1>2. ASSUME NEW c \in Threads \cup Coros, NEW i \in DOMAIN program[c],
               program[c][i] = <<"resume", f>> \/ program[c][i] = <<"await", f>>
        PROVE  pos[c] <= i
    <2>1. pos'[c] <= i /\ pos[c] <= pos'[c] /\ i \in Nat
      BY <1>2, WellWritten DEF NotStarted
    <2> QED  BY <1>1, <2>1 DEF Frames
  <1>3. ASSUME NEW c \in Threads \cup Coros, NEW i \in DOMAIN program[c],
               program[c][i] = <<"wait", f>>
        PROVE  pos[c] <= i \/ (pos[c] = i + 1 /\ pos[Sync(c)] = 1)
    <2>1. c \in Threads /\ i \in Nat
      BY <1>3, WellWritten
    <2>2. /\ pos[c] \in Nat \ {0} /\ pos'[c] \in Nat \ {0}
          /\ pos[Sync(c)] \in Nat \ {0} /\ pos'[Sync(c)] \in Nat \ {0}
      BY <1>1, <2>1, Names
    <2>3. /\ pos[c] <= pos'[c] /\ (pos[c] < pos'[c] \/ pos[Sync(c)] <= pos'[Sync(c)])
      BY <2>1
    <2>4. pos'[c] <= i \/ (pos'[c] = i + 1 /\ pos'[Sync(c)] = 1)
      BY <1>3 DEF NotStarted
    <2> QED  BY <2>1, <2>2, <2>3, <2>4
  <1> QED  BY <1>2, <1>3 DEF NotStarted

LEMMA Gone ==
    ASSUME TInv, NEW t \in Threads, mode[t] # "notifying",
           NEW op, NEW g, Doing(t, op, g),
           Goes(t), TypeOK', program' = program, target' = target,
           NEW c, c = Running(t)
    PROVE  /\ c \in Threads \cup Frames /\ pos[c] \in Nat \ {0} /\ pos'[c] = pos[c] + 1
           /\ \A d \in Threads \cup Frames :
                 /\ Code(d)' = Code(d)
                 /\ d # c => pos'[d] = pos[d] /\ Previous(d)' = Previous(d)
           /\ Previous(c)' = <<op, g>>
           /\ \A f : NotStarted(f)' => NotStarted(f)
           /\ \A d \in Frames : ~ Present(d) => d # c
  <1>1. /\ c \in Threads \cup Frames /\ pos[c] \in Nat \ {0} /\ pos'[c] = pos[c] + 1
        /\ \A d \in Threads \cup Frames : d # c => pos'[d] = pos[d]
    BY Runs DEF TInv, TypeOK, Goes
  <1>2. \A d \in Threads \cup Frames : Code(d)' = Code(d)
    BY DEF Code
  <1>3. \A d \in Threads \cup Frames : d # c => Previous(d)' = Previous(d)
    BY <1>1, <1>2 DEF Previous
  <1>4. Previous(c)' = <<op, g>>
    <2>1. pos'[c] - 1 = pos[c]
      BY <1>1
    <2> QED  BY <1>1, <1>2, <2>1 DEF Previous, Doing
  <1>5. \A f : NotStarted(f)' => NotStarted(f)
    <2>0. \A d \in Threads \cup Frames : pos[d] \in Nat
      BY DEF TInv, TypeOK
    <2>1. \A d \in Threads \cup Frames : pos[d] \in Nat /\ pos[d] <= pos'[d]
      BY <1>1, <2>0
    <2>2. \A d \in Threads \cup Coros : pos[d] <= pos'[d]
      BY <2>1 DEF Frames
    <2>3. \A u \in Threads : pos[Sync(u)] <= pos'[Sync(u)]
      BY <2>1, Names
    <2> QED  BY <2>2, <2>3, Earlier DEF TInv
  <1>6. \A d \in Frames : ~ Present(d) => d # c
    BY Runs, Names DEF TInv
  <1> QED  BY <1>1, <1>2, <1>3, <1>4, <1>5, <1>6

(* An await is the start of what it awaits. *)
LEMMA AwaitedStarted ==
    ASSUME TInv, NEW c \in Frames, NEW g \in Coros,
           pos[c] > 1, Previous(c) = <<"await", g>>
    PROVE  ~ NotStarted(g)
  <1>1. pos[c] \in Nat /\ pos[c] - 1 \in Nat
    BY DEF TInv, TypeOK
  <1>2. CASE c \in Coros
    <2>1. program[c] \in Seq(Operations) /\ pos[c] <= Len(program[c]) + 1
      BY <1>2, ProgramsAssumption DEF TInv, TypeOK, WellFormed
    <2>2. pos[c] - 1 \in DOMAIN program[c] /\ program[c][pos[c] - 1] = <<"await", g>>
      BY <1>1, <1>2, <2>1, Codes DEF Previous
    <2>3. ~ (pos[c] <= pos[c] - 1)
      BY <1>1
    <2> QED  BY <1>2, <2>2, <2>3 DEF NotStarted
  <1>3. ASSUME NEW t \in Threads, c = Sync(t)
        PROVE  ~ NotStarted(g)
    <2>1. pos[c] = 2 \/ pos[c] = 3
      BY <1>1, <1>3 DEF TInv, SyncReads
    <2>2. target[t] = g
      BY <1>3, <2>1, Codes DEF Previous
    <2>3. PICK i \in 1 .. pos[t] - 1 : i \in DOMAIN program[t] /\ program[t][i] = <<"wait", g>>
      BY <2>2, Names DEF TInv, Targets, Frames
    <2>4. pos[t] \in Nat
      BY DEF TInv, TypeOK
    <2>5. ~ (pos[t] <= i) /\ pos[Sync(t)] # 1
      BY <1>3, <2>1, <2>3, <2>4
    <2> QED  BY <2>3, <2>5 DEF NotStarted
  <1> QED  BY <1>2, <1>3 DEF Frames, Syncs

LEMMA OperationKeeps ==
    ASSUME TInv, StartedOnce(program), NEW t \in Threads, mode[t] \in {"run", "dropping"},
           NEW op, NEW g, Doing(t, op, g), NEW c, c = Running(t),
           Goes(t), TypeOK', OnlyOnce', UNCHANGED <<program, result, target, flag>>,
           mode' = [mode EXCEPT ![t] = "run"],
           \A u \in Threads : u # t => stack'[u] = stack[u],
           \A f \in Coros : state'[f] = "final" => state[f] = "final",
           \A f \in Frames : Present(f)' =>
               Present(f) \/ (op \in {"resume", "await"} /\ f = g /\ g \in Coros),
           op # "await" => caller' = caller,
           op = "await" => /\ g \in Coros /\ c \in Frames /\ ~ Present(c)'
                           /\ caller' = [caller EXCEPT ![g] = c],
           op # "wait", op = "block" => flag[c],
           \A r \in reads' : r \in reads \/ r[3] = r[2]
    PROVE  TInv'
  <1>m. mode[t] # "notifying"
    OBVIOUS
  <1>1. /\ c \in Threads \cup Frames /\ pos[c] \in Nat \ {0} /\ pos'[c] = pos[c] + 1
        /\ \A d \in Threads \cup Frames :
              /\ Code(d)' = Code(d)
              /\ d # c => pos'[d] = pos[d] /\ Previous(d)' = Previous(d)
        /\ Previous(c)' = <<op, g>>
        /\ \A f : NotStarted(f)' => NotStarted(f)
        /\ \A d \in Frames : ~ Present(d) => d # c
    BY <1>m, Gone
  <1>2. ASSUME op \in {"resume", "await"}, g \in Coros
        PROVE  /\ ~ NotStarted(g)' /\ ~ Present(g) /\ pos[g] = 1 /\ result[g] = None
               /\ NotStarted(g)
    <2>1. NotStarted(g)
      BY <1>m, <1>2, Starting
    <2>2. ~ NotStarted(g)'
      BY <1>m, <1>2, Started
    <2> QED  BY <1>2, <2>1, <2>2 DEF TInv, Fresh
  <1>3. \A u \in Threads : u # t => mode'[u] = mode[u] /\ stack'[u] = stack[u]
    BY DEF TInv, TypeOK
  <1>4. mode'[t] = "run"
    BY DEF TInv, TypeOK
  <1>5. \A f : Ending(f)' <=> Ending(f)
    <2>1. mode[t] \notin Ends /\ mode'[t] \notin Ends
      BY <1>4 DEF Ends
    <2> QED  BY <1>3, <2>1 DEF Ending, Top
  <1>6. \A f : Pending(f)' <=> Pending(f)
    BY <1>5 DEF Pending
  <1>7. Results'
    BY DEF TInv, Results
  <1>8. Unended'
    <2> SUFFICES ASSUME NEW f \in Coros, Present(f)' PROVE Pending(f)
      BY <1>6 DEF Unended
    <2>1. CASE Present(f)
      BY <2>1 DEF TInv, Unended
    <2>2. CASE op \in {"resume", "await"} /\ f = g /\ g \in Coros
      BY <1>2, <2>2 DEF Pending
    <2> QED  BY <2>1, <2>2 DEF Frames
  <1>9. Fresh'
    <2> SUFFICES ASSUME NEW f \in Coros, NotStarted(f)'
                 PROVE  ~ Present(f)' /\ pos'[f] = 1 /\ result[f] = None
      BY DEF Fresh
    <2>1. NotStarted(f) /\ f \in Frames
      BY <1>1 DEF Frames
    <2>2. ~ Present(f) /\ pos[f] = 1 /\ result[f] = None
      BY <2>1 DEF TInv, Fresh
    <2>3. f # c
      BY <1>1, <2>1, <2>2
    <2>4. ~ Present(f)'
      BY <1>2, <2>1, <2>2
    <2> QED  BY <1>1, <2>1, <2>2, <2>3, <2>4
  <1>10. Callers'
    <2> SUFFICES ASSUME NEW h \in Coros, NEW d \in Frames, caller'[h] = d, Pending(h)
                 PROVE  /\ ~ Present(d)'
                        /\ pos'[d] > 1 /\ Previous(d)' = <<"await", h>>
                        /\ d \in Coros => result[d] = None
      BY <1>6 DEF Callers
    <2>1. CASE op = "await" /\ h = g
      <3>1. d = c /\ ~ Present(c)'
        BY <2>1 DEF TInv, TypeOK, Frames
      <3>2. Previous(c)' = <<"await", h>> /\ pos'[c] > 1
        BY <1>1, <2>1
      <3>3. ASSUME c \in Coros PROVE result[c] = None
        <4>2. Present(c)
          BY <1>1, <3>1
        <4>3. ~ Ending(c)
          <5>1. ASSUME NEW u \in Threads, stack[u] # <<>>, Top(u) = c, mode[u] \in Ends
                PROVE  FALSE
            <6>1. mode[u] # "notifying"
              BY <5>1 DEF Ends
            <6>2. Running(u) = c
              BY <5>1, <6>1, Runs DEF TInv
            <6>3. u = t
              BY <1>m, <6>1, <6>2, Apart DEF TInv
            <6> QED  BY <5>1, <6>3 DEF Ends
          <5> QED  BY <5>1 DEF Ending
        <4> QED  BY <3>3, <4>2, <4>3 DEF TInv, Unended, Pending
      <3> QED  BY <3>1, <3>2, <3>3
    <2>2. CASE ~ (op = "await" /\ h = g)
      <3>1. caller[h] = d
        BY <2>2 DEF TInv, TypeOK, Frames
      <3>3. /\ ~ Present(d) /\ pos[d] > 1 /\ Previous(d) = <<"await", h>>
            /\ d \in Coros => result[d] = None
        BY <3>1 DEF TInv, Callers
      <3>4. d # c
        BY <1>1, <3>3
      <3>5. ~ Present(d)'
        BY <1>2, <3>3
      <3> QED  BY <1>1, <3>3, <3>4, <3>5
    <2> QED  BY <2>1, <2>2
  <1>11. Awaiters'
    <2> SUFFICES ASSUME NEW d \in Frames, NEW h \in Coros,
                        pos'[d] > 1, Previous(d)' = <<"await", h>>
                 PROVE  caller'[h] = d
      BY DEF Awaiters
    <2>1. CASE d = c
      <3>1. Previous(c)' = <<"await", h>>
        BY <2>1
      <3>2. op = "await" /\ g = h
        BY <1>1, <3>1
      <3> QED  BY <2>1, <3>2 DEF TInv, TypeOK, Frames
    <2>2. CASE d # c
      <3>1. pos[d] > 1 /\ Previous(d) = <<"await", h>>
        BY <1>1, <2>2
      <3>2. caller[h] = d
        BY <3>1 DEF TInv, Awaiters
      <3>3. ~ NotStarted(h)
        BY <3>1, AwaitedStarted
      <3>4. op = "await" => h # g
        BY <1>2, <3>3
      <3> QED  BY <3>2, <3>4 DEF TInv, TypeOK, Frames
    <2> QED  BY <2>1, <2>2
  <1>12. Drops'
    <2> SUFFICES ASSUME NEW u \in Threads, NEW d \in Threads \cup Frames,
                        mode'[u] = "dropping", Running(u)' = d
                 PROVE  pos'[d] <= Len(Code(d)') /\ \E h \in Coros : Code(d)'[pos'[d]] = <<"drop", h>>
      BY DEF Drops
    <2>1. u # t /\ mode[u] = "dropping"
      BY <1>3, <1>4
    <2>2. Running(u) = d
      BY <1>3, <2>1 DEF Running, Top
    <2>3. d # c
      BY <1>m, <2>1, <2>2, Apart DEF TInv
    <2>4. Code(d)' = Code(d) /\ pos'[d] = pos[d]
      BY <1>1, <2>3
    <2>5. pos[d] <= Len(Code(d)) /\ \E h \in Coros : Code(d)[pos[d]] = <<"drop", h>>
      BY <2>1, <2>2 DEF TInv, Drops
    <2> QED  BY <2>4, <2>5
  <1>13. Endings'
    <2> SUFFICES ASSUME NEW u \in Threads, NEW f \in Frames, stack'[u] # <<>>, Top(u)' = f
                 PROVE  /\ mode'[u] \in Ends => f \in Coros /\ result[f] = f
                        /\ mode'[u] \in {"setting", "notifying"} => f \in Syncs
                        /\ mode'[u] = "setting" => result[f] = target[Owner(f)] /\ pos'[f] = 3
      BY DEF Endings
    <2>1. CASE u = t
      BY <1>4, <2>1 DEF Ends
    <2>2. CASE u # t
      <3>1. stack[u] # <<>> /\ Top(u) = f /\ mode'[u] = mode[u]
        BY <1>3, <2>2 DEF Top
      <3>2. ASSUME mode[u] = "setting" PROVE pos'[f] = pos[f]
        <4>1. mode[u] # "notifying" /\ Running(u) = f
          BY <3>1, <3>2, Runs DEF TInv
        <4>2. f # c
          BY <1>m, <2>2, <4>1, Apart DEF TInv
        <4> QED  BY <1>1, <4>2
      <3> QED  BY <3>1, <3>2 DEF TInv, Endings
    <2> QED  BY <2>1, <2>2
  <1>14. Targets'
    <2>1. ASSUME NEW u \in Threads, target[u] # None
          PROVE  \E i \in 1 .. pos'[u] - 1 :
                    i \in DOMAIN program[u] /\ program[u][i] = <<"wait", target[u]>>
      <3>1. PICK i \in 1 .. pos[u] - 1 :
                    i \in DOMAIN program[u] /\ program[u][i] = <<"wait", target[u]>>
        BY <2>1 DEF TInv, Targets
      <3>2. pos[u] \in Nat /\ (pos'[u] = pos[u] \/ pos'[u] = pos[u] + 1)
        BY <1>1 DEF TInv, TypeOK
      <3>3. i \in 1 .. pos'[u] - 1
        BY <3>2
      <3> QED  BY <3>1, <3>3
    <2>2. ASSUME NEW u \in Threads, NEW h \in Coros,
                 pos'[u] > 1, Previous(u)' = <<"wait", h>>
          PROVE  target[u] = h
      <3>1. u # c
        BY <1>1, <2>2
      <3>2. pos[u] > 1 /\ Previous(u) = <<"wait", h>>
        BY <1>1, <2>2, <3>1
      <3> QED  BY <3>2 DEF TInv, Targets
    <2> QED  BY <2>1, <2>2 DEF Targets
  <1>15. SyncTurns'
    <2> SUFFICES ASSUME NEW u \in Threads,
                        \/ Present(Sync(u))'
                        \/ \E h \in Coros : caller'[h] = Sync(u) /\ Pending(h)
                 PROVE  /\ pos'[u] > 1 /\ target[u] # None
                        /\ Previous(u)' = <<"wait", target[u]>> /\ ~ flag[u]
      BY <1>6 DEF SyncTurns
    <2>1. Present(Sync(u)) \/ \E h \in Coros : caller[h] = Sync(u) /\ Pending(h)
      <3>1. CASE Present(Sync(u))'
        BY <3>1, Names
      <3>2. ASSUME NEW h \in Coros, caller'[h] = Sync(u), Pending(h)
            PROVE  Present(Sync(u)) \/ caller[h] = Sync(u)
        <4>1. CASE op = "await" /\ h = g
          <5>1. c = Sync(u)
            BY <3>2, <4>1 DEF TInv, TypeOK, Frames
          <5> QED  BY <1>1, <5>1, Names
        <4>2. CASE ~ (op = "await" /\ h = g)
          BY <3>2, <4>2 DEF TInv, TypeOK, Frames
        <4> QED  BY <4>1, <4>2
      <3> QED  BY <3>1, <3>2
    <2>2. /\ pos[u] > 1 /\ target[u] # None
          /\ Previous(u) = <<"wait", target[u]>> /\ ~ flag[u]
      BY <2>1 DEF TInv, SyncTurns
    <2>3. u # c
      <3> SUFFICES ASSUME u = c PROVE FALSE
        OBVIOUS
      <3>1. u = t
        BY <1>m, Runs, Names DEF TInv
      <3>2. op = "block"
        BY <1>m, <2>1, <3>1, Blocked
      <3> QED  BY <2>2, <3>2
    <2> QED  BY <1>1, <2>2, <2>3
  <1>16. SyncReads'
    <2> SUFFICES ASSUME NEW u \in Threads
                 PROVE  /\ pos'[Sync(u)] <= 3
                        /\ pos'[Sync(u)] = 3 => target[u] # None /\ ~ Pending(target[u])
                        /\ flag[u] => result[Sync(u)] = target[u] /\ pos'[Sync(u)] = 3
      BY <1>6 DEF SyncReads
    <2>1. /\ pos[Sync(u)] <= 3
          /\ pos[Sync(u)] = 3 => target[u] # None /\ ~ Pending(target[u])
          /\ flag[u] => result[Sync(u)] = target[u] /\ pos[Sync(u)] = 3
      BY DEF TInv, SyncReads
    <2>2. CASE c # Sync(u)
      BY <1>1, <2>1, <2>2, Names
    <2>3. CASE c = Sync(u)
      <3>1. \/ pos[c] = 1 /\ op = "await" /\ g = target[u]
            \/ pos[c] = 2 /\ op = "read" /\ g = target[u]
        <4>1. TypeOK /\ SyncReads
          BY DEF TInv
        <4>2. Running(t) = Sync(u)
          BY <2>3
        <4>3. \/ pos[Sync(u)] = 1 /\ op = "await" /\ g = target[u]
              \/ pos[Sync(u)] = 2 /\ op = "read" /\ g = target[u]
          BY <1>m, <4>1, <4>2, SyncOperation
        <4> QED  BY <2>3, <4>3
      <3>2. c \in Frames /\ Present(c)
        BY <1>1, <2>3, Names
      <3>3. target[u] \in Coros /\ ~ flag[u]
        BY <2>3, <3>2 DEF TInv, SyncTurns, TypeOK
      <3>4. ASSUME pos[c] = 2 PROVE ~ Pending(target[u])
        <4>1. Previous(c) = <<"await", target[u]>>
          BY <2>3, <3>4, Codes DEF Previous
        <4> QED  BY <3>2, <3>3, <3>4, <4>1, CanGoOn
      <3> QED  BY <1>1, <2>1, <2>3, <3>1, <3>3, <3>4, Names DEF Frames
    <2> QED  BY <2>2, <2>3
  <1>17. ReadsReturned'
    BY DEF TInv, ReadsReturned
  <1> QED
    BY <1>7, <1>8, <1>9, <1>10, <1>11, <1>12, <1>13, <1>14, <1>15, <1>16, <1>17
    DEF TInv

-----------------------------------------------------------------------------
(* Steps that do none                                                      *)

LEMMA StandingKeeps ==
    ASSUME TInv, UNCHANGED <<program, pos, target, caller, reads>>,
           TypeOK', OnlyOnce', Results', Unended', Drops', Endings',
           \A f \in Coros : Pending(f)' => Pending(f),
           \A f \in Frames : Present(f)' =>
               \/ Present(f)
               \/ \E g \in Coros : caller[g] = f /\ Pending(g) /\ ~ Pending(g)',
           \A f \in Frames : result'[f] = result[f] \/ Present(f),
           \A u \in Threads :
               \/ flag'[u] = flag[u]
               \/ /\ Present(Sync(u)) /\ ~ Present(Sync(u))'
                  /\ result'[Sync(u)] = target[u] /\ pos[Sync(u)] = 3
    PROVE  TInv'
  <1>1. \A d : Code(d)' = Code(d) /\ Previous(d)' = Previous(d)
    BY DEF Code, Previous
  <1>2. \A f : NotStarted(f)' <=> NotStarted(f)
    BY DEF NotStarted
  <1>3. Fresh'
    <2> SUFFICES ASSUME NEW f \in Coros, NotStarted(f)
                 PROVE  ~ Present(f)' /\ pos[f] = 1 /\ result'[f] = None
      BY <1>2 DEF Fresh
    <2>1. ~ Present(f) /\ pos[f] = 1 /\ result[f] = None /\ f \in Frames
      BY DEF TInv, Fresh, Frames
    <2>2. ASSUME NEW g \in Coros, caller[g] = f, Pending(g)
          PROVE  FALSE
      BY <2>1, <2>2 DEF TInv, Callers
    <2> QED  BY <2>1, <2>2
  <1>4. Callers'
    <2> SUFFICES ASSUME NEW g \in Coros, NEW c \in Frames, caller[g] = c, Pending(g)'
                 PROVE  /\ ~ Present(c)'
                        /\ pos[c] > 1 /\ Previous(c) = <<"await", g>>
                        /\ c \in Coros => result'[c] = None
      BY <1>1 DEF Callers
    <2>1. /\ ~ Present(c) /\ pos[c] > 1 /\ Previous(c) = <<"await", g>>
          /\ c \in Coros => result[c] = None
      BY DEF TInv, Callers
    <2>2. ASSUME NEW h \in Coros, caller[h] = c, Pending(h), ~ Pending(h)'
          PROVE  FALSE
      <3>1. Previous(c) = <<"await", h>>
        BY <2>2 DEF TInv, Callers
      <3>2. h = g
        BY <2>1, <3>1
      <3> QED  BY <2>2, <3>2
    <2> QED  BY <2>1, <2>2
  <1>5. Awaiters'
    <2> SUFFICES ASSUME NEW c \in Frames, NEW g \in Coros,
                        pos[c] > 1, Previous(c) = <<"await", g>>
                 PROVE  caller[g] = c
      BY <1>1 DEF Awaiters
    <2> QED  BY DEF TInv, Awaiters
  <1>6. Targets'
    BY <1>1 DEF TInv, Targets
  <1>7. SyncTurns'
    <2> SUFFICES ASSUME NEW u \in Threads,
                        \/ Present(Sync(u))'
                        \/ \E g \in Coros : caller[g] = Sync(u) /\ Pending(g)'
                 PROVE  /\ pos[u] > 1 /\ target[u] # None
                        /\ Previous(u) = <<"wait", target[u]>> /\ ~ flag'[u]
      BY <1>1 DEF SyncTurns
    <2>1. Sync(u) \in Frames
      BY Names
    <2>2. Present(Sync(u)) \/ \E g \in Coros : caller[g] = Sync(u) /\ Pending(g)
      BY <2>1
    <2>3. /\ pos[u] > 1 /\ target[u] # None
          /\ Previous(u) = <<"wait", target[u]>> /\ ~ flag[u]
      BY <2>2 DEF TInv, SyncTurns
    <2>4. Present(Sync(u)) => Present(Sync(u))'
      BY <2>1 DEF TInv, Callers
    <2> QED  BY <2>3, <2>4
  <1>8. SyncReads'
    <2> SUFFICES ASSUME NEW u \in Threads
                 PROVE  /\ pos[Sync(u)] <= 3
                        /\ pos[Sync(u)] = 3 => target[u] # None /\ ~ Pending(target[u])'
                        /\ flag'[u] => result'[Sync(u)] = target[u] /\ pos[Sync(u)] = 3
      BY DEF SyncReads
    <2>1. Sync(u) \in Frames
      BY Names
    <2>2. pos[Sync(u)] <= 3
      BY DEF TInv, SyncReads
    <2>3. ASSUME pos[Sync(u)] = 3
          PROVE  target[u] # None /\ ~ Pending(target[u])'
      <3>1. target[u] # None /\ ~ Pending(target[u])
        BY <2>3 DEF TInv, SyncReads
      <3>2. target[u] \in Coros
        BY <3>1 DEF TInv, TypeOK
      <3>3. ASSUME NEW f \in Coros, f = target[u], ~ Pending(f)
            PROVE  ~ Pending(f)'
        BY <3>3
      <3>4. target'[u] = target[u]
        OBVIOUS
      <3> QED  BY <3>1, <3>2, <3>3, <3>4
    <2>4. ASSUME flag'[u] PROVE result'[Sync(u)] = target[u] /\ pos[Sync(u)] = 3
      <3>1. flag[u] => /\ result[Sync(u)] = target[u] /\ pos[Sync(u)] = 3
                       /\ ~ Present(Sync(u))
        BY DEF TInv, SyncReads, SyncTurns
      <3> QED  BY <2>1, <2>4, <3>1
    <2> QED  BY <2>2, <2>3, <2>4
  <1>9. ReadsReturned'
    BY DEF TInv, ReadsReturned
  <1> QED
    BY <1>3, <1>4, <1>5, <1>6, <1>7, <1>8, <1>9 DEF TInv

LEMMA DoesIt ==
    ASSUME TypeOK, NEW t \in Threads, NEW op, NEW g, Does(t, op, g)
    PROVE  mode[t] = "run" /\ mode[t] # "notifying" /\ Doing(t, op, g)
  <1> DEFINE c == Running(t)
  <1>1. mode[t] = "run" /\ ~ (pos[c] > Len(Code(c))) /\ Code(c)[pos[c]] = <<op, g>>
    BY DEF Does, AtEnd
  <1>2. c \in Threads \cup Frames
    BY <1>1, Runs
  <1>3. pos[c] \in Nat
    BY <1>2 DEF TypeOK
  <1>4. Len(Code(c)) \in Nat
    <2>1. CASE c \in Threads \cup Coros
      <3>1. program[c] \in Seq(Operations)
        BY <2>1, ProgramsAssumption DEF TypeOK, WellFormed
      <3> QED  BY <2>1, <3>1, Codes
    <2>2. CASE c \in Syncs
      BY <2>2, Codes, Names
    <2> QED  BY <1>2, <2>1, <2>2 DEF Frames
  <1>5. pos[c] <= Len(Code(c))
    <2> HIDE DEF c
    <2> QED  BY <1>1, <1>3, <1>4
  <1> QED  BY <1>1, <1>5 DEF Doing

(* Who does what. *)
LEMMA Doers ==
    ASSUME TypeOK, SyncReads, NEW t \in Threads, mode[t] # "notifying",
           NEW op, NEW g, Doing(t, op, g)
    PROVE  /\ op \in {"wait", "block"} => Running(t) = t /\ stack[t] = <<>>
           /\ op \in {"await", "read", "io", "schedule"} =>
                 stack[t] # <<>> /\ Running(t) \in Frames
           /\ op \in {"io", "schedule"} => Running(t) \in Coros
  <1> DEFINE c == Running(t)
  <1>1. c \in Threads \cup Frames /\ (stack[t] = <<>> <=> c = t)
    BY Runs, Names
  <1>2. ASSUME c \in Threads \cup Coros
        PROVE  /\ op \in {"wait", "block"} => c \in Threads
               /\ op \in {"await", "read", "io", "schedule"} => c \in Coros
    <2>1. pos[c] \in DOMAIN program[c] /\ program[c][pos[c]] = <<op, g>>
      BY <1>2, Operation
    <2>2. program[c][pos[c]][1] = op
      BY <2>1
    <2> HIDE DEF c
    <2> QED  BY <1>2, <2>1, <2>2, WellWritten
  <1>3. ASSUME NEW u \in Threads, c = Sync(u)
        PROVE  op \in {"await", "read"}
    BY <1>3, SyncOperation
  <1>4. c \in Threads => c = t
    BY Runs, Names
  <1>5. c \in Threads \cup Coros \/ \E u \in Threads : c = Sync(u)
    BY <1>1 DEF Frames, Syncs
  <1>6. \A f \in Coros : f \in Frames /\ f \notin Threads
    BY Names DEF Frames
  <1> HIDE DEF c
  <1>7. /\ op \in {"wait", "block"} => c = t
        /\ op \in {"await", "read", "io", "schedule"} => c # t /\ c \in Frames
        /\ op \in {"io", "schedule"} => c \in Coros
    BY <1>1, <1>2, <1>3, <1>4, <1>5, <1>6, Names
  <1> QED  BY <1>1, <1>7 DEF c

(* Who reads has awaited what it reads. *)
LEMMA Reader ==
    ASSUME TInv, NEW t \in Threads, mode[t] # "notifying",
           NEW g \in Coros, Doing(t, "read", g)
    PROVE  ~ Pending(g) /\ result[g] = g
  <1> DEFINE c == Running(t)
  <1>1. stack[t] # <<>> /\ c \in Frames /\ Present(c)
    BY Doers, Runs DEF TInv
  <1>2. pos[c] \in Nat \ {0}
    BY <1>1 DEF TInv, TypeOK
  <1>3. CASE c \in Coros
    <2>1. pos[c] \in DOMAIN program[c] /\ program[c][pos[c]] = <<"read", g>>
      BY <1>3, Operation DEF TInv
    <2>2. program[c][pos[c]][1] = "read" /\ program[c][pos[c]][2] = g
      BY <2>1
    <2> HIDE DEF c
    <2>3. pos[c] > 1 /\ program[c][pos[c] - 1] = <<"await", g>>
      BY <1>3, <2>1, <2>2, WellWritten DEF TInv
    <2>4. Previous(c) = <<"await", g>>
      BY <1>3, <2>3, Codes DEF Previous
    <2> QED  BY <1>1, <2>3, <2>4, CanGoOn
  <1>4. ASSUME NEW u \in Threads, c = Sync(u)
        PROVE  ~ Pending(g) /\ result[g] = g
    <2>1. pos[c] = 2 /\ g = target[u]
      BY <1>4, SyncOperation DEF TInv
    <2>2. Previous(c) = <<"await", g>>
      BY <1>4, <2>1, Codes DEF Previous
    <2> HIDE DEF c
    <2> QED  BY <1>1, <2>1, <2>2, CanGoOn
  <1> QED  BY <1>1, <1>3, <1>4 DEF Frames, Syncs

(* A thread that begins to wait. *)
LEMMA WaitGoes ==
    ASSUME TInv, NEW t \in Threads, NEW g \in Coros, Wait(t, g), TypeOK'
    PROVE  /\ mode[t] = "run" /\ Running(t) = t /\ stack[t] = <<>> /\ Doing(t, "wait", g)
           /\ ~ Present(Sync(t))
           /\ \A h \in Coros : caller[h] = Sync(t) => ~ Pending(h)
           /\ pos'[t] = pos[t] + 1 /\ pos'[Sync(t)] = 1 /\ pos[t] \in Nat \ {0}
           /\ \A d \in Threads \cup Frames : d # t /\ d # Sync(t) => pos'[d] = pos[d]
           /\ \A f : NotStarted(f)' => NotStarted(f)
  <1>1. mode[t] = "run" /\ mode[t] # "notifying" /\ Doing(t, "wait", g)
    BY DoesIt DEF Wait, TInv
  <1>2. Running(t) = t /\ stack[t] = <<>>
    BY <1>1, Doers DEF TInv
  <1>3. /\ ~ Present(Sync(t))
        /\ \A h \in Coros : caller[h] = Sync(t) => ~ Pending(h)
    BY <1>1, <1>2, Blocked
  <1>4. /\ pos'[t] = pos[t] + 1 /\ pos'[Sync(t)] = 1
        /\ \A d \in Threads \cup Frames : d # t /\ d # Sync(t) => pos'[d] = pos[d]
        /\ pos[t] \in Nat \ {0}
    BY Names DEF Wait, TInv, TypeOK
  <1>5. \A f : NotStarted(f)' => NotStarted(f)
    <2>1. \A c \in Threads \cup Frames : pos[c] \in Nat
      BY DEF TInv, TypeOK
    <2>2. \A c \in Threads \cup Frames : c # Sync(t) => pos[c] <= pos'[c]
      BY <1>4, <2>1
    <2>3. \A c \in Threads \cup Coros : pos[c] <= pos'[c]
      BY <2>2, Names DEF Frames
    <2>4. \A u \in Threads : pos[u] < pos'[u] \/ pos[Sync(u)] <= pos'[Sync(u)]
      BY <1>4, <2>2, Names
    <2> QED  BY <2>3, <2>4, Earlier DEF TInv, Wait
  <1> QED  BY <1>1, <1>2, <1>3, <1>4, <1>5

LEMMA WaitKeeps ==
    ASSUME TInv, NEW t \in Threads, NEW g \in Coros, Wait(t, g), TypeOK'
    PROVE  TInv'
  <1>1. mode[t] = "run" /\ mode[t] # "notifying" /\ Doing(t, "wait", g)
    BY WaitGoes
  <1>2. Running(t) = t /\ stack[t] = <<>>
    BY WaitGoes
  <1>3. /\ ~ Present(Sync(t))
        /\ \A h \in Coros : caller[h] = Sync(t) => ~ Pending(h)
    BY WaitGoes
  <1>4. /\ pos'[t] = pos[t] + 1 /\ pos'[Sync(t)] = 1
        /\ \A d \in Threads \cup Frames : d # t /\ d # Sync(t) => pos'[d] = pos[d]
        /\ pos[t] \in Nat \ {0}
    BY WaitGoes
  <1>5. /\ target'[t] = g /\ flag'[t] = FALSE /\ stack'[t] = <<Sync(t)>>
        /\ \A u \in Threads : u # t =>
              target'[u] = target[u] /\ flag'[u] = flag[u] /\ stack'[u] = stack[u]
        /\ UNCHANGED <<program, caller, result, mode, queue, io, reads>>
    BY DEF Wait, TInv, TypeOK, promises, ghosts, waiting
  <1>6. \A d \in Threads \cup Frames : d # Sync(t) => Code(d)' = Code(d)
    <2>1. \A d \in Syncs : d # Sync(t) => target'[Owner(d)] = target[Owner(d)]
      BY <1>5, Names
    <2> QED  BY <1>5, <2>1 DEF Code
  <1>7. \A d \in Threads \cup Frames : d # t /\ d # Sync(t) => Previous(d)' = Previous(d)
    BY <1>4, <1>6 DEF Previous
  <1>8. Previous(t)' = <<"wait", g>>
    <2>1. pos'[t] - 1 = pos[t] /\ t # Sync(t)
      BY <1>4, Names
    <2>2. Code(t)[pos[t]] = <<"wait", g>> /\ Code(t)' = Code(t)
      BY <1>1, <1>2, <1>6, <2>1 DEF Doing
    <2> QED  BY <2>1, <2>2 DEF Previous
  <1>9. \A f : NotStarted(f)' => NotStarted(f)
    BY WaitGoes
  <1>10. /\ OnlyOnce'
         /\ \A f \in Frames : Present(f)' => Present(f) \/ f = Sync(t)
    <2>1. Live \in [Threads -> Seq(Frames)] /\ Live[t] = <<>>
      BY <1>1, <1>2, LiveType, Runs DEF TInv
    <2>2. Live' = [Live EXCEPT ![t] = Append(Live[t], Sync(t))]
      <3>1. Append(<<>>, Sync(t)) = <<Sync(t)>>
        OBVIOUS
      <3>2. \A u \in Threads :
                Live'[u] = [Live EXCEPT ![t] = Append(Live[t], Sync(t))][u]
        BY <1>1, <1>5, <2>1, <3>1 DEF Live, Below
      <3>3. Live' = [u \in Threads |-> Live'[u]]
        BY DEF Live
      <3> QED  BY <2>1, <3>2, <3>3
    <2>3. Sync(t) \in Frames /\ ~ Inside(Live, queue, io, Sync(t))
      BY <1>3, Names DEF Present
    <2> DEFINE L == Live'
    <2>4. L = [Live EXCEPT ![t] = Append(Live[t], Sync(t))]
      BY <2>2
    <2> HIDE DEF L
    <2>5. ASSUME NEW f
          PROVE  /\ Inside(L, queue, io, f) => Inside(Live, queue, io, f) \/ f = Sync(t)
                 /\ Alone(Live, queue, io, f) => Alone(L, queue, io, f)
      BY <2>1, <2>3, <2>4, Pushed
    <2>6. queue' = queue /\ io' = io
      BY <1>5
    <2> QED  BY <2>5, <2>6 DEF TInv, OnlyOnce, Present, L
  <1>11. \A f : Ending(f)' <=> Ending(f)
    <2>1. mode[t] \notin Ends /\ mode'[t] \notin Ends
      BY <1>1, <1>5 DEF Ends
    <2> QED  BY <1>5, <2>1 DEF Ending, Top
  <1>12. \A f : Pending(f)' <=> Pending(f)
    BY <1>5, <1>11 DEF Pending
  <1>13. Results'
    BY Names DEF Wait, Becomes, promises, TInv, TypeOK, Results, Frames
  <1>14. Unended'
    BY <1>10, <1>12, Names DEF TInv, Unended, Frames
  <1>15. Fresh'
    <2> SUFFICES ASSUME NEW f \in Coros, NotStarted(f)'
                 PROVE  ~ Present(f)' /\ pos'[f] = 1 /\ result'[f] = None
      BY DEF Fresh
    <2>1. ~ Present(f) /\ pos[f] = 1 /\ result[f] = None /\ f \in Frames
      BY <1>9 DEF TInv, Fresh, Frames
    <2> QED  BY <1>4, <1>5, <1>10, <2>1, Names
  <1>16. Callers'
    <2> SUFFICES ASSUME NEW h \in Coros, NEW c \in Frames, caller[h] = c, Pending(h)
                 PROVE  /\ ~ Present(c)'
                        /\ pos'[c] > 1 /\ Previous(c)' = <<"await", h>>
                        /\ c \in Coros => result'[c] = None
      BY <1>5, <1>12 DEF Callers
    <2>1. /\ ~ Present(c) /\ pos[c] > 1 /\ Previous(c) = <<"await", h>>
          /\ c \in Coros => result[c] = None
      BY DEF TInv, Callers
    <2>2. c # Sync(t) /\ c # t
      BY <1>3, Names
    <2> QED  BY <1>4, <1>5, <1>7, <1>10, <2>1, <2>2
  <1>17. Awaiters'
    <2> SUFFICES ASSUME NEW c \in Frames, NEW h \in Coros,
                        pos'[c] > 1, Previous(c)' = <<"await", h>>
                 PROVE  caller[h] = c
      BY <1>5 DEF Awaiters
    <2>1. c # Sync(t) /\ c # t
      BY <1>4, Names
    <2> QED  BY <1>4, <1>7, <2>1 DEF TInv, Awaiters
  <1>18. Drops'
    <2> SUFFICES ASSUME NEW u \in Threads, NEW d \in Threads \cup Frames,
                        mode[u] = "dropping", Running(u)' = d
                 PROVE  pos'[d] <= Len(Code(d)') /\ \E h \in Coros : Code(d)'[pos'[d]] = <<"drop", h>>
      BY <1>5 DEF Drops
    <2>1. u # t
      BY <1>1
    <2>2. Running(u) = d
      BY <1>5, <2>1 DEF Running, Top
    <2>3. d # t /\ d # Sync(t)
      <3>1. mode[u] # "notifying"
        OBVIOUS
      <3>2. d # t
        BY <1>1, <1>2, <2>1, <2>2, <3>1, Apart DEF TInv
      <3>3. d = Sync(t) => Present(d)
        BY <2>2, <3>1, Runs, Names DEF TInv
      <3> QED  BY <1>3, <3>2, <3>3
    <2> QED  BY <1>4, <1>6, <2>2, <2>3 DEF TInv, Drops
  <1>19. Endings'
    <2> SUFFICES ASSUME NEW u \in Threads, NEW f \in Frames, stack'[u] # <<>>, Top(u)' = f
                 PROVE  /\ mode[u] \in Ends => f \in Coros /\ result[f] = f
                        /\ mode[u] \in {"setting", "notifying"} => f \in Syncs
                        /\ mode[u] = "setting" => result[f] = target'[Owner(f)] /\ pos'[f] = 3
      BY <1>5 DEF Endings
    <2>1. CASE u = t
      BY <1>1, <2>1 DEF Ends
    <2>2. CASE u # t
      <3>1. stack[u] # <<>> /\ Top(u) = f
        BY <1>5, <2>2 DEF Top
      <3>2. ASSUME mode[u] = "setting"
            PROVE  target'[Owner(f)] = target[Owner(f)] /\ pos'[f] = pos[f]
        <4>1. f \in Syncs
          BY <3>1, <3>2 DEF TInv, Endings
        <4>2. f # Sync(t)
          BY <1>3, <3>1, <3>2, Runs DEF TInv
        <4>3. f # t
          BY Names
        <4> QED  BY <1>4, <1>5, <4>1, <4>2, <4>3, Names
      <3> QED  BY <3>1, <3>2 DEF TInv, Endings
    <2> QED  BY <2>1, <2>2
  <1>20. Targets'
    <2>1. ASSUME NEW u \in Threads, u # t
          PROVE  /\ pos'[u] = pos[u] /\ Previous(u)' = Previous(u)
                 /\ target'[u] = target[u] /\ program' = program
      BY <1>4, <1>5, <1>7, <2>1, Names
    <2>2. ASSUME NEW u \in Threads, target'[u] # None
          PROVE  \E i \in 1 .. pos'[u] - 1 :
                    i \in DOMAIN program[u] /\ program[u][i] = <<"wait", target'[u]>>
      <3>1. CASE u = t
        <4>1. pos[t] \in DOMAIN program[t] /\ program[t][pos[t]] = <<"wait", g>>
          BY <1>1, <1>2, Operation DEF TInv
        <4>2. pos[t] \in 1 .. pos'[t] - 1
          BY <1>4
        <4> QED  BY <1>5, <3>1, <4>1, <4>2
      <3>2. CASE u # t
        BY <2>1, <2>2, <3>2 DEF TInv, Targets
      <3> QED  BY <3>1, <3>2
    <2>3. ASSUME NEW u \in Threads, NEW h \in Coros,
                 pos'[u] > 1, Previous(u)' = <<"wait", h>>
          PROVE  target'[u] = h
      <3>1. CASE u = t
        BY <1>5, <1>8, <2>3, <3>1
      <3>2. CASE u # t
        BY <2>1, <2>3, <3>2 DEF TInv, Targets
      <3> QED  BY <3>1, <3>2
    <2> QED  BY <1>5, <2>2, <2>3 DEF Targets
  <1>21. SyncTurns'
    <2> SUFFICES ASSUME NEW u \in Threads,
                        \/ Present(Sync(u))'
                        \/ \E h \in Coros : caller[h] = Sync(u) /\ Pending(h)
                 PROVE  /\ pos'[u] > 1 /\ target'[u] # None
                        /\ Previous(u)' = <<"wait", target'[u]>> /\ ~ flag'[u]
      BY <1>5, <1>12 DEF SyncTurns
    <2>1. CASE u = t
      BY <1>4, <1>5, <1>8, <2>1, Names DEF Frames
    <2>2. CASE u # t
      <3>1. Present(Sync(u)) \/ \E h \in Coros : caller[h] = Sync(u) /\ Pending(h)
        BY <1>10, <2>2, Names
      <3>2. /\ pos[u] > 1 /\ target[u] # None
            /\ Previous(u) = <<"wait", target[u]>> /\ ~ flag[u]
        BY <3>1 DEF TInv, SyncTurns
      <3>3. pos'[u] = pos[u] /\ Previous(u)' = Previous(u)
        BY <1>4, <1>7, <2>2, Names
      <3> QED  BY <1>5, <2>2, <3>2, <3>3
    <2> QED  BY <2>1, <2>2
  <1>22. SyncReads'
    <2> SUFFICES ASSUME NEW u \in Threads
                 PROVE  /\ pos'[Sync(u)] <= 3
                        /\ pos'[Sync(u)] = 3 => target'[u] # None /\ ~ Pending(target'[u])
                        /\ flag'[u] => result[Sync(u)] = target'[u] /\ pos'[Sync(u)] = 3
      BY <1>5, <1>12 DEF SyncReads
    <2>1. CASE u = t
      BY <1>4, <1>5, <2>1
    <2>2. CASE u # t
      <3>1. pos'[Sync(u)] = pos[Sync(u)]
        BY <1>4, <2>2, Names
      <3> QED  BY <1>5, <2>2, <3>1 DEF TInv, SyncReads
    <2> QED  BY <2>1, <2>2
  <1>23. ReadsReturned'
    BY <1>5 DEF TInv, ReadsReturned
  <1> QED
    BY <1>10, <1>13, <1>14, <1>15, <1>16, <1>17, <1>18, <1>19, <1>20, <1>21, <1>22, <1>23
    DEF TInv

-----------------------------------------------------------------------------
(* What every step keeps of the types, and where frames are                *)

LEMMA GoesType ==
    ASSUME TypeOK, NEW t \in Threads, mode[t] # "notifying",
           NEW op, NEW g, Doing(t, op, g), Goes(t), program' = program
    PROVE  /\ pos' \in [Threads \cup Frames -> Nat \ {0}]
           /\ \A c \in Threads \cup Coros : pos'[c] <= Len(program'[c]) + 1
  <1> DEFINE c == Running(t)
  <1>1. c \in Threads \cup Frames
    BY Runs
  <1>2. /\ pos[c] \in Nat \ {0} /\ pos[c] <= Len(Code(c))
        /\ pos' = [pos EXCEPT ![c] = pos[c] + 1]
    BY <1>1 DEF TypeOK, Doing, Goes
  <1> HIDE DEF c
  <1>3. pos' \in [Threads \cup Frames -> Nat \ {0}]
    BY <1>1, <1>2 DEF TypeOK
  <1>4. ASSUME NEW d \in Threads \cup Coros
        PROVE  pos'[d] <= Len(program[d]) + 1
    <2>1. d \in Threads \cup Frames
      BY DEF Frames
    <2>2. CASE d = c
      <3>1. pos'[d] = pos[c] + 1 /\ pos[c] <= Len(program[c])
        BY <1>1, <1>2, <2>2, Codes DEF TypeOK
      <3>2. program[c] \in Seq(Operations)
        BY <2>2, ProgramsAssumption DEF TypeOK, WellFormed
      <3> QED  BY <1>2, <2>2, <3>1, <3>2
    <2>3. CASE d # c
      <3>1. pos'[d] = pos[d]
        BY <1>2, <2>1, <2>3 DEF TypeOK
      <3> QED  BY <3>1 DEF TypeOK
    <2> QED  BY <2>2, <2>3
  <1> QED  BY <1>3, <1>4

LEMMA SamePlaces ==
    ASSUME OnlyOnce, Live' = Live, queue' = queue, io' = io
    PROVE  OnlyOnce' /\ \A f : Present(f)' <=> Present(f)
  BY DEF OnlyOnce, Present

LEMMA LiveElsewhere ==
    ASSUME NEW t \in Threads,
           \A u \in Threads : u # t => stack'[u] = stack[u] /\ mode'[u] = mode[u]
    PROVE  Live' = [Live EXCEPT ![t] = Live'[t]]
  <1>1. \A u \in Threads : u # t => Live'[u] = Live[u]
    BY DEF Live, Below
  <1> DEFINE L == Live'
  <1>2. Live = [u \in Threads |-> Live[u]] /\ L = [u \in Threads |-> L[u]]
    BY DEF Live
  <1> HIDE DEF L
  <1>3. \A u \in Threads : u # t => L[u] = Live[u]
    BY <1>1 DEF L
  <1>4. L = [Live EXCEPT ![t] = L[t]]
    BY <1>2, <1>3
  <1> QED  BY <1>4 DEF L

LEMMA OrdinaryKeeps ==
    ASSUME TInv, StartedOnce(program), NEW t \in Threads, mode[t] \in {"run", "dropping"},
           NEW op, NEW g, Doing(t, op, g),
           Goes(t), TypeOK',
           UNCHANGED <<program, caller, result, stack, queue, io, target, flag>>,
           mode' = [mode EXCEPT ![t] = "run"],
           \A f \in Coros : state'[f] = "final" => state[f] = "final",
           op \notin {"await", "wait"}, op = "block" => flag[t],
           \A r \in reads' : r \in reads \/ r[3] = r[2]
    PROVE  TInv'
  <1>1. mode[t] # "notifying"
    OBVIOUS
  <1>2. \A u \in Threads : /\ u # t => mode'[u] = mode[u]
                           /\ mode'[t] = "run"
    BY DEF TInv, TypeOK
  <1>3. Live' = Live
    BY <1>1, <1>2 DEF Live, Below
  <1>4. OnlyOnce' /\ \A f : Present(f)' <=> Present(f)
    BY <1>3, SamePlaces DEF TInv
  <1> DEFINE c == Running(t)
  <1>5. op = "block" => flag[c]
    BY <1>1, Doers DEF TInv
  <1>6. op # "await" /\ op # "wait"
    OBVIOUS
  <1> HIDE DEF c
  <1> QED  BY <1>4, <1>5, <1>6, OperationKeeps DEF c

-----------------------------------------------------------------------------
(* The actions                                                             *)

LEMMA OrdinaryActions ==
    ASSUME TInv, StartedOnce(program), NEW t \in Threads, NEW g \in Coros,
           Make(t, g) \/ Detach(t, g) \/ Read(t, g) \/ Sleep(t, g)
    PROVE  TInv'
  <1> DEFINE c == Running(t)
  <1>1. PICK op \in {"make", "detach", "read", "sleep"} : Does(t, op, g)
    BY DEF Make, Detach, Read, Sleep
  <1>2. mode[t] = "run" /\ mode[t] # "notifying" /\ Doing(t, op, g)
    BY <1>1, DoesIt DEF TInv
  <1>3. /\ Goes(t)
        /\ UNCHANGED <<program, caller, result, stack, mode, queue, io, target, flag>>
    BY DEF Make, Detach, Read, Sleep, promises, threads, waiting, sync
  <1>4. /\ state' \in [Frames -> States]
        /\ \A f \in Coros : state'[f] = "final" => state[f] = "final"
    BY DEF Make, Detach, Read, Sleep, Becomes, States, Frames, TInv, TypeOK
  <1>5. TypeOK'
    <2>1. /\ pos' \in [Threads \cup Frames -> Nat \ {0}]
          /\ \A d \in Threads \cup Coros : pos'[d] <= Len(program'[d]) + 1
      BY <1>2, <1>3, GoesType DEF TInv
    <2> QED  BY <1>3, <1>4, <2>1 DEF TInv, TypeOK
  <1>6. mode' = [mode EXCEPT ![t] = "run"]
    BY <1>2, <1>3 DEF TInv, TypeOK
  <1>7. \A r \in reads' : r \in reads \/ r[3] = r[2]
    <2>1. CASE Read(t, g)
      <3>1. reads' = reads \cup {<<c, g, result[g]>>}
        BY <2>1 DEF Read
      <3>2. result[g] = g
        BY <1>2, <2>1, DoesIt, Reader DEF Read, TInv
      <3> QED  BY <3>1, <3>2
    <2>2. CASE Make(t, g) \/ Detach(t, g) \/ Sleep(t, g)
      BY <2>2 DEF Make, Detach, Sleep, ghosts
    <2> QED  BY <2>1, <2>2
  <1>8. op \notin {"await", "wait"} /\ op # "block"
    OBVIOUS
  <1> QED
    BY <1>2, <1>3, <1>4, <1>5, <1>6, <1>7, <1>8, OrdinaryKeeps

(* A task's second part, and the end of a block. *)
LEMMA DropActions ==
    ASSUME TInv, StartedOnce(program), NEW t \in Threads, NEW g \in Coros,
           (Drop(t, g) /\ Done(g)) \/ SetDetached(t, g)
    PROVE  TInv'
  <1> DEFINE c == Running(t)
  <1>1. PICK h : Doing(t, "drop", h) /\ mode[t] \in {"run", "dropping"}
    <2>1. CASE Drop(t, g)
      BY <2>1, DoesIt DEF Drop, TInv
    <2>2. CASE SetDetached(t, g)
      <3>1. mode[t] = "dropping" /\ mode[t] # "notifying"
        BY <2>2 DEF SetDetached
      <3>2. c \in Threads \cup Frames
        BY <3>1, Runs DEF TInv
      <3>3. pos[c] <= Len(Code(c)) /\ \E h \in Coros : Code(c)[pos[c]] = <<"drop", h>>
        BY <3>1, <3>2 DEF TInv, Drops
      <3> QED  BY <3>1, <3>3 DEF Doing
    <2> QED  BY <2>1, <2>2
  <1>2. /\ Goes(t)
        /\ UNCHANGED <<program, caller, result, stack, queue, io, target, flag, reads>>
    BY DEF Drop, SetDetached, promises, waiting, sync
  <1>3. /\ state' \in [Frames -> States]
        /\ \A f \in Coros : state'[f] = "final" => state[f] = "final"
    <2>1. state' = state \/ Becomes(g, "destroyed")
      BY DEF Drop, SetDetached
    <2> QED  BY <2>1 DEF Becomes, States, Frames, TInv, TypeOK
  <1>4. mode' = [mode EXCEPT ![t] = "run"]
    <2>1. CASE Drop(t, g) /\ Done(g)
      BY <2>1 DEF Drop, Does, TInv, TypeOK
    <2>2. CASE SetDetached(t, g)
      BY <2>2 DEF SetDetached, Enters
    <2> QED  BY <2>1, <2>2
  <1>5. TypeOK'
    <2>1. /\ pos' \in [Threads \cup Frames -> Nat \ {0}]
          /\ \A d \in Threads \cup Coros : pos'[d] <= Len(program'[d]) + 1
      BY <1>1, <1>2, GoesType DEF TInv
    <2>2. /\ mode' \in [Threads -> Modes]
          /\ \A u \in Threads : mode'[u] \notin {"run", "dropping"} => stack[u] # <<>>
      BY <1>4 DEF TInv, TypeOK, Modes
    <2> QED  BY <1>2, <1>3, <2>1, <2>2 DEF TInv, TypeOK
  <1> QED
    BY <1>1, <1>2, <1>3, <1>4, <1>5, OrdinaryKeeps

LEMMA BlockAction ==
    ASSUME TInv, StartedOnce(program), NEW t \in Threads, NEW g \in Coros,
           Block(t, g), asleep' = asleep
    PROVE  TInv'
  <1>1. Doing(t, "block", g) /\ mode[t] = "run" /\ mode[t] # "notifying"
    BY DoesIt DEF Block, TInv
  <1>2. Running(t) = t
    BY <1>1, Doers DEF TInv
  <1>3. /\ Released(t) /\ Becomes(Sync(t), "destroyed") /\ Goes(t)
        /\ reads' = reads \cup {<<t, g, result[Sync(t)]>>}
        /\ UNCHANGED <<program, caller, result, stack, mode, queue, io, target, flag>>
    <2>1. asleep' # asleep \cup {t} \/ t \in asleep
      OBVIOUS
    <2> QED  BY <2>1 DEF Block, promises, threads, waiting
  <1>4. /\ state' \in [Frames -> States]
        /\ \A f \in Coros : state'[f] = "final" => state[f] = "final"
    BY <1>3, Names DEF Becomes, States, Frames, TInv, TypeOK
  <1>5. TypeOK'
    <2>1. /\ pos' \in [Threads \cup Frames -> Nat \ {0}]
          /\ \A d \in Threads \cup Coros : pos'[d] <= Len(program'[d]) + 1
      BY <1>1, <1>3, GoesType DEF TInv
    <2> QED  BY <1>3, <1>4, <2>1 DEF TInv, TypeOK
  <1>6. mode' = [mode EXCEPT ![t] = "run"]
    BY <1>1, <1>3 DEF TInv, TypeOK
  <1>7. \A r \in reads' : r \in reads \/ r[3] = r[2]
    <2>1. pos[t] \in DOMAIN program[t] /\ program[t][pos[t]] = <<"block", g>>
      BY <1>1, <1>2, Operation DEF TInv
    <2>2. program[t][pos[t]][1] = "block" /\ program[t][pos[t]][2] = g
      BY <2>1
    <2>3. pos[t] > 1 /\ program[t][pos[t] - 1] = <<"wait", g>>
      BY <2>1, <2>2, WellWritten DEF TInv
    <2>4. Previous(t) = <<"wait", g>>
      BY <2>3, Codes DEF Previous
    <2>5. target[t] = g
      BY <2>3, <2>4 DEF TInv, Targets
    <2>6. result[Sync(t)] = g
      BY <1>3, <2>5 DEF TInv, SyncReads, Released
    <2> QED  BY <1>3, <2>6
  <1>8. flag[t] /\ "block" \notin {"await", "wait"}
    BY <1>3 DEF Released
  <1> QED
    BY <1>1, <1>3, <1>4, <1>5, <1>6, <1>7, <1>8, OrdinaryKeeps

(* What has ended is not started again. *)
LEMMA NotDone ==
    ASSUME TInv, StartedOnce(program), NEW t \in Threads, NEW g \in Coros,
           NEW op \in {"resume", "await"}, Does(t, op, g)
    PROVE  /\ ~ Done(g) /\ ~ Present(g)
           /\ mode[t] = "run" /\ mode[t] # "notifying" /\ Doing(t, op, g)
  <1>1. mode[t] = "run" /\ mode[t] # "notifying" /\ Doing(t, op, g)
    BY DoesIt DEF TInv
  <1>2. NotStarted(g)
    BY <1>1, Starting
  <1>3. ~ Present(g) /\ result[g] = None
    BY <1>2 DEF TInv, Fresh
  <1>4. g # None
    BY Names DEF Frames
  <1> QED  BY <1>1, <1>3, <1>4 DEF Done, TInv, Results

LEMMA ResumeAction ==
    ASSUME TInv, StartedOnce(program), NEW t \in Threads, NEW g \in Coros, Resume(t, g)
    PROVE  TInv'
  <1>1. Does(t, "resume", g)
    BY DEF Resume
  <1>2. /\ ~ Done(g) /\ ~ Present(g)
        /\ mode[t] = "run" /\ mode[t] # "notifying" /\ Doing(t, "resume", g)
    BY <1>1, NotDone
  <1>3. /\ Goes(t) /\ Becomes(g, "running")
        /\ stack' = [stack EXCEPT ![t] = Append(stack[t], g)]
        /\ UNCHANGED <<program, caller, result, mode, queue, io, target, flag, reads>>
    BY <1>2 DEF Resume, promises, waiting, sync
  <1>4. /\ state' \in [Frames -> States]
        /\ \A f \in Coros : state'[f] = "final" => state[f] = "final"
    BY <1>3 DEF Becomes, States, Frames, TInv, TypeOK
  <1>5. stack' \in [Threads -> Seq(Frames)] /\ stack'[t] = Append(stack[t], g)
        /\ \A u \in Threads : u # t => stack'[u] = stack[u]
    BY <1>3 DEF TInv, TypeOK, Frames
  <1>6. TypeOK'
    <2>1. /\ pos' \in [Threads \cup Frames -> Nat \ {0}]
          /\ \A d \in Threads \cup Coros : pos'[d] <= Len(program'[d]) + 1
      BY <1>2, <1>3, GoesType DEF TInv
    <2>2. \A u \in Threads : mode[u] \notin {"run", "dropping"} => stack'[u] # <<>>
      BY <1>2, <1>5 DEF TInv, TypeOK
    <2> QED  BY <1>3, <1>4, <1>5, <2>1, <2>2 DEF TInv, TypeOK
  <1>7. mode' = [mode EXCEPT ![t] = "run"]
    BY <1>2, <1>3 DEF TInv, TypeOK
  <1>8. OnlyOnce' /\ \A f \in Frames : Present(f)' => Present(f) \/ f = g
    <2>1. Live' = [Live EXCEPT ![t] = Live'[t]]
      BY <1>3, <1>5, LiveElsewhere
    <2>2. Live'[t] = Append(Live[t], g)
      BY <1>2, <1>3, <1>5 DEF Live
    <2>3. Live \in [Threads -> Seq(Frames)] /\ g \in Frames /\ ~ Inside(Live, queue, io, g)
      BY <1>2, LiveType DEF TInv, Frames, Present
    <2> DEFINE L == Live'
    <2>4. L = [Live EXCEPT ![t] = Append(Live[t], g)]
      BY <2>1, <2>2
    <2> HIDE DEF L
    <2>5. ASSUME NEW f
          PROVE  /\ Inside(L, queue, io, f) => Inside(Live, queue, io, f) \/ f = g
                 /\ Alone(Live, queue, io, f) => Alone(L, queue, io, f)
      BY <2>3, <2>4, Pushed
    <2>6. queue' = queue /\ io' = io
      BY <1>3
    <2> QED  BY <2>5, <2>6 DEF TInv, OnlyOnce, Present, L
  <1>9. "resume" # "await" /\ "resume" # "wait" /\ "resume" # "block"
        /\ "resume" \in {"resume", "await"} /\ mode[t] \in {"run", "dropping"}
    BY <1>2
  <1> DEFINE c == Running(t)
  <1> HIDE DEF c
  <1> QED
    BY <1>2, <1>3, <1>4, <1>5, <1>6, <1>7, <1>8, <1>9, OperationKeeps DEF c

(* Pop, then push: the frame in its place. *)
LEMMA Replaced ==
    ASSUME NEW s \in [Threads -> Seq(Frames)], NEW q, NEW w,
           NEW t \in Threads, s[t] # <<>>,
           NEW g \in Frames, ~ Inside(s, q, w, g),
           Alone(s, q, w, s[t][Len(s[t])]), s[t][Len(s[t])] # g,
           NEW f
    PROVE  LET s1 == [s EXCEPT ![t] = Append(SubSeq(s[t], 1, Len(s[t]) - 1), g)]
           IN  /\ s1 \in [Threads -> Seq(Frames)]
               /\ Inside(s1, q, w, f) => Inside(s, q, w, f) \/ f = g
               /\ Alone(s, q, w, f) => Alone(s1, q, w, f)
               /\ ~ Inside(s1, q, w, s[t][Len(s[t])])
  <1> DEFINE c == s[t][Len(s[t])]
             s0 == [s EXCEPT ![t] = SubSeq(s[t], 1, Len(s[t]) - 1)]
             s1 == [s EXCEPT ![t] = Append(SubSeq(s[t], 1, Len(s[t]) - 1), g)]
  <1>0. s[t] \in Seq(Frames)
    OBVIOUS
  <1>1. SubSeq(s[t], 1, Len(s[t]) - 1) \in Seq(Frames)
    BY <1>0, Front
  <1>2. s0 \in [Threads -> Seq(Frames)] /\ s0[t] = SubSeq(s[t], 1, Len(s[t]) - 1)
    BY <1>1
  <1>3. s1 = [s0 EXCEPT ![t] = Append(s0[t], g)] /\ s1 \in [Threads -> Seq(Frames)]
    BY <1>1, <1>2
  <1>4. ASSUME NEW h
        PROVE  /\ Inside(s0, q, w, h) => Inside(s, q, w, h)
               /\ Alone(s, q, w, h) => Alone(s0, q, w, h)
               /\ Alone(s, q, w, h) /\ h = c => ~ Inside(s0, q, w, h)
    BY Popped
  <1>5. ~ Inside(s0, q, w, g) /\ ~ Inside(s0, q, w, c)
    BY <1>4
  <1> DEFINE p1 == [s0 EXCEPT ![t] = Append(s0[t], g)]
  <1>a. p1 = s1
    BY <1>3
  <1> HIDE DEF s0
  <1>6. ASSUME NEW h
        PROVE  /\ Inside(p1, q, w, h) => Inside(s0, q, w, h) \/ h = g
               /\ Alone(s0, q, w, h) => Alone(p1, q, w, h)
    BY <1>2, <1>5, Pushed
  <1> HIDE DEF p1, s1
  <1>7. ASSUME NEW h
        PROVE  /\ Inside(s1, q, w, h) => Inside(s, q, w, h) \/ h = g
               /\ Alone(s, q, w, h) => Alone(s1, q, w, h)
    BY <1>a, <1>4, <1>6
  <1>8. ~ Inside(s1, q, w, c)
    BY <1>a, <1>5, <1>6
  <1> HIDE DEF c
  <1> QED  BY <1>3, <1>7, <1>8 DEF s1, c

LEMMA AwaitAction ==
    ASSUME TInv, StartedOnce(program), NEW t \in Threads, NEW g \in Coros, Await(t, g)
    PROVE  TInv'
  <1> SUFFICES ASSUME NEW c, c = Running(t) PROVE TInv'
    OBVIOUS
  <1>1. Does(t, "await", g) /\ "await" \in {"resume", "await"}
    BY DEF Await
  <1>2. /\ ~ Done(g) /\ ~ Present(g)
        /\ mode[t] = "run" /\ mode[t] # "notifying" /\ Doing(t, "await", g)
    BY <1>1, NotDone
  <1>3. stack[t] # <<>> /\ c = Top(t) /\ c \in Frames /\ Present(c) /\ Live[t] = stack[t]
    BY <1>2, Doers, Runs DEF TInv
  <1>4. /\ Goes(t)
        /\ caller' = [caller EXCEPT ![g] = c]
        /\ state' = [state EXCEPT ![c] = "suspended", ![g] = "running"]
        /\ stack' = [stack EXCEPT ![t] = Append(Below(t), g)]
        /\ UNCHANGED <<program, result, mode, queue, io, target, flag, reads>>
    BY <1>2 DEF Await, Noted, waiting, sync
  <1>5. g \in Frames /\ g # c
    BY <1>2, <1>3 DEF Frames
  <1>6. /\ state' \in [Frames -> States]
        /\ \A f \in Coros : state'[f] = "final" => state[f] = "final"
    BY <1>3, <1>4, <1>5 DEF States, Frames, TInv, TypeOK
  <1>7. Below(t) \in Seq(Frames)
    BY <1>3, Front DEF TInv, TypeOK, Below
  <1>8. stack' \in [Threads -> Seq(Frames)] /\ stack'[t] = Append(Below(t), g)
        /\ \A u \in Threads : u # t => stack'[u] = stack[u]
    BY <1>4, <1>5, <1>7 DEF TInv, TypeOK
  <1>9. TypeOK'
    <2>1. /\ pos' \in [Threads \cup Frames -> Nat \ {0}]
          /\ \A d \in Threads \cup Coros : pos'[d] <= Len(program'[d]) + 1
      BY <1>2, <1>4, GoesType DEF TInv
    <2>2. caller' \in [Frames -> Frames \cup {None}]
      BY <1>3, <1>4, <1>5 DEF TInv, TypeOK
    <2>3. \A u \in Threads : mode[u] \notin {"run", "dropping"} => stack'[u] # <<>>
      BY <1>2, <1>8 DEF TInv, TypeOK
    <2> QED  BY <1>4, <1>6, <1>8, <2>1, <2>2, <2>3 DEF TInv, TypeOK
  <1>10. mode' = [mode EXCEPT ![t] = "run"]
    BY <1>2, <1>4 DEF TInv, TypeOK
  <1>11. /\ OnlyOnce' /\ ~ Present(c)'
         /\ \A f \in Frames : Present(f)' => Present(f) \/ f = g
    <2> DEFINE L == Live'
    <2>1. L = [Live EXCEPT ![t] = L[t]]
      BY <1>4, <1>8, LiveElsewhere
    <2>2. L[t] = Append(SubSeq(Live[t], 1, Len(Live[t]) - 1), g)
      BY <1>2, <1>3, <1>4, <1>8 DEF Live, Below
    <2>3. Live \in [Threads -> Seq(Frames)] /\ ~ Inside(Live, queue, io, g)
      BY <1>2, LiveType DEF TInv, Present
    <2>4. /\ Live[t] # <<>> /\ Live[t][Len(Live[t])] = c
          /\ Alone(Live, queue, io, Live[t][Len(Live[t])]) /\ Live[t][Len(Live[t])] # g
      BY <1>3, <1>5 DEF Top, TInv, OnlyOnce
    <2> HIDE DEF L
    <2>5. L = [Live EXCEPT ![t] = Append(SubSeq(Live[t], 1, Len(Live[t]) - 1), g)]
      BY <2>1, <2>2
    <2>6. ASSUME NEW f
          PROVE  /\ Inside(L, queue, io, f) => Inside(Live, queue, io, f) \/ f = g
                 /\ Alone(Live, queue, io, f) => Alone(L, queue, io, f)
                 /\ ~ Inside(L, queue, io, Live[t][Len(Live[t])])
      BY <1>5, <2>3, <2>4, <2>5, Replaced
    <2>7. queue' = queue /\ io' = io
      BY <1>4
    <2> QED  BY <2>4, <2>6, <2>7 DEF TInv, OnlyOnce, Present, L
  <1>12. "await" # "wait" /\ "await" # "block" /\ mode[t] \in {"run", "dropping"}
    BY <1>2
  <1> QED
    BY <1>1, <1>2, <1>3, <1>4, <1>6, <1>8, <1>9, <1>10, <1>11, <1>12, OperationKeeps

LEMMA SuspendAction ==
    ASSUME TInv, StartedOnce(program), NEW t \in Threads, Io(t) \/ Schedule(t)
    PROVE  TInv'
  <1> SUFFICES ASSUME NEW c, c = Running(t) PROVE TInv'
    OBVIOUS
  <1>1. PICK op \in {"io", "schedule"} : Does(t, op, None)
    BY DEF Io, Schedule
  <1>2. mode[t] = "run" /\ mode[t] # "notifying" /\ Doing(t, op, None)
    BY <1>1, DoesIt DEF TInv
  <1>3. stack[t] # <<>> /\ c = Top(t) /\ c \in Coros /\ Present(c) /\ Live[t] = stack[t]
    BY <1>2, Doers, Runs DEF TInv
  <1>4. /\ Goes(t)
        /\ state' = [state EXCEPT ![c] = "suspended"]
        /\ stack' = [stack EXCEPT ![t] = Below(t)]
        /\ UNCHANGED <<program, caller, result, mode, target, flag, reads>>
    BY <1>3 DEF Io, Schedule, Suspend, Becomes, promises, sync, ghosts
  <1>5. \/ queue' = Append(queue, c) /\ io' = io
        \/ queue' = queue /\ io' = [io EXCEPT ![t] = io[t] \cup {c}]
    BY <1>3 DEF Io, Schedule
  <1>6. /\ state' \in [Frames -> States]
        /\ \A f \in Coros : state'[f] = "final" => state[f] = "final"
    BY <1>3, <1>4 DEF States, Frames, TInv, TypeOK
  <1>7. Below(t) \in Seq(Frames)
    BY <1>3, Front DEF TInv, TypeOK, Below
  <1>8. stack' \in [Threads -> Seq(Frames)] /\ stack'[t] = Below(t)
        /\ \A u \in Threads : u # t => stack'[u] = stack[u]
    BY <1>4, <1>7 DEF TInv, TypeOK
  <1>9. TypeOK'
    <2>1. /\ pos' \in [Threads \cup Frames -> Nat \ {0}]
          /\ \A d \in Threads \cup Coros : pos'[d] <= Len(program'[d]) + 1
      BY <1>2, <1>4, GoesType DEF TInv
    <2>2. queue' \in Seq(Frames) /\ io' \in [Threads -> SUBSET Frames]
      <3>1. c \in Frames /\ queue \in Seq(Frames) /\ io \in [Threads -> SUBSET Frames]
        BY <1>3 DEF TInv, TypeOK, Frames
      <3>2. CASE queue' = Append(queue, c) /\ io' = io
        BY <3>1, <3>2
      <3>3. CASE queue' = queue /\ io' = [io EXCEPT ![t] = io[t] \cup {c}]
        BY <3>1, <3>3
      <3> QED  BY <1>5, <3>2, <3>3
    <2>3. \A u \in Threads : mode[u] \notin {"run", "dropping"} => stack'[u] # <<>>
      BY <1>2, <1>8 DEF TInv, TypeOK
    <2> QED  BY <1>4, <1>6, <1>8, <2>1, <2>2, <2>3 DEF TInv, TypeOK
  <1>10. mode' = [mode EXCEPT ![t] = "run"]
    BY <1>2, <1>4 DEF TInv, TypeOK
  <1>11. OnlyOnce' /\ \A f \in Frames : Present(f)' => Present(f)
    <2> DEFINE L == Live'
               Q == queue'
               W == io'
    <2>1. L = [Live EXCEPT ![t] = L[t]]
      BY <1>4, <1>8, LiveElsewhere
    <2>2. L[t] = SubSeq(Live[t], 1, Len(Live[t]) - 1)
      BY <1>2, <1>3, <1>4, <1>8 DEF Live, Below
    <2>3. /\ Live \in [Threads -> Seq(Frames)] /\ Live[t] # <<>> /\ Live[t][Len(Live[t])] = c
          /\ Inside(Live, queue, io, c) /\ Alone(Live, queue, io, c) /\ c \in Frames
          /\ queue \in Seq(Frames) /\ io \in [Threads -> SUBSET Frames]
      BY <1>3, LiveType DEF TInv, TypeOK, Present, OnlyOnce, Top, Frames
    <2>4. \/ Q = Append(queue, c) /\ W = io
          \/ Q = queue /\ W = [io EXCEPT ![t] = io[t] \cup {c}]
      BY <1>5
    <2> HIDE DEF L, Q, W
    <2>5. L = [Live EXCEPT ![t] = SubSeq(Live[t], 1, Len(Live[t]) - 1)]
      BY <2>1, <2>2
    <2>6. ASSUME NEW f
          PROVE  /\ Inside(L, queue, io, f) => Inside(Live, queue, io, f)
                 /\ Alone(Live, queue, io, f) => Alone(L, queue, io, f)
                 /\ Alone(Live, queue, io, f) /\ f = c => ~ Inside(L, queue, io, f)
      BY <2>3, <2>5, Popped
    <2>7. ~ Inside(L, queue, io, c)
      BY <2>3, <2>6
    <2>8. ASSUME NEW f
          PROVE  /\ Inside(L, Q, W, f) => Inside(L, queue, io, f) \/ f = c
                 /\ Alone(L, queue, io, f) => Alone(L, Q, W, f)
      <3>1. CASE Q = Append(queue, c) /\ W = io
        BY <2>3, <2>7, <3>1, Enqueued
      <3>2. CASE Q = queue /\ W = [io EXCEPT ![t] = io[t] \cup {c}]
        BY <2>3, <2>7, <3>2, Requested
      <3> QED  BY <2>4, <3>1, <3>2
    <2>9. ASSUME NEW f
          PROVE  /\ Inside(L, Q, W, f) => Inside(Live, queue, io, f)
                 /\ Alone(Live, queue, io, f) => Alone(L, Q, W, f)
      BY <2>3, <2>6, <2>8
    <2> QED  BY <2>9 DEF TInv, OnlyOnce, Present, L, Q, W
  <1>12. /\ op # "await" /\ op # "resume" /\ op # "wait" /\ op # "block"
         /\ mode[t] \in {"run", "dropping"}
    BY <1>2
  <1> QED
    BY <1>2, <1>4, <1>6, <1>8, <1>9, <1>10, <1>11, <1>12, OperationKeeps

LEMMA WaitAction ==
    ASSUME TInv, NEW t \in Threads, NEW g \in Coros, Wait(t, g)
    PROVE  TInv'
  <1>1. mode[t] = "run" /\ mode[t] # "notifying" /\ Doing(t, "wait", g)
    BY DoesIt DEF Wait, TInv
  <1>2. Running(t) = t /\ stack[t] = <<>>
    BY <1>1, Doers DEF TInv
  <1>3. pos[t] \in DOMAIN program[t] /\ program[t] \in Seq(Operations)
    <2>1. pos[t] \in DOMAIN program[t]
      BY <1>1, <1>2, Operation DEF TInv
    <2> QED  BY <2>1, WellWritten DEF TInv
  <1>4. Sync(t) \in Frames /\ Sync(t) # t /\ Sync(t) \notin Threads \cup Coros
    BY Names DEF Frames
  <1>5. /\ pos' \in [Threads \cup Frames -> Nat \ {0}]
        /\ pos'[t] = pos[t] + 1
        /\ \A d \in Threads \cup Coros : d # t => pos'[d] = pos[d]
    <2>1. /\ t \in Threads \cup Frames /\ Sync(t) \in Threads \cup Frames
          /\ \A d \in Threads \cup Coros : d \in Threads \cup Frames /\ d # Sync(t)
      BY <1>4 DEF Frames
    <2>2. pos' = [pos EXCEPT ![t] = pos[t] + 1, ![Sync(t)] = 1]
      BY DEF Wait
    <2>3. pos \in [Threads \cup Frames -> Nat \ {0}] /\ pos[t] + 1 \in Nat \ {0}
      BY <2>1 DEF TInv, TypeOK
    <2> QED  BY <1>4, <2>1, <2>2, <2>3
  <1>6. \A d \in Threads \cup Coros : pos'[d] <= Len(program[d]) + 1
    <2>1. pos[t] + 1 <= Len(program[t]) + 1
      BY <1>3
    <2> QED  BY <1>5, <2>1 DEF TInv, TypeOK
  <1>7. /\ state' \in [Frames -> States] /\ stack' \in [Threads -> Seq(Frames)]
        /\ target' \in [Threads -> Coros \cup {None}] /\ flag' \in [Threads -> BOOLEAN]
        /\ \A u \in Threads : stack'[u] = <<>> => stack[u] = <<>>
    BY <1>2, <1>4 DEF Wait, Becomes, States, TInv, TypeOK
  <1>8. UNCHANGED <<program, caller, result, mode, queue, io>>
    BY DEF Wait, promises, waiting
  <1>9. TypeOK'
    BY <1>5, <1>6, <1>7, <1>8 DEF TInv, TypeOK
  <1> QED  BY <1>9, WaitKeeps

(* What a step of one thread leaves to the others. *)
LEMMA OthersKeep ==
    ASSUME TInv, NEW t \in Threads, UNCHANGED <<program, pos, target>>,
           \A u \in Threads : u # t => stack'[u] = stack[u] /\ mode'[u] = mode[u],
           mode'[t] # "dropping",
           \A u \in Threads : u # t /\ stack[u] # <<>> /\ mode[u] \in Ends \cup {"setting"} =>
               result'[Top(u)] = result[Top(u)],
           stack'[t] # <<>> =>
               \A f \in Frames : f = Top(t)' =>
                   /\ mode'[t] \in Ends => f \in Coros /\ result'[f] = f
                   /\ mode'[t] \in {"setting", "notifying"} => f \in Syncs
                   /\ mode'[t] = "setting" => result'[f] = target[Owner(f)] /\ pos[f] = 3
    PROVE  Drops' /\ Endings'
  <1>1. Drops'
    <2> SUFFICES ASSUME NEW u \in Threads, NEW c \in Threads \cup Frames,
                        mode'[u] = "dropping", Running(u)' = c
                 PROVE  pos'[c] <= Len(Code(c)') /\ \E h \in Coros : Code(c)'[pos'[c]] = <<"drop", h>>
      BY DEF Drops
    <2>1. u # t /\ mode[u] = "dropping" /\ Running(u) = c
      BY DEF Running, Top
    <2>2. Code(c)' = Code(c)
      BY DEF Code
    <2> QED  BY <2>1, <2>2 DEF TInv, Drops
  <1>2. Endings'
    <2> SUFFICES ASSUME NEW u \in Threads, NEW f \in Frames, stack'[u] # <<>>, Top(u)' = f
                 PROVE  /\ mode'[u] \in Ends => f \in Coros /\ result'[f] = f
                        /\ mode'[u] \in {"setting", "notifying"} => f \in Syncs
                        /\ mode'[u] = "setting" => result'[f] = target[Owner(f)] /\ pos[f] = 3
      BY DEF Endings
    <2>1. CASE u = t
      BY <2>1
    <2>2. CASE u # t
      <3>1. stack[u] # <<>> /\ Top(u) = f /\ mode'[u] = mode[u]
        BY <2>2 DEF Top
      <3>2. mode[u] \in Ends \cup {"setting"} => result'[f] = result[f]
        BY <2>2, <3>1
      <3> QED  BY <3>1, <3>2 DEF TInv, Endings
    <2> QED  BY <2>1, <2>2
  <1> QED  BY <1>1, <1>2

(* A handle is resumed in an idle thread, from wherever it was. *)
LEMMA HandleResumed ==
    ASSUME TInv, NEW t \in Threads, NEW f \in Frames, ResumeHandle(t, f), Present(f),
           queue' \in Seq(Frames), io' \in [Threads -> SUBSET Frames],
           ~ Inside(Live, queue', io', f),
           \A h \in Frames : /\ Inside(Live, queue', io', h) => Present(h)
                             /\ Alone(Live, queue', io', h)
    PROVE  TInv'
  <1>1. /\ stack[t] = <<>> /\ mode[t] = "run"
        /\ state' = [state EXCEPT ![f] = "running"]
        /\ stack' = [stack EXCEPT ![t] = <<f>>]
        /\ UNCHANGED <<program, pos, caller, result, mode, target, flag, reads>>
    BY DEF ResumeHandle, AtEnd, Becomes, promises, sync
  <1>2. /\ stack' \in [Threads -> Seq(Frames)] /\ stack'[t] = <<f>> /\ stack'[t] # <<>>
        /\ \A u \in Threads : u # t => stack'[u] = stack[u]
        /\ \A u \in Threads : stack[u] # <<>> => stack'[u] # <<>>
    BY <1>1 DEF TInv, TypeOK
  <1>3. /\ state' \in [Frames -> States]
        /\ \A h \in Coros : state'[h] = "final" => state[h] = "final"
    BY <1>1 DEF States, Frames, TInv, TypeOK
  <1>4. TypeOK'
    BY <1>1, <1>2, <1>3 DEF TInv, TypeOK
  <1>5. OnlyOnce' /\ \A h \in Frames : Present(h)' => Present(h)
    <2> DEFINE L == Live'
               Q == queue'
               W == io'
    <2>1. L = [Live EXCEPT ![t] = L[t]]
      BY <1>1, <1>2, LiveElsewhere
    <2>2. L[t] = Append(Live[t], f)
      <3>1. L[t] = <<f>> /\ Live[t] = <<>>
        BY <1>1, <1>2 DEF Live
      <3>2. Append(<<>>, f) = <<f>>
        OBVIOUS
      <3> QED  BY <3>1, <3>2
    <2>3. Live \in [Threads -> Seq(Frames)] /\ ~ Inside(Live, Q, W, f)
      BY LiveType DEF TInv
    <2>4. \A h \in Frames : /\ Inside(Live, Q, W, h) => Present(h)
                            /\ Alone(Live, Q, W, h)
      OBVIOUS
    <2> HIDE DEF L, Q, W
    <2>5. L = [Live EXCEPT ![t] = Append(Live[t], f)]
      BY <2>1, <2>2
    <2>6. ASSUME NEW h
          PROVE  /\ Inside(L, Q, W, h) => Inside(Live, Q, W, h) \/ h = f
                 /\ Alone(Live, Q, W, h) => Alone(L, Q, W, h)
      BY <2>3, <2>5, Pushed
    <2>7. \A h \in Frames : Alone(L, Q, W, h) /\ (Inside(L, Q, W, h) => Present(h))
      BY <2>4, <2>6
    <2> QED  BY <2>7 DEF OnlyOnce, Present, L, Q, W
  <1>6. \A h : Pending(h)' <=> Pending(h)
    <2>1. mode[t] \notin Ends
      BY <1>1 DEF Ends
    <2>2. \A h : Ending(h)' <=> Ending(h)
      BY <1>1, <1>2, <2>1 DEF Ending, Top
    <2> QED  BY <1>1, <2>2 DEF Pending
  <1>7. Results'
    BY <1>1, <1>3 DEF TInv, Results
  <1>8. Unended'
    BY <1>5, <1>6 DEF TInv, Unended, Frames
  <1>9. Drops' /\ Endings'
    <2>1. mode'[t] = "run" /\ "run" \notin Ends /\ \A u \in Threads : mode'[u] = mode[u]
      BY <1>1 DEF Ends
    <2> QED  BY <1>1, <1>2, <2>1, OthersKeep
  <1> QED
    BY <1>1, <1>4, <1>5, <1>6, <1>7, <1>8, <1>9, StandingKeeps

LEMMA CompletionAction ==
    ASSUME TInv, NEW t \in Threads, Completion(t)
    PROVE  TInv'
  <1>1. PICK f \in io[t] : ResumeHandle(t, f) /\ io' = [io EXCEPT ![t] = io[t] \ {f}]
                           /\ queue' = queue
    BY DEF Completion
  <1>2. io \in [Threads -> SUBSET Frames] /\ queue \in Seq(Frames) /\ f \in Frames
    BY DEF TInv, TypeOK
  <1>3. io' \in [Threads -> SUBSET Frames]
    BY <1>1, <1>2
  <1> DEFINE W == io'
  <1> HIDE DEF W
  <1>4. W = [io EXCEPT ![t] = io[t] \ {f}]
    BY <1>1 DEF W
  <1>5. ASSUME NEW h
        PROVE  /\ Inside(Live, queue, W, h) => Inside(Live, queue, io, h)
               /\ Inside(Live, queue, io, f)
               /\ Alone(Live, queue, io, h) => Alone(Live, queue, W, h)
               /\ Alone(Live, queue, io, h) /\ h = f => ~ Inside(Live, queue, W, h)
    BY <1>2, <1>4, Completed
  <1>6. /\ Present(f) /\ ~ Inside(Live, queue, W, f)
        /\ \A h \in Frames : /\ Inside(Live, queue, W, h) => Present(h)
                             /\ Alone(Live, queue, W, h)
    BY <1>2, <1>5 DEF TInv, OnlyOnce, Present
  <1>7. /\ Present(f) /\ ~ Inside(Live, queue', io', f)
        /\ \A h \in Frames : /\ Inside(Live, queue', io', h) => Present(h)
                             /\ Alone(Live, queue', io', h)
    BY <1>1, <1>6 DEF W
  <1> QED  BY <1>1, <1>2, <1>3, <1>7, HandleResumed

LEMMA DequeueAction ==
    ASSUME TInv, NEW t \in Threads, Dequeue(t)
    PROVE  TInv'
  <1> DEFINE f == Head(queue)
  <1>1. /\ queue # <<>> /\ ResumeHandle(t, f) /\ queue' = Tail(queue) /\ io' = io
    BY DEF Dequeue
  <1>2. io \in [Threads -> SUBSET Frames] /\ queue \in Seq(Frames) /\ f \in Frames
        /\ Tail(queue) \in Seq(Frames)
    BY <1>1 DEF TInv, TypeOK
  <1>3. ASSUME NEW h
        PROVE  /\ Inside(Live, Tail(queue), io, h) => Inside(Live, queue, io, h)
               /\ Inside(Live, queue, io, f)
               /\ Alone(Live, queue, io, h) => Alone(Live, Tail(queue), io, h)
               /\ Alone(Live, queue, io, h) /\ h = f => ~ Inside(Live, Tail(queue), io, h)
    BY <1>1, <1>2, Dequeued
  <1> HIDE DEF f
  <1>4. /\ Present(f) /\ ~ Inside(Live, Tail(queue), io, f)
        /\ \A h \in Frames : /\ Inside(Live, Tail(queue), io, h) => Present(h)
                             /\ Alone(Live, Tail(queue), io, h)
    BY <1>2, <1>3 DEF TInv, OnlyOnce, Present
  <1> QED  BY <1>1, <1>2, <1>4, HandleResumed

LEMMA ReturnAction ==
    ASSUME TInv, NEW t \in Threads, Return(t)
    PROVE  TInv'
  <1> SUFFICES ASSUME NEW c, c = Top(t) PROVE TInv'
    OBVIOUS
  <1>1. stack[t] # <<>> /\ mode[t] = "run" /\ mode[t] # "notifying" /\ mode[t] \notin Ends
    BY DEF Return, AtEnd, Ends
  <1>2. /\ c \in Frames /\ Present(c) /\ Running(t) = c
        /\ pos[c] \in Nat /\ pos[c] > Len(Code(c))
    <2>1. c \in Frames /\ Present(c) /\ Running(t) = c
      BY <1>1, Runs DEF TInv
    <2> QED  BY <2>1 DEF TInv, TypeOK, Return, AtEnd
  <1>3. /\ result' = [result EXCEPT ![c] = Value(c)]
        /\ state' = [state EXCEPT ![c] = "final"]
        /\ mode' = [mode EXCEPT ![t] = IF c \in Syncs THEN "setting" ELSE "testing"]
        /\ UNCHANGED <<program, pos, caller, stack, queue, io, target, flag, reads>>
    BY DEF Return, Becomes, Enters, waiting, sync, ghosts
  <1>4. \A u \in Threads : u # t => mode'[u] = mode[u]
    BY <1>3 DEF TInv, TypeOK
  <1>5. mode'[t] = IF c \in Syncs THEN "setting" ELSE "testing"
    BY <1>3 DEF TInv, TypeOK
  <1>6. c \in Coros => Value(c) = c /\ result[c] = None
    <2> SUFFICES ASSUME c \in Coros PROVE Value(c) = c /\ result[c] = None
      OBVIOUS
    <2>1. Value(c) = c
      BY Names DEF Value
    <2>2. ~ Ending(c)
      <3>1. ASSUME NEW u \in Threads, stack[u] # <<>>, Top(u) = c, mode[u] \in Ends
            PROVE  FALSE
        <4>1. mode[u] # "notifying"
          BY <3>1 DEF Ends
        <4>2. Running(u) = c
          BY <3>1, <4>1, Runs DEF TInv
        <4>3. u = t
          BY <1>1, <1>2, <4>1, <4>2, Apart DEF TInv
        <4> QED  BY <1>1, <3>1, <4>3
      <3> QED  BY <3>1 DEF Ending
    <2> QED  BY <1>2, <2>1, <2>2 DEF TInv, Unended, Pending
  <1>7. c \in Syncs => Value(c) \in Coros /\ Value(c) = target[Owner(c)]
    <2> SUFFICES ASSUME NEW u \in Threads, c = Sync(u)
                 PROVE  Value(c) \in Coros /\ Value(c) = target[Owner(c)]
      BY Names
    <2>1. Owner(c) = u /\ Value(c) = result[target[u]] /\ Len(Code(c)) = 2
      BY Names, Codes DEF Value, SyncValue
    <2>2. pos[c] = 3
      BY <1>2, <2>1 DEF TInv, SyncReads
    <2>3. target[u] # None /\ ~ Pending(target[u])
      BY <2>2 DEF TInv, SyncReads
    <2>4. target[u] \in Coros
      BY <2>3 DEF TInv, TypeOK
    <2> QED  BY <2>1, <2>3, <2>4 DEF TInv, Results, Pending
  <1>7a. c \in Syncs => pos[c] = 3
    <2> SUFFICES ASSUME NEW u \in Threads, c = Sync(u)
                 PROVE  pos[c] = 3
      BY Names
    <2>1. Len(Code(c)) = 2
      BY Codes
    <2> QED  BY <1>2, <2>1 DEF TInv, SyncReads
  <1>8. Value(c) \in Coros /\ None \notin Coros
    <2>1. c \in Coros \/ c \in Syncs
      BY <1>2 DEF Frames
    <2> QED  BY <1>6, <1>7, <2>1, Names DEF Frames
  <1>9. /\ result' \in [Frames -> Coros \cup {None}] /\ result'[c] = Value(c)
        /\ \A f \in Frames : f # c => result'[f] = result[f]
    BY <1>2, <1>3, <1>8 DEF TInv, TypeOK
  <1>10. TypeOK'
    <2>1. mode' \in [Threads -> Modes] /\ state' \in [Frames -> States]
      BY <1>2, <1>3 DEF TInv, TypeOK, Modes, Ends, States
    <2>2. \A u \in Threads : mode'[u] \notin {"run", "dropping"} => stack[u] # <<>>
      BY <1>1, <1>4 DEF TInv, TypeOK
    <2> QED  BY <1>3, <1>9, <2>1, <2>2 DEF TInv, TypeOK
  <1>11. OnlyOnce' /\ \A f : Present(f)' <=> Present(f)
    <2>1. mode'[t] # "notifying"
      BY <1>5
    <2>2. Live' = Live
      BY <1>1, <1>3, <1>4, <2>1 DEF Live, Below
    <2> QED  BY <1>3, <2>2, SamePlaces DEF TInv
  <1>12. Results'
    <2> SUFFICES ASSUME NEW f \in Coros
                 PROVE  result'[f] \in {None, f} /\ (state'[f] = "final" => result'[f] = f)
      BY DEF Results
    <2>1. f \in Frames
      BY DEF Frames
    <2>2. CASE f = c
      BY <1>6, <1>9, <2>2
    <2>3. CASE f # c
      BY <1>3, <1>9, <2>1, <2>3 DEF TInv, Results, TypeOK
    <2> QED  BY <2>2, <2>3
  <1>13. ASSUME NEW f \in Coros
         PROVE  /\ f = c => Pending(f) /\ Pending(f)'
                /\ f # c => (Pending(f)' <=> Pending(f))
    <2>1. f \in Frames
      BY DEF Frames
    <2>2. ASSUME f = c PROVE Pending(f) /\ Pending(f)'
      <3>1. mode'[t] \in Ends /\ Top(t)' = c
        BY <1>3, <1>5, <2>2, Names DEF Ends, Top
      <3>2. Ending(f)'
        BY <1>1, <1>3, <2>2, <3>1 DEF Ending
      <3> QED  BY <1>6, <2>2, <3>2 DEF Pending
    <2>3. ASSUME f # c PROVE Pending(f)' <=> Pending(f)
      <3>1. Ending(f)' <=> Ending(f)
        BY <1>1, <1>3, <1>4, <2>3 DEF Ending, Top
      <3> QED  BY <1>9, <2>1, <2>3, <3>1 DEF Pending
    <2> QED  BY <2>2, <2>3
  <1>14. Unended'
    BY <1>11, <1>13 DEF TInv, Unended
  <1>15. Drops' /\ Endings'
    <2>1. ASSUME NEW u \in Threads, u # t, stack[u] # <<>>, mode[u] \in Ends \cup {"setting"}
          PROVE  result'[Top(u)] = result[Top(u)]
      <3>1. mode[u] # "notifying"
        BY <2>1 DEF Ends
      <3>2. Running(u) = Top(u) /\ Top(u) \in Frames
        BY <2>1, <3>1, Runs DEF TInv
      <3>3. Top(u) # c
        BY <1>1, <1>2, <2>1, <3>1, <3>2, Apart DEF TInv
      <3> QED  BY <1>9, <3>2, <3>3
    <2>2. Top(t)' = c
      BY <1>3 DEF Top
    <2>3. /\ mode'[t] \in Ends => c \in Coros /\ result'[c] = c
          /\ mode'[t] \in {"setting", "notifying"} => c \in Syncs
          /\ mode'[t] = "setting" => result'[c] = target[Owner(c)] /\ pos[c] = 3
      BY <1>2, <1>5, <1>6, <1>7, <1>7a, <1>9 DEF Ends, Frames
    <2>4. mode'[t] # "dropping"
      BY <1>5
    <2> QED  BY <1>3, <1>4, <2>1, <2>2, <2>3, <2>4, OthersKeep
  <1>17. \A f \in Coros : Pending(f)' => Pending(f)
    BY <1>13
  <1>18. \A f \in Frames : result'[f] = result[f] \/ Present(f)
    BY <1>2, <1>9
  <1> QED
    BY <1>3, <1>10, <1>11, <1>12, <1>14, <1>15, <1>17, <1>18, StandingKeeps

(* Steps that only go on in a function, with a frame's state. *)
LEMMA InsideKeeps ==
    ASSUME TInv, NEW t \in Threads,
           UNCHANGED <<program, pos, caller, result, stack, queue, io, target, flag, reads>>,
           mode' \in [Threads -> Modes],
           \A u \in Threads : u # t => mode'[u] = mode[u],
           mode[t] # "notifying", mode'[t] # "notifying",
           mode[t] \in Ends <=> mode'[t] \in Ends,
           mode'[t] \in {"run", "dropping"} \/ stack[t] # <<>>,
           state' \in [Frames -> States],
           \A f \in Coros : state'[f] = "final" => state[f] = "final",
           Drops', Endings'
    PROVE  TInv'
  <1>1. TypeOK'
    BY DEF TInv, TypeOK
  <1>2. OnlyOnce' /\ \A f : Present(f)' <=> Present(f)
    <2>1. Live' = Live
      BY DEF Live, Below
    <2> QED  BY <2>1, SamePlaces DEF TInv
  <1>3. \A f : Pending(f)' <=> Pending(f)
    <2>1. \A f : Ending(f)' <=> Ending(f)
      BY DEF Ending, Top
    <2> QED  BY <2>1 DEF Pending
  <1>4. Results'
    BY DEF TInv, Results
  <1>5. Unended'
    BY <1>2, <1>3 DEF TInv, Unended
  <1> QED
    BY <1>1, <1>2, <1>3, <1>4, <1>5, StandingKeeps

LEMMA TestFlagAction ==
    ASSUME TInv, NEW t \in Threads, TestFlag(t)
    PROVE  TInv'
  <1>1. /\ mode[t] = "testing" /\ mode' = [mode EXCEPT ![t] = "transferring"]
        /\ state' = state \/ state' = [state EXCEPT ![Top(t)] = "destroyed"]
        /\ UNCHANGED <<program, pos, caller, result, stack, queue, io, target, flag, reads>>
    BY DEF TestFlag, Enters, Becomes, promises, waiting, sync
  <1>2. /\ mode' \in [Threads -> Modes] /\ mode'[t] = "transferring"
        /\ \A u \in Threads : u # t => mode'[u] = mode[u]
        /\ mode[t] \in Ends /\ mode'[t] \in Ends
        /\ mode[t] # "notifying" /\ mode'[t] \notin {"run", "dropping", "notifying", "setting"}
    BY <1>1 DEF TInv, TypeOK, Modes, Ends
  <1>3. stack[t] # <<>>
    BY <1>1 DEF TInv, TypeOK
  <1>4. Top(t) \in Frames
    BY <1>2, <1>3, Runs DEF TInv
  <1>5. Top(t) \in Coros /\ result[Top(t)] = Top(t)
    BY <1>2, <1>3, <1>4 DEF TInv, Endings
  <1>6. /\ state' \in [Frames -> States]
        /\ \A f \in Coros : state'[f] = "final" => state[f] = "final"
    BY <1>1, <1>4 DEF States, Frames, TInv, TypeOK
  <1>7. Top(t)' = Top(t)
    BY <1>1 DEF Top
  <1>8. Drops' /\ Endings'
    BY <1>1, <1>2, <1>5, <1>7, OthersKeep
  <1> QED
    BY <1>1, <1>2, <1>3, <1>6, <1>8, InsideKeeps

(* ~task, when the coroutine has not ended, and wait(false) that sleeps. *)
LEMMA EnterAction ==
    ASSUME TInv, NEW t \in Threads, NEW g \in Coros,
           (Drop(t, g) /\ ~ Done(g)) \/ (Block(t, g) /\ asleep' # asleep)
    PROVE  TInv'
  <1>1. /\ mode[t] = "run"
        /\ \/ /\ Doing(t, "drop", g)
              /\ mode' = [mode EXCEPT ![t] = "dropping"]
           \/ mode' = mode
        /\ UNCHANGED <<program, pos, state, caller, result, stack, queue, io, target, flag, reads>>
    <2>1. CASE Drop(t, g) /\ ~ Done(g)
      BY <2>1, DoesIt DEF Drop, Enters, TInv, promises, waiting, sync
    <2>2. CASE Block(t, g) /\ asleep' # asleep
      BY <2>2 DEF Block, Does, promises, waiting, threads
    <2> QED  BY <2>1, <2>2
  <1>2. /\ mode' \in [Threads -> Modes] /\ mode'[t] \in {"run", "dropping"}
        /\ \A u \in Threads : u # t => mode'[u] = mode[u]
        /\ mode[t] \notin Ends /\ mode'[t] \notin Ends
        /\ mode[t] # "notifying" /\ mode'[t] # "notifying" /\ mode'[t] # "setting"
    BY <1>1 DEF TInv, TypeOK, Modes, Ends
  <1>3. Endings'
    <2> SUFFICES ASSUME NEW u \in Threads, NEW f \in Frames, stack[u] # <<>>, Top(u)' = f
                 PROVE  /\ mode'[u] \in Ends => f \in Coros /\ result[f] = f
                        /\ mode'[u] \in {"setting", "notifying"} => f \in Syncs
                        /\ mode'[u] = "setting" => result[f] = target[Owner(f)] /\ pos[f] = 3
      BY <1>1 DEF Endings
    <2>1. Top(u) = f
      BY <1>1 DEF Top
    <2> QED  BY <1>2, <2>1 DEF TInv, Endings
  <1>4. Drops'
    <2> SUFFICES ASSUME NEW u \in Threads, NEW c \in Threads \cup Frames,
                        mode'[u] = "dropping", Running(u)' = c
                 PROVE  pos[c] <= Len(Code(c)') /\ \E h \in Coros : Code(c)'[pos[c]] = <<"drop", h>>
      BY <1>1 DEF Drops
    <2>1. Running(u) = c /\ Code(c)' = Code(c)
      BY <1>1 DEF Running, Top, Code
    <2>2. CASE u = t
      <3>1. Doing(t, "drop", g)
        BY <1>1, <2>2
      <3> QED  BY <2>1, <2>2, <3>1 DEF Doing
    <2>3. CASE u # t
      BY <1>2, <2>1, <2>3 DEF TInv, Drops
    <2> QED  BY <2>2, <2>3
  <1>5. \A f \in Coros : state'[f] = "final" => state[f] = "final"
    BY <1>1
  <1>6. state' \in [Frames -> States]
    BY <1>1 DEF TInv, TypeOK
  <1> QED
    BY <1>1, <1>2, <1>3, <1>4, <1>5, <1>6, InsideKeeps

LEMMA SetFlagAction ==
    ASSUME TInv, NEW t \in Threads, SetFlag(t)
    PROVE  TInv'
  <1> SUFFICES ASSUME NEW c, c = Top(t) PROVE TInv'
    OBVIOUS
  <1>1. /\ mode[t] = "setting" /\ mode' = [mode EXCEPT ![t] = "notifying"]
        /\ flag' = [flag EXCEPT ![Owner(c)] = TRUE]
        /\ UNCHANGED <<program, pos, state, caller, result, stack, queue, io, target, reads>>
    BY DEF SetFlag, Enters, promises, waiting
  <1>2. /\ mode' \in [Threads -> Modes] /\ mode'[t] = "notifying"
        /\ \A u \in Threads : u # t => mode'[u] = mode[u]
        /\ mode[t] \notin Ends /\ mode'[t] \notin Ends
        /\ mode[t] # "notifying" /\ mode'[t] # "setting" /\ mode'[t] # "dropping"
    BY <1>1 DEF TInv, TypeOK, Modes, Ends
  <1>3. stack[t] # <<>>
    BY <1>1 DEF TInv, TypeOK
  <1>4. c \in Frames /\ Present(c) /\ Live[t] = stack[t]
    BY <1>2, <1>3, Runs DEF TInv
  <1>5. c \in Syncs /\ result[c] = target[Owner(c)] /\ pos[c] = 3
    BY <1>1, <1>3, <1>4 DEF TInv, Endings
  <1>6. Owner(c) \in Threads /\ c = Sync(Owner(c))
    BY <1>5, Names
  <1>7. TypeOK'
    <2>1. flag' \in [Threads -> BOOLEAN]
      BY <1>1 DEF TInv, TypeOK
    <2>2. \A u \in Threads : mode'[u] \notin {"run", "dropping"} => stack[u] # <<>>
      BY <1>2, <1>3 DEF TInv, TypeOK
    <2> QED  BY <1>1, <1>2, <2>1, <2>2 DEF TInv, TypeOK
  <1>8. OnlyOnce' /\ ~ Present(c)' /\ \A f : Present(f)' => Present(f)
    <2> DEFINE L == Live'
    <2>1. L = [Live EXCEPT ![t] = L[t]]
      BY <1>1, <1>2, LiveElsewhere
    <2>2. L[t] = SubSeq(Live[t], 1, Len(Live[t]) - 1)
      BY <1>1, <1>2, <1>4 DEF Live, Below
    <2>3. /\ Live \in [Threads -> Seq(Frames)] /\ Live[t] # <<>> /\ Live[t][Len(Live[t])] = c
          /\ Alone(Live, queue, io, c)
      BY <1>3, <1>4, LiveType DEF TInv, OnlyOnce, Top
    <2> HIDE DEF L
    <2>4. L = [Live EXCEPT ![t] = SubSeq(Live[t], 1, Len(Live[t]) - 1)]
      BY <2>1, <2>2
    <2>5. ASSUME NEW f
          PROVE  /\ Inside(L, queue, io, f) => Inside(Live, queue, io, f)
                 /\ Alone(Live, queue, io, f) => Alone(L, queue, io, f)
                 /\ Alone(Live, queue, io, f) /\ f = c => ~ Inside(L, queue, io, f)
      BY <2>3, <2>4, Popped
    <2>6. ~ Inside(L, queue, io, c)
      BY <2>3, <2>5
    <2>7. queue' = queue /\ io' = io
      BY <1>1
    <2> QED  BY <2>5, <2>6, <2>7 DEF TInv, OnlyOnce, Present, L
  <1>9. \A f : Pending(f)' <=> Pending(f)
    <2>1. \A f : Ending(f)' <=> Ending(f)
      BY <1>1, <1>2 DEF Ending, Top
    <2> QED  BY <1>1, <2>1 DEF Pending
  <1>10. Results'
    BY <1>1 DEF TInv, Results
  <1>11. Unended'
    BY <1>8, <1>9 DEF TInv, Unended
  <1>12. Drops' /\ Endings'
    <2>1. Top(t)' = c
      BY <1>1 DEF Top
    <2> QED  BY <1>1, <1>2, <1>5, <2>1, OthersKeep
  <1>13. ASSUME NEW u \in Threads
         PROVE  \/ flag'[u] = flag[u]
                \/ /\ Present(Sync(u)) /\ ~ Present(Sync(u))'
                   /\ result'[Sync(u)] = target[u] /\ pos[Sync(u)] = 3
    <2>1. CASE u = Owner(c)
      <3>1. /\ c = Sync(u) /\ Present(Sync(u)) /\ result'[Sync(u)] = target[u]
            /\ pos[Sync(u)] = 3
        BY <1>1, <1>4, <1>5, <1>6, <2>1
      <3> QED  BY <1>8, <3>1
    <2>2. CASE u # Owner(c)
      BY <1>1, <2>2 DEF TInv, TypeOK
    <2> QED  BY <2>1, <2>2
  <1> QED
    BY <1>1, <1>7, <1>8, <1>9, <1>10, <1>11, <1>12, <1>13, StandingKeeps

LEMMA NotifyAction ==
    ASSUME TInv, NEW t \in Threads, Notify(t)
    PROVE  TInv'
  <1>1. /\ mode[t] = "notifying" /\ mode' = [mode EXCEPT ![t] = "run"]
        /\ stack' = [stack EXCEPT ![t] = Below(t)]
        /\ UNCHANGED <<program, pos, state, caller, result, queue, io, target, flag, reads>>
    BY DEF Notify, Enters, promises, waiting
  <1>2. /\ mode' \in [Threads -> Modes] /\ mode'[t] = "run"
        /\ \A u \in Threads : u # t => mode'[u] = mode[u]
        /\ mode[t] \notin Ends /\ mode'[t] \notin Ends
    BY <1>1 DEF TInv, TypeOK, Modes, Ends
  <1>3. Below(t) \in Seq(Frames)
    <2>1. stack[t] # <<>> /\ stack[t] \in Seq(Frames)
      BY <1>1 DEF TInv, TypeOK
    <2> QED  BY <2>1, Front DEF Below
  <1>4. stack' \in [Threads -> Seq(Frames)] /\ stack'[t] = Below(t)
        /\ \A u \in Threads : u # t => stack'[u] = stack[u]
    BY <1>1, <1>3 DEF TInv, TypeOK
  <1>5. TypeOK'
    <2>1. \A u \in Threads : mode'[u] \notin {"run", "dropping"} => stack'[u] # <<>>
      BY <1>2, <1>4 DEF TInv, TypeOK
    <2> QED  BY <1>1, <1>2, <1>4, <2>1 DEF TInv, TypeOK
  <1>6. OnlyOnce' /\ \A f : Present(f)' <=> Present(f)
    <2>1. Live' = Live
      BY <1>1, <1>2, <1>4 DEF Live, Below
    <2> QED  BY <1>1, <2>1, SamePlaces DEF TInv
  <1>7. \A f : Pending(f)' <=> Pending(f)
    <2>1. \A f : Ending(f)' <=> Ending(f)
      BY <1>2, <1>4 DEF Ending, Top
    <2> QED  BY <1>1, <2>1 DEF Pending
  <1>8. Results'
    BY <1>1 DEF TInv, Results
  <1>9. Unended'
    BY <1>6, <1>7 DEF TInv, Unended
  <1>10. Drops' /\ Endings'
    BY <1>1, <1>2, <1>4, OthersKeep DEF Ends
  <1> QED
    BY <1>1, <1>5, <1>6, <1>7, <1>8, <1>9, <1>10, StandingKeeps

LEMMA TransferAction ==
    ASSUME TInv, NEW t \in Threads, Transfer(t)
    PROVE  TInv'
  <1> SUFFICES ASSUME NEW c, c = Top(t), NEW d, d = caller[c] PROVE TInv'
    OBVIOUS
  <1>1. /\ mode[t] = "transferring" /\ mode' = [mode EXCEPT ![t] = "run"]
        /\ \/ d = None /\ state' = state /\ stack' = [stack EXCEPT ![t] = Below(t)]
           \/ /\ d # None /\ state' = [state EXCEPT ![d] = "running"]
              /\ stack' = [stack EXCEPT ![t] = Append(Below(t), d)]
        /\ UNCHANGED <<program, pos, caller, result, queue, io, target, flag, reads>>
    BY DEF Transfer, Enters, Becomes, promises, waiting, sync
  <1>2. /\ mode' \in [Threads -> Modes] /\ mode'[t] = "run"
        /\ \A u \in Threads : u # t => mode'[u] = mode[u]
        /\ mode[t] \in Ends /\ mode'[t] \notin Ends
        /\ mode[t] # "notifying" /\ mode'[t] # "notifying"
    BY <1>1 DEF TInv, TypeOK, Modes, Ends
  <1>3. stack[t] # <<>>
    BY <1>1 DEF TInv, TypeOK
  <1>4. c \in Frames /\ Present(c) /\ Live[t] = stack[t] /\ Running(t) = c
    BY <1>2, <1>3, Runs DEF TInv
  <1>5. c \in Coros /\ result[c] = c /\ c # None
    BY <1>2, <1>3, <1>4, Names DEF TInv, Endings
  <1>6. Pending(c)
    BY <1>2, <1>3 DEF Pending, Ending
  <1>7. d \in Frames \cup {None}
    BY <1>4 DEF TInv, TypeOK
  <1>8. ASSUME d # None
        PROVE  d \in Frames /\ d # c /\ ~ Present(d) /\ (d \in Coros => result[d] = None)
    BY <1>4, <1>5, <1>6, <1>7, <1>8 DEF TInv, Callers
  <1>9. Below(t) \in Seq(Frames)
    BY <1>3, Front DEF TInv, TypeOK, Below
  <1>10. /\ stack' \in [Threads -> Seq(Frames)]
         /\ \/ d = None /\ stack'[t] = Below(t)
            \/ d # None /\ stack'[t] = Append(Below(t), d)
         /\ \A u \in Threads : u # t => stack'[u] = stack[u]
    <2>1. CASE d = None
      BY <1>1, <1>9, <2>1 DEF TInv, TypeOK
    <2>2. CASE d # None
      <3>1. Append(Below(t), d) \in Seq(Frames)
        BY <1>8, <1>9, <2>2
      <3>2. stack' = [stack EXCEPT ![t] = Append(Below(t), d)]
        BY <1>1, <2>2
      <3>3. stack \in [Threads -> Seq(Frames)]
        BY DEF TInv, TypeOK
      <3> QED  BY <2>2, <3>1, <3>2, <3>3
    <2> QED  BY <2>1, <2>2
  <1>11. /\ state' \in [Frames -> States]
         /\ \A f \in Coros : state'[f] = "final" => state[f] = "final"
    <2>1. state \in [Frames -> States] /\ "running" \in States /\ "running" # "final"
      BY DEF TInv, TypeOK, States
    <2>2. CASE d = None
      BY <1>1, <2>1, <2>2
    <2>3. CASE d # None
      <3>1. state' = [state EXCEPT ![d] = "running"] /\ d \in Frames
        BY <1>1, <1>8, <2>3
      <3>2. \A f \in Frames : state'[f] = "running" \/ state'[f] = state[f]
        BY <2>1, <3>1
      <3>3. state' \in [Frames -> States]
        BY <2>1, <3>1
      <3> QED  BY <2>1, <3>2, <3>3 DEF Frames
    <2> QED  BY <2>2, <2>3
  <1>12. TypeOK'
    <2>1. \A u \in Threads : mode'[u] \notin {"run", "dropping"} => stack'[u] # <<>>
      BY <1>2, <1>10 DEF TInv, TypeOK
    <2> QED  BY <1>1, <1>2, <1>10, <1>11, <2>1 DEF TInv, TypeOK
  <1>13. OnlyOnce' /\ ~ Present(c)' /\ \A f : Present(f)' => Present(f) \/ (f = d /\ d # None)
    <2> DEFINE L == Live'
    <2>1. L = [Live EXCEPT ![t] = L[t]]
      BY <1>2, <1>10, LiveElsewhere
    <2>2. L[t] = stack'[t]
      BY <1>2 DEF Live
    <2>3. /\ Live \in [Threads -> Seq(Frames)] /\ Live[t] # <<>> /\ Live[t][Len(Live[t])] = c
          /\ Below(t) = SubSeq(Live[t], 1, Len(Live[t]) - 1)
          /\ Alone(Live, queue, io, c) /\ Alone(Live, queue, io, Live[t][Len(Live[t])])
      BY <1>3, <1>4, LiveType DEF TInv, OnlyOnce, Top, Below
    <2> HIDE DEF L
    <2>4. ASSUME NEW f
          PROVE  /\ Inside(L, queue, io, f) => Inside(Live, queue, io, f) \/ (f = d /\ d # None)
                 /\ Alone(Live, queue, io, f) => Alone(L, queue, io, f)
                 /\ ~ Inside(L, queue, io, c)
      <3>1. CASE d = None
        <4>1. L = [Live EXCEPT ![t] = SubSeq(Live[t], 1, Len(Live[t]) - 1)]
          BY <1>10, <2>1, <2>2, <2>3, <3>1
        <4>2. ASSUME NEW h
              PROVE  /\ Inside(L, queue, io, h) => Inside(Live, queue, io, h)
                     /\ Alone(Live, queue, io, h) => Alone(L, queue, io, h)
                     /\ Alone(Live, queue, io, h) /\ h = c => ~ Inside(L, queue, io, h)
          BY <2>3, <4>1, Popped
        <4> QED  BY <2>3, <4>2
      <3>2. CASE d # None
        <4>1. L = [Live EXCEPT ![t] = Append(SubSeq(Live[t], 1, Len(Live[t]) - 1), d)]
          BY <1>10, <2>1, <2>2, <2>3, <3>2
        <4>2. d \in Frames /\ ~ Inside(Live, queue, io, d) /\ Live[t][Len(Live[t])] # d
          BY <1>8, <2>3, <3>2 DEF Present
        <4>3. /\ Inside(L, queue, io, f) => Inside(Live, queue, io, f) \/ f = d
              /\ Alone(Live, queue, io, f) => Alone(L, queue, io, f)
              /\ ~ Inside(L, queue, io, Live[t][Len(Live[t])])
          BY <2>3, <4>1, <4>2, Replaced
        <4> QED  BY <2>3, <3>2, <4>3
      <3> QED  BY <3>1, <3>2
    <2>5. queue' = queue /\ io' = io
      BY <1>1
    <2> QED  BY <2>4, <2>5 DEF TInv, OnlyOnce, Present, L
  <1>14. \A f : f # c => (Ending(f)' <=> Ending(f))
    BY <1>2, <1>10 DEF Ending, Top
  <1>15. ~ Ending(c)'
    <2>1. ASSUME NEW u \in Threads, stack'[u] # <<>>, Top(u)' = c, mode'[u] \in Ends
          PROVE  FALSE
      <3>1. u # t /\ mode[u] \in Ends /\ mode[u] # "notifying"
        BY <1>2, <2>1 DEF Ends
      <3>2. stack[u] # <<>> /\ Top(u) = c
        BY <1>10, <2>1, <3>1 DEF Top
      <3>3. Running(u) = c
        BY <3>1, <3>2, Runs DEF TInv
      <3> QED  BY <1>2, <1>4, <3>1, <3>3, Apart DEF TInv
    <2> QED  BY <2>1 DEF Ending
  <1>16. ~ Pending(c)' /\ \A f : f # c => (Pending(f)' <=> Pending(f))
    BY <1>1, <1>5, <1>14, <1>15 DEF Pending
  <1>17. Results'
    BY <1>1, <1>11 DEF TInv, Results
  <1>18. Unended'
    <2> SUFFICES ASSUME NEW f \in Coros, Present(f)' PROVE Pending(f)'
      BY DEF Unended
    <2>1. f # c
      BY <1>13
    <2>2. CASE Present(f)
      BY <1>16, <2>1, <2>2 DEF TInv, Unended
    <2>3. CASE f = d /\ d # None
      BY <1>1, <1>8, <2>3 DEF Pending
    <2> QED  BY <1>13, <2>2, <2>3
  <1>19. Drops' /\ Endings'
    BY <1>1, <1>2, <1>10, OthersKeep
  <1>20. \A f \in Frames : Present(f)' =>
             \/ Present(f)
             \/ \E g \in Coros : caller[g] = f /\ Pending(g) /\ ~ Pending(g)'
    BY <1>5, <1>6, <1>13, <1>16
  <1>21. \A f \in Coros : Pending(f)' => Pending(f)
    BY <1>16
  <1> QED
    BY <1>1, <1>12, <1>13, <1>17, <1>18, <1>19, <1>20, <1>21, StandingKeeps

-----------------------------------------------------------------------------
(* The values that are awaited                                             *)

LEMMA TInvInit == Init => TInv
  <1> SUFFICES ASSUME Init PROVE TInv
    OBVIOUS
  <1>1. program \in [Threads \cup Coros -> Seq(Operations)]
    BY ProgramsAssumption DEF Init, WellFormed
  <1>2. \A c \in Threads \cup Frames : pos[c] = 1
    BY DEF Init
  <1>3. \A c \in Threads \cup Coros : pos[c] = 1 /\ pos[c] <= Len(program[c]) + 1
    <2> SUFFICES ASSUME NEW c \in Threads \cup Coros
                 PROVE  pos[c] = 1 /\ pos[c] <= Len(program[c]) + 1
      OBVIOUS
    <2>1. pos[c] = 1
      BY <1>2 DEF Frames
    <2>2. Len(program[c]) \in Nat
      BY <1>1
    <2> QED  BY <2>1, <2>2
  <1>4. TypeOK
    <2>1. <<>> \in Seq(Frames)
      OBVIOUS
    <2> QED  BY <1>3, <2>1 DEF Init, TypeOK, States, Modes
  <1>5. Live = [t \in Threads |-> <<>>] /\ queue = <<>> /\ \A t \in Threads : io[t] = {}
    BY DEF Live, Init
  <1>6. OnlyOnce /\ \A f : ~ Present(f)
    BY <1>5 DEF OnlyOnce, Present, Alone, Inside
  <1>7. /\ Results /\ Unended /\ Fresh
        /\ \A f \in Coros : pos[f] = 1
    BY <1>3, <1>6 DEF Results, Unended, Fresh, Init, Frames
  <1>8. Callers
    BY Names DEF Callers, Init, Frames
  <1>9. Awaiters
    BY <1>2 DEF Awaiters
  <1>10. Drops /\ Endings
    BY DEF Drops, Endings, Init
  <1>11. Targets
    BY <1>2 DEF Targets, Init
  <1>12. SyncTurns
    BY <1>6, Names DEF SyncTurns, Init, Frames
  <1>13. SyncReads
    BY <1>2, Names DEF SyncReads, Init
  <1>14. ReadsReturned
    BY DEF ReadsReturned, Init
  <1> QED
    BY <1>4, <1>6, <1>7, <1>8, <1>9, <1>10, <1>11, <1>12, <1>13, <1>14 DEF TInv

LEMMA TInvNext ==
    TInv /\ StartedOnce(program) /\ [Next]_vars => TInv' /\ program' = program
  <1> SUFFICES ASSUME TInv, StartedOnce(program), [Next]_vars
               PROVE  TInv' /\ program' = program
    OBVIOUS
  <1>1. ASSUME NEW t \in Threads, NEW g \in Coros,
               \/ Make(t, g) \/ Resume(t, g) \/ Detach(t, g)
               \/ Drop(t, g) \/ SetDetached(t, g)
               \/ Await(t, g) \/ Read(t, g)
               \/ Wait(t, g) \/ Block(t, g) \/ Sleep(t, g)
        PROVE  TInv' /\ program' = program
    <2>1. program' = program
      BY <1>1 DEF Make, Resume, Detach, Drop, SetDetached, Await, Read, Wait, Block, Sleep
    <2>2. CASE Make(t, g) \/ Detach(t, g) \/ Read(t, g) \/ Sleep(t, g)
      BY <2>1, <2>2, OrdinaryActions
    <2>3. CASE Resume(t, g)
      BY <2>1, <2>3, ResumeAction
    <2>4. CASE Drop(t, g)
      BY <2>1, <2>4, DropActions, EnterAction
    <2>5. CASE SetDetached(t, g)
      BY <2>1, <2>5, DropActions
    <2>6. CASE Await(t, g)
      BY <2>1, <2>6, AwaitAction
    <2>7. CASE Wait(t, g)
      BY <2>1, <2>7, WaitAction
    <2>8. CASE Block(t, g)
      BY <2>1, <2>8, BlockAction, EnterAction
    <2> QED  BY <1>1, <2>2, <2>3, <2>4, <2>5, <2>6, <2>7, <2>8
  <1>2. ASSUME NEW t \in Threads,
               \/ Io(t) \/ Schedule(t)
               \/ Completion(t) \/ Dequeue(t)
               \/ Return(t) \/ TestFlag(t) \/ Transfer(t)
               \/ SetFlag(t) \/ Notify(t)
        PROVE  TInv' /\ program' = program
    <2>1. program' = program
      BY <1>2 DEF Io, Schedule, Completion, Dequeue, ResumeHandle, Return, TestFlag,
                  Transfer, SetFlag, Notify
    <2>2. CASE Io(t) \/ Schedule(t)
      BY <2>1, <2>2, SuspendAction
    <2>3. CASE Completion(t)
      BY <2>1, <2>3, CompletionAction
    <2>4. CASE Dequeue(t)
      BY <2>1, <2>4, DequeueAction
    <2>5. CASE Return(t)
      BY <2>1, <2>5, ReturnAction
    <2>6. CASE TestFlag(t)
      BY <2>1, <2>6, TestFlagAction
    <2>7. CASE Transfer(t)
      BY <2>1, <2>7, TransferAction
    <2>8. CASE SetFlag(t)
      BY <2>1, <2>8, SetFlagAction
    <2>9. CASE Notify(t)
      BY <2>1, <2>9, NotifyAction
    <2> QED  BY <1>2, <2>2, <2>3, <2>4, <2>5, <2>6, <2>7, <2>8, <2>9
  <1>3. CASE UNCHANGED vars
    <2>1. /\ UNCHANGED <<program, pos, state, caller, result, stack, mode>>
          /\ UNCHANGED <<queue, io, target, flag, reads>>
      BY <1>3 DEF vars, promises, threads, waiting, sync, ghosts
    <2>2. TypeOK'
      BY <2>1 DEF TInv, TypeOK
    <2>3. OnlyOnce' /\ \A f : Present(f)' <=> Present(f)
      <3>1. Live' = Live
        BY <2>1 DEF Live, Below
      <3> QED  BY <2>1, <3>1, SamePlaces DEF TInv
    <2>4. \A f : Pending(f)' <=> Pending(f)
      BY <2>1 DEF Pending, Ending, Top
    <2>5. Results' /\ Unended'
      BY <2>1, <2>3, <2>4 DEF TInv, Results, Unended
    <2>6. Drops'
      <3>1. \A c : Code(c)' = Code(c)
        BY <2>1 DEF Code
      <3>2. \A t : Running(t)' = Running(t)
        BY <2>1 DEF Running, Top
      <3> QED  BY <2>1, <3>1, <3>2 DEF TInv, Drops
    <2>7. Endings'
      BY <2>1 DEF TInv, Endings, Top
    <2>8. TInv'
      BY <2>1, <2>2, <2>3, <2>4, <2>5, <2>6, <2>7, StandingKeeps
    <2> QED  BY <2>1, <2>8
  <1>4. CASE Next
    <2>1. PICK t \in Threads : Step(t)
      BY <1>4 DEF Next
    <2> QED  BY <1>1, <1>2, <2>1 DEF Step
  <1> QED  BY <1>3, <1>4

(* Whoever awaits a task, in a coroutine or in sync_wait, on whatever      *)
(* thread each of them runs and ends, reads the value that it returned     *)
(* (task.h:48, sync_wait.h:29), if every coroutine is started in one place.*)
THEOREM AwaitedValuesRead ==
    ASSUME \A p \in Programs : StartedOnce(p)
    PROVE  Spec => []ReadsReturned
  <1> DEFINE I == TInv /\ StartedOnce(program)
  <1>1. Init => I
    BY TInvInit DEF Init
  <1>2. I /\ [Next]_vars => I'
    <2>1. StartedOnce(program) /\ program' = program => StartedOnce(program')
      OBVIOUS
    <2> QED  BY <2>1, TInvNext
  <1>3. I => ReadsReturned
    BY DEF TInv
  <1> QED  BY <1>1, <1>2, <1>3, PTL DEF Spec

-----------------------------------------------------------------------------
(* The states of frames, by where they are                                 *)

Finishing == Ends \cup {"setting"}

(* It runs, or one that it has resumed does. *)
Held(f) ==
    \E t \in Threads : \E i \in 1 .. Len(stack[t]) :
        stack[t][i] = f /\ (i < Len(stack[t]) \/ mode[t] \in {"run", "dropping"})

(* It is to be resumed. *)
Parked(f) ==
    \/ \E i \in 1 .. Len(queue) : queue[i] = f
    \/ \E t \in Threads : f \in io[t]
    \/ \E g \in Coros : caller[g] = f /\ Pending(g)

HeldRun == \A f \in Frames : Held(f) => state[f] = "running"

ParkedSuspended == \A f \in Frames : Parked(f) => state[f] = "suspended"

(* It may have destroyed itself before it looks for its caller.            *)
FinalAtEnd ==
    \A t \in Threads : mode[t] \in Finishing =>
        \/ state[Top(t)] = "final"
        \/ mode[t] = "transferring" /\ state[Top(t)] = "destroyed" /\ Top(t) \in detached

Unstarted == \A g \in Coros : NotStarted(g) => state[g] \in {"none", "initial"}

(* Operation i of c was done. *)
Past(c, i) == i \in DOMAIN program[c] /\ i < pos[c]

Made ==
    \A c \in Threads \cup Coros, g \in Coros : \A i \in DOMAIN program[c] :
        Past(c, i) /\ program[c][i] = <<"make", g>> => state[g] # "none"

LetGo ==
    \A g \in Coros : g \in detached \/ state[g] = "destroyed" =>
        \E c \in Threads \cup Coros : \E i \in DOMAIN program[c] :
            Past(c, i) /\ program[c][i] \in {"detach", "drop"} \X {g}

Ended ==
    \A c \in Threads \cup Coros, g \in Coros : \A i \in DOMAIN program[c] :
        Past(c, i) /\ program[c][i] \in {"read", "block", "sleep"} \X {g} => ~ Pending(g)

AInv ==
    /\ HeldRun /\ ParkedSuspended /\ FinalAtEnd /\ Unstarted /\ Made /\ LetGo /\ Ended
    /\ UsedAlive

(* Nothing leaves its thread. *)
Home(home, c) == IF c \in Syncs THEN Owner(c) ELSE home[c]

AtHome(home) ==
    /\ queue = <<>>
    /\ \A t \in Threads : /\ \A i \in 1 .. Len(stack[t]) : Home(home, stack[t][i]) = t
                          /\ \A f \in io[t] : Home(home, f) = t
    /\ \A g \in Coros, c \in Frames : caller[g] = c => Home(home, c) = home[g]

HInv == \A home \in [Threads \cup Coros -> Threads] : StaysHome(program, home) => AtHome(home)

LEMMA AliveKeeps ==
    ASSUME AInv, TypeOK, TypeOK', program' = program, NEW op, NEW g,
           \A d \in Threads \cup Coros : \A i \in DOMAIN program[d] :
               /\ Past(d, i) => Past(d, i)'
               /\ Past(d, i)' => Past(d, i) \/ program[d][i] = <<op, g>>,
           \A h \in Coros : NotStarted(h)' => NotStarted(h),
           \A h \in Coros : Pending(h)' => Pending(h),
           \A f \in Frames : Held(f)' => Held(f) \/ state'[f] = "running",
           \A f \in Frames : Parked(f)' => Parked(f) \/ state'[f] = "suspended",
           \A f \in Frames : state'[f] # state[f] =>
               /\ state'[f] # "none"
               /\ Held(f)' => state'[f] = "running"
               /\ Parked(f)' => state'[f] = "suspended"
               /\ f \in Coros =>
                     \/ state'[f] = "initial"
                     \/ state[f] \notin {"none", "initial"}
                     \/ ~ NotStarted(f)',
           FinalAtEnd',
           op = "make" /\ g \in Coros => state'[g] # "none",
           op \in {"read", "block", "sleep"} /\ g \in Coros => ~ Pending(g),
           \A h \in Coros : h \in detached' \/ state'[h] = "destroyed" =>
               \/ h \in detached \/ state[h] = "destroyed"
               \/ \E d \in Threads \cup Coros : \E i \in DOMAIN program[d] :
                     Past(d, i)' /\ program[d][i] \in {"detach", "drop"} \X {h},
           detached \subseteq detached',
           \A m \in misuse' :
               m \in misuse \/ m \in ({"caller"} \X detached') \cup ({"notify"} \X Syncs)
    PROVE  AInv'
  <1>1. HeldRun'
    <2> SUFFICES ASSUME NEW f \in Frames, Held(f)' PROVE state'[f] = "running"
      BY DEF HeldRun
    <2> QED  BY DEF AInv, HeldRun
  <1>2. ParkedSuspended'
    <2> SUFFICES ASSUME NEW f \in Frames, Parked(f)' PROVE state'[f] = "suspended"
      BY DEF ParkedSuspended
    <2> QED  BY DEF AInv, ParkedSuspended
  <1>3. Unstarted'
    <2> SUFFICES ASSUME NEW h \in Coros, NotStarted(h)'
                 PROVE  state'[h] \in {"none", "initial"}
      BY DEF Unstarted
    <2>1. h \in Frames /\ state[h] \in {"none", "initial"}
      BY DEF AInv, Unstarted, Frames
    <2> QED  BY <2>1
  <1>4. Made'
    <2> SUFFICES ASSUME NEW d \in Threads \cup Coros, NEW h \in Coros,
                        NEW i \in DOMAIN program[d],
                        Past(d, i)', program[d][i] = <<"make", h>>
                 PROVE  state'[h] # "none"
      BY DEF Made
    <2>1. h \in Frames
      BY DEF Frames
    <2>2. CASE Past(d, i)
      <3>1. state[h] # "none"
        BY <2>2 DEF AInv, Made
      <3> QED  BY <2>1, <3>1
    <2>3. CASE program[d][i] = <<op, g>>
      BY <2>3
    <2> QED  BY <2>2, <2>3
  <1>5. LetGo'
    <2> SUFFICES ASSUME NEW h \in Coros, h \in detached' \/ state'[h] = "destroyed"
                 PROVE  \E d \in Threads \cup Coros : \E i \in DOMAIN program[d] :
                            Past(d, i)' /\ program[d][i] \in {"detach", "drop"} \X {h}
      BY DEF LetGo
    <2>1. CASE h \in detached \/ state[h] = "destroyed"
      BY <2>1 DEF AInv, LetGo
    <2> QED  BY <2>1
  <1>6. Ended'
    <2> SUFFICES ASSUME NEW d \in Threads \cup Coros, NEW h \in Coros,
                        NEW i \in DOMAIN program[d],
                        Past(d, i)', program[d][i] \in {"read", "block", "sleep"} \X {h}
                 PROVE  ~ Pending(h)'
      BY DEF Ended
    <2>1. CASE Past(d, i)
      BY <2>1 DEF AInv, Ended
    <2>2. CASE program[d][i] = <<op, g>>
      BY <2>2
    <2> QED  BY <2>1, <2>2
  <1>7. UsedAlive'
    BY DEF AInv, UsedAlive
  <1> QED  BY <1>1, <1>2, <1>3, <1>4, <1>5, <1>6, <1>7 DEF AInv

LEMMA Belows ==
    ASSUME TypeOK, NEW t \in Threads, stack[t] # <<>>
    PROVE  /\ Len(stack[t]) \in Nat \ {0} /\ Below(t) \in Seq(Frames)
           /\ Len(Below(t)) = Len(stack[t]) - 1
           /\ \A i \in 1 .. Len(Below(t)) : i < Len(stack[t]) /\ Below(t)[i] = stack[t][i]
  <1> DEFINE s == stack[t]
             q == SubSeq(s, 1, Len(s) - 1)
  <1>1. s \in Seq(Frames) /\ s # <<>>
    BY DEF TypeOK
  <1>2. Below(t) = q
    BY DEF Below
  <1> HIDE DEF s
  <1>3. q \in Seq(Frames) /\ Len(q) = Len(s) - 1 /\ \A i \in 1 .. Len(s) - 1 : q[i] = s[i]
    BY <1>1, Front
  <1>4. Len(s) \in Nat \ {0}
    BY <1>1
  <1> HIDE DEF q
  <1>5. /\ Len(s) \in Nat \ {0} /\ Below(t) \in Seq(Frames)
        /\ Len(Below(t)) = Len(s) - 1
        /\ \A i \in 1 .. Len(Below(t)) : i < Len(s) /\ Below(t)[i] = s[i]
    BY <1>2, <1>3, <1>4
  <1> QED  BY <1>5 DEF s

(* The last frame of a thread's stack is left, and another that runs may   *)
(* take its place.                                                         *)
LEMMA HeldKeeps ==
    ASSUME TypeOK, NEW t \in Threads, stack[t] # <<>>,
           \A u \in Threads : u # t => stack'[u] = stack[u] /\ mode'[u] = mode[u],
           NEW h,
           stack'[t] = Below(t) \/ (stack'[t] = Append(Below(t), h) /\ state'[h] = "running"),
           NEW f, Held(f)'
    PROVE  Held(f) \/ state'[f] = "running"
  <1>1. PICK u \in Threads : \E i \in 1 .. Len(stack'[u]) :
            stack'[u][i] = f /\ (i < Len(stack'[u]) \/ mode'[u] \in {"run", "dropping"})
    BY DEF Held
  <1>2. PICK i \in 1 .. Len(stack'[u]) :
            stack'[u][i] = f /\ (i < Len(stack'[u]) \/ mode'[u] \in {"run", "dropping"})
    BY <1>1
  <1>3. CASE u # t
    BY <1>2, <1>3 DEF Held
  <1>4. CASE u = t
    <2>1. /\ Len(stack[t]) \in Nat /\ Below(t) \in Seq(Frames)
          /\ Len(Below(t)) = Len(stack[t]) - 1
          /\ \A j \in 1 .. Len(Below(t)) : Below(t)[j] = stack[t][j]
      BY Belows
    <2>2. ASSUME i \in 1 .. Len(Below(t)), f = Below(t)[i]
          PROVE  Held(f)
      BY <2>1, <2>2 DEF Held
    <2>3. CASE stack'[t] = Below(t)
      BY <1>2, <1>4, <2>2, <2>3
    <2>4. CASE stack'[t] = Append(Below(t), h) /\ state'[h] = "running"
      <3>1. (i \in 1 .. Len(Below(t)) /\ f = Below(t)[i]) \/ f = h
        BY <1>2, <1>4, <2>1, <2>4
      <3> QED  BY <2>2, <2>4, <3>1
    <2> QED  BY <2>3, <2>4
  <1> QED  BY <1>3, <1>4

(* What is held is not parked, after a step. *)
LEMMA Exclusive ==
    ASSUME TInv', NEW f \in Frames, Held(f)'
    PROVE  ~ Parked(f)'
  <1> DEFINE L == Live'
  <1>1. \E t \in Threads : \E i \in 1 .. Len(L[t]) : L[t][i] = f
    <2>0. PICK t \in Threads : \E i \in 1 .. Len(stack'[t]) :
              stack'[t][i] = f /\ (i < Len(stack'[t]) \/ mode'[t] \in {"run", "dropping"})
      BY DEF Held
    <2>1. PICK i \in 1 .. Len(stack'[t]) :
              stack'[t][i] = f /\ (i < Len(stack'[t]) \/ mode'[t] \in {"run", "dropping"})
      BY <2>0
    <2>2. CASE mode'[t] = "notifying"
      <3> DEFINE s == stack'[t]
      <3>1. s \in Seq(Frames) /\ s # <<>>
        BY <2>2 DEF TInv, TypeOK
      <3>2. L[t] = SubSeq(s, 1, Len(s) - 1)
        BY <2>2 DEF Live, Below
      <3>3. i \in 1 .. Len(s) - 1
        BY <2>1, <2>2, <3>1
      <3> HIDE DEF s, L
      <3>4. Len(L[t]) = Len(s) - 1 /\ L[t][i] = s[i]
        BY <3>1, <3>2, <3>3, Front
      <3> QED  BY <2>1, <3>3, <3>4 DEF s
    <2>3. CASE mode'[t] # "notifying"
      BY <2>1, <2>3 DEF Live
    <2> QED  BY <2>2, <2>3
  <1>2. Present(f)' /\ Alone(L, queue', io', f)
    BY <1>1 DEF Present, Inside, TInv, OnlyOnce
  <1> HIDE DEF L
  <1>3. /\ \A j \in 1 .. Len(queue') : queue'[j] # f
        /\ \A t \in Threads : f \notin io'[t]
    BY <1>1, <1>2 DEF Alone
  <1>4. \A g \in Coros : caller'[g] = f => ~ Pending(g)'
    BY <1>2 DEF TInv, Callers
  <1> QED  BY <1>3, <1>4 DEF Parked

LEMMA LivePlace ==
    ASSUME TypeOK, NEW t \in Threads, NEW i \in 1 .. Len(stack[t]),
           i < Len(stack[t]) \/ mode[t] # "notifying"
    PROVE  i \in 1 .. Len(Live[t]) /\ Live[t][i] = stack[t][i]
  <1>1. CASE mode[t] = "notifying"
    <2>1. stack[t] \in Seq(Frames) /\ stack[t] # <<>>
      BY <1>1 DEF TypeOK
    <2>2. i \in 1 .. Len(stack[t]) - 1
      BY <1>1, <2>1
    <2> QED  BY <1>1, <2>1, <2>2, Front DEF Live, Below
  <1>2. CASE mode[t] # "notifying"
    BY <1>2 DEF Live
  <1> QED  BY <1>1, <1>2

LEMMA HeldPresent ==
    ASSUME TInv, NEW f, Held(f)
    PROVE  Present(f)
  <1>1. PICK t \in Threads : \E i \in 1 .. Len(stack[t]) :
            stack[t][i] = f /\ (i < Len(stack[t]) \/ mode[t] \in {"run", "dropping"})
    BY DEF Held
  <1>2. PICK i \in 1 .. Len(stack[t]) :
            stack[t][i] = f /\ (i < Len(stack[t]) \/ mode[t] \in {"run", "dropping"})
    BY <1>1
  <1>3. i \in 1 .. Len(Live[t]) /\ Live[t][i] = f
    BY <1>2, LivePlace DEF TInv
  <1> QED  BY <1>3 DEF Present, Inside

LEMMA PendingKeeps ==
    ASSUME TInv, NEW t \in Threads,
           \A u \in Threads : u # t => stack'[u] = stack[u] /\ mode'[u] = mode[u],
           mode'[t] \in Ends => stack'[t] = stack[t] /\ mode[t] # "notifying",
           \A h \in Coros : result'[h] = None => result[h] = None,
           NEW f \in Coros, Pending(f)'
    PROVE  Pending(f)
  <1>1. CASE result'[f] = None
    BY <1>1 DEF Pending
  <1>2. CASE Ending(f)'
    <2>1. PICK u \in Threads : stack'[u] # <<>> /\ Top(u)' = f /\ mode'[u] \in Ends
      BY <1>2 DEF Ending
    <2>2. CASE u = t
      <3>1. stack[t] # <<>> /\ Top(t) = f /\ mode[t] # "notifying"
        BY <2>1, <2>2 DEF Top
      <3>2. Present(f)
        BY <3>1, Runs DEF TInv
      <3> QED  BY <3>2 DEF TInv, Unended
    <2>3. CASE u # t
      BY <2>1, <2>3 DEF Pending, Ending, Top
    <2> QED  BY <2>2, <2>3
  <1> QED  BY <1>1, <1>2 DEF Pending

LEMMA Advances ==
    ASSUME TInv, TypeOK', NEW t \in Threads, mode[t] # "notifying",
           NEW op, NEW g, Doing(t, op, g),
           Goes(t), program' = program, target' = target,
           NEW c, c = Running(t)
    PROVE  /\ \A d \in Threads \cup Coros : \A i \in DOMAIN program[d] :
                 /\ Past(d, i) => Past(d, i)'
                 /\ Past(d, i)' => Past(d, i) \/ program[d][i] = <<op, g>>
           /\ \A h \in Coros : NotStarted(h)' => NotStarted(h)
           /\ \A i : c \in Threads \cup Coros /\ i = pos[c] =>
                 Past(c, i)' /\ i \in DOMAIN program[c] /\ program[c][i] = <<op, g>>
  <1>1. /\ c \in Threads \cup Frames /\ pos[c] \in Nat \ {0} /\ pos'[c] = pos[c] + 1
        /\ \A d \in Threads \cup Frames : d # c => pos'[d] = pos[d]
        /\ \A f : NotStarted(f)' => NotStarted(f)
    BY Gone
  <1>2. c \in Threads \cup Coros =>
            pos[c] \in DOMAIN program[c] /\ program[c][pos[c]] = <<op, g>>
    BY Operation DEF TInv
  <1>3. ASSUME NEW d \in Threads \cup Coros, NEW i \in DOMAIN program[d]
        PROVE  /\ Past(d, i) => Past(d, i)'
               /\ Past(d, i)' => Past(d, i) \/ program[d][i] = <<op, g>>
    <2>1. TypeOK /\ program[d] \in Seq(Operations) /\ i \in 1 .. Len(program[d])
      BY <1>3, WellWritten DEF TInv
    <2>2. CASE d = c
      BY <1>1, <1>2, <2>1, <2>2 DEF Past
    <2>3. CASE d # c
      <3>1. pos'[d] = pos[d]
        BY <1>1, <2>3 DEF Frames
      <3> QED  BY <3>1 DEF Past
    <2> QED  BY <2>2, <2>3
  <1>4. \A i : c \in Threads \cup Coros /\ i = pos[c] =>
            Past(c, i)' /\ i \in DOMAIN program[c] /\ program[c][i] = <<op, g>>
    BY <1>1, <1>2 DEF Past
  <1> QED  BY <1>1, <1>2, <1>3, <1>4

-----------------------------------------------------------------------------
(* What Owned says of an operation that is done now                        *)

LEMMA NotLetGo ==
    ASSUME TInv, LetGo, Owned(program),
           NEW c \in Threads \cup Coros, NEW g \in Coros,
           pos[c] \in DOMAIN program[c], program[c][pos[c]][2] = g
    PROVE  g \notin detached /\ state[g] # "destroyed"
  <1> SUFFICES ASSUME g \in detached \/ state[g] = "destroyed" PROVE FALSE
    OBVIOUS
  <1>0. PICK d \in Threads \cup Coros : \E i \in DOMAIN program[d] :
            Past(d, i) /\ program[d][i] \in {"detach", "drop"} \X {g}
    BY DEF LetGo
  <1>1. PICK i \in DOMAIN program[d] :
            Past(d, i) /\ program[d][i] \in {"detach", "drop"} \X {g}
    BY <1>0
  <1>2. program[d][i][1] \in {"detach", "drop"} /\ program[d][i][2] = g
    BY <1>1
  <1>3. d = c /\ pos[c] <= i
    BY <1>2 DEF Owned
  <1>4. i < pos[c] /\ i \in Nat /\ pos[c] \in Nat
    BY <1>1, <1>3, WellWritten DEF Past, TInv
  <1> QED  BY <1>3, <1>4

(* What a thread or a frame does to a coroutine.                           *)
LEMMA DoneTo ==
    ASSUME TInv, LetGo, Owned(program), NEW t \in Threads, mode[t] # "notifying",
           NEW op, NEW g \in Coros, Doing(t, op, g), op # "await"
    PROVE  g \notin detached /\ state[g] # "destroyed"
  <1> SUFFICES ASSUME NEW c, c = Running(t)
               PROVE  g \notin detached /\ state[g] # "destroyed"
    OBVIOUS
  <1>1. c \in Threads \cup Frames
    BY Runs DEF TInv
  <1>2. CASE c \in Threads \cup Coros
    <2>1. pos[c] \in DOMAIN program[c] /\ program[c][pos[c]] = <<op, g>>
      BY <1>2, Operation DEF TInv
    <2>2. program[c][pos[c]][2] = g
      BY <2>1
    <2> QED  BY <1>2, <2>1, <2>2, NotLetGo
  <1>3. ASSUME NEW u \in Threads, c = Sync(u)
        PROVE  g \notin detached /\ state[g] # "destroyed"
    <2>1. TypeOK /\ SyncReads /\ Running(t) = Sync(u)
      BY <1>3 DEF TInv
    <2>2. Present(Sync(u)) /\ g = target[u]
      BY <2>1, SyncOperation, Runs, Names
    <2>3. pos[u] > 1 /\ Previous(u) = <<"wait", g>>
      BY <2>2 DEF TInv, SyncTurns
    <2>4. /\ pos[u] \in Nat /\ program[u] \in Seq(Operations)
          /\ pos[u] <= Len(program[u]) + 1 /\ Code(u) = program[u]
      BY Codes, ProgramsAssumption DEF TInv, TypeOK, WellFormed
    <2> DEFINE i == pos[u] - 1
    <2>5. i \in DOMAIN program[u] /\ program[u][i] = <<"wait", g>> /\ i + 1 = pos[u]
      BY <2>3, <2>4 DEF Previous
    <2> HIDE DEF i
    <2>6. program[u][i][1] = "wait" /\ program[u][i][2] = g
      BY <2>5
    <2>7. i < Len(program[u]) /\ program[u][i + 1] = <<"block", g>> /\ i \in Nat
      BY <2>5, <2>6, WellWritten DEF TInv
    <2>8. pos[u] \in DOMAIN program[u] /\ program[u][pos[u]][2] = g
      BY <2>4, <2>5, <2>7
    <2> QED  BY <2>8, NotLetGo
  <1> QED  BY <1>1, <1>2, <1>3 DEF Frames, Syncs

(* What is started is new.                                                 *)
LEMMA StartedNew ==
    ASSUME TInv, AInv, StartedOnce(program), Owned(program),
           NEW t \in Threads, mode[t] # "notifying",
           NEW g \in Coros, NEW op \in {"resume", "await"}, Doing(t, op, g)
    PROVE  state[g] = "initial"
  <1>1. NotStarted(g)
    BY Starting
  <1>2. state[g] \in {"none", "initial"}
    BY <1>1 DEF AInv, Unstarted
  <1>3. ASSUME NEW d \in Threads \cup Coros, NEW i, StartsAt(d, i, g), i <= pos[d]
        PROVE  state[g] # "none"
    <2>1. i \in DOMAIN program[d] /\ program[d][i][1] \in Starts /\ program[d][i][2] = g
      BY <1>3 DEF StartsAt, Starts
    <2>2. PICK j \in 1 .. i - 1 : program[d][j] = <<"make", g>>
      BY <2>1 DEF Owned
    <2>3. i \in 1 .. Len(program[d]) /\ program[d] \in Seq(Operations)
      BY <2>1, WellWritten DEF TInv
    <2>4. pos[d] \in Nat
      BY DEF TInv, TypeOK, Frames
    <2>5. j \in DOMAIN program[d] /\ j < pos[d]
      BY <1>3, <2>3, <2>4
    <2> QED  BY <2>2, <2>5 DEF AInv, Made, Past
  <1> DEFINE c == Running(t)
  <1>4. CASE c \in Threads \cup Coros /\ StartsAt(c, pos[c], g)
    <2>1. pos[c] \in Nat
      BY <1>4 DEF TInv, TypeOK, Frames
    <2> HIDE DEF c
    <2> QED  BY <1>2, <1>3, <1>4, <2>1
  <1>5. ASSUME NEW u \in Threads, StartsAt(u, pos[u] - 1, g)
        PROVE  state[g] # "none"
    <2>1. pos[u] \in Nat
      BY DEF TInv, TypeOK
    <2> QED  BY <1>3, <1>5, <2>1
  <1> QED  BY <1>2, <1>4, <1>5, StartPlace

-----------------------------------------------------------------------------
(* Steps that do an operation                                              *)

LEMMA OperationAlive ==
    ASSUME TInv, AInv, TInv', NEW t \in Threads, mode[t] \in {"run", "dropping"},
           NEW op, NEW g, Doing(t, op, g), Goes(t), UNCHANGED <<program, result, target>>,
           mode'[t] = "run",
           \A u \in Threads : u # t => stack'[u] = stack[u] /\ mode'[u] = mode[u],
           \A f \in Frames : Held(f)' => Held(f) \/ state'[f] = "running",
           \A f \in Frames : Parked(f)' => Parked(f) \/ state'[f] = "suspended",
           \A f \in Frames : state'[f] # state[f] =>
               /\ state'[f] # "none"
               /\ Held(f)' => state'[f] = "running"
               /\ Parked(f)' => state'[f] = "suspended"
               /\ \A u \in Threads : mode[u] \in Finishing => Top(u) # f
               /\ f \in Coros =>
                     \/ state'[f] = "initial"
                     \/ state[f] \notin {"none", "initial"}
                     \/ ~ NotStarted(f)',
           op = "make" /\ g \in Coros => state'[g] # "none",
           op \in {"read", "block", "sleep"} /\ g \in Coros => ~ Pending(g),
           \A f \in Coros : f \in detached' \/ state'[f] = "destroyed" =>
               \/ f \in detached \/ state[f] = "destroyed"
               \/ op \in {"detach", "drop"} /\ f = g,
           detached \subseteq detached', misuse' = misuse
    PROVE  AInv'
  <1>1. /\ mode[t] # "notifying" /\ mode'[t] = "run" /\ mode'[t] \notin Ends \cup Finishing
        /\ \A u \in Threads : u # t => stack'[u] = stack[u] /\ mode'[u] = mode[u]
    BY DEF TInv, TypeOK, Ends, Finishing
  <1>2. TypeOK /\ TypeOK'
    BY DEF TInv
  <1>3. /\ \A d \in Threads \cup Coros : \A i \in DOMAIN program[d] :
              /\ Past(d, i) => Past(d, i)'
              /\ Past(d, i)' => Past(d, i) \/ program[d][i] = <<op, g>>
        /\ \A f \in Coros : NotStarted(f)' => NotStarted(f)
    <2> SUFFICES ASSUME NEW c, c = Running(t)
                 PROVE  /\ \A d \in Threads \cup Coros : \A i \in DOMAIN program[d] :
                              /\ Past(d, i) => Past(d, i)'
                              /\ Past(d, i)' => Past(d, i) \/ program[d][i] = <<op, g>>
                        /\ \A f \in Coros : NotStarted(f)' => NotStarted(f)
      OBVIOUS
    <2> QED  BY <1>1, <1>2, Advances
  <1>4. \A f \in Coros : Pending(f)' => Pending(f)
    BY <1>1, PendingKeeps
  <1>5. FinalAtEnd'
    <2> SUFFICES ASSUME NEW u \in Threads, mode'[u] \in Finishing
                 PROVE  \/ state'[Top(u)'] = "final"
                        \/ /\ mode'[u] = "transferring" /\ state'[Top(u)'] = "destroyed"
                           /\ Top(u)' \in detached'
      BY DEF FinalAtEnd
    <2>1. u # t /\ mode'[u] = mode[u] /\ stack'[u] = stack[u] /\ Top(u)' = Top(u)
      BY <1>1 DEF Top
    <2>2. stack[u] # <<>> /\ Top(u) \in Frames
      <3>1. mode[u] \notin {"run", "dropping", "notifying"}
        BY <2>1 DEF Finishing, Ends
      <3> QED  BY <1>2, <3>1, Runs DEF TypeOK
    <2>3. state'[Top(u)] = state[Top(u)]
      BY <2>1, <2>2
    <2> QED  BY <2>1, <2>3 DEF AInv, FinalAtEnd
  <1>6. \A f \in Coros : f \in detached' \/ state'[f] = "destroyed" =>
            \/ f \in detached \/ state[f] = "destroyed"
            \/ \E d \in Threads \cup Coros : \E i \in DOMAIN program[d] :
                  Past(d, i)' /\ program[d][i] \in {"detach", "drop"} \X {f}
    <2> SUFFICES ASSUME NEW f \in Coros, op \in {"detach", "drop"}, f = g
                 PROVE  \E d \in Threads \cup Coros : \E i \in DOMAIN program[d] :
                            Past(d, i)' /\ program[d][i] \in {"detach", "drop"} \X {f}
      OBVIOUS
    <2> SUFFICES ASSUME NEW c, c = Running(t), NEW i, i = pos[c]
                 PROVE  \E d \in Threads \cup Coros : \E j \in DOMAIN program[d] :
                            Past(d, j)' /\ program[d][j] \in {"detach", "drop"} \X {f}
      OBVIOUS
    <2>1. c \in Threads \cup Coros
      <3>1. c \in Threads \cup Frames
        BY <1>1, <1>2, Runs
      <3>2. ASSUME NEW u \in Threads, Running(t) = Sync(u) PROVE FALSE
        BY <1>1, <3>2, SyncOperation DEF TInv
      <3> QED  BY <3>1, <3>2 DEF Frames, Syncs
    <2>2. Past(c, i)' /\ i \in DOMAIN program[c] /\ program[c][i] = <<op, g>>
      <3>1. \A j : c \in Threads \cup Coros /\ j = pos[c] =>
                Past(c, j)' /\ j \in DOMAIN program[c] /\ program[c][j] = <<op, g>>
        BY <1>1, <1>2, Advances
      <3> QED  BY <2>1, <3>1
    <2>3. program[c][i] \in {"detach", "drop"} \X {f}
      BY <2>2
    <2> QED  BY <2>1, <2>2, <2>3
  <1>7. \A m \in misuse' :
            m \in misuse \/ m \in ({"caller"} \X detached') \cup ({"notify"} \X Syncs)
    OBVIOUS
  <1>8. \A f \in Frames : state'[f] # state[f] =>
            /\ state'[f] # "none"
            /\ Held(f)' => state'[f] = "running"
            /\ Parked(f)' => state'[f] = "suspended"
            /\ f \in Coros =>
                  \/ state'[f] = "initial"
                  \/ state[f] \notin {"none", "initial"}
                  \/ ~ NotStarted(f)'
    OBVIOUS
  <1>9. program' = program
    OBVIOUS
  <1> QED
    BY <1>2, <1>3, <1>4, <1>5, <1>6, <1>7, <1>8, <1>9, AliveKeeps

(* Steps that do none                                                      *)

LEMMA StandingAlive ==
    ASSUME TInv, AInv, TInv', NEW t \in Threads, UNCHANGED <<program, pos, detached>>,
           \A u \in Threads : u # t => stack'[u] = stack[u] /\ mode'[u] = mode[u],
           \A f \in Coros : Pending(f)' => Pending(f),
           \A f \in Frames : Held(f)' => Held(f) \/ state'[f] = "running",
           \A f \in Frames : Parked(f)' => Parked(f),
           \A f \in Frames : state'[f] # state[f] =>
               /\ state[f] \notin {"none", "initial"} /\ state'[f] # "none"
               /\ Held(f)' => state'[f] = "running"
               /\ Parked(f)' => state'[f] = "suspended"
               /\ \A u \in Threads : u # t /\ mode[u] \in Finishing => Top(u) # f
               /\ state'[f] = "destroyed" => f \in detached,
           mode'[t] \in Finishing =>
               \/ state'[Top(t)'] = "final"
               \/ /\ mode'[t] = "transferring" /\ state'[Top(t)'] = "destroyed"
                  /\ Top(t)' \in detached,
           \A m \in misuse' :
               m \in misuse \/ m \in ({"caller"} \X detached) \cup ({"notify"} \X Syncs)
    PROVE  AInv'
  <1>1. TypeOK /\ TypeOK' /\ program' = program
    BY DEF TInv
  <1>2. \A d \in Threads \cup Coros : \A i \in DOMAIN program[d] : Past(d, i)' <=> Past(d, i)
    BY DEF Past
  <1>3. \A f \in Coros : NotStarted(f)' => NotStarted(f)
    BY DEF NotStarted
  <1>4. FinalAtEnd'
    <2> SUFFICES ASSUME NEW u \in Threads, u # t, mode'[u] \in Finishing
                 PROVE  \/ state'[Top(u)'] = "final"
                        \/ /\ mode'[u] = "transferring" /\ state'[Top(u)'] = "destroyed"
                           /\ Top(u)' \in detached'
      BY DEF FinalAtEnd
    <2>1. mode'[u] = mode[u] /\ stack'[u] = stack[u] /\ Top(u)' = Top(u)
      BY DEF Top
    <2>2. Top(u) \in Frames
      <3>1. mode[u] \notin {"run", "dropping", "notifying"}
        BY <2>1 DEF Finishing, Ends
      <3> QED  BY <1>1, <3>1, Runs DEF TypeOK
    <2>3. state'[Top(u)] = state[Top(u)]
      BY <2>1, <2>2
    <2> QED  BY <2>1, <2>3 DEF AInv, FinalAtEnd
  <1>5. \A f \in Coros : f \in detached' \/ state'[f] = "destroyed" =>
            f \in detached \/ state[f] = "destroyed"
    BY DEF Frames
  <1>6. \A f \in Frames : state'[f] # state[f] =>
            /\ state'[f] # "none"
            /\ Held(f)' => state'[f] = "running"
            /\ Parked(f)' => state'[f] = "suspended"
            /\ f \in Coros => state[f] \notin {"none", "initial"}
    OBVIOUS
  <1>7. \A m \in misuse' :
            m \in misuse \/ m \in ({"caller"} \X detached') \cup ({"notify"} \X Syncs)
    OBVIOUS
  <1>8. detached \subseteq detached' /\ "" # "make" /\ "" \notin {"read", "block", "sleep"}
    OBVIOUS
  <1> QED
    BY <1>1, <1>2, <1>3, <1>4, <1>5, <1>6, <1>7, <1>8, AliveKeeps

(* Operations that resume nothing. *)
LEMMA OrdinaryAlive ==
    ASSUME TInv, AInv, TInv', NEW t \in Threads, mode[t] \in {"run", "dropping"},
           NEW op, NEW g, Doing(t, op, g), Goes(t),
           UNCHANGED <<program, result, target, stack, queue, io, caller, misuse>>,
           mode'[t] = "run", \A u \in Threads : u # t => mode'[u] = mode[u],
           \A f \in Frames : state'[f] # state[f] =>
               /\ state'[f] # "none" /\ ~ Held(f) /\ ~ Parked(f)
               /\ \A u \in Threads : mode[u] \in Finishing => Top(u) # f
               /\ f \in Coros => state'[f] = "initial" \/ state[f] \notin {"none", "initial"},
           op = "make" /\ g \in Coros => state'[g] # "none",
           op \in {"read", "block", "sleep"} /\ g \in Coros => ~ Pending(g),
           \A f \in Coros : f \in detached' \/ state'[f] = "destroyed" =>
               \/ f \in detached \/ state[f] = "destroyed"
               \/ op \in {"detach", "drop"} /\ f = g,
           detached \subseteq detached'
    PROVE  AInv'
  <1>1. /\ mode'[t] \notin Ends
        /\ \A u \in Threads : u # t => stack'[u] = stack[u] /\ mode'[u] = mode[u]
    BY DEF Ends
  <1>2. \A f \in Coros : Pending(f)' => Pending(f)
    BY <1>1, PendingKeeps
  <1>3. \A f : Parked(f)' => Parked(f)
    BY <1>2 DEF Parked
  <1>4. \A f : Held(f)' => Held(f)
    <2>1. \A u \in Threads : mode'[u] \in {"run", "dropping"} => mode[u] \in {"run", "dropping"}
      OBVIOUS
    <2>2. stack' = stack
      OBVIOUS
    <2> QED  BY <2>1, <2>2 DEF Held
  <1>5. \A f \in Frames : state'[f] # state[f] =>
            /\ state'[f] # "none"
            /\ Held(f)' => state'[f] = "running"
            /\ Parked(f)' => state'[f] = "suspended"
            /\ \A u \in Threads : mode[u] \in Finishing => Top(u) # f
            /\ f \in Coros =>
                  \/ state'[f] = "initial"
                  \/ state[f] \notin {"none", "initial"}
                  \/ ~ NotStarted(f)'
    BY <1>3, <1>4
  <1>6. UNCHANGED <<program, result, target>> /\ misuse' = misuse
    OBVIOUS
  <1> QED  BY <1>1, <1>3, <1>4, <1>5, <1>6, OperationAlive

(* The frames that do nothing. *)
LEMMA Idle ==
    ASSUME AInv, NEW f \in Frames, state[f] \notin {"running", "suspended"}
    PROVE  ~ Held(f) /\ ~ Parked(f)
  BY DEF AInv, HeldRun, ParkedSuspended

LEMMA MakeAlive ==
    ASSUME TInv, AInv, TInv', Owned(program), NEW t \in Threads, NEW g \in Coros, Make(t, g)
    PROVE  AInv'
  <1>1. mode[t] = "run" /\ mode[t] # "notifying" /\ Doing(t, "make", g)
    BY DoesIt DEF Make, TInv
  <1>2. /\ Goes(t) /\ state' = [state EXCEPT ![g] = "initial"]
        /\ UNCHANGED <<program, result, target, stack, queue, io, caller, misuse>>
        /\ mode' = mode /\ detached' = detached
    BY DEF Make, Becomes, promises, threads, waiting, sync, ghosts
  <1>3. mode'[t] = "run" /\ state \in [Frames -> States] /\ g \in Frames
    BY <1>1, <1>2 DEF TInv, TypeOK, Frames
  <1>4. NotStarted(g)
    <2> SUFFICES ASSUME NEW c, c = Running(t) PROVE NotStarted(g)
      OBVIOUS
    <2>1. c \in Threads \cup Coros
      <3>1. c \in Threads \cup Frames
        BY <1>1, Runs DEF TInv
      <3>2. ASSUME NEW u \in Threads, Running(t) = Sync(u) PROVE FALSE
        BY <1>1, <3>2, SyncOperation DEF TInv
      <3> QED  BY <3>1, <3>2 DEF Frames, Syncs
    <2>2. pos[c] \in DOMAIN program[c] /\ program[c][pos[c]] = <<"make", g>>
      BY <1>1, <2>1, Operation DEF TInv
    <2>3. program[c][pos[c]][1] = "make" /\ program[c][pos[c]][2] = g
      BY <2>2
    <2>4. ASSUME NEW d \in Threads \cup Coros, NEW i \in DOMAIN program[d],
                 program[d][i][2] = g
          PROVE  pos[d] <= i
      BY <2>1, <2>2, <2>3, <2>4 DEF Owned
    <2>5. ASSUME NEW d \in Threads \cup Coros, NEW i \in DOMAIN program[d], NEW o,
                 program[d][i] = <<o, g>>
          PROVE  pos[d] <= i
      BY <2>4, <2>5
    <2> QED  BY <2>5 DEF NotStarted
  <1>5. state[g] \in {"none", "initial"}
    BY <1>4 DEF AInv, Unstarted
  <1>6. ~ Held(g) /\ ~ Parked(g)
    BY <1>3, <1>5, Idle
  <1>7. \A u \in Threads : mode[u] \in Finishing => Top(u) # g
    BY <1>5 DEF AInv, FinalAtEnd
  <1>8. /\ state'[g] = "initial" /\ \A f \in Frames : state'[f] # state[f] => f = g
    BY <1>2, <1>3
  <1>9. /\ "make" \notin {"read", "block", "sleep"} /\ detached \subseteq detached'
        /\ \A f \in Coros : f \in detached' \/ state'[f] = "destroyed" =>
              f \in detached \/ state[f] = "destroyed"
    BY <1>2, <1>3 DEF Frames
  <1>10. \A f \in Frames : state'[f] # state[f] =>
             /\ state'[f] # "none" /\ ~ Held(f) /\ ~ Parked(f)
             /\ \A u \in Threads : mode[u] \in Finishing => Top(u) # f
             /\ f \in Coros => state'[f] = "initial" \/ state[f] \notin {"none", "initial"}
    BY <1>6, <1>7, <1>8
  <1> QED  BY <1>1, <1>2, <1>3, <1>8, <1>9, <1>10, OrdinaryAlive

LEMMA DetachReadSleepAlive ==
    ASSUME TInv, AInv, TInv', Owned(program), NEW t \in Threads, NEW g \in Coros,
           Detach(t, g) \/ Read(t, g) \/ Sleep(t, g)
    PROVE  AInv'
  <1>0. PICK op \in {"detach", "read", "sleep"} :
            /\ Does(t, op, g)
            /\ detached' = IF op = "detach" THEN detached \cup {g} ELSE detached
            /\ op = "read" => Read(t, g)
            /\ op = "sleep" => Sleep(t, g)
    BY DEF Detach, Read, Sleep, Detached, promises
  <1>1. mode[t] = "run" /\ mode[t] # "notifying" /\ Doing(t, op, g)
    BY <1>0, DoesIt DEF TInv
  <1>2. g \in Frames /\ g \notin detached /\ state[g] # "destroyed"
    <2>1. op # "await" /\ LetGo
      BY DEF AInv
    <2> QED  BY <1>1, <2>1, DoneTo DEF Frames
  <1>3. /\ Goes(t) /\ state' = state
        /\ UNCHANGED <<program, result, target, stack, queue, io, caller, misuse>>
        /\ mode' = mode
    BY <1>2 DEF Detach, Read, Sleep, Uses, promises, threads, waiting, sync, ghosts
  <1>4. mode'[t] = "run" /\ \A u \in Threads : u # t => mode'[u] = mode[u]
    BY <1>1, <1>3
  <1>5. op \in {"read", "block", "sleep"} => ~ Pending(g)
    <2>1. CASE op = "read"
      BY <1>1, <2>1, Reader
    <2>2. CASE op = "sleep"
      <3>1. state[g] = "final" /\ \A u \in Threads : \A i \in DOMAIN stack[u] : stack[u][i] # g
        BY <1>0, <2>2 DEF Sleep, Done
      <3>2. result[g] = g /\ g # None
        BY <3>1, Names DEF TInv, Results, Frames
      <3>3. ~ Ending(g)
        <4>1. ASSUME NEW u \in Threads, stack[u] # <<>> PROVE Top(u) # g
          <5>1. stack[u] \in Seq(Frames)
            BY DEF TInv, TypeOK
          <5> QED  BY <3>1, <4>1, <5>1 DEF Top
        <4> QED  BY <4>1 DEF Ending
      <3> QED  BY <3>2, <3>3 DEF Pending
    <2> QED  BY <2>1, <2>2
  <1>6. /\ op # "make" /\ detached \subseteq detached'
        /\ \A f \in Coros : f \in detached' \/ state'[f] = "destroyed" =>
              \/ f \in detached \/ state[f] = "destroyed"
              \/ op \in {"detach", "drop"} /\ f = g
    BY <1>0, <1>3
  <1> QED  BY <1>1, <1>3, <1>4, <1>5, <1>6, OrdinaryAlive

(* Who does an operation that sync_wait's coroutine does not do. *)
LEMMA OwnOperation ==
    ASSUME TInv, NEW t \in Threads, mode[t] # "notifying",
           NEW op, NEW g, Doing(t, op, g), op \notin {"await", "read"},
           NEW c, c = Running(t)
    PROVE  /\ c \in Threads \cup Coros
           /\ pos[c] \in DOMAIN program[c] /\ program[c][pos[c]] = <<op, g>>
  <1>1. c \in Threads \cup Frames /\ TypeOK /\ SyncReads
    BY Runs DEF TInv
  <1>2. ASSUME NEW u \in Threads, Running(t) = Sync(u) PROVE FALSE
    BY <1>1, <1>2, SyncOperation
  <1>3. c \in Threads \cup Coros
    BY <1>1, <1>2 DEF Frames, Syncs
  <1> QED  BY <1>1, <1>3, Operation

(* A coroutine that is dropped is not in its final_suspend. *)
LEMMA DroppedEnded ==
    ASSUME TInv, AInv, Owned(program),
           \/ DropsEnded(program)
           \/ \E home \in [Threads \cup Coros -> Threads] :
                 StaysHome(program, home) /\ AtHome(home),
           NEW t \in Threads, mode[t] = "run",
           NEW g \in Coros, Doing(t, "drop", g)
    PROVE  ~ Ending(g)
  <1> SUFFICES ASSUME NEW c, c = Running(t), Ending(g) PROVE FALSE
    OBVIOUS
  <1>1. /\ c \in Threads \cup Coros
        /\ pos[c] \in DOMAIN program[c] /\ program[c][pos[c]] = <<"drop", g>>
    BY OwnOperation
  <1>2. program[c][pos[c]][1] = "drop" /\ program[c][pos[c]][2] = g
    BY <1>1
  <1>3. program[c] \in Seq(Operations) /\ pos[c] \in 1 .. Len(program[c])
    BY <1>1, WellWritten DEF TInv
  <1>4. CASE DropsEnded(program)
    <2>1. PICK j \in 1 .. pos[c] - 1 : program[c][j] \in {"read", "block", "sleep"} \X {g}
      BY <1>1, <1>2, <1>4 DEF DropsEnded
    <2>2. j \in DOMAIN program[c] /\ j < pos[c]
      BY <1>3
    <2>3. ~ Pending(g)
      BY <1>1, <2>1, <2>2 DEF AInv, Ended, Past
    <2> QED  BY <2>3 DEF Pending
  <1>5. ASSUME NEW home \in [Threads \cup Coros -> Threads],
               StaysHome(program, home), AtHome(home)
        PROVE  FALSE
    <2>1. PICK u \in Threads : stack[u] # <<>> /\ Top(u) = g /\ mode[u] \in Ends
      BY DEF Ending
    <2>2. u # t /\ mode[u] # "notifying"
      BY <2>1 DEF Ends
    <2>3. Len(stack[u]) \in 1 .. Len(stack[u]) /\ Present(g) /\ stack[u][Len(stack[u])] = g
      BY <2>1, <2>2, Runs DEF TInv, Top
    <2>4. Home(home, g) = u
      BY <1>5, <2>3 DEF AtHome
    <2>5. home[g] = u
      BY <2>4, Names DEF Home
    <2>6. ~ NotStarted(g)
      BY <2>3 DEF TInv, Fresh
    <2>7. PICK d \in Threads \cup Coros : \E i \in DOMAIN program[d] : StartsAt(d, i, g)
      BY <2>6 DEF NotStarted, StartsAt
    <2>8. PICK i \in DOMAIN program[d] : StartsAt(d, i, g)
      BY <2>7
    <2>9. program[d][i][1] \in Starts /\ program[d][i][2] = g
      BY <2>8 DEF StartsAt, Starts
    <2>10. home[g] = home[d]
      BY <1>5, <2>9 DEF StaysHome
    <2>11. PICK j \in 1 .. i - 1 : program[d][j] = <<"make", g>>
      BY <2>9 DEF Owned
    <2>12. j \in DOMAIN program[d] /\ program[d][j][1] = "make" /\ program[d][j][2] = g
      <3>1. program[d] \in Seq(Operations) /\ i \in 1 .. Len(program[d])
        BY WellWritten DEF TInv
      <3> QED  BY <2>11, <3>1
    <2>13. d = c
      BY <1>1, <1>2, <2>12 DEF Owned
    <2>14. home[c] = t
      <3>1. CASE c = t
        BY <1>5, <3>1 DEF StaysHome
      <3>2. CASE c # t
        <4>1. /\ Len(stack[t]) \in 1 .. Len(stack[t]) /\ stack[t][Len(stack[t])] = c
              /\ c \in Frames
          BY <3>2, Runs DEF TInv, Top
        <4>2. Home(home, c) = t
          BY <1>5, <4>1 DEF AtHome
        <4>3. c \in Coros
          BY <1>1, <4>1, Names
        <4> QED  BY <4>2, <4>3, Names DEF Home
      <3> QED  BY <3>1, <3>2
    <2> QED  BY <2>2, <2>5, <2>10, <2>13, <2>14
  <1> QED  BY <1>4, <1>5

LEMMA DropAlive ==
    ASSUME TInv, AInv, TInv', Owned(program), NEW t \in Threads, NEW g \in Coros,
           Drop(t, g), Done(g), ~ Ending(g)
    PROVE  AInv'
  <1>1. mode[t] = "run" /\ mode[t] # "notifying" /\ Doing(t, "drop", g)
    BY DoesIt DEF Drop, TInv
  <1>2. state[g] = "final" /\ g \in Frames /\ state \in [Frames -> States]
    BY DEF Done, Frames, TInv, TypeOK
  <1>3. /\ Goes(t) /\ state' = [state EXCEPT ![g] = "destroyed"] /\ mode' = mode
        /\ UNCHANGED <<program, result, target, stack, queue, io, caller, misuse>>
        /\ detached' = detached
    BY <1>2 DEF Drop, Becomes, Uses, promises, waiting, sync
  <1>4. mode'[t] = "run" /\ \A u \in Threads : u # t => mode'[u] = mode[u]
    BY <1>1, <1>3
  <1>5. ~ Held(g) /\ ~ Parked(g)
    BY <1>2, Idle
  <1>6. \A u \in Threads : mode[u] \in Finishing => Top(u) # g
    <2> SUFFICES ASSUME NEW u \in Threads, mode[u] \in Finishing, Top(u) = g PROVE FALSE
      OBVIOUS
    <2>1. stack[u] # <<>>
      BY DEF Finishing, Ends, TInv, TypeOK
    <2>2. mode[u] \notin Ends
      BY <2>1 DEF Ending
    <2>3. g \in Syncs
      BY <1>2, <2>1, <2>2 DEF Finishing, TInv, Endings
    <2> QED  BY <2>3, Names
  <1>7. \A f \in Frames : state'[f] # state[f] => f = g /\ state'[f] = "destroyed"
    BY <1>2, <1>3
  <1>8. /\ "drop" # "make" /\ "drop" \notin {"read", "block", "sleep"}
        /\ "destroyed" # "none" /\ state[g] \notin {"none", "initial"}
        /\ detached \subseteq detached'
        /\ \A f \in Coros : f \in detached' \/ state'[f] = "destroyed" =>
              \/ f \in detached \/ state[f] = "destroyed"
              \/ "drop" \in {"detach", "drop"} /\ f = g
    BY <1>2, <1>3, <1>7 DEF Frames
  <1>9. UNCHANGED <<program, result, target, stack, queue, io, caller, misuse>> /\ Goes(t)
    BY <1>3
  <1>10. \A f \in Frames : state'[f] # state[f] =>
             /\ state'[f] # "none" /\ ~ Held(f) /\ ~ Parked(f)
             /\ \A u \in Threads : mode[u] \in Finishing => Top(u) # f
             /\ f \in Coros => state'[f] = "initial" \/ state[f] \notin {"none", "initial"}
    BY <1>2, <1>5, <1>6, <1>7
  <1> QED  BY <1>1, <1>4, <1>8, <1>9, <1>10, OrdinaryAlive

LEMMA SetDetachedAlive ==
    ASSUME TInv, AInv, TInv', Owned(program), NEW t \in Threads, NEW g \in Coros,
           SetDetached(t, g)
    PROVE  AInv'
  <1>1. mode[t] = "dropping" /\ mode[t] # "notifying" /\ Doing(t, "drop", g)
    <2> SUFFICES ASSUME NEW c, c = Running(t)
                 PROVE  mode[t] = "dropping" /\ mode[t] # "notifying" /\ Doing(t, "drop", g)
      OBVIOUS
    <2>1. mode[t] = "dropping" /\ mode[t] # "notifying" /\ Code(c)[pos[c]][2] = g
      BY DEF SetDetached
    <2>2. c \in Threads \cup Frames
      BY <2>1, Runs DEF TInv
    <2>3. PICK h \in Coros : pos[c] <= Len(Code(c)) /\ Code(c)[pos[c]] = <<"drop", h>>
      BY <2>1, <2>2 DEF TInv, Drops
    <2>4. h = g
      BY <2>1, <2>3
    <2> QED  BY <2>1, <2>3, <2>4 DEF Doing
  <1>2. g \notin detached /\ state[g] # "destroyed"
    <2>1. "drop" # "await" /\ LetGo
      BY DEF AInv
    <2> QED  BY <1>1, <2>1, DoneTo
  <1>3. /\ Goes(t) /\ state' = state /\ mode' = [mode EXCEPT ![t] = "run"]
        /\ UNCHANGED <<program, result, target, stack, queue, io, caller, misuse>>
        /\ detached' = detached \cup {g}
    BY <1>2 DEF SetDetached, Enters, Detached, Uses, waiting, sync
  <1>4. mode'[t] = "run" /\ \A u \in Threads : u # t => mode'[u] = mode[u]
    BY <1>3 DEF TInv, TypeOK
  <1>5. /\ "drop" # "make" /\ "drop" \notin {"read", "block", "sleep"}
        /\ detached \subseteq detached' /\ \A f \in Frames : state'[f] = state[f]
        /\ \A f \in Coros : f \in detached' \/ state'[f] = "destroyed" =>
              \/ f \in detached \/ state[f] = "destroyed"
              \/ "drop" \in {"detach", "drop"} /\ f = g
    BY <1>3
  <1> QED  BY <1>1, <1>3, <1>4, <1>5, OrdinaryAlive

LEMMA BlockAlive ==
    ASSUME TInv, AInv, TInv', NEW t \in Threads, NEW g \in Coros,
           Block(t, g), asleep' = asleep
    PROVE  AInv'
  <1>1. mode[t] = "run" /\ mode[t] # "notifying" /\ Doing(t, "block", g)
    BY DoesIt DEF Block, TInv
  <1>2. Running(t) = t
    BY <1>1, Doers DEF TInv
  <1>3. /\ flag[t] /\ state' = [state EXCEPT ![Sync(t)] = "destroyed"] /\ Goes(t)
        /\ UNCHANGED <<program, result, target, stack, queue, io, caller, misuse>>
        /\ mode' = mode /\ detached' = detached
    <2>1. asleep' # asleep \cup {t} \/ t \in asleep
      OBVIOUS
    <2> QED  BY <2>1 DEF Block, Released, Becomes, promises, threads, waiting
  <1> SUFFICES ASSUME NEW x, x = Sync(t) PROVE AInv'
    OBVIOUS
  <1>4. /\ ~ Present(x) /\ (\A h \in Coros : caller[h] = x => ~ Pending(h))
        /\ x \in Frames /\ x \notin Coros
    BY <1>3, Names DEF TInv, SyncTurns
  <1>5. ~ Held(x)
    BY <1>4, HeldPresent
  <1>6. ~ Parked(x)
    BY <1>4 DEF Parked, Present, Inside
  <1>7. \A u \in Threads : mode[u] \in Finishing => Top(u) # x
    <2> SUFFICES ASSUME NEW u \in Threads, mode[u] \in Finishing PROVE Top(u) # x
      OBVIOUS
    <2>1. stack[u] # <<>> /\ mode[u] # "notifying"
      BY DEF Finishing, Ends, TInv, TypeOK
    <2> QED  BY <1>4, <2>1, Runs DEF TInv
  <1>8. mode'[t] = "run" /\ \A u \in Threads : u # t => mode'[u] = mode[u]
    BY <1>1, <1>3
  <1>9. \A f \in Frames : state'[f] # state[f] => f = x /\ state'[f] = "destroyed"
    BY <1>3 DEF TInv, TypeOK
  <1>10. ~ Pending(g)
    <2>1. pos[t] \in DOMAIN program[t] /\ program[t][pos[t]] = <<"block", g>>
      BY <1>1, <1>2, Operation DEF TInv
    <2>2. program[t][pos[t]][1] = "block" /\ program[t][pos[t]][2] = g
      BY <2>1
    <2>3. pos[t] > 1 /\ program[t][pos[t] - 1] = <<"wait", g>>
      BY <2>1, <2>2, WellWritten DEF TInv
    <2>4. Previous(t) = <<"wait", g>>
      BY <2>3, Codes DEF Previous
    <2>5. target[t] = g
      BY <2>3, <2>4 DEF TInv, Targets
    <2> QED  BY <1>3, <2>5 DEF TInv, SyncReads
  <1>11. /\ UNCHANGED <<program, result, target, stack, queue, io, caller, misuse>>
         /\ Goes(t) /\ detached \subseteq detached'
    BY <1>3
  <1>12. \A f \in Frames : state'[f] # state[f] =>
             /\ state'[f] # "none" /\ ~ Held(f) /\ ~ Parked(f)
             /\ \A u \in Threads : mode[u] \in Finishing => Top(u) # f
             /\ f \in Coros => state'[f] = "initial" \/ state[f] \notin {"none", "initial"}
    BY <1>4, <1>5, <1>6, <1>7, <1>9
  <1>13. /\ mode[t] \in {"run", "dropping"} /\ "block" # "make"
         /\ \A f \in Coros : f \in detached' \/ state'[f] = "destroyed" =>
               f \in detached \/ state[f] = "destroyed"
    BY <1>1, <1>3, <1>4, <1>9 DEF Frames
  <1> QED  BY <1>1, <1>8, <1>10, <1>11, <1>12, <1>13, OrdinaryAlive

(* Operations that resume a frame, or suspend. *)
LEMMA ResumeAlive ==
    ASSUME TInv, AInv, TInv', StartedOnce(program), Owned(program),
           NEW t \in Threads, NEW g \in Coros, Resume(t, g)
    PROVE  AInv'
  <1>1. /\ ~ Done(g) /\ mode[t] = "run" /\ mode[t] # "notifying" /\ Doing(t, "resume", g)
    BY NotDone DEF Resume
  <1>2. state[g] = "initial" /\ g \in Frames /\ state \in [Frames -> States]
    BY <1>1, StartedNew DEF Frames, TInv, TypeOK
  <1>3. /\ Goes(t) /\ state' = [state EXCEPT ![g] = "running"]
        /\ stack' = [stack EXCEPT ![t] = Append(stack[t], g)]
        /\ UNCHANGED <<program, result, target>> /\ misuse' = misuse
        /\ mode' = mode /\ UNCHANGED <<queue, io, caller>> /\ detached' = detached
    BY <1>1, <1>2 DEF Resume, Becomes, Resumes, promises, waiting, sync
  <1>4. /\ mode'[t] = "run" /\ mode'[t] \notin Ends /\ stack'[t] = Append(stack[t], g)
        /\ \A u \in Threads : u # t => stack'[u] = stack[u] /\ mode'[u] = mode[u]
    BY <1>1, <1>3 DEF Ends, TInv, TypeOK
  <1>5. state'[g] = "running" /\ \A f \in Frames : state'[f] # state[f] => f = g
    BY <1>2, <1>3
  <1>6. \A f \in Coros : Pending(f)' => Pending(f)
    BY <1>3, <1>4, PendingKeeps
  <1>7. \A f \in Frames : Parked(f)' => Parked(f)
    BY <1>3, <1>6 DEF Parked
  <1>8. \A f \in Frames : Held(f)' => Held(f) \/ state'[f] = "running"
    <2> SUFFICES ASSUME NEW f \in Frames, Held(f)', f # g PROVE Held(f)
      BY <1>5
    <2>1. PICK u \in Threads : \E i \in 1 .. Len(stack'[u]) :
              stack'[u][i] = f /\ (i < Len(stack'[u]) \/ mode'[u] \in {"run", "dropping"})
      BY DEF Held
    <2>2. CASE u # t
      BY <1>4, <2>1, <2>2 DEF Held
    <2>3. CASE u = t
      <3>1. stack[t] \in Seq(Frames)
        BY DEF TInv, TypeOK
      <3>2. \E i \in 1 .. Len(stack[t]) : stack[t][i] = f
        BY <1>4, <2>1, <2>3, <3>1
      <3> QED  BY <1>1, <3>2 DEF Held
    <2> QED  BY <2>2, <2>3
  <1>9. ~ NotStarted(g)'
    BY <1>1, <1>3, Started
  <1>10. \A f \in Frames : state'[f] # state[f] =>
             /\ state'[f] # "none"
             /\ Held(f)' => state'[f] = "running"
             /\ Parked(f)' => state'[f] = "suspended"
             /\ \A u \in Threads : mode[u] \in Finishing => Top(u) # f
             /\ f \in Coros =>
                   \/ state'[f] = "initial"
                   \/ state[f] \notin {"none", "initial"}
                   \/ ~ NotStarted(f)'
    <2>1. ~ Parked(g)'
      BY <1>2, <1>7, Idle
    <2>2. \A u \in Threads : mode[u] \in Finishing => Top(u) # g
      BY <1>2 DEF AInv, FinalAtEnd
    <2> QED  BY <1>5, <1>9, <2>1, <2>2
  <1>11. /\ "resume" # "make" /\ "resume" \notin {"read", "block", "sleep"}
         /\ detached \subseteq detached'
         /\ \A f \in Coros : f \in detached' \/ state'[f] = "destroyed" =>
               f \in detached \/ state[f] = "destroyed"
    BY <1>3, <1>5 DEF Frames
  <1> QED
    BY <1>1, <1>3, <1>4, <1>7, <1>8, <1>10, <1>11, OperationAlive

LEMMA AwaitAlive ==
    ASSUME TInv, AInv, TInv', StartedOnce(program), Owned(program),
           NEW t \in Threads, NEW g \in Coros, Await(t, g)
    PROVE  AInv'
  <1> SUFFICES ASSUME NEW c, c = Running(t) PROVE AInv'
    OBVIOUS
  <1>1. /\ ~ Done(g) /\ mode[t] = "run" /\ mode[t] # "notifying" /\ Doing(t, "await", g)
    BY NotDone DEF Await
  <1>2. /\ state[g] = "initial" /\ g \in Frames /\ state \in [Frames -> States]
        /\ result[g] = None
    BY <1>1, StartedNew, Starting DEF Frames, TInv, TypeOK, Fresh
  <1>3. stack[t] # <<>> /\ c \in Frames /\ c = Top(t) /\ state[c] = "running"
    <2>1. stack[t] # <<>> /\ c \in Frames
      BY <1>1, Doers DEF TInv
    <2>2. c = Top(t) /\ Len(stack[t]) \in 1 .. Len(stack[t]) /\ stack[t][Len(stack[t])] = c
      BY <1>1, <2>1, Runs DEF TInv, Top
    <2>3. Held(c)
      BY <1>1, <2>2 DEF Held
    <2> QED  BY <2>1, <2>2, <2>3 DEF AInv, HeldRun
  <1>4. /\ Goes(t) /\ state' = [state EXCEPT ![c] = "suspended", ![g] = "running"]
        /\ stack' = [stack EXCEPT ![t] = Append(Below(t), g)]
        /\ caller' = [caller EXCEPT ![g] = c]
        /\ UNCHANGED <<program, result, target>> /\ misuse' = misuse
        /\ mode' = mode /\ UNCHANGED <<queue, io>> /\ detached' = detached
    BY <1>1, <1>2 DEF Await, Resumes, Noted, waiting, sync
  <1>5. /\ mode'[t] = "run" /\ mode'[t] \notin Ends /\ stack'[t] = Append(Below(t), g)
        /\ \A u \in Threads : u # t => stack'[u] = stack[u] /\ mode'[u] = mode[u]
    BY <1>1, <1>4 DEF Ends, TInv, TypeOK
  <1>6. /\ state'[g] = "running" /\ state'[c] = "suspended"
        /\ \A f \in Frames : state'[f] # state[f] => f = g \/ f = c
    BY <1>2, <1>3, <1>4
  <1>7. \A f \in Coros : Pending(f)' => Pending(f)
    BY <1>4, <1>5, PendingKeeps
  <1>8. caller'[g] = c /\ \A h \in Coros : h # g => caller'[h] = caller[h]
    BY <1>2, <1>4 DEF TInv, TypeOK, Frames
  <1>9. \A f \in Frames : Parked(f)' => Parked(f) \/ f = c
    BY <1>4, <1>7, <1>8 DEF Parked
  <1>10. Parked(c)'
    <2>1. Pending(g)'
      BY <1>2, <1>4 DEF Pending
    <2> QED  BY <1>8, <2>1 DEF Parked
  <1>11. ~ Held(c)'
    BY <1>3, <1>10, Exclusive
  <1>12. \A f \in Frames : Held(f)' => Held(f) \/ state'[f] = "running"
    BY <1>3, <1>5, <1>6, HeldKeeps DEF TInv
  <1>13. ~ NotStarted(g)'
    BY <1>1, <1>4, Started
  <1>14. \A f \in Frames : state'[f] # state[f] =>
             /\ state'[f] # "none"
             /\ Held(f)' => state'[f] = "running"
             /\ Parked(f)' => state'[f] = "suspended"
             /\ \A u \in Threads : mode[u] \in Finishing => Top(u) # f
             /\ f \in Coros =>
                   \/ state'[f] = "initial"
                   \/ state[f] \notin {"none", "initial"}
                   \/ ~ NotStarted(f)'
    <2>1. g # c /\ ~ Parked(g)'
      BY <1>2, <1>3, <1>9, Idle
    <2>2. \A u \in Threads : mode[u] \in Finishing => Top(u) # g /\ Top(u) # c
      BY <1>2, <1>3 DEF AInv, FinalAtEnd
    <2> QED  BY <1>3, <1>6, <1>11, <1>13, <2>1, <2>2
  <1>15. /\ "await" # "make" /\ "await" \notin {"read", "block", "sleep"}
         /\ detached \subseteq detached'
         /\ \A f \in Frames : Parked(f)' => Parked(f) \/ state'[f] = "suspended"
         /\ \A f \in Coros : f \in detached' \/ state'[f] = "destroyed" =>
               f \in detached \/ state[f] = "destroyed"
    BY <1>4, <1>6, <1>9 DEF Frames
  <1> QED
    BY <1>1, <1>4, <1>5, <1>12, <1>14, <1>15, OperationAlive

LEMMA SuspendAlive ==
    ASSUME TInv, AInv, TInv', NEW t \in Threads, Io(t) \/ Schedule(t)
    PROVE  AInv'
  <1> SUFFICES ASSUME NEW c, c = Top(t) PROVE AInv'
    OBVIOUS
  <1>0. PICK op \in {"io", "schedule"} : Does(t, op, None)
    BY DEF Io, Schedule
  <1>1. mode[t] = "run" /\ mode[t] # "notifying" /\ Doing(t, op, None)
    BY <1>0, DoesIt DEF TInv
  <1>2. stack[t] # <<>> /\ c \in Frames /\ state[c] = "running" /\ state \in [Frames -> States]
    <2>1. stack[t] # <<>>
      BY <1>1, Doers DEF TInv
    <2>2. c \in Frames /\ Len(stack[t]) \in 1 .. Len(stack[t]) /\ stack[t][Len(stack[t])] = c
      BY <1>1, <2>1, Runs DEF TInv, Top
    <2>3. Held(c)
      BY <1>1, <2>2 DEF Held
    <2> QED  BY <2>1, <2>2, <2>3 DEF AInv, HeldRun, TInv, TypeOK
  <1>3. /\ Goes(t) /\ state' = [state EXCEPT ![c] = "suspended"]
        /\ stack' = [stack EXCEPT ![t] = Below(t)]
        /\ UNCHANGED <<program, result, target>> /\ misuse' = misuse
        /\ mode' = mode /\ caller' = caller /\ detached' = detached
        /\ \/ queue' = queue /\ io' = [io EXCEPT ![t] = io[t] \cup {c}]
           \/ queue' = Append(queue, c) /\ io' = io
    BY DEF Io, Schedule, Suspend, Becomes, promises, sync, ghosts
  <1>4. /\ mode'[t] = "run" /\ mode'[t] \notin Ends /\ stack'[t] = Below(t)
        /\ \A u \in Threads : u # t => stack'[u] = stack[u] /\ mode'[u] = mode[u]
    BY <1>1, <1>3 DEF Ends, TInv, TypeOK
  <1>5. state'[c] = "suspended" /\ \A f \in Frames : state'[f] # state[f] => f = c
    BY <1>2, <1>3
  <1>6. \A f \in Coros : Pending(f)' => Pending(f)
    BY <1>3, <1>4, PendingKeeps
  <1>7. /\ Parked(c)'
        /\ \A f \in Frames : Parked(f)' => Parked(f) \/ f = c
    <2>1. CASE queue' = queue /\ io' = [io EXCEPT ![t] = io[t] \cup {c}]
      <3>1. c \in io'[t] /\ \A u \in Threads : \A f \in io'[u] : f \in io[u] \/ f = c
        BY <2>1 DEF TInv, TypeOK
      <3> QED  BY <1>3, <1>6, <2>1, <3>1 DEF Parked
    <2>2. CASE queue' = Append(queue, c) /\ io' = io
      <3>1. /\ Len(queue') \in 1 .. Len(queue') /\ queue'[Len(queue')] = c
            /\ \A i \in 1 .. Len(queue') :
                  queue'[i] = c \/ (i \in 1 .. Len(queue) /\ queue'[i] = queue[i])
        BY <2>2 DEF TInv, TypeOK
      <3> QED  BY <1>3, <1>6, <2>2, <3>1 DEF Parked
    <2> QED  BY <1>3, <2>1, <2>2
  <1>8. ~ Held(c)'
    BY <1>2, <1>7, Exclusive
  <1>9. \A f \in Frames : Held(f)' => Held(f) \/ state'[f] = "running"
    BY <1>2, <1>4, HeldKeeps DEF TInv
  <1>10. \A f \in Frames : state'[f] # state[f] =>
             /\ state'[f] # "none"
             /\ Held(f)' => state'[f] = "running"
             /\ Parked(f)' => state'[f] = "suspended"
             /\ \A u \in Threads : mode[u] \in Finishing => Top(u) # f
             /\ f \in Coros =>
                   \/ state'[f] = "initial"
                   \/ state[f] \notin {"none", "initial"}
                   \/ ~ NotStarted(f)'
    <2>1. \A u \in Threads : mode[u] \in Finishing => Top(u) # c
      BY <1>2 DEF AInv, FinalAtEnd
    <2> QED  BY <1>2, <1>5, <1>8, <2>1
  <1>11. /\ op # "make" /\ op \notin {"read", "block", "sleep"}
         /\ detached \subseteq detached'
         /\ \A f \in Frames : Parked(f)' => Parked(f) \/ state'[f] = "suspended"
         /\ \A f \in Coros : f \in detached' \/ state'[f] = "destroyed" =>
               f \in detached \/ state[f] = "destroyed"
    BY <1>3, <1>5, <1>7 DEF Frames
  <1> QED
    BY <1>1, <1>3, <1>4, <1>9, <1>10, <1>11, OperationAlive

LEMMA WaitAlive ==
    ASSUME TInv, AInv, TInv', NEW t \in Threads, NEW g \in Coros, Wait(t, g)
    PROVE  AInv'
  <1> SUFFICES ASSUME NEW x, x = Sync(t), NEW op, op = "wait" PROVE AInv'
    OBVIOUS
  <1>1. TypeOK /\ TypeOK' /\ x \in Frames /\ x \notin Coros /\ x \notin Threads
    BY Names DEF TInv
  <1>2. /\ mode[t] = "run" /\ stack[t] = <<>> /\ ~ Present(x)
        /\ \A h \in Coros : caller[h] = x => ~ Pending(h)
        /\ pos'[t] = pos[t] + 1 /\ pos[t] \in Nat
        /\ \A d \in Threads \cup Frames : d # t /\ d # x => pos'[d] = pos[d]
        /\ \A f : NotStarted(f)' => NotStarted(f)
    BY <1>1, WaitGoes
  <1>3. /\ program' = program /\ state' = [state EXCEPT ![x] = "running"]
        /\ stack' = [stack EXCEPT ![t] = <<x>>]
        /\ UNCHANGED <<result, mode, queue, io, caller, detached, misuse>>
    BY DEF Wait, Becomes, promises, waiting, ghosts
  <1>4. Running(t) = t /\ pos[t] \in DOMAIN program[t] /\ program[t][pos[t]] = <<"wait", g>>
    <2>1. Running(t) = t /\ mode[t] # "notifying" /\ Doing(t, "wait", g)
      BY <1>1, WaitGoes
    <2> QED  BY <1>1, <2>1, Operation DEF TInv
  <1>5. ASSUME NEW d \in Threads \cup Coros, NEW i \in DOMAIN program[d]
        PROVE  /\ Past(d, i) => Past(d, i)'
               /\ Past(d, i)' => Past(d, i) \/ program[d][i] = <<"wait", g>>
    <2>1. program[d] \in Seq(Operations) /\ i \in 1 .. Len(program[d])
      BY <1>1, WellWritten
    <2>2. CASE d = t
      BY <1>2, <1>3, <1>4, <2>1, <2>2 DEF Past
    <2>3. CASE d # t
      <3>1. pos'[d] = pos[d]
        BY <1>1, <1>2, <2>3 DEF Frames
      <3> QED  BY <1>3, <3>1 DEF Past
    <2> QED  BY <2>2, <2>3
  <1>6. /\ stack'[t] = <<x>> /\ \A u \in Threads : mode'[u] = mode[u]
        /\ \A u \in Threads : u # t => stack'[u] = stack[u]
    BY <1>1, <1>3 DEF TypeOK
  <1>7. /\ state'[x] = "running" /\ \A f \in Frames : state'[f] # state[f] => f = x
    BY <1>1, <1>3 DEF TypeOK
  <1>8. \A f \in Coros : Pending(f)' => Pending(f)
    <2>1. mode'[t] \notin Ends
      BY <1>2, <1>6 DEF Ends
    <2>2. \A h \in Coros : result'[h] = None => result[h] = None
      BY <1>3
    <2> QED  BY <1>6, <2>1, <2>2, PendingKeeps
  <1>9. \A f \in Frames : Parked(f)' => Parked(f)
    BY <1>3, <1>8 DEF Parked
  <1>10. \A f \in Frames : Held(f)' => Held(f) \/ state'[f] = "running"
    <2> SUFFICES ASSUME NEW f \in Frames, Held(f)', f # x PROVE Held(f)
      BY <1>7
    <2>1. PICK u \in Threads : \E i \in 1 .. Len(stack'[u]) :
              stack'[u][i] = f /\ (i < Len(stack'[u]) \/ mode'[u] \in {"run", "dropping"})
      BY DEF Held
    <2>2. u # t
      BY <1>6, <2>1
    <2> QED  BY <1>6, <2>1, <2>2 DEF Held
  <1>11. ~ Parked(x)
    BY <1>2 DEF Parked, Present, Inside
  <1>12. FinalAtEnd'
    <2> SUFFICES ASSUME NEW u \in Threads, mode'[u] \in Finishing
                 PROVE  \/ state'[Top(u)'] = "final"
                        \/ /\ mode'[u] = "transferring" /\ state'[Top(u)'] = "destroyed"
                           /\ Top(u)' \in detached'
      BY DEF FinalAtEnd
    <2>1. u # t /\ mode[u] \in Finishing /\ mode'[u] = mode[u] /\ Top(u)' = Top(u)
      BY <1>2, <1>6 DEF Finishing, Ends, Top
    <2>2. Top(u) \in Frames /\ Present(Top(u))
      <3>1. mode[u] \notin {"run", "dropping", "notifying"}
        BY <2>1 DEF Finishing, Ends
      <3> QED  BY <1>1, <3>1, Runs DEF TypeOK
    <2>3. state'[Top(u)] = state[Top(u)]
      BY <1>2, <1>7, <2>2
    <2> QED  BY <1>3, <2>1, <2>3 DEF AInv, FinalAtEnd
  <1>13. \A f \in Frames : state'[f] # state[f] =>
             /\ state'[f] # "none"
             /\ Held(f)' => state'[f] = "running"
             /\ Parked(f)' => state'[f] = "suspended"
             /\ f \in Coros =>
                   \/ state'[f] = "initial"
                   \/ state[f] \notin {"none", "initial"}
                   \/ ~ NotStarted(f)'
    BY <1>1, <1>7, <1>9, <1>11
  <1>14. \A d \in Threads \cup Coros : \A i \in DOMAIN program[d] :
             /\ Past(d, i) => Past(d, i)'
             /\ Past(d, i)' => Past(d, i) \/ program[d][i] = <<op, g>>
    BY <1>5
  <1>15. \A h \in Coros : h \in detached' \/ state'[h] = "destroyed" =>
             \/ h \in detached \/ state[h] = "destroyed"
             \/ \E d \in Threads \cup Coros : \E i \in DOMAIN program[d] :
                   Past(d, i)' /\ program[d][i] \in {"detach", "drop"} \X {h}
    BY <1>1, <1>3, <1>7 DEF Frames
  <1>16. \A m \in misuse' :
             m \in misuse \/ m \in ({"caller"} \X detached') \cup ({"notify"} \X Syncs)
    BY <1>3
  <1>17. /\ detached \subseteq detached'
         /\ op = "make" /\ g \in Coros => state'[g] # "none"
         /\ op \in {"read", "block", "sleep"} /\ g \in Coros => ~ Pending(g)
    BY <1>3
  <1>18. \A f \in Frames : Parked(f)' => Parked(f) \/ state'[f] = "suspended"
    BY <1>9
  <1>19. \A h \in Coros : NotStarted(h)' => NotStarted(h)
    BY <1>2
  <1>20. program' = program
    BY <1>3
  <1> QED
    BY <1>1, <1>8, <1>10, <1>12, <1>13, <1>14, <1>15, <1>16, <1>17, <1>18, <1>19, <1>20,
       AliveKeeps

LEMMA ResumedAlive ==
    ASSUME TInv, AInv, TInv', NEW t \in Threads, NEW f \in Frames,
           ResumeHandle(t, f), Parked(f),
           \A i \in 1 .. Len(queue') : \E j \in 1 .. Len(queue) : queue'[i] = queue[j],
           \A u \in Threads : io'[u] \subseteq io[u]
    PROVE  AInv'
  <1>1. state[f] = "suspended" /\ state \in [Frames -> States]
    BY DEF AInv, ParkedSuspended, TInv, TypeOK
  <1>2. /\ stack[t] = <<>> /\ mode[t] = "run"
        /\ state' = [state EXCEPT ![f] = "running"]
        /\ stack' = [stack EXCEPT ![t] = <<f>>]
        /\ UNCHANGED <<program, pos, detached, caller, result, mode, misuse>>
    BY <1>1 DEF ResumeHandle, AtEnd, Becomes, Resumes, promises
  <1>3. /\ stack'[t] = <<f>> /\ mode'[t] = "run"
        /\ \A u \in Threads : u # t => stack'[u] = stack[u] /\ mode'[u] = mode[u]
    BY <1>2 DEF TInv, TypeOK
  <1>4. state'[f] = "running" /\ \A h \in Frames : state'[h] # state[h] => h = f
    BY <1>1, <1>2
  <1>5. ~ Parked(f)'
    <2>1. 1 \in 1 .. Len(stack'[t]) /\ stack'[t][1] = f
      BY <1>3
    <2>2. Held(f)'
      BY <1>3, <2>1 DEF Held
    <2> QED  BY <2>2, Exclusive
  <1>6. \A h \in Coros : Pending(h)' => Pending(h)
    BY <1>2, <1>3, PendingKeeps DEF Ends
  <1>7. \A h \in Frames : Parked(h)' => Parked(h)
    BY <1>2, <1>6 DEF Parked
  <1>8. \A h \in Frames : Held(h)' => Held(h) \/ state'[h] = "running"
    <2> SUFFICES ASSUME NEW h \in Frames, Held(h)', h # f PROVE Held(h)
      BY <1>4
    <2>1. PICK u \in Threads : \E i \in 1 .. Len(stack'[u]) :
              stack'[u][i] = h /\ (i < Len(stack'[u]) \/ mode'[u] \in {"run", "dropping"})
      BY DEF Held
    <2>2. u # t
      BY <1>3, <2>1
    <2> QED  BY <1>3, <2>1, <2>2 DEF Held
  <1>9. \A h \in Frames : state'[h] # state[h] =>
            /\ state[h] \notin {"none", "initial"} /\ state'[h] # "none"
            /\ Held(h)' => state'[h] = "running"
            /\ Parked(h)' => state'[h] = "suspended"
            /\ \A u \in Threads : u # t /\ mode[u] \in Finishing => Top(u) # h
            /\ state'[h] = "destroyed" => h \in detached
    <2>1. \A u \in Threads : mode[u] \in Finishing => Top(u) # f
      BY <1>1 DEF AInv, FinalAtEnd
    <2> QED  BY <1>1, <1>4, <1>5, <2>1
  <1>10. mode'[t] \in Finishing =>
             \/ state'[Top(t)'] = "final"
             \/ /\ mode'[t] = "transferring" /\ state'[Top(t)'] = "destroyed"
                /\ Top(t)' \in detached
    BY <1>3 DEF Finishing, Ends
  <1>11. /\ \A m \in misuse' :
               m \in misuse \/ m \in ({"caller"} \X detached) \cup ({"notify"} \X Syncs)
         /\ UNCHANGED <<program, pos, detached>>
    BY <1>2
  <1> QED  BY <1>3, <1>6, <1>7, <1>8, <1>9, <1>10, <1>11, StandingAlive

LEMMA HandleAlive ==
    ASSUME TInv, AInv, TInv', NEW t \in Threads, Completion(t) \/ Dequeue(t)
    PROVE  AInv'
  <1>1. CASE Completion(t)
    <2>1. PICK f \in io[t] : ResumeHandle(t, f) /\ io' = [io EXCEPT ![t] = io[t] \ {f}]
                             /\ queue' = queue
      BY <1>1 DEF Completion
    <2>2. f \in Frames /\ \A u \in Threads : io'[u] \subseteq io[u]
      BY <2>1 DEF TInv, TypeOK
    <2>3. Parked(f) /\ \A i \in 1 .. Len(queue') : \E j \in 1 .. Len(queue) : queue'[i] = queue[j]
      BY <2>1 DEF Parked
    <2> QED  BY <2>1, <2>2, <2>3, ResumedAlive
  <1>2. CASE Dequeue(t)
    <2>1. /\ queue \in Seq(Frames) /\ queue # <<>> /\ ResumeHandle(t, Head(queue))
          /\ queue' = Tail(queue) /\ io' = io
      BY <1>2 DEF Dequeue, TInv, TypeOK
    <2>2. Head(queue) \in Frames /\ 1 \in 1 .. Len(queue) /\ queue[1] = Head(queue)
      BY <2>1
    <2>3. \A i \in 1 .. Len(queue') : i + 1 \in 1 .. Len(queue) /\ queue'[i] = queue[i + 1]
      BY <2>1
    <2>4. Parked(Head(queue))
      BY <2>2 DEF Parked
    <2>5. /\ \A i \in 1 .. Len(queue') : \E j \in 1 .. Len(queue) : queue'[i] = queue[j]
          /\ \A u \in Threads : io'[u] \subseteq io[u]
      BY <2>1, <2>3
    <2> QED  BY <2>1, <2>2, <2>4, <2>5, ResumedAlive
  <1> QED  BY <1>1, <1>2

(* The end of a coroutine *)

LEMMA ReturnAlive ==
    ASSUME TInv, AInv, TInv', NEW t \in Threads, Return(t)
    PROVE  AInv'
  <1> SUFFICES ASSUME NEW c, c = Top(t) PROVE AInv'
    OBVIOUS
  <1>1. stack[t] # <<>> /\ mode[t] = "run" /\ mode[t] # "notifying"
    BY DEF Return, AtEnd
  <1>2. /\ c \in Frames /\ state[c] = "running" /\ TypeOK
        /\ Len(stack[t]) \in 1 .. Len(stack[t]) /\ stack[t][Len(stack[t])] = c
    <2>1. /\ c \in Frames /\ TypeOK
          /\ Len(stack[t]) \in 1 .. Len(stack[t]) /\ stack[t][Len(stack[t])] = c
      BY <1>1, Runs DEF TInv, Top
    <2>2. Held(c)
      BY <1>1, <2>1 DEF Held
    <2> QED  BY <2>1, <2>2 DEF AInv, HeldRun
  <1>3. /\ result' = [result EXCEPT ![c] = Value(c)]
        /\ state' = [state EXCEPT ![c] = "final"]
        /\ mode' = [mode EXCEPT ![t] = IF c \in Syncs THEN "setting" ELSE "testing"]
        /\ UNCHANGED <<program, pos, detached, caller, stack, queue, io, misuse>>
    BY DEF Return, Becomes, Enters, waiting, ghosts
  <1>4. /\ mode'[t] \notin {"run", "dropping"}
        /\ \A u \in Threads : u # t => stack'[u] = stack[u] /\ mode'[u] = mode[u]
    BY <1>2, <1>3 DEF TypeOK
  <1>5. state'[c] = "final" /\ \A h \in Frames : state'[h] # state[h] => h = c
    BY <1>2, <1>3 DEF TypeOK
  <1>6. \A h \in Coros : Pending(h)' => Pending(h)
    <2>1. \A h \in Coros : result'[h] = None => result[h] = None
      BY <1>2, <1>3, Names DEF TypeOK, Value, Frames
    <2>2. stack'[t] = stack[t]
      BY <1>3
    <2> QED  BY <1>1, <1>4, <2>1, <2>2, PendingKeeps
  <1>7. \A h \in Frames : Parked(h)' => Parked(h)
    BY <1>3, <1>6 DEF Parked
  <1>8. \A h \in Frames : Held(h)' => Held(h) /\ h # c
    <2> SUFFICES ASSUME NEW h \in Frames, Held(h)' PROVE Held(h) /\ h # c
      OBVIOUS
    <2>1. PICK u \in Threads : \E i \in 1 .. Len(stack[u]) :
              stack[u][i] = h /\ (i < Len(stack[u]) \/ mode'[u] \in {"run", "dropping"})
      BY <1>3 DEF Held
    <2>2. PICK i \in 1 .. Len(stack[u]) :
              stack[u][i] = h /\ (i < Len(stack[u]) \/ mode'[u] \in {"run", "dropping"})
      BY <2>1
    <2>3. i < Len(stack[u]) \/ (u # t /\ mode[u] \in {"run", "dropping"})
      BY <1>4, <2>2
    <2>4. Held(h)
      BY <2>2, <2>3 DEF Held
    <2>5. /\ i \in 1 .. Len(Live[u]) /\ Live[u][i] = h
          /\ Len(stack[t]) \in 1 .. Len(Live[t]) /\ Live[t][Len(stack[t])] = c
      BY <1>1, <1>2, <2>2, <2>3, LivePlace
    <2>6. ASSUME h = c PROVE FALSE
      <3>1. u = t /\ i = Len(stack[t])
        BY <1>2, <2>5, <2>6 DEF TInv, OnlyOnce, Alone
      <3> QED  BY <1>2, <2>3, <3>1
    <2> QED  BY <2>4, <2>6
  <1>9. \A h \in Frames : state'[h] # state[h] =>
            /\ state[h] \notin {"none", "initial"} /\ state'[h] # "none"
            /\ Held(h)' => state'[h] = "running"
            /\ Parked(h)' => state'[h] = "suspended"
            /\ \A u \in Threads : u # t /\ mode[u] \in Finishing => Top(u) # h
            /\ state'[h] = "destroyed" => h \in detached
    <2>1. \A u \in Threads : mode[u] \in Finishing => Top(u) # c
      BY <1>2 DEF AInv, FinalAtEnd
    <2>2. ~ Parked(c)'
      BY <1>2, <1>7 DEF AInv, ParkedSuspended
    <2> QED  BY <1>2, <1>5, <1>8, <2>1, <2>2
  <1>10. mode'[t] \in Finishing =>
             \/ state'[Top(t)'] = "final"
             \/ /\ mode'[t] = "transferring" /\ state'[Top(t)'] = "destroyed"
                /\ Top(t)' \in detached
    BY <1>3, <1>5 DEF Top
  <1>11. /\ \A m \in misuse' :
               m \in misuse \/ m \in ({"caller"} \X detached) \cup ({"notify"} \X Syncs)
         /\ UNCHANGED <<program, pos, detached>>
         /\ \A h \in Frames : Held(h)' => Held(h) \/ state'[h] = "running"
    BY <1>3, <1>8
  <1> QED  BY <1>4, <1>6, <1>7, <1>9, <1>10, <1>11, StandingAlive

LEMMA TestFlagAlive ==
    ASSUME TInv, AInv, TInv', NEW t \in Threads, TestFlag(t)
    PROVE  AInv'
  <1> SUFFICES ASSUME NEW c, c = Top(t) PROVE AInv'
    OBVIOUS
  <1>1. stack[t] # <<>> /\ mode[t] = "testing" /\ mode[t] # "notifying"
    BY DEF TestFlag, TInv, TypeOK
  <1>2. c \in Frames /\ Running(t) = c /\ state[c] = "final" /\ state \in [Frames -> States]
    <2>1. c \in Frames /\ Running(t) = c
      BY <1>1, Runs DEF TInv
    <2>2. state[c] = "final"
      BY <1>1 DEF AInv, FinalAtEnd, Finishing, Ends
    <2> QED  BY <2>1, <2>2 DEF TInv, TypeOK
  <1>3. /\ \/ state' = [state EXCEPT ![c] = "destroyed"] /\ c \in detached
           \/ state' = state
        /\ mode' = [mode EXCEPT ![t] = "transferring"]
        /\ UNCHANGED <<program, pos, detached, caller, result, stack, queue, io, misuse>>
    BY <1>2 DEF TestFlag, Destroys, Uses, Becomes, Enters, promises, waiting
  <1>4. /\ mode'[t] = "transferring" /\ stack'[t] = stack[t]
        /\ \A u \in Threads : u # t => stack'[u] = stack[u] /\ mode'[u] = mode[u]
    BY <1>3 DEF TInv, TypeOK
  <1>5. /\ \A h \in Frames : state'[h] # state[h] =>
              h = c /\ state'[h] = "destroyed" /\ c \in detached
        /\ state'[c] = "final" \/ (state'[c] = "destroyed" /\ c \in detached)
    BY <1>2, <1>3
  <1>6. \A h \in Coros : Pending(h)' => Pending(h)
    <2>1. \A h \in Coros : result'[h] = None => result[h] = None
      BY <1>3
    <2> QED  BY <1>1, <1>4, <2>1, PendingKeeps
  <1>7. \A h \in Frames : Parked(h)' => Parked(h)
    BY <1>3, <1>6 DEF Parked
  <1>8. \A h \in Frames : Held(h)' => Held(h)
    <2>1. \A u \in Threads : mode'[u] \in {"run", "dropping"} => mode[u] = mode'[u]
      BY <1>4
    <2>2. stack' = stack
      BY <1>3
    <2> QED  BY <2>1, <2>2 DEF Held
  <1>9. \A h \in Frames : state'[h] # state[h] =>
            /\ state[h] \notin {"none", "initial"} /\ state'[h] # "none"
            /\ Held(h)' => state'[h] = "running"
            /\ Parked(h)' => state'[h] = "suspended"
            /\ \A u \in Threads : u # t /\ mode[u] \in Finishing => Top(u) # h
            /\ state'[h] = "destroyed" => h \in detached
    <2>1. ASSUME NEW u \in Threads, u # t, mode[u] \in Finishing, Top(u) = c
          PROVE  FALSE
      <3>1. mode[u] # "notifying" /\ stack[u] # <<>>
        BY <2>1 DEF Finishing, Ends, TInv, TypeOK
      <3>2. Running(u) = c
        BY <2>1, <3>1, Runs DEF TInv
      <3> QED  BY <1>1, <1>2, <2>1, <3>1, <3>2, Apart DEF TInv
    <2>2. ~ Held(c)' /\ ~ Parked(c)'
      BY <1>2, <1>7, <1>8, Idle
    <2> QED  BY <1>2, <1>5, <2>1, <2>2
  <1>10. mode'[t] \in Finishing =>
             \/ state'[Top(t)'] = "final"
             \/ /\ mode'[t] = "transferring" /\ state'[Top(t)'] = "destroyed"
                /\ Top(t)' \in detached
    BY <1>3, <1>4, <1>5 DEF Top
  <1>11. /\ \A m \in misuse' :
               m \in misuse \/ m \in ({"caller"} \X detached) \cup ({"notify"} \X Syncs)
         /\ UNCHANGED <<program, pos, detached>>
         /\ \A h \in Frames : Held(h)' => Held(h) \/ state'[h] = "running"
    BY <1>3, <1>8
  <1> QED  BY <1>4, <1>6, <1>7, <1>9, <1>10, <1>11, StandingAlive

LEMMA TransferAlive ==
    ASSUME TInv, AInv, TInv', NEW t \in Threads, Transfer(t)
    PROVE  AInv'
  <1> SUFFICES ASSUME NEW c, c = Top(t), NEW d, d = caller[c] PROVE AInv'
    OBVIOUS
  <1>1. /\ stack[t] # <<>> /\ mode[t] = "transferring" /\ mode[t] # "notifying"
        /\ mode[t] \in Finishing /\ mode[t] \in Ends
    BY DEF Transfer, TInv, TypeOK, Finishing, Ends
  <1>2. c \in Coros /\ c \in Frames /\ state \in [Frames -> States] /\ stack[t] \in Seq(Frames)
    BY <1>1, Runs DEF TInv, TypeOK, Endings
  <1>3. Pending(c)
    BY <1>1 DEF Pending, Ending
  <1>4. state[c] = "destroyed" => c \in detached
    BY <1>1 DEF AInv, FinalAtEnd
  <1>5. d # None => d \in Frames /\ Parked(d) /\ state[d] = "suspended"
    BY <1>2, <1>3 DEF Parked, AInv, ParkedSuspended, TInv, TypeOK
  <1>6. /\ \/ d = None /\ state' = state /\ stack' = [stack EXCEPT ![t] = Below(t)]
           \/ /\ d # None /\ state' = [state EXCEPT ![d] = "running"]
              /\ stack' = [stack EXCEPT ![t] = Append(Below(t), d)]
        /\ mode' = [mode EXCEPT ![t] = "run"]
        /\ UNCHANGED <<program, pos, detached, caller, result, queue, io>>
        /\ \A m \in misuse' : m \in misuse \/ (state[c] = "destroyed" /\ m = <<"caller", c>>)
    BY <1>5 DEF Transfer, Enters, Becomes, Uses, promises, waiting
  <1>7. /\ mode'[t] = "run"
        /\ \A u \in Threads : u # t => stack'[u] = stack[u] /\ mode'[u] = mode[u]
        /\ stack'[t] = Below(t) \/ (stack'[t] = Append(Below(t), d) /\ d # None)
    BY <1>6 DEF TInv, TypeOK
  <1>8. /\ \A h \in Frames : state'[h] # state[h] => h = d /\ d # None
        /\ d # None => state'[d] = "running"
    BY <1>2, <1>5, <1>6
  <1>9. \A h \in Coros : Pending(h)' => Pending(h)
    <2>1. mode'[t] \notin Ends /\ \A h \in Coros : result'[h] = None => result[h] = None
      BY <1>6, <1>7 DEF Ends
    <2> QED  BY <1>7, <2>1, PendingKeeps
  <1>10. \A h \in Frames : Parked(h)' => Parked(h)
    BY <1>6, <1>9 DEF Parked
  <1>11. \A h \in Frames : Held(h)' => Held(h) \/ state'[h] = "running"
    <2>1. stack'[t] = Below(t) \/ (stack'[t] = Append(Below(t), d) /\ state'[d] = "running")
      BY <1>7, <1>8
    <2> QED  BY <1>1, <1>7, <2>1, HeldKeeps DEF TInv
  <1>12. d # None => ~ Parked(d)'
    <2> SUFFICES ASSUME d # None PROVE ~ Parked(d)'
      OBVIOUS
    <2>1. stack'[t] = Append(Below(t), d) /\ Below(t) \in Seq(Frames) /\ d \in Frames
      BY <1>1, <1>2, <1>5, <1>6, Front DEF Below, TInv, TypeOK
    <2>2. Len(stack'[t]) \in 1 .. Len(stack'[t]) /\ stack'[t][Len(stack'[t])] = d
      BY <2>1
    <2>3. Held(d)'
      BY <1>7, <2>2 DEF Held
    <2> QED  BY <2>1, <2>3, Exclusive
  <1>13. \A h \in Frames : state'[h] # state[h] =>
             /\ state[h] \notin {"none", "initial"} /\ state'[h] # "none"
             /\ Held(h)' => state'[h] = "running"
             /\ Parked(h)' => state'[h] = "suspended"
             /\ \A u \in Threads : u # t /\ mode[u] \in Finishing => Top(u) # h
             /\ state'[h] = "destroyed" => h \in detached
    <2>1. d # None => \A u \in Threads : mode[u] \in Finishing => Top(u) # d
      BY <1>5 DEF AInv, FinalAtEnd
    <2> QED  BY <1>5, <1>8, <1>12, <2>1
  <1>14. mode'[t] \in Finishing =>
             \/ state'[Top(t)'] = "final"
             \/ /\ mode'[t] = "transferring" /\ state'[Top(t)'] = "destroyed"
                /\ Top(t)' \in detached
    BY <1>7 DEF Finishing, Ends
  <1>15. /\ \A m \in misuse' :
               m \in misuse \/ m \in ({"caller"} \X detached) \cup ({"notify"} \X Syncs)
         /\ UNCHANGED <<program, pos, detached>>
    BY <1>4, <1>6
  <1> QED  BY <1>7, <1>9, <1>10, <1>11, <1>13, <1>14, <1>15, StandingAlive

(* Steps that change no frame, and leave every stack or take its last      *)
(* frame away.                                                             *)
LEMMA SameFramesAlive ==
    ASSUME TInv, AInv, TInv', NEW t \in Threads,
           UNCHANGED <<program, pos, state, detached, caller, result, queue, io>>,
           \A u \in Threads : u # t => stack'[u] = stack[u] /\ mode'[u] = mode[u],
           mode[t] \notin Ends, mode'[t] \notin Finishing,
           \A f \in Frames : Held(f)' => Held(f),
           \A m \in misuse' : m \in misuse \/ m \in {"notify"} \X Syncs
    PROVE  AInv'
  <1>1. \A h \in Coros : Pending(h)' => Pending(h)
    <2>1. \A h : Ending(h)' => Ending(h)
      BY DEF Ending, Top, Finishing
    <2> QED  BY <2>1 DEF Pending
  <1>2. \A h \in Frames : Parked(h)' => Parked(h)
    BY <1>1 DEF Parked
  <1>3. \A h \in Frames : state'[h] = state[h]
    OBVIOUS
  <1>4. /\ \A m \in misuse' :
              m \in misuse \/ m \in ({"caller"} \X detached) \cup ({"notify"} \X Syncs)
        /\ UNCHANGED <<program, pos, detached>>
    OBVIOUS
  <1> QED  BY <1>1, <1>2, <1>3, <1>4, StandingAlive

LEMMA SyncAlive ==
    ASSUME TInv, AInv, TInv', NEW t \in Threads, SetFlag(t) \/ Notify(t)
    PROVE  AInv'
  <1> SUFFICES ASSUME NEW c, c = Top(t) PROVE AInv'
    OBVIOUS
  <1>1. stack[t] # <<>> /\ mode[t] \in {"setting", "notifying"} /\ mode[t] \notin Ends
    BY DEF SetFlag, Notify, TInv, TypeOK, Ends
  <1>2. c \in Frames /\ c \in Syncs
    <2>1. stack[t] \in Seq(Frames)
      BY DEF TInv, TypeOK
    <2>2. c \in Frames
      BY <1>1, <2>1 DEF Top
    <2> QED  BY <1>1, <2>2 DEF TInv, Endings
  <1>3. UNCHANGED <<program, pos, state, detached, caller, result, queue, io>>
    BY DEF SetFlag, Notify, promises, waiting
  <1>4. \/ mode' = [mode EXCEPT ![t] = "notifying"] /\ stack' = stack
        \/ mode' = [mode EXCEPT ![t] = "run"] /\ stack' = [stack EXCEPT ![t] = Below(t)]
    BY DEF SetFlag, Notify, Enters
  <1>5. /\ \A u \in Threads : u # t => stack'[u] = stack[u] /\ mode'[u] = mode[u]
        /\ \/ mode'[t] = "notifying" /\ stack'[t] = stack[t]
           \/ mode'[t] = "run" /\ stack'[t] = Below(t)
        /\ mode'[t] \notin Finishing
    BY <1>4 DEF TInv, TypeOK, Finishing, Ends
  <1>6. \A m \in misuse' : m \in misuse \/ m \in {"notify"} \X Syncs
    <2>1. CASE SetFlag(t)
      <3>1. mode[t] = "setting" /\ Uses("flag", c)
        BY <2>1 DEF SetFlag
      <3>2. state[c] = "final"
        BY <3>1 DEF AInv, FinalAtEnd, Finishing
      <3> QED  BY <3>1, <3>2 DEF Uses
    <2>2. CASE Notify(t)
      BY <1>2, <2>2 DEF Notify, Uses
    <2> QED  BY <2>1, <2>2
  <1>7. \A f \in Frames : Held(f)' => Held(f)
    <2> SUFFICES ASSUME NEW f \in Frames, Held(f)' PROVE Held(f)
      OBVIOUS
    <2>1. PICK u \in Threads : \E i \in 1 .. Len(stack'[u]) :
              stack'[u][i] = f /\ (i < Len(stack'[u]) \/ mode'[u] \in {"run", "dropping"})
      BY DEF Held
    <2>2. CASE u # t
      BY <1>5, <2>1, <2>2 DEF Held
    <2>3. CASE u = t /\ mode'[t] = "notifying" /\ stack'[t] = stack[t]
      BY <2>1, <2>3 DEF Held
    <2>4. CASE u = t /\ stack'[t] = Below(t)
      <3>1. /\ Len(stack[t]) \in Nat /\ Len(Below(t)) = Len(stack[t]) - 1
            /\ \A j \in 1 .. Len(Below(t)) : Below(t)[j] = stack[t][j]
        BY <1>1, Belows DEF TInv
      <3>2. \E i \in 1 .. Len(stack[t]) : stack[t][i] = f /\ i < Len(stack[t])
        BY <2>1, <2>4, <3>1
      <3> QED  BY <3>2 DEF Held
    <2> QED  BY <1>5, <2>2, <2>3, <2>4
  <1> QED  BY <1>1, <1>3, <1>5, <1>6, <1>7, SameFramesAlive

(* ~task, when the coroutine has not ended, and wait(false) that sleeps. *)
LEMMA EnterAlive ==
    ASSUME TInv, AInv, TInv', Owned(program), NEW t \in Threads, NEW g \in Coros,
           (Drop(t, g) /\ ~ Done(g)) \/ (Block(t, g) /\ asleep' # asleep)
    PROVE  AInv'
  <1>1. /\ mode[t] = "run" /\ mode[t] \notin Ends
        /\ mode' = mode \/ mode' = [mode EXCEPT ![t] = "dropping"]
        /\ UNCHANGED <<program, pos, state, detached, caller, result, queue, io>>
        /\ stack' = stack
    BY DEF Drop, Block, Does, Enters, promises, threads, waiting, Ends
  <1>2. misuse' = misuse
    <2>1. CASE Block(t, g)
      BY <2>1 DEF Block
    <2>2. CASE Drop(t, g)
      <3>1. "drop" # "await" /\ LetGo /\ mode[t] # "notifying" /\ Doing(t, "drop", g)
        BY <2>2, DoesIt DEF Drop, AInv, TInv
      <3>2. state[g] # "destroyed"
        BY <3>1, DoneTo
      <3> QED  BY <2>2, <3>2 DEF Drop, Uses
    <2> QED  BY <2>1, <2>2
  <1>3. /\ \A u \in Threads : u # t => stack'[u] = stack[u] /\ mode'[u] = mode[u]
        /\ mode'[t] \in {"run", "dropping"} /\ mode'[t] \notin Finishing
    BY <1>1 DEF TInv, TypeOK, Finishing, Ends
  <1>4. \A f \in Frames : Held(f)' => Held(f)
    <2>1. \A u \in Threads : mode'[u] \in {"run", "dropping"} => mode[u] \in {"run", "dropping"}
      BY <1>1, <1>3
    <2> QED  BY <1>1, <2>1 DEF Held
  <1> QED  BY <1>1, <1>2, <1>3, <1>4, SameFramesAlive

LEMMA AInvInit == Init => AInv
  <1> SUFFICES ASSUME Init PROVE AInv
    OBVIOUS
  <1>1. \A f \in Frames : state[f] = "none" /\ caller[f] = None
    BY DEF Init
  <1>2. \A c \in Threads \cup Coros : pos[c] = 1
    BY DEF Init, Frames
  <1>3. HeldRun /\ FinalAtEnd /\ UsedAlive
    BY DEF Init, HeldRun, Held, FinalAtEnd, Finishing, Ends, UsedAlive
  <1>4. ParkedSuspended
    <2> SUFFICES ASSUME NEW f \in Frames, Parked(f) PROVE FALSE
      BY DEF ParkedSuspended
    <2>1. \A g \in Coros : caller[g] # f
      BY <1>1, Names DEF Frames
    <2> QED  BY <2>1 DEF Parked, Init
  <1>5. Unstarted
    BY <1>1 DEF Unstarted, Frames
  <1>6. \A c \in Threads \cup Coros : \A i \in DOMAIN program[c] : ~ Past(c, i)
    <2> SUFFICES ASSUME NEW c \in Threads \cup Coros, NEW i \in DOMAIN program[c]
                 PROVE  ~ Past(c, i)
      OBVIOUS
    <2>1. program[c] \in Seq(Operations)
      BY ProgramsAssumption DEF Init, WellFormed
    <2>2. i \in Nat \ {0}
      BY <2>1
    <2> QED  BY <1>2, <2>2 DEF Past
  <1>7. Made /\ Ended
    BY <1>6 DEF Made, Ended
  <1>8. LetGo
    BY <1>1 DEF LetGo, Init, Frames
  <1> QED  BY <1>3, <1>4, <1>5, <1>7, <1>8 DEF AInv

LEMMA AInvNext ==
    ASSUME TInv, AInv, Orderly(program), HInv, [Next]_vars
    PROVE  AInv'
  <1>1. StartedOnce(program) /\ Owned(program)
    BY DEF Orderly
  <1>2. TInv'
    BY <1>1, TInvNext
  <1>3. ASSUME NEW t \in Threads, NEW g \in Coros,
               \/ Make(t, g) \/ Resume(t, g) \/ Detach(t, g)
               \/ Drop(t, g) \/ SetDetached(t, g)
               \/ Await(t, g) \/ Read(t, g)
               \/ Wait(t, g) \/ Block(t, g) \/ Sleep(t, g)
        PROVE  AInv'
    <2>1. CASE Make(t, g)
      BY <1>1, <1>2, <2>1, MakeAlive
    <2>2. CASE Resume(t, g)
      BY <1>1, <1>2, <2>2, ResumeAlive
    <2>3. CASE Detach(t, g) \/ Read(t, g) \/ Sleep(t, g)
      BY <1>1, <1>2, <2>3, DetachReadSleepAlive
    <2>4. CASE Drop(t, g) /\ Done(g)
      <3>1. mode[t] = "run" /\ Doing(t, "drop", g)
        BY <2>4, DoesIt DEF Drop, TInv
      <3>2. \/ DropsEnded(program)
            \/ \E home \in [Threads \cup Coros -> Threads] :
                  StaysHome(program, home) /\ AtHome(home)
        BY DEF Orderly, HInv
      <3>3. ~ Ending(g)
        BY <1>1, <3>1, <3>2, DroppedEnded
      <3> QED  BY <1>1, <1>2, <2>4, <3>3, DropAlive
    <2>5. CASE Drop(t, g) /\ ~ Done(g)
      BY <1>1, <1>2, <2>5, EnterAlive
    <2>6. CASE SetDetached(t, g)
      BY <1>1, <1>2, <2>6, SetDetachedAlive
    <2>7. CASE Await(t, g)
      BY <1>1, <1>2, <2>7, AwaitAlive
    <2>8. CASE Wait(t, g)
      BY <1>2, <2>8, WaitAlive
    <2>9. CASE Block(t, g)
      BY <1>1, <1>2, <2>9, BlockAlive, EnterAlive
    <2> QED  BY <1>3, <2>1, <2>2, <2>3, <2>4, <2>5, <2>6, <2>7, <2>8, <2>9
  <1>4. ASSUME NEW t \in Threads,
               \/ Io(t) \/ Schedule(t)
               \/ Completion(t) \/ Dequeue(t)
               \/ Return(t) \/ TestFlag(t) \/ Transfer(t)
               \/ SetFlag(t) \/ Notify(t)
        PROVE  AInv'
    BY <1>2, <1>4, SuspendAlive, HandleAlive, ReturnAlive, TestFlagAlive, TransferAlive,
       SyncAlive
  <1>5. CASE UNCHANGED vars
    <2>1. UNCHANGED <<program, pos, state, detached, caller, result, stack, mode>>
          /\ UNCHANGED <<queue, io, misuse>>
      BY <1>5 DEF vars, promises, threads, waiting, sync, ghosts
    <2>2. /\ \A f : Held(f)' <=> Held(f)
          /\ \A f : NotStarted(f)' <=> NotStarted(f)
          /\ \A c, i : Past(c, i)' <=> Past(c, i)
      BY <2>1 DEF Held, NotStarted, Past
    <2>3. \A f : Pending(f)' <=> Pending(f)
      BY <2>1 DEF Pending, Ending, Top
    <2>4. \A f : Parked(f)' <=> Parked(f)
      BY <2>1, <2>3 DEF Parked
    <2>5. HeldRun' /\ ParkedSuspended' /\ Unstarted'
      BY <2>1, <2>2, <2>4 DEF AInv, HeldRun, ParkedSuspended, Unstarted
    <2>6. Made' /\ LetGo' /\ Ended'
      BY <2>1, <2>2, <2>3 DEF AInv, Made, LetGo, Ended
    <2>7. FinalAtEnd' /\ UsedAlive'
      BY <2>1 DEF AInv, FinalAtEnd, UsedAlive, Top
    <2> QED  BY <2>5, <2>6, <2>7 DEF AInv
  <1>6. CASE Next
    <2>1. PICK t \in Threads : Step(t)
      BY <1>6 DEF Next
    <2> QED  BY <1>3, <1>4, <2>1 DEF Step
  <1> QED  BY <1>5, <1>6

-----------------------------------------------------------------------------
(* What stays at home                                                      *)

LEMMA HomeTop ==
    ASSUME TypeOK, NEW home, AtHome(home), NEW t \in Threads, stack[t] # <<>>
    PROVE  Home(home, Top(t)) = t
  <1>1. Len(stack[t]) \in 1 .. Len(stack[t])
    BY DEF TypeOK
  <1> QED  BY <1>1 DEF AtHome, Top

LEMMA HomeStarted ==
    ASSUME TInv, NEW home \in [Threads \cup Coros -> Threads],
           StaysHome(program, home), AtHome(home),
           NEW t \in Threads, mode[t] # "notifying",
           NEW g \in Coros, NEW op \in {"resume", "await"}, Doing(t, op, g)
    PROVE  home[g] = t /\ Home(home, g) = t
  <1> SUFFICES ASSUME NEW c, c = Running(t) PROVE home[g] = t /\ Home(home, g) = t
    OBVIOUS
  <1>1. ASSUME NEW d \in Threads \cup Coros, NEW i, StartsAt(d, i, g)
        PROVE  home[g] = home[d]
    <2>1. i \in DOMAIN program[d] /\ program[d][i][1] \in Starts /\ program[d][i][2] = g
      BY <1>1 DEF StartsAt, Starts
    <2> QED  BY <2>1 DEF StaysHome
  <1>2. stack[t] # <<>> => c = Top(t) /\ c \in Frames /\ Home(home, c) = t
    BY HomeTop, Runs DEF TInv
  <1>3. stack[t] = <<>> => c = t
    BY Runs DEF TInv
  <1>4. CASE c \in Threads \cup Coros /\ StartsAt(c, pos[c], g)
    <2>1. home[g] = home[c]
      BY <1>1, <1>4
    <2>2. home[c] = t
      <3>1. CASE stack[t] = <<>>
        BY <1>3, <3>1 DEF StaysHome
      <3>2. CASE stack[t] # <<>>
        <4>1. c \in Coros /\ Home(home, c) = t
          BY <1>2, <1>4, <3>2, Names
        <4> QED  BY <4>1, Names DEF Home
      <3> QED  BY <3>1, <3>2
    <2> QED  BY <2>1, <2>2, Names DEF Home
  <1>5. ASSUME NEW u \in Threads, c = Sync(u), StartsAt(u, pos[u] - 1, g)
        PROVE  home[g] = t
    <2>1. home[g] = u
      BY <1>1, <1>5 DEF StaysHome
    <2>2. stack[t] # <<>>
      BY <1>3, <1>5, Names
    <2>3. u = t
      BY <1>2, <1>5, <2>2, Names DEF Home
    <2> QED  BY <2>1, <2>3
  <1> QED  BY <1>4, <1>5, StartPlace, Names DEF Home

LEMMA HomeKept ==
    ASSUME TypeOK, NEW home, AtHome(home), NEW t \in Threads,
           NEW h, Home(home, h) = t,
           queue' = <<>>,
           \A u \in Threads : u # t => stack'[u] = stack[u] /\ io'[u] = io[u],
           \/ stack'[t] = stack[t] \/ stack'[t] = Append(stack[t], h)
           \/ stack'[t] = <<h>>
           \/ stack[t] # <<>> /\ (stack'[t] = Below(t) \/ stack'[t] = Append(Below(t), h)),
           \A f \in io'[t] : f \in io[t] \/ Home(home, f) = t,
           \A g \in Coros : caller'[g] = caller[g] \/ Home(home, caller'[g]) = home[g]
    PROVE  AtHome(home)'
  <1>1. \A i \in 1 .. Len(stack[t]) : Home(home, stack[t][i]) = t
    BY DEF AtHome
  <1>2. stack[t] \in Seq(Frames)
    BY DEF TypeOK
  <1>3. \A i \in 1 .. Len(stack'[t]) : Home(home, stack'[t][i]) = t
    <2>1. CASE stack'[t] = stack[t]
      BY <1>1, <2>1
    <2>2. CASE stack'[t] = Append(stack[t], h)
      <3>1. \A i \in 1 .. Len(stack'[t]) :
                stack'[t][i] = h \/ (i \in 1 .. Len(stack[t]) /\ stack'[t][i] = stack[t][i])
        BY <1>2, <2>2
      <3> QED  BY <1>1, <3>1
    <2>3. CASE stack'[t] = <<h>>
      BY <2>3
    <2>4. CASE stack[t] # <<>> /\ (stack'[t] = Below(t) \/ stack'[t] = Append(Below(t), h))
      <3>1. /\ Below(t) \in Seq(Frames)
            /\ \A i \in 1 .. Len(Below(t)) :
                  i \in 1 .. Len(stack[t]) /\ Below(t)[i] = stack[t][i]
        BY <1>2, <2>4, Front DEF Below
      <3>2. CASE stack'[t] = Below(t)
        BY <1>1, <3>1, <3>2
      <3>3. CASE stack'[t] = Append(Below(t), h)
        <4>1. \A i \in 1 .. Len(stack'[t]) :
                  \/ stack'[t][i] = h
                  \/ i \in 1 .. Len(Below(t)) /\ stack'[t][i] = Below(t)[i]
          BY <3>1, <3>3
        <4> QED  BY <1>1, <3>1, <4>1
      <3> QED  BY <2>4, <3>2, <3>3
    <2> QED  BY <2>1, <2>2, <2>3, <2>4
  <1>4. \A u \in Threads : \A i \in 1 .. Len(stack'[u]) : Home(home, stack'[u][i]) = u
    BY <1>3 DEF AtHome
  <1>5. \A u \in Threads : \A f \in io'[u] : Home(home, f) = u
    BY DEF AtHome
  <1>6. \A g \in Coros, c \in Frames : caller'[g] = c => Home(home, c) = home[g]
    BY DEF AtHome
  <1> QED  BY <1>4, <1>5, <1>6 DEF AtHome, Home

LEMMA HomeNext ==
    ASSUME TInv, NEW home \in [Threads \cup Coros -> Threads],
           StaysHome(program, home), AtHome(home),
           NEW t \in Threads, Step(t)
    PROVE  AtHome(home)'
  <1>1. /\ TypeOK /\ queue = <<>> /\ Home(home, t) = t
        /\ stack \in [Threads -> Seq(Frames)] /\ io \in [Threads -> SUBSET Frames]
    BY NamesAssumption DEF TInv, TypeOK, AtHome, Home, StaysHome
  <1>2. ASSUME NEW g \in Coros,
               \/ Make(t, g) \/ Detach(t, g) \/ Drop(t, g) \/ SetDetached(t, g)
               \/ Read(t, g) \/ Block(t, g) \/ Sleep(t, g)
               \/ (Resume(t, g) \/ Await(t, g)) /\ Done(g)
        PROVE  AtHome(home)'
    <2>1. UNCHANGED <<stack, queue, io, caller>>
      BY <1>2 DEF Make, Detach, Drop, SetDetached, Read, Block, Sleep, Resume, Await,
                  promises, threads, waiting
    <2> QED  BY <1>1, <2>1, HomeKept
  <1>3. ASSUME NEW g \in Coros, Resume(t, g), ~ Done(g)
        PROVE  AtHome(home)'
    <2>1. mode[t] # "notifying" /\ Doing(t, "resume", g)
      BY <1>3, DoesIt DEF Resume, TInv
    <2>2. Home(home, g) = t
      BY <2>1, HomeStarted
    <2>3. /\ stack' = [stack EXCEPT ![t] = Append(stack[t], g)]
          /\ UNCHANGED <<queue, io, caller>>
      BY <1>3 DEF Resume, promises, waiting
    <2>4. /\ stack'[t] = Append(stack[t], g) /\ \A u \in Threads : u # t => stack'[u] = stack[u]
      BY <1>1, <2>3
    <2> QED  BY <1>1, <2>2, <2>3, <2>4, HomeKept
  <1>4. ASSUME NEW g \in Coros, Await(t, g), ~ Done(g)
        PROVE  AtHome(home)'
    <2>1. mode[t] # "notifying" /\ Doing(t, "await", g)
      BY <1>4, DoesIt DEF Await, TInv
    <2>2. Home(home, g) = t /\ home[g] = t
      BY <2>1, HomeStarted
    <2>3. stack[t] # <<>> /\ Running(t) = Top(t) /\ Home(home, Top(t)) = t
      <3>1. stack[t] # <<>>
        BY <1>1, <2>1, Doers DEF TInv
      <3> QED  BY <1>1, <2>1, <3>1, HomeTop, Runs
    <2>4. /\ stack' = [stack EXCEPT ![t] = Append(Below(t), g)]
          /\ caller' = [caller EXCEPT ![g] = Top(t)]
          /\ UNCHANGED <<queue, io>>
      BY <1>4, <2>3 DEF Await, Noted, waiting
    <2>5. /\ stack'[t] = Append(Below(t), g) /\ \A u \in Threads : u # t => stack'[u] = stack[u]
          /\ \A h \in Coros : caller'[h] = caller[h] \/ Home(home, caller'[h]) = home[h]
      BY <1>1, <2>2, <2>3, <2>4 DEF TypeOK, Frames
    <2> QED  BY <1>1, <2>2, <2>3, <2>4, <2>5, HomeKept
  <1>5. ASSUME NEW g \in Coros, Wait(t, g)
        PROVE  AtHome(home)'
    <2>1. stack' = [stack EXCEPT ![t] = <<Sync(t)>>] /\ UNCHANGED <<queue, io, caller>>
      BY <1>5 DEF Wait, promises, waiting
    <2>2. Home(home, Sync(t)) = t
      BY Names DEF Home
    <2>3. stack'[t] = <<Sync(t)>> /\ \A u \in Threads : u # t => stack'[u] = stack[u]
      BY <1>1, <2>1
    <2> QED  BY <1>1, <2>1, <2>2, <2>3, HomeKept
  <1>6. CASE Io(t)
    <2>1. stack[t] # <<>> /\ Home(home, Top(t)) = t
      BY <1>1, <1>6, DoesIt, Doers, HomeTop DEF Io, TInv
    <2>2. /\ stack' = [stack EXCEPT ![t] = Below(t)]
          /\ io' = [io EXCEPT ![t] = io[t] \cup {Top(t)}]
          /\ UNCHANGED <<queue, caller>>
      BY <1>6 DEF Io, Suspend, promises
    <2>3. /\ stack'[t] = Below(t) /\ \A f \in io'[t] : f \in io[t] \/ Home(home, f) = t
          /\ \A u \in Threads : u # t => stack'[u] = stack[u] /\ io'[u] = io[u]
      BY <1>1, <2>1, <2>2
    <2> QED  BY <1>1, <2>1, <2>2, <2>3, HomeKept
  <1>7. CASE Schedule(t)
    <2> SUFFICES ASSUME NEW c, c = Running(t) PROVE FALSE
      OBVIOUS
    <2>1. mode[t] # "notifying" /\ Doing(t, "schedule", None) /\ SyncReads
      BY <1>7, DoesIt DEF Schedule, TInv
    <2>2. c \in Coros
      BY <1>1, <2>1, Doers
    <2>3. pos[c] \in DOMAIN program[c] /\ program[c][pos[c]] = <<"schedule", None>>
      BY <1>1, <2>1, <2>2, Operation
    <2>4. program[c][pos[c]][1] = "schedule"
      BY <2>3
    <2> QED  BY <2>2, <2>3, <2>4 DEF StaysHome
  <1>8. CASE Completion(t)
    <2>1. PICK f \in io[t] : ResumeHandle(t, f) /\ io' = [io EXCEPT ![t] = io[t] \ {f}]
                             /\ queue' = queue
      BY <1>8 DEF Completion
    <2>2. Home(home, f) = t
      BY <2>1 DEF AtHome
    <2>3. stack' = [stack EXCEPT ![t] = <<f>>] /\ caller' = caller
      BY <2>1 DEF ResumeHandle, promises
    <2>4. /\ stack'[t] = <<f>> /\ \A h \in io'[t] : h \in io[t]
          /\ \A u \in Threads : u # t => stack'[u] = stack[u] /\ io'[u] = io[u]
      BY <1>1, <2>1, <2>3
    <2> QED  BY <1>1, <2>1, <2>2, <2>3, <2>4, HomeKept
  <1>9. CASE Dequeue(t)
    BY <1>1, <1>9 DEF Dequeue
  <1>10. CASE Return(t) \/ TestFlag(t) \/ SetFlag(t)
    <2>1. UNCHANGED <<stack, queue, io, caller>>
      BY <1>10 DEF Return, TestFlag, SetFlag, promises, waiting
    <2> QED  BY <1>1, <2>1, HomeKept
  <1>11. CASE Notify(t)
    <2>1. stack' = [stack EXCEPT ![t] = Below(t)] /\ UNCHANGED <<queue, io, caller>>
      BY <1>11 DEF Notify, promises, waiting
    <2>2. stack[t] # <<>>
      BY <1>11 DEF Notify, TInv, TypeOK
    <2>3. stack'[t] = Below(t) /\ \A u \in Threads : u # t => stack'[u] = stack[u]
      BY <1>1, <2>1
    <2> QED  BY <1>1, <2>1, <2>2, <2>3, HomeKept
  <1>12. CASE Transfer(t)
    <2> SUFFICES ASSUME NEW c, c = Top(t), NEW d, d = caller[c] PROVE AtHome(home)'
      OBVIOUS
    <2>1. stack[t] # <<>> /\ mode[t] = "transferring" /\ mode[t] # "notifying"
      BY <1>12 DEF Transfer, TInv, TypeOK
    <2>2. c \in Coros /\ Home(home, c) = t
      BY <1>1, <2>1, Runs, HomeTop DEF TInv, Endings, Ends
    <2>3. d # None => Home(home, d) = t
      BY <1>1, <2>2, Names DEF AtHome, Home, TypeOK, Frames
    <2>4. /\ UNCHANGED <<queue, io, caller>>
          /\ \/ stack' = [stack EXCEPT ![t] = Below(t)]
             \/ d # None /\ stack' = [stack EXCEPT ![t] = Append(Below(t), d)]
      BY <1>12 DEF Transfer, promises, waiting
    <2>5. CASE stack' = [stack EXCEPT ![t] = Below(t)]
      <3>1. stack'[t] = Below(t) /\ \A u \in Threads : u # t => stack'[u] = stack[u]
        BY <1>1, <2>5
      <3> QED  BY <1>1, <2>1, <2>4, <3>1, HomeKept
    <2>6. CASE d # None /\ stack' = [stack EXCEPT ![t] = Append(Below(t), d)]
      <3>1. stack'[t] = Append(Below(t), d) /\ \A u \in Threads : u # t => stack'[u] = stack[u]
        BY <1>1, <2>6
      <3> QED  BY <1>1, <2>1, <2>3, <2>4, <2>6, <3>1, HomeKept
    <2> QED  BY <2>4, <2>5, <2>6
  <1> QED
    BY <1>2, <1>3, <1>4, <1>5, <1>6, <1>7, <1>8, <1>9, <1>10, <1>11, <1>12 DEF Step

LEMMA HInvInit == Init => HInv
  <1> SUFFICES ASSUME Init, NEW home \in [Threads \cup Coros -> Threads] PROVE AtHome(home)
    BY DEF HInv
  <1>1. \A g \in Coros, c \in Frames : caller[g] # c
    BY Names DEF Init, Frames
  <1> QED  BY <1>1 DEF AtHome, Init

LEMMA HInvNext ==
    ASSUME TInv, HInv, [Next]_vars, program' = program
    PROVE  HInv'
  <1> SUFFICES ASSUME NEW home \in [Threads \cup Coros -> Threads], StaysHome(program, home)
               PROVE  AtHome(home)'
    BY DEF HInv
  <1>1. AtHome(home)
    BY DEF HInv
  <1>2. CASE UNCHANGED vars
    <2>1. UNCHANGED <<stack, queue, io, caller>>
      BY <1>2 DEF vars, promises, threads, waiting
    <2> QED  BY <1>1, <2>1 DEF AtHome, Home
  <1>3. CASE Next
    <2>1. PICK t \in Threads : Step(t)
      BY <1>3 DEF Next
    <2> QED  BY <1>1, <2>1, HomeNext
  <1> QED  BY <1>2, <1>3

(* No frame is used once it is destroyed, nor resumed unless it is         *)
(* suspended (task.h:23, 48, 80, sync_wait.h:34), but for the two uses     *)
(* that the code does: the promise of a frame that has just destroyed      *)
(* itself (task.h:108) and the flag of a sync_wait that has returned       *)
(* (sync_wait.h:63).  The programs are those in which a coroutine has one  *)
(* owner, which lets it go last of all, and what is dropped has ended or   *)
(* is confined to one thread.                                              *)
THEOREM FramesUsedAlive ==
    ASSUME \A p \in Programs : Orderly(p)
    PROVE  Spec => []UsedAlive
  <1> DEFINE I == TInv /\ AInv /\ HInv /\ Orderly(program)
  <1>1. Init => I
    BY TInvInit, AInvInit, HInvInit DEF Init
  <1>2. I /\ [Next]_vars => I'
    <2> SUFFICES ASSUME I, [Next]_vars PROVE I'
      OBVIOUS
    <2>1. TInv' /\ program' = program
      BY TInvNext DEF Orderly
    <2>2. AInv' /\ HInv'
      BY <2>1, AInvNext, HInvNext
    <2>3. Orderly(program')
      BY <2>1
    <2> QED  BY <2>1, <2>2, <2>3
  <1>3. I => UsedAlive
    BY DEF AInv
  <1> QED  BY <1>1, <1>2, <1>3, PTL DEF Spec
=============================================================================
