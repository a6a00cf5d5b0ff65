---------------------------- MODULE ListenProofs ----------------------------
(***************************************************************************)
(* Theorems about Listen, for every size of the pool: a coroutine that has *)
(* ended is not resumed, and listen goes on from a task only when its      *)
(* coroutine has ended.                                                    *)
(*                                                                         *)
(* The argument: a frame is resumed at most twice, once by the pool, which *)
(* has its handle once, and once by listen's thread.  It ends only when    *)
(* one of the two comes after the other, which then serves for ever; so    *)
(* when it has ended both have come.                                       *)
(***************************************************************************)
EXTENDS Listen, TLAPS

(* A thread that has a coroutine to run or runs it. *)
Active(t) == pc[t] \in {"resume", "making", "serving", "leaving", "ending"}

Queued(i) == \E k \in 1 .. Len(queue) : queue[k] = i

(* A handle is in the queue at most once, or with one thread of the pool.  *)
PoolHasOnce ==
    /\ \A k, l \in 1 .. Len(queue) : queue[k] = queue[l] => k = l
    /\ \A t \in Pool : Active(t) => ~ Queued(job[t])
    /\ \A t, u \in Pool : Active(t) /\ Active(u) /\ job[t] = job[u] => t = u

(* What listen has not come to is untouched. *)
NotStarted ==
    /\ pc[Main] = "starting" =>
          \A i \in Workers :
              /\ i >= job[Main] =>
                    /\ point[i] = "initial"
                    /\ ~ Queued(i)
                    /\ \A t \in Pool : Active(t) => job[t] # i
              /\ ~ (i >= job[Main]) => point[i] # "initial"
    /\ pc[Main] # "starting" => \A i \in Workers : point[i] # "initial"

(* Each kind of thread is where such threads can be. *)
Places ==
    /\ pc[Main] # "idle"
    /\ \A t \in Pool : pc[t] \in {"idle"} \/ Active(t)

Serves(t, i) == pc[t] = "serving" /\ job[t] = i

(* A frame that is past co_await event_loop() has a thread that serves.    *)
Served ==
    \A i \in Workers :
        point[i] \in {"event_loop", "final"} => \E t \in Threads : Serves(t, i)

(* Who leaves a frame has come after somebody else. *)
LeavesServed ==
    \A t \in Threads :
        pc[t] = "leaving" => \E u \in Threads \ {t} : Serves(u, job[t])

(* When a frame has ended nobody is left to run it. *)
EndedAlone ==
    \A i \in Workers : point[i] = "final" =>
        /\ ~ Queued(i)
        /\ i \notin open
        /\ \A t \in Threads :
              job[t] = i => pc[t] \notin {"resume", "making", "leaving"}

(* sync_wait is notified, and a thread ends, only after the coroutine has. *)
NotifiedEnded ==
    /\ \A i \in flag : point[i] = "final"
    /\ \A t \in Threads : pc[t] = "ending" => point[job[t]] = "final"

LInv ==
    /\ TypeOK
    /\ PoolHasOnce
    /\ NotStarted
    /\ Places
    /\ Served
    /\ LeavesServed
    /\ EndedAlone
    /\ NotifiedEnded
    /\ WaitsForEach

LEMMA Sets == Main \notin Pool /\ Main \in Threads /\ Pool \subseteq Threads
  BY DEF Main, Pool, Threads

LEMMA Indices == N \in Nat /\ Workers = 1 .. N /\ 1 \in Workers
  BY NAssumption, SMT DEF Workers

LEMMA InitLInv == Init => LInv
  BY Sets, Indices, SMTT(30)
  DEF Init, LInv, TypeOK, PoolHasOnce, NotStarted, Places, Served, LeavesServed,
      EndedAlone, NotifiedEnded, WaitsForEach, Passed, Active, Queued, Serves

(* The queue after schedule() and after thread_loop's pop.                 *)
LEMMA AppendQueued ==
  ASSUME TypeOK, NEW h \in Workers, queue' = Append(queue, h)
  PROVE  /\ queue' \in Seq(Workers)
         /\ \A i \in Workers : Queued(i)' <=> Queued(i) \/ i = h
         /\ ~ Queued(h) /\ (\A k, l \in 1 .. Len(queue) : queue[k] = queue[l] => k = l) =>
               \A k, l \in 1 .. Len(queue') : queue'[k] = queue'[l] => k = l
  BY SMTT(30) DEF TypeOK, Queued

LEMMA PopQueued ==
  ASSUME TypeOK, PoolHasOnce, queue # <<>>, queue' = Tail(queue),
         NEW h, h = Head(queue)
  PROVE  /\ h \in Workers
         /\ queue' \in Seq(Workers)
         /\ Queued(h)
         /\ \A i \in Workers : Queued(i)' => Queued(i)
         /\ ~ Queued(h)'
         /\ \A k, l \in 1 .. Len(queue') : queue'[k] = queue'[l] => k = l
<1> USE DEF TypeOK
<1>1. /\ h = queue[1] /\ h \in Workers
      /\ Len(queue) \in Nat /\ 1 \in 1 .. Len(queue)
  BY SMT
<1>2. /\ queue' \in Seq(Workers)
      /\ Len(queue') = Len(queue) - 1
      /\ \A k \in 1 .. Len(queue') : queue'[k] = queue[k + 1] /\ k + 1 \in 1 .. Len(queue)
  BY SMT
<1>3. Queued(h) /\ \A i \in Workers : Queued(i)' => Queued(i)
  BY <1>1, <1>2, SMT DEF Queued
<1>4. ~ Queued(h)'
  <2>1. ASSUME NEW k \in 1 .. Len(queue'), queue'[k] = h
        PROVE  FALSE
    <3>1. k + 1 = 1
      BY <1>1, <1>2, <2>1 DEF PoolHasOnce
    <3>2. \A m \in Nat : \A n \in 1 .. m : n + 1 # 1
      BY SMT
    <3>3. Len(queue') \in Nat
      BY <1>1, <1>2, SMT
    <3> QED BY <3>1, <3>2, <3>3
  <2> QED BY <1>1, <2>1 DEF Queued
<1>5. \A k, l \in 1 .. Len(queue') : queue'[k] = queue'[l] => k = l
  BY <1>1, <1>2, SMT DEF PoolHasOnce
<1> QED
  BY <1>1, <1>2, <1>3, <1>4, <1>5

LEMMA StepLInv == LInv /\ [Next]_vars => LInv'
<1> SUFFICES ASSUME LInv, [Next]_vars
             PROVE  LInv'
  OBVIOUS
<1> USE Sets DEF LInv, Goto
<1>1. CASE Start
  <2> DEFINE i == job[Main]
  <2>1. /\ i \in Workers
        /\ pc[Main] = "starting"
        /\ point' = [point EXCEPT ![i] = "schedule"]
        /\ queue' = Append(queue, i)
        /\ UNCHANGED <<caller, flag, open>>
    BY <1>1 DEF Start, TypeOK
  <2>2. /\ point[i] = "initial" /\ ~ Queued(i)
        /\ \A t \in Pool : Active(t) => job[t] # i
    BY <2>1, Indices, SMT DEF NotStarted
  <2>3. /\ queue' \in Seq(Workers)
        /\ \A j \in Workers : Queued(j)' <=> Queued(j) \/ j = i
        /\ \A k, l \in 1 .. Len(queue') : queue'[k] = queue'[l] => k = l
    BY <2>1, <2>2, AppendQueued DEF PoolHasOnce
  <2>4. /\ job' \in [Threads -> Workers] /\ \A t \in Pool : job'[t] = job[t]
        /\ pc \in [Threads -> {"starting", "awaiting", "waiting", "returned", "idle",
                             "resume", "making", "serving", "leaving", "ending"}]
        /\ \/ job'[Main] = i + 1 /\ i < N /\ pc' = pc
           \/ i = N /\ job'[Main] = 1 /\ pc' = [pc EXCEPT ![Main] = "awaiting"]
    <3>1. job \in [Threads -> Workers] /\ AfterStart(i)
      BY <1>1 DEF Start, TypeOK
    <3>2. i \in 1 .. N /\ N \in Nat
      BY <2>1, Indices
    <3>3. CASE i < N
      <4>1. job' = [job EXCEPT ![Main] = i + 1] /\ pc' = pc
        BY <3>1, <3>3 DEF AfterStart
      <4>2. i + 1 \in Workers
        BY <3>2, <3>3, Indices, SMT
      <4> QED BY <3>1, <3>3, <4>1, <4>2 DEF TypeOK
    <3>4. CASE ~ (i < N)
      <4>1. job' = [job EXCEPT ![Main] = 1] /\ pc' = [pc EXCEPT ![Main] = "awaiting"]
        BY <3>1, <3>4 DEF AfterStart
      <4>2. i = N
        BY <3>2, <3>4, SMT
      <4> QED BY <3>1, <4>1, <4>2, Indices DEF TypeOK
    <3> QED BY <3>3, <3>4
  <2>5. TypeOK' /\ Places'
    BY <2>1, <2>3, <2>4, SMTT(90) DEF TypeOK, Places, Active
  <2>6. PoolHasOnce'
    BY <2>1, <2>2, <2>3, <2>4, SMTT(30) DEF TypeOK, PoolHasOnce, Active
  <2>7. NotStarted'
    <3> HIDE DEF i
    <3>0. i \in 1 .. N /\ N \in Nat /\ Workers = 1 .. N
      BY <2>1, Indices
    <3>1. \A t \in Pool : Active(t)' => Active(t) /\ job'[t] = job[t]
      BY <2>4, SMTT(30) DEF Active
    <3>2. ASSUME job'[Main] = i + 1, i < N, pc' = pc, NEW j \in Workers, j >= i + 1
          PROVE  /\ point'[j] = "initial"
                 /\ ~ Queued(j)'
                 /\ \A t \in Pool : Active(t)' => job'[t] # j
      <4>1. j # i /\ j >= i
        BY <3>0, <3>2, SMT
      <4>2. /\ point[j] = "initial" /\ ~ Queued(j)
            /\ \A t \in Pool : Active(t) => job[t] # j
        BY <2>1, <4>1 DEF NotStarted, i
      <4> QED BY <2>1, <2>3, <3>1, <4>1, <4>2 DEF TypeOK
    <3>3. ASSUME NEW j \in Workers, ~ (j >= i + 1)
          PROVE  point'[j] # "initial"
      <4>1. j = i \/ ~ (j >= i)
        BY <3>0, <3>3, SMT
      <4>2. ~ (j >= i) => point[j] # "initial"
        BY <2>1 DEF NotStarted, i
      <4> QED BY <2>1, <4>1, <4>2 DEF TypeOK
    <3>5. ASSUME i = N, NEW j \in Workers
          PROVE  ~ (j >= i + 1)
      BY <3>0, <3>5, SMT
    <3>4. pc'[Main] = "starting" <=> pc' = pc
      BY <2>1, <2>4
    <3> QED BY <2>1, <2>4, <3>2, <3>3, <3>4, <3>5 DEF NotStarted
  <2> HIDE DEF i
  <2>8. Served' /\ LeavesServed'
    <3>1. \A u \in Threads, j \in Workers : Serves(u, j) => Serves(u, j)'
      BY <2>1, <2>4, SMTT(30) DEF TypeOK, Serves, Threads
    <3>2. Served'
      BY <2>1, <3>1, SMTT(30) DEF TypeOK, Served
    <3>3. \A u \in Threads : pc'[u] = "leaving" =>
             pc[u] = "leaving" /\ job'[u] = job[u] /\ job[u] \in Workers
      BY <2>1, <2>4, SMTT(30) DEF TypeOK, Threads
    <3> QED BY <3>1, <3>2, <3>3 DEF LeavesServed
  <2>9. EndedAlone'
    BY <2>1, <2>3, <2>4, SMTT(30) DEF TypeOK, EndedAlone, Threads
  <2>10. NotifiedEnded' /\ WaitsForEach'
    <3>1. NotifiedEnded'
      BY <2>1, <2>2, <2>4, SMTT(30) DEF TypeOK, NotifiedEnded, Threads
    <3>2. WaitsForEach'
      BY <2>1, <2>2, <2>4, Indices, SMTT(30) DEF TypeOK, WaitsForEach, Passed
    <3> QED BY <3>1, <3>2
  <2> QED BY <2>5, <2>6, <2>7, <2>8, <2>9, <2>10
<1>2. CASE Await
  <2>1. TypeOK' /\ Places'
    BY <1>2, SMTT(30) DEF Await, Done, TypeOK, Places, Active
  <2>2. PoolHasOnce'
    BY <1>2, SMTT(30) DEF Await, Done, TypeOK, PoolHasOnce, Active, Queued
  <2>3. NotStarted'
    BY <1>2, SMTT(30) DEF Await, Done, TypeOK, NotStarted, Active, Queued
  <2>4. Served' /\ LeavesServed'
    BY <1>2, SMTT(30) DEF Await, Done, TypeOK, Served, LeavesServed, Serves
  <2>5. EndedAlone'
    BY <1>2, SMTT(30) DEF Await, Done, TypeOK, EndedAlone, Queued
  <2>6. NotifiedEnded'
    BY <1>2, SMTT(30) DEF Await, Done, TypeOK, NotifiedEnded, EndedAlone
  <2>7. WaitsForEach'
    BY <1>2, SMTT(30) DEF Await, Done, TypeOK, WaitsForEach, Passed, NotifiedEnded, EndedAlone
  <2> QED BY <2>1, <2>2, <2>3, <2>4, <2>5, <2>6, <2>7
<1>3. CASE Wait
  <2>1. TypeOK' /\ Places'
    <3>1. job' \in [Threads -> Workers]
      <4>1. job[Main] \in 1 .. N /\ N \in Nat
        BY Indices DEF TypeOK
      <4>2. job[Main] < N => job[Main] + 1 \in Workers
        BY <4>1, Indices, SMT
      <4> QED BY <1>3, <4>2 DEF Wait, TypeOK
    <3>2. pc' \in [Threads -> {"starting", "awaiting", "waiting", "returned", "idle",
                               "resume", "making", "serving", "leaving", "ending"}]
      BY <1>3 DEF Wait, TypeOK
    <3>3. Places'
      BY <1>3, SMTT(30) DEF Wait, TypeOK, Places, Active
    <3> QED BY <1>3, <3>1, <3>2, <3>3 DEF Wait, TypeOK
  <2>2. PoolHasOnce'
    BY <1>3, SMTT(30) DEF Wait, TypeOK, PoolHasOnce, Active, Queued
  <2>3. NotStarted'
    BY <1>3, SMTT(30) DEF Wait, TypeOK, NotStarted, Active, Queued
  <2>4. Served' /\ LeavesServed'
    BY <1>3, SMTT(30) DEF Wait, TypeOK, Served, LeavesServed, Serves
  <2>5. EndedAlone'
    BY <1>3, SMTT(30) DEF Wait, TypeOK, EndedAlone, Queued
  <2>6. NotifiedEnded'
    BY <1>3, SMTT(30) DEF Wait, TypeOK, NotifiedEnded, EndedAlone
  <2>7. WaitsForEach'
    <3>1. point[job[Main]] = "final" /\ job[Main] \notin open
      BY <1>3 DEF Wait, TypeOK, NotifiedEnded, EndedAlone
    <3>2. N \in Nat /\ Workers = 1 .. N /\ job[Main] \in 1 .. N
      BY Indices DEF TypeOK
    <3>3. \A i \in Workers : Passed(i)' => Passed(i) \/ i = job[Main]
      BY <1>3, <3>2, SMTT(30) DEF Wait, TypeOK, Passed
    <3> QED BY <1>3, <3>1, <3>3 DEF Wait, WaitsForEach
  <2> QED BY <2>1, <2>2, <2>3, <2>4, <2>5, <2>6, <2>7
<1>4. ASSUME NEW t \in Threads, Take(t)
      PROVE  LInv'
  <2>0. PICK i : i = Head(queue)
    OBVIOUS
  <2>1. /\ t \in Pool /\ t # Main
        /\ pc[t] = "idle"
        /\ pc' = [pc EXCEPT ![t] = "resume"]
        /\ job' = [job EXCEPT ![t] = i]
        /\ UNCHANGED <<point, caller, flag, open>>
    BY <1>4, <2>0 DEF Take
  <2>2. /\ i \in Workers
        /\ queue' \in Seq(Workers)
        /\ Queued(i)
        /\ \A j \in Workers : Queued(j)' => Queued(j)
        /\ ~ Queued(i)'
        /\ \A k, l \in 1 .. Len(queue') : queue'[k] = queue'[l] => k = l
    BY <1>4, <2>0, PopQueued DEF Take, Pop
  <2>3. point[i] # "final"
    BY <2>2 DEF EndedAlone
  <2>4. TypeOK' /\ Places'
    BY <2>1, <2>2, SMTT(30) DEF TypeOK, Places, Active
  <2>5. PoolHasOnce'
    <3>1. \A u \in Pool \ {t} :
             /\ Active(u)' <=> Active(u)
             /\ job'[u] = job[u] /\ job[u] \in Workers
      BY <2>1, SMTT(30) DEF TypeOK, Active
    <3>2. job'[t] = i
      BY <2>1 DEF TypeOK
    <3>3. \A u \in Pool : Active(u)' => ~ Queued(job[u])'
      <4>1. \A u \in Pool \ {t} : Active(u)' => ~ Queued(job[u])'
        BY <2>2, <3>1 DEF PoolHasOnce, Queued
      <4>2. ~ Queued(job[t])'
        BY <2>2, <3>2 DEF Queued
      <4> QED BY <4>1, <4>2
    <3>4. \A u, v \in Pool : Active(u)' /\ Active(v)' /\ job'[u] = job'[v] => u = v
      BY <2>2, <3>1, <3>2 DEF PoolHasOnce
    <3> QED BY <2>2, <3>3, <3>4 DEF PoolHasOnce
  <2>6. NotStarted'
    BY <2>1, <2>2, SMTT(30) DEF TypeOK, NotStarted, Active
  <2>7. Served' /\ LeavesServed'
    BY <2>1, <2>2, SMTT(30) DEF TypeOK, Served, LeavesServed, Serves
  <2>8. EndedAlone'
    BY <2>1, <2>2, <2>3, SMTT(30) DEF TypeOK, EndedAlone
  <2>9. NotifiedEnded' /\ WaitsForEach'
    BY <2>1, <2>2, SMTT(30) DEF TypeOK, NotifiedEnded, WaitsForEach, Passed
  <2> QED BY <2>4, <2>5, <2>6, <2>7, <2>8, <2>9
<1>5. ASSUME NEW t \in Threads, Resume(t)
      PROVE  LInv'
  <2>1. TypeOK' /\ Places'
    BY <1>5, SMTT(30) DEF Resume, TypeOK, Places, Active
  <2>2. PoolHasOnce'
    BY <1>5, SMTT(30) DEF Resume, TypeOK, PoolHasOnce, Active, Queued
  <2>3. NotStarted'
    BY <1>5, SMTT(30) DEF Resume, TypeOK, NotStarted, Active, Queued
  <2>4. Served' /\ LeavesServed'
    BY <1>5, SMTT(30) DEF Resume, TypeOK, Served, LeavesServed, Serves
  <2>5. EndedAlone'
    BY <1>5, SMTT(30) DEF Resume, TypeOK, EndedAlone, Queued
  <2>6. NotifiedEnded'
    BY <1>5, SMTT(30) DEF Resume, TypeOK, NotifiedEnded, EndedAlone
  <2>7. WaitsForEach'
    BY <1>5, SMTT(30) DEF Resume, TypeOK, WaitsForEach, Passed, NotifiedEnded, EndedAlone
  <2> QED BY <2>1, <2>2, <2>3, <2>4, <2>5, <2>6, <2>7
<1>6. ASSUME NEW t \in Threads, Serve(t)
      PROVE  LInv'
  <2>1. TypeOK' /\ Places'
    BY <1>6, SMTT(30) DEF Serve, TypeOK, Places, Active
  <2>2. PoolHasOnce'
    BY <1>6, SMTT(30) DEF Serve, TypeOK, PoolHasOnce, Active, Queued
  <2>3. NotStarted'
    <3>1. job[t] \in Workers
      BY <1>6 DEF TypeOK
    <3>2. pc[Main] = "starting" => t \in Pool /\ ~ (job[t] >= job[Main])
      BY <1>6, <3>1 DEF Serve, NotStarted, Active, Threads
    <3> QED
      BY <1>6, <3>1, <3>2, SMTT(30) DEF Serve, TypeOK, NotStarted, Active, Queued
  <2>4. Served' /\ LeavesServed'
    BY <1>6, SMTT(30) DEF Serve, TypeOK, Served, LeavesServed, Serves
  <2>5. EndedAlone'
    BY <1>6, SMTT(30) DEF Serve, TypeOK, EndedAlone, Queued
  <2>6. NotifiedEnded'
    BY <1>6, SMTT(30) DEF Serve, TypeOK, NotifiedEnded, EndedAlone
  <2>7. WaitsForEach'
    BY <1>6, SMTT(30) DEF Serve, TypeOK, WaitsForEach, Passed, NotifiedEnded, EndedAlone
  <2> QED BY <2>1, <2>2, <2>3, <2>4, <2>5, <2>6, <2>7
<1>7. ASSUME NEW t \in Threads, Leave(t)
      PROVE  LInv'
  <2>1. TypeOK' /\ Places'
    BY <1>7, SMTT(30) DEF Leave, TypeOK, Places, Active
  <2>2. PoolHasOnce'
    BY <1>7, SMTT(30) DEF Leave, TypeOK, PoolHasOnce, Active, Queued
  <2>3. NotStarted'
    <3>1. job[t] \in Workers
      BY <1>7 DEF TypeOK
    <3>2. pc[Main] = "starting" => t \in Pool /\ ~ (job[t] >= job[Main])
      BY <1>7, <3>1 DEF Leave, NotStarted, Active, Threads
    <3> QED
      BY <1>7, <3>1, <3>2, SMTT(30) DEF Leave, TypeOK, NotStarted, Active, Queued
  <2>4. Served' /\ LeavesServed'
    BY <1>7, SMTT(30) DEF Leave, TypeOK, Served, LeavesServed, Serves
  <2>5. EndedAlone'
    <3>1. PICK u \in Threads \ {t} : Serves(u, job[t])
      BY <1>7 DEF Leave, LeavesServed
    <3>2. ~ Queued(job[t])
      BY <1>7, <3>1 DEF Leave, Serves, PoolHasOnce, Active, Threads
    <3>3. ASSUME NEW w \in Threads \ {t, u}
          PROVE  job[w] = job[t] => ~ Active(w)
      BY <1>7, <3>1 DEF Leave, Serves, PoolHasOnce, Active, Threads
    <3>4. \A w \in Threads : job[w] = job[t] =>
             pc'[w] \notin {"resume", "making", "leaving"}
      BY <1>7, <3>1, <3>3, SMTT(30) DEF Leave, Serves, TypeOK, Active
    <3> QED
      BY <1>7, <3>2, <3>4, SMTT(30) DEF Leave, TypeOK, EndedAlone, Queued
  <2>6. NotifiedEnded'
    BY <1>7, SMTT(30) DEF Leave, TypeOK, NotifiedEnded, EndedAlone
  <2>7. WaitsForEach'
    BY <1>7, SMTT(30) DEF Leave, TypeOK, WaitsForEach, Passed, NotifiedEnded, EndedAlone
  <2> QED BY <2>1, <2>2, <2>3, <2>4, <2>5, <2>6, <2>7
<1>8. ASSUME NEW t \in Threads, End(t)
      PROVE  LInv'
  <2>1. TypeOK' /\ Places'
    BY <1>8, SMTT(30) DEF End, TypeOK, Places, Active
  <2>2. PoolHasOnce'
    BY <1>8, SMTT(30) DEF End, TypeOK, PoolHasOnce, Active, Queued
  <2>3. NotStarted'
    BY <1>8, SMTT(30) DEF End, TypeOK, NotStarted, Active, Queued
  <2>4. Served' /\ LeavesServed'
    BY <1>8, SMTT(30) DEF End, TypeOK, Served, LeavesServed, Serves
  <2>5. EndedAlone'
    BY <1>8, SMTT(30) DEF End, TypeOK, EndedAlone, Queued
  <2>6. NotifiedEnded'
    BY <1>8, SMTT(30) DEF End, TypeOK, NotifiedEnded, EndedAlone
  <2>7. WaitsForEach'
    BY <1>8, SMTT(30) DEF End, TypeOK, WaitsForEach, Passed, NotifiedEnded, EndedAlone
  <2> QED BY <2>1, <2>2, <2>3, <2>4, <2>5, <2>6, <2>7
<1>9. CASE UNCHANGED vars
  BY <1>9
  DEF vars, TypeOK, PoolHasOnce, NotStarted, Places, Served, LeavesServed,
      EndedAlone, NotifiedEnded, WaitsForEach, Passed, Active, Queued, Serves
<1> QED
  BY <1>1, <1>2, <1>3, <1>4, <1>5, <1>6, <1>7, <1>8, <1>9
  DEF Next, ListenStep, CoroutineStep

(***************************************************************************)
(* A frame that has ended is not resumed, by the pool or by listen, for    *)
(* any number of threads (task.h:48-63, threadpool.cpp:33-36).             *)
(***************************************************************************)
THEOREM EndedFrameNotResumed == Spec => []EndedNotResumed
<1>1. LInv => EndedNotResumed
  BY DEF LInv, EndedNotResumed, EndedAlone, TypeOK
<1> QED
  BY InitLInv, StepLInv, <1>1, PTL DEF Spec

(***************************************************************************)
(* listen goes on from a task only when its coroutine has ended and its    *)
(* worker is gone (sync_wait.h:34-37, 145-161).                            *)
(***************************************************************************)
THEOREM ListenWaits == Spec => []WaitsForEach
<1>1. LInv => WaitsForEach
  BY DEF LInv
<1> QED
  BY InitLInv, StepLInv, <1>1, PTL DEF Spec

(* Whatever size the pool has, listen stays within the tasks it made: its  *)
(* loop ends, and what the pool and sync_wait handle are its coroutines    *)
(* (http_server.cpp:154-166).                                              *)
THEOREM ListenTypeCorrect == Spec => []TypeOK
<1>1. LInv => TypeOK
  BY DEF LInv
<1> QED
  BY InitLInv, StepLInv, <1>1, PTL DEF Spec
=============================================================================
