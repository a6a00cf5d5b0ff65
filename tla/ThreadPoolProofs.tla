-------------------------- MODULE ThreadPoolProofs --------------------------
(***************************************************************************)
(* Proofs about ThreadPool, for every number of threads and coroutines.    *)
(***************************************************************************)
EXTENDS ThreadPool, FiniteSetTheorems, TLAPS

(* The mutex is held by exactly the thread that is between taking it and   *)
(* leaving the critical section.                                           *)
MutexHeld ==
    \A t \in Threads : pc[t] \in {"locked", "dozing"} <=> mutex = t

(* The stop flag is set by the destructor and by nobody else.              *)
StopFlag == stop <=> owner # "using"

(* A coroutine that has not awaited schedule() yet is not in the pool.     *)
FreshOutside ==
    \A h \in Coroutines : awaits[h] = MaxAwaits =>
        /\ \A i \in 1 .. Len(queue) : queue[i] # h
        /\ \A t \in Threads : running[t] # h

-----------------------------------------------------------------------------
(* What notify_one does to the program counters. *)

Stages == {"check", "lock", "locked", "dozing", "asleep", "run", "exit"}

LEMMA NotifyOneWakes ==
    ASSUME NEW p \in [Threads -> Stages], NEW q \in NotifyOne(p)
    PROVE  \/ q = p /\ \A t \in Threads : p[t] # "asleep"
           \/ \E t \in Threads : p[t] = "asleep" /\ q = [p EXCEPT ![t] = "lock"]
  <1>1. CASE {t \in Threads : p[t] = "asleep"} = {}
    BY <1>1 DEF NotifyOne
  <1>2. CASE {t \in Threads : p[t] = "asleep"} # {}
    BY <1>2 DEF NotifyOne
  <1> QED  BY <1>1, <1>2

(* It takes no thread into the critical section or to sleep. *)
LEMMA NotifyOneKeeps ==
    ASSUME NEW p \in [Threads -> Stages], NEW q \in NotifyOne(p),
           NEW u \in Threads, q[u] \in {"locked", "dozing"}
    PROVE  p[u] = q[u]
  <1>1. CASE q = p
    BY <1>1
  <1>2. CASE \E t \in Threads : p[t] = "asleep" /\ q = [p EXCEPT ![t] = "lock"]
    BY <1>2
  <1> QED  BY <1>1, <1>2, NotifyOneWakes

LEMMA NotifyOneType ==
    ASSUME NEW p \in [Threads -> Stages], NEW q \in NotifyOne(p)
    PROVE  q \in [Threads -> Stages]
  BY NotifyOneWakes DEF Stages

-----------------------------------------------------------------------------
(* Type correctness *)

LEMMA TypeInit == Init => TypeOK
  <1> SUFFICES ASSUME Init PROVE TypeOK
    OBVIOUS
  <1>1. awaits \in [Coroutines -> 0 .. MaxAwaits]
    BY AwaitsAssumption DEF Init
  <1>2. queue \in Seq(Coroutines)
    BY DEF Init
  <1> QED  BY <1>1, <1>2 DEF Init, TypeOK

LEMMA TypeStep == TypeOK /\ [Next]_vars => TypeOK'
  <1> SUFFICES ASSUME TypeOK, [Next]_vars PROVE TypeOK'
    OBVIOUS
  <1> USE AwaitsAssumption DEF TypeOK
  <1>1. ASSUME NEW t \in Threads, ThreadStep(t) \/ SpuriousWakeup(t)
        PROVE  TypeOK'
    <2>1. CASE Check(t)           BY <2>1 DEF Check
    <2>2. CASE Lock(t)            BY <2>2 DEF Lock
    <2>3. CASE Leave(t)           BY <2>3 DEF Leave
    <2>4. CASE Take(t)
      <3>1. Head(queue) \in Coroutines /\ Tail(queue) \in Seq(Coroutines)
        BY <2>4 DEF Take, HasWork
      <3> QED  BY <2>4, <3>1 DEF Take, Pop
    <2>5. CASE DecideToSleep(t)   BY <2>5 DEF DecideToSleep
    <2>6. CASE Sleep(t)           BY <2>6 DEF Sleep
    <2>7. CASE SpuriousWakeup(t)  BY <2>7 DEF SpuriousWakeup
    <2>8. CASE Return(t)          BY <2>8 DEF Return
    <2>9. CASE Reschedule(t)
      <3>1. pc' \in [Threads -> Stages]
        BY <2>9, NotifyOneType DEF Reschedule, Stages
      <3>2. queue' \in Seq(Coroutines)
        BY <2>9 DEF Reschedule, Push
      <3>3. awaits' \in [Coroutines -> 0 .. MaxAwaits]
        BY <2>9 DEF Reschedule
      <3> QED  BY <2>9, <3>1, <3>2, <3>3 DEF Reschedule, Stages
    <2> QED
      BY <1>1, <2>1, <2>2, <2>3, <2>4, <2>5, <2>6, <2>7, <2>8, <2>9
      DEF ThreadStep
  <1>2. ASSUME NEW h \in Coroutines, Schedule(h)
        PROVE  TypeOK'
    <2>1. pc' \in [Threads -> Stages]
      BY <1>2, NotifyOneType DEF Schedule, Stages
    <2>2. queue' \in Seq(Coroutines)
      BY <1>2 DEF Schedule, Push
    <2>3. awaits' \in [Coroutines -> 0 .. MaxAwaits]
      BY <1>2 DEF Schedule
    <2> QED  BY <1>2, <2>1, <2>2, <2>3 DEF Schedule, Stages
  <1>3. CASE RequestStop     BY <1>3 DEF RequestStop
  <1>4. CASE WakeAll         BY <1>4 DEF WakeAll, NotifyAll
  <1>5. CASE DestroyMembers  BY <1>5 DEF DestroyMembers
  <1>6. CASE Join            BY <1>6 DEF Join
  <1>7. CASE UNCHANGED vars  BY <1>7 DEF vars
  <1> QED
    BY <1>1, <1>2, <1>3, <1>4, <1>5, <1>6, <1>7 DEF Next, Destructor

(* Every step of the pool keeps its variables in their types. *)
THEOREM TypeCorrect == Spec => []TypeOK
  <1>1. Init => TypeOK                     BY TypeInit
  <1>2. TypeOK /\ [Next]_vars => TypeOK'   BY TypeStep
  <1> QED  BY <1>1, <1>2, PTL DEF Spec

-----------------------------------------------------------------------------
(* The mutex and the stop flag *)

LEMMA MutexStep ==
    TypeOK /\ MutexHeld /\ [Next]_vars => MutexHeld'
  <1> SUFFICES ASSUME TypeOK, MutexHeld, [Next]_vars PROVE MutexHeld'
    OBVIOUS
  <1> USE NobodyAssumption DEF TypeOK, MutexHeld
  <1>1. ASSUME NEW t \in Threads, ThreadStep(t) \/ SpuriousWakeup(t)
        PROVE  MutexHeld'
    <2>1. CASE Check(t)           BY <2>1 DEF Check
    <2>2. CASE Lock(t)            BY <2>2 DEF Lock
    <2>3. CASE Leave(t)           BY <2>3 DEF Leave
    <2>4. CASE Take(t)            BY <2>4 DEF Take
    <2>5. CASE DecideToSleep(t)   BY <2>5 DEF DecideToSleep
    <2>6. CASE Sleep(t)
      <3>1. mutex = t  BY <2>6 DEF Sleep
      <3> QED  BY <2>6, <3>1 DEF Sleep
    <2>7. CASE SpuriousWakeup(t)  BY <2>7 DEF SpuriousWakeup
    <2>8. CASE Return(t)          BY <2>8 DEF Return
    <2>9. CASE Reschedule(t)
      <3> DEFINE p == [pc EXCEPT ![t] = "check"]
      <3>1. p \in [Threads -> Stages] /\ pc' \in NotifyOne(p)
        BY <2>9 DEF Reschedule, Stages
      <3>2. \A u \in Threads :
                pc'[u] \in {"locked", "dozing"} => p[u] \in {"locked", "dozing"}
        BY <3>1, NotifyOneKeeps
      <3> QED  BY <2>9, <3>2 DEF Reschedule
    <2> QED
      BY <1>1, <2>1, <2>2, <2>3, <2>4, <2>5, <2>6, <2>7, <2>8, <2>9
      DEF ThreadStep
  <1>2. ASSUME NEW h \in Coroutines, Schedule(h)
        PROVE  MutexHeld'
    <2>1. pc \in [Threads -> Stages] /\ pc' \in NotifyOne(pc)
      BY <1>2 DEF Schedule, Stages
    <2>2. ASSUME NEW u \in Threads, pc'[u] \in {"locked", "dozing"}
          PROVE  pc[u] \in {"locked", "dozing"}
      <3>1. pc[u] = pc'[u]
        BY <2>1, <2>2, NotifyOneKeeps
      <3> QED  BY <2>2, <3>1
    <2> QED  BY <1>2, <2>2 DEF Schedule
  <1>3. CASE RequestStop     BY <1>3 DEF RequestStop
  <1>4. CASE WakeAll         BY <1>4 DEF WakeAll, NotifyAll
  <1>5. CASE DestroyMembers  BY <1>5 DEF DestroyMembers
  <1>6. CASE Join            BY <1>6 DEF Join
  <1>7. CASE UNCHANGED vars  BY <1>7 DEF vars
  <1> QED
    BY <1>1, <1>2, <1>3, <1>4, <1>5, <1>6, <1>7 DEF Next, Destructor

LEMMA StopStep == StopFlag /\ [Next]_vars => StopFlag'
  <1> SUFFICES ASSUME StopFlag, [Next]_vars PROVE StopFlag'
    OBVIOUS
  <1>1. ASSUME NEW t \in Threads, ThreadStep(t) \/ SpuriousWakeup(t)
        PROVE  UNCHANGED <<stop, owner>>
    BY <1>1 DEF ThreadStep, Check, Lock, Leave, Take, DecideToSleep, Sleep,
                SpuriousWakeup, Return, Reschedule
  <1>2. ASSUME NEW h \in Coroutines, Schedule(h)
        PROVE  UNCHANGED <<stop, owner>>
    BY <1>2 DEF Schedule
  <1>3. CASE RequestStop     BY <1>3 DEF RequestStop, StopFlag
  <1>4. CASE Destructor
    BY <1>4 DEF Destructor, WakeAll, DestroyMembers, Join, StopFlag
  <1>5. CASE UNCHANGED vars  BY <1>5 DEF vars, StopFlag
  <1> QED  BY <1>1, <1>2, <1>3, <1>4, <1>5 DEF Next, StopFlag

-----------------------------------------------------------------------------
(* No idle thread while there is work *)

LEMMA CountAdd ==
    ASSUME NEW S \in SUBSET Threads, NEW t \in Threads, t \notin S
    PROVE  /\ Cardinality(S) \in Nat
           /\ Cardinality(S \cup {t}) = Cardinality(S) + 1
  <1>1. IsFiniteSet(S)
    BY ThreadsAssumption, FS_Subset
  <1> QED  BY <1>1, FS_AddElement, FS_CardinalityType

LEMMA CountRemove ==
    ASSUME NEW S \in SUBSET Threads, NEW t \in S
    PROVE  /\ Cardinality(S) \in Nat
           /\ Cardinality(S \ {t}) = Cardinality(S) - 1
  <1>1. IsFiniteSet(S)
    BY ThreadsAssumption, FS_Subset
  <1> QED  BY <1>1, FS_RemoveElement, FS_CardinalityType

(* A push and its notification: the notified thread is one more on the way. *)
LEMMA NotifyKeepsWorkConserving ==
    ASSUME NEW p \in [Threads -> Stages], NEW q \in NotifyOne(p),
           \A t \in Threads : p[t] # "dozing",
           NEW n \in Nat,
           NEW Way, Way = {t \in Threads : p[t] \in {"check", "lock", "locked"}},
           NEW NewWay,
           NewWay = {t \in Threads : q[t] \in {"check", "lock", "locked"}},
           (\E t \in Threads : p[t] = "asleep") => n <= Cardinality(Way),
           \E t \in Threads : q[t] \in {"dozing", "asleep"}
    PROVE  n + 1 <= Cardinality(NewWay)
  <1>1. CASE q = p /\ \A t \in Threads : p[t] # "asleep"
    BY <1>1
  <1>2. ASSUME NEW u \in Threads, p[u] = "asleep", q = [p EXCEPT ![u] = "lock"]
        PROVE  n + 1 <= Cardinality(NewWay)
    <2>1. NewWay = Way \cup {u} /\ u \notin Way /\ Way \in SUBSET Threads
      BY <1>2
    <2>2. Cardinality(Way) \in Nat /\ Cardinality(NewWay) = Cardinality(Way) + 1
      BY <2>1, CountAdd
    <2> QED  BY <1>2, <2>2
  <1> QED  BY <1>1, <1>2, NotifyOneWakes

LEMMA WorkStep ==
    /\ TypeOK /\ MutexHeld /\ StopFlag /\ WorkConserving
    /\ [Next]_vars
    => WorkConserving'
  <1> SUFFICES ASSUME TypeOK, MutexHeld, StopFlag, WorkConserving,
                      [Next]_vars, owner' = "using", Idle' # {}
               PROVE  Len(queue)' <= Cardinality(OnTheWay)'
    BY DEF WorkConserving
  <1> USE DEF TypeOK
  <1>0. /\ OnTheWay \in SUBSET Threads
        /\ Len(queue) \in Nat
        /\ Idle # {} /\ owner = "using" =>
                Len(queue) <= Cardinality(OnTheWay)
    BY DEF OnTheWay, WorkConserving
  <1>1. ASSUME NEW t \in Threads, ThreadStep(t) \/ SpuriousWakeup(t)
        PROVE  Len(queue)' <= Cardinality(OnTheWay)'
    <2>0. owner = "using" /\ ~stop
      BY <1>1 DEF ThreadStep, Check, Lock, Leave, Take, DecideToSleep, Sleep,
                  SpuriousWakeup, Return, Reschedule, StopFlag
    <2>1. CASE Check(t) \/ Lock(t) \/ Sleep(t)
      <3>1. OnTheWay' = OnTheWay /\ Idle' = Idle /\ queue' = queue
        BY <2>0, <2>1 DEF Check, Lock, Sleep, OnTheWay, Idle
      <3> QED  BY <3>1, <2>0, <1>0
    <2>2. CASE Leave(t)
      BY <2>0, <2>2 DEF Leave
    <2>3. CASE Take(t)
      <3>1. OnTheWay' = OnTheWay \ {t} /\ t \in OnTheWay /\ Idle' = Idle
        BY <2>3 DEF Take, OnTheWay, Idle
      <3>2. Len(queue') = Len(queue) - 1
        BY <2>3 DEF Take, Pop, HasWork
      <3>3. /\ Cardinality(OnTheWay) \in Nat
            /\ Cardinality(OnTheWay') = Cardinality(OnTheWay) - 1
        BY <3>1, <1>0, CountRemove
      <3> QED  BY <3>1, <3>2, <3>3, <2>0, <1>0
    <2>4. CASE DecideToSleep(t)
      <3>1. Len(queue') = 0
        BY <2>4 DEF DecideToSleep, HasWork
      <3>2. OnTheWay' \in SUBSET Threads
        BY DEF OnTheWay
      <3>3. Cardinality(OnTheWay') \in Nat
        BY <3>2, ThreadsAssumption, FS_Subset, FS_CardinalityType
      <3> QED  BY <3>1, <3>3
    <2>5. CASE SpuriousWakeup(t) \/ Return(t)
      <3>1. /\ OnTheWay' = OnTheWay \cup {t} /\ t \notin OnTheWay
            /\ Idle' \subseteq Idle /\ queue' = queue
        BY <2>5 DEF SpuriousWakeup, Return, OnTheWay, Idle
      <3>2. /\ Cardinality(OnTheWay) \in Nat
            /\ Cardinality(OnTheWay') = Cardinality(OnTheWay) + 1
        BY <3>1, <1>0, CountAdd
      <3> QED  BY <3>1, <3>2, <2>0, <1>0
    <2>6. CASE Reschedule(t)
      <3> DEFINE p == [pc EXCEPT ![t] = "check"]
                 Way == {u \in Threads : p[u] \in {"check", "lock", "locked"}}
      <3>1. p \in [Threads -> Stages] /\ pc' \in NotifyOne(p) /\ mutex = Nobody
        BY <2>6 DEF Reschedule, Stages
      <3>2. \A u \in Threads : p[u] # "dozing"
        BY <3>1, NobodyAssumption DEF MutexHeld
      <3>3. Way = OnTheWay \cup {t} /\ t \notin OnTheWay
        BY <2>6 DEF Reschedule, OnTheWay
      <3>4. /\ Cardinality(OnTheWay) \in Nat
            /\ Cardinality(Way) = Cardinality(OnTheWay) + 1
        BY <3>3, <1>0, CountAdd
      <3>5. (\E u \in Threads : p[u] = "asleep") => Idle # {}
        BY <3>1 DEF Idle
      <3>6. (\E u \in Threads : p[u] = "asleep") =>
                Len(queue) <= Cardinality(Way)
        BY <3>4, <3>5, <2>0, <1>0
      <3>7. \E u \in Threads : pc'[u] \in {"dozing", "asleep"}
        BY DEF Idle
      <3>8. OnTheWay' = {u \in Threads : pc'[u] \in {"check", "lock", "locked"}}
        BY DEF OnTheWay
      <3>9. Len(queue) + 1 <= Cardinality(OnTheWay')
        <4> HIDE DEF p, Way
        <4>1. Way = {u \in Threads : p[u] \in {"check", "lock", "locked"}}
          BY DEF Way
        <4> QED
          BY <4>1, <3>1, <3>2, <3>6, <3>7, <3>8, <1>0, NotifyKeepsWorkConserving
      <3>10. Len(queue') = Len(queue) + 1
        BY <2>6, <2>0 DEF Reschedule, Push
      <3> QED  BY <3>9, <3>10
    <2> QED
      BY <1>1, <2>1, <2>2, <2>3, <2>4, <2>5, <2>6 DEF ThreadStep
  <1>2. ASSUME NEW h \in Coroutines, Schedule(h)
        PROVE  Len(queue)' <= Cardinality(OnTheWay)'
    <2>1. /\ pc \in [Threads -> Stages] /\ pc' \in NotifyOne(pc)
          /\ mutex = Nobody /\ owner = "using"
      BY <1>2 DEF Schedule, Stages
    <2>2. \A u \in Threads : pc[u] # "dozing"
      BY <2>1, NobodyAssumption DEF MutexHeld
    <2>3. (\E u \in Threads : pc[u] = "asleep") =>
              Len(queue) <= Cardinality(OnTheWay)
      BY <2>1, <1>0 DEF Idle
    <2>4. \E u \in Threads : pc'[u] \in {"dozing", "asleep"}
      BY DEF Idle
    <2>5. /\ OnTheWay = {u \in Threads : pc[u] \in {"check", "lock", "locked"}}
          /\ OnTheWay' = {u \in Threads : pc'[u] \in {"check", "lock", "locked"}}
      BY DEF OnTheWay
    <2>6. Len(queue) + 1 <= Cardinality(OnTheWay')
      BY <2>1, <2>2, <2>3, <2>4, <2>5, <1>0, NotifyKeepsWorkConserving
    <2>7. Len(queue') = Len(queue) + 1
      BY <1>2, <2>1 DEF Schedule, Push
    <2> QED  BY <2>6, <2>7
  <1>3. CASE RequestStop \/ Destructor
    BY <1>3 DEF RequestStop, Destructor, WakeAll, DestroyMembers, Join
  <1>4. CASE UNCHANGED vars
    <2>1. OnTheWay' = OnTheWay /\ Idle' = Idle /\ queue' = queue /\ owner' = owner
      BY <1>4 DEF vars, OnTheWay, Idle
    <2> QED  BY <2>1, <1>0
  <1> QED  BY <1>1, <1>2, <1>3, <1>4 DEF Next

WorkInv == TypeOK /\ MutexHeld /\ StopFlag /\ WorkConserving

(* While the pool is in use and a thread sleeps, every queued handle has a *)
(* thread of its own on the way to it, for any number of threads.          *)
THEOREM NoIdleThreadWithWork == Spec => []WorkConserving
  <1>1. Init => WorkInv
    <2> SUFFICES ASSUME Init PROVE WorkInv
      OBVIOUS
    <2>1. TypeOK  BY TypeInit
    <2>2. MutexHeld /\ StopFlag
      BY NobodyAssumption DEF Init, MutexHeld, StopFlag
    <2>3. WorkConserving
      BY DEF Init, WorkConserving, Idle
    <2> QED  BY <2>1, <2>2, <2>3 DEF WorkInv
  <1>2. WorkInv /\ [Next]_vars => WorkInv'
    BY TypeStep, MutexStep, StopStep, WorkStep DEF WorkInv
  <1>3. WorkInv => WorkConserving
    BY DEF WorkInv
  <1> QED  BY <1>1, <1>2, <1>3, PTL DEF Spec

-----------------------------------------------------------------------------
(* A coroutine handle is in one place *)

PlaceInv == TypeOK /\ HandleInOnePlace /\ FreshOutside

(* A push of a handle that is nowhere in the pool, with a thread that may *)
(* just have let go of it.                                                *)
LEMMA PushKeepsPlace ==
    ASSUME TypeOK, HandleInOnePlace, FreshOutside,
           NEW h \in Coroutines,
           \A i \in 1 .. Len(queue) : queue[i] # h,
           Push(h),
           awaits' = [awaits EXCEPT ![h] = @ - 1],
           running' \in [Threads -> Coroutines \cup {Nobody}],
           \A u \in Threads : /\ running'[u] # h
                              /\ running'[u] \in {running[u], Nobody}
    PROVE  HandleInOnePlace' /\ FreshOutside'
  <1> USE NobodyAssumption DEF TypeOK
  <1>1. CASE owner = "joining"
    <2>1. queue' = queue
      BY <1>1 DEF Push
    <2>2. HandleInOnePlace'
      BY <2>1 DEF HandleInOnePlace
    <2>3. FreshOutside'
      BY <2>1, AwaitsAssumption DEF FreshOutside
    <2> QED  BY <2>2, <2>3
  <1>2. CASE owner # "joining"
    <2>1. /\ queue' = Append(queue, h)
          /\ Len(queue') = Len(queue) + 1
          /\ queue'[Len(queue) + 1] = h
          /\ \A i \in 1 .. Len(queue) : queue'[i] = queue[i]
      BY <1>2 DEF Push
    <2>2. \A i \in 1 .. Len(queue') :
              i = Len(queue) + 1 \/ (i \in 1 .. Len(queue) /\ queue'[i] = queue[i])
      BY <2>1
    <2>3. HandleInOnePlace'
      <3>1. \A i, j \in 1 .. Len(queue') : queue'[i] = queue'[j] => i = j
        BY <2>1, <2>2 DEF HandleInOnePlace
      <3>2. \A t, u \in Threads :
                running'[t] = running'[u] /\ running'[t] # Nobody => t = u
        BY DEF HandleInOnePlace
      <3>3. \A t \in Threads, i \in 1 .. Len(queue') : running'[t] # queue'[i]
        <4> SUFFICES ASSUME NEW t \in Threads, NEW i \in 1 .. Len(queue')
                     PROVE  running'[t] # queue'[i]
          OBVIOUS
        <4>1. CASE i = Len(queue) + 1
          BY <4>1, <2>1
        <4>2. CASE i \in 1 .. Len(queue) /\ queue'[i] = queue[i]
          <5>1. queue[i] \in Coroutines
            BY <4>2
          <5> QED  BY <4>2, <5>1 DEF HandleInOnePlace
        <4> QED  BY <4>1, <4>2, <2>2
      <3> QED  BY <3>1, <3>2, <3>3 DEF HandleInOnePlace
    <2>4. FreshOutside'
      <3> SUFFICES ASSUME NEW g \in Coroutines, awaits'[g] = MaxAwaits
                   PROVE  /\ \A i \in 1 .. Len(queue') : queue'[i] # g
                          /\ \A t \in Threads : running'[t] # g
        BY DEF FreshOutside
      <3>1. g # h /\ awaits[g] = MaxAwaits
        BY AwaitsAssumption
      <3> QED  BY <3>1, <2>1, <2>2 DEF FreshOutside
    <2> QED  BY <2>3, <2>4
  <1> QED  BY <1>1, <1>2

LEMMA TakeKeepsPlace ==
    ASSUME TypeOK, HandleInOnePlace, FreshOutside, NEW t \in Threads, Take(t)
    PROVE  HandleInOnePlace' /\ FreshOutside'
  <1> USE NobodyAssumption DEF TypeOK
  <1>1. /\ Len(queue) >= 1
        /\ Head(queue) = queue[1]
        /\ queue[1] \in Coroutines
        /\ Len(queue') = Len(queue) - 1
        /\ \A i \in 1 .. Len(queue') : queue'[i] = queue[i + 1]
    BY DEF Take, Pop, HasWork
  <1>2. /\ running'[t] = queue[1]
        /\ \A u \in Threads \ {t} : running'[u] = running[u]
        /\ awaits' = awaits
    BY <1>1 DEF Take
  <1>3. HandleInOnePlace'
    <2>1. \A i, j \in 1 .. Len(queue') : queue'[i] = queue'[j] => i = j
      <3> SUFFICES ASSUME NEW i \in 1 .. Len(queue'), NEW j \in 1 .. Len(queue'),
                          queue'[i] = queue'[j]
                   PROVE  i = j
        OBVIOUS
      <3>1. i + 1 \in 1 .. Len(queue) /\ j + 1 \in 1 .. Len(queue)
        BY <1>1
      <3>2. queue[i + 1] = queue[j + 1]
        BY <1>1
      <3>3. i + 1 = j + 1
        BY <3>1, <3>2 DEF HandleInOnePlace
      <3> QED  BY <3>3
    <2>2. \A u, v \in Threads :
              running'[u] = running'[v] /\ running'[u] # Nobody => u = v
      BY <1>1, <1>2 DEF HandleInOnePlace
    <2>3. ASSUME NEW u \in Threads, NEW i \in 1 .. Len(queue')
          PROVE  running'[u] # queue'[i]
      <3>1. i + 1 \in 1 .. Len(queue) /\ i + 1 # 1 /\ 1 \in 1 .. Len(queue)
        BY <1>1
      <3>2. queue'[i] = queue[i + 1]
        BY <1>1
      <3>3. CASE u = t
        BY <1>2, <3>1, <3>2, <3>3 DEF HandleInOnePlace
      <3>4. CASE u # t
        BY <1>2, <3>1, <3>2, <3>4 DEF HandleInOnePlace
      <3> QED  BY <3>3, <3>4
    <2> QED  BY <2>1, <2>2, <2>3 DEF HandleInOnePlace
  <1>4. FreshOutside'
    BY <1>1, <1>2 DEF FreshOutside
  <1> QED  BY <1>3, <1>4

LEMMA PlaceStep == PlaceInv /\ [Next]_vars => PlaceInv'
  <1> SUFFICES ASSUME TypeOK, HandleInOnePlace, FreshOutside, [Next]_vars
               PROVE  HandleInOnePlace' /\ FreshOutside'
    BY TypeStep DEF PlaceInv
  <1>0. ASSUME UNCHANGED <<running, queue, awaits>>
        PROVE  HandleInOnePlace' /\ FreshOutside'
    BY <1>0 DEF HandleInOnePlace, FreshOutside
  <1>1. ASSUME NEW t \in Threads, ThreadStep(t) \/ SpuriousWakeup(t)
        PROVE  HandleInOnePlace' /\ FreshOutside'
    <2>1. CASE Check(t) \/ Lock(t) \/ Leave(t) \/ DecideToSleep(t) \/ Sleep(t)
               \/ SpuriousWakeup(t)
      BY <2>1, <1>0 DEF Check, Lock, Leave, DecideToSleep, Sleep, SpuriousWakeup
    <2>2. CASE Take(t)
      BY <2>2, TakeKeepsPlace
    <2>3. CASE Return(t)
      <3>1. /\ queue' = queue /\ awaits' = awaits
            /\ \A u \in Threads : running'[u] \in {running[u], Nobody}
        BY <2>3 DEF Return, TypeOK
      <3>2. HandleInOnePlace'
        <4>1. \A i \in 1 .. Len(queue) : queue[i] # Nobody
          BY NobodyAssumption DEF TypeOK
        <4> QED  BY <3>1, <4>1 DEF HandleInOnePlace
      <3>3. FreshOutside'
        BY <3>1, NobodyAssumption DEF FreshOutside
      <3> QED  BY <3>2, <3>3
    <2>4. CASE Reschedule(t)
      <3> DEFINE h == running[t]
      <3>1. /\ h \in Coroutines
            /\ Push(h)
            /\ awaits' = [awaits EXCEPT ![h] = @ - 1]
        BY <2>4 DEF Reschedule
      <3>2. \A i \in 1 .. Len(queue) : queue[i] # h
        BY DEF HandleInOnePlace
      <3>3. /\ running' = [running EXCEPT ![t] = Nobody]
            /\ running' \in [Threads -> Coroutines \cup {Nobody}]
        BY <2>4 DEF Reschedule, TypeOK
      <3>4. \A u \in Threads : /\ running'[u] # h
                               /\ running'[u] \in {running[u], Nobody}
        <4> SUFFICES ASSUME NEW u \in Threads
                     PROVE  /\ running'[u] # h
                            /\ running'[u] \in {running[u], Nobody}
          OBVIOUS
        <4>1. CASE u = t
          BY <4>1, <3>1, <3>3, NobodyAssumption DEF TypeOK
        <4>2. CASE u # t
          <5>1. running'[u] = running[u]
            BY <4>2, <3>3 DEF TypeOK
          <5>2. running[u] # h
            BY <4>2, <3>1, NobodyAssumption DEF HandleInOnePlace
          <5> QED  BY <5>1, <5>2
        <4> QED  BY <4>1, <4>2
      <3> HIDE DEF h
      <3> QED  BY <3>1, <3>2, <3>3, <3>4, PushKeepsPlace
    <2> QED  BY <1>1, <2>1, <2>2, <2>3, <2>4 DEF ThreadStep
  <1>2. ASSUME NEW h \in Coroutines, Schedule(h)
        PROVE  HandleInOnePlace' /\ FreshOutside'
    <2>1. /\ \A i \in 1 .. Len(queue) : queue[i] # h
          /\ \A u \in Threads : running[u] # h
      BY <1>2 DEF Schedule, FreshOutside
    <2> QED
      BY <1>2, <2>1, PushKeepsPlace DEF Schedule, TypeOK
  <1>3. CASE RequestStop \/ WakeAll \/ Join
    BY <1>3, <1>0 DEF RequestStop, WakeAll, Join
  <1>4. CASE DestroyMembers
    <2>1. queue' = <<>> /\ running' = running /\ awaits' = awaits
      BY <1>4 DEF DestroyMembers
    <2> QED  BY <2>1 DEF HandleInOnePlace, FreshOutside
  <1>5. CASE UNCHANGED vars  BY <1>5, <1>0 DEF vars
  <1> QED  BY <1>1, <1>2, <1>3, <1>4, <1>5 DEF Next, Destructor

(* A handle is queued at most once, is never queued while a thread resumes *)
(* it, and is never resumed by two threads.                                *)
THEOREM HandleResumedByOneThread == Spec => []HandleInOnePlace
  <1>1. Init => PlaceInv
    <2> SUFFICES ASSUME Init PROVE PlaceInv
      OBVIOUS
    <2>1. HandleInOnePlace
      BY DEF Init, HandleInOnePlace
    <2>2. FreshOutside
      BY NobodyAssumption DEF Init, FreshOutside
    <2> QED  BY <2>1, <2>2, TypeInit DEF PlaceInv
  <1>2. PlaceInv /\ [Next]_vars => PlaceInv'
    BY PlaceStep
  <1>3. PlaceInv => HandleInOnePlace
    BY DEF PlaceInv
  <1> QED  BY <1>1, <1>2, <1>3, PTL DEF Spec
=============================================================================
