----------------------------- MODULE ConfigVar -----------------------------
(***************************************************************************)
(* ConfigVar<T> (Config/Config.h): a value, the listeners to be called     *)
(* when it changes, and a shared mutex, for every variable of one type T.  *)
(*                                                                         *)
(* setValue holds the mutex shared while it compares and calls the         *)
(* listeners, releases it, and takes it exclusively to assign.  Listeners  *)
(* are kept under the numbers addListener hands out from a counter that is *)
(* static in the member function: one counter for all variables of type T, *)
(* while each variable has a mutex of its own.                             *)
(*                                                                         *)
(* A listener is a function that notes what it was told; it calls nothing  *)
(* of the variable, which would wait for its own caller.  getValue and     *)
(* toString only read.                                                     *)
(***************************************************************************)
EXTENDS Naturals

CONSTANTS
    Threads,    \* the threads that use the variables
    Setters,    \* those of them that call setValue
    Vars,       \* the variables of type T
    Values,     \* the values of T
    Default,    \* the default value of each variable
    Listeners,  \* the callbacks, each added at most once
    Throwing,   \* the callbacks that throw
    MaxSets,    \* setValue is called at most so often
    None        \* no thread, variable, listener or value

ASSUME SettersAssumption == Setters \subseteq Threads
ASSUME DefaultAssumption == Default \in Values
ASSUME ThrowingAssumption == Throwing \subseteq Listeners
ASSUME SetsAssumption == MaxSets \in Nat
ASSUME NoneAssumption ==
    None \notin Threads \cup Vars \cup Listeners \cup Values

VARIABLES
    value,     \* m_value of each variable
    cbs,       \* m_cbs of each variable, as a set of <<id, listener>>
    s_fun_id,  \* the counter of addListener
    readers,   \* the threads that hold each mutex shared
    writer,    \* the thread that holds each mutex exclusively, or None
    pc,        \* what each thread is doing
    var,       \* the variable it is doing it to
    new,       \* setValue: the value to be set
    todo,      \* setValue: the entries of m_cbs not yet called
    adding,    \* addListener: the listener to be added
    temp,      \* addListener: the counter as it was last read
    id,        \* the number each listener's addListener returned, or 0
    home,      \* the variable each listener was added to, or None
    told,      \* the new value each listener was told last, or None
    sets       \* calls of setValue so far

locks == <<readers, writer>>
calls == <<pc, var, new, todo, adding, temp>>
history == <<home, told, sets>>

vars == <<value, cbs, s_fun_id, locks, calls, id, history>>

Init ==
    /\ value = [x \in Vars |-> Default]
    /\ cbs = [x \in Vars |-> {}]
    /\ s_fun_id = 0
    /\ readers = [x \in Vars |-> {}]
    /\ writer = [x \in Vars |-> None]
    /\ pc = [t \in Threads |-> "idle"]
    /\ var \in [Threads -> Vars]
    /\ new = [t \in Threads |-> Default]
    /\ todo = [t \in Threads |-> {}]
    /\ adding = [t \in Threads |-> None]
    /\ temp = [t \in Threads |-> 0]
    /\ id = [l \in Listeners |-> 0]
    /\ home = [l \in Listeners |-> None]
    /\ told = [l \in Listeners |-> None]
    /\ sets = 0

Goto(t, next) == pc' = [pc EXCEPT ![t] = next]

-----------------------------------------------------------------------------
(* std::shared_mutex *)

MayShare(x) == writer[x] = None

MayOwn(x) == writer[x] = None /\ readers[x] = {}

Share(t, x) ==
    MayShare(x) /\ readers' = [readers EXCEPT ![x] = @ \cup {t}] /\ UNCHANGED writer

Unshare(t, x) == readers' = [readers EXCEPT ![x] = @ \ {t}] /\ UNCHANGED writer

-----------------------------------------------------------------------------
(* setValue *)

(* The shared lock, and a value that differs; an equal one changes nothing. *)
SetValue(t, x, v) ==
    /\ t \in Setters
    /\ pc[t] = "idle"
    /\ sets < MaxSets
    /\ Share(t, x)
    /\ v # value[x]
    /\ Goto(t, "telling")
    /\ var' = [var EXCEPT ![t] = x]
    /\ new' = [new EXCEPT ![t] = v]
    /\ todo' = [todo EXCEPT ![t] = cbs[x]]
    /\ sets' = sets + 1
    /\ UNCHANGED <<value, cbs, s_fun_id, adding, temp, id, home, told>>

(* The entry of m_cbs with the smallest number: std::map's order. *)
First(entries) == CHOOSE e \in entries : \A f \in entries : e[1] <= f[1]

Tell(t) ==
    /\ pc[t] = "telling"
    /\ todo[t] # {}
    /\ LET e == First(todo[t])
       IN  /\ told' = [told EXCEPT ![e[2]] = new[t]]
           /\ IF e[2] \in Throwing
              THEN /\ Unshare(t, var[t])
                   /\ todo' = [todo EXCEPT ![t] = {}]
                   /\ Goto(t, "idle")
              ELSE /\ todo' = [todo EXCEPT ![t] = @ \ {e}]
                   /\ UNCHANGED <<locks, pc>>
    /\ UNCHANGED <<value, cbs, s_fun_id, var, new, adding, temp, id, home, sets>>

EndShared(t, x) == Unshare(t, x)

(* The end of the shared section: the mutex is free for a moment. *)
AllTold(t) ==
    /\ pc[t] = "telling"
    /\ todo[t] = {}
    /\ EndShared(t, var[t])
    /\ Goto(t, "assigning")
    /\ UNCHANGED <<value, cbs, s_fun_id, var, new, todo, adding, temp, id, history>>

(* A mutant: the second lock is forgotten, and the assignment too. *)
AssignNothing(t) == UNCHANGED value

Assign(t) == value' = [value EXCEPT ![var[t]] = new[t]]

(* The unique_lock, the assignment and the end of the function. *)
AssignLocked(t) ==
    /\ pc[t] = "assigning"
    /\ MayOwn(var[t])
    /\ Assign(t)
    /\ Goto(t, "idle")
    /\ UNCHANGED <<cbs, s_fun_id, locks, var, new, todo, adding, temp, id, history>>

-----------------------------------------------------------------------------
(* addListener.  Each use of s_fun_id is a step: only the mutex of one     *)
(* variable is held.                                                       *)

AddListener(t, x, l) ==
    /\ pc[t] = "idle"
    /\ home[l] = None
    /\ MayOwn(x)
    /\ writer' = [writer EXCEPT ![x] = t]
    /\ home' = [home EXCEPT ![l] = x]
    /\ var' = [var EXCEPT ![t] = x]
    /\ adding' = [adding EXCEPT ![t] = l]
    /\ Goto(t, "reading")
    /\ UNCHANGED <<value, cbs, s_fun_id, readers, new, todo, temp, id, told, sets>>

(* ++s_fun_id, which reads the counter ... *)
Read(t) ==
    /\ pc[t] = "reading"
    /\ temp' = [temp EXCEPT ![t] = s_fun_id]
    /\ Goto(t, "writing")
    /\ UNCHANGED <<value, cbs, s_fun_id, locks, var, new, todo, adding, id, history>>

(* A mutant: the counter is not static. *)
StartedAnew(t) == 1

Advanced(t) == temp[t] + 1

(* ... and writes it. *)
Write(t) ==
    /\ pc[t] = "writing"
    /\ s_fun_id' = Advanced(t)
    /\ Goto(t, "storing")
    /\ UNCHANGED <<value, cbs, locks, var, new, todo, adding, temp, id, history>>

(* m_cbs[s_fun_id] = cb: the number is read again, and an entry that has   *)
(* it is replaced.                                                         *)
Store(t) ==
    /\ pc[t] = "storing"
    /\ cbs' = [cbs EXCEPT ![var[t]] =
                  {e \in @ : e[1] # s_fun_id} \cup {<<s_fun_id, adding[t]>>}]
    /\ Goto(t, "returning")
    /\ UNCHANGED <<value, s_fun_id, locks, var, new, todo, adding, temp, id, history>>

(* return s_fun_id, read once more, and the unlock. *)
Return(t) ==
    /\ pc[t] = "returning"
    /\ id' = [id EXCEPT ![adding[t]] = s_fun_id]
    /\ writer' = [writer EXCEPT ![var[t]] = None]
    /\ adding' = [adding EXCEPT ![t] = None]
    /\ Goto(t, "idle")
    /\ UNCHANGED <<value, cbs, s_fun_id, readers, var, new, todo, temp, history>>

-----------------------------------------------------------------------------
(* delListener *)

(* A mutant: the lock is forgotten. *)
MayEraseAlways(x) == TRUE

MayErase(x) == MayOwn(x)

(* A mutant: the callback is emptied and its entry kept. *)
Emptied(x, key) ==
    {IF e[1] = key THEN <<key, None>> ELSE e : e \in cbs[x]}

Erased(x, key) == {e \in cbs[x] : e[1] # key}

(* The owner of a listener removes it by the number it was given. *)
DelListener(t, l) ==
    /\ pc[t] = "idle"
    /\ id[l] # 0
    /\ MayErase(home[l])
    /\ cbs' = [cbs EXCEPT ![home[l]] = Erased(home[l], id[l])]
    /\ id' = [id EXCEPT ![l] = 0]
    /\ UNCHANGED <<value, s_fun_id, locks, calls, history>>

-----------------------------------------------------------------------------
Setting(t) == Tell(t) \/ AllTold(t) \/ AssignLocked(t)

Adding(t) == Read(t) \/ Write(t) \/ Store(t) \/ Return(t)

Next ==
    \E t \in Threads :
        \/ \E x \in Vars, v \in Values : SetValue(t, x, v)
        \/ Setting(t)
        \/ \E x \in Vars, l \in Listeners : AddListener(t, x, l)
        \/ Adding(t)
        \/ \E l \in Listeners : DelListener(t, l)

Spec == Init /\ [][Next]_vars

-----------------------------------------------------------------------------
(* Every variable has the values the code gives it.                        *)
TypeOK ==
    /\ value \in [Vars -> Values]
    /\ cbs \in [Vars -> SUBSET (Nat \X Listeners)]
    /\ s_fun_id \in Nat
    /\ readers \in [Vars -> SUBSET Threads]
    /\ writer \in [Vars -> Threads \cup {None}]
    /\ pc \in [Threads -> {"idle", "telling", "assigning", "reading", "writing",
                           "storing", "returning"}]
    /\ var \in [Threads -> Vars]
    /\ new \in [Threads -> Values]
    /\ todo \in [Threads -> SUBSET (Nat \X Listeners)]
    /\ adding \in [Threads -> Listeners \cup {None}]
    /\ temp \in [Threads -> Nat]
    /\ id \in [Listeners -> Nat]
    /\ home \in [Listeners -> Vars \cup {None}]
    /\ told \in [Listeners -> Values \cup {None}]
    /\ sets \in 0 .. MaxSets

(* Once delListener has returned the listener is not called any more: a    *)
(* setter that is calling listeners has no entry before it that is not     *)
(* registered.  The owner may then destroy what the callback refers to     *)
(* (Config.h:323-329, 351-354).                                            *)
RemovedNotTold ==
    \A t \in Threads : pc[t] = "telling" => todo[t] \subseteq cbs[var[t]]

(* A listener is registered under the number its addListener returned, and *)
(* no other is: so delListener removes it and nothing else                 *)
(* (Config.h:339-347).                                                     *)
IdNamesListener ==
    \A l \in Listeners :
        id[l] # 0 =>
            \A m \in Listeners : <<id[l], m>> \in cbs[home[l]] <=> m = l

InAdd == {"reading", "writing", "storing", "returning"}

(* No two threads are inside addListener, also of two variables, each with *)
(* a mutex of its own.                                                     *)
OneAdds ==
    \A t, u \in Threads : pc[t] \in InAdd /\ pc[u] \in InAdd => t = u

(* As long as no two calls of addListener overlap, of one variable or of   *)
(* two of the type, each number it returned names its listener.  Without   *)
(* the condition this is false: two variables share the counter and no     *)
(* mutex, so that one call may return the number of the other's listener   *)
(* (Config.h:339-347).                                                     *)
IdsNameListeners == []OneAdds => []IdNamesListener

(* No setValue is under way on the variable. *)
Settled(x) == \A t \in Threads : pc[t] \in {"telling", "assigning"} => var[t] # x

Registered(l) == \E x \in Vars : home[l] = x /\ \E e \in cbs[x] : e[2] = l

(* When no setValue is under way a listener that was ever told of a change *)
(* was last told of the value the variable has, unless a listener of the   *)
(* variable throws (Config.h:320-333).  This holds of one setter; with two *)
(* it is false: one may notify last and the other assign last.             *)
LastToldIsValue ==
    \A l \in Listeners :
        /\ Registered(l)
        /\ told[l] # None
        /\ Settled(home[l])
        /\ \A m \in Throwing : home[m] # home[l]
        => told[l] = value[home[l]]
=============================================================================
