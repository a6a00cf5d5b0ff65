---------------------------- MODULE ConfigProofs ----------------------------
(***************************************************************************)
(* Theorems about ConfigVar, then about ConfigRegistry.                    *)
(*                                                                         *)
(* The variables: a removed listener is not called any more, for any       *)
(* number of threads, variables and listeners; the numbers that            *)
(* addListener returns name one listener each as long as no two of its     *)
(* calls overlap; and a listener knows the value its variable has as long  *)
(* as one thread alone sets values.  Where calls of addListener overlap    *)
(* for two variables the second fails: the counter is common to both, and  *)
(* each is guarded by a mutex of its own.  With two setters the third      *)
(* does: one may tell last and the other assign last.                      *)
(*                                                                         *)
(* The registry: its mutex keeps its entries, and whoever looks a name up  *)
(* gets the one variable of that name, for any threads, names, types,      *)
(* variables and listeners.  While entries are made and files are loaded   *)
(* the variables keep what ConfigVar promises, and have values of their    *)
(* type; with one setter a load leaves each with what was read last, but   *)
(* for those that it looked up while another thread was making an entry.   *)
(***************************************************************************)
EXTENDS ConfigRegistry, WellFoundedInduction, TLAPS

-----------------------------------------------------------------------------
(* ConfigVar *)

(* The mutexes are held by the calls that are inside their sections. *)
LocksHeld ==
    \A t \in Threads, x \in Vars :
        /\ t \in readers[x] <=> pc[t] = "telling" /\ var[t] = x
        /\ writer[x] = t <=> pc[t] \in InAdd /\ var[t] = x

(* Nobody reads while somebody writes. *)
ReadersExcluded == \A x \in Vars : writer[x] # None => readers[x] = {}

(* A call of addListener has a listener to add. *)
HasListener == \A t \in Threads : pc[t] \in InAdd => adding[t] \in Listeners

LInv == TypeOK /\ LocksHeld /\ ReadersExcluded /\ HasListener /\ RemovedNotTold

LEMMA InitLInv == Init => LInv
  BY DefaultAssumption, NoneAssumption, SetsAssumption, SMTT(30)
  DEF Init, LInv, TypeOK, LocksHeld, ReadersExcluded, HasListener, RemovedNotTold, InAdd

(* First picks one of the entries: one has the smallest number.            *)
LEMMA FirstIsEntry ==
  ASSUME NEW E, E \subseteq Nat \X Listeners, E # {}
  PROVE  First(E) \in E
<1> DEFINE N == {e[1] : e \in E}
<1>1. N \subseteq Nat /\ N # {}
  OBVIOUS
<1>2. PICK n \in N : \A k \in N : ~ (<<k, n>> \in OpToRel(<, Nat))
  BY <1>1, NatLessThanWellFounded, WFMin, Zenon
<1>3. \A k \in N : ~ (k < n)
  BY <1>1, <1>2, Zenon DEF OpToRel
<1>4. PICK e \in E : e[1] = n
  OBVIOUS
<1>5. \A f \in E : e[1] <= f[1]
  BY <1>1, <1>3, <1>4
<1> QED
  BY <1>5 DEF First

LEMMA StepLInv == LInv /\ [Next]_vars => LInv'
<1> SUFFICES ASSUME LInv, [Next]_vars
             PROVE  LInv'
  OBVIOUS
<1> USE DEF LInv, vars, locks, calls, history
<1>1. ASSUME NEW t \in Threads, NEW x \in Vars, NEW v \in Values, SetValue(t, x, v)
      PROVE  LInv'
  <2>1. TypeOK'
    BY <1>1, SetsAssumption, SMTT(30) DEF TypeOK, SetValue, Share, MayShare, Goto
  <2>2. LocksHeld' /\ ReadersExcluded' /\ HasListener'
    BY <1>1, NoneAssumption, SMTT(30) DEF TypeOK, SetValue, Share, MayShare, Goto, LocksHeld, ReadersExcluded, HasListener, InAdd
  <2>3. RemovedNotTold'
    BY <1>1, SMTT(30) DEF TypeOK, SetValue, Goto, RemovedNotTold
  <2> QED BY <2>1, <2>2, <2>3
<1>2. ASSUME NEW t \in Threads, Tell(t)
      PROVE  LInv'
  <2> DEFINE e == First(todo[t])
  <2>1. e \in todo[t] /\ e \in Nat \X Listeners
    <3>1. todo[t] \subseteq Nat \X Listeners /\ todo[t] # {}
      BY <1>2 DEF Tell, TypeOK
    <3> QED BY <3>1, FirstIsEntry
  <2>2. told' = [told EXCEPT ![e[2]] = new[t]]
    BY <1>2 DEF Tell
  <2>3. CASE e[2] \in Throwing
    <3>1. /\ Unshare(t, var[t])
          /\ todo' = [todo EXCEPT ![t] = {}]
          /\ Goto(t, "idle")
      BY <1>2, <2>3 DEF Tell
    <3> HIDE DEF e
    <3>2. /\ e[2] \in Listeners /\ new[t] \in Values
          /\ UNCHANGED <<value, cbs, s_fun_id, var, new, adding, temp, id, home, sets>>
      BY <1>2, <2>1 DEF Tell, TypeOK
    <3>3. TypeOK'
      BY <2>2, <3>1, <3>2, SMTT(30) DEF TypeOK, Unshare, Goto
    <3>4. LocksHeld' /\ ReadersExcluded' /\ HasListener'
      <4>1. /\ readers' = [readers EXCEPT ![var[t]] = @ \ {t}]
            /\ pc' = [pc EXCEPT ![t] = "idle"]
            /\ UNCHANGED <<writer, var, adding>>
        BY <3>1, <3>2 DEF Unshare, Goto
      <4>2. /\ pc[t] = "telling"
            /\ pc \in [Threads -> {"idle", "telling", "assigning", "reading", "writing",
                                   "storing", "returning"}]
            /\ readers \in [Vars -> SUBSET Threads]
            /\ writer \in [Vars -> Threads \cup {None}]
        BY <1>2 DEF Tell, TypeOK
      <4>3. LocksHeld'
        BY <4>1, <4>2, SMTT(30) DEF LocksHeld, InAdd
      <4>4. ReadersExcluded' /\ HasListener'
        BY <4>1, <4>2, SMTT(30) DEF ReadersExcluded, HasListener, InAdd
      <4> QED BY <4>3, <4>4
    <3>5. RemovedNotTold'
      BY <3>1, <3>2, SMTT(30) DEF TypeOK, Goto, RemovedNotTold
    <3> QED BY <3>3, <3>4, <3>5
  <2>4. CASE e[2] \notin Throwing
    <3>1. /\ todo' = [todo EXCEPT ![t] = @ \ {e}]
          /\ UNCHANGED <<locks, pc>>
      BY <1>2, <2>4 DEF Tell
    <3> HIDE DEF e
    <3>2. /\ e[2] \in Listeners /\ new[t] \in Values
          /\ UNCHANGED <<value, cbs, s_fun_id, var, new, adding, temp, id, home, sets>>
      BY <1>2, <2>1 DEF Tell, TypeOK
    <3>3. TypeOK'
      BY <2>2, <3>1, <3>2, SMTT(30) DEF TypeOK
    <3>4. LocksHeld' /\ ReadersExcluded' /\ HasListener'
      BY <3>1, <3>2 DEF LocksHeld, ReadersExcluded, HasListener
    <3>5. RemovedNotTold'
      BY <3>1, <3>2, SMTT(30) DEF TypeOK, RemovedNotTold
    <3> QED BY <3>3, <3>4, <3>5
  <2> QED BY <2>3, <2>4
<1>3. ASSUME NEW t \in Threads, AllTold(t)
      PROVE  LInv'
  <2>1. TypeOK'
    BY <1>3, SMTT(30) DEF TypeOK, AllTold, EndShared, Unshare, Goto
  <2>2. LocksHeld' /\ ReadersExcluded' /\ HasListener'
    BY <1>3, SMTT(30) DEF TypeOK, AllTold, EndShared, Unshare, Goto, LocksHeld, ReadersExcluded, HasListener, InAdd
  <2>3. RemovedNotTold'
    BY <1>3, SMTT(30) DEF TypeOK, AllTold, Goto, RemovedNotTold
  <2> QED BY <2>1, <2>2, <2>3
<1>4. ASSUME NEW t \in Threads, AssignLocked(t)
      PROVE  LInv'
  <2>1. TypeOK'
    BY <1>4, SMTT(30) DEF TypeOK, AssignLocked, Assign, Goto
  <2>2. LocksHeld' /\ ReadersExcluded' /\ HasListener'
    BY <1>4, SMTT(30) DEF TypeOK, AssignLocked, Assign, Goto, LocksHeld, ReadersExcluded, HasListener, InAdd
  <2>3. RemovedNotTold'
    BY <1>4, SMTT(30) DEF TypeOK, AssignLocked, Goto, RemovedNotTold
  <2> QED BY <2>1, <2>2, <2>3
<1>5. ASSUME NEW t \in Threads, NEW x \in Vars, NEW l \in Listeners, AddListener(t, x, l)
      PROVE  LInv'
  <2>1. TypeOK'
    BY <1>5, SMTT(30) DEF TypeOK, AddListener, MayOwn, Goto
  <2>2. LocksHeld' /\ ReadersExcluded' /\ HasListener'
    BY <1>5, NoneAssumption, SMTT(30) DEF TypeOK, AddListener, MayOwn, Goto, LocksHeld, ReadersExcluded, HasListener, InAdd
  <2>3. RemovedNotTold'
    BY <1>5, SMTT(30) DEF TypeOK, AddListener, Goto, RemovedNotTold
  <2> QED BY <2>1, <2>2, <2>3
<1>6. ASSUME NEW t \in Threads, Read(t) \/ Write(t)
      PROVE  LInv'
  <2>1. TypeOK'
    BY <1>6, SMTT(30) DEF TypeOK, Read, Write, Advanced, Goto
  <2>2. LocksHeld' /\ ReadersExcluded' /\ HasListener'
    BY <1>6, SMTT(30) DEF TypeOK, Read, Write, Goto, LocksHeld, ReadersExcluded, HasListener, InAdd
  <2>3. RemovedNotTold'
    BY <1>6, SMTT(30) DEF TypeOK, Read, Write, Goto, RemovedNotTold
  <2> QED BY <2>1, <2>2, <2>3
<1>7. ASSUME NEW t \in Threads, Store(t)
      PROVE  LInv'
  <2>1. adding[t] \in Listeners
    BY <1>7 DEF Store, HasListener, InAdd
  <2>2. TypeOK'
    BY <1>7, <2>1, SMTT(30) DEF TypeOK, Store, Goto
  <2>3. LocksHeld' /\ ReadersExcluded' /\ HasListener'
    BY <1>7, SMTT(30) DEF TypeOK, Store, Goto, LocksHeld, ReadersExcluded, HasListener, InAdd
  <2>4. RemovedNotTold'
    <3>1. writer[var[t]] = t /\ readers[var[t]] = {}
      BY <1>7, NoneAssumption DEF TypeOK, Store, LocksHeld, ReadersExcluded, HasListener, InAdd
    <3>2. ASSUME NEW u \in Threads, pc'[u] = "telling"
          PROVE  pc[u] = "telling" /\ var[u] # var[t] /\ cbs'[var[u]] = cbs[var[u]]
      <4>1. u # t /\ pc'[u] = pc[u]
        BY <1>7, <3>2 DEF TypeOK, Store, Goto
      <4>2. pc[u] = "telling" /\ var[u] # var[t]
        BY <1>7, <3>1, <3>2, <4>1 DEF TypeOK, LocksHeld
      <4>3. cbs'[var[u]] = cbs[var[u]]
        BY <1>7, <4>2 DEF TypeOK, Store
      <4> QED  BY <4>2, <4>3
    <3>3. UNCHANGED <<todo, var>>
      BY <1>7 DEF Store
    <3> QED BY <3>2, <3>3 DEF RemovedNotTold
  <2> QED BY <2>2, <2>3, <2>4
<1>8. ASSUME NEW t \in Threads, Return(t)
      PROVE  LInv'
  <2>1. TypeOK'
    <3>1. s_fun_id \in Nat /\ id' \in [Listeners -> Nat]
      BY <1>8 DEF TypeOK, Return
    <3>2. writer' \in [Vars -> Threads \cup {None}]
      BY <1>8 DEF TypeOK, Return
    <3>3. adding' \in [Threads -> Listeners \cup {None}]
      BY <1>8 DEF TypeOK, Return
    <3>4. pc' \in [Threads -> {"idle", "telling", "assigning", "reading", "writing",
                             "storing", "returning"}]
      BY <1>8 DEF TypeOK, Return, Goto
    <3> QED BY <1>8, <3>1, <3>2, <3>3, <3>4 DEF TypeOK, Return
  <2>2. LocksHeld' /\ ReadersExcluded' /\ HasListener'
    BY <1>8, NoneAssumption, SMTT(30) DEF TypeOK, Return, Goto, LocksHeld, ReadersExcluded, HasListener, InAdd
  <2>3. RemovedNotTold'
    BY <1>8, SMTT(30) DEF TypeOK, Return, Goto, RemovedNotTold
  <2> QED BY <2>1, <2>2, <2>3
<1>9. ASSUME NEW t \in Threads, NEW l \in Listeners, DelListener(t, l)
      PROVE  LInv'
  <2>1. \A y \in Vars : cbs'[y] \in SUBSET cbs[y]
    BY <1>9, SMTT(30) DEF TypeOK, DelListener, Erased
  <2>2. TypeOK'
    <3>1. cbs' \in [Vars -> SUBSET (Nat \X Listeners)]
      BY <1>9, <2>1 DEF TypeOK, DelListener
    <3>2. id' \in [Listeners -> Nat]
      BY <1>9 DEF TypeOK, DelListener
    <3> QED BY <1>9, <3>1, <3>2 DEF TypeOK, DelListener
  <2>3. LocksHeld' /\ ReadersExcluded' /\ HasListener'
    BY <1>9 DEF DelListener, LocksHeld, ReadersExcluded, HasListener
  <2>4. RemovedNotTold'
    <3>1. ASSUME NEW u \in Threads, pc[u] = "telling"
          PROVE  cbs'[var[u]] = cbs[var[u]]
      BY <1>9, <3>1, SMTT(30) DEF TypeOK, DelListener, MayErase, MayOwn, LocksHeld
    <3> QED BY <1>9, <3>1 DEF DelListener, RemovedNotTold
  <2> QED BY <2>2, <2>3, <2>4
<1>10. CASE UNCHANGED vars
  BY <1>10 DEF TypeOK, LocksHeld, ReadersExcluded, HasListener, RemovedNotTold
<1> QED
  BY <1>1, <1>2, <1>3, <1>4, <1>5, <1>6, <1>7, <1>8, <1>9, <1>10
  DEF Next, Setting, Adding

(***************************************************************************)
(* Once delListener has returned the listener is not called any more,      *)
(* for any threads, variables, listeners and values: the shared lock of    *)
(* setValue and the exclusive one of delListener exclude each other        *)
(* (Config.h:323-329, 351-354).                                            *)
(***************************************************************************)
THEOREM RemovedListenerNotTold == Spec => []RemovedNotTold
<1>1. LInv => RemovedNotTold
  BY DEF LInv
<1> QED
  BY InitLInv, StepLInv, <1>1, PTL DEF Spec

(* The variables of a configuration keep their values (Config.h:277-355).  *)
THEOREM ConfigTypeCorrect == Spec => []TypeOK
<1>1. LInv => TypeOK
  BY DEF LInv
<1> QED
  BY InitLInv, StepLInv, <1>1, PTL DEF Spec

-----------------------------------------------------------------------------
(* The numbers, when the calls of addListener of type T do not overlap *)

(* The entries and the numbers returned never exceed the counter; inside   *)
(* addListener the counter is new, then it is the new entry's.             *)
CounterAhead ==
    /\ \A x \in Vars : \A e \in cbs[x] : e[1] <= s_fun_id
    /\ \A l \in Listeners : id[l] <= s_fun_id /\ (id[l] # 0 => home[l] \in Vars)
    /\ \A t \in Threads :
          /\ pc[t] \in InAdd => home[adding[t]] = var[t]
          /\ pc[t] = "writing" => temp[t] = s_fun_id
          /\ pc[t] = "storing" =>
                /\ \A x \in Vars : \A e \in cbs[x] : e[1] < s_fun_id
                /\ \A l \in Listeners : id[l] < s_fun_id
          /\ pc[t] = "returning" =>
                /\ \A l \in Listeners : <<s_fun_id, l>> \in cbs[var[t]] <=> l = adding[t]
                /\ \A l \in Listeners : id[l] < s_fun_id

NInv == LInv /\ CounterAhead /\ IdNamesListener

LEMMA InitNInv == Init => NInv
  BY InitLInv, SMTT(30) DEF Init, NInv, CounterAhead, IdNamesListener, InAdd

LEMMA StepNInv ==
  ASSUME NInv, OneAdds, OneAdds', [Next]_vars
  PROVE  NInv'
<1> USE DEF NInv, vars, locks, calls, history
<1>0. LInv /\ LInv' /\ TypeOK
  BY StepLInv DEF LInv
<1>1. ASSUME UNCHANGED <<cbs, s_fun_id, id, home, adding, temp>>,
             \A t \in Threads : pc'[t] \in InAdd => pc'[t] = pc[t] /\ var'[t] = var[t]
      PROVE  NInv'
  <2>1. CounterAhead'
    BY <1>0, <1>1, SMTT(30) DEF CounterAhead, InAdd
  <2>2. IdNamesListener'
    BY <1>1 DEF IdNamesListener
  <2> QED BY <1>0, <2>1, <2>2
<1>2. ASSUME NEW t \in Threads,
             \/ \E y \in Vars, v \in Values : SetValue(t, y, v)
             \/ Setting(t)
      PROVE  NInv'
  <2>1. \A u \in Threads : pc'[u] \in InAdd => pc'[u] = pc[u] /\ var'[u] = var[u]
    BY <1>2, <1>0, SMTT(30)
    DEF TypeOK, InAdd, SetValue, Setting, Tell, AllTold, AssignLocked, Goto
  <2>2. UNCHANGED <<cbs, s_fun_id, id, home, adding, temp>>
    BY <1>2 DEF SetValue, Setting, Tell, AllTold, AssignLocked
  <2> QED BY <1>1, <2>1, <2>2
<1>3. ASSUME NEW t \in Threads, NEW x \in Vars, NEW l \in Listeners, AddListener(t, x, l)
      PROVE  NInv'
  <2>1. pc' = [pc EXCEPT ![t] = "reading"]
    BY <1>3 DEF AddListener, Goto
  <2>2. \A u \in Threads : pc[u] \notin InAdd
    BY <1>0, <1>3, <2>1 DEF AddListener, OneAdds, InAdd, TypeOK
  <2>3. id[l] = 0
    BY <1>0, <1>3, NoneAssumption DEF AddListener, CounterAhead, TypeOK
  <2>4. CounterAhead'
    BY <1>0, <1>3, <2>1, <2>2, <2>3, SMTT(30) DEF AddListener, TypeOK, CounterAhead, InAdd
  <2>5. IdNamesListener'
    BY <1>0, <1>3, <2>3, SMTT(30) DEF AddListener, TypeOK, IdNamesListener
  <2> QED BY <1>0, <2>4, <2>5
<1>4. ASSUME NEW t \in Threads, Read(t)
      PROVE  NInv'
  <2>1. CounterAhead'
    BY <1>0, <1>4, SMTT(30) DEF Read, Goto, TypeOK, CounterAhead, InAdd
  <2>2. IdNamesListener'
    BY <1>4 DEF Read, IdNamesListener
  <2> QED BY <1>0, <2>1, <2>2
<1>5. ASSUME NEW t \in Threads, Write(t)
      PROVE  NInv'
  <2>1. \A u \in Threads : pc[u] \in InAdd => u = t
    BY <1>5 DEF Write, InAdd, OneAdds
  <2>2. s_fun_id' = s_fun_id + 1
    BY <1>5 DEF Write, Advanced, CounterAhead
  <2>3. CounterAhead'
    BY <1>0, <1>5, <2>1, <2>2, SMTT(30) DEF Write, Goto, TypeOK, CounterAhead, InAdd
  <2>4. IdNamesListener'
    BY <1>5 DEF Write, IdNamesListener
  <2> QED BY <1>0, <2>3, <2>4
<1>6. ASSUME NEW t \in Threads, Store(t)
      PROVE  NInv'
  <2>1. \A u \in Threads : pc[u] \in InAdd => u = t
    BY <1>6 DEF Store, InAdd, OneAdds
  <2>2. /\ cbs'[var[t]] = cbs[var[t]] \cup {<<s_fun_id, adding[t]>>}
        /\ \A x \in Vars : x # var[t] => cbs'[x] = cbs[x]
    BY <1>0, <1>6, SMTT(30) DEF Store, TypeOK, CounterAhead
  <2>3. adding[t] \in Listeners /\ home[adding[t]] = var[t]
    BY <1>0, <1>6 DEF Store, LInv, HasListener, InAdd, CounterAhead
  <2>4. CounterAhead'
    BY <1>0, <1>6, <2>1, <2>2, <2>3, SMTT(30) DEF Store, Goto, TypeOK, CounterAhead, InAdd
  <2>5. IdNamesListener'
    BY <1>0, <1>6, <2>2, <2>3, SMTT(30) DEF Store, TypeOK, CounterAhead, IdNamesListener
  <2> QED BY <1>0, <2>4, <2>5
<1>7. ASSUME NEW t \in Threads, Return(t)
      PROVE  NInv'
  <2>1. \A u \in Threads : pc[u] \in InAdd => u = t
    BY <1>7 DEF Return, InAdd, OneAdds
  <2>2. adding[t] \in Listeners /\ home[adding[t]] = var[t]
    BY <1>0, <1>7 DEF Return, LInv, HasListener, InAdd, CounterAhead
  <2>3. CounterAhead'
    BY <1>0, <1>7, <2>1, <2>2, SMTT(30) DEF Return, Goto, TypeOK, CounterAhead, InAdd
  <2>4. IdNamesListener'
    BY <1>0, <1>7, <2>2, SMTT(30) DEF Return, TypeOK, CounterAhead, IdNamesListener
  <2> QED BY <1>0, <2>3, <2>4
<1>8. ASSUME NEW t \in Threads, NEW l \in Listeners, DelListener(t, l)
      PROVE  NInv'
  <2>1. home[l] \in Vars /\ id[l] # 0
    BY <1>0, <1>8 DEF DelListener, CounterAhead
  <2>2. \A u \in Threads : pc[u] \in InAdd => var[u] # home[l]
    BY <1>0, <1>8, <2>1, NoneAssumption
    DEF DelListener, MayErase, MayOwn, LInv, LocksHeld, TypeOK
  <2>3. /\ cbs'[home[l]] = {e \in cbs[home[l]] : e[1] # id[l]}
        /\ \A x \in Vars : x # home[l] => cbs'[x] = cbs[x]
    BY <1>0, <1>8, <2>1 DEF DelListener, Erased, TypeOK
  <2>4. CounterAhead'
    BY <1>0, <1>8, <2>2, <2>3, SMTT(30) DEF DelListener, TypeOK, CounterAhead, InAdd
  <2>5. IdNamesListener'
    BY <1>0, <1>8, <2>1, <2>3, SMTT(30) DEF DelListener, TypeOK, CounterAhead, IdNamesListener
  <2> QED BY <1>0, <2>4, <2>5
<1>9. CASE UNCHANGED vars
  BY <1>1, <1>9
<1> QED
  BY <1>2, <1>3, <1>4, <1>5, <1>6, <1>7, <1>8, <1>9 DEF Next, Adding

(***************************************************************************)
(* As long as no two calls of addListener overlap, of the same or of two   *)
(* variables of the type, the number addListener returns is its listener's *)
(* and nobody else's, for any threads, variables and listeners: so         *)
(* delListener removes what its caller added (Config.h:339-354).  Where    *)
(* they may overlap only those of one variable exclude each other.         *)
(***************************************************************************)
THEOREM NumbersNameListeners == Spec => IdsNameListeners
<1>1. Init => NInv
  BY InitNInv
<1>2. NInv /\ OneAdds /\ OneAdds' /\ [Next]_vars => NInv'
  BY StepNInv
<1>3. NInv => IdNamesListener
  BY DEF NInv
<1> QED
  BY <1>1, <1>2, <1>3, PTL DEF Spec, IdsNameListeners

-----------------------------------------------------------------------------
(* What the listeners were told, when one thread sets *)

IsSetting(t) == pc[t] \in {"telling", "assigning"}

(* A listener is entered once, in the variable it was added to, and only    *)
(* then told anything.                                                      *)
EnteredOnce ==
    /\ \A x \in Vars : \A e \in cbs[x] : home[e[2]] = x
    /\ \A l \in Listeners : home[l] = None => told[l] = None
    /\ \A t \in Threads : pc[t] \in InAdd => home[adding[t]] = var[t]
    /\ \A t, u \in Threads :
          pc[t] \in InAdd /\ pc[u] \in InAdd /\ adding[t] = adding[u] => t = u

(* Until then it has been told nothing.                                     *)
NotYetTold ==
    \A t \in Threads : pc[t] \in {"reading", "writing", "storing"} =>
        /\ told[adding[t]] = None
        /\ \A x \in Vars : \A e \in cbs[x] : e[2] # adding[t]

OnlySetters == \A t \in Threads : IsSetting(t) => t \in Setters

(* During setValue those of the listeners that are not before it any more   *)
(* have been told the new value; between its two locks all have, except     *)
(* one that comes in between and knows of nothing; before and after, what   *)
(* a listener knows is the variable's value.                                *)
KnowsValue(x) ==
    Quiet(x) =>
        /\ Settled(x) => \A e \in cbs[x] : told[e[2]] \in {None, value[x]}
        /\ \A t \in Threads : pc[t] = "telling" /\ var[t] = x =>
              \A e \in cbs[x] \ todo[t] : told[e[2]] = new[t]
        /\ \A t \in Threads : pc[t] = "assigning" /\ var[t] = x =>
              \A e \in cbs[x] : told[e[2]] \in {None, new[t]}

Entered == EnteredOnce /\ NotYetTold /\ OnlySetters

KInv == LInv /\ Entered /\ \A x \in Vars : KnowsValue(x)

LEMMA InitKInv == Init => KInv
<1> SUFFICES ASSUME Init PROVE KInv
  OBVIOUS
<1>1. LInv
  BY InitLInv
<1>2. /\ \A x \in Vars : cbs[x] = {}
      /\ \A l \in Listeners : told[l] = None
      /\ \A t \in Threads : pc[t] = "idle"
  BY DEF Init
<1>3. Entered
  BY <1>2 DEF Entered, EnteredOnce, NotYetTold, OnlySetters, IsSetting, InAdd
<1>4. \A x \in Vars : KnowsValue(x)
  BY <1>2 DEF KnowsValue
<1> QED  BY <1>1, <1>3, <1>4 DEF KInv

LEMMA StepEntered ==
  ASSUME LInv, Entered, [Next]_vars
  PROVE  Entered'
<1> USE DEF vars, locks, calls, history
<1>0. TypeOK
  BY DEF LInv
<1>1. ASSUME UNCHANGED <<cbs, home, told, var, adding>>,
             \A u \in Threads :
                /\ pc'[u] \in InAdd => pc[u] \in InAdd
                /\ pc'[u] \in {"reading", "writing", "storing"} =>
                      pc[u] \in {"reading", "writing", "storing"}
                /\ pc'[u] \in {"telling", "assigning"} =>
                      pc[u] \in {"telling", "assigning"}
      PROVE  Entered'
  BY <1>1 DEF Entered, EnteredOnce, NotYetTold, OnlySetters, IsSetting
<1>2. ASSUME NEW t \in Threads, NEW x \in Vars, NEW v \in Values, SetValue(t, x, v)
      PROVE  Entered'
  <2>1. /\ UNCHANGED <<cbs, home, told, adding>> /\ t \in Setters
        /\ \A u \in Threads : u # t => pc'[u] = pc[u] /\ var'[u] = var[u]
        /\ pc'[t] = "telling"
    BY <1>0, <1>2 DEF SetValue, Goto, TypeOK
  <2> QED  BY <2>1 DEF Entered, EnteredOnce, NotYetTold, OnlySetters, IsSetting, InAdd
<1>3. ASSUME NEW t \in Threads, Tell(t)
      PROVE  Entered'
  <2> DEFINE e == First(todo[t])
  <2>1. e \in cbs[var[t]] /\ e[2] \in Listeners /\ var[t] \in Vars
    <3>1. todo[t] \subseteq Nat \X Listeners /\ todo[t] # {} /\ var[t] \in Vars
          /\ todo[t] \subseteq cbs[var[t]]
      BY <1>0, <1>3 DEF Tell, TypeOK, LInv, RemovedNotTold
    <3> QED  BY <3>1, FirstIsEntry
  <2>2. /\ told' = [told EXCEPT ![e[2]] = new[t]]
        /\ UNCHANGED <<cbs, home, var, adding>>
        /\ pc[t] = "telling" /\ (pc' = pc \/ pc' = [pc EXCEPT ![t] = "idle"])
    BY <1>3 DEF Tell, Goto
  <2> HIDE DEF e
  <2>3. \A u \in Threads : pc'[u] = pc[u] \/ pc'[u] = "idle"
    BY <1>0, <2>2 DEF TypeOK
  <2>4. \A l \in Listeners : l # e[2] => told'[l] = told[l]
    BY <1>0, <2>2 DEF TypeOK
  <2>5. ASSUME NEW u \in Threads, pc'[u] \in {"reading", "writing", "storing"}
        PROVE  told'[adding[u]] = None /\ \A x \in Vars : \A f \in cbs[x] : f[2] # adding[u]
    <3>1. pc[u] \in {"reading", "writing", "storing"}
      BY <2>3, <2>5
    <3>2. adding[u] \in Listeners
      BY <3>1 DEF LInv, HasListener, InAdd
    <3> QED  BY <2>1, <2>4, <3>1, <3>2 DEF Entered, NotYetTold
  <2>6. \A l \in Listeners : home[l] = None => told'[l] = None
    BY <2>1, <2>4, NoneAssumption DEF Entered, EnteredOnce
  <2> QED
    BY <2>2, <2>3, <2>5, <2>6
    DEF Entered, EnteredOnce, NotYetTold, OnlySetters, IsSetting, InAdd
<1>4. ASSUME NEW t \in Threads, AllTold(t) \/ AssignLocked(t) \/ Read(t) \/ Write(t)
      PROVE  Entered'
  <2>1. /\ UNCHANGED <<cbs, home, told, var, adding>>
        /\ \A u \in Threads : u # t => pc'[u] = pc[u]
    BY <1>0, <1>4 DEF AllTold, AssignLocked, Read, Write, Goto, TypeOK
  <2>2. \/ pc[t] = "telling" /\ pc'[t] = "assigning"
        \/ pc'[t] = "idle"
        \/ pc[t] = "reading" /\ pc'[t] = "writing"
        \/ pc[t] = "writing" /\ pc'[t] = "storing"
    BY <1>0, <1>4 DEF AllTold, AssignLocked, Read, Write, Goto, TypeOK
  <2> QED  BY <1>1, <2>1, <2>2 DEF InAdd
<1>5. ASSUME NEW t \in Threads, NEW x \in Vars, NEW l \in Listeners, AddListener(t, x, l)
      PROVE  Entered'
  <2>1. /\ UNCHANGED <<cbs, told>> /\ home[l] = None
        /\ pc[t] = "idle" /\ pc'[t] = "reading" /\ var'[t] = x /\ adding'[t] = l
        /\ home'[l] = x
        /\ \A u \in Threads : u # t => /\ pc'[u] = pc[u] /\ var'[u] = var[u]
                                       /\ adding'[u] = adding[u]
        /\ \A k \in Listeners : k # l => home'[k] = home[k]
    BY <1>0, <1>5 DEF AddListener, Goto, TypeOK
  <2>2. /\ \A y \in Vars : y # None /\ \A e \in cbs[y] : e[2] \in Listeners
        /\ \A u \in Threads : pc[u] \in InAdd => adding[u] \in Listeners /\ var[u] # None
    BY <1>0, NoneAssumption DEF TypeOK, LInv, HasListener
  <2>3. /\ \A y \in Vars : \A e \in cbs[y] : e[2] # l
        /\ \A u \in Threads : pc[u] \in InAdd => adding[u] # l
    BY <2>1, <2>2 DEF Entered, EnteredOnce
  <2>4. told[l] = None
    BY <2>1 DEF Entered, EnteredOnce
  <2> QED
    BY <2>1, <2>2, <2>3, <2>4
    DEF Entered, EnteredOnce, NotYetTold, OnlySetters, IsSetting, InAdd
<1>6. ASSUME NEW t \in Threads, Store(t)
      PROVE  Entered'
  <2> DEFINE l == adding[t]
  <2> DEFINE x == var[t]
  <2>1. /\ UNCHANGED <<home, told, var, adding>>
        /\ pc[t] = "storing" /\ pc'[t] = "returning"
        /\ \A u \in Threads : u # t => pc'[u] = pc[u]
        /\ x \in Vars
        /\ \A y \in Vars \ {x} : cbs'[y] = cbs[y]
        /\ cbs'[x] = {e \in cbs[x] : e[1] # s_fun_id} \cup {<<s_fun_id, l>>}
    BY <1>0, <1>6 DEF Store, Goto, TypeOK
  <2>2. home[l] = x /\ \A u \in Threads : pc[u] \in InAdd /\ adding[u] = l => u = t
    BY <2>1 DEF Entered, EnteredOnce, InAdd
  <2>3. <<s_fun_id, l>>[2] = l
    OBVIOUS
  <2> HIDE DEF l, x
  <2>4. \A y \in Vars : \A e \in cbs'[y] : e \in cbs[y] \/ (y = x /\ e[2] = l)
    BY <2>1, <2>3
  <2>5. \A y \in Vars : \A e \in cbs'[y] : home'[e[2]] = y
    BY <2>1, <2>2, <2>4 DEF Entered, EnteredOnce
  <2>6. ASSUME NEW u \in Threads, pc'[u] \in {"reading", "writing", "storing"}
        PROVE  told'[adding'[u]] = None
               /\ \A y \in Vars : \A f \in cbs'[y] : f[2] # adding'[u]
    <3>1. u # t /\ pc[u] \in {"reading", "writing", "storing"}
      BY <2>1, <2>6
    <3>2. adding[u] # l
      BY <2>2, <3>1 DEF InAdd
    <3> QED  BY <2>1, <2>4, <3>1, <3>2 DEF Entered, NotYetTold
  <2>7. \A u \in Threads : pc'[u] \in InAdd => pc[u] \in InAdd
    BY <2>1 DEF InAdd
  <2>8. \A u \in Threads : IsSetting(u)' => IsSetting(u)
    BY <2>1 DEF IsSetting
  <2> QED
    BY <2>1, <2>5, <2>6, <2>7, <2>8
    DEF Entered, EnteredOnce, NotYetTold, OnlySetters
<1>7. ASSUME NEW t \in Threads, Return(t)
      PROVE  Entered'
  <2>1. /\ UNCHANGED <<cbs, home, told, var>>
        /\ pc'[t] = "idle"
        /\ \A u \in Threads : u # t => pc'[u] = pc[u] /\ adding'[u] = adding[u]
    BY <1>0, <1>7 DEF Return, Goto, TypeOK
  <2> QED
    BY <2>1 DEF Entered, EnteredOnce, NotYetTold, OnlySetters, IsSetting, InAdd
<1>8. ASSUME NEW t \in Threads, NEW l \in Listeners, DelListener(t, l)
      PROVE  Entered'
  <2>1. UNCHANGED <<home, told, var, adding, pc>>
    BY <1>8 DEF DelListener
  <2>2. \A y \in Vars : cbs'[y] \subseteq cbs[y]
    BY <1>0, <1>8 DEF DelListener, Erased, TypeOK
  <2> QED
    BY <2>1, <2>2 DEF Entered, EnteredOnce, NotYetTold, OnlySetters, IsSetting
<1>9. CASE UNCHANGED vars
  BY <1>1, <1>9
<1> QED
  BY <1>2, <1>3, <1>4, <1>5, <1>6, <1>7, <1>8, <1>9 DEF Next, Setting, Adding

(* One thread sets values, if any does.                                     *)
OneSetter == \A s, t \in Setters : s = t

(* A step that tells nobody and gives no variable a value, of a thread that *)
(* sets none.                                                               *)
LEMMA KeepsKnowing ==
  ASSUME LInv, LInv', NEW x \in Vars, KnowsValue(x),
         UNCHANGED <<value, new, told, todo>>,
         \A m \in Listeners : home[m] = x => home'[m] = x,
         \A u \in Threads : IsSetting(u) \/ IsSetting(u)' =>
            pc'[u] = pc[u] /\ var'[u] = var[u],
         \A e \in cbs'[x] :
            \/ e \in cbs[x]
            \/ told[e[2]] = None /\ \A u \in Threads : ~ (pc[u] = "telling" /\ var[u] = x)
  PROVE  KnowsValue(x)'
<1>1. Quiet(x)' => Quiet(x)
  BY ThrowingAssumption DEF Quiet
<1>2. Settled(x)' => Settled(x)
  BY DEF Settled, IsSetting
<1>3. ASSUME NEW u \in Threads, pc'[u] \in {"telling", "assigning"}
      PROVE  pc[u] = pc'[u] /\ var[u] = var'[u]
  BY <1>3 DEF IsSetting
<1>4. ASSUME Quiet(x)', Settled(x)'
      PROVE  \A e \in cbs'[x] : told'[e[2]] \in {None, value'[x]}
  BY <1>1, <1>2, <1>4 DEF KnowsValue
<1>5. ASSUME Quiet(x)', NEW u \in Threads, pc'[u] = "telling", var'[u] = x
      PROVE  \A e \in cbs'[x] \ todo'[u] : told'[e[2]] = new'[u]
  BY <1>1, <1>3, <1>5 DEF KnowsValue
<1>6. ASSUME Quiet(x)', NEW u \in Threads, pc'[u] = "assigning", var'[u] = x
      PROVE  \A e \in cbs'[x] : told'[e[2]] \in {None, new'[u]}
  BY <1>1, <1>3, <1>6 DEF KnowsValue
<1> QED  BY <1>4, <1>5, <1>6 DEF KnowsValue

LEMMA StepKnows ==
  ASSUME OneSetter, LInv, LInv', Entered, Entered', [Next]_vars,
         NEW x \in Vars, KnowsValue(x)
  PROVE  KnowsValue(x)'
<1> USE DEF vars, locks, calls, history
<1>0. TypeOK
  BY DEF LInv
<1>1. \A s, t \in Threads : IsSetting(s) /\ IsSetting(t) => s = t
  BY DEF OneSetter, Entered, OnlySetters
<1>2. ASSUME NEW t \in Threads, NEW y \in Vars, NEW v \in Values, SetValue(t, y, v)
      PROVE  KnowsValue(x)'
  <2>1. /\ UNCHANGED <<value, cbs, told, home>>
        /\ pc[t] = "idle" /\ pc'[t] = "telling" /\ var'[t] = y /\ todo'[t] = cbs[y]
        /\ \A u \in Threads : u # t => /\ pc'[u] = pc[u] /\ var'[u] = var[u]
                                       /\ todo'[u] = todo[u] /\ new'[u] = new[u]
    BY <1>0, <1>2 DEF SetValue, Goto, TypeOK
  <2>2. Settled(x)' => Settled(x)
    BY <2>1 DEF Settled
  <2>3. Quiet(x)' <=> Quiet(x)
    BY <2>1 DEF Quiet
  <2> QED  BY <2>1, <2>2, <2>3 DEF KnowsValue
<1>3. ASSUME NEW t \in Threads, Tell(t)
      PROVE  KnowsValue(x)'
  <2> DEFINE e == First(todo[t])
  <2>1. e \in todo[t] /\ e \in cbs[var[t]] /\ e[2] \in Listeners /\ var[t] \in Vars
    <3>1. todo[t] \subseteq Nat \X Listeners /\ todo[t] # {} /\ var[t] \in Vars
          /\ todo[t] \subseteq cbs[var[t]]
      BY <1>0, <1>3 DEF Tell, TypeOK, LInv, RemovedNotTold
    <3> QED  BY <3>1, FirstIsEntry
  <2>2. /\ told' = [told EXCEPT ![e[2]] = new[t]]
        /\ UNCHANGED <<cbs, home, var, new, value>>
        /\ pc[t] = "telling"
        /\ IF e[2] \in Throwing
           THEN todo' = [todo EXCEPT ![t] = {}] /\ pc' = [pc EXCEPT ![t] = "idle"]
           ELSE todo' = [todo EXCEPT ![t] = @ \ {e}] /\ pc' = pc
    BY <1>3 DEF Tell, Goto
  <2> HIDE DEF e
  <2>3. home[e[2]] = var[t]
    BY <2>1 DEF Entered, EnteredOnce
  <2>4. /\ \A l \in Listeners : told'[l] = IF l = e[2] THEN new[t] ELSE told[l]
        /\ \A u \in Threads : u # t => todo'[u] = todo[u] /\ pc'[u] = pc[u]
        /\ \A y \in Vars : \A f \in cbs[y] : f[2] \in Listeners
    BY <1>0, <2>1, <2>2 DEF TypeOK
  <2>5. Quiet(x)' <=> Quiet(x)
    BY <2>2 DEF Quiet
  <2>6. CASE var[t] # x
    <3>1. \A f \in cbs[x] : told'[f[2]] = told[f[2]]
      BY <2>3, <2>4, <2>6 DEF Entered, EnteredOnce
    <3>2. \A u \in Threads : var[u] = x => pc'[u] = pc[u] /\ todo'[u] = todo[u]
      BY <2>4, <2>6
    <3>3. Settled(x)' => Settled(x)
      BY <2>2, <3>2 DEF Settled
    <3> QED  BY <2>2, <2>5, <3>1, <3>2, <3>3 DEF KnowsValue
  <2>7. CASE var[t] = x
    <3>1. CASE e[2] \in Throwing
      BY <2>2, <2>3, <2>7, <3>1 DEF KnowsValue, Quiet
    <3>2. CASE e[2] \notin Throwing
      <4>1. pc' = pc /\ todo'[t] = todo[t] \ {e}
        BY <1>0, <2>2, <3>2 DEF TypeOK
      <4>2. ~Settled(x)'
        BY <2>2, <2>7, <4>1 DEF Settled
      <4>3. \A u \in Threads : pc'[u] \in {"telling", "assigning"} => u = t
        BY <1>1, <2>2, <4>1 DEF IsSetting
      <4>4. Quiet(x) => \A f \in cbs[x] \ todo[t] : told[f[2]] = new[t]
        BY <2>2, <2>7 DEF KnowsValue
      <4>5. Quiet(x) => \A f \in cbs[x] \ todo'[t] : told'[f[2]] = new[t]
        BY <2>4, <4>1, <4>4
      <4> QED  BY <2>2, <2>5, <4>1, <4>2, <4>3, <4>5 DEF KnowsValue
    <3> QED  BY <3>1, <3>2
  <2> QED  BY <2>6, <2>7
<1>4. ASSUME NEW t \in Threads, AllTold(t)
      PROVE  KnowsValue(x)'
  <2>1. /\ UNCHANGED <<value, cbs, var, new, todo, told, home>>
        /\ pc[t] = "telling" /\ todo[t] = {} /\ pc'[t] = "assigning"
        /\ \A u \in Threads : u # t => pc'[u] = pc[u]
    BY <1>0, <1>4 DEF AllTold, Goto, TypeOK
  <2>2. Settled(x)' => Settled(x)
    BY <2>1 DEF Settled
  <2>3. Quiet(x)' <=> Quiet(x)
    BY <2>1 DEF Quiet
  <2> QED  BY <2>1, <2>2, <2>3 DEF KnowsValue
<1>5. ASSUME NEW t \in Threads, AssignLocked(t)
      PROVE  KnowsValue(x)'
  <2>1. /\ UNCHANGED <<cbs, var, new, todo, told, home>>
        /\ pc[t] = "assigning" /\ pc'[t] = "idle"
        /\ \A u \in Threads : u # t => pc'[u] = pc[u]
        /\ value' = [value EXCEPT ![var[t]] = new[t]]
    BY <1>0, <1>5 DEF AssignLocked, Assign, Goto, TypeOK
  <2>2. Quiet(x)' <=> Quiet(x)
    BY <2>1 DEF Quiet
  <2>3. \A u \in Threads : pc'[u] \notin {"telling", "assigning"}
    BY <1>1, <2>1 DEF IsSetting
  <2>4. CASE var[t] = x
    <3>1. value'[x] = new[t]
      BY <1>0, <2>1, <2>4 DEF TypeOK
    <3> QED  BY <2>1, <2>2, <2>3, <2>4, <3>1 DEF KnowsValue
  <2>5. CASE var[t] # x
    <3>1. value'[x] = value[x]
      BY <1>0, <2>1, <2>5 DEF TypeOK
    <3>2. Settled(x)
      BY <1>1, <2>1, <2>5 DEF Settled, IsSetting
    <3> QED  BY <2>1, <2>2, <2>3, <3>1, <3>2 DEF KnowsValue
  <2> QED  BY <2>4, <2>5
<1>6. ASSUME NEW t \in Threads, NEW y \in Vars, NEW l \in Listeners, AddListener(t, y, l)
      PROVE  KnowsValue(x)'
  <2>1. /\ UNCHANGED <<value, cbs, new, told, todo>> /\ home[l] = None
        /\ home' = [home EXCEPT ![l] = y]
        /\ pc[t] = "idle" /\ pc'[t] = "reading"
        /\ \A u \in Threads : u # t => pc'[u] = pc[u] /\ var'[u] = var[u]
    BY <1>0, <1>6 DEF AddListener, Goto, TypeOK
  <2>2. \A m \in Listeners : home[m] = x => home'[m] = x
    BY <1>0, <2>1, NoneAssumption DEF TypeOK
  <2>3. \A u \in Threads : IsSetting(u) \/ IsSetting(u)' => u # t
    BY <2>1 DEF IsSetting
  <2> QED  BY <2>1, <2>2, <2>3, KeepsKnowing
<1>7. ASSUME NEW t \in Threads, Read(t) \/ Write(t) \/ Return(t)
      PROVE  KnowsValue(x)'
  <2>1. /\ UNCHANGED <<value, cbs, new, told, todo, home, var>>
        /\ pc[t] \in InAdd /\ pc'[t] \in InAdd \cup {"idle"}
        /\ \A u \in Threads : u # t => pc'[u] = pc[u]
    BY <1>0, <1>7 DEF Read, Write, Return, Goto, TypeOK, InAdd
  <2>2. \A u \in Threads : IsSetting(u) \/ IsSetting(u)' => u # t
    BY <2>1 DEF IsSetting, InAdd
  <2> QED  BY <2>1, <2>2, KeepsKnowing
<1>8. ASSUME NEW t \in Threads, Store(t)
      PROVE  KnowsValue(x)'
  <2>1. /\ UNCHANGED <<value, new, told, todo, home, var>>
        /\ pc[t] = "storing" /\ pc'[t] = "returning"
        /\ \A u \in Threads : u # t => pc'[u] = pc[u]
        /\ cbs' = [cbs EXCEPT ![var[t]] =
                      {e \in @ : e[1] # s_fun_id} \cup {<<s_fun_id, adding[t]>>}]
    BY <1>0, <1>8 DEF Store, Goto, TypeOK
  <2>2. \A u \in Threads : IsSetting(u) \/ IsSetting(u)' => u # t
    BY <2>1 DEF IsSetting
  <2>3. told[adding[t]] = None
    BY <2>1 DEF Entered, NotYetTold
  <2>4. ASSUME var[t] = x, NEW u \in Threads, pc[u] = "telling", var[u] = x
        PROVE  FALSE
    <3>1. writer[x] = t /\ t # None
      BY <2>1, <2>4, NoneAssumption DEF LInv, LocksHeld, InAdd
    <3>2. u \in readers[x]
      BY <2>4 DEF LInv, LocksHeld
    <3> QED  BY <3>1, <3>2 DEF LInv, ReadersExcluded
  <2>5. <<s_fun_id, adding[t]>>[2] = adding[t]
    OBVIOUS
  <2>6. \A e \in cbs'[x] : e \in cbs[x] \/ (var[t] = x /\ e[2] = adding[t])
    BY <1>0, <2>1, <2>5 DEF TypeOK
  <2> QED  BY <2>1, <2>2, <2>3, <2>4, <2>6, KeepsKnowing
<1>9. ASSUME NEW t \in Threads, NEW l \in Listeners, DelListener(t, l)
      PROVE  KnowsValue(x)'
  <2>1. UNCHANGED <<value, new, told, todo, home, var, pc>>
    BY <1>9 DEF DelListener
  <2>2. cbs'[x] \subseteq cbs[x]
    BY <1>0, <1>9 DEF DelListener, Erased, TypeOK
  <2> QED  BY <2>1, <2>2, KeepsKnowing
<1>10. CASE UNCHANGED vars
  BY <1>10, KeepsKnowing
<1> QED
  BY <1>2, <1>3, <1>4, <1>5, <1>6, <1>7, <1>8, <1>9, <1>10 DEF Next, Setting, Adding

(***************************************************************************)
(* Where one thread alone sets values, a listener was last told the value  *)
(* that its variable has, whenever no setValue is under way on it and none *)
(* of its listeners throws: although the mutex is free between telling the *)
(* listeners and the assignment, and listeners come and go at any time, on *)
(* any number of variables with one counter (Config.h:320-354).            *)
(***************************************************************************)
THEOREM ListenersKnowValue ==
  ASSUME OneSetter
  PROVE  Spec => []LastToldIsValue
<1>1. KInv /\ [Next]_vars => KInv'
  BY StepLInv, StepEntered, StepKnows DEF KInv
<1>2. ASSUME KInv
      PROVE  LastToldIsValue
  <2> SUFFICES ASSUME NEW l \in Listeners, Registered(l), told[l] # None,
                      Settled(home[l]), \A m \in Throwing : home[m] # home[l]
               PROVE  told[l] = value[home[l]]
    BY DEF LastToldIsValue
  <2>1. PICK x \in Vars : home[l] = x /\ \E e \in cbs[x] : e[2] = l
    BY DEF Registered
  <2> QED  BY <1>2, <2>1 DEF KInv, KnowsValue, Quiet
<1> QED
  BY InitKInv, <1>1, <1>2, PTL DEF Spec

-----------------------------------------------------------------------------
(* ConfigRegistry *)

Places == {"none", "looked", "making", "inserting", "describing", "visiting", "setting"}

InMake == {"making", "inserting"}

RTypes ==
    /\ datas \in [Names -> Vars \cup {NullEntry, None}]
    /\ owner \in Threads \cup {None}
    /\ sharers \subseteq Threads
    /\ at \in [Threads -> Places]
    /\ name \in [Threads -> Names \cup {None}]
    /\ target \in [Threads -> Vars \cup {None}]
    /\ left \in [Threads -> SUBSET Names]
    /\ handles \subseteq Names \X Vars
    /\ made \subseteq Vars
    /\ sure \subseteq made

(* Who makes an entry has the mutex, the name and the variable for it;     *)
(* there is no entry before, and a null one until the variable is in it.   *)
Makers ==
    \A t \in Threads :
        /\ at[t] \in InMake =>
              owner = t /\ name[t] \in Names /\ target[t] \in made
        /\ at[t] = "making" => datas[name[t]] = None
        /\ at[t] = "inserting" => datas[name[t]] = NullEntry

(* Nobody else leaves an entry null. *)
NullOwned ==
    \A n \in Names :
        datas[n] = NullEntry => \E t \in Threads : at[t] = "inserting" /\ name[t] = n

(* Who reads entries under the mutex has names of variables. *)
Readers ==
    \A t \in Threads :
        /\ at[t] = "describing" => name[t] \in Names /\ datas[name[t]] \in Vars
        /\ at[t] = "visiting" => \A n \in left[t] : datas[n] \in Vars

RInv == RTypes /\ Makers /\ NullOwned /\ Readers /\ OneVariablePerName

LEMMA InitRInv == RInit => RInv
  BY TypesAssumption, NoneAssumption
  DEF RInit, RInv, RTypes, Makers, NullOwned, Readers, OneVariablePerName, Places, InMake

LEMMA WantsNames ==
  ASSUME NEW t \in Threads, NEW c \in Wants(t)
  PROVE  c[1] \in Names /\ c[2] \in Types /\ at[t] = "none"
  BY TypesAssumption DEF Wants, MayCall, Idle

LEMMA AfterPlace == \A t : After(t) \in {"none", "looked"}
  BY DEF After

(* While nobody has the mutex exclusively no entry is null or being made.  *)
LEMMA FreeNoNull ==
  ASSUME RInv, owner = None
  PROVE  /\ \A n \in Names : datas[n] \in Vars \cup {None}
         /\ \A t \in Threads : at[t] \notin InMake
<1>1. \A t \in Threads : at[t] \notin InMake
  BY NoneAssumption DEF RInv, Makers
<1>2. \A n \in Names : datas[n] # NullEntry
  BY <1>1 DEF RInv, NullOwned, InMake
<1> QED
  BY <1>1, <1>2 DEF RInv, RTypes

LEMMA FoundStep ==
  ASSUME RInv, NEW t \in Threads, NEW n \in Names, NEW T \in Types,
         owner = None, at[t] = "none", Found(t, n, T)
  PROVE  RInv'
<1> USE AfterPlace DEF RInv
<1>1. RTypes'
  BY DEF RTypes, Found, Is, At, mutex, Places
<1>2. Makers'
  BY DEF RTypes, Makers, Found, At, mutex, InMake
<1>3. NullOwned'
  BY DEF RTypes, NullOwned, Found, At, mutex
<1>4. Readers'
  BY DEF RTypes, Readers, Found, At, mutex
<1>5. OneVariablePerName'
  BY DEF RTypes, OneVariablePerName, Found, Is, At
<1> QED
  BY <1>1, <1>2, <1>3, <1>4, <1>5

LEMMA MismatchStep ==
  ASSUME RInv, NEW t \in Threads, NEW n \in Names, NEW T \in Types,
         owner = None, at[t] = "none", Mismatch(t, n, T),
         \/ owner' = t /\ UNCHANGED sharers
         \/ UNCHANGED owner /\ sharers' = sharers \cup {t}
  PROVE  RInv'
<1>0. datas[n] \in Vars /\ \A u \in Threads : at[u] \notin InMake
  BY FreeNoNull DEF Mismatch
<1> USE DEF RInv
<1>1. RTypes'
  BY DEF RTypes, Mismatch, At, Places
<1>2. Makers'
  BY <1>0 DEF RTypes, Makers, Mismatch, At, InMake
<1>3. NullOwned'
  BY <1>0 DEF RTypes, NullOwned, Mismatch, At, InMake
<1>4. Readers'
  BY <1>0 DEF RTypes, Readers, Mismatch, At
<1>5. OneVariablePerName'
  BY DEF OneVariablePerName, Mismatch
<1> QED
  BY <1>1, <1>2, <1>3, <1>4, <1>5

LEMMA MakeStep ==
  ASSUME RInv, NEW t \in Threads, NEW n \in Names, NEW T \in Types,
         owner = None, at[t] = "none", Make(t, n, T), owner' = t, UNCHANGED sharers
  PROVE  RInv'
<1>0. datas[n] = None /\ \A u \in Threads : at[u] \notin InMake
  BY FreeNoNull DEF Make
<1>1. PICK x \in Vars : made' = made \cup {x} /\ target' = [target EXCEPT ![t] = x]
  BY DEF Make
<1>2. /\ at' = [at EXCEPT ![t] = "making"]
      /\ name' = [name EXCEPT ![t] = n]
      /\ UNCHANGED <<datas, left, handles, sure>>
  BY DEF Make, At
<1> USE DEF RInv
<1>3. RTypes'
  BY <1>1, <1>2 DEF RTypes, Places
<1>4. Makers'
  BY <1>0, <1>1, <1>2 DEF RTypes, Makers, InMake
<1>5. NullOwned'
  BY <1>0, <1>2 DEF RTypes, NullOwned, InMake
<1>6. Readers'
  BY <1>2 DEF RTypes, Readers
<1>7. OneVariablePerName'
  BY <1>2 DEF OneVariablePerName
<1> QED
  BY <1>3, <1>4, <1>5, <1>6, <1>7

LEMMA CallStep ==
  ASSUME RInv, NEW t \in Threads, Call(t)
  PROVE  RInv'
<1>1. PICK c \in Wants(t) : LookupDefault(t, c[1], c[2]) \/ Lookup(t, c[1], c[2])
  BY DEF Call
<1>2. c[1] \in Names /\ c[2] \in Types /\ at[t] = "none"
  BY WantsNames
<1>3. owner = None
  BY <1>1 DEF LookupDefault, Lookup, Exclusive, Shared
<1>4. CASE Found(t, c[1], c[2])
  BY <1>2, <1>3, <1>4, FoundStep
<1>5. CASE /\ Mismatch(t, c[1], c[2])
           /\ \/ owner' = t /\ UNCHANGED sharers
              \/ UNCHANGED owner /\ sharers' = sharers \cup {t}
  BY <1>2, <1>3, <1>5, MismatchStep
<1>6. CASE Make(t, c[1], c[2]) /\ owner' = t /\ UNCHANGED sharers
  BY <1>2, <1>3, <1>6, MakeStep
<1>7. CASE /\ At(t, After(t))
           /\ UNCHANGED <<datas, mutex, name, target, left, files, nodes, made,
                          handles, loaded, born, sure>>
  <2> USE <1>2, <1>7, AfterPlace DEF RInv, At, mutex
  <2>1. RTypes'
    BY DEF RTypes, Places
  <2>2. Makers'
    BY DEF RTypes, Makers, InMake
  <2>3. NullOwned'
    BY DEF RTypes, NullOwned
  <2>4. Readers'
    BY DEF RTypes, Readers
  <2>5. OneVariablePerName'
    BY DEF OneVariablePerName
  <2> QED
    BY <2>1, <2>2, <2>3, <2>4, <2>5
<1> QED
  BY <1>1, <1>4, <1>5, <1>6, <1>7 DEF LookupDefault, Lookup

LEMMA EnterStep ==
  ASSUME RInv, NEW t \in Threads, Enter(t)
  PROVE  RInv'
<1>0. owner = t /\ name[t] \in Names /\ target[t] \in made /\ datas[name[t]] = None
  BY DEF RInv, Makers, InMake, Enter
<1>1. \A u \in Threads : u # t => at[u] \notin InMake
  BY <1>0 DEF RInv, Makers
<1>2. /\ datas' = [datas EXCEPT ![name[t]] = NullEntry]
      /\ at' = [at EXCEPT ![t] = "inserting"]
      /\ UNCHANGED <<owner, sharers, name, target, left, handles, made, sure>>
  BY DEF Enter, At, mutex, past
<1>3. NullEntry \notin Vars /\ None \notin Vars
  BY TypesAssumption, NoneAssumption
<1> USE DEF RInv
<1>4. RTypes'
  BY <1>2 DEF RTypes, Places
<1>5. Makers'
  BY <1>0, <1>1, <1>2 DEF RTypes, Makers, InMake
<1>6. NullOwned'
  BY <1>0, <1>1, <1>2 DEF RTypes, NullOwned, InMake
<1>7. Readers'
  BY <1>0, <1>2, <1>3 DEF RTypes, Readers
<1>8. OneVariablePerName'
  BY <1>0, <1>2, <1>3 DEF RTypes, OneVariablePerName
<1> QED
  BY <1>4, <1>5, <1>6, <1>7, <1>8

LEMMA InsertStep ==
  ASSUME RInv, NEW t \in Threads, Insert(t)
  PROVE  RInv'
<1>0. /\ at[t] = "inserting" /\ owner = t /\ name[t] \in Names
      /\ target[t] \in made /\ datas[name[t]] = NullEntry
  BY DEF RInv, Makers, InMake, Insert
<1>1. \A u \in Threads : u # t => at[u] \notin InMake
  BY <1>0 DEF RInv, Makers
<1>2. /\ datas' = [datas EXCEPT ![name[t]] = target[t]]
      /\ handles' = handles \cup {<<name[t], target[t]>>}
      /\ owner' = None /\ sharers' = sharers \ {t}
      /\ at' = [at EXCEPT ![t] = After(t)]
      /\ name' = [name EXCEPT ![t] = None]
      /\ target' = [target EXCEPT ![t] = None]
      /\ UNCHANGED <<left, made>>
      /\ sure' \subseteq sure \cup {target[t]}
  BY <1>0 DEF Insert, Unlock, At
<1>3. NullEntry \notin Vars
  BY TypesAssumption
<1> USE AfterPlace DEF RInv
<1>4. target[t] \in Vars
  BY <1>0 DEF RTypes
<1>5. RTypes'
  BY <1>0, <1>2, <1>4 DEF RTypes, Places
<1>6. Makers'
  BY <1>1, <1>2 DEF RTypes, Makers, InMake
<1>7. NullOwned'
  BY <1>0, <1>1, <1>2, <1>3, <1>4 DEF RTypes, NullOwned, InMake
<1>8. Readers'
  BY <1>0, <1>2, <1>4 DEF RTypes, Readers
<1>9. OneVariablePerName'
  BY <1>0, <1>2, <1>3, <1>4 DEF RTypes, OneVariablePerName
<1> QED
  BY <1>5, <1>6, <1>7, <1>8, <1>9

LEMMA DescribeStep ==
  ASSUME RInv, NEW t \in Threads, Describe(t)
  PROVE  RInv'
<1>1. /\ at[t] = "describing"
      /\ owner' = (IF owner = t THEN None ELSE owner) /\ sharers' = sharers \ {t}
      /\ at' = [at EXCEPT ![t] = After(t)]
      /\ name' = [name EXCEPT ![t] = None]
      /\ UNCHANGED <<datas, target, left, handles, made, sure>>
  BY DEF Describe, Unlock, At, past
<1> USE AfterPlace DEF RInv
<1>2. RTypes'
  BY <1>1 DEF RTypes, Places
<1>3. Makers'
  BY <1>1 DEF RTypes, Makers, InMake
<1>4. NullOwned'
  BY <1>1 DEF RTypes, NullOwned
<1>5. Readers'
  BY <1>1 DEF RTypes, Readers
<1>6. OneVariablePerName'
  BY <1>1 DEF OneVariablePerName
<1> QED
  BY <1>2, <1>3, <1>4, <1>5, <1>6

LEMMA VisitStep ==
  ASSUME RInv, NEW t \in Threads, Visit(t)
  PROVE  RInv'
<1>1. /\ at[t] = "none" /\ owner = None
      /\ sharers' = sharers \cup {t}
      /\ left' = [left EXCEPT ![t] = {n \in Names : datas[n] # None}]
      /\ at' = [at EXCEPT ![t] = "visiting"]
      /\ UNCHANGED <<datas, owner, name, target, handles, made, sure>>
  BY DEF Visit, MayCall, Idle, Shared, At
<1>2. \A n \in Names : datas[n] # None => datas[n] \in Vars
  BY <1>1, FreeNoNull
<1> USE DEF RInv
<1>3. RTypes'
  BY <1>1 DEF RTypes, Places
<1>4. Makers'
  BY <1>1 DEF RTypes, Makers, InMake
<1>5. NullOwned'
  BY <1>1 DEF RTypes, NullOwned
<1>6. Readers'
  BY <1>1, <1>2 DEF RTypes, Readers
<1>7. OneVariablePerName'
  BY <1>1 DEF OneVariablePerName
<1> QED
  BY <1>3, <1>4, <1>5, <1>6, <1>7

LEMMA VisitNextStep ==
  ASSUME RInv, NEW t \in Threads, VisitNext(t)
  PROVE  RInv'
<1>1. /\ at[t] = "visiting"
      /\ UNCHANGED <<datas, name, target, handles, made, sure>>
  BY DEF VisitNext, past
<1>2. /\ \/ UNCHANGED <<owner, sharers>>
         \/ owner' = (IF owner = t THEN None ELSE owner) /\ sharers' = sharers \ {t}
      /\ UNCHANGED at \/ at' = [at EXCEPT ![t] = "none"]
      /\ \/ UNCHANGED left
         \/ \E n \in left[t] : left' = [left EXCEPT ![t] = @ \ {n}]
  BY DEF VisitNext, Unlock, At, mutex
<1> USE DEF RInv
<1>3. RTypes'
  BY <1>1, <1>2 DEF RTypes, Places
<1>4. Makers'
  BY <1>1, <1>2 DEF RTypes, Makers, InMake
<1>5. NullOwned'
  BY <1>1, <1>2 DEF RTypes, NullOwned
<1>6. Readers'
  BY <1>1, <1>2 DEF RTypes, Readers
<1>7. OneVariablePerName'
  BY <1>1 DEF OneVariablePerName
<1> QED
  BY <1>3, <1>4, <1>5, <1>6, <1>7

(* The other steps of a thread take no part in the making of entries.      *)
LEMMA OtherStep ==
  ASSUME RInv, NEW t \in Threads,
         UNCHANGED <<datas, owner, sharers, name, left, handles, made>>,
         sure' \subseteq sure,
         at[t] \notin InMake \cup {"describing", "visiting"},
         UNCHANGED at \/ \E p \in {"none", "setting"} : at' = [at EXCEPT ![t] = p],
         \/ UNCHANGED target
         \/ \E x \in Vars \cup {None} : target' = [target EXCEPT ![t] = x]
  PROVE  RInv'
<1> USE DEF RInv
<1>1. RTypes'
  BY DEF RTypes, Places
<1>2. Makers'
  BY DEF RTypes, Makers, InMake
<1>3. NullOwned'
  BY DEF RTypes, NullOwned, InMake
<1>4. Readers'
  BY DEF RTypes, Readers
<1>5. OneVariablePerName'
  BY DEF OneVariablePerName
<1> QED
  BY <1>1, <1>2, <1>3, <1>4, <1>5

LEMMA StillStep ==
  ASSUME RInv, UNCHANGED <<datas, owner, sharers, at, name, target, left, handles, made, sure>>
  PROVE  RInv'
<1> USE DEF RInv
<1>1. RTypes'
  BY DEF RTypes
<1>2. Makers' /\ NullOwned' /\ Readers'
  BY DEF Makers, NullOwned, Readers
<1>3. OneVariablePerName'
  BY DEF OneVariablePerName
<1> QED
  BY <1>1, <1>2, <1>3

LEMMA NextRInv == RInv /\ [RNext]_rvars => RInv'
<1> SUFFICES ASSUME RInv, [RNext]_rvars
             PROVE  RInv'
  OBVIOUS
<1>1. CASE UNCHANGED rvars
  BY <1>1, StillStep DEF rvars, registry, mutex, work, past
<1>2. ASSUME NEW t \in Threads, Step(t)
      PROVE  RInv'
  <2>1. CASE Call(t)
    BY <2>1, CallStep
  <2>2. CASE Enter(t)
    BY <2>2, EnterStep
  <2>3. CASE Insert(t)
    BY <2>3, InsertStep
  <2>4. CASE Describe(t)
    BY <2>4, DescribeStep
  <2>5. CASE Visit(t)
    BY <2>5, VisitStep
  <2>6. CASE VisitNext(t)
    BY <2>6, VisitNextStep
  <2>7. CASE \E dir \in Dirs : LoadFromConfigDir(t, dir)
    BY <2>7, StillStep DEF LoadFromConfigDir, mutex, past
  <2>8. CASE LoadFile(t)
    BY <2>8, StillStep DEF LoadFile, mutex
  <2>9. CASE LookupBase(t)
    <3>1. /\ at[t] = "none"
          /\ UNCHANGED <<datas, owner, sharers, name, left, handles, made>>
      BY <2>9 DEF LookupBase, Loading, mutex
    <3>2. /\ sure' \subseteq sure
          /\ UNCHANGED at \/ at' = [at EXCEPT ![t] = "setting"]
          /\ UNCHANGED target \/ \E x \in Vars : target' = [target EXCEPT ![t] = x]
      BY <2>9 DEF LookupBase, At
    <3> QED
      BY <3>1, <3>2, OtherStep DEF InMake
  <2>10. CASE FromString(t)
    <3>1. /\ at[t] = "setting"
          /\ UNCHANGED <<datas, owner, sharers, name, left, handles, made, sure>>
          /\ at' = [at EXCEPT ![t] = "none"]
          /\ target' = [target EXCEPT ![t] = None]
      BY <2>10 DEF FromString, At, mutex, past
    <3> QED
      BY <3>1, OtherStep DEF InMake
  <2>11. CASE Set(t)
    <3>1. UNCHANGED <<datas, owner, sharers, name, target, left, handles, made, sure>>
      BY <2>11 DEF Set, mutex, past
    <3>2. \/ UNCHANGED at
          \/ /\ at[t] = "looked"
             /\ at' = [at EXCEPT ![t] = "none"]
      BY <2>11 DEF Set, At
    <3> QED
      BY <3>1, <3>2, StillStep, OtherStep DEF InMake
  <2>12. CASE Listen(t)
    BY <2>12, StillStep DEF Listen, registry, mutex, work, past
  <2> QED
    BY <1>2, <2>1, <2>2, <2>3, <2>4, <2>5, <2>6, <2>7, <2>8, <2>9, <2>10, <2>11, <2>12
    DEF Step, LoadStep
<1> QED
  BY <1>1, <1>2 DEF RNext

(* The registry's variables keep their values, and whoever reads entries   *)
(* under its mutex finds variables in them, never the null pointer that    *)
(* operator[] leaves for a moment (Config.h:378-433; Config.cpp:73-80).    *)
THEOREM RegistryTypeCorrect == RSpec => []RegistryTypeOK
<1>1. RInv => RegistryTypeOK
  BY DEF RInv, RTypes, Readers, RegistryTypeOK, Places
<1> QED
  BY <1>1, InitRInv, NextRInv, PTL DEF RSpec

(* Two calls of Lookup for one name never return two variables, however    *)
(* many threads make entries, load files and call listeners that look up   *)
(* names in turn (Config.h:381-409).                                       *)
THEOREM LookupsAgree == RSpec => []OneVariablePerName
<1>1. RInv => OneVariablePerName
  BY DEF RInv
<1> QED
  BY <1>1, InitRInv, NextRInv, PTL DEF RSpec
-----------------------------------------------------------------------------
(* What is loaded *)

(* What a thread loads is of the files, and it has some members of the     *)
(* document that was loaded last before it: the last of them.              *)
Documents ==
    /\ loaded \in Seq(Roots)
    /\ born \in [Vars -> Nat]
    /\ files \in [Threads -> (SUBSET AllFiles) \cup {None}]
    /\ nodes \in [Threads -> Seq(Loadable)]

InOrder ==
    \A t \in Threads : nodes[t] # <<>> =>
        /\ loaded # <<>>
        /\ Len(nodes[t]) <= Len(listAllMember(loaded[Len(loaded)]))
        /\ \A i \in 1 .. Len(nodes[t]) :
              nodes[t][i] = Member(Len(loaded),
                              Len(listAllMember(loaded[Len(loaded)])) - Len(nodes[t]) + i)

(* Only setters load.  One that sets a variable found it by the name of    *)
(* the member that is next, and the variables it sets are of the registry. *)
Loaders ==
    /\ \A t \in Threads :
          files[t] # None \/ nodes[t] # <<>> \/ at[t] = "setting" => t \in Setters
    /\ \A t \in Threads : files[t] = None => nodes[t] = <<>> /\ ~ IsSetting(t)
    /\ \A t \in Threads : at[t] = "setting" =>
          /\ pc[t] = "idle"
          /\ files[t] # None
          /\ nodes[t] # <<>>
          /\ Head(nodes[t])[1] \in Names
          /\ target[t] \in Vars
          /\ datas[Head(nodes[t])[1]] = target[t]
    /\ \A t \in Threads : IsSetting(t) => \E n \in Names : datas[n] = var[t]

(* A variable has one entry or, while its entry is made, none and the      *)
(* default value.  Listeners are those of variables that were made.        *)
Entries ==
    /\ \A n \in Names : datas[n] \in Vars => datas[n] \in made
    /\ \A m, n \in Names : datas[m] = datas[n] /\ datas[n] \in Vars => m = n
    /\ \A t \in Threads : at[t] \in InMake =>
          /\ \A n \in Names : datas[n] # target[t]
          /\ value[target[t]] = DefaultOf[TypeOf[target[t]]]
    /\ \A x \in sure : \E n \in Names : datas[n] = x
    /\ \A l \in Listeners : home[l] \in made \cup {None}

(* Member j of document i has been dealt with, and read for x.             *)
Dealt(i, j) ==
    i < Len(loaded) \/ \A t \in Threads : j <= Len(listAllMember(loaded[i])) - Len(nodes[t])

WasRead(n, x, i, j) ==
    i \in Since(x) /\ j \in Positions(i) /\ Reading(n, x, i, j) /\ Dealt(i, j)

(* v is what was read last for x.                                          *)
IsLast(n, x, v) ==
    \/ /\ \A i, j \in Nat : ~ WasRead(n, x, i, j)
       /\ v = DefaultOf[TypeOf[x]]
    \/ \E i, j \in Nat :
          /\ WasRead(n, x, i, j)
          /\ v = ReadAt(x, i, j)
          /\ \A k, m \in Nat : WasRead(n, x, k, m) => k < i \/ (k = i /\ m <= j)

(* The value, or the one it is about to get, is what was read last.        *)
UpToDate ==
    \A n \in Names : datas[n] \in sure \ raced /\ Quiet(datas[n]) =>
        /\ Settled(datas[n]) => IsLast(n, datas[n], value[datas[n]])
        /\ \A t \in Threads : IsSetting(t) /\ var[t] = datas[n] => IsLast(n, datas[n], new[t])

VInv == RInv /\ LInv /\ Entered /\ Documents /\ Loaders /\ Entries

LEMMA InitVInv == RInit => VInv
<1> SUFFICES ASSUME RInit PROVE VInv
  OBVIOUS
<1>1. RInv /\ LInv /\ Entered
  BY InitRInv, InitKInv DEF RInit, KInv
<1>2. Documents
  <2>1. loaded = <<>> /\ born = [x \in Vars |-> 0] /\ nodes = [t \in Threads |-> <<>>]
        /\ files = [t \in Threads |-> None]
    BY DEF RInit
  <2>2. loaded \in Seq(Roots) /\ \A t \in Threads : nodes[t] \in Seq(Loadable)
    <3>1. <<>> \in Seq(Roots) /\ <<>> \in Seq(Loadable)
      OBVIOUS
    <3>2. \A t \in Threads : nodes[t] = <<>>
      BY <2>1
    <3> QED BY <2>1, <3>1, <3>2, Zenon
  <2>3. files \in [Threads -> (SUBSET AllFiles) \cup {None}] /\ born \in [Vars -> Nat]
    BY <2>1
  <2>4. nodes \in [Threads -> Seq(Loadable)]
    BY <2>1, <2>2
  <2> QED BY <2>2, <2>3, <2>4 DEF Documents
<1>4. Loaders
  BY DEF RInit, Init, Loaders, IsSetting
<1>5. Entries
  BY NoneAssumption DEF RInit, Init, Entries, InMake
<1> QED
  BY <1>1, <1>2, <1>4, <1>5 DEF VInv

(* What a variable that is made changes of the variables.                  *)
GetsDefault(x) ==
    /\ x \in Vars \ made
    /\ value' = [value EXCEPT ![x] = DefaultOf[TypeOf[x]]]
    /\ UNCHANGED <<cbs, s_fun_id, locks, calls, id, history>>

LEMMA CastValue ==
  ASSUME VInv, NEW t \in Threads, at[t] = "setting"
  PROVE  /\ target[t] \in Vars /\ TypeOf[target[t]] \in Types
         /\ nodes[t] \in Seq(Loadable) /\ nodes[t] # <<>> /\ Head(nodes[t]) \in Loadable
         /\ FromStr(TypeOf[target[t]], TextOf(Head(nodes[t])[2])) \in Values \cup {NoValue}
<1>1. target[t] \in Vars /\ nodes[t] \in Seq(Loadable) /\ nodes[t] # <<>>
  BY DEF VInv, Loaders, Documents
<1>2. Head(nodes[t]) \in Loadable
  BY <1>1
<1>3. TypeOf[target[t]] \in Types
  BY <1>1, TypesAssumption
<1> QED
  BY <1>1, <1>2, <1>3, MembersAssumption

(* What a step of the registry is for the variables.                       *)

LEMMA VariablesStep ==
  ASSUME VInv, NEW t \in Threads, Step(t)
  PROVE  \/ [Next]_vars
         \/ \E x \in Vars : GetsDefault(x)
<1>1. ASSUME Call(t)
      PROVE  UNCHANGED vars \/ \E x \in Vars : GetsDefault(x)
  <2>1. PICK c \in Wants(t) : LookupDefault(t, c[1], c[2]) \/ Lookup(t, c[1], c[2])
    BY <1>1 DEF Call
  <2>2. CASE UNCHANGED vars
    BY <2>2
  <2>3. CASE /\ Make(t, c[1], c[2])
             /\ UNCHANGED <<cbs, s_fun_id, locks, calls, id, history>>
    <3> DEFINE unmade == {x \in Vars \ made : TypeOf[x] = c[2]}
    <3> DEFINE y == CHOOSE x \in unmade : TRUE
    <3>1. y \in unmade
      BY <2>3 DEF Make
    <3>2. value' = [value EXCEPT ![y] = DefaultOf[c[2]]]
      BY <2>3 DEF Make
    <3> HIDE DEF y
    <3>3. y \in Vars \ made /\ TypeOf[y] = c[2]
      BY <3>1
    <3> QED
      BY <2>3, <3>2, <3>3 DEF GetsDefault
  <2> QED
    BY <2>1, <2>2, <2>3 DEF LookupDefault, Lookup
<1>2. ASSUME \/ Enter(t) \/ Insert(t) \/ Describe(t) \/ Visit(t) \/ VisitNext(t)
             \/ \E dir \in Dirs : LoadFromConfigDir(t, dir)
             \/ LoadFile(t) \/ LookupBase(t)
      PROVE  UNCHANGED vars
  BY <1>2 DEF Enter, Insert, Describe, Visit, VisitNext, LoadFromConfigDir, LoadFile, LookupBase
<1>3. ASSUME FromString(t)
      PROVE  [Next]_vars
  <2> DEFINE v == FromStr(TypeOf[target[t]], TextOf(Head(nodes[t])[2]))
  <2>1. at[t] = "setting" /\ (UNCHANGED vars \/ (v # NoValue /\ SetValue(t, target[t], v)))
    BY <1>3 DEF FromString
  <2>2. target[t] \in Vars /\ v \in Values \cup {NoValue}
    BY <2>1, CastValue
  <2> HIDE DEF v
  <2> QED
    BY <2>1, <2>2 DEF Next
<1>4. ASSUME Set(t)
      PROVE  [Next]_vars
  BY <1>4 DEF Set, Next
<1>5. ASSUME Listen(t)
      PROVE  [Next]_vars
  BY <1>5, TypesAssumption DEF Listen, Next
<1> QED
  BY <1>1, <1>2, <1>3, <1>4, <1>5 DEF Step, LoadStep

LEMMA DefaultKeeps ==
  ASSUME LInv, Entered, NEW x \in Vars, GetsDefault(x)
  PROVE  LInv' /\ Entered'
<1>1. value' \in [Vars -> Values]
  BY TypesAssumption DEF GetsDefault, LInv, TypeOK
<1>2. UNCHANGED <<cbs, s_fun_id, readers, writer, pc, var, new, todo, adding, temp, id,
                  home, told, sets>>
  BY DEF GetsDefault, locks, calls, history
<1>3. LInv'
  BY <1>1, <1>2
  DEF LInv, TypeOK, LocksHeld, ReadersExcluded, HasListener, RemovedNotTold, InAdd
<1>4. Entered'
  BY <1>2 DEF Entered, EnteredOnce, NotYetTold, OnlySetters, IsSetting, InAdd
<1> QED
  BY <1>3, <1>4

LEMMA VariablesKeep ==
  ASSUME VInv, NEW t \in Threads, Step(t)
  PROVE  LInv' /\ Entered'
BY VariablesStep, DefaultKeeps, StepLInv, StepEntered DEF VInv

-----------------------------------------------------------------------------
(* A step of one thread *)

(* It leaves the others where they are.                                    *)
OthersStay(t) ==
    \A u \in Threads : u # t =>
        /\ pc'[u] = pc[u] /\ var'[u] = var[u] /\ new'[u] = new[u]
        /\ at'[u] = at[u] /\ name'[u] = name[u] /\ target'[u] = target[u]
        /\ files'[u] = files[u] /\ nodes'[u] = nodes[u]

LEMMA ListenerCalls ==
  ASSUME TypeOK, NEW t \in Threads, Set(t) \/ Listen(t) \/ FromString(t)
  PROVE  \A u \in Threads : u # t =>
            pc'[u] = pc[u] /\ var'[u] = var[u] /\ new'[u] = new[u]
<1> USE DEF TypeOK, vars, locks, calls, history, Goto
<1>1. CASE Tell(t) \/ AllTold(t) \/ AssignLocked(t)
  BY <1>1 DEF Tell, AllTold, AssignLocked
<1>2. CASE Adding(t)
  BY <1>2 DEF Adding, Read, Write, Store, Return
<1>3. CASE \E l \in Listeners : DelListener(t, l)
  BY <1>3 DEF DelListener
<1>4. CASE \E x \in Vars, l \in Listeners : AddListener(t, x, l)
  BY <1>4 DEF AddListener
<1>5. CASE \E x, v : SetValue(t, x, v)
  BY <1>5 DEF SetValue
<1>6. CASE UNCHANGED vars
  BY <1>6
<1> QED
  BY TypesAssumption, <1>1, <1>2, <1>3, <1>4, <1>5, <1>6 DEF Set, Setting, Listen, FromString

LEMMA OthersStayPut ==
  ASSUME VInv, NEW t \in Threads, Step(t)
  PROVE  OthersStay(t)
<1>0. /\ TypeOK
      /\ at \in [Threads -> Places] /\ name \in [Threads -> Names \cup {None}]
      /\ target \in [Threads -> Vars \cup {None}]
      /\ files \in [Threads -> (SUBSET AllFiles) \cup {None}]
      /\ nodes \in [Threads -> Seq(Loadable)]
  BY DEF VInv, LInv, RInv, RTypes, Documents
<1> USE DEF vars, locks, calls, history, At, mutex, past, work, registry
<1>1. CASE Call(t)
  <2>1. PICK c \in Wants(t) : LookupDefault(t, c[1], c[2]) \/ Lookup(t, c[1], c[2])
    BY <1>1 DEF Call
  <2>2. UNCHANGED <<calls, files, nodes>>
    BY <2>1 DEF LookupDefault, Lookup, Found, Mismatch, Make
  <2>3. \A u \in Threads : u # t => at'[u] = at[u] /\ name'[u] = name[u] /\ target'[u] = target[u]
    BY <1>0, <2>1 DEF LookupDefault, Lookup, Found, Mismatch, Make
  <2> QED
    BY <2>2, <2>3 DEF OthersStay
<1>2. CASE Enter(t) \/ Insert(t) \/ Describe(t) \/ Visit(t) \/ VisitNext(t)
  <2>1. UNCHANGED <<calls, files, nodes>>
    BY <1>2 DEF Enter, Insert, Describe, Visit, VisitNext
  <2>2. \A u \in Threads : u # t => at'[u] = at[u] /\ name'[u] = name[u] /\ target'[u] = target[u]
    BY <1>0, <1>2 DEF Enter, Insert, Describe, Visit, VisitNext
  <2> QED
    BY <2>1, <2>2 DEF OthersStay
<1>3. CASE (\E dir \in Dirs : LoadFromConfigDir(t, dir)) \/ LoadFile(t) \/ LookupBase(t)
  <2>1. UNCHANGED <<calls, name>>
    BY <1>3 DEF LoadFromConfigDir, LoadFile, LookupBase
  <2>2. \A u \in Threads : u # t => /\ at'[u] = at[u] /\ target'[u] = target[u]
                                    /\ files'[u] = files[u] /\ nodes'[u] = nodes[u]
    BY <1>0, <1>3 DEF LoadFromConfigDir, LoadFile, LookupBase, NextNode
  <2> QED
    BY <2>1, <2>2 DEF OthersStay
<1>4. CASE FromString(t)
  <2>1. \A u \in Threads : u # t => /\ at'[u] = at[u] /\ target'[u] = target[u] /\ name'[u] = name[u]
                                    /\ files'[u] = files[u] /\ nodes'[u] = nodes[u]
    BY <1>0, <1>4 DEF FromString, NextNode
  <2> QED
    BY <1>0, <1>4, <2>1, ListenerCalls DEF OthersStay
<1>5. CASE Set(t) \/ Listen(t)
  <2>1. \A u \in Threads : u # t => /\ at'[u] = at[u] /\ target'[u] = target[u] /\ name'[u] = name[u]
                                    /\ files'[u] = files[u] /\ nodes'[u] = nodes[u]
    BY <1>0, <1>5 DEF Set, Listen
  <2> QED
    BY <1>0, <1>5, <2>1, ListenerCalls DEF OthersStay
<1> QED
  BY <1>1, <1>2, <1>3, <1>4, <1>5 DEF Step, LoadStep

LEMMA DocumentsStep ==
  ASSUME VInv, NEW t \in Threads, Step(t)
  PROVE  Documents'
<1> USE DEF Documents, mutex, past, work, registry
<1>0. Documents
  BY DEF VInv
<1>1. ASSUME \/ Call(t) \/ Enter(t) \/ Describe(t) \/ Visit(t) \/ VisitNext(t)
             \/ Set(t) \/ Listen(t)
      PROVE  UNCHANGED <<loaded, born, files, nodes>>
  BY <1>1 DEF Call, LookupDefault, Lookup, Found, Mismatch, Make, Enter, Describe, Visit, VisitNext,
              Set, Listen
<1>2. CASE Insert(t)
  <2>1. Len(loaded) \in Nat
    BY <1>0
  <2> QED
    BY <1>0, <1>2, <2>1 DEF Insert
<1>3. CASE \E dir \in Dirs : LoadFromConfigDir(t, dir)
  <2>1. PICK dir \in Dirs : LoadFromConfigDir(t, dir)
    BY <1>3
  <2>2. ListAllFiles(dir) \subseteq AllFiles
    BY DEF AllFiles
  <2> QED
    BY <1>0, <2>1, <2>2 DEF LoadFromConfigDir
<1>4. CASE LoadFile(t)
  <2>1. files[t] \in SUBSET AllFiles
    BY <1>0, <1>4 DEF LoadFile, Loading
  <2>2. CASE \E f \in files[t] :
               /\ files' = [files EXCEPT ![t] = @ \ {f}]
               /\ IF f.root = Broken
                  THEN UNCHANGED <<nodes, loaded>>
                  ELSE /\ nodes' = [nodes EXCEPT ![t] = listAllMember(f.root)]
                       /\ loaded' = Append(loaded, f.root)
    <3>1. PICK f \in files[t] :
               /\ files' = [files EXCEPT ![t] = @ \ {f}]
               /\ IF f.root = Broken
                  THEN UNCHANGED <<nodes, loaded>>
                  ELSE /\ nodes' = [nodes EXCEPT ![t] = listAllMember(f.root)]
                       /\ loaded' = Append(loaded, f.root)
      BY <2>2
    <3>2. files' \in [Threads -> (SUBSET AllFiles) \cup {None}]
      BY <1>0, <2>1, <3>1
    <3>3. f.root # Broken => f.root \in Roots
      BY <2>1, <3>1 DEF Roots
    <3>4. f.root # Broken => listAllMember(f.root) \in Seq(Loadable)
      BY <3>3, MembersAssumption
    <3>5. loaded' \in Seq(Roots) /\ nodes' \in [Threads -> Seq(Loadable)]
      <4>1. CASE f.root = Broken
        BY <1>0, <3>1, <4>1
      <4>2. CASE f.root # Broken
        <5>1. loaded' = Append(loaded, f.root) /\ nodes' = [nodes EXCEPT ![t] = listAllMember(f.root)]
          BY <3>1, <4>2
        <5>2. loaded' \in Seq(Roots)
          BY <1>0, <3>3, <4>2, <5>1
        <5>3. nodes' \in [Threads -> Seq(Loadable)]
          BY <1>0, <3>4, <4>2, <5>1
        <5> QED BY <5>2, <5>3
      <4> QED BY <4>1, <4>2
    <3> QED
      BY <1>0, <1>4, <3>2, <3>5 DEF LoadFile
  <2>3. CASE files' = [files EXCEPT ![t] = None] /\ UNCHANGED <<nodes, loaded>>
    BY <1>0, <1>4, <2>3 DEF LoadFile
  <2> QED
    BY <1>4, <2>2, <2>3 DEF LoadFile
<1>5. CASE LookupBase(t) \/ FromString(t)
  <2>1. UNCHANGED <<loaded, born, files>>
    BY <1>5 DEF LookupBase, FromString
  <2>2. nodes[t] # <<>>
    BY <1>5 DEF LookupBase, FromString, VInv, Loaders
  <2>3. nodes' = nodes \/ nodes' = [nodes EXCEPT ![t] = Tail(nodes[t])]
    BY <1>5 DEF LookupBase, FromString, NextNode
  <2>4. Tail(nodes[t]) \in Seq(Loadable)
    BY <1>0, <2>2
  <2> QED
    BY <1>0, <2>1, <2>3, <2>4
<1> QED
  BY <1>0, <1>1, <1>2, <1>3, <1>4, <1>5 DEF Step, LoadStep

LEMMA DatasStep ==
  ASSUME VInv, NEW t \in Threads, Step(t)
  PROVE  /\ (UNCHANGED datas /\ sure' \subseteq sure) \/ Enter(t) \/ Insert(t)
         /\ made \subseteq made'
         /\ \A n \in Names : datas[n] \in Vars => datas'[n] = datas[n]
<1> USE DEF mutex, past, work, registry
<1>1. CASE Call(t)
  BY <1>1 DEF Call, LookupDefault, Lookup, Found, Mismatch, Make
<1>2. CASE \/ Describe(t) \/ Visit(t) \/ VisitNext(t) \/ LookupBase(t) \/ FromString(t)
           \/ Set(t) \/ Listen(t)
  BY <1>2 DEF Describe, Visit, VisitNext, LookupBase, FromString, Set, Listen
<1>3. CASE LoadFile(t) \/ \E dir \in Dirs : LoadFromConfigDir(t, dir)
  BY <1>3 DEF LoadFile, LoadFromConfigDir
<1>4. CASE Enter(t)
  <2>1. datas[name[t]] \notin Vars /\ UNCHANGED made
    BY <1>4, NoneAssumption DEF Enter, VInv, RInv, Makers
  <2>2. datas' = [datas EXCEPT ![name[t]] = NullEntry] /\ datas \in [Names -> Vars \cup {NullEntry, None}]
    BY <1>4 DEF Enter, VInv, RInv, RTypes
  <2> QED
    BY <1>4, <2>1, <2>2
<1>5. CASE Insert(t)
  <2>1. datas[name[t]] \notin Vars /\ UNCHANGED made
    BY <1>5, TypesAssumption DEF Insert, VInv, RInv, Makers
  <2>2. datas' = [datas EXCEPT ![name[t]] = target[t]] /\ datas \in [Names -> Vars \cup {NullEntry, None}]
    BY <1>5 DEF Insert, VInv, RInv, RTypes
  <2> QED
    BY <1>5, <2>1, <2>2
<1> QED
  BY <1>1, <1>2, <1>3, <1>4, <1>5 DEF Step, LoadStep

LEMMA ValueStep ==
  ASSUME VInv, NEW t \in Threads, Step(t)
  PROVE  \/ UNCHANGED value
         \/ \E x \in Vars : GetsDefault(x)
         \/ Set(t) /\ AssignLocked(t)
<1> USE DEF vars, locks, calls, history
<1>1. ASSUME Set(t), ~ AssignLocked(t)
      PROVE  UNCHANGED value
  BY <1>1 DEF Set, Setting, Tell, AllTold
<1>2. ASSUME Listen(t)
      PROVE  UNCHANGED value
  BY <1>2 DEF Listen, Adding, Read, Write, Store, Return, DelListener, AddListener
<1>3. ASSUME FromString(t)
      PROVE  UNCHANGED value
  BY <1>3 DEF FromString, SetValue
<1>4. ASSUME \/ Enter(t) \/ Insert(t) \/ Describe(t) \/ Visit(t) \/ VisitNext(t)
             \/ \E dir \in Dirs : LoadFromConfigDir(t, dir)
             \/ LoadFile(t) \/ LookupBase(t)
      PROVE  UNCHANGED value
  BY <1>4 DEF Enter, Insert, Describe, Visit, VisitNext, LoadFromConfigDir, LoadFile, LookupBase
<1>5. ASSUME Call(t), value' # value
      PROVE  \E x \in Vars : GetsDefault(x)
  <2>1. PICK c \in Wants(t) : LookupDefault(t, c[1], c[2]) \/ Lookup(t, c[1], c[2])
    BY <1>5 DEF Call
  <2>2. /\ Make(t, c[1], c[2])
        /\ UNCHANGED <<cbs, s_fun_id, locks, calls, id, history>>
    BY <1>5, <2>1 DEF LookupDefault, Lookup
  <2> DEFINE unmade == {x \in Vars \ made : TypeOf[x] = c[2]}
  <2> DEFINE y == CHOOSE x \in unmade : TRUE
  <2>3. y \in unmade
    BY <2>2 DEF Make
  <2>4. value' = [value EXCEPT ![y] = DefaultOf[c[2]]]
    BY <2>2 DEF Make
  <2> HIDE DEF y
  <2>5. y \in Vars \ made /\ TypeOf[y] = c[2]
    BY <2>3
  <2> QED
    BY <2>2, <2>4, <2>5 DEF GetsDefault
<1> QED
  BY <1>1, <1>2, <1>3, <1>4, <1>5 DEF Step, LoadStep

(* A thread begins to make an entry only in Call.                          *)
LEMMA MakersStep ==
  ASSUME VInv, NEW t \in Threads, Step(t), NEW u \in Threads, at'[u] \in InMake
  PROVE  \/ at[u] \in InMake /\ target'[u] = target[u] /\ ~ Insert(t)
         \/ /\ u = t /\ GetsDefault(target'[u]) /\ UNCHANGED datas
<1>0. /\ at \in [Threads -> Places] /\ target \in [Threads -> Vars \cup {None}]
  BY DEF VInv, RInv, RTypes
<1>1. ASSUME u # t
      PROVE  at[u] \in InMake /\ target'[u] = target[u] /\ ~ Insert(t)
  <2>1. at[u] = at'[u] /\ target'[u] = target[u]
    BY <1>1, OthersStayPut DEF OthersStay
  <2>2. owner = u
    BY <2>1 DEF VInv, RInv, Makers
  <2>3. Insert(t) => owner = t
    BY DEF VInv, RInv, Makers, Insert, InMake
  <2> QED
    BY <1>1, <2>1, <2>2, <2>3
<1> USE DEF mutex, past, work, registry, At
<1>2. ASSUME u = t, Call(t)
      PROVE  GetsDefault(target'[u]) /\ UNCHANGED datas
  <2>1. PICK c \in Wants(t) : LookupDefault(t, c[1], c[2]) \/ Lookup(t, c[1], c[2])
    BY <1>2 DEF Call
  <2>2. /\ Make(t, c[1], c[2])
        /\ UNCHANGED <<cbs, s_fun_id, locks, calls, id, history>>
    BY <1>0, <1>2, <2>1, AfterPlace
    DEF LookupDefault, Lookup, Found, Mismatch, InMake
  <2> DEFINE unmade == {x \in Vars \ made : TypeOf[x] = c[2]}
  <2> DEFINE y == CHOOSE x \in unmade : TRUE
  <2>3. y \in unmade
    BY <2>2 DEF Make
  <2>4. value' = [value EXCEPT ![y] = DefaultOf[c[2]]] /\ target' = [target EXCEPT ![t] = y]
    BY <2>2 DEF Make
  <2> HIDE DEF y
  <2>5. y \in Vars \ made /\ TypeOf[y] = c[2] /\ target'[u] = y
    BY <1>0, <1>2, <2>3, <2>4
  <2> QED
    BY <2>2, <2>4, <2>5 DEF GetsDefault, Make
<1>3. ASSUME u = t, Enter(t)
      PROVE  at[u] \in InMake /\ target'[u] = target[u] /\ ~ Insert(t)
  BY <1>3 DEF Enter, Insert, InMake
<1>4. ASSUME u = t, \/ Insert(t) \/ Describe(t) \/ Visit(t) \/ VisitNext(t)
                    \/ LookupBase(t) \/ FromString(t) \/ LoadFile(t)
                    \/ \E dir \in Dirs : LoadFromConfigDir(t, dir)
      PROVE  FALSE
  BY <1>0, <1>4, AfterPlace
  DEF Insert, Describe, Visit, VisitNext, LookupBase, FromString, LoadFile, LoadFromConfigDir,
      InMake, Loading, Idle
<1>5. ASSUME u = t, Set(t) \/ Listen(t)
      PROVE  at[u] \in InMake /\ target'[u] = target[u] /\ ~ Insert(t)
  <2>1. (at'[t] = at[t] \/ at'[t] = "none") /\ target' = target
    BY <1>0, <1>5 DEF Set, Listen
  <2>2. at' = at
    BY <1>0, <1>5, <2>1 DEF InMake, Set, Listen
  <2>3. Insert(t) => at'[t] # at[t]
    BY <1>0, AfterPlace DEF Insert
  <2> QED
    BY <1>5, <2>1, <2>2, <2>3
<1> QED
  BY <1>1, <1>2, <1>3, <1>4, <1>5 DEF Step, LoadStep

LEMMA HomeStep ==
  ASSUME VInv, NEW t \in Threads, Step(t), NEW l \in Listeners
  PROVE  home'[l] = home[l] \/ home'[l] \in made
<1>0. home \in [Listeners -> Vars \cup {None}]
  BY DEF VInv, LInv, TypeOK
<1> USE DEF vars, locks, calls, history
<1>1. CASE \E w \in Watched, x \in Vars : <<w[2], x>> \in handles /\ AddListener(t, x, w[1])
  <2>1. PICK w \in Watched, x \in Vars : <<w[2], x>> \in handles /\ AddListener(t, x, w[1])
    BY <1>1
  <2>2. w[2] \in Names /\ datas[w[2]] = x
    BY <2>1, TypesAssumption DEF VInv, RInv, OneVariablePerName
  <2>3. x \in made
    BY <2>2 DEF VInv, Entries
  <2> QED
    BY <1>0, <2>1, <2>3 DEF AddListener
<1>2. CASE Set(t)
  BY <1>2 DEF Set, Setting, Tell, AllTold, AssignLocked
<1>3. CASE Adding(t) \/ \E k \in Listeners : DelListener(t, k)
  BY <1>3 DEF Adding, Read, Write, Store, Return, DelListener
<1>4. CASE FromString(t)
  BY <1>4 DEF FromString, SetValue
<1>5. CASE \E x \in Vars : GetsDefault(x)
  BY <1>5 DEF GetsDefault
<1>6. CASE UNCHANGED vars
  BY <1>6
<1>7. CASE Call(t)
  BY <1>7 DEF Call, LookupDefault, Lookup
<1>8. CASE \/ Enter(t) \/ Insert(t) \/ Describe(t) \/ Visit(t) \/ VisitNext(t)
           \/ \E dir \in Dirs : LoadFromConfigDir(t, dir)
           \/ LoadFile(t) \/ LookupBase(t)
  BY <1>8 DEF Enter, Insert, Describe, Visit, VisitNext, LoadFromConfigDir, LoadFile, LookupBase
<1> QED
  BY <1>1, <1>2, <1>3, <1>4, <1>7, <1>8 DEF Step, LoadStep, Listen

LEMMA EntriesStep ==
  ASSUME VInv, NEW t \in Threads, Step(t)
  PROVE  Entries'
<1>0. /\ Entries /\ Loaders
      /\ datas \in [Names -> Vars \cup {NullEntry, None}]
      /\ value \in [Vars -> Values]
      /\ made \subseteq Vars
      /\ NullEntry \notin Vars /\ None \notin Vars
  BY TypesAssumption, NoneAssumption DEF VInv, RInv, RTypes, LInv, TypeOK
<1>1. /\ (UNCHANGED datas /\ sure' \subseteq sure) \/ Enter(t) \/ Insert(t)
      /\ made \subseteq made'
      /\ \A n \in Names : datas[n] \in Vars => datas'[n] = datas[n]
  BY DatasStep
<1>2. ASSUME Enter(t)
      PROVE  /\ UNCHANGED sure
             /\ \A n \in Names : datas'[n] \in Vars => datas[n] = datas'[n]
  BY <1>0, <1>2 DEF Enter, past
<1>3. ASSUME Insert(t)
      PROVE  /\ target[t] \in made /\ name[t] \in Names /\ at[t] \in InMake
             /\ datas'[name[t]] = target[t]
             /\ \A n \in Names \ {name[t]} : datas'[n] = datas[n]
             /\ sure' \subseteq sure \cup {target[t]}
             /\ \A n \in Names : datas[n] # target[t]
  <2>1. target[t] \in made /\ name[t] \in Names /\ at[t] \in InMake
    BY <1>3 DEF Insert, VInv, RInv, Makers, InMake
  <2> QED
    BY <1>0, <1>3, <2>1 DEF Insert, Entries
<1>4. \A n \in Names : datas'[n] \in Vars => datas'[n] \in made'
  BY <1>0, <1>1, <1>2, <1>3 DEF Entries
<1>5. \A m, n \in Names : datas'[m] = datas'[n] /\ datas'[n] \in Vars => m = n
  BY <1>0, <1>1, <1>2, <1>3 DEF Entries
<1>6. ASSUME NEW u \in Threads, at'[u] \in InMake
      PROVE  /\ \A n \in Names : datas'[n] # target'[u]
             /\ value'[target'[u]] = DefaultOf[TypeOf[target'[u]]]
  <2>1. CASE at[u] \in InMake /\ target'[u] = target[u] /\ ~ Insert(t)
    <3>1. /\ target[u] \in made /\ \A n \in Names : datas[n] # target[u]
          /\ value[target[u]] = DefaultOf[TypeOf[target[u]]]
      BY <2>1 DEF VInv, RInv, Makers, Entries
    <3>2. \A n \in Names : datas'[n] \in Vars => datas[n] = datas'[n]
      BY <1>1, <1>2, <2>1
    <3>3. \A n \in Names : datas'[n] # target[u]
      BY <1>0, <3>1, <3>2
    <3>4. value'[target[u]] = value[target[u]]
      <4>1. CASE UNCHANGED value
        BY <4>1
      <4>2. CASE \E x \in Vars : GetsDefault(x)
        BY <1>0, <3>1, <4>2 DEF GetsDefault
      <4>3. CASE AssignLocked(t)
        <5>1. IsSetting(t) /\ value' = [value EXCEPT ![var[t]] = new[t]]
          BY <4>3 DEF AssignLocked, Assign, IsSetting
        <5>2. var[t] # target[u]
          BY <1>0, <3>1, <5>1 DEF Loaders
        <5> QED BY <1>0, <5>1, <5>2, <3>1
      <4> QED BY <4>1, <4>2, <4>3, ValueStep
    <3> QED
      BY <2>1, <3>1, <3>3, <3>4
  <2>2. CASE GetsDefault(target'[u]) /\ UNCHANGED datas
    BY <1>0, <2>2 DEF GetsDefault, Entries
  <2> QED
    BY <1>6, <2>1, <2>2, MakersStep
<1>7. \A x \in sure' : \E n \in Names : datas'[n] = x
  <2>1. \A x \in sure : \E n \in Names : datas[n] = x /\ datas[n] \in Vars
    BY <1>0 DEF Entries, VInv, RInv, RTypes
  <2> QED
    BY <1>1, <1>2, <1>3, <2>1
<1>8. \A l \in Listeners : home'[l] \in made' \cup {None}
  BY <1>0, <1>1, HomeStep DEF Entries
<1> QED
  BY <1>4, <1>5, <1>6, <1>7, <1>8 DEF Entries

(* What Loaders says of one thread.                                        *)
Loader(t) ==
    /\ files[t] # None \/ nodes[t] # <<>> \/ at[t] = "setting" => t \in Setters
    /\ files[t] = None => nodes[t] = <<>> /\ ~ IsSetting(t)
    /\ at[t] = "setting" =>
          /\ pc[t] = "idle"
          /\ files[t] # None
          /\ nodes[t] # <<>>
          /\ Head(nodes[t])[1] \in Names
          /\ target[t] \in Vars
          /\ datas[Head(nodes[t])[1]] = target[t]
    /\ IsSetting(t) => \E n \in Names : datas[n] = var[t]

LEMMA EachLoader == Loaders <=> \A t \in Threads : Loader(t)
  BY DEF Loaders, Loader

LEMMA LoadersStep ==
  ASSUME VInv, NEW t \in Threads, Step(t)
  PROVE  Loaders'
<1>0. /\ \A u \in Threads : Loader(u)
      /\ at \in [Threads -> Places] /\ target \in [Threads -> Vars \cup {None}]
      /\ files \in [Threads -> (SUBSET AllFiles) \cup {None}]
      /\ nodes \in [Threads -> Seq(Loadable)]
      /\ TypeOK
      /\ None \notin Vars
  BY EachLoader, NoneAssumption DEF VInv, RInv, RTypes, LInv, Documents
<1>1. \A n \in Names : datas[n] \in Vars => datas'[n] = datas[n]
  BY DatasStep
<1>2. ASSUME NEW u \in Threads, u # t
      PROVE  Loader(u)'
  <2>1. /\ pc'[u] = pc[u] /\ var'[u] = var[u] /\ at'[u] = at[u] /\ target'[u] = target[u]
        /\ files'[u] = files[u] /\ nodes'[u] = nodes[u]
    BY <1>2, OthersStayPut DEF OthersStay
  <2>2. var[u] \in Vars
    BY <1>0 DEF TypeOK
  <2> QED
    BY <1>0, <1>1, <2>1, <2>2 DEF Loader, IsSetting
<1>3. Loader(t)'
  <2> USE DEF mutex, past, work, registry, At
  <2>1. Loader(t) /\ var[t] \in Vars
    BY <1>0 DEF TypeOK
  <2>2. ASSUME UNCHANGED <<files, nodes>>, at'[t] # "setting",
               var'[t] = var[t], IsSetting(t)' => IsSetting(t)
        PROVE  Loader(t)'
    BY <1>1, <2>1, <2>2 DEF Loader, IsSetting
  <2>3. CASE Call(t)
    <3>1. PICK c \in Wants(t) : LookupDefault(t, c[1], c[2]) \/ Lookup(t, c[1], c[2])
      BY <2>3 DEF Call
    <3>2. UNCHANGED <<pc, var, files, nodes>>
      BY <3>1 DEF LookupDefault, Lookup, Found, Mismatch, Make, vars, calls
    <3>3. at'[t] # "setting"
      BY <1>0, <3>1, AfterPlace DEF LookupDefault, Lookup, Found, Mismatch, Make
    <3> QED BY <2>2, <3>2, <3>3 DEF IsSetting
  <2>4. CASE Enter(t) \/ Insert(t) \/ Describe(t) \/ Visit(t) \/ VisitNext(t)
    <3>1. UNCHANGED <<pc, var, files, nodes>>
      BY <2>4 DEF Enter, Insert, Describe, Visit, VisitNext, vars, calls
    <3>2. at'[t] # "setting"
      BY <1>0, <2>4, AfterPlace DEF Enter, Insert, Describe, Visit, VisitNext
    <3> QED BY <2>2, <3>1, <3>2 DEF IsSetting
  <2>5. CASE \E dir \in Dirs : LoadFromConfigDir(t, dir)
    <3>1. PICK dir \in Dirs : LoadFromConfigDir(t, dir)
      BY <2>5
    <3>2. ListAllFiles(dir) \in SUBSET AllFiles
      BY DEF AllFiles
    <3>3. files'[t] # None /\ t \in Setters
      BY <1>0, <3>1, <3>2, FilesAssumption DEF LoadFromConfigDir
    <3>4. UNCHANGED <<pc, var, nodes, at>> /\ pc[t] = "idle" /\ at[t] = "none"
      BY <3>1 DEF LoadFromConfigDir, Idle, vars, calls
    <3> QED BY <3>3, <3>4 DEF Loader, IsSetting
  <2>6. CASE LoadFile(t)
    <3>1. files[t] # None /\ pc[t] = "idle" /\ at[t] = "none" /\ nodes[t] = <<>> /\ t \in Setters
          /\ UNCHANGED <<pc, var, at>>
      BY <2>1, <2>6 DEF LoadFile, Loading, Loader, vars, calls
    <3>2. \/ \E f \in files[t] : files' = [files EXCEPT ![t] = @ \ {f}]
          \/ files' = [files EXCEPT ![t] = None] /\ UNCHANGED nodes
      BY <2>6 DEF LoadFile
    <3>3. files'[t] = None => nodes'[t] = <<>>
      BY <1>0, <3>1, <3>2, FilesAssumption
    <3> QED BY <3>1, <3>3 DEF Loader, IsSetting
  <2>7. CASE LookupBase(t)
    <3> DEFINE x == Entry(Head(nodes[t])[1])
    <3>1. /\ files[t] # None /\ pc[t] = "idle" /\ at[t] = "none" /\ nodes[t] # <<>> /\ t \in Setters
          /\ UNCHANGED <<pc, var, files, datas>>
      BY <2>1, <2>7 DEF LookupBase, Loading, Loader, vars, calls
    <3>2. \/ /\ x \in Vars
             /\ target' = [target EXCEPT ![t] = x]
             /\ at' = [at EXCEPT ![t] = "setting"]
             /\ UNCHANGED nodes
          \/ UNCHANGED at
      BY <2>7 DEF LookupBase
    <3>3. x \in Vars => Head(nodes[t])[1] \in Names /\ datas[Head(nodes[t])[1]] = x
      BY <1>0 DEF Entry
    <3> HIDE DEF x
    <3> QED BY <1>0, <3>1, <3>2, <3>3 DEF Loader, IsSetting
  <2>8. CASE FromString(t)
    <3> DEFINE n == Head(nodes[t])[1]
    <3>1. /\ files[t] # None /\ pc[t] = "idle" /\ t \in Setters
          /\ n \in Names /\ target[t] \in Vars /\ datas[n] = target[t]
      BY <2>1, <2>8 DEF FromString, Loader
    <3>2. at'[t] = "none" /\ UNCHANGED <<files, datas>>
      BY <1>0, <2>8 DEF FromString
    <3>3. UNCHANGED <<pc, var>> \/ var'[t] = target[t]
      BY <1>0, <2>8 DEF FromString, SetValue, vars, calls, TypeOK
    <3> HIDE DEF n
    <3> QED BY <3>1, <3>2, <3>3 DEF Loader, IsSetting
  <2>9. CASE Set(t)
    <3>1. IsSetting(t) /\ UNCHANGED <<var, files, nodes>>
      BY <2>9 DEF Set, Setting, Tell, AllTold, AssignLocked, IsSetting
    <3>2. at'[t] # "setting"
      BY <1>0, <2>1, <2>9, <3>1 DEF Set, IsSetting, Loader
    <3> QED BY <2>2, <3>1, <3>2
  <2>10. CASE Listen(t)
    <3>1. UNCHANGED <<at, files, nodes>>
      BY <2>10 DEF Listen
    <3>2. at[t] # "setting"
      BY <2>1, <2>10 DEF Listen, Idle, Loader, Adding, Read, Write, Store, Return
    <3>3. ~ IsSetting(t)' \/ (pc'[t] = pc[t] /\ var'[t] = var[t])
      <4>1. pc \in [Threads -> {"idle", "telling", "assigning", "reading", "writing",
                               "storing", "returning"}]
        BY <1>0 DEF TypeOK
      <4>2. CASE Adding(t)
        BY <4>1, <4>2 DEF Adding, Read, Write, Store, Return, Goto, IsSetting
      <4>3. CASE \E l \in Listeners : DelListener(t, l)
        BY <4>3 DEF DelListener, calls
      <4>4. CASE \E x \in Vars, l \in Listeners : AddListener(t, x, l)
        BY <4>1, <4>4 DEF AddListener, Goto, IsSetting
      <4> QED BY TypesAssumption, <2>10, <4>2, <4>3, <4>4 DEF Listen
    <3> QED BY <1>1, <2>1, <3>1, <3>2, <3>3 DEF Loader, IsSetting
  <2> QED
    BY <2>3, <2>4, <2>5, <2>6, <2>7, <2>8, <2>9, <2>10 DEF Step, LoadStep
<1>4. \A u \in Threads : Loader(u)'
  BY <1>2, <1>3
<1> QED
  BY <1>4 DEF Loaders, Loader

LEMMA NextVInv == VInv /\ [RNext]_rvars => VInv'
<1> SUFFICES ASSUME VInv, [RNext]_rvars
             PROVE  VInv'
  OBVIOUS
<1>1. RInv'
  BY NextRInv DEF VInv
<1>2. CASE UNCHANGED rvars
  <2>1. /\ UNCHANGED vars
        /\ UNCHANGED <<datas, at, target, files, nodes, made, loaded, born, sure>>
    BY <1>2 DEF rvars, registry, work, past
  <2>2. UNCHANGED <<pc, var, value, home>>
    BY <2>1 DEF vars, calls, history
  <2>3. LInv' /\ Entered'
    BY <2>1, StepLInv, StepEntered DEF VInv
  <2>4. Documents'
    BY <2>1 DEF VInv, Documents
  <2>5. Loaders'
    BY <2>1, <2>2 DEF VInv, Loaders, IsSetting
  <2>6. Entries'
    BY <2>1, <2>2 DEF VInv, Entries
  <2> QED
    BY <1>1, <2>3, <2>4, <2>5, <2>6 DEF VInv
<1>3. ASSUME NEW t \in Threads, Step(t)
      PROVE  VInv'
  BY <1>1, <1>3, VariablesKeep, DocumentsStep, LoadersStep, EntriesStep DEF VInv
<1> QED
  BY <1>2, <1>3 DEF RNext

LEMMA RegistryVInv == RSpec => []VInv
  BY InitVInv, NextVInv, PTL DEF RSpec

-----------------------------------------------------------------------------
(* Values are of their type *)

(* What the casts make of the members of documents for a type, and its     *)
(* default.                                                                *)
Readable(T) ==
    {DefaultOf[T]} \cup ({FromStr(T, TextOf(e[2])) : e \in Loadable} \ {NoValue})

Cast(t) == FromStr(TypeOf[target[t]], TextOf(Head(nodes[t])[2]))

ValuesRead ==
    /\ \A x \in made : value[x] \in Readable(TypeOf[x])
    /\ \A t \in Threads : IsSetting(t) => new[t] \in Readable(TypeOf[var[t]])

(* The casts of each type invert each other on what is readable.           *)
CastsReadBack ==
    \A T \in Types : \A v \in Readable(T) : FromStr(T, ToStr(v)) = v

LEMMA SettingStep ==
  ASSUME VInv, NEW t \in Threads, Step(t), NEW u \in Threads, IsSetting(u)'
  PROVE  \/ IsSetting(u) /\ var'[u] = var[u] /\ new'[u] = new[u]
         \/ /\ u = t /\ FromString(t) /\ Cast(t) # NoValue /\ SetValue(t, target[t], Cast(t))
            /\ var'[u] = target[t] /\ new'[u] = Cast(t) /\ ~ IsSetting(u)
<1>0. TypeOK
  BY DEF VInv, LInv
<1>1. CASE u # t
  BY <1>1, OthersStayPut DEF OthersStay, IsSetting
<1> USE DEF vars, locks, calls, history
<1>2. CASE u = t /\ FromString(t)
  <2>1. \/ UNCHANGED vars
        \/ Cast(t) # NoValue /\ SetValue(t, target[t], Cast(t))
    BY <1>2 DEF FromString, Cast
  <2>2. SetValue(t, target[t], Cast(t)) =>
           var'[u] = target[t] /\ new'[u] = Cast(t) /\ pc[t] = "idle"
    BY <1>0, <1>2 DEF SetValue, TypeOK
  <2> QED BY <1>2, <2>1, <2>2 DEF IsSetting
<1>3. CASE u = t /\ Set(t)
  BY <1>3 DEF Set, Setting, Tell, AllTold, AssignLocked, IsSetting
<1>4. CASE u = t /\ Listen(t)
  BY <1>0, <1>4
  DEF Listen, Adding, Read, Write, Store, Return, AddListener, DelListener, Goto, TypeOK, IsSetting
<1>5. CASE u = t /\ Call(t)
  <2>1. UNCHANGED calls
    BY <1>5 DEF Call, LookupDefault, Lookup
  <2> QED BY <2>1 DEF IsSetting
<1>6. CASE u = t /\ \/ Enter(t) \/ Insert(t) \/ Describe(t) \/ Visit(t) \/ VisitNext(t)
                    \/ \E dir \in Dirs : LoadFromConfigDir(t, dir)
                    \/ LoadFile(t) \/ LookupBase(t)
  <2>1. UNCHANGED calls
    BY <1>6 DEF Enter, Insert, Describe, Visit, VisitNext, LoadFromConfigDir, LoadFile, LookupBase
  <2> QED BY <2>1 DEF IsSetting
<1> QED
  BY <1>1, <1>2, <1>3, <1>4, <1>5, <1>6 DEF Step, LoadStep

(* A variable is made with the default.                                    *)
LEMMA MadeStep ==
  ASSUME VInv, NEW t \in Threads, Step(t), NEW x \in made', x \notin made
  PROVE  GetsDefault(x)
<1> USE DEF mutex, past, work, registry
<1>1. CASE Call(t)
  <2>1. PICK c \in Wants(t) : LookupDefault(t, c[1], c[2]) \/ Lookup(t, c[1], c[2])
    BY <1>1 DEF Call
  <2>2. /\ Make(t, c[1], c[2])
        /\ UNCHANGED <<cbs, s_fun_id, locks, calls, id, history>>
    BY <2>1 DEF LookupDefault, Lookup, Found, Mismatch
  <2> DEFINE unmade == {z \in Vars \ made : TypeOf[z] = c[2]}
  <2> DEFINE y == CHOOSE z \in unmade : TRUE
  <2>3. y \in unmade
    BY <2>2 DEF Make
  <2>4. value' = [value EXCEPT ![y] = DefaultOf[c[2]]] /\ made' = made \cup {y}
    BY <2>2 DEF Make
  <2> HIDE DEF y
  <2>5. y \in Vars \ made /\ TypeOf[y] = c[2] /\ x = y
    BY <2>3, <2>4
  <2> QED BY <2>2, <2>4, <2>5 DEF GetsDefault
<1>2. CASE \/ Enter(t) \/ Insert(t) \/ Describe(t) \/ Visit(t) \/ VisitNext(t)
           \/ LookupBase(t) \/ FromString(t) \/ Set(t) \/ Listen(t)
  BY <1>2 DEF Enter, Insert, Describe, Visit, VisitNext, LookupBase, FromString, Set, Listen
<1>3. CASE LoadFile(t) \/ \E dir \in Dirs : LoadFromConfigDir(t, dir)
  BY <1>3 DEF LoadFile, LoadFromConfigDir
<1> QED
  BY <1>1, <1>2, <1>3 DEF Step, LoadStep

LEMMA ValuesReadStep ==
  ASSUME VInv, ValuesRead, NEW t \in Threads, Step(t)
  PROVE  ValuesRead'
<1>0. value \in [Vars -> Values] /\ made \subseteq Vars /\ var \in [Threads -> Vars]
  BY DEF VInv, LInv, TypeOK, RInv, RTypes
<1>1. ASSUME NEW x \in made'
      PROVE  value'[x] \in Readable(TypeOf[x])
  <2>1. CASE x \notin made
    <3>1. GetsDefault(x)
      BY <2>1, MadeStep
    <3> QED BY <1>0, <3>1 DEF GetsDefault, Readable
  <2>2. CASE x \in made
    <3>1. CASE \E y \in Vars : GetsDefault(y)
      BY <1>0, <2>2, <3>1 DEF GetsDefault, ValuesRead
    <3>2. CASE AssignLocked(t)
      <4>1. IsSetting(t) /\ value' = [value EXCEPT ![var[t]] = new[t]]
        BY <3>2 DEF AssignLocked, Assign, IsSetting
      <4> QED BY <1>0, <2>2, <4>1 DEF ValuesRead
    <3>3. CASE UNCHANGED value
      BY <2>2, <3>3 DEF ValuesRead
    <3> QED BY <3>1, <3>2, <3>3, ValueStep
  <2> QED BY <2>1, <2>2
<1>2. ASSUME NEW u \in Threads, IsSetting(u)'
      PROVE  new'[u] \in Readable(TypeOf[var'[u]])
  <2>1. CASE IsSetting(u) /\ var'[u] = var[u] /\ new'[u] = new[u]
    BY <2>1 DEF ValuesRead
  <2>2. CASE /\ u = t /\ FromString(t) /\ Cast(t) # NoValue
             /\ var'[u] = target[t] /\ new'[u] = Cast(t)
    <3>1. at[t] = "setting"
      BY <2>2 DEF FromString
    <3>2. Head(nodes[t]) \in Loadable
      BY <3>1, CastValue
    <3>3. Cast(t) \in Readable(TypeOf[target[t]])
      BY <2>2, <3>2 DEF Cast, Readable
    <3> QED BY <2>2, <3>3
  <2> QED BY <1>2, <2>1, <2>2, SettingStep
<1> QED
  BY <1>1, <1>2 DEF ValuesRead

LEMMA RegistryValuesRead == RSpec => []ValuesRead
<1>1. RInit => ValuesRead
  BY DEF RInit, Init, ValuesRead, IsSetting
<1>2. VInv /\ ValuesRead /\ [RNext]_rvars => ValuesRead'
  <2> SUFFICES ASSUME VInv, ValuesRead, [RNext]_rvars
               PROVE  ValuesRead'
    OBVIOUS
  <2>1. CASE UNCHANGED rvars
    BY <2>1
    DEF rvars, vars, calls, registry, past, ValuesRead, IsSetting
  <2> QED BY <2>1, ValuesReadStep DEF RNext
<1> QED
  BY <1>1, <1>2, RegistryVInv, PTL DEF RSpec

(* The variables of the registry have the values the code gives them, while *)
(* threads make them, load them and call listeners that make others.        *)
THEOREM RegistryKeepsVariables == RSpec => [](TypeOK /\ RemovedNotTold)
<1>1. VInv => TypeOK /\ RemovedNotTold
  BY DEF VInv, LInv
<1> QED
  BY <1>1, RegistryVInv, PTL

(* As long as no two calls of addListener overlap, the numbers name one     *)
(* listener each, while the registry makes, loads and sets the variables    *)
(* and listeners look up others (Config.h:339-354).                         *)
THEOREM RegistryNumbers == RSpec => IdsNameListeners
<1>1. RInit => NInv
  BY InitNInv DEF RInit
<1>2. VInv /\ VInv' /\ NInv /\ OneAdds /\ OneAdds' /\ [RNext]_rvars => NInv'
  <2> SUFFICES ASSUME VInv, VInv', NInv, OneAdds, OneAdds', [RNext]_rvars
               PROVE  NInv'
    OBVIOUS
  <2>1. CASE [Next]_vars
    BY <2>1, StepNInv
  <2>2. CASE \E x \in Vars : GetsDefault(x)
    <3>1. UNCHANGED <<cbs, s_fun_id, pc, var, adding, temp, id, home>>
      BY <2>2 DEF GetsDefault, locks, calls, history
    <3>2. CounterAhead' /\ IdNamesListener'
      BY <3>1 DEF NInv, CounterAhead, IdNamesListener
    <3> QED BY <3>2 DEF NInv, VInv
  <2>3. CASE UNCHANGED rvars
    BY <2>1, <2>3 DEF rvars
  <2> QED BY <2>1, <2>2, <2>3, VariablesStep DEF RNext
<1>3. NInv => IdNamesListener
  BY DEF NInv
<1> QED
  BY <1>1, <1>2, <1>3, RegistryVInv, PTL DEF RSpec, IdsNameListeners

(* If the casts of every type invert each other on the values they make of  *)
(* the files and on the default, toString's text of any variable reads back *)
(* as its value: a variable only ever has values of its own type's casts    *)
(* (Config.h:286-333).                                                      *)
THEOREM VariablesReadBack ==
  ASSUME CastsReadBack
  PROVE  RSpec => []TextsReadBack
<1>1. VInv /\ ValuesRead => TextsReadBack
  <2> SUFFICES ASSUME VInv, ValuesRead, NEW x \in made
               PROVE  FromStr(TypeOf[x], ToStr(value[x])) = value[x]
    BY DEF TextsReadBack
  <2>1. TypeOf[x] \in Types
    BY TypesAssumption DEF VInv, RInv, RTypes
  <2> QED BY <2>1 DEF ValuesRead, CastsReadBack
<1> QED
  BY <1>1, RegistryVInv, RegistryValuesRead, PTL

-----------------------------------------------------------------------------
(* The listeners of the registry's variables *)

LEMMA NoListenersBefore ==
  ASSUME VInv, NEW x \in Vars \ made
  PROVE  cbs[x] = {}
<1>1. cbs[x] \subseteq Nat \X Listeners
  BY DEF VInv, LInv, TypeOK
<1>2. ASSUME NEW e \in cbs[x]
      PROVE  FALSE
  <2>1. e[2] \in Listeners /\ home[e[2]] = x
    BY <1>1, <1>2 DEF VInv, Entered, EnteredOnce
  <2> QED BY <2>1, NoneAssumption DEF VInv, Entries
<1> QED
  BY <1>2

LEMMA KnowsStep ==
  ASSUME OneSetter, VInv, NEW t \in Threads, Step(t), NEW x \in Vars, KnowsValue(x)
  PROVE  KnowsValue(x)'
<1>1. CASE [Next]_vars
  BY <1>1, VariablesKeep, StepKnows DEF VInv
<1>2. CASE \E y \in Vars : GetsDefault(y)
  <2>1. PICK y \in Vars : GetsDefault(y)
    BY <1>2
  <2>2. UNCHANGED <<cbs, pc, var, new, todo, home, told>>
    BY <2>1 DEF GetsDefault, calls, history
  <2>3. value \in [Vars -> Values]
    BY DEF VInv, LInv, TypeOK
  <2>4. x # y => value'[x] = value[x]
    BY <2>1, <2>3 DEF GetsDefault
  <2>5. x = y => cbs[x] = {}
    BY <2>1, NoListenersBefore DEF GetsDefault
  <2> QED BY <2>2, <2>4, <2>5 DEF KnowsValue, Quiet, Settled
<1> QED
  BY <1>1, <1>2, VariablesStep

(* With one setter a listener that was told of a change knows the value its *)
(* variable has, while other threads make variables of the registry         *)
(* (Config.h:320-333, 381-409).                                             *)
THEOREM ListenersOfRegistryKnow ==
  ASSUME OneSetter
  PROVE  RSpec => []LastToldIsValue
<1> DEFINE All == \A x \in Vars : KnowsValue(x)
<1>1. RInit => All
  BY InitKInv DEF RInit, KInv
<1>2. VInv /\ All /\ [RNext]_rvars => All'
  <2> SUFFICES ASSUME VInv, All, [RNext]_rvars, NEW x \in Vars
               PROVE  KnowsValue(x)'
    OBVIOUS
  <2>1. CASE UNCHANGED rvars
    <3>1. UNCHANGED <<value, cbs, pc, var, new, todo, home, told>>
      BY <2>1 DEF rvars, vars, calls, history
    <3> QED BY <3>1 DEF KnowsValue, Quiet, Settled
  <2>2. ASSUME NEW t \in Threads, Step(t)
        PROVE  KnowsValue(x)'
    BY <2>2, KnowsStep
  <2> QED BY <2>1, <2>2 DEF RNext
<1>3. ASSUME All
      PROVE  LastToldIsValue
  <2> SUFFICES ASSUME NEW l \in Listeners, Registered(l), told[l] # None,
                      Settled(home[l]), \A m \in Throwing : home[m] # home[l]
               PROVE  told[l] = value[home[l]]
    BY DEF LastToldIsValue
  <2>1. PICK x \in Vars : home[l] = x /\ \E e \in cbs[x] : e[2] = l
    BY DEF Registered
  <2> QED  BY <1>3, <2>1 DEF KnowsValue, Quiet
<1> HIDE DEF All
<1> QED
  BY <1>1, <1>2, <1>3, RegistryVInv, PTL DEF RSpec

-----------------------------------------------------------------------------
(* What is loaded last, when one thread loads *)

LEMMA NoneLeft == Len(<<>>) = 0
  OBVIOUS

LEMMA DocumentTypes ==
  ASSUME VInv
  PROVE  /\ loaded \in Seq(Roots) /\ Len(loaded) \in Nat
         /\ \A i \in 1 .. Len(loaded) :
               /\ listAllMember(loaded[i]) \in Seq(Loadable)
               /\ Len(listAllMember(loaded[i])) \in Nat
               /\ Positions(i) = 1 .. Len(listAllMember(loaded[i]))
         /\ \A t \in Threads : nodes[t] \in Seq(Loadable) /\ Len(nodes[t]) \in Nat
         /\ \A x \in Vars : born[x] \in Nat
<1>1. loaded \in Seq(Roots) /\ Len(loaded) \in Nat
  BY DEF VInv, Documents
<1>2. ASSUME NEW i \in 1 .. Len(loaded)
      PROVE  listAllMember(loaded[i]) \in Seq(Loadable)
  <2>1. loaded[i] \in Roots
    BY <1>1
  <2> QED BY <2>1, MembersAssumption
<1>3. \A i \in 1 .. Len(loaded) :
         /\ Len(listAllMember(loaded[i])) \in Nat
         /\ Positions(i) = 1 .. Len(listAllMember(loaded[i]))
  BY <1>2 DEF Positions
<1>4. \A t \in Threads : nodes[t] \in Seq(Loadable) /\ Len(nodes[t]) \in Nat
  BY DEF VInv, Documents
<1>5. \A x \in Vars : born[x] \in Nat
  BY DEF VInv, Documents
<1> QED BY <1>1, <1>2, <1>3, <1>4, <1>5

LEMMA OneLoader ==
  ASSUME OneSetter, VInv, NEW t \in Threads, t \in Setters, NEW u \in Threads, u # t
  PROVE  nodes[u] = <<>> /\ ~ IsSetting(u)
BY DEF OneSetter, VInv, Loaders, Entered, OnlySetters

(* The next member of the thread that loads: all before it has been dealt   *)
(* with, and once it has been taken nothing else has.                       *)
LEMMA NextMember ==
  ASSUME OneSetter, VInv, InOrder, NEW t \in Threads, nodes[t] # <<>>
  PROVE  \E j \in Positions(Len(loaded)) :
            /\ Len(loaded) \in 1 .. Len(loaded)
            /\ Member(Len(loaded), j) = Head(nodes[t])
            /\ \A k \in 1 .. Len(loaded) : \A m \in Positions(k) :
                  Dealt(k, m) => k < Len(loaded) \/ (k = Len(loaded) /\ m < j)
            /\ UNCHANGED loaded /\ nodes' = [nodes EXCEPT ![t] = Tail(@)] =>
                  \A k \in 1 .. Len(loaded) : \A m \in Positions(k) :
                     Dealt(k, m)' <=> Dealt(k, m) \/ (k = Len(loaded) /\ m = j)
<1> DEFINE last == Len(loaded)
           L == Len(listAllMember(loaded[last]))
           j == L - Len(nodes[t]) + 1
<1>1. /\ last \in Nat /\ last # 0 /\ last \in 1 .. Len(loaded)
      /\ nodes[t] \in Seq(Loadable) /\ Len(nodes[t]) \in Nat \ {0}
      /\ L \in Nat /\ Positions(last) = 1 .. L /\ Len(nodes[t]) <= L
      /\ \A k \in 1 .. Len(loaded) :
            Len(listAllMember(loaded[k])) \in Nat
            /\ Positions(k) = 1 .. Len(listAllMember(loaded[k]))
  <2>1. loaded # <<>> /\ Len(nodes[t]) <= L
    BY DEF InOrder
  <2> QED BY <2>1, DocumentTypes
<1>2. \A u \in Threads : u # t => Len(nodes[u]) = 0
  <2>1. t \in Setters
    BY DEF VInv, Loaders
  <2> QED BY <2>1, OneLoader
<1>3. Head(nodes[t]) = Member(last, j)
  <2>1. Head(nodes[t]) = nodes[t][1] /\ 1 \in 1 .. Len(nodes[t])
    BY <1>1
  <2>2. nodes[t][1] = Member(last, L - Len(nodes[t]) + 1)
    BY <2>1 DEF InOrder
  <2> QED BY <2>1, <2>2
<1> HIDE DEF L
<1>4. j \in Nat /\ 1 <= j /\ j <= L /\ L - Len(nodes[t]) = j - 1
  BY <1>1
<1> HIDE DEF j
<1>5. \A m \in Nat : (\A u \in Threads : m <= L - Len(nodes[u])) <=> m < j
  <2> SUFFICES ASSUME NEW m \in Nat
               PROVE  (\A u \in Threads : m <= L - Len(nodes[u])) <=> m < j
    OBVIOUS
  <2>1. (\A u \in Threads : m <= L - Len(nodes[u])) => m < j
    BY <1>1, <1>4
  <2>2. ASSUME m < j, NEW u \in Threads
        PROVE  m <= L - Len(nodes[u])
    <3>1. CASE u = t
      BY <1>1, <1>4, <2>2, <3>1
    <3>2. CASE u # t
      <4>1. Len(nodes[u]) = 0
        BY <1>2, <3>2
      <4>2. m <= L
        BY <1>1, <1>4, <2>2
      <4> QED BY <1>1, <4>1, <4>2
    <3> QED BY <3>1, <3>2
  <2> QED BY <2>1, <2>2
<1>6. ASSUME NEW k \in 1 .. Len(loaded), NEW m \in Positions(k)
      PROVE  Dealt(k, m) <=> k < last \/ (k = last /\ m < j)
  <2>1. m \in Nat
    BY <1>1
  <2>2. k = last => Len(listAllMember(loaded[k])) = L
    BY DEF L
  <2>3. CASE k < last
    BY <2>3 DEF Dealt
  <2>4. CASE k = last
    BY <1>1, <1>5, <2>1, <2>2, <2>4 DEF Dealt
  <2> QED BY <1>1, <2>3, <2>4
<1>7. ASSUME UNCHANGED loaded, nodes' = [nodes EXCEPT ![t] = Tail(@)],
             NEW k \in 1 .. Len(loaded), NEW m \in Positions(k)
      PROVE  Dealt(k, m)' <=> Dealt(k, m) \/ (k = last /\ m = j)
  <2>1. nodes'[t] = Tail(nodes[t]) /\ \A u \in Threads : u # t => nodes'[u] = nodes[u]
    BY <1>7 DEF VInv, Documents
  <2>2. Len(nodes'[t]) = Len(nodes[t]) - 1
    BY <1>1, <2>1
  <2>3. m \in Nat
    BY <1>1
  <2>4. ASSUME k = last
        PROVE  (\A u \in Threads : m <= L - Len(nodes'[u])) <=> m <= j
    <3>1. (\A u \in Threads : m <= L - Len(nodes'[u])) => m <= j
      <4>1. L - Len(nodes'[t]) = j
        BY <1>1, <1>4, <2>2
      <4> QED BY <4>1
    <3>2. ASSUME m <= j, NEW u \in Threads
          PROVE  m <= L - Len(nodes'[u])
      <4>1. CASE u = t
        BY <1>1, <1>4, <2>2, <2>3, <3>2, <4>1
      <4>2. CASE u # t
        <5>1. Len(nodes'[u]) = 0
          BY <1>2, <2>1, <4>2
        <5>2. m <= L
          BY <1>1, <1>4, <2>3, <3>2
        <5> QED BY <1>1, <2>3, <5>1, <5>2
      <4> QED BY <4>1, <4>2
    <3> QED BY <3>1, <3>2
  <2>5. CASE k < last
    BY <1>7, <2>5 DEF Dealt
  <2>6. CASE k = last
    <3>1. Len(listAllMember(loaded'[k])) = L
      BY <1>7, <2>6 DEF L
    <3>2. Dealt(k, m)' <=> m <= j
      BY <1>1, <1>7, <2>4, <2>6, <3>1 DEF Dealt
    <3>3. Dealt(k, m) <=> m < j
      BY <1>1, <1>6, <2>6
    <3> QED BY <1>4, <2>3, <2>6, <3>2, <3>3
  <2> QED BY <1>1, <2>5, <2>6
<1>8. j \in Positions(last)
  BY <1>1, <1>4
<1> QED BY <1>1, <1>3, <1>6, <1>7, <1>8

LEMMA InOrderStep ==
  ASSUME OneSetter, VInv, InOrder, NEW t \in Threads, Step(t)
  PROVE  InOrder'
<1> USE DEF mutex, past, work, registry
<1>1. ASSUME UNCHANGED <<loaded, nodes>>
      PROVE  InOrder'
  BY <1>1 DEF InOrder, Member
<1>2. CASE \/ Call(t) \/ Enter(t) \/ Insert(t) \/ Describe(t) \/ Visit(t) \/ VisitNext(t)
           \/ Set(t) \/ Listen(t) \/ \E dir \in Dirs : LoadFromConfigDir(t, dir)
  <2>1. UNCHANGED <<loaded, nodes>>
    BY <1>2 DEF Call, LookupDefault, Lookup, Found, Mismatch, Make, Enter, Insert, Describe,
                Visit, VisitNext, Set, Listen, LoadFromConfigDir
  <2> QED BY <1>1, <2>1
<1>3. CASE LoadFile(t)
  <2>1. t \in Setters
    BY <1>3 DEF LoadFile, Loading, VInv, Loaders
  <2>2. CASE \E root : /\ nodes' = [nodes EXCEPT ![t] = listAllMember(root)]
                       /\ loaded' = Append(loaded, root)
    <3>1. PICK root : /\ nodes' = [nodes EXCEPT ![t] = listAllMember(root)]
                      /\ loaded' = Append(loaded, root)
      BY <2>2
    <3>2. Len(loaded') = Len(loaded) + 1 /\ loaded'[Len(loaded')] = root /\ loaded' # <<>>
      <4>1. loaded \in Seq(Roots)
        BY DocumentTypes
      <4>2. Append(loaded, root) \in Seq(Roots \cup {root}) /\ loaded \in Seq(Roots \cup {root})
        BY <4>1
      <4>3. Len(Append(loaded, root)) = Len(loaded) + 1
            /\ Append(loaded, root)[Len(loaded) + 1] = root
        BY <4>2
      <4>4. ASSUME Append(loaded, root) = <<>>
            PROVE  FALSE
        <5>1. Len(<<>>) = Len(loaded) + 1 /\ Len(loaded) \in Nat
          BY <4>3, <4>4, DocumentTypes
        <5> QED BY <5>1, NoneLeft
      <4> QED BY <3>1, <4>3, <4>4
    <3>3. nodes'[t] = listAllMember(root) /\ \A u \in Threads : u # t => nodes'[u] = <<>>
      <4>1. \A u \in Threads : u # t => nodes[u] = <<>>
        BY <2>1, OneLoader
      <4> QED BY <3>1, <4>1 DEF VInv, Documents
    <3>4. Len(nodes'[t]) \in Nat
      BY DocumentsStep DEF Documents
    <3>5. \A i \in 1 .. Len(nodes'[t]) : Len(nodes'[t]) - Len(nodes'[t]) + i = i
      BY <3>4
    <3>6. Len(nodes'[t]) = Len(listAllMember(loaded'[Len(loaded')]))
      BY <3>2, <3>3
    <3> SUFFICES ASSUME NEW u \in Threads, nodes'[u] # <<>>
                 PROVE  /\ Len(nodes'[u]) <= Len(listAllMember(loaded'[Len(loaded')]))
                        /\ \A i \in 1 .. Len(nodes'[u]) :
                              nodes'[u][i] = Member(Len(loaded),
                                Len(listAllMember(loaded[Len(loaded)])) - Len(nodes[u]) + i)'
      BY <3>2 DEF InOrder
    <3>8. u = t
      BY <3>3
    <3>9. \A i \in 1 .. Len(nodes'[t]) :
             Len(listAllMember(loaded'[Len(loaded')])) - Len(nodes'[t]) + i = i
      BY <3>5, <3>6
    <3>10. Len(nodes'[u]) <= Len(listAllMember(loaded'[Len(loaded')]))
      BY <3>4, <3>6, <3>8
    <3>11. ASSUME NEW i \in 1 .. Len(nodes'[u])
           PROVE  nodes'[u][i] = Member(Len(loaded),
                                   Len(listAllMember(loaded[Len(loaded)])) - Len(nodes[u]) + i)'
      <4>1. Len(listAllMember(loaded'[Len(loaded')])) - Len(nodes'[u]) + i = i
        BY <3>8, <3>9
      <4>2. nodes'[u][i] = listAllMember(loaded'[Len(loaded')])[i]
        BY <3>2, <3>3, <3>8
      <4> QED BY <4>1, <4>2, Zenon DEF Member
    <3> QED BY <3>10, <3>11
  <2>3. CASE UNCHANGED <<nodes, loaded>>
    BY <1>1, <2>3
  <2> QED BY <1>3, <2>2, <2>3 DEF LoadFile
<1>4. CASE LookupBase(t) \/ FromString(t)
  <2>1. UNCHANGED loaded
    BY <1>4 DEF LookupBase, FromString
  <2>2. CASE nodes' = [nodes EXCEPT ![t] = Tail(@)]
    <3>1. nodes[t] # <<>> /\ nodes[t] \in Seq(Loadable)
      BY <1>4 DEF LookupBase, FromString, VInv, Loaders, Documents
    <3>2. nodes'[t] = Tail(nodes[t]) /\ \A u \in Threads : u # t => nodes'[u] = nodes[u]
      BY <2>2 DEF VInv, Documents
    <3>3. /\ Len(nodes'[t]) = Len(nodes[t]) - 1 /\ Len(nodes[t]) \in Nat
          /\ \A i \in 1 .. Len(nodes'[t]) : nodes'[t][i] = nodes[t][i + 1]
                                            /\ i + 1 \in 1 .. Len(nodes[t])
      BY <3>1, <3>2
    <3> DEFINE L == Len(listAllMember(loaded[Len(loaded)]))
    <3>5. loaded # <<>> /\ Len(nodes[t]) <= L /\ L \in Nat
      <4>1. loaded # <<>> /\ Len(nodes[t]) <= L
        BY <3>1 DEF InOrder
      <4>2. Len(loaded) \in 1 .. Len(loaded)
        BY <4>1, DocumentTypes
      <4> QED BY <4>1, <4>2, DocumentTypes
    <3>6. \A i \in 1 .. Len(nodes[t]) : nodes[t][i] = Member(Len(loaded), L - Len(nodes[t]) + i)
      BY <3>1 DEF InOrder
    <3> HIDE DEF L
    <3>7. Len(nodes'[t]) <= L
      BY <3>3, <3>5
    <3>8. ASSUME NEW i \in 1 .. Len(nodes'[t])
          PROVE  nodes'[t][i] = Member(Len(loaded), L - Len(nodes'[t]) + i)
      <4>1. nodes'[t][i] = nodes[t][i + 1] /\ i + 1 \in 1 .. Len(nodes[t])
        BY <3>3
      <4>2. nodes[t][i + 1] = Member(Len(loaded), L - Len(nodes[t]) + (i + 1))
        BY <3>6, <4>1
      <4>3. L - Len(nodes[t]) + (i + 1) = L - Len(nodes'[t]) + i
        BY <3>3, <3>5
      <4> QED BY <4>1, <4>2, <4>3
    <3>9. L = Len(listAllMember(loaded'[Len(loaded')]))
      BY <2>1 DEF L
    <3>10. ASSUME NEW u \in Threads, u # t, nodes'[u] # <<>>
           PROVE  FALSE
      <4>1. t \in Setters
        BY <3>1 DEF VInv, Loaders
      <4> QED BY <3>2, <3>10, <4>1, OneLoader
    <3> SUFFICES ASSUME NEW u \in Threads, nodes'[u] # <<>>
                 PROVE  /\ Len(nodes'[u]) <= Len(listAllMember(loaded'[Len(loaded')]))
                        /\ \A i \in 1 .. Len(nodes'[u]) :
                              nodes'[u][i] = Member(Len(loaded),
                                Len(listAllMember(loaded[Len(loaded)])) - Len(nodes[u]) + i)'
      BY <2>1, <3>5 DEF InOrder
    <3>11. u = t
      BY <3>10
    <3>12. \A i : Member(Len(loaded), i)' = Member(Len(loaded), i)
      BY <2>1 DEF Member
    <3> QED BY <3>7, <3>8, <3>9, <3>11, <3>12
  <2>3. CASE UNCHANGED nodes
    BY <1>1, <2>1, <2>3
  <2> QED BY <1>4, <2>2, <2>3 DEF LookupBase, FromString, NextNode
<1> QED
  BY <1>2, <1>3, <1>4 DEF Step, LoadStep

(* A listener that may not throw for x: setValue goes to its end.           *)
LEMMA NoneThrewBefore ==
  ASSUME VInv, NEW t \in Threads, Step(t), NEW x \in Vars, Quiet(x)'
  PROVE  Quiet(x)
<1> USE DEF vars, locks, calls, history
<1>0. home \in [Listeners -> Vars \cup {None}]
  BY DEF VInv, LInv, TypeOK
<1>1. ASSUME NEW l \in Listeners, home[l] = x
      PROVE  home'[l] = x
  <2>1. x # None
    BY NoneAssumption
  <2>2. CASE [Next]_vars
    <3>1. ASSUME NEW u \in Threads, NEW y \in Vars, NEW k \in Listeners, AddListener(u, y, k)
          PROVE  home'[l] = x
      BY <1>0, <1>1, <2>1, <3>1 DEF AddListener
    <3>2. ASSUME NEW u \in Threads,
                 \/ \E y \in Vars, v \in Values : SetValue(u, y, v)
                 \/ Setting(u) \/ Adding(u)
                 \/ \E k \in Listeners : DelListener(u, k)
          PROVE  UNCHANGED home
      BY <3>2 DEF SetValue, Setting, Tell, AllTold, AssignLocked, Adding, Read, Write, Store,
                  Return, DelListener
    <3> QED BY <1>1, <2>2, <3>1, <3>2 DEF Next
  <2>3. CASE \E y \in Vars : GetsDefault(y)
    BY <1>1, <2>3 DEF GetsDefault
  <2> QED BY <2>2, <2>3, VariablesStep
<1> QED
  BY <1>1, ThrowingAssumption DEF Quiet

LEMMA SettledStep ==
  ASSUME VInv, NEW t \in Threads, Step(t), NEW x \in Vars, Quiet(x),
         ~ Settled(x), Settled(x)'
  PROVE  IsSetting(t) /\ var[t] = x /\ value' = [value EXCEPT ![x] = new[t]]
<1> USE DEF vars, locks, calls, history
<1>0. TypeOK
  BY DEF VInv, LInv
<1>1. PICK u \in Threads : IsSetting(u) /\ var[u] = x
  BY DEF Settled, IsSetting
<1>2. ~ (IsSetting(u)' /\ var'[u] = x)
  BY DEF Settled, IsSetting
<1>3. u = t
  BY <1>1, <1>2, OthersStayPut DEF OthersStay, IsSetting
<1>4. ~ UNCHANGED <<pc, var>>
  BY <1>1, <1>2 DEF IsSetting
<1>5. CASE Tell(t)
  <2> DEFINE e == First(todo[t])
  <2>1. todo[t] \subseteq cbs[var[t]] /\ todo[t] \subseteq Nat \X Listeners /\ todo[t] # {}
    <3>1. pc[t] = "telling" /\ todo[t] # {}
      BY <1>5 DEF Tell
    <3>2. todo[t] \subseteq cbs[var[t]]
      BY <3>1 DEF VInv, LInv, RemovedNotTold
    <3>3. todo[t] \in SUBSET (Nat \X Listeners)
      BY <1>0 DEF TypeOK
    <3> QED BY <3>1, <3>2, <3>3
  <2>2. e \in cbs[var[t]]
    BY <2>1, FirstIsEntry
  <2>3. home[e[2]] = x
    BY <1>1, <1>3, <2>2 DEF VInv, Entered, EnteredOnce
  <2>4. e[2] \notin Throwing
    BY <2>3 DEF Quiet
  <2>5. UNCHANGED <<pc, var>>
    BY <1>5, <2>4 DEF Tell
  <2> QED BY <1>4, <2>5
<1>6. CASE AllTold(t)
  <2>1. pc'[t] = "assigning" /\ var'[t] = var[t]
    BY <1>0, <1>6 DEF AllTold, Goto, TypeOK
  <2> QED BY <1>1, <1>2, <1>3, <2>1 DEF IsSetting
<1>7. CASE AssignLocked(t)
  BY <1>1, <1>3, <1>7 DEF AssignLocked, Assign
<1>8. CASE Listen(t) \/ FromString(t)
  <2>1. pc[t] \notin {"telling", "assigning"}
    BY <1>8
    DEF Listen, Adding, Read, Write, Store, Return, Idle, FromString, VInv, Loaders
  <2> QED BY <1>1, <1>3, <2>1 DEF IsSetting
<1>9. CASE \/ Enter(t) \/ Insert(t) \/ Describe(t) \/ Visit(t) \/ VisitNext(t)
           \/ \E dir \in Dirs : LoadFromConfigDir(t, dir)
           \/ LoadFile(t) \/ LookupBase(t)
  BY <1>4, <1>9
  DEF Enter, Insert, Describe, Visit, VisitNext, LoadFromConfigDir, LoadFile, LookupBase
<1>10. CASE Call(t)
  BY <1>4, <1>10 DEF Call, LookupDefault, Lookup
<1> QED
  BY <1>5, <1>6, <1>7, <1>8, <1>9, <1>10 DEF Step, LoadStep, Set, Setting

(* What has been read for x stays as it is.                                 *)
SameReadings(n, x) ==
    \A i, j \in Nat :
        /\ WasRead(n, x, i, j)' <=> WasRead(n, x, i, j)
        /\ WasRead(n, x, i, j) => ReadAt(x, i, j)' = ReadAt(x, i, j)

LEMMA LastStays ==
  ASSUME NEW n, NEW x, SameReadings(n, x), NEW v, IsLast(n, x, v)
  PROVE  IsLast(n, x, v)'
BY DEF SameReadings, IsLast

LEMMA SameWithoutLoading ==
  ASSUME VInv, NEW n \in Names, NEW x \in Vars,
         UNCHANGED <<loaded, nodes>>, born'[x] = born[x]
  PROVE  SameReadings(n, x)
<1>1. \A i, j \in Nat : ReadAt(x, i, j)' = ReadAt(x, i, j) /\ (Dealt(i, j)' <=> Dealt(i, j))
  BY DEF ReadAt, Member, Dealt
<1>2. \A i, j \in Nat : Reading(n, x, i, j)' <=> Reading(n, x, i, j)
  BY <1>1 DEF Reading, Member
<1>3. Since(x)' = Since(x) /\ \A i \in Nat : Positions(i)' = Positions(i)
  BY DEF Since, Positions
<1> QED
  BY <1>1, <1>2, <1>3 DEF SameReadings, WasRead

LEMMA SameWhenBegun ==
  ASSUME OneSetter, VInv, NEW t \in Threads, t \in Setters, nodes[t] = <<>>,
         NEW root \in Roots, loaded' = Append(loaded, root),
         nodes' = [nodes EXCEPT ![t] = listAllMember(root)],
         NEW n \in Names, NEW x \in Vars, born'[x] = born[x]
  PROVE  SameReadings(n, x)
<1> DEFINE last == Len(loaded)
<1>1. /\ loaded \in Seq(Roots) /\ last \in Nat /\ born[x] \in Nat
      /\ \A i \in 1 .. last :
            /\ Len(listAllMember(loaded[i])) \in Nat
            /\ Positions(i) = 1 .. Len(listAllMember(loaded[i]))
      /\ listAllMember(root) \in Seq(Loadable) /\ Len(listAllMember(root)) \in Nat
  BY DocumentTypes, MembersAssumption
<1>2. /\ Len(loaded') = last + 1 /\ loaded'[last + 1] = root
      /\ \A i \in 1 .. last : loaded'[i] = loaded[i]
  BY <1>1
<1>3. \A u \in Threads : nodes[u] = <<>>
  BY OneLoader
<1>4. nodes'[t] = listAllMember(root)
  BY DEF VInv, Documents
<1>5. ASSUME NEW i \in Nat, NEW j \in Nat
      PROVE  /\ WasRead(n, x, i, j)' <=> WasRead(n, x, i, j)
             /\ WasRead(n, x, i, j) => ReadAt(x, i, j)' = ReadAt(x, i, j)
  <2>1. CASE i \in 1 .. last
    <3>1. Member(i, j)' = Member(i, j) /\ Positions(i)' = Positions(i)
      BY <1>2, <2>1 DEF Member, Positions
    <3>2. ReadAt(x, i, j)' = ReadAt(x, i, j)
      BY <3>1 DEF ReadAt
    <3>3. i \in Since(x)' <=> i \in Since(x)
      BY <1>1, <1>2, <2>1 DEF Since
    <3>4. Reading(n, x, i, j)' <=> Reading(n, x, i, j)
      BY <3>1, <3>2 DEF Reading
    <3>5. Dealt(i, j)'
      BY <1>1, <1>2, <2>1 DEF Dealt
    <3>6. j \in Positions(i) => Dealt(i, j)
      <4>1. \A u \in Threads : Len(nodes[u]) = 0
        BY <1>3
      <4> QED BY <1>1, <2>1, <4>1 DEF Dealt
    <3> QED BY <3>1, <3>2, <3>3, <3>4, <3>5, <3>6 DEF WasRead
  <2>2. CASE i = last + 1
    <3>1. i \notin Since(x)
      BY <1>1, <2>2 DEF Since
    <3>2. Positions(i)' = 1 .. Len(listAllMember(root))
      BY <1>1, <1>2, <2>2 DEF Positions
    <3>3. ASSUME j \in Positions(i)'
          PROVE  ~ Dealt(i, j)'
      <4>1. Len(listAllMember(loaded'[i])) - Len(nodes'[t]) = 0
        BY <1>1, <1>2, <1>4, <2>2
      <4>2. ~ (j <= Len(listAllMember(loaded'[i])) - Len(nodes'[t]))
        <5>1. j \in 1 .. Len(listAllMember(root))
          BY <3>2, <3>3
        <5>2. 1 <= j
          BY <1>1, <5>1
        <5>3. ~ (j <= 0)
          BY <5>1, <5>2
        <5> QED BY <4>1, <5>3
      <4>3. ~ (i < Len(loaded'))
        BY <1>1, <1>2, <2>2
      <4> QED BY <4>2, <4>3 DEF Dealt
    <3> QED BY <3>1, <3>3 DEF WasRead
  <2>3. CASE i \notin 1 .. last + 1
    <3>1. i \notin Since(x) /\ i \notin Since(x)'
      BY <1>1, <1>2, <2>3 DEF Since
    <3> QED BY <3>1 DEF WasRead
  <2> QED BY <1>1, <2>1, <2>2, <2>3
<1> QED
  BY <1>5 DEF SameReadings

(* The next member is taken: it has another name, or cannot be read ...     *)
LEMMA SameWhenPassed ==
  ASSUME OneSetter, VInv, InOrder, NEW t \in Threads, nodes[t] # <<>>,
         UNCHANGED loaded, nodes' = [nodes EXCEPT ![t] = Tail(@)],
         NEW n \in Names, NEW x \in Vars, born'[x] = born[x],
         \/ Head(nodes[t])[1] # n
         \/ FromStr(TypeOf[x], TextOf(Head(nodes[t])[2])) = NoValue
  PROVE  SameReadings(n, x)
<1>1. PICK j \in Positions(Len(loaded)) :
         /\ Member(Len(loaded), j) = Head(nodes[t])
         /\ \A k \in 1 .. Len(loaded) : \A m \in Positions(k) :
               Dealt(k, m)' <=> Dealt(k, m) \/ (k = Len(loaded) /\ m = j)
  BY NextMember
<1>2. ~ Reading(n, x, Len(loaded), j)
  BY <1>1 DEF Reading, ReadAt
<1>3. /\ \A k, m \in Nat : ReadAt(x, k, m)' = ReadAt(x, k, m)
      /\ \A k, m \in Nat : Reading(n, x, k, m)' <=> Reading(n, x, k, m)
      /\ Since(x)' = Since(x) /\ \A k \in Nat : Positions(k)' = Positions(k)
  BY DEF Reading, ReadAt, Member, Since, Positions
<1>4. Since(x) \subseteq 1 .. Len(loaded)
  BY DocumentTypes DEF Since
<1>5. ASSUME NEW k \in Nat, NEW m \in Nat
      PROVE  WasRead(n, x, k, m)' <=> WasRead(n, x, k, m)
  <2>1. CASE k \in Since(x) /\ m \in Positions(k)
    <3>1. Dealt(k, m)' <=> Dealt(k, m) \/ (k = Len(loaded) /\ m = j)
      BY <1>1, <1>4, <2>1
    <3> QED BY <1>2, <1>3, <2>1, <3>1 DEF WasRead
  <2>2. CASE ~ (k \in Since(x) /\ m \in Positions(k))
    BY <1>3, <2>2 DEF WasRead
  <2> QED BY <2>1, <2>2
<1> QED
  BY <1>3, <1>5 DEF SameReadings

(* ... or it is read for x, and then last.                                  *)
LEMMA LastWhenTaken ==
  ASSUME OneSetter, VInv, InOrder, NEW t \in Threads, nodes[t] # <<>>,
         UNCHANGED loaded, nodes' = [nodes EXCEPT ![t] = Tail(@)],
         NEW n \in Names, NEW x \in Vars, born'[x] = born[x], born[x] < Len(loaded),
         Head(nodes[t])[1] = n,
         NEW v, v = FromStr(TypeOf[x], TextOf(Head(nodes[t])[2])), v # NoValue
  PROVE  IsLast(n, x, v)'
<1>1. PICK j \in Positions(Len(loaded)) :
         /\ Len(loaded) \in 1 .. Len(loaded)
         /\ Member(Len(loaded), j) = Head(nodes[t])
         /\ \A k \in 1 .. Len(loaded) : \A m \in Positions(k) :
               Dealt(k, m) => k < Len(loaded) \/ (k = Len(loaded) /\ m < j)
         /\ \A k \in 1 .. Len(loaded) : \A m \in Positions(k) :
               Dealt(k, m)' <=> Dealt(k, m) \/ (k = Len(loaded) /\ m = j)
  BY NextMember
<1>2. Reading(n, x, Len(loaded), j) /\ v = ReadAt(x, Len(loaded), j)
  BY <1>1 DEF Reading, ReadAt
<1>3. /\ \A k, m \in Nat : ReadAt(x, k, m)' = ReadAt(x, k, m)
      /\ \A k, m \in Nat : Reading(n, x, k, m)' <=> Reading(n, x, k, m)
      /\ Since(x)' = Since(x) /\ \A k \in Nat : Positions(k)' = Positions(k)
  BY DEF Reading, ReadAt, Member, Since, Positions
<1>4. /\ Since(x) \subseteq 1 .. Len(loaded) /\ Len(loaded) \in Nat /\ Len(loaded) \in Since(x)
      /\ \A k \in 1 .. Len(loaded) : Positions(k) \subseteq Nat
  BY DocumentTypes DEF Since
<1>5. j \in Nat
  BY <1>1, <1>4
<1>6. WasRead(n, x, Len(loaded), j)'
  <2>1. Dealt(Len(loaded), j)' /\ Len(loaded') = Len(loaded)
    BY <1>1
  <2> QED BY <1>1, <1>2, <1>3, <1>4, <1>5, <2>1 DEF WasRead
<1>7. ASSUME NEW k \in Nat, NEW m \in Nat, WasRead(n, x, k, m)'
      PROVE  k < Len(loaded) \/ (k = Len(loaded) /\ m <= j)
  <2>1. k \in 1 .. Len(loaded) /\ m \in Positions(k) /\ Dealt(k, m)'
    BY <1>3, <1>4, <1>7 DEF WasRead
  <2>2. Dealt(k, m) \/ (k = Len(loaded) /\ m = j)
    BY <1>1, <2>1
  <2>3. Dealt(k, m) => k < Len(loaded) \/ (k = Len(loaded) /\ m < j)
    BY <1>1, <2>1
  <2> QED BY <1>5, <2>2, <2>3
<1>8. v = ReadAt(x, Len(loaded), j)'
  BY <1>2, <1>3, <1>4, <1>5
<1> QED
  BY <1>4, <1>5, <1>6, <1>7, <1>8 DEF IsLast

(* A variable that is sure was made before what is loaded now.              *)
BornBefore ==
    \A x \in sure :
        /\ born[x] <= Len(loaded)
        /\ (\E t \in Threads : nodes[t] # <<>>) => born[x] < Len(loaded)

(* An entry is made with the variable of its thread, which no other has.    *)
LEMMA SureStep ==
  ASSUME VInv, NEW t \in Threads, Step(t), NEW x \in sure'
  PROVE  \/ x \in sure /\ born'[x] = born[x]
         \/ /\ x \notin sure /\ Insert(t) /\ x = target[t]
            /\ born'[x] = Len(loaded)
            /\ \A u \in Threads : nodes[u] = <<>>
<1> USE DEF mutex, past, work, registry
<1>1. CASE \/ Call(t) \/ Enter(t) \/ Describe(t) \/ Visit(t) \/ VisitNext(t)
           \/ Set(t) \/ Listen(t) \/ LoadFile(t) \/ LookupBase(t) \/ FromString(t)
           \/ \E dir \in Dirs : LoadFromConfigDir(t, dir)
  <2>1. sure' \subseteq sure /\ UNCHANGED born
    BY <1>1 DEF Call, LookupDefault, Lookup, Found, Mismatch, Make, Enter, Describe, Visit,
                VisitNext, Set, Listen, LoadFile, LookupBase, FromString, LoadFromConfigDir
  <2> QED BY <2>1
<1>2. CASE Insert(t)
  <2>1. /\ target[t] \in Vars /\ born \in [Vars -> Nat]
        /\ \A n \in Names : datas[n] # target[t]
    BY <1>2 DEF Insert, VInv, RInv, RTypes, Makers, InMake, Entries, Documents
  <2>2. target[t] \notin sure
    BY <2>1 DEF VInv, Entries
  <2>3. /\ born' = [born EXCEPT ![target[t]] = Len(loaded)]
        /\ sure' = IF \A u \in Threads : nodes[u] = <<>>
                   THEN sure \cup {target[t]} ELSE sure
    BY <1>2 DEF Insert
  <2>4. CASE x \in sure
    BY <2>1, <2>2, <2>3, <2>4
  <2>5. CASE x \notin sure
    BY <1>2, <2>1, <2>3, <2>5
  <2> QED BY <2>4, <2>5
<1> QED BY <1>1, <1>2 DEF Step, LoadStep

(* What a step does to the documents.                                       *)
LEMMA LoadedStep ==
  ASSUME VInv, NEW t \in Threads, Step(t)
  PROVE  \/ UNCHANGED <<loaded, nodes>>
         \/ /\ LoadFile(t) /\ nodes[t] = <<>>
            /\ \E root \in Roots : /\ loaded' = Append(loaded, root)
                                   /\ nodes' = [nodes EXCEPT ![t] = listAllMember(root)]
         \/ /\ LookupBase(t) \/ FromString(t)
            /\ nodes[t] # <<>> /\ UNCHANGED loaded
            /\ nodes' = [nodes EXCEPT ![t] = Tail(@)]
<1> USE DEF mutex, past, work, registry
<1>1. CASE \/ Call(t) \/ Enter(t) \/ Insert(t) \/ Describe(t) \/ Visit(t) \/ VisitNext(t)
           \/ Set(t) \/ Listen(t) \/ \E dir \in Dirs : LoadFromConfigDir(t, dir)
  BY <1>1 DEF Call, LookupDefault, Lookup, Found, Mismatch, Make, Enter, Insert, Describe, Visit,
              VisitNext, Set, Listen, LoadFromConfigDir
<1>2. CASE LoadFile(t)
  <2>1. files[t] \in SUBSET AllFiles
    BY <1>2 DEF LoadFile, Loading, VInv, Documents
  <2>2. ASSUME NEW f \in files[t], f.root # Broken
        PROVE  f.root \in Roots
    BY <2>1, <2>2 DEF Roots
  <2> QED BY <1>2, <2>2 DEF LoadFile
<1>3. CASE LookupBase(t) \/ FromString(t)
  BY <1>3 DEF LookupBase, FromString, NextNode, VInv, Loaders
<1> QED BY <1>1, <1>2, <1>3 DEF Step, LoadStep

LEMMA BornBeforeStep ==
  ASSUME VInv, BornBefore, NEW t \in Threads, Step(t)
  PROVE  BornBefore'
<1> SUFFICES ASSUME NEW x \in sure'
             PROVE  /\ born'[x] <= Len(loaded')
                    /\ (\E u \in Threads : nodes'[u] # <<>>) => born'[x] < Len(loaded')
  BY DEF BornBefore
<1>1. /\ Len(loaded) \in Nat /\ loaded \in Seq(Roots)
      /\ sure \subseteq Vars /\ \A y \in Vars : born[y] \in Nat
  BY DocumentTypes DEF VInv, RInv, RTypes
<1>2. CASE x \in sure /\ born'[x] = born[x]
  <2>1. /\ born[x] \in Nat /\ born[x] <= Len(loaded)
        /\ (\E u \in Threads : nodes[u] # <<>>) => born[x] < Len(loaded)
    BY <1>1, <1>2 DEF BornBefore
  <2>2. CASE UNCHANGED <<loaded, nodes>>
    BY <1>2, <2>1, <2>2
  <2>3. CASE \E root \in Roots : loaded' = Append(loaded, root)
    <3>1. Len(loaded') = Len(loaded) + 1
      BY <1>1, <2>3
    <3> QED BY <1>1, <1>2, <2>1, <3>1
  <2>4. CASE nodes[t] # <<>> /\ UNCHANGED loaded
    BY <1>2, <2>1, <2>4
  <2> QED BY <2>2, <2>3, <2>4, LoadedStep
<1>3. CASE /\ Insert(t) /\ born'[x] = Len(loaded)
           /\ \A u \in Threads : nodes[u] = <<>>
  <2>1. UNCHANGED <<loaded, nodes>>
    BY <1>3 DEF Insert
  <2> QED BY <1>1, <1>3, <2>1
<1> QED BY <1>2, <1>3, SureStep

(* What a step does to what has been read for a variable: nothing, unless   *)
(* it is the member that is read for it.                                    *)
LEMMA ReadingsStep ==
  ASSUME OneSetter, VInv, InOrder, BornBefore, NEW t \in Threads, Step(t),
         NEW n \in Names, NEW x \in Vars, datas[n] = x, x \in sure, x \in sure' \ raced'
  PROVE  \/ /\ SameReadings(n, x)
            /\ ~ (FromString(t) /\ target[t] = x /\ Cast(t) # NoValue)
         \/ /\ FromString(t) /\ target[t] = x /\ Cast(t) # NoValue
            /\ \A v : v = Cast(t) => IsLast(n, x, v)'
<1>1. born'[x] = born[x]
  BY SureStep
<1>2. ASSUME FromString(t)
      PROVE  /\ Head(nodes[t])[1] \in Names /\ datas[Head(nodes[t])[1]] = target[t]
             /\ target[t] \in Vars /\ nodes[t] # <<>>
             /\ UNCHANGED loaded /\ nodes' = [nodes EXCEPT ![t] = Tail(@)]
  BY <1>2 DEF FromString, NextNode, VInv, Loaders, past
<1>3. CASE FromString(t) /\ target[t] = x /\ Cast(t) # NoValue
  <2>1. Head(nodes[t])[1] = n
    BY <1>2, <1>3 DEF VInv, Entries
  <2>2. born[x] < Len(loaded)
    BY <1>2, <1>3 DEF BornBefore
  <2>3. ASSUME NEW v, v = Cast(t)
        PROVE  IsLast(n, x, v)'
    <3>1. v = FromStr(TypeOf[x], TextOf(Head(nodes[t])[2])) /\ v # NoValue
      BY <1>3, <2>3 DEF Cast
    <3> QED BY <1>1, <1>2, <1>3, <2>1, <2>2, <3>1, LastWhenTaken
  <2> QED BY <1>3, <2>3
<1>4. CASE ~ (FromString(t) /\ target[t] = x /\ Cast(t) # NoValue)
  <2>1. CASE UNCHANGED <<loaded, nodes>>
    BY <1>1, <1>4, <2>1, SameWithoutLoading
  <2>2. CASE /\ LoadFile(t) /\ nodes[t] = <<>>
             /\ \E root \in Roots : /\ loaded' = Append(loaded, root)
                                    /\ nodes' = [nodes EXCEPT ![t] = listAllMember(root)]
    <3>1. t \in Setters
      BY <2>2 DEF LoadFile, Loading, VInv, Loaders
    <3> QED BY <1>1, <1>4, <2>2, <3>1, SameWhenBegun
  <2>3. CASE FromString(t)
    <3>1. \/ Head(nodes[t])[1] # n
          \/ FromStr(TypeOf[x], TextOf(Head(nodes[t])[2])) = NoValue
      BY <1>2, <1>4, <2>3 DEF Cast
    <3> QED BY <1>1, <1>2, <1>4, <2>3, <3>1, SameWhenPassed
  <2>4. CASE LookupBase(t) /\ ~ UNCHANGED <<loaded, nodes>> /\ nodes[t] # <<>>
             /\ UNCHANGED loaded /\ nodes' = [nodes EXCEPT ![t] = Tail(@)]
    <3>1. /\ Entry(Head(nodes[t])[1]) \in Vars => Inserting
          /\ raced' = raced \cup {y \in Vars : y = Entry(Head(nodes[t])[1]) /\ Inserting}
      BY <2>4 DEF LookupBase
    <3>2. Head(nodes[t])[1] # n
      BY <3>1 DEF Entry
    <3> QED BY <1>1, <1>4, <2>4, <3>2, SameWhenPassed
  <2> QED BY <2>1, <2>2, <2>3, <2>4, LoadedStep
<1> QED BY <1>3, <1>4

(* A variable that has just been made has no member read for it, and the    *)
(* default value.                                                           *)
LEMMA DefaultWhenMade ==
  ASSUME VInv, NEW t \in Threads, Insert(t), Step(t), NEW x \in sure', x \notin sure,
         NEW n \in Names, datas'[n] = x
  PROVE  /\ \A v : v = value'[x] => IsLast(n, x, v)'
         /\ \A u \in Threads : ~ (IsSetting(u)' /\ var'[u] = x)
<1>1. x = target[t] /\ born'[x] = Len(loaded)
  BY SureStep
<1>2. at[t] \in InMake /\ UNCHANGED <<loaded, value, pc, var>>
  BY DEF Insert, InMake, vars, calls
<1>3. value[x] = DefaultOf[TypeOf[x]] /\ \A k \in Names : datas[k] # x
  BY <1>1, <1>2 DEF VInv, Entries
<1>4. ASSUME NEW u \in Threads, IsSetting(u)', var'[u] = x
      PROVE  FALSE
  BY <1>2, <1>3, <1>4 DEF IsSetting, VInv, Loaders
<1>5. ASSUME NEW i \in Nat
      PROVE  i \notin Since(x)'
  <2>1. Len(loaded) \in Nat /\ Len(loaded') = Len(loaded)
    BY <1>2, DocumentTypes
  <2> QED BY <1>1, <2>1 DEF Since
<1>6. \A i, j \in Nat : ~ WasRead(n, x, i, j)'
  BY <1>5 DEF WasRead
<1>7. ASSUME NEW v, v = value'[x]
      PROVE  IsLast(n, x, v)'
  <2>1. v = DefaultOf[TypeOf[x]]
    BY <1>2, <1>3, <1>7
  <2> QED BY <1>6, <2>1 DEF IsLast
<1> QED BY <1>4, <1>7

LEMMA RacedGrows ==
  ASSUME NEW t \in Threads, Step(t)
  PROVE  raced \subseteq raced'
BY DEF Step, LoadStep, Call, LookupDefault, Lookup, Found, Mismatch, Make, Enter, Insert, Describe,
       Visit, VisitNext, Set, Listen, LoadFile, LookupBase, FromString, LoadFromConfigDir,
       past, registry

LEMMA UpToDateStep ==
  ASSUME OneSetter, VInv, InOrder, BornBefore, UpToDate, NEW t \in Threads, Step(t)
  PROVE  UpToDate'
<1>0. /\ sure \subseteq Vars /\ made \subseteq Vars /\ value \in [Vars -> Values]
      /\ var \in [Threads -> Vars]
  BY DEF VInv, RInv, RTypes, LInv, TypeOK
<1> SUFFICES ASSUME NEW n \in Names, NEW x \in sure' \ raced', datas'[n] = x, Quiet(x)'
             PROVE  /\ Settled(x)' => IsLast(n, x, value[x])'
                    /\ \A u \in Threads : IsSetting(u)' /\ var'[u] = x => IsLast(n, x, new[u])'
  BY DEF UpToDate
<1>1. CASE x \notin sure
  <2>1. Insert(t)
    BY <1>1, SureStep
  <2>2. /\ \A v : v = value'[x] => IsLast(n, x, v)'
        /\ \A u \in Threads : ~ (IsSetting(u)' /\ var'[u] = x)
    BY <1>1, <2>1, DefaultWhenMade
  <2>3. IsLast(n, x, value[x])'
    BY <2>2
  <2> QED BY <2>2, <2>3
<1>2. CASE x \in sure
  <2>1. x \in Vars /\ datas[n] = x /\ Quiet(x)
    <3>1. x \in Vars
      BY <1>0, <1>2
    <3>2. PICK k \in Names : datas[k] = x
      BY <1>2 DEF VInv, Entries
    <3>3. datas'[k] = x
      BY <3>1, <3>2, DatasStep
    <3>4. k = n
      <4>1. Entries'
        BY EntriesStep
      <4> QED BY <3>1, <3>3, <4>1 DEF Entries
    <3> QED BY <3>1, <3>2, <3>4, NoneThrewBefore
  <2>2. /\ Settled(x) => IsLast(n, x, value[x])
        /\ \A u \in Threads : IsSetting(u) /\ var[u] = x => IsLast(n, x, new[u])
    BY <1>2, <2>1, RacedGrows DEF UpToDate
  <2>3. \/ /\ SameReadings(n, x)
           /\ ~ (FromString(t) /\ target[t] = x /\ Cast(t) # NoValue)
        \/ /\ FromString(t) /\ target[t] = x /\ Cast(t) # NoValue
           /\ \A v : v = Cast(t) => IsLast(n, x, v)'
    BY <1>2, <2>1, ReadingsStep
  <2>4. CASE /\ SameReadings(n, x)
             /\ ~ (FromString(t) /\ target[t] = x /\ Cast(t) # NoValue)
    <3>1. ASSUME NEW v, IsLast(n, x, v)
          PROVE  IsLast(n, x, v)'
      BY <2>4, <3>1, LastStays
    <3>2. ASSUME Settled(x)'
          PROVE  \E v : v = value'[x] /\ IsLast(n, x, v)
      <4>1. CASE ~ Settled(x)
        <5>1. IsSetting(t) /\ var[t] = x /\ value' = [value EXCEPT ![x] = new[t]]
          BY <2>1, <3>2, <4>1, SettledStep
        <5> QED BY <1>0, <2>1, <2>2, <5>1
      <4>2. CASE Settled(x)
        <5>1. CASE \E y \in Vars : GetsDefault(y)
          BY <1>0, <1>2, <2>1, <2>2, <4>2, <5>1 DEF GetsDefault, VInv, RInv, RTypes
        <5>2. CASE AssignLocked(t)
          <6>1. IsSetting(t) /\ value' = [value EXCEPT ![var[t]] = new[t]]
            BY <5>2 DEF AssignLocked, Assign, IsSetting
          <6>2. var[t] # x
            BY <4>2, <6>1 DEF Settled, IsSetting
          <6> QED BY <1>0, <2>1, <2>2, <4>2, <6>1, <6>2
        <5>3. CASE UNCHANGED value
          BY <2>2, <4>2, <5>3
        <5> QED BY <5>1, <5>2, <5>3, ValueStep
      <4> QED BY <4>1, <4>2
    <3>3. ASSUME NEW u \in Threads, IsSetting(u)', var'[u] = x
          PROVE  \E v : v = new'[u] /\ IsLast(n, x, v)
      <4>1. IsSetting(u) /\ var'[u] = var[u] /\ new'[u] = new[u]
        BY <2>4, <3>3, SettingStep
      <4> QED BY <2>2, <3>3, <4>1
    <3>4. Settled(x)' => IsLast(n, x, value[x])'
      <4> SUFFICES ASSUME Settled(x)' PROVE IsLast(n, x, value[x])'
        OBVIOUS
      <4>1. PICK v : v = value'[x] /\ IsLast(n, x, v)
        BY <3>2
      <4>2. IsLast(n, x, v)'
        BY <3>1, <4>1
      <4> QED BY <4>1, <4>2
    <3>5. ASSUME NEW u \in Threads, IsSetting(u)', var'[u] = x
          PROVE  IsLast(n, x, new[u])'
      <4>1. PICK v : v = new'[u] /\ IsLast(n, x, v)
        BY <3>3, <3>5
      <4>2. IsLast(n, x, v)'
        BY <3>1, <4>1
      <4> QED BY <4>1, <4>2
    <3> QED BY <3>4, <3>5
  <2>5. CASE /\ FromString(t) /\ target[t] = x /\ Cast(t) # NoValue
             /\ \A v : v = Cast(t) => IsLast(n, x, v)'
    <3>1. /\ pc[t] = "idle" /\ t \in Setters
          /\ \A u \in Threads : ~ IsSetting(u)
      <4>1. pc[t] = "idle" /\ t \in Setters
        BY <2>5 DEF FromString, VInv, Loaders
      <4> QED BY <4>1, OneLoader DEF IsSetting
    <3>2. ASSUME NEW u \in Threads, IsSetting(u)', var'[u] = x
          PROVE  new'[u] = Cast(t)
      BY <3>1, <3>2, SettingStep
    <3>3. ASSUME Settled(x)'
          PROVE  value'[x] = Cast(t)
      <4>1. \/ value[x] = Cast(t) /\ UNCHANGED vars
            \/ SetValue(t, x, Cast(t))
        BY <2>5 DEF FromString, Cast
      <4>2. ~ SetValue(t, x, Cast(t))
        <5>1. SetValue(t, x, Cast(t)) => pc'[t] = "telling" /\ var'[t] = x
          BY <2>1 DEF SetValue, Goto, VInv, LInv, TypeOK
        <5> QED BY <3>3, <5>1 DEF Settled
      <4> QED BY <4>1, <4>2 DEF vars
    <3>4. Settled(x)' => IsLast(n, x, value[x])'
      BY <2>5, <3>3
    <3>5. ASSUME NEW u \in Threads, IsSetting(u)', var'[u] = x
          PROVE  IsLast(n, x, new[u])'
      BY <2>5, <3>2, <3>5
    <3> QED BY <3>4, <3>5
  <2> QED BY <2>3, <2>4, <2>5
<1> QED BY <1>1, <1>2

(* With one setter a load leaves a variable with the value that was read    *)
(* last for its name, of the files in their order and of their members in   *)
(* theirs, or with its default, provided that it was entered while no load  *)
(* was under way, that no load looked it up while another thread was making *)
(* an entry, and that its listeners do not throw; other threads may look    *)
(* up, describe, visit and make variables at any other time of the load.    *)
(* Nothing in the code sees to the second condition, for a load looks up    *)
(* without a lock (Config.cpp:6-10), and without it this is false: a        *)
(* setting is lost (Config.h:301-333; Config.cpp:36-70).                    *)
THEOREM LoadsLast ==
  ASSUME OneSetter
  PROVE  RSpec => []LastReadIsValue
<1> DEFINE OInv == InOrder /\ BornBefore /\ UpToDate
<1>1. RInit => OInv
  BY DEF RInit, InOrder, BornBefore, UpToDate
<1>2. VInv /\ OInv /\ [RNext]_rvars => OInv'
  <2> SUFFICES ASSUME VInv, OInv, [RNext]_rvars
               PROVE  OInv'
    OBVIOUS
  <2>1. CASE UNCHANGED rvars
    <3>1. UNCHANGED <<vars, datas, loaded, nodes, born, sure, raced>>
      BY <2>1 DEF rvars, registry, work, past
    <3>2. UNCHANGED <<value, pc, var, new, home>>
      BY <3>1 DEF vars, calls, history
    <3>3. InOrder' /\ BornBefore'
      BY <3>1 DEF InOrder, Member, BornBefore
    <3>4. ASSUME NEW n \in Names, NEW v, IsLast(n, datas[n], v)
          PROVE  IsLast(n, datas[n], v)'
      BY <3>1, <3>4 DEF IsLast, WasRead, Reading, ReadAt, Member, Since, Positions, Dealt
    <3>5. UpToDate'
      BY <3>1, <3>2, <3>4 DEF UpToDate, Quiet, Settled, IsSetting
    <3> QED BY <3>3, <3>5
  <2>2. ASSUME NEW t \in Threads, Step(t)
        PROVE  OInv'
    BY <2>2, InOrderStep, BornBeforeStep, UpToDateStep
  <2> QED BY <2>1, <2>2 DEF RNext
<1>3. ASSUME VInv, UpToDate
      PROVE  LastReadIsValue
  <2> SUFFICES ASSUME NEW n \in Names, NEW x, x = datas[n], x \in sure \ raced,
                      NoLoad, Quiet(x)
               PROVE  HasLastRead(n, x)
    BY Zenon DEF LastReadIsValue
  <2>1. x \in Vars
    BY <1>3 DEF VInv, RInv, RTypes
  <2>2. \A t \in Threads : nodes[t] = <<>> /\ ~ IsSetting(t)
    BY <1>3 DEF VInv, Loaders, NoLoad
  <2>3. IsLast(n, x, value[x])
    BY <1>3, <2>2 DEF UpToDate, Quiet, Settled, IsSetting
  <2>4. /\ Len(loaded) \in Nat /\ born[x] \in Nat
        /\ \A i \in 1 .. Len(loaded) :
              /\ Len(listAllMember(loaded[i])) \in Nat
              /\ Positions(i) = 1 .. Len(listAllMember(loaded[i]))
    BY <1>3, <2>1, DocumentTypes
  <2>5. Since(x) \subseteq 1 .. Len(loaded)
    BY <2>4 DEF Since
  <2>6. ASSUME NEW i \in Since(x), NEW j \in Positions(i)
        PROVE  i \in Nat /\ j \in Nat /\ Dealt(i, j)
    <3>1. i \in 1 .. Len(loaded) /\ j \in 1 .. Len(listAllMember(loaded[i]))
          /\ Len(listAllMember(loaded[i])) \in Nat
      BY <2>4, <2>5, <2>6
    <3>2. \A t \in Threads : Len(nodes[t]) = 0
      BY <2>2, NoneLeft
    <3>3. ASSUME NEW t \in Threads
          PROVE  j <= Len(listAllMember(loaded[i])) - Len(nodes[t])
      <4>1. Len(nodes[t]) = 0 /\ j <= Len(listAllMember(loaded[i]))
        BY <3>1, <3>2
      <4> QED BY <3>1, <4>1
    <3> QED BY <3>1, <3>3 DEF Dealt
  <2>7. \A i \in Since(x) : \A j \in Positions(i) :
           i \in Nat /\ j \in Nat /\ (Reading(n, x, i, j) => WasRead(n, x, i, j))
    BY <2>6 DEF WasRead
  <2>8. CASE /\ \A i, j \in Nat : ~ WasRead(n, x, i, j)
             /\ value[x] = DefaultOf[TypeOf[x]]
    BY <2>7, <2>8 DEF HasLastRead
  <2>9. CASE \E i, j \in Nat :
                /\ WasRead(n, x, i, j)
                /\ value[x] = ReadAt(x, i, j)
                /\ \A k, m \in Nat : WasRead(n, x, k, m) => k < i \/ (k = i /\ m <= j)
    <3>1. PICK i \in Nat, j \in Nat :
                /\ WasRead(n, x, i, j)
                /\ value[x] = ReadAt(x, i, j)
                /\ \A k, m \in Nat : WasRead(n, x, k, m) => k < i \/ (k = i /\ m <= j)
      BY <2>9
    <3>2. i \in Since(x) /\ j \in Positions(i) /\ Reading(n, x, i, j)
      BY <3>1 DEF WasRead
    <3>3. \A k \in Since(x) : \A m \in Positions(k) :
             Reading(n, x, k, m) => k < i \/ (k = i /\ m <= j)
      BY <2>7, <3>1
    <3> QED BY <3>1, <3>2, <3>3 DEF HasLastRead
  <2> QED BY <2>3, <2>8, <2>9 DEF IsLast
<1> HIDE DEF OInv
<1>4. OInv => UpToDate
  BY DEF OInv
<1> QED
  BY <1>1, <1>2, <1>3, <1>4, RegistryVInv, PTL DEF RSpec

=============================================================================
