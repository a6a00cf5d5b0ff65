--------------------------- MODULE ConfigRegistry ---------------------------
(***************************************************************************)
(* Config (Config/Config.h, Config.cpp): the registry of configuration     *)
(* variables by name, under a shared mutex of its own, on top of the       *)
(* variables of ConfigVar with their mutexes and listeners.                *)
(*                                                                         *)
(* Lookup with a default value takes the registry's mutex exclusively, and *)
(* the other Lookup and Visit take it shared; both Lookups write the text  *)
(* of a variable of another type, under its mutex.  LookupBase, by which   *)
(* LoadFromYaml finds the variables, takes no lock.  A variable's          *)
(* listeners are called under its mutex, and may look up variables, so     *)
(* that the two kinds of mutex are taken in either order.                  *)
(*                                                                         *)
(* The registry is a std::map: GetDatas()[name] = v first makes an entry   *)
(* with a null pointer.  A reader without the lock may meanwhile miss any  *)
(* entry, for the tree is changing.                                        *)
(***************************************************************************)
EXTENDS ConfigVar, Sequences

CONSTANTS
    Names,      \* the names that are looked up
    Types,      \* the types T
    TypeOf,     \* the type of each variable
    DefaultOf,  \* the default value that is passed to Lookup, for each type
    Calls,      \* the <<name, type>> of the calls of Lookup
    Watched,    \* the <<listener, name, type>> of the listeners, all of one type
    LookedUp,   \* the <<name, type>> that each listener looks up, or None
    Dirs,       \* the directories, each a set of files
    NullEntry,  \* an entry without a variable
    MaxOps,     \* Lookup and Visit are called at most so often, but by listeners
    NoValue,    \* what a cast that throws has for a result
    Broken,     \* what YAML::LoadFile makes of a file it cannot parse
    FromStr(_, _), ToStr(_),  \* the casts, as ConfigText has them
    listAllMember(_),         \* the members of a document, with their names
    TextOf(_)                 \* the text of a member

ASSUME TypesAssumption ==
    /\ TypeOf \in [Vars -> Types]
    /\ DefaultOf \in [Types -> Values]
    /\ Calls \subseteq Names \X Types
    /\ Watched \subseteq Listeners \X Names \X Types
    /\ \A v, w \in Watched : v[3] = w[3]
    /\ LookedUp \in [Listeners -> (Names \X Types) \cup {None}]
    /\ NullEntry \notin Vars \cup {None}
    /\ MaxOps \in Nat

VARIABLES
    datas,     \* GetDatas(): a variable, NullEntry, or None for no entry
    owner,     \* the thread that holds GetMutex() exclusively, or None
    sharers,   \* the threads that hold it shared
    at,        \* what each thread does with the registry
    name,      \* the name it looks up
    target,    \* the variable it makes or sets
    left,      \* Visit: the names not yet visited
    files,     \* LoadFromConfigDir: the files not yet loaded, None outside
    nodes,     \* LoadFromYaml: the members not yet done with
    made,      \* the variables that were made
    handles,   \* the variables that Lookup returned, with their names
    loaded,    \* the files that were loaded, in order
    born,      \* how many of them were loaded, or begun, when each was made
    sure,      \* the variables that were entered while no load was under way
    raced,     \* those that a load looked up while another entry was made
    ops        \* calls of Lookup and Visit so far

mutex == <<owner, sharers>>
work == <<at, name, target, left, files, nodes>>
past == <<made, handles, loaded, born, sure, raced, ops>>

registry == <<datas, mutex, work, past>>

rvars == <<vars, registry>>

RInit ==
    /\ Init
    /\ var = [t \in Threads |-> CHOOSE x \in Vars : TRUE]
    /\ datas = [n \in Names |-> None]
    /\ owner = None
    /\ sharers = {}
    /\ at = [t \in Threads |-> "none"]
    /\ name = [t \in Threads |-> None]
    /\ target = [t \in Threads |-> None]
    /\ left = [t \in Threads |-> {}]
    /\ files = [t \in Threads |-> None]
    /\ nodes = [t \in Threads |-> <<>>]
    /\ made = {}
    /\ handles = {}
    /\ loaded = <<>>
    /\ born = [x \in Vars |-> 0]
    /\ sure = {}
    /\ raced = {}
    /\ ops = 0

At(t, next) == at' = [at EXCEPT ![t] = next]

Idle(t) == pc[t] = "idle" /\ at[t] = "none" /\ files[t] = None

(* What the listener that thread t is about to call, or is in, looks up.   *)
Wanted(t) ==
    IF pc[t] = "telling" /\ todo[t] # {} THEN LookedUp[First(todo[t])[2]] ELSE None

MayCall(t) == Idle(t) /\ ops < MaxOps

Wants(t) ==
    IF MayCall(t) THEN Calls
    ELSE IF at[t] = "none" THEN {Wanted(t)} \cap (Names \X Types) ELSE {}

CountCall(t) == ops' = IF Idle(t) THEN ops + 1 ELSE ops

(* Where a lookup returns to. *)
After(t) == IF pc[t] = "telling" THEN "looked" ELSE "none"

-----------------------------------------------------------------------------
(* GetMutex() *)

(* A mutant: a lookup that may make an entry takes no lock. *)
ExclusiveNever == TRUE

Exclusive == owner = None /\ sharers = {}

Shared == owner = None

Unlock(t) ==
    /\ owner' = IF owner = t THEN None ELSE owner
    /\ sharers' = sharers \ {t}

-----------------------------------------------------------------------------
(* Lookup *)

Is(n, T) == datas[n] \in Vars /\ TypeOf[datas[n]] = T

(* The entry is there and has the type. *)
Found(t, n, T) ==
    /\ Is(n, T)
    /\ handles' = handles \cup {<<n, datas[n]>>}
    /\ At(t, After(t))
    /\ UNCHANGED <<datas, mutex, name, target, left, files, nodes, made, loaded, born, sure,
                   raced>>

(* It has another type, which is written to the log with the value; then   *)
(* null is returned.  The mutex is held meanwhile.                         *)
Mismatch(t, n, T) ==
    /\ datas[n] # None
    /\ ~ Is(n, T)
    /\ At(t, "describing")
    /\ name' = [name EXCEPT ![t] = n]
    /\ UNCHANGED <<datas, target, left, files, nodes, made, handles, loaded, born, sure, raced>>

(* There is none: the variable is constructed.  A name with a capital is   *)
(* not valid, and an exception is thrown instead.                          *)
Make(t, n, T) ==
    /\ datas[n] = None
    /\ LET unmade == {x \in Vars \ made : TypeOf[x] = T}
           x == CHOOSE y \in unmade : TRUE
       IN  /\ unmade # {}
           /\ made' = made \cup {x}
           /\ target' = [target EXCEPT ![t] = x]
           /\ value' = [value EXCEPT ![x] = DefaultOf[T]]
    /\ At(t, "making")
    /\ name' = [name EXCEPT ![t] = n]
    /\ UNCHANGED <<datas, left, files, nodes, handles, loaded, born, sure, raced>>

LookupDefault(t, n, T) ==
    /\ Exclusive
    /\ \/ Found(t, n, T) /\ UNCHANGED vars
       \/ Mismatch(t, n, T) /\ owner' = t /\ UNCHANGED <<sharers, vars>>
       \/ /\ Make(t, n, T)
          /\ owner' = t
          /\ UNCHANGED <<sharers, cbs, s_fun_id, locks, calls, id, history>>

(* operator[] makes an entry with a null pointer ... *)
Enter(t) ==
    /\ at[t] = "making"
    /\ datas' = [datas EXCEPT ![name[t]] = NullEntry]
    /\ At(t, "inserting")
    /\ UNCHANGED <<mutex, name, target, left, files, nodes, past, vars>>

(* ... that gets the variable, which is returned. *)
Insert(t) ==
    /\ at[t] = "inserting"
    /\ datas' = [datas EXCEPT ![name[t]] = target[t]]
    /\ handles' = handles \cup {<<name[t], target[t]>>}
    /\ born' = [born EXCEPT ![target[t]] = Len(loaded)]
    /\ sure' = IF \A u \in Threads : nodes[u] = <<>>
                THEN sure \cup {target[t]} ELSE sure
    /\ Unlock(t)
    /\ At(t, After(t))
    /\ name' = [name EXCEPT ![t] = None]
    /\ target' = [target EXCEPT ![t] = None]
    /\ UNCHANGED <<left, files, nodes, made, loaded, raced, ops, vars>>

(* The Lookup without a default value; where there is no entry it returns  *)
(* null.                                                                   *)
Lookup(t, n, T) ==
    /\ Shared
    /\ \/ Found(t, n, T)
       \/ Mismatch(t, n, T) /\ sharers' = sharers \cup {t} /\ UNCHANGED owner
       \/ /\ datas[n] = None
          /\ At(t, After(t))
          /\ UNCHANGED <<datas, mutex, name, target, left, files, nodes, made,
                         handles, loaded, born, sure, raced>>
    /\ UNCHANGED vars

(* A mutant: toString takes the variable's mutex exclusively. *)
MayReadAlone(x) == x \in Vars => MayOwn(x)

(* toString waits for whoever holds the variable's mutex exclusively. *)
MayRead(x) == x \in Vars => MayShare(x)

Describe(t) ==
    /\ at[t] = "describing"
    /\ MayRead(datas[name[t]])
    /\ Unlock(t)
    /\ At(t, After(t))
    /\ name' = [name EXCEPT ![t] = None]
    /\ UNCHANGED <<datas, target, left, files, nodes, past, vars>>

-----------------------------------------------------------------------------
(* Visit, with a callback that writes each variable's text *)

Visit(t) ==
    /\ MayCall(t)
    /\ CountCall(t)
    /\ Shared
    /\ sharers' = sharers \cup {t}
    /\ left' = [left EXCEPT ![t] = {n \in Names : datas[n] # None}]
    /\ At(t, "visiting")
    /\ UNCHANGED <<datas, owner, name, target, files, nodes, made, handles, loaded,
                   born, sure, raced, vars>>

VisitNext(t) ==
    /\ at[t] = "visiting"
    /\ \/ /\ \E n \in left[t] :
                /\ MayRead(datas[n])
                /\ left' = [left EXCEPT ![t] = @ \ {n}]
          /\ UNCHANGED <<at, mutex>>
       \/ left[t] = {} /\ Unlock(t) /\ At(t, "none") /\ UNCHANGED left
    /\ UNCHANGED <<datas, name, target, files, nodes, past, vars>>

-----------------------------------------------------------------------------
(* LoadFromConfigDir and LoadFromYaml *)

(* The files whose names end in .yml. *)
ListAllFiles(dir) == {f \in dir : f.yml}

AllFiles == UNION {ListAllFiles(dir) : dir \in Dirs}

(* What may be loaded, and its members: of each a cast makes a value of    *)
(* the type, or throws.                                                    *)
Roots == {f.root : f \in AllFiles} \ {Broken}

Loadable ==
    UNION {{listAllMember(root)[i] : i \in DOMAIN listAllMember(root)} : root \in Roots}

ASSUME MembersAssumption ==
    /\ \A root \in Roots : listAllMember(root) \in Seq(Loadable)
    /\ \A e \in Loadable, T \in Types : FromStr(T, TextOf(e[2])) \in Values \cup {NoValue}

ASSUME FilesAssumption == \A fs \in SUBSET AllFiles : fs # None

(* One directory is loaded. *)
LoadFromConfigDir(t, dir) ==
    /\ t \in Setters
    /\ Idle(t)
    /\ loaded = <<>>
    /\ files' = [files EXCEPT ![t] = ListAllFiles(dir)]
    /\ UNCHANGED <<datas, mutex, at, name, target, left, nodes, past, vars>>

Loading(t) == files[t] # None /\ pc[t] = "idle" /\ at[t] = "none"

(* The files come in any order; one that cannot be parsed is passed over.  *)
LoadFile(t) ==
    /\ Loading(t)
    /\ nodes[t] = <<>>
    /\ \/ \E f \in files[t] :
             /\ files' = [files EXCEPT ![t] = @ \ {f}]
             /\ IF f.root = Broken
                THEN UNCHANGED <<nodes, loaded>>
                ELSE /\ nodes' = [nodes EXCEPT ![t] = listAllMember(f.root)]
                     /\ loaded' = Append(loaded, f.root)
       \/ files[t] = {} /\ files' = [files EXCEPT ![t] = None] /\ UNCHANGED <<nodes, loaded>>
    /\ UNCHANGED <<datas, mutex, at, name, target, left, made, handles, born, sure,
                   raced, ops, vars>>

(* A mutant: a member that cannot be read ends its file. *)
NextNodeRead(t) ==
    nodes' = [nodes EXCEPT ![t] =
                IF /\ at[t] = "setting"
                   /\ FromStr(TypeOf[target[t]], TextOf(Head(@)[2])) = NoValue
                THEN <<>> ELSE Tail(@)]

NextNode(t) == nodes' = [nodes EXCEPT ![t] = Tail(@)]

Entry(n) == IF n \in Names THEN datas[n] ELSE None

Inserting == \E u \in Threads : at[u] = "inserting"

(* LookupBase, without the lock: while an entry is made any may be missed. *)
LookupBase(t) ==
    /\ Loading(t)
    /\ nodes[t] # <<>>
    /\ LET x == Entry(Head(nodes[t])[1])
       IN  /\ \/ /\ x \in Vars
                 /\ target' = [target EXCEPT ![t] = x]
                 /\ At(t, "setting")
                 /\ UNCHANGED nodes
              \/ /\ x \notin Vars \/ Inserting
                 /\ NextNode(t)
                 /\ UNCHANGED <<target, at>>
           /\ raced' = raced \cup {y \in Vars : y = x /\ Inserting}
    /\ UNCHANGED <<datas, mutex, name, left, files, made, handles, loaded, born, sure, ops,
                   vars>>

(* fromString: nothing changes if the cast throws or the value is equal;   *)
(* otherwise setValue begins.                                              *)
FromString(t) ==
    /\ at[t] = "setting"
    /\ LET x == target[t]
           v == FromStr(TypeOf[x], TextOf(Head(nodes[t])[2]))
       IN  \/ v = NoValue /\ UNCHANGED vars
           \/ v # NoValue /\ v = value[x] /\ MayShare(x) /\ UNCHANGED vars
           \/ v # NoValue /\ SetValue(t, x, v)
    /\ NextNode(t)
    /\ At(t, "none")
    /\ target' = [target EXCEPT ![t] = None]
    /\ UNCHANGED <<datas, mutex, name, left, files, past>>

-----------------------------------------------------------------------------
(* setValue and the listeners; one that looks up a name has done so before *)
(* it returns.                                                             *)
Set(t) ==
    /\ Setting(t)
    /\ IF Wanted(t) # None THEN at[t] = "looked" /\ At(t, "none")
                        ELSE UNCHANGED at
    /\ UNCHANGED <<datas, mutex, name, target, left, files, nodes, past>>

Listen(t) ==
    /\ \/ Adding(t)
       \/ /\ Idle(t)
          /\ \/ \E l \in Listeners : DelListener(t, l)
             \/ \E w \in Watched, x \in Vars :
                   <<w[2], x>> \in handles /\ TypeOf[x] = w[3] /\ AddListener(t, x, w[1])
    /\ UNCHANGED registry

Call(t) ==
    /\ \E c \in Wants(t) : LookupDefault(t, c[1], c[2]) \/ Lookup(t, c[1], c[2])
    /\ CountCall(t)

LoadStep(t) == LoadFile(t) \/ LookupBase(t) \/ FromString(t)

Step(t) ==
    \/ Call(t) \/ Enter(t) \/ Insert(t) \/ Describe(t)
    \/ Visit(t) \/ VisitNext(t)
    \/ \E dir \in Dirs : LoadFromConfigDir(t, dir)
    \/ LoadStep(t)
    \/ Set(t)
    \/ Listen(t)

RNext == \E t \in Threads : Step(t)

RSpec == RInit /\ [][RNext]_rvars

(* What a thread has begun it goes on with whenever it can. *)
GoOn(t) == ~ Idle(t) /\ Step(t)

FairRSpec == RSpec /\ \A t \in Threads : WF_rvars(GoOn(t))

-----------------------------------------------------------------------------
(* Every variable has the values the code gives it; in particular whoever  *)
(* reads the registry under its mutex finds no entry without a variable.   *)
RegistryTypeOK ==
    /\ datas \in [Names -> Vars \cup {NullEntry, None}]
    /\ owner \in Threads \cup {None}
    /\ sharers \subseteq Threads
    /\ at \in [Threads -> {"none", "looked", "making", "inserting", "describing", "visiting",
                           "setting"}]
    /\ name \in [Threads -> Names \cup {None}]
    /\ target \in [Threads -> Vars \cup {None}]
    /\ left \in [Threads -> SUBSET Names]
    /\ \A t \in Threads :
          /\ at[t] = "describing" => datas[name[t]] \in Vars
          /\ at[t] = "visiting" => \A n \in left[t] : datas[n] \in Vars
    /\ handles \subseteq Names \X Vars
    /\ made \subseteq Vars
    /\ sure \subseteq made

(* All that Lookup ever returned for a name is the one variable that the   *)
(* registry has: what is loaded into it reaches everybody who looked it up *)
(* (Config.h:381-409).                                                     *)
OneVariablePerName == \A h \in handles : datas[h[1]] = h[2]

(* Member j of the i-th document that was loaded. *)
Member(i, j) == listAllMember(loaded[i])[j]

ReadAt(x, i, j) == FromStr(TypeOf[x], TextOf(Member(i, j)[2]))

(* The members of that name that can be read as the variable's type, in    *)
(* the documents loaded since it was made.                                 *)
Reading(n, x, i, j) == Member(i, j)[1] = n /\ ReadAt(x, i, j) # NoValue

Since(x) == born[x] + 1 .. Len(loaded)

Positions(i) == DOMAIN listAllMember(loaded[i])

(* The value of a variable, whose listeners do not throw, is what was read *)
(* last for its name, of the files in their order and of their members in  *)
(* theirs; or else it is the default.                                      *)
HasLastRead(n, x) ==
    \/ /\ \A i \in Since(x) : \A j \in Positions(i) : ~ Reading(n, x, i, j)
       /\ value[x] = DefaultOf[TypeOf[x]]
    \/ \E i \in Since(x) : \E j \in Positions(i) :
          /\ Reading(n, x, i, j)
          /\ value[x] = ReadAt(x, i, j)
          /\ \A k \in Since(x) : \A m \in Positions(k) :
                Reading(n, x, k, m) => k < i \/ (k = i /\ m <= j)

NoLoad == \A t \in Threads : files[t] = None

Quiet(x) == \A l \in Throwing : home[l] # x

(* When no load is under way every variable has the value that was read    *)
(* last for it, provided that it was entered while no load was under way,  *)
(* and that no thread was making an entry when a load looked it up:        *)
(* LookupBase has no lock against that, and may miss a variable that has   *)
(* long been there, so that a setting of it is lost.  Other threads may    *)
(* look up, describe, visit and make entries at any other time.  With two  *)
(* loads at once this fails (Config.h:301-333; Config.cpp:6-10, 36-70).    *)
LastReadIsValue ==
    \A n \in Names :
        LET x == datas[n]
        IN  NoLoad /\ x \in sure \ raced /\ Quiet(x) => HasLastRead(n, x)

(* What toString writes of a variable, fromString reads as the value it    *)
(* has (Config.h:66-259, 286-313).                                         *)
TextsReadBack == \A x \in made : FromStr(TypeOf[x], ToStr(value[x])) = value[x]

(* Every call returns, also when a listener, called under the mutex of its *)
(* variable, looks up another while someone holds the registry's and waits *)
(* for the variable's (Config.h:323-331, 381-396, 415-432).                *)
CallsReturn == \A t \in Threads : ~ Idle(t) ~> Idle(t)
=============================================================================
