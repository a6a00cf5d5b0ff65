------------------------------ MODULE MCConfig ------------------------------
(***************************************************************************)
(* ConfigRegistry with the texts of ConfigText: the program's variables,   *)
(* the files they are loaded from, and what the files say of them.         *)
(***************************************************************************)
EXTENDS ConfigRegistry, ConfigText

CONSTANTS m, v1, v2, i1, i2, l1, l2

IntType == <<"int">>
IntsType == <<"vector", IntType>>
TableType == <<"map", IntsType>>

A == <<"a">>
AB == <<"a", "b">>
A9 == <<"a9">>

MCNames == {A, AB, A9}
MCVars == {m, v1, v2, i1, i2}
MCTypeOf == [x \in MCVars |->
                CASE x = m -> TableType [] x \in {v1, v2} -> IntsType [] OTHER -> IntType]
MCTypes == {IntType, IntsType, TableType}
MCCalls == {<<A, TableType>>, <<A, IntsType>>, <<AB, IntsType>>, <<AB, TableType>>}
MCDefaultOf ==
    [T \in MCTypes |->
        CASE T = IntType -> <<"int", "1">>
          [] T = IntsType -> <<"vector", <<<<"int", "1">>>>>>
          [] T = TableType -> <<"map", {}>>]
MCLookedUp == [l \in {l1, l2} |-> IF l = l1 THEN <<A9, IntType>> ELSE None]
MCWatched == {<<l1, AB, IntsType>>, <<l2, A, IntsType>>, <<l2, AB, IntsType>>}

Text(s) == <<"plain", s>>
Seq2(a, b) == <<"seq", <<a, b>>>>
Map1(k, n) == <<"map", <<<<k, n>>>>>>

(* a: {b: [1, 2]}, and a9: 2 *)
Nested == <<"map", <<<<A, Map1(<<"b">>, Seq2(Text("1"), Text("2")))>>, <<A9, Text("2")>>>>>>
(* a.b: [1, x] *)
Dotted == Map1(AB, Seq2(Text("1"), Text("x")))
(* a: {b: [2, 1], b: 2}, and A: {b: [1, 2]} *)
Twice == <<"map", <<<<A, <<"map", <<<<<<"b">>, Seq2(Text("2"), Text("1"))>>,
                                    <<<<"b">>, Text("2")>>>>>>>>,
                    <<<<"A">>, Map1(<<"b">>, Seq2(Text("1"), Text("2")))>>>>>>

File(root) == [yml |-> TRUE, root |-> root]
Other(root) == [yml |-> FALSE, root |-> root]

MCBroken == <<"broken">>
MCDirs == {{File(Nested), File(Dotted), Other(Twice)},
           {File(Twice), File(MCBroken)}}

Documents == {Nested, Dotted, Twice}
Members == [root \in Documents |-> ListAllMember(<<>>, root)]
MCListAllMember(root) == Members[root]

Texts == {MemberText(e[2]) : e \in UNION {Range(Members[root]) : root \in Documents}}
(* Under a name of its own, which TLC evaluates once.                      *)
AllValues ==
    {v \in Range(MCDefaultOf) \cup {FromText(T, text) : T \in MCTypes, text \in Texts} :
        v # Throws}
MCValues == AllValues
Written == [v \in AllValues |-> ToText(v)]
Casts == [T \in MCTypes |->
            [text \in Texts \cup Range(Written) |-> FromText(T, text)]]
MCFromStr(T, text) == Casts[T][text]
MCToStr(v) == Written[v]
MCDefault == MCDefaultOf[IntType]
-----------------------------------------------------------------------------
(* What a document says of a name: the nodes that are reached from it by   *)
(* keys that make up the name, in order.                                   *)
RECURSIVE Says(_, _)
Says(node, n) ==
    IF n = <<>> THEN <<node>>
    ELSE LET entries == IF IsMap(node) THEN node[2] ELSE <<>>
         IN  FlattenSeq([i \in DOMAIN entries |->
                LET k == entries[i][1]
                IN  IF IsPrefix(k, n)
                    THEN Says(entries[i][2], SubSeq(n, Len(k) + 1, Len(n)))
                    ELSE <<>>])

(* The value is what the node says.  A node that is not a sequence says of *)
(* a vector, and one that is not a map says of a table, that it is empty.  *)
RECURSIVE Denotes(_, _)
Denotes(v, node) ==
    CASE v[1] = "int" -> IsScalar(node) /\ node[2] = v[2]
      [] v[1] = "vector" ->
            IF node[1] = "seq"
            THEN /\ Len(v[2]) = Len(node[2])
                 /\ \A i \in DOMAIN v[2] : Denotes(v[2][i], node[2][i])
            ELSE v[2] = <<>> /\ ~ (IsMap(node) /\ node[2] # <<>>)
      [] v[1] = "map" ->
            LET keys == IF IsMap(node) THEN {e[1] : e \in Range(node[2])} ELSE {}
            IN  /\ {p[1] : p \in v[2]} = keys
                /\ node[1] = "seq" => node[2] = <<>>
                /\ \A p \in v[2] :
                      LET i == CHOOSE i \in DOMAIN node[2] :
                                  /\ node[2][i][1] = p[1]
                                  /\ \A j \in 1 .. i - 1 : node[2][j][1] # p[1]
                      IN  Denotes(p[2], node[2][i][2])

Said == [root \in Documents |-> [n \in MCNames |-> Says(root, n)]]
Meant == [node \in UNION {Range(Said[root][n]) : root \in Documents, n \in MCNames} |->
             {v \in AllValues : Denotes(v, node)}]

(* When no load is under way a variable has the value that the files say   *)
(* it has: the one of the last member with its name, in the order of the   *)
(* files, that can be read as its type, or else the default.  It is said   *)
(* of variables that were entered while no load was under way, that no     *)
(* load looked up while an entry was made (the settings of those may be    *)
(* lost), and whose listeners do not throw.  A name with a 9 is never      *)
(* loaded (Config.h:301-313; Config.cpp:7-70).                             *)
LoadedAsWritten ==
    \A n \in Names :
        LET x == datas[n]
            said == FlattenSeq([i \in 1 .. Len(loaded) - born[x] |->
                                   Said[loaded[born[x] + i]][n]])
            readable == {i \in DOMAIN said :
                            \E v \in Meant[said[i]] : v[1] = TypeOf[x][1]}
        IN  NoLoad /\ x \in sure \ raced /\ Quiet(x)
            => IF readable = {} \/ Range(n) \cap Nines # {}
               THEN value[x] = DefaultOf[TypeOf[x]]
               ELSE value[x] \in Meant[said[Max(readable)]]
=============================================================================
