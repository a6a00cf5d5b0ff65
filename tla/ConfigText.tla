----------------------------- MODULE ConfigText -----------------------------
(***************************************************************************)
(* The texts of configuration variables: LexicalCast (Config/Config.h),    *)
(* which reads values from text and writes them, and listAllMember         *)
(* (Config.cpp), which gives the members of a document their names.        *)
(*                                                                         *)
(* yaml-cpp is external.  A node is <<"plain", s>>, <<"quoted", s>>,       *)
(* <<"null">>, <<"seq", nodes>> or <<"map", entries>>, each entry a key    *)
(* and a node; a quoted scalar is one that could not be written without    *)
(* quotes.  The text that is written for a node is represented by the      *)
(* node; the text of an undefined node is <<"empty">>, and the characters  *)
(* of a scalar are a plain scalar.  A key, and so a name, is the sequence  *)
(* of its parts between the dots.                                          *)
(*                                                                         *)
(* A value is <<"int", s>>, <<"string", text>>, <<"vector", values>>,      *)
(* <<"set", values>> or <<"map", pairs>>; its type is the tuple of its     *)
(* constructor and the type of its elements.  list and unordered_set and   *)
(* unordered_map are read and written like vector, set and map.            *)
(***************************************************************************)
EXTENDS Naturals, Sequences, SequencesExt

CONSTANTS
    Numbers,  \* the scalars that boost::lexical_cast takes for an int
    Nines,    \* the parts of names with a 9
    Capitals  \* the parts of names with an upper-case letter

Null == <<"null">>

Empty == <<"empty">>

Throws == <<"throws">>

(* YAML::Load *)
Load(text) == IF text = Empty THEN Null ELSE text

IsScalar(node) == node[1] \in {"plain", "quoted"}

IsMap(node) == node[1] = "map"

(* YAML::Node::Scalar *)
Scalar(node) == <<"plain", node[2]>>

(* LoadFromYaml: the text of a member, the characters if it is a scalar.   *)
MemberText(node) == IF IsScalar(node) THEN Scalar(node) ELSE node

-----------------------------------------------------------------------------
(* LexicalCast<std::string, T> *)

FromScalar(T, text) ==
    IF T[1] = "string" THEN <<"string", text>>
    ELSE IF text[1] = "plain" /\ text[2] \in Numbers THEN <<"int", text[2]>>
    ELSE Throws

(* The texts of node[0], node[1], ...: a map is asked for keys it does not *)
(* have, and a scalar has no size.                                         *)
Items(node) ==
    CASE node[1] = "seq" -> node[2]
      [] node[1] = "map" -> [i \in DOMAIN node[2] |-> Empty]
      [] OTHER -> <<>>

(* A mutant: the last of two equal keys is kept. *)
LastOfKey(entries, i) ==
    \A j \in i + 1 .. Len(entries) : entries[j][1] # entries[i][1]

(* std::map keeps the first of two equal keys. *)
FirstOfKey(entries, i) == \A j \in 1 .. i - 1 : entries[j][1] # entries[i][1]

RECURSIVE FromText(_, _)

Elements(T, node) ==
    [i \in DOMAIN Items(node) |-> FromText(T[2], Items(node)[i])]

FromSequence(T, node) ==
    IF Throws \in Range(Elements(T, node)) THEN Throws
                                           ELSE <<"vector", Elements(T, node)>>

FromSet(T, node) ==
    IF Throws \in Range(Elements(T, node)) THEN Throws
                                           ELSE <<"set", Range(Elements(T, node))>>

(* The elements of a sequence have no key.                                 *)
FromMap(T, node) ==
    LET entries == IF IsMap(node) THEN node[2] ELSE <<>>
        vs == [i \in DOMAIN entries |-> FromText(T[2], entries[i][2])]
    IN  IF Throws \in Range(vs) \/ (node[1] = "seq" /\ node[2] # <<>>) THEN Throws
        ELSE <<"map", {<<entries[i][1], vs[i]>> :
                          i \in {j \in DOMAIN vs : FirstOfKey(entries, j)}}>>

FromText(T, text) ==
    CASE T[1] = "vector" -> FromSequence(T, Load(text))
      [] T[1] = "set" -> FromSet(T, Load(text))
      [] T[1] = "map" -> FromMap(T, Load(text))
      [] OTHER -> FromScalar(T, text)

-----------------------------------------------------------------------------
(* LexicalCast<T, std::string> *)

RECURSIVE ToText(_)

(* Each element is written and read again as a node of its own. *)
ToSequence(vs) == <<"seq", [i \in DOMAIN vs |-> Load(ToText(vs[i]))]>>

(* A mutant: the texts of the values are not read again. *)
ToMapOfTexts(pairs) ==
    LET s == SetToSeq(pairs)
    IN  <<"map", [i \in DOMAIN s |-> <<s[i][1], <<"quoted", ToText(s[i][2])>>>>]>>

ToMap(pairs) ==
    LET s == SetToSeq(pairs)
    IN  <<"map", [i \in DOMAIN s |-> <<s[i][1], Load(ToText(s[i][2]))>>]>>

ToText(v) ==
    CASE v[1] = "int" -> <<"plain", v[2]>>
      [] v[1] = "string" -> v[2]
      [] v[1] = "vector" -> ToSequence(v[2])
      [] v[1] = "set" -> ToSequence(SetToSeq(v[2]))
      [] v[1] = "map" -> ToMap(v[2])

-----------------------------------------------------------------------------
(* listAllMember *)

(* prefix.find_first_not_of: the characters leave out 9 and capitals. *)
Listable(prefix) == Range(prefix) \cap (Nines \cup Capitals) = {}

(* The name and node of every member, each before its own members; a       *)
(* member with another name is left out with all that is below it.         *)
RECURSIVE ListAllMember(_, _)
ListAllMember(prefix, node) ==
    IF ~ Listable(prefix) THEN <<>>
    ELSE LET entries == IF IsMap(node) THEN node[2] ELSE <<>>
         IN  <<<<prefix, node>>>> \o
             FlattenSeq([i \in DOMAIN entries |->
                            ListAllMember(prefix \o entries[i][1], entries[i][2])])
=============================================================================
