------------------------- MODULE HttpExchangeProofs -------------------------
(***************************************************************************)
(* Theorems about HttpExchange, for any well-formed requests, handlers,    *)
(* paths and packets: the engine is given the requests as they were sent,  *)
(* the client reads the answers of the right handlers, and the exchange    *)
(* implements the service of HttpService but for its fairness.             *)
(*                                                                         *)
(* The lemmas follow the text: how split, FlattenSeq and \o put sequences  *)
(* together and take them apart, by induction over lengths; the text of a  *)
(* request as lines and as words; where a complete text ends; the text of  *)
(* an answer; the keys of the router.  The invariant HInv then needs them  *)
(* as facts about a single request or answer.                              *)
(***************************************************************************)
EXTENDS HttpExchange, WellFoundedInduction, SequenceTheorems, FiniteSetTheorems, TLAPS

(* What texts are made of. *)
Tokens ==
    STRING \cup {SP, CR, LF, COLON, "-", "GET", "POST", "HTTP/1.0", "OK", "404", "text/plain",
                 "Content-Type", "Content-Length", "<h1>404", "Not Found</h1>"}

-----------------------------------------------------------------------------
(* Induction over the numbers, from the least counterexample.              *)

LEMMA LeastNumber ==
  ASSUME NEW T, T \subseteq Nat, T # {}
  PROVE  \E n \in T : \A k \in T : n <= k
<1>1. PICK n \in T : \A k \in T : ~ (<<k, n>> \in OpToRel(<, Nat))
  BY NatLessThanWellFounded, WFMin, Zenon
<1>2. \A k \in T : ~ (k < n)
  BY <1>1, Zenon DEF OpToRel
<1> QED
  BY <1>2

LEMMA AllNumbers ==
  ASSUME NEW T, T \subseteq Nat, 0 \in T, \A n \in T : n + 1 \in T
  PROVE  \A n \in Nat : n \in T
<1> SUFFICES ASSUME NEW n \in Nat, n \notin T
             PROVE  FALSE
  OBVIOUS
<1> DEFINE C == Nat \ T
<1>1. PICK m \in C : \A k \in C : m <= k
  <2>1. C \subseteq Nat /\ C # {}
    OBVIOUS
  <2> HIDE DEF C
  <2> QED BY <2>1, LeastNumber
<1>2. m # 0 /\ m - 1 \in T
  BY <1>1
<1> QED
  BY <1>1, <1>2

(* A function on 1 .. n in the form in which FlattenSeq computes one.      *)
Concatenates(g, seqs, n) ==
    g = [i \in 1 .. n |-> IF i = 1 THEN seqs[i] ELSE g[i - 1] \o seqs[i]]

LEMMA ConcatenatesMore ==
  ASSUME NEW seqs, NEW k \in Nat, NEW g, Concatenates(g, seqs, k)
  PROVE  \E h : Concatenates(h, seqs, k + 1)
<1> DEFINE h == [i \in 1 .. k + 1 |->
                   IF i = 1 THEN seqs[i]
                   ELSE IF i <= k THEN g[i] ELSE g[k] \o seqs[i]]
           e == [i \in 1 .. k + 1 |-> IF i = 1 THEN seqs[i] ELSE h[i - 1] \o seqs[i]]
<1>1. \A i \in 1 .. k : g[i] = IF i = 1 THEN seqs[i] ELSE g[i - 1] \o seqs[i]
  BY DEF Concatenates
<1>2. \A i \in 1 .. k : h[i] = g[i]
  BY <1>1
<1>3. ASSUME NEW i \in 1 .. k + 1
      PROVE  h[i] = e[i]
  <2>1. e[i] = IF i = 1 THEN seqs[i] ELSE h[i - 1] \o seqs[i]
    OBVIOUS
  <2>2. h[i] = IF i = 1 THEN seqs[i] ELSE IF i <= k THEN g[i] ELSE g[k] \o seqs[i]
    OBVIOUS
  <2> HIDE DEF h, e
  <2>3. CASE i = 1
    BY <2>1, <2>2, <2>3
  <2>4. CASE i # 1 /\ i <= k
    <3>1. i \in 1 .. k /\ i - 1 \in 1 .. k
      BY <2>4
    <3>2. g[i] = g[i - 1] \o seqs[i]
      BY <1>1, <2>4, <3>1
    <3>3. h[i - 1] = g[i - 1]
      BY <1>2, <3>1
    <3> QED BY <2>1, <2>2, <2>4, <3>2, <3>3
  <2>5. CASE i # 1 /\ ~ (i <= k)
    <3>1. i - 1 = k /\ k \in 1 .. k
      BY <2>5
    <3>2. h[i - 1] = g[k]
      BY <1>2, <3>1
    <3> QED BY <2>1, <2>2, <2>5, <3>2
  <2> QED BY <2>3, <2>4, <2>5
<1>4. h = [i \in 1 .. k + 1 |-> h[i]] /\ e = [i \in 1 .. k + 1 |-> e[i]]
  OBVIOUS
<1>5. h = e
  <2> HIDE DEF h, e
  <2> QED BY <1>3, <1>4
<1>6. Concatenates(h, seqs, k + 1)
  <2>1. Concatenates(h, seqs, k + 1) = (h = e)
    BY DEF Concatenates
  <2> HIDE DEF h, e
  <2> QED BY <1>5, <2>1
<1> HIDE DEF h
<1> QED
  BY <1>6

LEMMA SomeConcatenates ==
  ASSUME NEW seqs, NEW n \in Nat
  PROVE  \E g : Concatenates(g, seqs, n)
<1> DEFINE T == {k \in Nat : \E g : Concatenates(g, seqs, k)}
<1>1. 0 \in T
  <2> DEFINE g == [i \in 1 .. 0 |-> seqs[i]]
  <2>1. Concatenates(g, seqs, 0)
    BY DEF Concatenates
  <2> HIDE DEF g
  <2> QED BY <2>1
<1>2. \A k \in T : k + 1 \in T
  BY ConcatenatesMore
<1>3. T \subseteq Nat
  OBVIOUS
<1>4. n \in T
  <2> HIDE DEF T
  <2> QED BY <1>1, <1>2, <1>3, AllNumbers
<1> QED
  BY <1>4

LEMMA ConcatenatesSeqs ==
  ASSUME NEW S, NEW n \in Nat, NEW seqs \in [1 .. n -> Seq(S)],
         NEW g, Concatenates(g, seqs, n)
  PROVE  /\ \A i \in 1 .. n : g[i] \in Seq(S)
         /\ \A i \in 1 .. n : g[i] = IF i = 1 THEN seqs[i] ELSE g[i - 1] \o seqs[i]
<1>1. \A i \in 1 .. n : g[i] = IF i = 1 THEN seqs[i] ELSE g[i - 1] \o seqs[i]
  BY DEF Concatenates
<1> DEFINE U == {i \in Nat : i + 1 <= n => g[i + 1] \in Seq(S)}
<1>2. 0 \in U
  BY <1>1
<1>3. ASSUME NEW i \in U
      PROVE  i + 1 \in U
  <2> SUFFICES ASSUME i + 2 <= n
               PROVE  g[i + 2] \in Seq(S)
    OBVIOUS
  <2>1. i + 2 \in 1 .. n /\ (i + 2) - 1 = i + 1 /\ i + 2 # 1
    OBVIOUS
  <2>2. g[i + 1] \in Seq(S)
    OBVIOUS
  <2>3. g[i + 2] = g[(i + 2) - 1] \o seqs[i + 2]
    BY <1>1, <2>1
  <2>4. seqs[i + 2] \in Seq(S)
    BY <2>1
  <2> QED BY <2>1, <2>2, <2>3, <2>4
<1>4. U \subseteq Nat
  OBVIOUS
<1>5. \A i \in Nat : i \in U
  <2> HIDE DEF U
  <2> QED BY <1>2, <1>3, <1>4, AllNumbers
<1>6. ASSUME NEW i \in 1 .. n
      PROVE  g[i] \in Seq(S)
  <2>1. i - 1 \in Nat /\ (i - 1) + 1 = i
    OBVIOUS
  <2>2. (i - 1) + 1 <= n => g[(i - 1) + 1] \in Seq(S)
    BY <1>5, <2>1
  <2> QED BY <2>1, <2>2
<1> QED
  BY <1>1, <1>6

(* FlattenSeq concatenates: what it is for each number of the sequences.   *)
LEMMA Flattens ==
  ASSUME NEW S, NEW seqs \in Seq(Seq(S))
  PROVE  \E f \in [0 .. Len(seqs) -> Seq(S)] :
            /\ f[0] = <<>>
            /\ \A i \in 1 .. Len(seqs) : f[i] = f[i - 1] \o seqs[i]
            /\ FlattenSeq(seqs) = f[Len(seqs)]
<1> DEFINE n == Len(seqs)
           fl == CHOOSE g : Concatenates(g, seqs, n)
           f == [i \in 0 .. n |-> IF i = 0 THEN <<>> ELSE fl[i]]
<1>1. n \in Nat /\ seqs \in [1 .. n -> Seq(S)]
  OBVIOUS
<1>2. n # 0 => FlattenSeq(seqs) = fl[n]
  BY DEF FlattenSeq, Concatenates
<1>3. n = 0 => FlattenSeq(seqs) = <<>>
  BY DEF FlattenSeq
<1> HIDE DEF n
<1>4. Concatenates(fl, seqs, n)
  BY <1>1, SomeConcatenates
<1> HIDE DEF fl
<1>5. /\ \A i \in 1 .. n : fl[i] \in Seq(S)
      /\ \A i \in 1 .. n : fl[i] = IF i = 1 THEN seqs[i] ELSE fl[i - 1] \o seqs[i]
  BY <1>1, <1>4, ConcatenatesSeqs
<1>6. f \in [0 .. n -> Seq(S)]
  BY <1>1, <1>5
<1>7. ASSUME NEW i \in 1 .. n
      PROVE  f[i] = f[i - 1] \o seqs[i]
  <2>1. i - 1 \in 0 .. n /\ i \in 0 .. n /\ i # 0 /\ (i = 1 <=> i - 1 = 0)
    BY <1>1
  <2>2. f[i] = fl[i]
    BY <2>1
  <2>3. f[i - 1] = IF i = 1 THEN <<>> ELSE fl[i - 1]
    BY <2>1
  <2>4. seqs[i] \in Seq(S)
    BY <1>1
  <2> HIDE DEF f
  <2>5. i = 1 => f[i] = <<>> \o seqs[i]
    BY <1>5, <2>2, <2>4
  <2> QED BY <1>5, <2>2, <2>3, <2>5
<1>8. f[0] = <<>> /\ FlattenSeq(seqs) = f[n]
  <2>1. f[0] = <<>>
    BY <1>1
  <2>2. n # 0 => f[n] = fl[n]
    BY <1>1
  <2> QED BY <1>2, <1>3, <2>1, <2>2
<1> HIDE DEF f
<1> QED
  BY <1>6, <1>7, <1>8 DEF n
-----------------------------------------------------------------------------
(* Ascending and split.                                                    *)

(* A larger number comes last.                                             *)
LEMMA AscendingLast ==
  ASSUME NEW S, S \subseteq Nat, IsFiniteSet(S), NEW x \in Nat, \A i \in S : i < x
  PROVE  /\ Cardinality(S) \in Nat
         /\ Cardinality(S \cup {x}) = Cardinality(S) + 1
         /\ Len(Ascending(S)) = Cardinality(S)
         /\ Len(Ascending(S \cup {x})) = Cardinality(S) + 1
         /\ \A k \in 1 .. Cardinality(S) : Ascending(S \cup {x})[k] = Ascending(S)[k]
         /\ Ascending(S \cup {x})[Cardinality(S) + 1] = x
<1> DEFINE X == S \cup {x}
           c == Cardinality(S)
<1>1. x \notin S
  OBVIOUS
<1>2. c \in Nat /\ Cardinality(X) = c + 1
  BY <1>1, FS_CardinalityType, FS_AddElement
<1>3. /\ Ascending(S) = [k \in 1 .. c |-> CHOOSE i \in S : Rank(S, i) = k]
      /\ Ascending(X) = [k \in 1 .. c + 1 |-> CHOOSE i \in X : Rank(X, i) = k]
  BY <1>2 DEF Ascending
<1>4. Len(Ascending(S)) = c /\ Len(Ascending(X)) = c + 1
  <2>1. c + 1 \in Nat
    BY <1>2
  <2> HIDE DEF c, X
  <2> QED BY <1>2, <1>3, <2>1
<1>5. Rank(X, x) = c + 1
  <2>1. \A j \in X : j <= x
    OBVIOUS
  <2> HIDE DEF X
  <2> QED BY <1>2, <2>1 DEF Rank
<1>6. ASSUME NEW i \in S
      PROVE  Rank(X, i) = Rank(S, i) /\ Rank(S, i) \in Nat /\ Rank(S, i) <= c
  <2>1. {j \in X : j <= i} = {j \in S : j <= i}
    OBVIOUS
  <2>2. {j \in S : j <= i} \subseteq S
    OBVIOUS
  <2>3. /\ Cardinality({j \in S : j <= i}) \in Nat
        /\ Cardinality({j \in S : j <= i}) <= c
    BY <2>2, FS_Subset, FS_CardinalityType
  <2> HIDE DEF X
  <2> QED BY <2>1, <2>3 DEF Rank
<1>7. ASSUME NEW k \in 1 .. c
      PROVE  Ascending(X)[k] = Ascending(S)[k]
  <2>1. \A i : (i \in X /\ Rank(X, i) = k) <=> (i \in S /\ Rank(S, i) = k)
    <3>1. k # c + 1
      BY <1>2
    <3>2. \A i : i \in X <=> i \in S \/ i = x
      OBVIOUS
    <3> HIDE DEF X, c
    <3> QED BY <3>1, <3>2, <1>5, <1>6
  <2>2. (CHOOSE i \in X : Rank(X, i) = k) = (CHOOSE i \in S : Rank(S, i) = k)
    <3> HIDE DEF X, c
    <3> QED BY <2>1
  <2>3. k \in 1 .. c + 1
    BY <1>2
  <2> HIDE DEF X, c
  <2> QED BY <1>3, <2>2, <2>3
<1>8. Ascending(X)[c + 1] = x
  <2>1. \A i \in X : Rank(X, i) = c + 1 <=> i = x
    <3>1. \A i : i \in X <=> i \in S \/ i = x
      OBVIOUS
    <3>2. \A i \in S : Rank(X, i) # c + 1
      <4> HIDE DEF X, c
      <4> QED BY <1>2, <1>6
    <3> HIDE DEF X, c
    <3> QED BY <3>1, <3>2, <1>5
  <2>2. (CHOOSE i \in X : Rank(X, i) = c + 1) = x
    <3>1. x \in X
      OBVIOUS
    <3> HIDE DEF X, c
    <3> QED BY <2>1, <3>1
  <2>3. c + 1 \in 1 .. c + 1
    BY <1>2
  <2> HIDE DEF X, c
  <2> QED BY <1>3, <2>2, <2>3
<1> QED
  BY <1>2, <1>4, <1>7, <1>8

LEMMA AscendingNone ==
  Cardinality({}) = 0 /\ Len(Ascending({})) = 0
<1>1. Cardinality({}) = 0
  BY FS_EmptySet
<1>2. Ascending({}) = [k \in 1 .. 0 |-> CHOOSE i \in {} : Cardinality({j \in {} : j <= i}) = k]
  BY <1>1 DEF Ascending, Rank
<1> QED
  BY <1>1, <1>2

(* The numbers in order are those of the set.                              *)
LEMMA AscendingOf ==
  ASSUME NEW n \in Nat, NEW S \in SUBSET (1 .. n)
  PROVE  /\ IsFiniteSet(S)
         /\ Cardinality(S) \in Nat
         /\ Len(Ascending(S)) = Cardinality(S)
         /\ \A k \in 1 .. Len(Ascending(S)) : Ascending(S)[k] \in S
<1> DEFINE Good(Q) == /\ IsFiniteSet(Q)
                      /\ Cardinality(Q) \in Nat
                      /\ Len(Ascending(Q)) = Cardinality(Q)
                      /\ \A k \in 1 .. Len(Ascending(Q)) : Ascending(Q)[k] \in Q
           T == {m \in Nat : \A Q \in SUBSET (1 .. m) : Good(Q)}
<1>1. 0 \in T
  <2>1. Good({})
    BY AscendingNone, FS_EmptySet
  <2>2. SUBSET (1 .. 0) = {{}}
    OBVIOUS
  <2> HIDE DEF Good
  <2> QED BY <2>1, <2>2
<1>2. ASSUME NEW m \in T
      PROVE  m + 1 \in T
  <2> SUFFICES ASSUME NEW Q \in SUBSET (1 .. m + 1)
               PROVE  Good(Q)
    OBVIOUS
  <2>1. CASE m + 1 \notin Q
    <3>1. Q \in SUBSET (1 .. m)
      BY <2>1
    <3> HIDE DEF Good
    <3> QED BY <3>1
  <2>2. CASE m + 1 \in Q
    <3> DEFINE P == Q \ {m + 1}
    <3>1. P \in SUBSET (1 .. m)
      OBVIOUS
    <3>2. Good(P)
      <4> HIDE DEF Good
      <4> QED BY <3>1
    <3>3. Q = P \cup {m + 1} /\ P \subseteq Nat /\ \A i \in P : i < m + 1
      BY <2>2
    <3>4. IsFiniteSet(Q)
      BY <3>2, <3>3, FS_AddElement
    <3>a. IsFiniteSet(P) /\ Cardinality(P) \in Nat /\ Len(Ascending(P)) = Cardinality(P)
      BY <3>2
    <3>b. \A k \in 1 .. Cardinality(P) : Ascending(P)[k] \in P
      BY <3>2
    <3> HIDE DEF P
    <3>5. /\ Cardinality(P \cup {m + 1}) = Cardinality(P) + 1
          /\ Len(Ascending(P \cup {m + 1})) = Cardinality(P) + 1
          /\ \A k \in 1 .. Cardinality(P) : Ascending(P \cup {m + 1})[k] = Ascending(P)[k]
          /\ Ascending(P \cup {m + 1})[Cardinality(P) + 1] = m + 1
      <4>1. m + 1 \in Nat
        OBVIOUS
      <4> HIDE DEF Good, T
      <4> QED BY <3>a, <3>3, <4>1, AscendingLast
    <3>6. \A k \in 1 .. Len(Ascending(Q)) : Ascending(Q)[k] \in Q
      <4> SUFFICES ASSUME NEW k \in 1 .. Cardinality(P) + 1
                   PROVE  Ascending(Q)[k] \in Q
        BY <3>3, <3>5, <3>a
      <4>1. CASE k \in 1 .. Cardinality(P)
        BY <4>1, <3>3, <3>5, <3>b
      <4>2. CASE k = Cardinality(P) + 1
        BY <4>2, <3>3, <3>5
      <4> QED BY <4>1, <4>2, <3>a
    <3>7. Cardinality(Q) = Cardinality(P) + 1 /\ Len(Ascending(Q)) = Cardinality(P) + 1
      BY <3>3, <3>5
    <3> QED BY <3>a, <3>4, <3>6, <3>7
  <2> QED BY <2>1, <2>2
<1>3. T \subseteq Nat
  OBVIOUS
<1>4. n \in T
  <2> HIDE DEF T
  <2> QED BY <1>1, <1>2, <1>3, AllNumbers
<1> QED
  BY <1>4

(* What split gives, segment by segment. *)
LEMMA SplitSegments ==
  ASSUME NEW s \in Seq(Tokens), NEW d \in Seq(Tokens), Places(s, d) \subseteq 1 .. Len(s)
  PROVE  LET E == Ascending(Places(s, d))
         IN  /\ IsFiniteSet(Places(s, d))
             /\ Len(E) = Cardinality(Places(s, d)) /\ Len(E) \in Nat
             /\ \A k \in 1 .. Len(E) : E[k] \in Places(s, d)
             /\ Len(split(s, d)) = Len(E) + 1
             /\ \A k \in 1 .. Len(E) + 1 :
                   split(s, d)[k] = SubSeq(s, IF k = 1 THEN 1 ELSE E[k - 1] + Len(d),
                                              IF k > Len(E) THEN Len(s) ELSE E[k] - 1)
<1> DEFINE E == Ascending(Places(s, d))
<1>1. /\ IsFiniteSet(Places(s, d))
      /\ Len(E) = Cardinality(Places(s, d)) /\ Len(E) \in Nat
      /\ \A k \in 1 .. Len(E) : E[k] \in Places(s, d)
  <2>1. Len(s) \in Nat
    OBVIOUS
  <2> QED BY <2>1, AscendingOf
<1>2. split(s, d) = [k \in 1 .. Len(E) + 1 |->
                       SubSeq(s, IF k = 1 THEN 1 ELSE E[k - 1] + Len(d),
                                 IF k > Len(E) THEN Len(s) ELSE E[k] - 1)]
  BY DEF split
<1> HIDE DEF E
<1>3. Len(split(s, d)) = Len(E) + 1
  BY <1>1, <1>2
<1> QED
  BY <1>1, <1>2, <1>3 DEF E

LEMMA SplitWhole ==
  ASSUME NEW s \in Seq(Tokens), NEW d \in Seq(Tokens), Places(s, d) = {}
  PROVE  Len(split(s, d)) = 1 /\ split(s, d)[1] = s
<1> DEFINE E == Ascending(Places(s, d))
<1>1. Len(E) = 0
  BY AscendingNone
<1>2. /\ Len(split(s, d)) = Len(E) + 1
      /\ \A k \in 1 .. Len(E) + 1 :
            split(s, d)[k] = SubSeq(s, IF k = 1 THEN 1 ELSE E[k - 1] + Len(d),
                                       IF k > Len(E) THEN Len(s) ELSE E[k] - 1)
  BY SplitSegments
<1> HIDE DEF E
<1>3. split(s, d)[1] = SubSeq(s, 1, Len(s))
  BY <1>1, <1>2
<1> QED
  BY <1>1, <1>2, <1>3

(* One more delimiter, and a text without one after it: one more segment.  *)
LEMMA SplitMore ==
  ASSUME NEW s \in Seq(Tokens), NEW d \in Seq(Tokens), NEW b \in Seq(Tokens), d # <<>>,
         Places(s, d) \subseteq 1 .. Len(s),
         \A i \in Places(s, d) : i + Len(d) <= Len(s) + 1,
         Places((s \o d) \o b, d) = Places(s, d) \cup {Len(s) + 1}
  PROVE  /\ Len(split(s, d)) \in Nat \ {0}
         /\ Len(split((s \o d) \o b, d)) = Len(split(s, d)) + 1
         /\ \A k \in 1 .. Len(split(s, d)) : split((s \o d) \o b, d)[k] = split(s, d)[k]
         /\ split((s \o d) \o b, d)[Len(split(s, d)) + 1] = b
<1> DEFINE t == (s \o d) \o b
           E == Ascending(Places(s, d))
           F == Ascending(Places(t, d))
<1>1. /\ t \in Seq(Tokens) /\ Len(s) \in Nat /\ Len(d) \in Nat \ {0} /\ Len(b) \in Nat
      /\ Len(t) = Len(s) + Len(d) + Len(b)
  OBVIOUS
<1>2. Places(t, d) \subseteq 1 .. Len(t)
  <2>1. \A i \in Places(s, d) : i \in 1 .. Len(s)
    OBVIOUS
  <2>2. Places(t, d) = Places(s, d) \cup {Len(s) + 1}
    OBVIOUS
  <2> HIDE DEF t
  <2> QED BY <1>1, <2>1, <2>2
<1>3. /\ IsFiniteSet(Places(s, d))
      /\ Len(E) = Cardinality(Places(s, d)) /\ Len(E) \in Nat
      /\ \A k \in 1 .. Len(E) : E[k] \in Places(s, d)
      /\ Len(split(s, d)) = Len(E) + 1
      /\ \A k \in 1 .. Len(E) + 1 :
            split(s, d)[k] = SubSeq(s, IF k = 1 THEN 1 ELSE E[k - 1] + Len(d),
                                       IF k > Len(E) THEN Len(s) ELSE E[k] - 1)
  BY SplitSegments
<1>4. /\ Len(split(t, d)) = Len(F) + 1
      /\ \A k \in 1 .. Len(F) + 1 :
            split(t, d)[k] = SubSeq(t, IF k = 1 THEN 1 ELSE F[k - 1] + Len(d),
                                       IF k > Len(F) THEN Len(t) ELSE F[k] - 1)
  <2> HIDE DEF t
  <2> QED BY <1>1, <1>2, SplitSegments
<1>5. /\ Len(F) = Len(E) + 1
      /\ \A k \in 1 .. Len(E) : F[k] = E[k]
      /\ F[Len(E) + 1] = Len(s) + 1
  <2> DEFINE S == Places(s, d)
             x == Len(s) + 1
  <2>1. S \subseteq Nat /\ x \in Nat /\ \A i \in S : i < x
    OBVIOUS
  <2>2. Places(t, d) = S \cup {x}
    OBVIOUS
  <2>3. IsFiniteSet(S) /\ Len(E) = Cardinality(S)
    BY <1>3
  <2> HIDE DEF S, x
  <2>4. /\ Len(Ascending(S \cup {x})) = Cardinality(S) + 1
        /\ \A k \in 1 .. Cardinality(S) : Ascending(S \cup {x})[k] = Ascending(S)[k]
        /\ Ascending(S \cup {x})[Cardinality(S) + 1] = x
    BY <2>1, <2>3, AscendingLast
  <2>5. F = Ascending(S \cup {x}) /\ E = Ascending(S)
    BY <2>2 DEF S
  <2> HIDE DEF E, F
  <2> QED BY <2>3, <2>4, <2>5 DEF x
<1>6. \A i \in 1 .. Len(s) + 1, j \in 0 .. Len(s) : SubSeq(t, i, j) = SubSeq(s, i, j)
  OBVIOUS
<1>7. SubSeq(t, Len(s) + 1 + Len(d), Len(t)) = b
  OBVIOUS
<1>8. \A k \in 1 .. Len(E) : E[k] \in 1 .. Len(s) /\ E[k] + Len(d) \in 1 .. Len(s) + 1
  <2> HIDE DEF E
  <2> QED BY <1>1, <1>3
<1> HIDE DEF E, F, t
<1>9. ASSUME NEW k \in 1 .. Len(E) + 1
      PROVE  split(t, d)[k] = split(s, d)[k]
  <2> DEFINE from == IF k = 1 THEN 1 ELSE E[k - 1] + Len(d)
             to == IF k > Len(E) THEN Len(s) ELSE E[k] - 1
  <2>1. k # 1 => k - 1 \in 1 .. Len(E)
    BY <1>3
  <2>2. k <= Len(E) => k \in 1 .. Len(E)
    BY <1>3
  <2>3. from \in 1 .. Len(s) + 1
    BY <1>1, <1>8, <2>1
  <2>4. to \in 0 .. Len(s)
    BY <1>1, <1>3, <1>8, <2>2
  <2>5. split(s, d)[k] = SubSeq(s, from, to)
    BY <1>3
  <2>6. k \in 1 .. Len(F) + 1 /\ k <= Len(F)
    BY <1>3, <1>5
  <2>7. (IF k = 1 THEN 1 ELSE F[k - 1] + Len(d)) = from
    BY <1>5, <2>1
  <2>8. (IF k > Len(F) THEN Len(t) ELSE F[k] - 1) = to
    <3>1. CASE k <= Len(E)
      BY <3>1, <1>3, <1>5, <2>2, <2>6
    <3>2. CASE k = Len(E) + 1
      <4>1. ~ (k > Len(F)) /\ k > Len(E) /\ F[k] - 1 = Len(s)
        BY <3>2, <1>1, <1>3, <1>5
      <4> QED BY <4>1
    <3> QED BY <3>1, <3>2, <1>3
  <2>9. split(t, d)[k] = SubSeq(t, from, to)
    BY <1>4, <2>6, <2>7, <2>8
  <2> HIDE DEF from, to
  <2> QED BY <1>6, <2>3, <2>4, <2>5, <2>9
<1>10. split(t, d)[Len(E) + 2] = b
  <2>1. Len(E) + 2 \in 1 .. Len(F) + 1 /\ Len(E) + 2 # 1 /\ Len(E) + 2 > Len(F)
    BY <1>3, <1>5
  <2>2. (Len(E) + 2) - 1 = Len(E) + 1
    BY <1>3
  <2>3. split(t, d)[Len(E) + 2] = SubSeq(t, F[Len(E) + 1] + Len(d), Len(t))
    BY <1>4, <2>1, <2>2
  <2> QED BY <1>5, <1>7, <2>3
<1> QED
  <2>1. Len(split(s, d)) \in Nat \ {0} /\ Len(split(t, d)) = Len(split(s, d)) + 1
    BY <1>3, <1>4, <1>5
  <2>2. Len(split(s, d)) + 1 = Len(E) + 2
    BY <1>3
  <2> QED BY <1>3, <1>9, <1>10, <2>1, <2>2 DEF t

-----------------------------------------------------------------------------
(* Blanks, colons and line ends in a text.                                 *)

LEMMA Characters ==
  /\ SP \in Tokens /\ CR \in Tokens /\ LF \in Tokens /\ COLON \in Tokens
  /\ SP # CR /\ SP # LF /\ SP # COLON /\ CR # LF /\ CR # COLON /\ LF # COLON
<1>1. SP \in Tokens /\ CR \in Tokens /\ LF \in Tokens /\ COLON \in Tokens
  BY DEF Tokens
<1>2. SP # CR /\ SP # LF /\ SP # COLON /\ CR # LF
  BY DEF SP, CR, LF, COLON
<1>3. CR # COLON /\ LF # COLON
  BY DEF CR, LF, COLON
<1> QED
  BY <1>1, <1>2, <1>3

LEMMA Joined2 ==
  ASSUME NEW S, NEW s \in Seq(S), NEW b \in Seq(S)
  PROVE  /\ s \o b \in Seq(S)
         /\ Len(s) \in Nat /\ Len(b) \in Nat
         /\ Len(s \o b) = Len(s) + Len(b)
         /\ \A i \in 1 .. Len(s) : (s \o b)[i] = s[i]
         /\ \A i \in 1 .. Len(b) : (s \o b)[Len(s) + i] = b[i]
<1>1. s \o b \in Seq(S) /\ Len(s) \in Nat /\ Len(b) \in Nat /\ Len(s \o b) = Len(s) + Len(b)
  OBVIOUS
<1>2. \A i \in 1 .. Len(s) : (s \o b)[i] = s[i]
  OBVIOUS
<1>3. \A i \in 1 .. Len(b) : (s \o b)[Len(s) + i] = b[i]
  OBVIOUS
<1> QED
  BY <1>1, <1>2, <1>3

LEMMA Joined ==
  ASSUME NEW S, NEW s \in Seq(S), NEW d \in Seq(S), NEW b \in Seq(S)
  PROVE  /\ (s \o d) \o b \in Seq(S)
         /\ Len(s) \in Nat /\ Len(d) \in Nat /\ Len(b) \in Nat
         /\ Len((s \o d) \o b) = Len(s) + Len(d) + Len(b)
         /\ \A i \in 1 .. Len(s) : ((s \o d) \o b)[i] = s[i]
         /\ \A i \in 1 .. Len(d) : ((s \o d) \o b)[Len(s) + i] = d[i]
         /\ \A i \in 1 .. Len(b) : ((s \o d) \o b)[Len(s) + Len(d) + i] = b[i]
<1> DEFINE u == s \o d
<1>1. /\ u \in Seq(S) /\ Len(u) = Len(s) + Len(d)
      /\ Len(s) \in Nat /\ Len(d) \in Nat
      /\ \A i \in 1 .. Len(s) : u[i] = s[i]
      /\ \A i \in 1 .. Len(d) : u[Len(s) + i] = d[i]
  BY Joined2
<1> HIDE DEF u
<1>2. /\ u \o b \in Seq(S) /\ Len(u \o b) = Len(u) + Len(b) /\ Len(b) \in Nat
      /\ \A i \in 1 .. Len(u) : (u \o b)[i] = u[i]
      /\ \A i \in 1 .. Len(b) : (u \o b)[Len(u) + i] = b[i]
  <2>1. u \in Seq(S)
    BY <1>1
  <2> QED BY <2>1, Joined2
<1>3. \A i \in 1 .. Len(s) : (u \o b)[i] = s[i]
  BY <1>1, <1>2
<1>4. \A i \in 1 .. Len(d) : (u \o b)[Len(s) + i] = d[i]
  <2> TAKE i \in 1 .. Len(d)
  <2>1. Len(s) + i \in 1 .. Len(u)
    BY <1>1
  <2> QED BY <1>1, <1>2, <2>1
<1>5. Len(u \o b) = Len(s) + Len(d) + Len(b)
  BY <1>1, <1>2
<1>6. \A i \in 1 .. Len(b) : (u \o b)[Len(s) + Len(d) + i] = b[i]
  BY <1>1, <1>2
<1> QED
  BY <1>1, <1>2, <1>3, <1>4, <1>5, <1>6 DEF u

LEMMA Cut ==
  ASSUME NEW S, NEW s \in Seq(S), NEW m \in Nat, NEW n \in Nat, 1 <= m, m <= n + 1, n <= Len(s)
  PROVE  /\ SubSeq(s, m, n) \in Seq(S)
         /\ Len(SubSeq(s, m, n)) = n - m + 1
         /\ \A i \in 1 .. n - m + 1 : SubSeq(s, m, n)[i] = s[m + i - 1]
<1>1. m \in Int /\ n \in Int /\ \A i \in m .. n : s[i] \in S
  OBVIOUS
<1>2. /\ SubSeq(s, m, n) \in Seq(S)
      /\ Len(SubSeq(s, m, n)) = IF m <= n THEN n - m + 1 ELSE 0
      /\ \A i \in 1 .. n - m + 1 : SubSeq(s, m, n)[i] = s[m + i - 1]
  BY <1>1, SubSeqProperties
<1>3. (IF m <= n THEN n - m + 1 ELSE 0) = n - m + 1
  OBVIOUS
<1> QED
  BY <1>2, <1>3

LEMMA OneWord ==
  ASSUME NEW c \in Tokens
  PROVE  <<c>> \in Seq(Tokens) /\ <<c>> # <<>> /\ Len(<<c>>) = 1 /\ <<c>>[1] = c
  OBVIOUS

LEMMA PlacesOfWord ==
  ASSUME NEW s \in Seq(Tokens), NEW c \in Tokens
  PROVE  Places(s, <<c>>) = {i \in 1 .. Len(s) : s[i] = c}
<1>1. Len(<<c>>) = 1
  BY OneWord
<1>2. ASSUME NEW i \in 1 .. Len(s)
      PROVE  SubSeq(s, i, i) = <<c>> <=> s[i] = c
  <2>1. i \in Int /\ i <= i /\ \A j \in i .. i : s[j] \in Tokens
    OBVIOUS
  <2>2. /\ SubSeq(s, i, i) \in Seq(Tokens)
        /\ Len(SubSeq(s, i, i)) = 1
        /\ SubSeq(s, i, i)[1] = s[i]
    BY <2>1, SubSeqProperties
  <2> DEFINE u == SubSeq(s, i, i)
             w == <<c>>
  <2>3. w \in Seq(Tokens) /\ Len(w) = 1 /\ w[1] = c
    BY OneWord
  <2> HIDE DEF u, w
  <2>4. u = w <=> u[1] = w[1]
    <3>1. \A k \in 1 .. 1 : k = 1
      OBVIOUS
    <3>2. u \in Seq(Tokens) /\ Len(u) = 1
      BY <2>2 DEF u
    <3> QED BY <2>3, <3>1, <3>2, SeqEqual
  <2> QED BY <2>2, <2>3, <2>4 DEF u, w
<1>3. Places(s, <<c>>) = {i \in 1 .. Len(s) - 1 + 1 : SubSeq(s, i, i + 1 - 1) = <<c>>}
  BY <1>1 DEF Places
<1>4. Len(s) - 1 + 1 = Len(s) /\ \A i \in 1 .. Len(s) : i + 1 - 1 = i
  OBVIOUS
<1> QED
  BY <1>2, <1>3, <1>4

LEMMA PlacesOfLineEnd ==
  ASSUME NEW s \in Seq(Tokens)
  PROVE  Places(s, CRLF) = {i \in 1 .. Len(s) - 1 : s[i] = CR /\ s[i + 1] = LF}
<1>1. Len(CRLF) = 2 /\ CRLF[1] = CR /\ CRLF[2] = LF
  BY DEF CRLF
<1>2. ASSUME NEW i \in 1 .. Len(s) - 1
      PROVE  SubSeq(s, i, i + 1) = CRLF <=> s[i] = CR /\ s[i + 1] = LF
  <2> DEFINE u == SubSeq(s, i, i + 1)
  <2>1. u \in Seq(Tokens) /\ Len(u) = 2 /\ u[1] = s[i] /\ u[2] = s[i + 1]
    <3>1. /\ i \in Int /\ i + 1 \in Int /\ i <= i + 1
          /\ \A j \in i .. i + 1 : s[j] \in Tokens
      OBVIOUS
    <3>2. /\ u \in Seq(Tokens)
          /\ Len(u) = i + 1 - i + 1
          /\ \A j \in 1 .. i + 1 - i + 1 : u[j] = s[i + j - 1]
      BY <3>1, SubSeqProperties
    <3>3. i + 1 - i + 1 = 2 /\ i + 1 - 1 = i /\ i + 2 - 1 = i + 1 /\ 1 \in 1 .. 2 /\ 2 \in 1 .. 2
      OBVIOUS
    <3> HIDE DEF u
    <3>4. Len(u) = 2 /\ \A j \in 1 .. 2 : u[j] = s[i + j - 1]
      BY <3>2, <3>3
    <3>5. u[1] = s[i + 1 - 1] /\ u[2] = s[i + 2 - 1]
      BY <3>4, <3>3
    <3> QED BY <3>2, <3>3, <3>4, <3>5
  <2>2. CRLF \in Seq(Tokens)
    BY Characters DEF CRLF
  <2> HIDE DEF u
  <2>3. u = CRLF <=> u[1] = CRLF[1] /\ u[2] = CRLF[2]
    <3>1. \A k \in 1 .. 2 : k = 1 \/ k = 2
      OBVIOUS
    <3> QED BY <1>1, <2>1, <2>2, <3>1, SeqEqual
  <2> QED BY <1>1, <2>1, <2>3 DEF u
<1>3. Places(s, CRLF) = {i \in 1 .. Len(s) - 2 + 1 : SubSeq(s, i, i + 2 - 1) = CRLF}
  BY <1>1 DEF Places
<1>4. Len(s) - 2 + 1 = Len(s) - 1 /\ \A i \in 1 .. Len(s) - 1 : i + 2 - 1 = i + 1
  OBVIOUS
<1> QED
  BY <1>2, <1>3, <1>4

(* A word, and a text without it after it. *)
LEMMA SplitAtWord ==
  ASSUME NEW s \in Seq(Tokens), NEW c \in Tokens, NEW b \in Seq(Tokens),
         \A i \in 1 .. Len(b) : b[i] # c
  PROVE  /\ Len(split(s, <<c>>)) \in Nat \ {0}
         /\ Len(split((s \o <<c>>) \o b, <<c>>)) = Len(split(s, <<c>>)) + 1
         /\ \A k \in 1 .. Len(split(s, <<c>>)) :
               split((s \o <<c>>) \o b, <<c>>)[k] = split(s, <<c>>)[k]
         /\ split((s \o <<c>>) \o b, <<c>>)[Len(split(s, <<c>>)) + 1] = b
<1> DEFINE d == <<c>>
           t == (s \o d) \o b
<1>1. d \in Seq(Tokens) /\ d # <<>> /\ Len(d) = 1 /\ d[1] = c /\ t \in Seq(Tokens)
  <2>1. d \in Seq(Tokens) /\ d # <<>> /\ Len(d) = 1 /\ d[1] = c
    BY OneWord
  <2> HIDE DEF d
  <2> QED BY <2>1
<1>2. Places(s, d) = {i \in 1 .. Len(s) : s[i] = c}
  BY PlacesOfWord
<1>3. Places(t, d) = {i \in 1 .. Len(t) : t[i] = c}
  BY <1>1, PlacesOfWord
<1>4. /\ Len(t) = Len(s) + 1 + Len(b) /\ Len(s) \in Nat /\ Len(b) \in Nat
      /\ \A i \in 1 .. Len(s) : t[i] = s[i]
      /\ t[Len(s) + 1] = c
      /\ \A i \in 1 .. Len(b) : t[Len(s) + 1 + i] = b[i]
  <2> HIDE DEF d
  <2>1. /\ Len(s) \in Nat /\ Len(b) \in Nat
        /\ Len(t) = Len(s) + Len(d) + Len(b)
        /\ \A i \in 1 .. Len(s) : t[i] = s[i]
        /\ \A i \in 1 .. Len(d) : t[Len(s) + i] = d[i]
        /\ \A i \in 1 .. Len(b) : t[Len(s) + Len(d) + i] = b[i]
    <3>1. t = (s \o d) \o b /\ d \in Seq(Tokens)
      BY <1>1
    <3> HIDE DEF t
    <3> QED BY <3>1, Joined
  <2> HIDE DEF t
  <2> QED BY <1>1, <2>1
<1> HIDE DEF d, t
<1>5. Places(t, d) = Places(s, d) \cup {Len(s) + 1}
  <2>1. ASSUME NEW i \in 1 .. Len(t), i > Len(s) + 1
        PROVE  t[i] # c
    <3> DEFINE j == i - (Len(s) + 1)
    <3>1. j \in 1 .. Len(b) /\ Len(s) + 1 + j = i
      BY <1>4, <2>1
    <3> HIDE DEF j
    <3>2. t[i] = b[j]
      BY <1>4, <3>1
    <3> QED BY <3>1, <3>2
  <2>2. ASSUME NEW i \in 1 .. Len(t)
        PROVE  t[i] = c <=> i = Len(s) + 1 \/ (i \in 1 .. Len(s) /\ s[i] = c)
    <3>1. i \in 1 .. Len(s) \/ i = Len(s) + 1 \/ i > Len(s) + 1
      BY <1>4
    <3> QED BY <1>4, <2>1, <3>1
  <2> QED BY <1>2, <1>3, <1>4, <2>2
<1>6. /\ Places(s, d) \subseteq 1 .. Len(s)
      /\ \A i \in Places(s, d) : i + Len(d) <= Len(s) + 1
  BY <1>1, <1>2, <1>4
<1>7. d \in Seq(Tokens) /\ d # <<>>
  BY <1>1
<1>8. Places((s \o d) \o b, d) = Places(s, d) \cup {Len(s) + 1}
  BY <1>5 DEF t
<1>9. /\ Len(split(s, d)) \in Nat \ {0}
      /\ Len(split((s \o d) \o b, d)) = Len(split(s, d)) + 1
      /\ \A k \in 1 .. Len(split(s, d)) : split((s \o d) \o b, d)[k] = split(s, d)[k]
      /\ split((s \o d) \o b, d)[Len(split(s, d)) + 1] = b
  BY <1>6, <1>7, <1>8, SplitMore, SMTT(60)
<1> QED
  BY <1>9 DEF d

LEMMA SplitAtColon ==
  ASSUME NEW s \in Seq(Tokens), NEW b \in Seq(Tokens), \A i \in 1 .. Len(b) : b[i] # COLON
  PROVE  /\ Len(split((s \o <<COLON>>) \o b, <<COLON>>)) = Len(split(s, <<COLON>>)) + 1
         /\ \A k \in 1 .. Len(split(s, <<COLON>>)) :
               split((s \o <<COLON>>) \o b, <<COLON>>)[k] = split(s, <<COLON>>)[k]
         /\ split((s \o <<COLON>>) \o b, <<COLON>>)[Len(split(s, <<COLON>>)) + 1] = b
<1>1. COLON \in Tokens
  BY Characters
<1> QED
  BY <1>1, SplitAtWord, SMTT(60)

LEMMA SplitAtLineEnd ==
  ASSUME NEW s \in Seq(Tokens), NEW b \in Seq(Tokens), \A i \in 1 .. Len(b) : b[i] # CR
  PROVE  /\ Len(split(s, CRLF)) \in Nat \ {0}
         /\ Len(split((s \o CRLF) \o b, CRLF)) = Len(split(s, CRLF)) + 1
         /\ \A k \in 1 .. Len(split(s, CRLF)) :
               split((s \o CRLF) \o b, CRLF)[k] = split(s, CRLF)[k]
         /\ split((s \o CRLF) \o b, CRLF)[Len(split(s, CRLF)) + 1] = b
<1> DEFINE t == (s \o CRLF) \o b
<1>1. CRLF \in Seq(Tokens) /\ CRLF # <<>> /\ Len(CRLF) = 2 /\ CRLF[1] = CR /\ CRLF[2] = LF
  BY Characters DEF CRLF
<1>2. t \in Seq(Tokens)
  BY <1>1
<1>3. Places(s, CRLF) = {i \in 1 .. Len(s) - 1 : s[i] = CR /\ s[i + 1] = LF}
  BY PlacesOfLineEnd
<1>4. Places(t, CRLF) = {i \in 1 .. Len(t) - 1 : t[i] = CR /\ t[i + 1] = LF}
  BY <1>2, PlacesOfLineEnd
<1>5. /\ Len(t) = Len(s) + 2 + Len(b) /\ Len(s) \in Nat /\ Len(b) \in Nat
      /\ \A i \in 1 .. Len(s) : t[i] = s[i]
      /\ t[Len(s) + 1] = CR /\ t[Len(s) + 2] = LF
      /\ \A i \in 1 .. Len(b) : t[Len(s) + 2 + i] = b[i]
  <2>1. /\ Len(s) \in Nat /\ Len(b) \in Nat
        /\ Len(t) = Len(s) + Len(CRLF) + Len(b)
        /\ \A i \in 1 .. Len(s) : t[i] = s[i]
        /\ \A i \in 1 .. Len(CRLF) : t[Len(s) + i] = CRLF[i]
        /\ \A i \in 1 .. Len(b) : t[Len(s) + Len(CRLF) + i] = b[i]
    <3>1. t = (s \o CRLF) \o b /\ CRLF \in Seq(Tokens)
      BY <1>1
    <3> HIDE DEF t
    <3> QED BY <3>1, Joined
  <2> HIDE DEF t
  <2>2. /\ Len(t) = Len(s) + 2 + Len(b)
        /\ \A i \in 1 .. Len(b) : t[Len(s) + 2 + i] = b[i]
    BY <1>1, <2>1
  <2>3. 1 \in 1 .. Len(CRLF) /\ 2 \in 1 .. Len(CRLF)
    BY <1>1
  <2>4. t[Len(s) + 1] = CR /\ t[Len(s) + 2] = LF
    BY <1>1, <2>1, <2>3, Zenon
  <2> QED BY <2>1, <2>2, <2>4, Zenon
<1> HIDE DEF t
<1>6. ASSUME NEW i \in 1 .. Len(t), i > Len(s) + 1
      PROVE  t[i] # CR
  <2>1. CASE i = Len(s) + 2
    BY <2>1, <1>5, Characters
  <2>2. CASE i > Len(s) + 2
    <3> DEFINE j == i - (Len(s) + 2)
    <3>1. j \in 1 .. Len(b) /\ Len(s) + 2 + j = i
      BY <1>5, <2>2
    <3> HIDE DEF j
    <3>2. t[i] = b[j]
      BY <1>5, <3>1
    <3> QED BY <3>1, <3>2
  <2> QED BY <1>5, <1>6, <2>1, <2>2
<1>7. Places(t, CRLF) = Places(s, CRLF) \cup {Len(s) + 1}
  <2>1. Len(s) + 1 \in Places(t, CRLF)
    BY <1>4, <1>5
  <2>2. ASSUME NEW i \in Places(s, CRLF)
        PROVE  i \in Places(t, CRLF)
    <3>1. i \in 1 .. Len(s) - 1 /\ s[i] = CR /\ s[i + 1] = LF
      BY <1>3
    <3>2. i \in 1 .. Len(s) /\ i + 1 \in 1 .. Len(s) /\ i \in 1 .. Len(t) - 1
      BY <3>1, <1>5
    <3>3. t[i] = CR /\ t[i + 1] = LF
      BY <3>1, <3>2, <1>5
    <3> QED BY <3>2, <3>3, <1>4
  <2>3. ASSUME NEW i \in Places(t, CRLF), i # Len(s) + 1
        PROVE  i \in Places(s, CRLF)
    <3>1. i \in 1 .. Len(t) - 1 /\ t[i] = CR /\ t[i + 1] = LF
      BY <1>4
    <3>2. i <= Len(s)
      BY <3>1, <1>5, <1>6, <2>3
    <3>3. i # Len(s)
      BY <3>1, <1>5, Characters
    <3> QED BY <1>3, <1>5, <3>1, <3>2, <3>3
  <2> QED BY <2>1, <2>2, <2>3
<1>8. /\ Places(s, CRLF) \subseteq 1 .. Len(s)
      /\ \A i \in Places(s, CRLF) : i + Len(CRLF) <= Len(s) + 1
  BY <1>1, <1>3, <1>5
<1>9. CRLF \in Seq(Tokens) /\ CRLF # <<>>
  BY <1>1
<1>10. Places((s \o CRLF) \o b, CRLF) = Places(s, CRLF) \cup {Len(s) + 1}
  BY <1>7 DEF t
<1> QED
  BY <1>8, <1>9, <1>10, SplitMore, SMTT(30)

-----------------------------------------------------------------------------
(* The text of a request.                                                  *)

FirstLine(r) == (((r.method \o <<SP>>) \o r.url) \o <<SP>>) \o r.version

Line(h) == (h[1] \o <<COLON, SP>>) \o h[2]

(* A text on one line. *)
OnLine(s) == s \in Seq(Tokens) /\ \A i \in 1 .. Len(s) : s[i] # CR /\ s[i] # LF

LEMMA WordsOnLine ==
  ASSUME NEW W, W \subseteq Words, NEW s \in Seq(W)
  PROVE  OnLine(s) /\ \A i \in 1 .. Len(s) : s[i] \in W
<1>1. W \subseteq Tokens
  BY DEF Words, Tokens
<1>2. s \in Seq(Tokens)
  BY <1>1, SeqMonotonic
<1>3. \A i \in 1 .. Len(s) : s[i] \in W
  OBVIOUS
<1> QED
  BY <1>2, <1>3 DEF OnLine, Words

LEMMA JoinedOnLine ==
  ASSUME NEW s, NEW d, NEW b, OnLine(s), OnLine(d), OnLine(b)
  PROVE  OnLine((s \o d) \o b)
<1> DEFINE t == (s \o d) \o b
<1>1. s \in Seq(Tokens) /\ d \in Seq(Tokens) /\ b \in Seq(Tokens)
  BY DEF OnLine
<1>2. t = (s \o d) \o b
  OBVIOUS
<1> HIDE DEF t
<1>3. /\ t \in Seq(Tokens)
      /\ Len(s) \in Nat /\ Len(d) \in Nat /\ Len(b) \in Nat
      /\ Len(t) = Len(s) + Len(d) + Len(b)
      /\ \A i \in 1 .. Len(s) : t[i] = s[i]
      /\ \A i \in 1 .. Len(d) : t[Len(s) + i] = d[i]
      /\ \A i \in 1 .. Len(b) : t[Len(s) + Len(d) + i] = b[i]
  BY <1>1, <1>2, Joined
<1>4. ASSUME NEW i \in 1 .. Len(t)
      PROVE  t[i] # CR /\ t[i] # LF
  <2>1. CASE i <= Len(s)
    <3>1. i \in 1 .. Len(s)
      BY <2>1, <1>3
    <3>2. t[i] = s[i]
      BY <3>1, <1>3
    <3> QED BY <3>1, <3>2 DEF OnLine
  <2>2. CASE i > Len(s) /\ i <= Len(s) + Len(d)
    <3> DEFINE j == i - Len(s)
    <3>1. j \in 1 .. Len(d) /\ Len(s) + j = i
      BY <2>2, <1>3
    <3> HIDE DEF j
    <3>2. t[i] = d[j]
      BY <3>1, <1>3
    <3> QED BY <3>1, <3>2 DEF OnLine
  <2>3. CASE i > Len(s) + Len(d)
    <3> DEFINE j == i - (Len(s) + Len(d))
    <3>1. j \in 1 .. Len(b) /\ Len(s) + Len(d) + j = i
      BY <2>3, <1>3
    <3> HIDE DEF j
    <3>2. t[i] = b[j]
      BY <3>1, <1>3
    <3> QED BY <3>1, <3>2 DEF OnLine
  <2> QED BY <1>3, <2>1, <2>2, <2>3
<1> QED
  BY <1>3, <1>4 DEF OnLine, t

LEMMA CharactersOnLine ==
  /\ OnLine(<<SP>>) /\ OnLine(<<COLON, SP>>)
<1>1. <<SP>> \in Seq(Tokens) /\ Len(<<SP>>) = 1 /\ <<SP>>[1] = SP
  BY Characters, OneWord
<1>2. <<COLON, SP>> \in Seq(Tokens) /\ Len(<<COLON, SP>>) = 2
      /\ <<COLON, SP>>[1] = COLON /\ <<COLON, SP>>[2] = SP
  BY Characters
<1>3. OnLine(<<SP>>)
  <2> DEFINE u == <<SP>>
  <2> HIDE DEF u
  <2>1. u \in Seq(Tokens) /\ Len(u) = 1 /\ u[1] = SP
    BY <1>1 DEF u
  <2>2. OnLine(u)
    BY <2>1, Characters DEF OnLine
  <2> QED BY <2>2 DEF u
<1>4. OnLine(<<COLON, SP>>)
  <2> DEFINE u == <<COLON, SP>>
  <2> HIDE DEF u
  <2>1. u \in Seq(Tokens) /\ Len(u) = 2 /\ u[1] = COLON /\ u[2] = SP
    BY <1>2 DEF u
  <2>2. OnLine(u)
    BY <2>1, Characters DEF OnLine
  <2> QED BY <2>2 DEF u
<1> QED
  BY <1>3, <1>4

(* The first line is taken apart at its blanks. *)
LEMMA FirstLineSplit ==
  ASSUME NEW r, WellFormed(r)
  PROVE  /\ OnLine(FirstLine(r)) /\ Len(FirstLine(r)) > 0
         /\ Len(split(FirstLine(r), <<SP>>)) = 3
         /\ split(FirstLine(r), <<SP>>)[1] = r.method
         /\ split(FirstLine(r), <<SP>>)[2] = r.url
         /\ split(FirstLine(r), <<SP>>)[3] = r.version
<1> DEFINE a == r.method
           b == r.url
           c == r.version
           ab == (a \o <<SP>>) \o b
           d == <<SP>>
<1>1. /\ a \in Seq(Words \ {SP, "-"}) /\ b \in Seq(Words \ {SP}) /\ c \in Seq(Words \ {SP})
  BY DEF WellFormed
<1> HIDE DEF a, b, c
<1>2. OnLine(a) /\ \A i \in 1 .. Len(a) : a[i] # SP
  <2>1. Words \ {SP, "-"} \subseteq Words
    OBVIOUS
  <2>2. OnLine(a) /\ \A i \in 1 .. Len(a) : a[i] \in Words \ {SP, "-"}
    BY <1>1, <2>1, WordsOnLine
  <2> QED BY <2>2
<1>3. OnLine(b) /\ OnLine(c) /\ (\A i \in 1 .. Len(b) : b[i] # SP) /\ (\A i \in 1 .. Len(c) : c[i] # SP)
  <2>1. Words \ {SP} \subseteq Words
    OBVIOUS
  <2>2. /\ OnLine(b) /\ \A i \in 1 .. Len(b) : b[i] \in Words \ {SP}
        /\ OnLine(c) /\ \A i \in 1 .. Len(c) : c[i] \in Words \ {SP}
    BY <1>1, <2>1, WordsOnLine
  <2> QED BY <2>2
<1>4. OnLine(ab) /\ OnLine((ab \o <<SP>>) \o c)
  <2>1. OnLine(ab)
    BY <1>2, <1>3, CharactersOnLine, JoinedOnLine
  <2> HIDE DEF ab
  <2>2. OnLine((ab \o <<SP>>) \o c)
    BY <1>3, <2>1, CharactersOnLine, JoinedOnLine
  <2> QED BY <2>1, <2>2
<1>5. a \in Seq(Tokens) /\ b \in Seq(Tokens) /\ c \in Seq(Tokens) /\ ab \in Seq(Tokens) /\ SP \in Tokens
  BY <1>2, <1>3, <1>4, Characters DEF OnLine
<1>6. Len(split(a, d)) = 1 /\ split(a, d)[1] = a
  <2>1. Places(a, d) = {}
    BY <1>2, <1>5, PlacesOfWord
  <2>2. d \in Seq(Tokens)
    BY <1>5, OneWord
  <2> QED BY <1>5, <2>1, <2>2, SplitWhole
<1>7. /\ Len(split(ab, d)) = Len(split(a, d)) + 1
      /\ \A k \in 1 .. Len(split(a, d)) : split(ab, d)[k] = split(a, d)[k]
      /\ split(ab, d)[Len(split(a, d)) + 1] = b
  <2>1. \A i \in 1 .. Len(b) : b[i] # SP
    BY <1>3
  <2>2. a \in Seq(Tokens) /\ b \in Seq(Tokens) /\ SP \in Tokens
    BY <1>5
  <2> QED BY <2>1, <2>2, SplitAtWord, SMTT(60)
<1>8. Len(split(ab, d)) = 2 /\ split(ab, d)[1] = a /\ split(ab, d)[2] = b
  <2> HIDE DEF ab, d
  <2> QED BY <1>6, <1>7
<1> HIDE DEF ab
<1> DEFINE abc == (ab \o <<SP>>) \o c
<1>9. /\ Len(split(abc, d)) = Len(split(ab, d)) + 1
      /\ \A k \in 1 .. Len(split(ab, d)) : split(abc, d)[k] = split(ab, d)[k]
      /\ split(abc, d)[Len(split(ab, d)) + 1] = c
  <2>1. \A i \in 1 .. Len(c) : c[i] # SP
    BY <1>3
  <2>2. ab \in Seq(Tokens) /\ c \in Seq(Tokens) /\ SP \in Tokens
    BY <1>5
  <2> QED BY <2>1, <2>2, SplitAtWord, SMTT(30)
<1>10. Len(split(abc, d)) = 3 /\ split(abc, d)[1] = a /\ split(abc, d)[2] = b /\ split(abc, d)[3] = c
  <2> HIDE DEF abc, d
  <2> QED BY <1>8, <1>9
<1>11. FirstLine(r) = abc
  BY DEF FirstLine, a, b, c, ab
<1>12. Len(abc) > 0
  <2>1. <<SP>> \in Seq(Tokens) /\ Len(<<SP>>) = 1
    BY <1>5, OneWord
  <2>2. Len(abc) = Len(ab) + Len(<<SP>>) + Len(c) /\ Len(ab) \in Nat /\ Len(c) \in Nat
    BY <1>5, <2>1, Joined
  <2> HIDE DEF abc
  <2> QED BY <2>1, <2>2
<1>13. OnLine(abc)
  BY <1>4
<1> HIDE DEF abc
<1> QED
  BY <1>10, <1>11, <1>12, <1>13 DEF a, b, c, d

LEMMA TrimmedValue ==
  ASSUME NEW v \in Seq(Words), v # <<>> => v[1] # SP /\ v[Len(v)] # SP
  PROVE  trim_whitespace(<<SP>> \o v) = v
<1> DEFINE s == <<SP>> \o v
           solid == {i \in 1 .. Len(s) : s[i] \notin {SP, CR, LF}}
<1>1. OnLine(v)
  BY WordsOnLine
<1>2. v \in Seq(Tokens) /\ Len(v) \in Nat
  BY <1>1 DEF OnLine
<1>3. /\ s \in Seq(Tokens) /\ Len(s) = Len(v) + 1 /\ s[1] = SP
      /\ \A i \in 1 .. Len(v) : s[i + 1] = v[i]
  <2> DEFINE b == <<SP>>
  <2>1. b \in Seq(Tokens) /\ Len(b) = 1 /\ b[1] = SP
    BY Characters, OneWord
  <2> HIDE DEF b
  <2>4. /\ b \o v \in Seq(Tokens) /\ Len(b \o v) = Len(b) + Len(v)
        /\ \A i \in 1 .. Len(b) : (b \o v)[i] = b[i]
        /\ \A i \in 1 .. Len(v) : (b \o v)[Len(b) + i] = v[i]
    <3>1. b \in Seq(Tokens) /\ v \in Seq(Tokens)
      BY <1>2, <2>1
    <3> QED BY <3>1, Joined2
  <2>2. b \o v \in Seq(Tokens) /\ Len(b \o v) = Len(v) + 1 /\ (b \o v)[1] = SP
    BY <1>2, <2>1, <2>4
  <2>3. \A i \in 1 .. Len(v) : (b \o v)[i + 1] = v[i]
    BY <1>2, <2>1, <2>4
  <2> QED BY <2>2, <2>3 DEF b
<1>4. trim_whitespace(s) = IF solid = {} THEN <<>> ELSE SubSeq(s, Min(solid), Max(solid))
  BY DEF trim_whitespace
<1> HIDE DEF s
<1>5. CASE v = <<>>
  <2>1. \A i \in 1 .. Len(s) : s[i] = SP
    BY <1>3, <1>5
  <2>2. solid = {}
    BY <2>1
  <2> QED BY <1>4, <1>5, <2>2 DEF s
<1>6. CASE v # <<>>
  <2> DEFINE n == Len(v)
  <2>1. n \in Nat \ {0}
    BY <1>2, <1>6
  <2>2. v[1] \notin {SP, CR, LF} /\ v[n] \notin {SP, CR, LF}
    BY <1>1, <1>6, <2>1 DEF OnLine
  <2>3. s[2] = v[1] /\ s[n + 1] = v[n]
    <3>1. 1 \in 1 .. n /\ n \in 1 .. n /\ 1 + 1 = 2
      BY <2>1
    <3> QED BY <1>3, <3>1
  <2>4. 2 \in solid /\ n + 1 \in solid /\ solid \subseteq 2 .. n + 1
    BY <1>3, <2>1, <2>2, <2>3
  <2> HIDE DEF solid, n
  <2>5. Min(solid) = 2
    <3>1. \A x \in solid : (\A y \in solid : x <= y) <=> x = 2
      BY <2>1, <2>4
    <3> QED BY <2>4, <3>1 DEF Min
  <2>6. Max(solid) = n + 1
    <3>1. \A x \in solid : (\A y \in solid : x >= y) <=> x = n + 1
      BY <2>1, <2>4
    <3> QED BY <2>4, <3>1 DEF Max
  <2>7. solid # {} /\ trim_whitespace(s) = SubSeq(s, 2, n + 1)
    BY <1>4, <2>4, <2>5, <2>6
  <2>8. SubSeq(s, 2, n + 1) = v
    <3>1. \A i \in 2 .. n + 1 : s[i] \in Tokens
      BY <1>3, <2>1 DEF n
    <3>2. /\ SubSeq(s, 2, n + 1) \in Seq(Tokens)
          /\ Len(SubSeq(s, 2, n + 1)) = n
          /\ \A i \in 1 .. n : SubSeq(s, 2, n + 1)[i] = s[i + 1]
      BY <1>3, <2>1 DEF n
    <3>3. \A i \in 1 .. n : SubSeq(s, 2, n + 1)[i] = v[i]
      BY <1>3, <3>2 DEF n
    <3> QED BY <1>2, <3>2, <3>3, SeqEqual DEF n
  <2> QED BY <2>7, <2>8 DEF s
<1> QED
  BY <1>5, <1>6

(* What the request's headers are. *)
LEMMA HeaderTypes ==
  ASSUME NEW r, WellFormed(r)
  PROVE  /\ r.headers \in Seq(Seq(Words \ {COLON}) \X Seq(Words))
         /\ Len(r.headers) \in Nat
         /\ \A k \in 1 .. Len(r.headers) :
              /\ r.headers[k] = <<r.headers[k][1], r.headers[k][2]>>
              /\ r.headers[k][1] \in Seq(Words \ {COLON})
              /\ r.headers[k][2] \in Seq(Words)
              /\ r.headers[k][2] # <<>> =>
                   r.headers[k][2][1] # SP /\ r.headers[k][2][Len(r.headers[k][2])] # SP
<1> DEFINE H == Seq(Words \ {COLON}) \X Seq(Words)
<1>1. r.headers \in Seq(H)
  BY DEF WellFormed
<1>2. Len(r.headers) \in Nat /\ \A k \in 1 .. Len(r.headers) : r.headers[k] \in H
  <2> HIDE DEF H
  <2> QED BY <1>1
<1>3. \A h \in H : h = <<h[1], h[2]>> /\ h[1] \in Seq(Words \ {COLON}) /\ h[2] \in Seq(Words)
  OBVIOUS
<1>4. \A k \in 1 .. Len(r.headers) :
          r.headers[k][2] # <<>> =>
             r.headers[k][2][1] # SP /\ r.headers[k][2][Len(r.headers[k][2])] # SP
  BY DEF WellFormed
<1> QED
  BY <1>1, <1>2, <1>3, <1>4

(* A header's line has two parts unless there is a colon in the value; then *)
(* the parts are its name and its value after a blank.                      *)
LEMMA LineSplit ==
  ASSUME NEW n \in Seq(Words \ {COLON}), NEW v \in Seq(Words)
  PROVE  LET l == Line(<<n, v>>)
         IN  /\ OnLine(l) /\ Len(l) > 0
             /\ Len(split(l, <<COLON>>)) = 2 <=> COLON \notin Range(v)
             /\ COLON \notin Range(v) =>
                  split(l, <<COLON>>)[1] = n /\ split(l, <<COLON>>)[2] = <<SP>> \o v
<1> DEFINE l == (n \o <<COLON, SP>>) \o v
           d == <<COLON>>
           b == <<SP>> \o v
<1>1. OnLine(n) /\ OnLine(v) /\ \A i \in 1 .. Len(n) : n[i] # COLON
  <2>1. Words \ {COLON} \subseteq Words
    OBVIOUS
  <2>2. OnLine(n) /\ \A i \in 1 .. Len(n) : n[i] \in Words \ {COLON}
    BY <2>1, WordsOnLine
  <2>3. OnLine(v)
    BY WordsOnLine
  <2> QED BY <2>2, <2>3
<1>2. n \in Seq(Tokens) /\ v \in Seq(Tokens) /\ Len(n) \in Nat /\ Len(v) \in Nat
  BY <1>1 DEF OnLine
<1>3. Line(<<n, v>>) = l
  BY DEF Line
<1>4. OnLine(l)
  BY <1>1, CharactersOnLine, JoinedOnLine
<1>5. /\ l \in Seq(Tokens)
      /\ Len(l) = Len(n) + 2 + Len(v)
      /\ \A i \in 1 .. Len(n) : l[i] = n[i]
      /\ l[Len(n) + 1] = COLON /\ l[Len(n) + 2] = SP
      /\ \A i \in 1 .. Len(v) : l[Len(n) + 2 + i] = v[i]
  <2> DEFINE m == <<COLON, SP>>
  <2>1. m \in Seq(Tokens) /\ Len(m) = 2 /\ m[1] = COLON /\ m[2] = SP
    BY Characters
  <2>2. l = (n \o m) \o v
    OBVIOUS
  <2> HIDE DEF l, m
  <2>3. /\ l \in Seq(Tokens)
        /\ Len(l) = Len(n) + Len(m) + Len(v)
        /\ \A i \in 1 .. Len(n) : l[i] = n[i]
        /\ \A i \in 1 .. Len(m) : l[Len(n) + i] = m[i]
        /\ \A i \in 1 .. Len(v) : l[Len(n) + Len(m) + i] = v[i]
    <3>1. n \in Seq(Tokens) /\ m \in Seq(Tokens) /\ v \in Seq(Tokens)
      BY <1>2, <2>1
    <3> QED BY <3>1, <2>2, Joined
  <2> QED BY <2>1, <2>3
<1>6. /\ b \in Seq(Tokens) /\ Len(b) = Len(v) + 1 /\ b[1] = SP
      /\ \A i \in 1 .. Len(v) : b[i + 1] = v[i]
  <2> DEFINE w == <<SP>>
  <2>1. w \in Seq(Tokens) /\ Len(w) = 1 /\ w[1] = SP
    BY Characters, OneWord
  <2> HIDE DEF w
  <2>4. /\ w \o v \in Seq(Tokens) /\ Len(w \o v) = Len(w) + Len(v)
        /\ \A i \in 1 .. Len(w) : (w \o v)[i] = w[i]
        /\ \A i \in 1 .. Len(v) : (w \o v)[Len(w) + i] = v[i]
    <3>1. w \in Seq(Tokens) /\ v \in Seq(Tokens)
      BY <1>2, <2>1
    <3> QED BY <3>1, Joined2
  <2>2. w \o v \in Seq(Tokens) /\ Len(w \o v) = Len(v) + 1 /\ (w \o v)[1] = SP
    BY <1>2, <2>1, <2>4
  <2>3. \A i \in 1 .. Len(v) : (w \o v)[i + 1] = v[i]
    BY <1>2, <2>1, <2>4
  <2> QED BY <2>2, <2>3 DEF w
<1>7. l = (n \o d) \o b
  <2> DEFINE t == (n \o d) \o b
  <2>1. d \in Seq(Tokens) /\ Len(d) = 1 /\ d[1] = COLON
    BY Characters, OneWord
  <2>2. t = (n \o d) \o b
    OBVIOUS
  <2> HIDE DEF l, d, b, t
  <2>3. /\ t \in Seq(Tokens)
        /\ Len(t) = Len(n) + Len(d) + Len(b)
        /\ \A i \in 1 .. Len(n) : t[i] = n[i]
        /\ \A i \in 1 .. Len(d) : t[Len(n) + i] = d[i]
        /\ \A i \in 1 .. Len(b) : t[Len(n) + Len(d) + i] = b[i]
    <3>1. n \in Seq(Tokens) /\ d \in Seq(Tokens) /\ b \in Seq(Tokens)
      BY <1>2, <1>6, <2>1
    <3> QED BY <3>1, <2>2, Joined
  <2>4. Len(t) = Len(l)
    BY <1>2, <1>5, <1>6, <2>1, <2>3
  <2>5. ASSUME NEW i \in 1 .. Len(l)
        PROVE  t[i] = l[i]
    <3>1. CASE i <= Len(n)
      BY <3>1, <1>2, <1>5, <2>3
    <3>2. CASE i = Len(n) + 1
      BY <3>2, <1>2, <1>5, <2>1, <2>3
    <3>3. CASE i = Len(n) + 2
      <4>1. 1 \in 1 .. Len(b) /\ Len(n) + Len(d) + 1 = i
        BY <3>3, <1>2, <1>6, <2>1
      <4> QED BY <3>3, <4>1, <1>5, <1>6, <2>3
    <3>4. CASE i > Len(n) + 2
      <4> DEFINE j == i - (Len(n) + 2)
      <4>1. j \in 1 .. Len(v) /\ Len(n) + 2 + j = i
        BY <3>4, <1>2, <1>5
      <4>2. j + 1 \in 1 .. Len(b) /\ Len(n) + Len(d) + (j + 1) = i
        BY <4>1, <1>2, <1>6, <2>1
      <4> HIDE DEF j
      <4>3. t[i] = b[j + 1]
        BY <4>2, <2>3
      <4> QED BY <4>1, <4>3, <1>5, <1>6
    <3> QED BY <3>1, <3>2, <3>3, <3>4, <1>2
  <2>6. t = l
    BY <1>5, <2>3, <2>4, <2>5, SeqEqual
  <2> QED BY <2>2, <2>6
<1>8. Len(l) > 0
  BY <1>2, <1>5
<1>9. COLON \in Range(v) <=> \E i \in 1 .. Len(v) : v[i] = COLON
  BY <1>2 DEF Range
<1>10. Places(l, d) = {i \in 1 .. Len(l) : l[i] = COLON}
  BY <1>5, Characters, PlacesOfWord
<1>11. ASSUME COLON \notin Range(v)
       PROVE  /\ Len(split(l, d)) = 2
              /\ split(l, d)[1] = n /\ split(l, d)[2] = b
  <2>1. Places(n, d) = {}
    BY <1>1, <1>2, Characters, PlacesOfWord
  <2>2. Len(split(n, d)) = 1 /\ split(n, d)[1] = n
    <3>1. d \in Seq(Tokens)
      BY Characters, OneWord
    <3> QED BY <1>2, <2>1, <3>1, SplitWhole
  <2>3. ASSUME NEW i \in 1 .. Len(b)
        PROVE  b[i] # COLON
    <3>1. CASE i = 1
      BY <3>1, <1>6, Characters
    <3>2. CASE i # 1
      <4> DEFINE j == i - 1
      <4>1. j \in 1 .. Len(v) /\ j + 1 = i
        BY <3>2, <1>2, <1>6
      <4> HIDE DEF j, b
      <4>2. b[i] = v[j]
        BY <4>1, <1>6
      <4> QED BY <4>1, <4>2, <1>9, <1>11
    <3> QED BY <3>1, <3>2
  <2>4. /\ Len(split((n \o <<COLON>>) \o b, <<COLON>>)) = Len(split(n, <<COLON>>)) + 1
        /\ \A k \in 1 .. Len(split(n, <<COLON>>)) :
              split((n \o <<COLON>>) \o b, <<COLON>>)[k] = split(n, <<COLON>>)[k]
        /\ split((n \o <<COLON>>) \o b, <<COLON>>)[Len(split(n, <<COLON>>)) + 1] = b
    <3>1. n \in Seq(Tokens) /\ COLON \in Tokens /\ b \in Seq(Tokens)
      BY <1>2, <1>6, Characters
    <3> HIDE DEF b
    <3> QED BY <2>3, <3>1, SplitAtColon
  <2>5. /\ Len(split(l, d)) = Len(split(n, d)) + 1
        /\ \A k \in 1 .. Len(split(n, d)) : split(l, d)[k] = split(n, d)[k]
        /\ split(l, d)[Len(split(n, d)) + 1] = b
    <3>1. l = (n \o <<COLON>>) \o b
      BY <1>7
    <3> HIDE DEF l, b
    <3> QED BY <2>4, <3>1
  <2> HIDE DEF l, d, b
  <2> QED BY <2>2, <2>5
<1>12. ASSUME COLON \in Range(v)
       PROVE  Len(split(l, d)) # 2
  <2>1. PICK j \in 1 .. Len(v) : v[j] = COLON
    BY <1>9, <1>12
  <2> HIDE DEF l, d
  <2>2. Len(n) + 1 \in Places(l, d) /\ Len(n) + 2 + j \in Places(l, d)
    BY <1>2, <1>5, <1>10, <2>1
  <2>3. /\ IsFiniteSet(Places(l, d))
        /\ Len(split(l, d)) = Cardinality(Places(l, d)) + 1
    <3>1. Places(l, d) \subseteq 1 .. Len(l)
      BY <1>10
    <3>2. d \in Seq(Tokens)
      BY Characters, OneWord DEF d
    <3> QED BY <1>5, <3>1, <3>2, SplitSegments
  <2>4. Cardinality(Places(l, d)) # 1
    <3>1. Len(n) + 1 # Len(n) + 2 + j
      BY <1>2
    <3> QED BY <2>2, <2>3, <3>1, FS_Singleton
  <2>5. Cardinality(Places(l, d)) \in Nat
    BY <2>3, FS_CardinalityType
  <2> QED BY <2>3, <2>4, <2>5
<1> HIDE DEF l, d, b
<1>13. OnLine(l) /\ Len(l) > 0
  BY <1>4, <1>8
<1> QED
  BY <1>3, <1>11, <1>12, <1>13 DEF d, b

(* Nowhere in the text is a line empty. *)
NoEmptyLine(u) ==
    \A n \in 3 .. Len(u) : ~ (u[n - 2] = LF /\ u[n - 1] = CR /\ u[n] = LF)

LEMMA LineEnd ==
  /\ CRLF \in Seq(Tokens) /\ CRLF # <<>> /\ Len(CRLF) = 2 /\ CRLF[1] = CR /\ CRLF[2] = LF
  BY Characters DEF CRLF

LEMMA OneLine ==
  ASSUME NEW l, OnLine(l), Len(l) > 0
  PROVE  NoEmptyLine(l \o CRLF)
<1> DEFINE t == l \o CRLF
<1>1. /\ t \in Seq(Tokens) /\ Len(l) \in Nat /\ Len(t) = Len(l) + 2
      /\ \A i \in 1 .. Len(l) : t[i] = l[i]
      /\ t[Len(l) + 1] = CR
  <2>1. l \in Seq(Tokens) /\ CRLF \in Seq(Tokens)
    BY LineEnd DEF OnLine
  <2>2. /\ t \in Seq(Tokens)
        /\ Len(l) \in Nat
        /\ Len(t) = Len(l) + Len(CRLF)
        /\ \A i \in 1 .. Len(l) : t[i] = l[i]
        /\ \A i \in 1 .. Len(CRLF) : t[Len(l) + i] = CRLF[i]
    BY <2>1, Joined2
  <2> HIDE DEF t
  <2> QED BY <2>2, LineEnd
<1> HIDE DEF t
<1>2. \A i \in 1 .. Len(l) : t[i] # LF
  BY <1>1 DEF OnLine
<1>3. ASSUME NEW n \in 3 .. Len(t)
      PROVE  ~ (t[n - 2] = LF /\ t[n - 1] = CR /\ t[n] = LF)
  <2>1. CASE n = Len(l) + 2
    <3>1. n - 2 \in 1 .. Len(l)
      BY <2>1, <1>1
    <3> QED BY <1>2, <3>1
  <2>2. CASE n = Len(l) + 1
    BY <2>2, <1>1, Characters
  <2>3. CASE n <= Len(l)
    BY <2>3, <1>1, <1>2
  <2> QED BY <1>1, <2>1, <2>2, <2>3
<1> QED
  BY <1>3 DEF NoEmptyLine, t

LEMMA OneLineMore ==
  ASSUME NEW u \in Seq(Tokens), NoEmptyLine(u), NEW l, OnLine(l), Len(l) > 0
  PROVE  NoEmptyLine((u \o l) \o CRLF)
<1> DEFINE t == (u \o l) \o CRLF
           m == Len(u) + Len(l)
<1>1. /\ t \in Seq(Tokens) /\ Len(u) \in Nat /\ Len(l) \in Nat \ {0} /\ Len(t) = m + 2
      /\ \A i \in 1 .. Len(u) : t[i] = u[i]
      /\ \A i \in 1 .. Len(l) : t[Len(u) + i] = l[i]
      /\ t[m + 1] = CR
  <2>1. l \in Seq(Tokens) /\ CRLF \in Seq(Tokens)
    BY LineEnd DEF OnLine
  <2>2. /\ t \in Seq(Tokens)
        /\ Len(u) \in Nat /\ Len(l) \in Nat
        /\ Len(t) = Len(u) + Len(l) + Len(CRLF)
        /\ \A i \in 1 .. Len(u) : t[i] = u[i]
        /\ \A i \in 1 .. Len(l) : t[Len(u) + i] = l[i]
        /\ \A i \in 1 .. Len(CRLF) : t[Len(u) + Len(l) + i] = CRLF[i]
    BY <2>1, Joined
  <2> HIDE DEF t
  <2> QED BY <2>2, LineEnd
<1> HIDE DEF t
<1>2. ASSUME NEW i \in Len(u) + 1 .. m
      PROVE  t[i] # LF
  <2> DEFINE j == i - Len(u)
  <2>1. j \in 1 .. Len(l) /\ Len(u) + j = i
    BY <1>1
  <2> HIDE DEF j
  <2>2. t[i] = l[j]
    BY <1>1, <2>1
  <2> QED BY <2>1, <2>2 DEF OnLine
<1>3. ASSUME NEW n \in 3 .. Len(t)
      PROVE  ~ (t[n - 2] = LF /\ t[n - 1] = CR /\ t[n] = LF)
  <2>1. CASE n = m + 2
    <3>1. n - 2 \in Len(u) + 1 .. m
      BY <2>1, <1>1
    <3> QED BY <1>2, <3>1
  <2>2. CASE n = m + 1
    BY <2>2, <1>1, Characters
  <2>3. CASE n > Len(u) /\ n <= m
    BY <2>3, <1>1, <1>2
  <2>4. CASE n <= Len(u)
    <3>1. n \in 3 .. Len(u) /\ n - 2 \in 1 .. Len(u) /\ n - 1 \in 1 .. Len(u) /\ n \in 1 .. Len(u)
      BY <2>4, <1>1
    <3>2. t[n - 2] = u[n - 2] /\ t[n - 1] = u[n - 1] /\ t[n] = u[n]
      BY <1>1, <3>1
    <3> QED BY <3>1, <3>2 DEF NoEmptyLine
  <2>5. n = m + 2 \/ n = m + 1 \/ (n > Len(u) /\ n <= m) \/ n <= Len(u)
    <3>1. m \in Nat /\ Len(u) \in Nat /\ n \in 3 .. m + 2
      BY <1>1
    <3> HIDE DEF m
    <3> QED BY <3>1
  <2> QED BY <2>1, <2>2, <2>3, <2>4, <2>5
<1> QED
  BY <1>3 DEF NoEmptyLine, t

(* The two ways to join three texts are one.  They have names because the   *)
(* provers look into a concatenation that has none.                         *)
JoinLeft(a, b, c) == (a \o b) \o c

JoinRight(a, b, c) == a \o (b \o c)

LEMMA JoinsAgree ==
  ASSUME NEW a \in Seq(Tokens), NEW b \in Seq(Tokens), NEW c \in Seq(Tokens)
  PROVE  JoinLeft(a, b, c) = JoinRight(a, b, c)
<1>1. (a \o b) \o c = a \o (b \o c)
  OBVIOUS
<1> QED
  BY <1>1 DEF JoinLeft, JoinRight

(* A head as far as its i-th header: T is without the last line end.       *)
HeadText(r, f, i, T) ==
    /\ (FirstLine(r) \o CRLF) \o f[i] = T \o CRLF
    /\ NoEmptyLine(T \o CRLF)
    /\ Len(split(T, CRLF)) = i + 1
    /\ split(T, CRLF)[1] = FirstLine(r)
    /\ \A k \in 1 .. i : split(T, CRLF)[k + 1] = Line(r.headers[k])

LEMMA HeadTextMore ==
  ASSUME NEW r, NEW f, NEW i \in Nat, NEW T \in Seq(Tokens), HeadText(r, f, i, T),
         FirstLine(r) \in Seq(Tokens), f[i] \in Seq(Tokens),
         OnLine(Line(r.headers[i + 1])), Len(Line(r.headers[i + 1])) > 0,
         f[i + 1] = f[i] \o (Line(r.headers[i + 1]) \o CRLF)
  PROVE  \E U \in Seq(Tokens) : HeadText(r, f, i + 1, U)
<1> DEFINE L == Line(r.headers[i + 1])
           H == FirstLine(r) \o CRLF
           U == (T \o CRLF) \o L
<1>1. OnLine(L) /\ Len(L) > 0 /\ L \in Seq(Tokens)
  BY DEF OnLine
<1>2. H \in Seq(Tokens) /\ T \o CRLF \in Seq(Tokens)
  BY LineEnd, Joined2
<1>3. H \o f[i] = T \o CRLF /\ f[i + 1] = f[i] \o (L \o CRLF)
  BY DEF HeadText
<1> HIDE DEF L, H
<1>4. U \in Seq(Tokens)
  BY <1>1, <1>2, Joined2
<1>5. H \o f[i + 1] = U \o CRLF
  <2> DEFINE a == f[i]
             TC == T \o CRLF
             LC == L \o CRLF
  <2>1. /\ H \in Seq(Tokens) /\ a \in Seq(Tokens) /\ L \in Seq(Tokens) /\ CRLF \in Seq(Tokens)
        /\ TC \in Seq(Tokens) /\ LC \in Seq(Tokens)
    BY <1>1, <1>2, LineEnd, Joined2
  <2>2. f[i + 1] = a \o LC /\ H \o a = TC
    BY <1>3
  <2> HIDE DEF a, TC
  <2>3. (TC \o L) \o CRLF = TC \o LC
    <3>1. JoinLeft(TC, L, CRLF) = JoinRight(TC, L, CRLF)
      BY <2>1, JoinsAgree
    <3> QED BY <3>1 DEF JoinLeft, JoinRight
  <2> HIDE DEF LC
  <2>4. (H \o a) \o LC = H \o (a \o LC)
    <3>1. JoinLeft(H, a, LC) = JoinRight(H, a, LC)
      BY <2>1, JoinsAgree
    <3> QED BY <3>1 DEF JoinLeft, JoinRight
  <2>5. (H \o a) \o LC = TC \o LC
    BY <2>2
  <2>6. H \o (a \o LC) = H \o f[i + 1]
    BY <2>2
  <2>7. U \o CRLF = (TC \o L) \o CRLF
    BY DEF TC
  <2> HIDE DEF U
  <2> QED BY <2>3, <2>4, <2>5, <2>6, <2>7
<1>6. NoEmptyLine(U \o CRLF)
  <2>1. NoEmptyLine(T \o CRLF)
    BY DEF HeadText
  <2> QED BY <1>1, <1>2, <2>1, OneLineMore
<1>7. /\ Len(split(U, CRLF)) = Len(split(T, CRLF)) + 1
      /\ \A k \in 1 .. Len(split(T, CRLF)) : split(U, CRLF)[k] = split(T, CRLF)[k]
      /\ split(U, CRLF)[Len(split(T, CRLF)) + 1] = L
  <2>1. \A k \in 1 .. Len(L) : L[k] # CR
    BY <1>1 DEF OnLine
  <2> QED BY <1>1, <2>1, SplitAtLineEnd, SMTT(30)
<1>8. /\ Len(split(T, CRLF)) = i + 1
      /\ split(T, CRLF)[1] = FirstLine(r)
      /\ \A k \in 1 .. i : split(T, CRLF)[k + 1] = Line(r.headers[k])
  BY DEF HeadText
<1> HIDE DEF U
<1>9. /\ Len(split(U, CRLF)) = i + 2
      /\ split(U, CRLF)[1] = FirstLine(r)
  BY <1>7, <1>8
<1>10. ASSUME NEW k \in 1 .. i + 1
       PROVE  split(U, CRLF)[k + 1] = Line(r.headers[k])
  <2>1. CASE k \in 1 .. i
    <3>1. k + 1 \in 1 .. i + 1
      BY <2>1
    <3> QED BY <1>7, <1>8, <2>1, <3>1
  <2>2. CASE k = i + 1
    BY <1>7, <1>8, <2>2 DEF L
  <2> QED BY <2>1, <2>2
<1>11. HeadText(r, f, i + 1, U)
  <2>1. i + 1 + 1 = i + 2
    OBVIOUS
  <2> QED BY <1>5, <1>6, <1>9, <1>10, <2>1 DEF HeadText, H
<1> QED
  BY <1>4, <1>11

(* A request's text is its lines, and one empty line at the end. *)
LEMMA RequestLines ==
  ASSUME NEW r, WellFormed(r)
  PROVE  \E T \in Seq(Tokens) :
            /\ Text(r) = (T \o CRLF) \o CRLF
            /\ NoEmptyLine(T \o CRLF)
            /\ Len(split(T, CRLF)) = Len(r.headers) + 1
            /\ split(T, CRLF)[1] = FirstLine(r)
            /\ \A k \in 1 .. Len(r.headers) : split(T, CRLF)[k + 1] = Line(r.headers[k])
<1> DEFINE n == Len(r.headers)
           lines == [k \in 1 .. n |-> HeaderText(r.headers[k][1], r.headers[k][2])]
           F == FirstLine(r)
<1>1. /\ n \in Nat
      /\ \A k \in 1 .. n : /\ OnLine(Line(r.headers[k])) /\ Len(Line(r.headers[k])) > 0
                           /\ HeaderText(r.headers[k][1], r.headers[k][2]) = Line(r.headers[k]) \o CRLF
                           /\ Line(r.headers[k]) \o CRLF \in Seq(Tokens)
  <2>1. n \in Nat
    BY HeaderTypes
  <2>2. ASSUME NEW k \in 1 .. n
        PROVE  /\ OnLine(Line(r.headers[k])) /\ Len(Line(r.headers[k])) > 0
               /\ HeaderText(r.headers[k][1], r.headers[k][2]) = Line(r.headers[k]) \o CRLF
               /\ Line(r.headers[k]) \o CRLF \in Seq(Tokens)
    <3> DEFINE a == r.headers[k][1]
               b == r.headers[k][2]
    <3>1. r.headers[k] = <<a, b>> /\ a \in Seq(Words \ {COLON}) /\ b \in Seq(Words)
      BY HeaderTypes
    <3>4. HeaderText(a, b) = Line(r.headers[k]) \o CRLF
      BY DEF HeaderText, Line
    <3> HIDE DEF a, b
    <3>2. OnLine(Line(<<a, b>>)) /\ Len(Line(<<a, b>>)) > 0
      BY <3>1, LineSplit
    <3>3. OnLine(Line(r.headers[k])) /\ Len(Line(r.headers[k])) > 0
      BY <3>1, <3>2
    <3>5. Line(r.headers[k]) \o CRLF \in Seq(Tokens)
      <4>1. Line(r.headers[k]) \in Seq(Tokens) /\ CRLF \in Seq(Tokens)
        BY <3>3, LineEnd DEF OnLine
      <4> QED BY <4>1, Joined2
    <3> QED BY <3>3, <3>4, <3>5 DEF a, b
  <2> QED BY <2>1, <2>2
<1>2. OnLine(F) /\ Len(F) > 0 /\ F \in Seq(Tokens)
  BY FirstLineSplit DEF OnLine
<1>3. /\ lines \in Seq(Seq(Tokens)) /\ Len(lines) = n
      /\ \A k \in 1 .. n : lines[k] = Line(r.headers[k]) \o CRLF
  <2>1. \A k \in 1 .. n : lines[k] = HeaderText(r.headers[k][1], r.headers[k][2])
    OBVIOUS
  <2>2. lines = [k \in 1 .. n |-> lines[k]]
    OBVIOUS
  <2> HIDE DEF n, lines
  <2>3. \A k \in 1 .. n : lines[k] = Line(r.headers[k]) \o CRLF /\ lines[k] \in Seq(Tokens)
    BY <1>1, <2>1
  <2>4. lines \in [1 .. n -> Seq(Tokens)]
    BY <2>2, <2>3
  <2> QED BY <1>1, <2>3, <2>4
<1>4. Text(r) = (((F \o CRLF) \o FlattenSeq(lines)) \o CRLF) \o <<>>
  BY DEF Text, FirstLine, WellFormed
<1> HIDE DEF lines, n, F
<1>5. PICK f \in [0 .. n -> Seq(Tokens)] :
         /\ f[0] = <<>>
         /\ \A i \in 1 .. n : f[i] = f[i - 1] \o lines[i]
         /\ FlattenSeq(lines) = f[n]
  BY <1>3, Flattens
<1> DEFINE X == {i \in Nat : i <= n => \E T \in Seq(Tokens) : HeadText(r, f, i, T)}
<1>6. 0 \in X
  <2>1. F \o CRLF \in Seq(Tokens) /\ (F \o CRLF) \o <<>> = F \o CRLF
    <3>1. F \o CRLF \in Seq(Tokens)
      BY <1>2, LineEnd, Joined2
    <3> DEFINE t == F \o CRLF
    <3> HIDE DEF t
    <3>2. t \in Seq(Tokens) => t \o <<>> = t
      OBVIOUS
    <3> QED BY <3>1, <3>2 DEF t
  <2>2. NoEmptyLine(F \o CRLF)
    BY <1>2, OneLine
  <2>3. Len(split(F, CRLF)) = 1 /\ split(F, CRLF)[1] = F
    <3>1. \A i \in 1 .. Len(F) : F[i] # CR
      BY <1>2 DEF OnLine
    <3>2. Places(F, CRLF) = {}
      BY <1>2, <3>1, PlacesOfLineEnd
    <3> QED BY <1>2, <3>2, LineEnd, SplitWhole
  <2>4. HeadText(r, f, 0, F)
    <3>1. 0 + 1 = 1 /\ \A k \in 1 .. 0 : FALSE
      OBVIOUS
    <3>2. F = FirstLine(r)
      BY DEF F
    <3> QED BY <1>5, <2>1, <2>2, <2>3, <3>1, <3>2 DEF HeadText
  <2> QED BY <1>2, <2>4
<1>7. ASSUME NEW i \in X
      PROVE  i + 1 \in X
  <2> SUFFICES ASSUME i + 1 <= n
               PROVE  \E T \in Seq(Tokens) : HeadText(r, f, i + 1, T)
    OBVIOUS
  <2>1. PICK T \in Seq(Tokens) : HeadText(r, f, i, T)
    BY <1>1
  <2> HIDE DEF X
  <2>2. i \in Nat /\ i \in 0 .. n /\ i + 1 \in 1 .. n /\ (i + 1) - 1 = i
    BY <1>1 DEF X
  <2>3. OnLine(Line(r.headers[i + 1])) /\ Len(Line(r.headers[i + 1])) > 0
    BY <1>1, <2>2
  <2>4. f[i + 1] = f[i] \o (Line(r.headers[i + 1]) \o CRLF)
    <3>1. f[i + 1] = f[(i + 1) - 1] \o lines[i + 1]
      BY <1>5, <2>2
    <3> QED BY <1>3, <2>2, <3>1
  <2>5. FirstLine(r) \in Seq(Tokens) /\ f[i] \in Seq(Tokens)
    BY <1>2, <1>5, <2>2 DEF F
  <2>6. i \in Nat /\ T \in Seq(Tokens)
    BY <2>2
  <2> QED BY <2>1, <2>3, <2>4, <2>5, <2>6, HeadTextMore
<1>8. n \in X
  <2>1. X \subseteq Nat
    OBVIOUS
  <2> HIDE DEF X
  <2> QED BY <1>1, <1>6, <1>7, <2>1, AllNumbers
<1>9. PICK T \in Seq(Tokens) : HeadText(r, f, n, T)
  BY <1>1, <1>8
<1> HIDE DEF X
<1>10. Text(r) = (T \o CRLF) \o CRLF
  <2>1. (F \o CRLF) \o f[n] = T \o CRLF
    BY <1>9 DEF HeadText, F
  <2>2. (T \o CRLF) \o CRLF \in Seq(Tokens)
    BY LineEnd, Joined
  <2> DEFINE t == (T \o CRLF) \o CRLF
  <2>3. Text(r) = t \o <<>>
    BY <1>4, <1>5, <2>1
  <2> HIDE DEF t
  <2>4. t \in Seq(Tokens) => t \o <<>> = t
    OBVIOUS
  <2> QED BY <2>2, <2>3, <2>4 DEF t
<1> QED
  BY <1>9, <1>10 DEF HeadText, n

-----------------------------------------------------------------------------
(* What parse_packet takes for a complete request.                         *)

LEMMA CompleteText ==
  ASSUME NEW s \in Seq(Tokens)
  PROVE  Complete(s) <=> /\ Len(s) >= 4
                         /\ s[Len(s) - 3] = CR /\ s[Len(s) - 2] = LF
                         /\ s[Len(s) - 1] = CR /\ s[Len(s)] = LF
  BY DEF Complete, IsSuffix, IsPrefix, Reverse, CRLF

(* No packet before the last completes a request, wherever packets cut its *)
(* text: parse_packet looks for an empty line at the end of what it has    *)
(* accumulated, and a request without a body has one nowhere but at its    *)
(* end (http_parser.cpp:71-86).                                            *)
THEOREM CompleteOnlyWhole ==
  ASSUME NEW r, WellFormed(r)
  PROVE  /\ Text(r) \in Seq(Tokens) /\ Len(Text(r)) >= 4
         /\ \A n \in 0 .. Len(Text(r)) :
               Complete(SubSeq(Text(r), 1, n)) <=> n = Len(Text(r))
<1>1. PICK T \in Seq(Tokens) : Text(r) = (T \o CRLF) \o CRLF /\ NoEmptyLine(T \o CRLF)
  BY RequestLines
<1> DEFINE u == T \o CRLF
           t == u \o CRLF
<1>2. /\ u \in Seq(Tokens) /\ Len(u) = Len(T) + 2 /\ Len(T) \in Nat
      /\ u[Len(T) + 1] = CR /\ u[Len(T) + 2] = LF
  <2>1. T \in Seq(Tokens) /\ CRLF \in Seq(Tokens)
    BY LineEnd
  <2>2. /\ u \in Seq(Tokens) /\ Len(u) = Len(T) + Len(CRLF) /\ Len(T) \in Nat
        /\ \A i \in 1 .. Len(CRLF) : u[Len(T) + i] = CRLF[i]
    BY <2>1, Joined2
  <2> HIDE DEF u
  <2> QED BY <2>2, LineEnd
<1>3. Text(r) = t /\ NoEmptyLine(u)
  BY <1>1
<1> HIDE DEF u
<1>4. /\ t \in Seq(Tokens) /\ Len(t) = Len(u) + 2
      /\ \A i \in 1 .. Len(u) : t[i] = u[i]
      /\ t[Len(u) + 1] = CR /\ t[Len(u) + 2] = LF
  <2>1. u \in Seq(Tokens) /\ CRLF \in Seq(Tokens)
    BY <1>2, LineEnd
  <2>2. /\ t \in Seq(Tokens) /\ Len(t) = Len(u) + Len(CRLF)
        /\ \A i \in 1 .. Len(u) : t[i] = u[i]
        /\ \A i \in 1 .. Len(CRLF) : t[Len(u) + i] = CRLF[i]
    BY <2>1, Joined2
  <2> HIDE DEF t
  <2> QED BY <2>2, LineEnd
<1> HIDE DEF t
<1>5. Len(t) >= 4 /\ Len(t) \in Nat /\ Len(u) \in Nat
  BY <1>2, <1>4
<1>6. ASSUME NEW n \in 0 .. Len(t)
      PROVE  Complete(SubSeq(t, 1, n)) <=> n = Len(t)
  <2> DEFINE p == SubSeq(t, 1, n)
  <2>1. p \in Seq(Tokens) /\ Len(p) = n /\ \A i \in 1 .. n : p[i] = t[i]
    BY <1>4, <1>5
  <2> HIDE DEF p
  <2>2. Complete(p) <=> /\ n >= 4
                        /\ p[n - 3] = CR /\ p[n - 2] = LF /\ p[n - 1] = CR /\ p[n] = LF
    BY <2>1, CompleteText
  <2>3. Complete(p) <=> /\ n >= 4
                        /\ t[n - 3] = CR /\ t[n - 2] = LF /\ t[n - 1] = CR /\ t[n] = LF
    BY <2>1, <2>2
  <2>4. CASE n = Len(u) + 2
    <3>1. n = Len(t) /\ n >= 4 /\ n - 1 = Len(u) + 1 /\ n - 2 = Len(T) + 2 /\ n - 3 = Len(T) + 1
      BY <2>4, <1>2, <1>4
    <3>2. n - 2 \in 1 .. Len(u) /\ n - 3 \in 1 .. Len(u)
      BY <3>1, <1>2
    <3>3. t[n - 3] = CR /\ t[n - 2] = LF /\ t[n - 1] = CR /\ t[n] = LF
      BY <2>4, <3>1, <3>2, <1>2, <1>4
    <3> QED BY <2>3, <3>1, <3>3 DEF p
  <2>5. CASE n = Len(u) + 1
    <3>1. t[n] # LF /\ n # Len(t)
      BY <2>5, <1>4, <1>5, Characters
    <3> QED BY <2>3, <3>1 DEF p
  <2>6. CASE n <= Len(u)
    <3>1. n # Len(t)
      BY <2>6, <1>4, <1>5
    <3>2. ~ Complete(p)
      <4> SUFFICES ASSUME Complete(p)
                   PROVE  FALSE
        OBVIOUS
      <4>1. n \in 3 .. Len(u) /\ n - 2 \in 1 .. Len(u) /\ n - 1 \in 1 .. Len(u) /\ n \in 1 .. Len(u)
        BY <2>3, <2>6, <1>5
      <4>2. u[n - 2] = LF /\ u[n - 1] = CR /\ u[n] = LF
        BY <2>3, <4>1, <1>4
      <4> QED BY <1>3, <4>1, <4>2 DEF NoEmptyLine
    <3> QED BY <3>1, <3>2 DEF p
  <2>7. n \in Nat /\ n <= Len(u) + 2
    BY <1>4
  <2> QED BY <2>4, <2>5, <2>6, <2>7, <1>5
<1> QED
  BY <1>3, <1>4, <1>5, <1>6

(* The parser takes a request's text for what was sent, whatever its       *)
(* fields: the three words of the first line, and of the headers those     *)
(* without a colon in the value, in their order and with the blank before  *)
(* the value removed (http_parser.cpp:26-69, 86-102).                      *)
THEOREM ParseText ==
  ASSUME NEW r, WellFormed(r)
  PROVE  Parse(Text(r)) = AsParsed(r)
<1> DEFINE n == Len(r.headers)
           lines == split(Text(r), CRLF)
           fields == [k \in 1 .. Len(lines) - 1 |-> split(lines[k + 1], <<COLON>>)]
           pairs == Ascending({k \in 1 .. Len(fields) : Len(fields[k]) = 2})
           K == {k \in 1 .. n : COLON \notin Range(r.headers[k][2])}
           kept == Ascending(K)
<1>1. PICK T \in Seq(Tokens) :
         /\ Text(r) = (T \o CRLF) \o CRLF
         /\ Len(split(T, CRLF)) = n + 1
         /\ split(T, CRLF)[1] = FirstLine(r)
         /\ \A k \in 1 .. n : split(T, CRLF)[k + 1] = Line(r.headers[k])
  BY RequestLines
<1>2. n \in Nat
  BY HeaderTypes
<1>3. /\ Len(lines) = n + 3
      /\ lines[1] = FirstLine(r)
      /\ \A k \in 1 .. n : lines[k + 1] = Line(r.headers[k])
      /\ lines[n + 2] = <<>> /\ lines[n + 3] = <<>>
  <2> DEFINE u == T \o CRLF
             t == u \o CRLF
             E == <<>>
  <2>1. E \in Seq(Tokens) /\ \A i \in 1 .. Len(E) : E[i] # CR
    OBVIOUS
  <2>2. u \in Seq(Tokens) /\ t \in Seq(Tokens)
    BY LineEnd, Joined
  <2>3. lines = split(t, CRLF)
    BY <1>1
  <2> HIDE DEF E, n, lines
  <2>4. /\ Len(split((T \o CRLF) \o E, CRLF)) = Len(split(T, CRLF)) + 1
        /\ \A k \in 1 .. Len(split(T, CRLF)) : split((T \o CRLF) \o E, CRLF)[k] = split(T, CRLF)[k]
        /\ split((T \o CRLF) \o E, CRLF)[Len(split(T, CRLF)) + 1] = E
    <3>1. T \in Seq(Tokens)
      OBVIOUS
    <3> QED BY <2>1, <3>1, SplitAtLineEnd, SMTT(30)
  <2>5. (T \o CRLF) \o E = u
    <3> HIDE DEF u
    <3>1. u \in Seq(Tokens)
      BY <2>2
    <3>2. u \o E = u
      BY <3>1 DEF E
    <3> QED BY <3>2 DEF u
  <2> HIDE DEF u
  <2>6. /\ Len(split(u, CRLF)) = n + 2
        /\ split(u, CRLF)[1] = FirstLine(r)
        /\ \A k \in 1 .. n : split(u, CRLF)[k + 1] = Line(r.headers[k])
        /\ split(u, CRLF)[n + 2] = <<>>
    <3>1. /\ Len(split(u, CRLF)) = Len(split(T, CRLF)) + 1
          /\ \A k \in 1 .. Len(split(T, CRLF)) : split(u, CRLF)[k] = split(T, CRLF)[k]
          /\ split(u, CRLF)[Len(split(T, CRLF)) + 1] = E
      BY <2>4, <2>5
    <3>2. /\ Len(split(u, CRLF)) = n + 2
          /\ \A k \in 1 .. n + 1 : split(u, CRLF)[k] = split(T, CRLF)[k]
          /\ split(u, CRLF)[n + 2] = E
      <4>1. Len(split(T, CRLF)) = n + 1 /\ n + 1 + 1 = n + 2
        BY <1>1, <1>2
      <4> QED BY <3>1, <4>1
    <3>3. 1 \in 1 .. n + 1 /\ \A k \in 1 .. n : k + 1 \in 1 .. n + 1
      BY <1>2
    <3> QED BY <1>1, <3>2, <3>3 DEF E
  <2>7. /\ Len(split((u \o CRLF) \o E, CRLF)) = Len(split(u, CRLF)) + 1
        /\ \A k \in 1 .. Len(split(u, CRLF)) : split((u \o CRLF) \o E, CRLF)[k] = split(u, CRLF)[k]
        /\ split((u \o CRLF) \o E, CRLF)[Len(split(u, CRLF)) + 1] = E
    <3>1. u \in Seq(Tokens)
      BY <2>2
    <3> QED BY <2>1, <3>1, SplitAtLineEnd, SMTT(30)
  <2>8. (u \o CRLF) \o E = t
    <3> HIDE DEF t
    <3>1. t \in Seq(Tokens)
      BY <2>2
    <3>2. t \o E = t
      BY <3>1 DEF E
    <3> QED BY <3>2 DEF t
  <2> HIDE DEF t
  <2>9. /\ Len(lines) = n + 3
        /\ \A k \in 1 .. n + 2 : lines[k] = split(u, CRLF)[k]
        /\ lines[n + 3] = E
    <3>1. /\ Len(lines) = Len(split(u, CRLF)) + 1
          /\ \A k \in 1 .. Len(split(u, CRLF)) : lines[k] = split(u, CRLF)[k]
          /\ lines[Len(split(u, CRLF)) + 1] = E
      BY <2>3, <2>7, <2>8
    <3>2. Len(split(u, CRLF)) = n + 2 /\ n + 2 + 1 = n + 3
      BY <1>2, <2>6
    <3> QED BY <3>1, <3>2
  <2>10. 1 \in 1 .. n + 2 /\ n + 2 \in 1 .. n + 2 /\ \A k \in 1 .. n : k + 1 \in 1 .. n + 2
    BY <1>2
  <2> QED BY <2>6, <2>9, <2>10 DEF E
<1> HIDE DEF lines
<1>4. /\ Len(fields) = n + 2
      /\ \A k \in 1 .. n + 2 : fields[k] = split(lines[k + 1], <<COLON>>)
  <2> DEFINE m == Len(lines) - 1
             Part(k) == split(lines[k + 1], <<COLON>>)
  <2>1. m = n + 2 /\ m \in Nat
    <3> HIDE DEF n
    <3> QED BY <1>2, <1>3
  <2>2. fields = [k \in 1 .. m |-> Part(k)]
    OBVIOUS
  <2> HIDE DEF m, n, fields, Part
  <2>3. Len(fields) = m /\ \A k \in 1 .. m : fields[k] = Part(k)
    BY <2>1, <2>2
  <2> QED BY <2>1, <2>3 DEF Part
<1> HIDE DEF fields
<1>5. ASSUME NEW k \in 1 .. n
      PROVE  /\ Len(fields[k]) = 2 <=> k \in K
             /\ k \in K => Header(fields[k]) = r.headers[k]
  <2> DEFINE a == r.headers[k][1]
             b == r.headers[k][2]
             l == Line(<<a, b>>)
  <2>1. /\ r.headers[k] = <<a, b>> /\ a \in Seq(Words \ {COLON}) /\ b \in Seq(Words)
        /\ b # <<>> => b[1] # SP /\ b[Len(b)] # SP
    BY HeaderTypes
  <2>2. k \in K <=> COLON \notin Range(b)
    OBVIOUS
  <2>3. fields[k] = split(lines[k + 1], <<COLON>>) /\ lines[k + 1] = Line(r.headers[k])
    <3>1. k \in 1 .. n + 2
      BY <1>2
    <3> QED BY <1>3, <1>4, <3>1
  <2> HIDE DEF n, K, a, b
  <2>4. /\ Len(split(l, <<COLON>>)) = 2 <=> COLON \notin Range(b)
        /\ COLON \notin Range(b) =>
             split(l, <<COLON>>)[1] = a /\ split(l, <<COLON>>)[2] = <<SP>> \o b
    BY <2>1, LineSplit
  <2>5. fields[k] = split(l, <<COLON>>)
    BY <2>1, <2>3
  <2> HIDE DEF l
  <2>6. trim_whitespace(<<SP>> \o b) = b
    BY <2>1, TrimmedValue
  <2>7. ASSUME k \in K
        PROVE  Header(fields[k]) = r.headers[k]
    <3>1. fields[k][1] = a /\ fields[k][2] = <<SP>> \o b
      BY <2>2, <2>4, <2>5, <2>7
    <3>2. Header(fields[k]) = <<fields[k][1], trim_whitespace(fields[k][2])>>
      BY DEF Header
    <3> QED BY <2>1, <2>6, <3>1, <3>2
  <2> QED BY <2>2, <2>4, <2>5, <2>7
<1>6. Len(fields[n + 1]) # 2 /\ Len(fields[n + 2]) # 2
  <2> DEFINE E == <<>>
  <2>1. E \in Seq(Tokens) /\ Len(E) = 0
    OBVIOUS
  <2>2. <<COLON>> \in Seq(Tokens) /\ COLON \in Tokens
    BY Characters, OneWord
  <2> HIDE DEF E
  <2>3. Places(E, <<COLON>>) = {}
    <3>1. E \in Seq(Tokens) /\ COLON \in Tokens
      BY <2>1, <2>2
    <3>2. Places(E, <<COLON>>) = {i \in 1 .. Len(E) : E[i] = COLON}
      BY <3>1, PlacesOfWord
    <3>3. \A i \in 1 .. Len(E) : FALSE
      BY <2>1
    <3> QED BY <3>2, <3>3
  <2>4. Len(split(E, <<COLON>>)) = 1
    BY <2>1, <2>2, <2>3, SplitWhole
  <2>5. n + 1 \in 1 .. n + 2 /\ n + 2 \in 1 .. n + 2 /\ n + 1 + 1 = n + 2 /\ n + 2 + 1 = n + 3
    BY <1>2
  <2> HIDE DEF n
  <2>6. fields[n + 1] = split(E, <<COLON>>) /\ fields[n + 2] = split(E, <<COLON>>)
    <3>1. fields[n + 1] = split(lines[n + 1 + 1], <<COLON>>)
      BY <1>4, <2>5
    <3>2. fields[n + 2] = split(lines[n + 2 + 1], <<COLON>>)
      BY <1>4, <2>5
    <3>3. lines[n + 1 + 1] = E /\ lines[n + 2 + 1] = E
      BY <1>3, <2>5 DEF E
    <3> QED BY <3>1, <3>2, <3>3
  <2>7. Len(fields[n + 1]) = 1 /\ Len(fields[n + 2]) = 1
    BY <2>4, <2>6, Zenon
  <2> QED BY <2>7
<1>7. {k \in 1 .. Len(fields) : Len(fields[k]) = 2} = K
  <2>1. ASSUME NEW k \in 1 .. n + 2
        PROVE  Len(fields[k]) = 2 <=> k \in K
    <3>1. K \subseteq 1 .. n
      OBVIOUS
    <3>2. k \in 1 .. n \/ k = n + 1 \/ k = n + 2
      BY <1>2
    <3> HIDE DEF K
    <3>3. n + 1 \notin K /\ n + 2 \notin K
      BY <1>2, <3>1
    <3> HIDE DEF n
    <3> QED BY <1>5, <1>6, <3>2, <3>3
  <2>2. K \subseteq 1 .. n + 2
    BY <1>2
  <2>3. Len(fields) = n + 2
    BY <1>4
  <2> HIDE DEF K, n
  <2> QED BY <2>1, <2>2, <2>3
<1>8. pairs = kept
  BY <1>7
<1>9. Len(kept) \in Nat /\ \A k \in 1 .. Len(kept) : kept[k] \in K
  <2>1. K \in SUBSET (1 .. n)
    OBVIOUS
  <2> HIDE DEF K, n
  <2> QED BY <1>2, <2>1, AscendingOf
<1>10. \A k \in 1 .. Len(kept) : Header(fields[kept[k]]) = r.headers[kept[k]]
  <2>1. K \subseteq 1 .. n
    OBVIOUS
  <2> HIDE DEF K, n, kept
  <2> QED BY <1>5, <1>9, <2>1
<1>11. AsParsed(r) =
         [method |-> r.method, url |-> r.url, version |-> r.version,
          headers |-> [k \in 1 .. Len(kept) |-> r.headers[kept[k]]]]
  BY DEF AsParsed
<1>12. Parse(Text(r)) =
         [method |-> split(lines[1], <<SP>>)[1], url |-> split(lines[1], <<SP>>)[2],
          version |-> split(lines[1], <<SP>>)[3],
          headers |-> [k \in 1 .. Len(pairs) |-> Header(fields[pairs[k]])]]
  BY DEF Parse, lines, fields
<1>13. /\ split(lines[1], <<SP>>)[1] = r.method
       /\ split(lines[1], <<SP>>)[2] = r.url
       /\ split(lines[1], <<SP>>)[3] = r.version
  BY <1>3, FirstLineSplit
<1>14. [k \in 1 .. Len(pairs) |-> Header(fields[pairs[k]])] = [k \in 1 .. Len(kept) |-> r.headers[kept[k]]]
  <2> HIDE DEF pairs, kept
  <2> QED BY <1>8, <1>10
<1> HIDE DEF pairs, kept
<1> QED
  BY <1>11, <1>12, <1>13, <1>14

-----------------------------------------------------------------------------
(* The text of an answer.                                                  *)

LEMMA ThreeWords ==
  ASSUME NEW a \in Tokens, NEW b \in Tokens, NEW c \in Tokens
  PROVE  LET u == <<a, b, c>> \o CRLF
         IN  /\ u \in Seq(Tokens) /\ Len(u) = 5
             /\ u[1] = a /\ u[2] = b /\ u[3] = c /\ u[4] = CR /\ u[5] = LF
<1> DEFINE d == <<a, b, c>>
           u == d \o CRLF
<1>1. d \in Seq(Tokens) /\ Len(d) = 3 /\ d[1] = a /\ d[2] = b /\ d[3] = c
  OBVIOUS
<1> HIDE DEF d
<1>2. d \in Seq(Tokens) /\ CRLF \in Seq(Tokens)
  BY <1>1, LineEnd
<1>3. /\ u \in Seq(Tokens) /\ Len(u) = Len(d) + Len(CRLF)
      /\ \A i \in 1 .. Len(d) : u[i] = d[i]
      /\ \A i \in 1 .. Len(CRLF) : u[Len(d) + i] = CRLF[i]
  BY <1>2, Joined2
<1> HIDE DEF u
<1>4. /\ u \in Seq(Tokens) /\ Len(u) = 5
      /\ u[1] = a /\ u[2] = b /\ u[3] = c /\ u[4] = CR /\ u[5] = LF
  BY <1>1, <1>3, LineEnd
<1> QED
  BY <1>4 DEF u, d

LEMMA FiveWords ==
  ASSUME NEW a \in Tokens, NEW b \in Tokens, NEW c \in Tokens, NEW d \in Tokens, NEW e \in Tokens
  PROVE  LET u == <<a, b, c, d, e>> \o CRLF
         IN  /\ u \in Seq(Tokens) /\ Len(u) = 7
             /\ u[1] = a /\ u[2] = b /\ u[3] = c /\ u[4] = d /\ u[5] = e
             /\ u[6] = CR /\ u[7] = LF
<1> DEFINE f == <<a, b, c, d, e>>
           u == f \o CRLF
<1>1. /\ f \in Seq(Tokens) /\ Len(f) = 5
      /\ f[1] = a /\ f[2] = b /\ f[3] = c /\ f[4] = d /\ f[5] = e
  OBVIOUS
<1> HIDE DEF f
<1>2. f \in Seq(Tokens) /\ CRLF \in Seq(Tokens)
  BY <1>1, LineEnd
<1>3. /\ u \in Seq(Tokens) /\ Len(u) = Len(f) + Len(CRLF)
      /\ \A i \in 1 .. Len(f) : u[i] = f[i]
      /\ \A i \in 1 .. Len(CRLF) : u[Len(f) + i] = CRLF[i]
  BY <1>2, Joined2
<1> HIDE DEF u
<1>4. /\ u \in Seq(Tokens) /\ Len(u) = 7
      /\ u[1] = a /\ u[2] = b /\ u[3] = c /\ u[4] = d /\ u[5] = e
      /\ u[6] = CR /\ u[7] = LF
  BY <1>1, <1>3, LineEnd
<1> QED
  BY <1>4 DEF u, f

(* What a handler's answer is made of. *)
Answer(h) ==
    /\ h = [code |-> h.code, type |-> h.type, text |-> h.text]
    /\ \A v \in {h.code, h.type, ContentLength(h.text)} :
          /\ v \in Tokens
          /\ v # CR /\ v # LF /\ v # "Content-Type" /\ v # "Content-Length"
    /\ h.text \in Seq(Tokens)
    /\ \A m \in 0 .. Len(h.text) : ToString(m) = ContentLength(h.text) => m = Len(h.text)

LEMMA HandlersAnswer ==
  ASSUME NEW h \in Handlers \cup {NotFoundHandler}
  PROVE  Answer(h)
<1>1. /\ ContentLength(h.text) \in Values
      /\ \A m \in 0 .. Len(h.text) : ToString(m) = ContentLength(h.text) => m = Len(h.text)
  BY LengthsAssumption DEF ContentLength
<1>2. \A v \in Values : /\ v \in Tokens
                        /\ v # CR /\ v # LF /\ v # "Content-Type" /\ v # "Content-Length"
  BY DEF Values, Tokens
<1>3. CASE h \in Handlers
  <2>1. h \in [code : Values, type : Values, text : Seq(STRING)]
    BY <1>3, HandlersAssumption
  <2>2. h = [code |-> h.code, type |-> h.type, text |-> h.text] /\ h.code \in Values /\ h.type \in Values
    BY <2>1
  <2>3. h.text \in Seq(Tokens)
    <3>1. STRING \subseteq Tokens
      BY DEF Tokens
    <3>2. h.text \in Seq(STRING)
      BY <2>1
    <3> QED BY <3>1, <3>2, SeqMonotonic
  <2> QED BY <1>1, <1>2, <2>2, <2>3 DEF Answer
<1>4. CASE h = NotFoundHandler
  <2>1. /\ h.code = "404" /\ h.type = "text/plain"
        /\ h.text = <<"<h1>404", SP, "Not Found</h1>">>
        /\ h = [code |-> h.code, type |-> h.type, text |-> h.text]
    BY <1>4 DEF NotFoundHandler
  <2>2. /\ h.code \in Tokens /\ h.code # CR /\ h.code # LF
        /\ h.code # "Content-Type" /\ h.code # "Content-Length"
    BY <2>1 DEF Tokens, CR, LF
  <2>3. /\ h.type \in Tokens /\ h.type # CR /\ h.type # LF
        /\ h.type # "Content-Type" /\ h.type # "Content-Length"
    BY <2>1 DEF Tokens, CR, LF
  <2>4. h.text \in Seq(Tokens)
    <3>1. "<h1>404" \in Tokens /\ SP \in Tokens /\ "Not Found</h1>" \in Tokens
      BY DEF Tokens
    <3> DEFINE a == "<h1>404"
               b == "Not Found</h1>"
               t == <<a, SP, b>>
    <3>2. h.text = t
      BY <2>1
    <3>3. a \in Tokens /\ SP \in Tokens /\ b \in Tokens
      BY <3>1
    <3> HIDE DEF a, b
    <3>4. t \in Seq(Tokens)
      BY <3>3
    <3> HIDE DEF t
    <3> QED BY <3>2, <3>4
  <2> QED BY <1>1, <1>2, <2>1, <2>2, <2>3, <2>4 DEF Answer
<1> QED
  BY <1>3, <1>4

(* The head of an answer. *)
AnswerHead(h) ==
    ((<<"HTTP/1.0", SP, h.code, SP, "OK">> \o CRLF)
     \o ((<<"Content-Type", COLON, h.type>> \o CRLF)
         \o (<<"Content-Length", COLON, ContentLength(h.text)>> \o CRLF)))
    \o CRLF

LEMMA HeadTokens ==
  ASSUME NEW h, Answer(h)
  PROVE  /\ AnswerHead(h) \in Seq(Tokens) /\ Len(AnswerHead(h)) = 19
         /\ AnswerHead(h)[1] = "HTTP/1.0" /\ AnswerHead(h)[2] = SP /\ AnswerHead(h)[3] = h.code
         /\ AnswerHead(h)[4] = SP /\ AnswerHead(h)[5] = "OK" /\ AnswerHead(h)[6] = CR /\ AnswerHead(h)[7] = LF
         /\ AnswerHead(h)[8] = "Content-Type" /\ AnswerHead(h)[9] = COLON /\ AnswerHead(h)[10] = h.type
         /\ AnswerHead(h)[11] = CR /\ AnswerHead(h)[12] = LF
         /\ AnswerHead(h)[13] = "Content-Length" /\ AnswerHead(h)[14] = COLON
         /\ AnswerHead(h)[15] = ContentLength(h.text)
         /\ AnswerHead(h)[16] = CR /\ AnswerHead(h)[17] = LF /\ AnswerHead(h)[18] = CR /\ AnswerHead(h)[19] = LF
<1> DEFINE V == "HTTP/1.0"
           O == "OK"
           CT == "Content-Type"
           CL == "Content-Length"
           code == h.code
           type == h.type
           len == ContentLength(h.text)
           a == <<V, SP, code, SP, O>> \o CRLF
           b == <<CT, COLON, type>> \o CRLF
           c == <<CL, COLON, len>> \o CRLF
           bc == b \o c
           t == (a \o bc) \o CRLF
<1>1. V \in Tokens /\ O \in Tokens /\ CT \in Tokens /\ CL \in Tokens
  BY DEF Tokens
<1>2. code \in Tokens /\ type \in Tokens /\ len \in Tokens
  BY DEF Answer
<1>3. AnswerHead(h) = t
  BY DEF AnswerHead
<1> HIDE DEF V, O, CT, CL, code, type, len
<1>4. SP \in Tokens /\ COLON \in Tokens
  BY Characters
<1>5. /\ a \in Seq(Tokens) /\ Len(a) = 7
      /\ a[1] = V /\ a[2] = SP /\ a[3] = code /\ a[4] = SP /\ a[5] = O /\ a[6] = CR /\ a[7] = LF
  BY <1>1, <1>2, <1>4, FiveWords
<1>6. /\ b \in Seq(Tokens) /\ Len(b) = 5
      /\ b[1] = CT /\ b[2] = COLON /\ b[3] = type /\ b[4] = CR /\ b[5] = LF
  BY <1>1, <1>2, <1>4, ThreeWords
<1>7. /\ c \in Seq(Tokens) /\ Len(c) = 5
      /\ c[1] = CL /\ c[2] = COLON /\ c[3] = len /\ c[4] = CR /\ c[5] = LF
  BY <1>1, <1>2, <1>4, ThreeWords
<1> HIDE DEF a, b, c
<1>8. /\ bc \in Seq(Tokens) /\ Len(bc) = 10
      /\ \A i \in 1 .. 5 : bc[i] = b[i]
      /\ \A i \in 1 .. 5 : bc[5 + i] = c[i]
  <2>1. b \in Seq(Tokens) /\ c \in Seq(Tokens)
    BY <1>6, <1>7
  <2>2. /\ bc \in Seq(Tokens) /\ Len(bc) = Len(b) + Len(c)
        /\ \A i \in 1 .. Len(b) : bc[i] = b[i]
        /\ \A i \in 1 .. Len(c) : bc[Len(b) + i] = c[i]
    BY <2>1, Joined2
  <2> HIDE DEF bc
  <2> QED BY <1>6, <1>7, <2>2
<1> HIDE DEF bc
<1>9. /\ t \in Seq(Tokens) /\ Len(t) = 19
      /\ \A i \in 1 .. 7 : t[i] = a[i]
      /\ \A i \in 1 .. 10 : t[7 + i] = bc[i]
      /\ t[18] = CR /\ t[19] = LF
  <2>1. a \in Seq(Tokens) /\ bc \in Seq(Tokens) /\ CRLF \in Seq(Tokens)
    BY <1>5, <1>8, LineEnd
  <2>2. /\ t \in Seq(Tokens) /\ Len(t) = Len(a) + Len(bc) + Len(CRLF)
        /\ \A i \in 1 .. Len(a) : t[i] = a[i]
        /\ \A i \in 1 .. Len(bc) : t[Len(a) + i] = bc[i]
        /\ \A i \in 1 .. Len(CRLF) : t[Len(a) + Len(bc) + i] = CRLF[i]
    BY <2>1, Joined
  <2> HIDE DEF t
  <2> QED BY <1>5, <1>8, <2>2, LineEnd
<1> HIDE DEF t
<1>10. /\ t[8] = CT /\ t[9] = COLON /\ t[10] = type /\ t[11] = CR /\ t[12] = LF
  <2>1. t[7 + 1] = b[1] /\ t[7 + 2] = b[2] /\ t[7 + 3] = b[3] /\ t[7 + 4] = b[4] /\ t[7 + 5] = b[5]
    BY <1>8, <1>9, SMTT(30)
  <2> QED BY <1>6, <2>1
<1>11. /\ t[13] = CL /\ t[14] = COLON /\ t[15] = len /\ t[16] = CR /\ t[17] = LF
  <2>1. bc[5 + 1] = c[1] /\ bc[5 + 2] = c[2] /\ bc[5 + 3] = c[3] /\ bc[5 + 4] = c[4] /\ bc[5 + 5] = c[5]
    BY <1>8
  <2>2. t[7 + 6] = bc[6] /\ t[7 + 7] = bc[7] /\ t[7 + 8] = bc[8] /\ t[7 + 9] = bc[9] /\ t[7 + 10] = bc[10]
    BY <1>9
  <2> QED BY <1>7, <2>1, <2>2
<1>12. t[1] = V /\ t[2] = SP /\ t[3] = code /\ t[4] = SP /\ t[5] = O /\ t[6] = CR /\ t[7] = LF
  BY <1>5, <1>9
<1>13. AnswerHead(h)[1] = V /\ AnswerHead(h)[2] = SP /\ AnswerHead(h)[3] = code /\ AnswerHead(h)[4] = SP
       /\ AnswerHead(h)[5] = O /\ AnswerHead(h)[6] = CR /\ AnswerHead(h)[7] = LF
  BY <1>3, <1>12
<1>14. AnswerHead(h)[8] = CT /\ AnswerHead(h)[9] = COLON /\ AnswerHead(h)[10] = type /\ AnswerHead(h)[11] = CR /\ AnswerHead(h)[12] = LF
  BY <1>3, <1>10
<1>15. AnswerHead(h)[13] = CL /\ AnswerHead(h)[14] = COLON /\ AnswerHead(h)[15] = len /\ AnswerHead(h)[16] = CR /\ AnswerHead(h)[17] = LF
  BY <1>3, <1>11
<1>16. AnswerHead(h) \in Seq(Tokens) /\ Len(AnswerHead(h)) = 19 /\ AnswerHead(h)[18] = CR /\ AnswerHead(h)[19] = LF
  BY <1>3, <1>9
<1> QED
  BY <1>13, <1>14, <1>15, <1>16 DEF V, O, CT, CL, code, type, len

LEMMA ResponseText ==
  ASSUME NEW h, Answer(h)
  PROVE  Serialize(Respond(h)) = AnswerHead(h) \o h.text
<1> DEFINE b == <<"Content-Type", COLON, h.type>> \o CRLF
           c == <<"Content-Length", COLON, ContentLength(h.text)>> \o CRLF
           R == Respond(h)
           list == Append(R.header_list, <<"Content-Length", ContentLength(R.body)>>)
           two == [k \in 1 .. Len(list) |-> <<list[k][1], COLON, list[k][2]>> \o CRLF]
<1>1. /\ Len(list) = 2
      /\ list[1] = <<"Content-Type", h.type>>
      /\ list[2] = <<"Content-Length", ContentLength(h.text)>>
  BY DEF Respond
<1>2. Serialize(R) =
        (((<<R.version, SP, R.status, SP, R.status_text>> \o CRLF)
          \o FlattenSeq(two)) \o CRLF) \o R.body
  BY DEF Serialize
<1>3. /\ R.version = "HTTP/1.0" /\ R.status = h.code /\ R.status_text = "OK" /\ R.body = h.text
  BY DEF Respond
<1> HIDE DEF list, R
<1>4. Len(two) = 2 /\ two[1] = b /\ two[2] = c /\ two = [k \in 1 .. 2 |-> two[k]]
  <2>1. two[1] = <<list[1][1], COLON, list[1][2]>> \o CRLF
    BY <1>1
  <2>2. two[2] = <<list[2][1], COLON, list[2][2]>> \o CRLF
    BY <1>1
  <2>3. list[1][1] = "Content-Type" /\ list[1][2] = h.type
    BY <1>1
  <2>4. list[2][1] = "Content-Length" /\ list[2][2] = ContentLength(h.text)
    BY <1>1
  <2>5. Len(two) = 2 /\ two = [k \in 1 .. 2 |-> two[k]]
    BY <1>1
  <2> HIDE DEF two
  <2> QED BY <2>1, <2>2, <2>3, <2>4, <2>5
<1>5. b \in Seq(Tokens) /\ c \in Seq(Tokens)
  <2>1. /\ "Content-Type" \in Tokens /\ "Content-Length" \in Tokens
        /\ h.type \in Tokens /\ ContentLength(h.text) \in Tokens /\ COLON \in Tokens
    BY DEF Answer, Tokens
  <2> QED BY <2>1, ThreeWords
<1> HIDE DEF two, b, c
<1>6. FlattenSeq(two) = b \o c
  <2>1. two \in Seq(Seq(Tokens))
    <3>1. \A k \in 1 .. 2 : two[k] \in Seq(Tokens)
      <4>1. \A k \in 1 .. 2 : k = 1 \/ k = 2
        OBVIOUS
      <4> QED BY <1>4, <1>5, <4>1
    <3>2. two \in [1 .. 2 -> Seq(Tokens)]
      BY <1>4, <3>1
    <3> DEFINE S == Seq(Tokens)
    <3> HIDE DEF S
    <3>3. two \in [1 .. 2 -> S]
      BY <3>2 DEF S
    <3>4. two \in Seq(S)
      BY <3>3, 2 \in Nat, SeqDef
    <3> QED BY <3>4 DEF S
  <2>2. PICK f \in [0 .. Len(two) -> Seq(Tokens)] :
           /\ f[0] = <<>>
           /\ \A i \in 1 .. Len(two) : f[i] = f[i - 1] \o two[i]
           /\ FlattenSeq(two) = f[Len(two)]
    BY <2>1, Flattens
  <2>3. f[1] = f[0] \o b /\ f[2] = f[1] \o c /\ FlattenSeq(two) = f[2]
    <3>1. f[1] = f[1 - 1] \o two[1]
      <4>1. 1 \in 1 .. Len(two)
        BY <1>4
      <4> QED BY <2>2, <4>1
    <3>2. f[2] = f[2 - 1] \o two[2]
      <4>1. 2 \in 1 .. Len(two)
        BY <1>4
      <4> QED BY <2>2, <4>1
    <3>3. 1 - 1 = 0 /\ 2 - 1 = 1
      OBVIOUS
    <3>4. f[1] = f[0] \o b
      BY <1>4, <3>1, <3>3, Zenon
    <3>5. f[2] = f[1] \o c
      BY <1>4, <3>2, <3>3, Zenon
    <3>6. FlattenSeq(two) = f[2]
      BY <1>4, <2>2
    <3> QED BY <3>4, <3>5, <3>6
  <2>4. <<>> \o b = b
    BY <1>5
  <2> QED BY <2>2, <2>3, <2>4
<1> QED
  BY <1>2, <1>3, <1>6 DEF AnswerHead, b, c, R

(* Where an empty line ends. *)
LEMMA HeadEnds ==
  ASSUME NEW s \in Seq(Tokens), NEW n \in 4 .. Len(s)
  PROVE  SubSeq(s, n - 3, n) = CRLF \o CRLF <=>
            s[n - 3] = CR /\ s[n - 2] = LF /\ s[n - 1] = CR /\ s[n] = LF
<1> DEFINE u == SubSeq(s, n - 3, n)
           e == CRLF \o CRLF
<1>1. e \in Seq(Tokens) /\ Len(e) = 4 /\ e[1] = CR /\ e[2] = LF /\ e[3] = CR /\ e[4] = LF
  <2>1. /\ e \in Seq(Tokens) /\ Len(e) = Len(CRLF) + Len(CRLF)
        /\ \A i \in 1 .. Len(CRLF) : e[i] = CRLF[i]
        /\ \A i \in 1 .. Len(CRLF) : e[Len(CRLF) + i] = CRLF[i]
    <3>1. CRLF \in Seq(Tokens)
      BY LineEnd
    <3> QED BY <3>1, Joined2
  <2> HIDE DEF e
  <2>2. e[2 + 1] = CRLF[1] /\ e[2 + 2] = CRLF[2] /\ e[1] = CRLF[1] /\ e[2] = CRLF[2]
    BY <2>1, LineEnd
  <2> QED BY <2>1, <2>2, LineEnd
<1>2. u \in Seq(Tokens) /\ Len(u) = 4 /\ \A i \in 1 .. 4 : u[i] = s[(n - 3) + i - 1]
  <2> DEFINE m == n - 3
  <2>1. m \in Int /\ n \in Int /\ m <= n /\ (\A j \in m .. n : s[j] \in Tokens) /\ n - m + 1 = 4
    OBVIOUS
  <2> HIDE DEF m
  <2>2. /\ SubSeq(s, m, n) \in Seq(Tokens)
        /\ Len(SubSeq(s, m, n)) = n - m + 1
        /\ \A i \in 1 .. n - m + 1 : SubSeq(s, m, n)[i] = s[m + i - 1]
    BY <2>1, SubSeqProperties
  <2> QED BY <2>1, <2>2 DEF m
<1>3. u[1] = s[n - 3] /\ u[2] = s[n - 2] /\ u[3] = s[n - 1] /\ u[4] = s[n]
  <2>1. (n - 3) + 1 - 1 = n - 3 /\ (n - 3) + 2 - 1 = n - 2 /\ (n - 3) + 3 - 1 = n - 1 /\ (n - 3) + 4 - 1 = n
    OBVIOUS
  <2> HIDE DEF u
  <2>2. /\ u[1] = s[(n - 3) + 1 - 1] /\ u[2] = s[(n - 3) + 2 - 1]
        /\ u[3] = s[(n - 3) + 3 - 1] /\ u[4] = s[(n - 3) + 4 - 1]
    BY <1>2
  <2> QED BY <2>1, <2>2
<1> HIDE DEF u, e
<1>4. u = e <=> u[1] = e[1] /\ u[2] = e[2] /\ u[3] = e[3] /\ u[4] = e[4]
  <2>1. \A k \in 1 .. 4 : k = 1 \/ k = 2 \/ k = 3 \/ k = 4
    OBVIOUS
  <2> QED BY <1>1, <1>2, <2>1, SeqEqual
<1> QED
  BY <1>1, <1>3, <1>4 DEF u, e

(* The client reads back what the handler answered, whatever the text: the *)
(* first empty line ends the head, the head names the code, the content    *)
(* type and the length of what follows, and nothing is left over           *)
(* (http_message.cpp:13-22, Context.h:37-60).                              *)
THEOREM ResponseReadBack ==
  ASSUME NEW h \in Handlers \cup {NotFoundHandler}
  PROVE  LET w == Serialize(Respond(h))
             n == Min(HeadLengths(w))
             head == SubSeq(w, 1, n)
         IN  /\ w \in Seq(Tokens)
             /\ HeadLengths(w) # {}
             /\ n \in Nat /\ Len(w) = n + Len(h.text) /\ n > 0
             /\ \A m \in 0 .. Len(h.text) :
                   ToString(m) = Field(head, "Content-Length") <=> m = Len(h.text)
             /\ h = [code |-> head[3], type |-> Field(head, "Content-Type"),
                     text |-> SubSeq(w, n + 1, n + Len(h.text))]
<1> DEFINE w == Serialize(Respond(h))
           n == Min(HeadLengths(w))
           head == SubSeq(w, 1, n)
           t == AnswerHead(h)
           b == h.text
<1>1. Answer(h)
  BY HandlersAnswer
<1>2. /\ t \in Seq(Tokens) /\ Len(t) = 19
      /\ t[1] = "HTTP/1.0" /\ t[2] = SP /\ t[3] = h.code
      /\ t[4] = SP /\ t[5] = "OK" /\ t[6] = CR /\ t[7] = LF
      /\ t[8] = "Content-Type" /\ t[9] = COLON /\ t[10] = h.type
      /\ t[11] = CR /\ t[12] = LF
      /\ t[13] = "Content-Length" /\ t[14] = COLON
      /\ t[15] = ContentLength(b)
      /\ t[16] = CR /\ t[17] = LF /\ t[18] = CR /\ t[19] = LF
  BY <1>1, HeadTokens
<1>3. w = t \o b
  BY <1>1, ResponseText
<1>4. b \in Seq(Tokens)
  BY <1>1 DEF Answer
<1>5. \A v \in {h.code, h.type, ContentLength(b)} :
         v # CR /\ v # LF /\ v # "Content-Type" /\ v # "Content-Length"
  BY <1>1 DEF Answer
<1> HIDE DEF w, t, b
<1>6. /\ w \in Seq(Tokens) /\ Len(w) = 19 + Len(b) /\ Len(b) \in Nat
      /\ \A i \in 1 .. 19 : w[i] = t[i]
      /\ \A i \in 1 .. Len(b) : w[19 + i] = b[i]
  <2>1. t \in Seq(Tokens) /\ b \in Seq(Tokens)
    BY <1>2, <1>4
  <2>2. /\ t \o b \in Seq(Tokens) /\ Len(t \o b) = Len(t) + Len(b) /\ Len(b) \in Nat
        /\ \A i \in 1 .. Len(t) : (t \o b)[i] = t[i]
        /\ \A i \in 1 .. Len(b) : (t \o b)[Len(t) + i] = b[i]
    BY <2>1, Joined2
  <2>3. Len(t) = 19
    BY <1>2
  <2>4. /\ w \in Seq(Tokens) /\ Len(w) = Len(t) + Len(b) /\ Len(b) \in Nat
        /\ \A i \in 1 .. Len(t) : w[i] = t[i]
        /\ \A i \in 1 .. Len(b) : w[Len(t) + i] = b[i]
    BY <1>3, <2>2
  <2> QED BY <2>3, <2>4
<1>7. ASSUME NEW i \in 1 .. 17
      PROVE  t[i] = CR /\ t[i + 2] = CR <=> i = 16
  <2>1. "HTTP/1.0" # CR /\ "OK" # CR /\ "Content-Type" # CR /\ "Content-Length" # CR
    BY DEF CR
  <2>2. h.code # CR /\ h.type # CR /\ ContentLength(b) # CR
    BY <1>5
  <2>3. /\ t[1] # CR /\ t[2] # CR /\ t[3] # CR /\ t[4] # CR /\ t[5] # CR
        /\ t[7] # CR /\ t[8] # CR /\ t[9] # CR /\ t[10] # CR /\ t[12] # CR
        /\ t[13] # CR /\ t[14] # CR /\ t[15] # CR /\ t[17] # CR
    BY <1>2, <2>1, <2>2, Characters
  <2>4. t[16] = CR /\ t[18] = CR
    BY <1>2
  <2>5. \/ i = 1 \/ i = 2 \/ i = 3 \/ i = 4 \/ i = 5 \/ i = 6 \/ i = 7 \/ i = 8 \/ i = 9
        \/ i = 10 \/ i = 11 \/ i = 12 \/ i = 13 \/ i = 14 \/ i = 15 \/ i = 16 \/ i = 17
    OBVIOUS
  <2> QED BY <2>3, <2>4, <2>5
<1>8. 19 \in HeadLengths(w) /\ \A m \in HeadLengths(w) : m \in Nat /\ 19 <= m
  <2>1. HeadLengths(w) = {m \in 4 .. Len(w) : SubSeq(w, m - 3, m) = CRLF \o CRLF}
    BY DEF HeadLengths
  <2>2. 19 \in 4 .. Len(w)
    BY <1>6
  <2>3. w[19 - 3] = CR /\ w[19 - 2] = LF /\ w[19 - 1] = CR /\ w[19] = LF
    <3>1. w[16] = t[16] /\ w[17] = t[17] /\ w[18] = t[18] /\ w[19] = t[19]
      BY <1>6
    <3> QED BY <1>2, <3>1
  <2>4. SubSeq(w, 19 - 3, 19) = CRLF \o CRLF
    BY <1>6, <2>2, <2>3, HeadEnds
  <2>5. ASSUME NEW m \in 4 .. Len(w), SubSeq(w, m - 3, m) = CRLF \o CRLF
        PROVE  19 <= m
    <3>1. w[m - 3] = CR /\ w[m - 1] = CR
      BY <1>6, <2>5, HeadEnds
    <3> SUFFICES ASSUME m < 19
                 PROVE  FALSE
      BY <1>6
    <3> DEFINE i == m - 3
    <3>a. m \in 4 .. 18
      OBVIOUS
    <3>2. i \in 1 .. 15 /\ i + 2 = m - 1 /\ i \in 1 .. 19 /\ i + 2 \in 1 .. 19
      BY <3>a
    <3>3. w[i] = CR /\ w[i + 2] = CR
      BY <3>1, <3>2
    <3> HIDE DEF i
    <3>4. w[i] = t[i] /\ w[i + 2] = t[i + 2]
      BY <1>6, <3>2
    <3>5. i \in 1 .. 17 /\ i # 16
      BY <3>2
    <3>6. t[i] = CR /\ t[i + 2] = CR
      BY <3>3, <3>4, Zenon
    <3> QED BY <1>7, <3>5, <3>6
  <2>6. 19 \in HeadLengths(w)
    BY <2>1, <2>2, <2>4
  <2>7. \A m \in HeadLengths(w) : m \in 4 .. Len(w) /\ SubSeq(w, m - 3, m) = CRLF \o CRLF
    BY <2>1
  <2>8. \A m \in HeadLengths(w) : 19 <= m
    BY <2>5, <2>7
  <2>9. \A m \in HeadLengths(w) : m \in Nat
    <3>1. \A m \in 4 .. Len(w) : m \in Nat
      OBVIOUS
    <3> QED BY <2>7, <3>1
  <2> QED BY <2>6, <2>8, <2>9
<1>9. n = 19
  <2>1. \A x \in HeadLengths(w) : (\A y \in HeadLengths(w) : x <= y) <=> x = 19
    BY <1>8
  <2>2. Min(HeadLengths(w)) = CHOOSE x \in HeadLengths(w) : \A y \in HeadLengths(w) : x <= y
    BY DEF Min
  <2> QED BY <1>8, <2>1, <2>2
<1> HIDE DEF n
<1>10. head \in Seq(Tokens) /\ Len(head) = 19 /\ (\A i \in 1 .. 19 : head[i] = t[i]) /\ DOMAIN head = 1 .. 19
  <2>1. head = SubSeq(w, 1, 19)
    BY <1>9
  <2> HIDE DEF head
  <2> DEFINE from == 1
             to == 19
  <2>a. from \in Nat /\ to \in Nat /\ 1 <= from /\ from <= to + 1 /\ from = 1 /\ to = 19
    OBVIOUS
  <2>b. to <= Len(w)
    BY <1>6
  <2>c. head = SubSeq(w, from, to) /\ w \in Seq(Tokens)
    BY <1>6, <2>1
  <2> HIDE DEF from, to
  <2>2. /\ head \in Seq(Tokens) /\ Len(head) = to - from + 1
        /\ \A i \in 1 .. to - from + 1 : head[i] = w[from + i - 1]
    <3>1. from \in Nat /\ to \in Nat /\ 1 <= from /\ from <= to + 1
      BY <2>a
    <3> QED BY <2>b, <2>c, <3>1, Cut
  <2>3. head \in Seq(Tokens) /\ Len(head) = 19 /\ \A i \in 1 .. 19 : head[i] = w[i]
    BY <2>2, <2>a
  <2>4. DOMAIN head = 1 .. 19
    BY <2>3
  <2> QED BY <1>6, <2>3, <2>4
<1> HIDE DEF head
<1>11. ASSUME NEW i \in DOMAIN head
       PROVE  /\ head[i] = "Content-Length" <=> i = 13
              /\ head[i] = "Content-Type" <=> i = 8
  <2>1. /\ t[1] # "Content-Length" /\ t[2] # "Content-Length" /\ t[4] # "Content-Length"
        /\ t[5] # "Content-Length" /\ t[6] # "Content-Length" /\ t[7] # "Content-Length"
        /\ t[8] # "Content-Length" /\ t[9] # "Content-Length" /\ t[11] # "Content-Length"
        /\ t[12] # "Content-Length" /\ t[14] # "Content-Length" /\ t[16] # "Content-Length"
        /\ t[17] # "Content-Length" /\ t[18] # "Content-Length" /\ t[19] # "Content-Length"
    BY <1>2 DEF SP, CR, LF, COLON
  <2>2. /\ t[1] # "Content-Type" /\ t[2] # "Content-Type" /\ t[4] # "Content-Type"
        /\ t[5] # "Content-Type" /\ t[6] # "Content-Type" /\ t[7] # "Content-Type"
        /\ t[13] # "Content-Type" /\ t[9] # "Content-Type" /\ t[11] # "Content-Type"
        /\ t[12] # "Content-Type" /\ t[14] # "Content-Type" /\ t[16] # "Content-Type"
        /\ t[17] # "Content-Type" /\ t[18] # "Content-Type" /\ t[19] # "Content-Type"
    BY <1>2 DEF SP, CR, LF, COLON
  <2>3. /\ t[3] # "Content-Type" /\ t[10] # "Content-Type" /\ t[15] # "Content-Type"
        /\ t[3] # "Content-Length" /\ t[10] # "Content-Length" /\ t[15] # "Content-Length"
    BY <1>2, <1>5
  <2>4. t[8] = "Content-Type" /\ t[13] = "Content-Length"
    BY <1>2
  <2>5. \/ i = 1 \/ i = 2 \/ i = 3 \/ i = 4 \/ i = 5 \/ i = 6 \/ i = 7 \/ i = 8 \/ i = 9
        \/ i = 10 \/ i = 11 \/ i = 12 \/ i = 13 \/ i = 14 \/ i = 15 \/ i = 16 \/ i = 17
        \/ i = 18 \/ i = 19
    BY <1>10
  <2>6. head[i] = t[i]
    BY <1>10
  <2> QED BY <2>1, <2>2, <2>3, <2>4, <2>5, <2>6
<1>12. Field(head, "Content-Length") = ContentLength(b) /\ Field(head, "Content-Type") = h.type
  <2>1. (CHOOSE i \in DOMAIN head : head[i] = "Content-Length") = 13
    BY <1>10, <1>11
  <2>2. (CHOOSE i \in DOMAIN head : head[i] = "Content-Type") = 8
    BY <1>10, <1>11
  <2>3. Field(head, "Content-Length") = head[13 + 2] /\ Field(head, "Content-Type") = head[8 + 2]
    BY <2>1, <2>2 DEF Field
  <2>4. head[15] = t[15] /\ head[10] = t[10] /\ 13 + 2 = 15 /\ 8 + 2 = 10
    BY <1>10
  <2> QED BY <1>2, <2>3, <2>4
<1>13. head[3] = h.code
  BY <1>2, <1>10
<1>14. SubSeq(w, n + 1, n + Len(b)) = b
  <2> DEFINE last == 19 + Len(b)
             u == SubSeq(w, 20, last)
  <2>0. Len(w) = 19 + Len(b) /\ Len(b) \in Nat
    BY <1>6
  <2>1. last \in Nat /\ 20 <= last + 1 /\ last <= Len(w) /\ last - 20 + 1 = Len(b)
    BY <2>0
  <2> HIDE DEF last
  <2>2. /\ u \in Seq(Tokens) /\ Len(u) = last - 20 + 1
        /\ \A i \in 1 .. last - 20 + 1 : u[i] = w[20 + i - 1]
    <3>1. 20 \in Nat /\ 1 <= 20 /\ w \in Seq(Tokens)
      BY <1>6
    <3> QED BY <2>1, <3>1, Cut
  <2> HIDE DEF u
  <2>3. ASSUME NEW i \in 1 .. Len(b)
        PROVE  u[i] = b[i]
    <3>1. u[i] = w[20 + i - 1] /\ 20 + i - 1 = 19 + i
      BY <2>1, <2>2
    <3> QED BY <1>6, <3>1
  <2>4. u = b
    BY <1>4, <2>1, <2>2, <2>3, SeqEqual
  <2>5. n + 1 = 20 /\ n + Len(b) = last
    BY <1>9 DEF last
  <2> QED BY <2>4, <2>5 DEF u
<1>15. \A m \in 0 .. Len(b) : ToString(m) = Field(head, "Content-Length") <=> m = Len(b)
  <2>1. \A m \in 0 .. Len(b) : ToString(m) = ContentLength(b) <=> m = Len(b)
    <3>1. \A m \in 0 .. Len(b) : ToString(m) = ContentLength(b) => m = Len(b)
      BY <1>1 DEF Answer, b
    <3>2. ToString(Len(b)) = ContentLength(b)
      BY DEF ContentLength
    <3> QED BY <3>1, <3>2
  <2> QED BY <1>12, <2>1
<1>16. h = [code |-> head[3], type |-> Field(head, "Content-Type"),
            text |-> SubSeq(w, n + 1, n + Len(b))]
  <2>1. h = [code |-> h.code, type |-> h.type, text |-> b]
    BY <1>1 DEF Answer, b
  <2> QED BY <1>12, <1>13, <1>14, <2>1
<1>17. HeadLengths(w) # {} /\ n \in Nat /\ Len(w) = n + Len(b) /\ n > 0
  BY <1>6, <1>8, <1>9
<1> QED
  BY <1>6, <1>15, <1>16, <1>17 DEF head, n, w, b

-----------------------------------------------------------------------------
(* Router: the key of a method and a path.                                 *)

(* A method, as a request or a route has one. *)
Method(m) == m \in Seq(Tokens) /\ \A i \in 1 .. Len(m) : m[i] # "-"

LEMMA KeysDiffer ==
  ASSUME NEW m, Method(m), NEW u \in Seq(Tokens), NEW k, Method(k), NEW p \in Seq(Tokens),
         RouteKey(m, u) = RouteKey(k, p)
  PROVE  m = k /\ u = p
<1> DEFINE c == "-"
           d == <<c>>
           t == (m \o d) \o u
           q == (k \o d) \o p
<1>1. c \in Tokens
  BY DEF Tokens
<1>2. t = q
  BY DEF RouteKey
<1>3. Method(m) => \A i \in 1 .. Len(m) : m[i] # c
  BY DEF Method
<1>4. Method(k) => \A i \in 1 .. Len(k) : k[i] # c
  BY DEF Method
<1> HIDE DEF c
<1>5. d \in Seq(Tokens) /\ Len(d) = 1 /\ d[1] = c
  BY <1>1, OneWord
<1> HIDE DEF d
<1>6. m \in Seq(Tokens) /\ k \in Seq(Tokens)
  BY DEF Method
<1>a. t = (m \o d) \o u
  OBVIOUS
<1>b. q = (k \o d) \o p
  OBVIOUS
<1> HIDE DEF t, q
<1>c. m \in Seq(Tokens) /\ d \in Seq(Tokens) /\ u \in Seq(Tokens)
  BY <1>5, <1>6
<1>d. k \in Seq(Tokens) /\ d \in Seq(Tokens) /\ p \in Seq(Tokens)
  BY <1>5, <1>6
<1>7. /\ Len(m) \in Nat /\ Len(u) \in Nat /\ Len(t) = Len(m) + Len(d) + Len(u)
      /\ \A i \in 1 .. Len(m) : t[i] = m[i]
      /\ \A i \in 1 .. Len(d) : t[Len(m) + i] = d[i]
      /\ \A i \in 1 .. Len(u) : t[Len(m) + Len(d) + i] = u[i]
  BY <1>a, <1>c, Joined
<1>8. /\ Len(k) \in Nat /\ Len(p) \in Nat /\ Len(q) = Len(k) + Len(d) + Len(p)
      /\ \A i \in 1 .. Len(k) : q[i] = k[i]
      /\ \A i \in 1 .. Len(d) : q[Len(k) + i] = d[i]
      /\ \A i \in 1 .. Len(p) : q[Len(k) + Len(d) + i] = p[i]
  BY <1>b, <1>d, Joined
<1>9. t[Len(m) + 1] = c /\ q[Len(k) + 1] = c
  BY <1>5, <1>7, <1>8
<1>10. ~ (Len(m) < Len(k))
  <2> SUFFICES ASSUME Len(m) < Len(k)
               PROVE  FALSE
    OBVIOUS
  <2>1. Len(m) + 1 \in 1 .. Len(k)
    BY <1>7, <1>8
  <2>2. q[Len(m) + 1] = k[Len(m) + 1] /\ k[Len(m) + 1] # c
    BY <1>4, <1>8, <2>1
  <2> QED BY <1>2, <1>9, <2>2
<1>11. ~ (Len(k) < Len(m))
  <2> SUFFICES ASSUME Len(k) < Len(m)
               PROVE  FALSE
    OBVIOUS
  <2>1. Len(k) + 1 \in 1 .. Len(m)
    BY <1>7, <1>8
  <2>2. t[Len(k) + 1] = m[Len(k) + 1] /\ m[Len(k) + 1] # c
    BY <1>3, <1>7, <2>1
  <2> QED BY <1>2, <1>9, <2>2
<1>12. Len(m) = Len(k) /\ Len(u) = Len(p)
  <2>1. Len(m) = Len(k)
    BY <1>7, <1>8, <1>10, <1>11
  <2>2. Len(t) = Len(q)
    BY <1>2
  <2> QED BY <1>5, <1>7, <1>8, <2>1, <2>2
<1>13. m = k
  <2>1. \A i \in 1 .. Len(m) : m[i] = k[i]
    BY <1>2, <1>7, <1>8, <1>12
  <2> QED BY <1>6, <1>12, <2>1, SeqEqual
<1>14. u = p
  <2>1. \A i \in 1 .. Len(u) : u[i] = p[i]
    BY <1>2, <1>7, <1>8, <1>12
  <2>2. Len(u) = Len(p)
    BY <1>12
  <2> QED BY <2>1, <2>2, SeqEqual
<1> QED
  BY <1>13, <1>14

LEMMA KeysAre ==
  ASSUME NEW k \in Keys
  PROVE  /\ k = <<k[1], k[2]>> /\ k[1] \in {<<"GET">>, <<"POST">>} /\ k[2] \in Paths
         /\ Method(k[1]) /\ k[2] \in Seq(Tokens)
<1>1. k = <<k[1], k[2]>> /\ k[1] \in {<<"GET">>, <<"POST">>} /\ k[2] \in Paths
  BY DEF Keys
<1>2. ASSUME NEW c \in Tokens, c # "-"
      PROVE  Method(<<c>>)
  <2> DEFINE m == <<c>>
  <2>1. m \in Seq(Tokens) /\ Len(m) = 1 /\ m[1] = c
    BY OneWord
  <2> HIDE DEF m
  <2>2. Method(m)
    BY <1>2, <2>1 DEF Method
  <2> QED BY <2>2 DEF m
<1>3. Method(k[1])
  <2>1. "GET" \in Tokens /\ "POST" \in Tokens /\ "GET" # "-" /\ "POST" # "-"
    BY DEF Tokens
  <2> QED BY <1>1, <1>2, <2>1
<1>4. k[2] \in Seq(Tokens)
  <2>1. STRING \subseteq Tokens
    BY DEF Tokens
  <2>2. k[2] \in Seq(STRING)
    BY <1>1, PathsAssumption
  <2> QED BY <2>1, <2>2, SeqMonotonic
<1> QED
  BY <1>1, <1>3, <1>4

(* The router finds a handler by its method and its path: keys differ when *)
(* methods or paths do, because no method has the separator in it          *)
(* (Router.cpp:6-17).                                                      *)
LEMMA KeysOfRequest ==
  ASSUME NEW r, WellFormed(r)
  PROVE  /\ Method(r.method) /\ r.url \in Seq(Tokens)
         /\ \A k \in Keys : RouteKey(r.method, r.url) = RouteKey(k[1], k[2]) => k = KeyOf(r)
<1>1. r.method \in Seq(Words \ {SP, "-"}) /\ r.url \in Seq(Words \ {SP})
  BY DEF WellFormed
<1>2. Method(r.method)
  <2>1. Words \ {SP, "-"} \subseteq Words
    OBVIOUS
  <2>2. OnLine(r.method) /\ \A i \in 1 .. Len(r.method) : r.method[i] \in Words \ {SP, "-"}
    BY <1>1, <2>1, WordsOnLine
  <2> QED BY <2>2 DEF Method, OnLine
<1>3. r.url \in Seq(Tokens)
  <2>1. Words \ {SP} \subseteq Words
    OBVIOUS
  <2>2. OnLine(r.url)
    BY <1>1, <2>1, WordsOnLine
  <2> QED BY <2>2 DEF OnLine
<1>4. ASSUME NEW k \in Keys, RouteKey(r.method, r.url) = RouteKey(k[1], k[2])
      PROVE  k = KeyOf(r)
  <2>1. k = <<k[1], k[2]>> /\ Method(k[1]) /\ k[2] \in Seq(Tokens)
    BY KeysAre
  <2>2. r.method = k[1] /\ r.url = k[2]
    BY <1>2, <1>3, <1>4, <2>1, KeysDiffer
  <2> QED BY <2>1, <2>2 DEF KeyOf
<1> QED
  BY <1>2, <1>3, <1>4

LEMMA KeysOfRoutes ==
  ASSUME NEW k \in Keys, NEW j \in Keys, RouteKey(k[1], k[2]) = RouteKey(j[1], j[2])
  PROVE  k = j
<1>1. k = <<k[1], k[2]>> /\ Method(k[1]) /\ k[2] \in Seq(Tokens)
  BY KeysAre
<1>2. j = <<j[1], j[2]>> /\ Method(j[1]) /\ j[2] \in Seq(Tokens)
  BY KeysAre
<1>3. k[1] = j[1] /\ k[2] = j[2]
  BY <1>1, <1>2, KeysDiffer
<1> QED
  BY <1>1, <1>2, <1>3

-----------------------------------------------------------------------------
(* The invariant: at most one request is anywhere between the client and   *)
(* the engine or its answer on the way back, and what the network and the  *)
(* parser hold of it is its whole text.                                    *)

Served == Handlers \cup {NotFoundHandler}

RouteTable ==
    /\ DOMAIN routes \subseteq {RouteKey(k[1], k[2]) : k \in Keys}
    /\ \A k \in DOMAIN routes : routes[k] \in Handlers

InTurn ==
    /\ running \in BOOLEAN
    /\ sent \in Seq(Requests)
    /\ parsed \in Seq({AsParsed(r) : r \in Requests})
    /\ answers \in Seq(Served)
    /\ Len(answers) <= Len(parsed)
    /\ Len(parsed) <= Len(sent)
    /\ Len(sent) <= Len(answers) + 1
    /\ Len(sent) > 0 => running

Carried ==
    /\ raw_http_request \in Seq(Tokens)
    /\ pending \in Seq(Tokens)
    /\ Len(parsed) < Len(sent) =>
         raw_http_request \o pending = Text(sent[Len(sent)]) /\ Len(pending) > 0
    /\ Len(parsed) = Len(sent) => raw_http_request = <<>> /\ pending = <<>>

Answering ==
    /\ Len(answers) < Len(parsed) => wire = Serialize(Respond(Found(parsed[Len(parsed)])))
    /\ Len(answers) = Len(parsed) => wire = <<>>

HInv == RouteTable /\ InTurn /\ Carried /\ Answering /\ ParsedAsSent

LEMMA FoundServed ==
  ASSUME RouteTable, NEW r
  PROVE  Found(r) \in Served
BY DEF Found, RouteTable, Served

LEMMA Cutting ==
  ASSUME NEW a \in Seq(Tokens), NEW b \in Seq(Tokens), NEW n \in 0 .. Len(b)
  PROVE  /\ a \o SubSeq(b, 1, n) = SubSeq(a \o b, 1, Len(a) + n)
         /\ (a \o SubSeq(b, 1, n)) \o SubSeq(b, n + 1, Len(b)) = a \o b
         /\ a \o SubSeq(b, 1, n) \in Seq(Tokens)
         /\ SubSeq(b, n + 1, Len(b)) \in Seq(Tokens)
         /\ Len(SubSeq(b, n + 1, Len(b))) = Len(b) - n
<1> DEFINE p == SubSeq(b, 1, n)
           q == SubSeq(b, n + 1, Len(b))
           ab == a \o b
           ap == a \o p
           c == SubSeq(ab, 1, Len(a) + n)
<1>1. Len(a) \in Nat /\ Len(b) \in Nat /\ n \in Nat /\ n <= Len(b)
  OBVIOUS
<1>2. p \in Seq(Tokens) /\ Len(p) = n /\ \A i \in 1 .. n : p[i] = b[i]
  <2>1. 1 \in Nat /\ 1 <= 1 /\ 1 <= n + 1 /\ n - 1 + 1 = n
    BY <1>1
  <2>2. /\ SubSeq(b, 1, n) \in Seq(Tokens) /\ Len(SubSeq(b, 1, n)) = n - 1 + 1
        /\ \A i \in 1 .. n - 1 + 1 : SubSeq(b, 1, n)[i] = b[1 + i - 1]
    BY <1>1, <2>1, Cut
  <2> QED BY <2>1, <2>2
<1>3. q \in Seq(Tokens) /\ Len(q) = Len(b) - n /\ \A i \in 1 .. Len(b) - n : q[i] = b[n + i]
  <2> DEFINE f == n + 1
             l == Len(b)
  <2>1. f \in Nat /\ l \in Nat /\ 1 <= f /\ f <= l + 1 /\ l <= Len(b) /\ l - f + 1 = Len(b) - n
    BY <1>1
  <2>2. \A i \in 1 .. Len(b) - n : f + i - 1 = n + i
    BY <1>1
  <2>3. q = SubSeq(b, f, l)
    OBVIOUS
  <2> HIDE DEF f, l, q
  <2>4. /\ SubSeq(b, f, l) \in Seq(Tokens) /\ Len(SubSeq(b, f, l)) = l - f + 1
        /\ \A i \in 1 .. l - f + 1 : SubSeq(b, f, l)[i] = b[f + i - 1]
    BY <2>1, Cut
  <2> QED BY <2>1, <2>2, <2>3, <2>4
<1> HIDE DEF p, q
<1>4. /\ ab \in Seq(Tokens) /\ Len(ab) = Len(a) + Len(b)
      /\ \A i \in 1 .. Len(a) : ab[i] = a[i]
      /\ \A i \in 1 .. Len(b) : ab[Len(a) + i] = b[i]
  BY Joined2
<1>5. /\ ap \in Seq(Tokens) /\ Len(ap) = Len(a) + n
      /\ \A i \in 1 .. Len(a) : ap[i] = a[i]
      /\ \A i \in 1 .. n : ap[Len(a) + i] = b[i]
  <2>1. a \in Seq(Tokens) /\ p \in Seq(Tokens)
    BY <1>2
  <2>2. /\ ap \in Seq(Tokens) /\ Len(ap) = Len(a) + Len(p)
        /\ \A i \in 1 .. Len(a) : ap[i] = a[i]
        /\ \A i \in 1 .. Len(p) : ap[Len(a) + i] = p[i]
    BY <2>1, Joined2
  <2> HIDE DEF ap
  <2> QED BY <1>2, <2>2
<1> HIDE DEF ab, ap
<1>6. c \in Seq(Tokens) /\ Len(c) = Len(a) + n /\ \A i \in 1 .. Len(a) + n : c[i] = ab[i]
  <2> DEFINE l == Len(a) + n
             f == 1
  <2>1. l \in Nat /\ f \in Nat /\ 1 <= f /\ f <= l + 1 /\ l <= Len(ab) /\ l - f + 1 = l /\ f = 1
    BY <1>1, <1>4
  <2>2. c = SubSeq(ab, f, l) /\ l = Len(a) + n
    OBVIOUS
  <2> HIDE DEF c, f, l
  <2>3. /\ SubSeq(ab, f, l) \in Seq(Tokens) /\ Len(SubSeq(ab, f, l)) = l - f + 1
        /\ \A i \in 1 .. l - f + 1 : SubSeq(ab, f, l)[i] = ab[f + i - 1]
    BY <1>4, <2>1, Cut
  <2> QED BY <2>1, <2>2, <2>3
<1> HIDE DEF c
<1>7. ASSUME NEW i \in 1 .. Len(a) + n
      PROVE  ap[i] = ab[i]
  <2>1. CASE i <= Len(a)
    BY <2>1, <1>1, <1>4, <1>5
  <2>2. CASE i > Len(a)
    <3> DEFINE j == i - Len(a)
    <3>1. j \in 1 .. n /\ j \in 1 .. Len(b) /\ Len(a) + j = i
      BY <2>2, <1>1
    <3> HIDE DEF j
    <3> QED BY <1>4, <1>5, <3>1
  <2> QED BY <2>1, <2>2, <1>1
<1>8. ap = c
  <2>1. ap \in Seq(Tokens) /\ c \in Seq(Tokens) /\ Len(ap) = Len(c) /\ \A i \in 1 .. Len(ap) : ap[i] = c[i]
    BY <1>5, <1>6, <1>7
  <2> QED BY <2>1, SeqEqual
<1>9. ap \o q = ab
  <2> DEFINE t == ap \o q
  <2>1. ap \in Seq(Tokens) /\ q \in Seq(Tokens)
    BY <1>3, <1>5
  <2>2. /\ t \in Seq(Tokens) /\ Len(t) = Len(ap) + Len(q)
        /\ \A i \in 1 .. Len(ap) : t[i] = ap[i]
        /\ \A i \in 1 .. Len(q) : t[Len(ap) + i] = q[i]
    BY <2>1, Joined2
  <2> HIDE DEF t
  <2>3. Len(t) = Len(ab)
    BY <1>1, <1>3, <1>4, <1>5, <2>2
  <2>4. ASSUME NEW i \in 1 .. Len(ab)
        PROVE  t[i] = ab[i]
    <3>1. CASE i <= Len(a) + n
      BY <3>1, <1>1, <1>5, <1>7, <2>2
    <3>2. CASE i > Len(a) + n
      <4> DEFINE j == i - (Len(a) + n)
      <4>1. j \in 1 .. Len(b) - n /\ Len(a) + n + j = i /\ n + j \in 1 .. Len(b) /\ Len(a) + (n + j) = i
        BY <3>2, <1>1, <1>4
      <4> HIDE DEF j
      <4>2. t[i] = q[j]
        BY <1>3, <1>5, <2>2, <4>1
      <4>3. q[j] = b[n + j] /\ ab[i] = b[n + j]
        BY <1>3, <1>4, <4>1
      <4> QED BY <4>2, <4>3
    <3> QED BY <3>1, <3>2, <1>1
  <2>5. t = ab
    BY <1>4, <2>2, <2>3, <2>4, SeqEqual
  <2> QED BY <2>5 DEF t
<1> QED
  BY <1>3, <1>5, <1>8, <1>9 DEF p, q, ab, ap, c

LEMMA InitHolds ==
  ASSUME Init
  PROVE  HInv
<1>1. RouteTable
  BY DEF Init, RouteTable
<1>2. sent = <<>> /\ parsed = <<>> /\ answers = <<>> /\ wire = <<>>
      /\ raw_http_request = <<>> /\ pending = <<>> /\ running = FALSE
  BY DEF Init
<1>3. InTurn
  <2>1. /\ sent \in Seq(Requests) /\ parsed \in Seq({AsParsed(r) : r \in Requests})
        /\ answers \in Seq(Served)
    <3>1. \A S : <<>> \in Seq(S)
      OBVIOUS
    <3> QED BY <1>2, <3>1, Zenon
  <2>2. Len(sent) = 0 /\ Len(parsed) = 0 /\ Len(answers) = 0
    BY <1>2
  <2>3. running \in BOOLEAN
    BY <1>2
  <2> QED BY <2>1, <2>2, <2>3 DEF InTurn
<1>4. Carried /\ Answering /\ ParsedAsSent
  BY <1>2 DEF Carried, Answering, ParsedAsSent
<1> QED
  BY <1>1, <1>3, <1>4 DEF HInv

(* Before Run nothing was sent. *)
LEMMA NothingSent ==
  ASSUME HInv, ~ running
  PROVE  Len(sent) = 0 /\ Len(parsed) = 0 /\ Len(answers) = 0
<1>1. /\ sent \in Seq(Requests) /\ Len(sent) \in Nat /\ Len(parsed) \in Nat /\ Len(answers) \in Nat
      /\ Len(answers) <= Len(parsed) /\ Len(parsed) <= Len(sent)
      /\ ~ (Len(sent) > 0)
  BY DEF HInv, InTurn
<1> QED
  BY <1>1

LEMMA AddRouteStep ==
  ASSUME HInv, NEW k \in Keys, NEW h \in Handlers, addRoute(k[1], k[2], h)
  PROVE  HInv'
<1> DEFINE key == RouteKey(k[1], k[2])
<1>1. /\ routes' = [j \in DOMAIN routes \cup {key} |-> IF j = key THEN h ELSE routes[j]]
      /\ ~ running
      /\ UNCHANGED <<running, sent, pending, raw_http_request, parsed, wire, answers>>
  BY DEF addRoute
<1>2. Len(sent) = 0 /\ Len(parsed) = 0 /\ Len(answers) = 0
  BY <1>1, NothingSent
<1>3. RouteTable'
  <2>1. DOMAIN routes \subseteq {RouteKey(j[1], j[2]) : j \in Keys} /\ key \in {RouteKey(j[1], j[2]) : j \in Keys}
    BY DEF HInv, RouteTable
  <2>2. DOMAIN routes' = DOMAIN routes \cup {key}
    BY <1>1
  <2>3. \A j \in DOMAIN routes : routes[j] \in Handlers
    BY DEF HInv, RouteTable
  <2> HIDE DEF key
  <2>4. \A j \in DOMAIN routes' : routes'[j] \in Handlers
    BY <1>1, <2>2, <2>3
  <2> QED BY <2>1, <2>2, <2>4 DEF RouteTable
<1>4. (InTurn /\ Carried /\ ParsedAsSent)'
  <2>1. InTurn /\ Carried /\ ParsedAsSent
    BY DEF HInv
  <2> QED BY <1>1, <2>1 DEF InTurn, Carried, ParsedAsSent
<1>5. Answering'
  <2>1. wire = <<>>
    BY <1>2 DEF HInv, Answering
  <2> QED BY <1>1, <1>2, <2>1 DEF Answering
<1> QED
  BY <1>3, <1>4, <1>5 DEF HInv

(* A step that leaves the routes alone and what was parsed and answered. *)
LEMMA AnsweringKept ==
  ASSUME Answering, UNCHANGED <<routes, parsed, answers, wire>>
  PROVE  Answering'
BY DEF Answering, Found

LEMMA RunStep ==
  ASSUME HInv, Run
  PROVE  HInv'
<1>1. running' = TRUE /\ UNCHANGED <<routes, sent, pending, raw_http_request, parsed, wire, answers>>
  BY DEF Run
<1>2. RouteTable'
  BY <1>1 DEF HInv, RouteTable
<1>3. InTurn'
  BY <1>1 DEF HInv, InTurn
<1>4. Carried' /\ ParsedAsSent'
  BY <1>1 DEF HInv, Carried, ParsedAsSent
<1>5. Answering'
  BY <1>1, AnsweringKept DEF HInv
<1> QED
  BY <1>2, <1>3, <1>4, <1>5 DEF HInv

LEMMA SendStep ==
  ASSUME HInv, NEW r \in Requests, Send(r)
  PROVE  HInv'
<1>1. /\ running /\ Len(sent) = Len(answers)
      /\ sent' = Append(sent, r) /\ pending' = pending \o Text(r)
      /\ UNCHANGED <<routes, running, raw_http_request, parsed, wire, answers>>
  BY DEF Send
<1>2. /\ sent \in Seq(Requests) /\ Len(sent) \in Nat
      /\ parsed \in Seq({AsParsed(q) : q \in Requests}) /\ Len(parsed) \in Nat
      /\ answers \in Seq(Served) /\ Len(answers) \in Nat
      /\ Len(answers) <= Len(parsed) /\ Len(parsed) <= Len(sent)
  BY DEF HInv, InTurn
<1>3. Len(parsed) = Len(sent)
  BY <1>1, <1>2
<1>4. raw_http_request = <<>> /\ pending = <<>>
  BY <1>3 DEF HInv, Carried
<1>5. Text(r) \in Seq(Tokens) /\ Len(Text(r)) >= 4
  BY RequestsAssumption, CompleteOnlyWhole
<1>6. /\ sent' \in Seq(Requests) /\ Len(sent') = Len(sent) + 1
      /\ sent'[Len(sent) + 1] = r /\ \A i \in 1 .. Len(sent) : sent'[i] = sent[i]
  BY <1>1, <1>2
<1>7. RouteTable'
  BY <1>1 DEF HInv, RouteTable
<1>8. InTurn'
  <2>1. running \in BOOLEAN
    BY DEF HInv, InTurn
  <2> QED BY <1>1, <1>2, <1>3, <1>6, <2>1 DEF InTurn
<1>9. Carried'
  <2>1. pending' = Text(r) /\ raw_http_request' = <<>> /\ raw_http_request' \o pending' = Text(r)
    <3> DEFINE t == Text(r)
    <3> HIDE DEF t
    <3>1. t \in Seq(Tokens)
      BY <1>5 DEF t
    <3>2. <<>> \o t = t
      BY <3>1
    <3> QED BY <1>1, <1>4, <3>2 DEF t
  <2>2. Len(parsed') < Len(sent') /\ Len(parsed') # Len(sent') /\ sent'[Len(sent')] = r
    BY <1>1, <1>2, <1>3, <1>6
  <2>3. raw_http_request' \in Seq(Tokens) /\ pending' \in Seq(Tokens) /\ Len(pending') > 0
    BY <1>5, <2>1
  <2> QED BY <2>1, <2>2, <2>3 DEF Carried
<1>10. ParsedAsSent'
  <2>1. \A i \in 1 .. Len(parsed) : parsed[i] = AsParsed(sent[i])
    BY DEF HInv, ParsedAsSent
  <2>2. \A i \in 1 .. Len(parsed) : sent'[i] = sent[i]
    BY <1>3, <1>6
  <2>3. \A i \in 1 .. Len(parsed) : parsed[i] = AsParsed(sent'[i])
    BY <2>1, <2>2
  <2>4. Len(parsed) <= Len(sent')
    BY <1>2, <1>3, <1>6
  <2>5. parsed' = parsed
    BY <1>1
  <2> QED BY <2>3, <2>4, <2>5 DEF ParsedAsSent
<1>11. Answering'
  BY <1>1, AnsweringKept DEF HInv
<1> QED
  BY <1>7, <1>8, <1>9, <1>10, <1>11 DEF HInv

(* The request on the way, when there is one. *)
LEMMA OnTheWay ==
  ASSUME HInv, Len(pending) > 0
  PROVE  /\ Len(sent) > 0 /\ sent[Len(sent)] \in Requests
         /\ Len(answers) = Len(parsed) /\ Len(sent) = Len(parsed) + 1
         /\ raw_http_request \o pending = Text(sent[Len(sent)])
         /\ wire = <<>>
<1>1. /\ sent \in Seq(Requests) /\ Len(sent) \in Nat /\ Len(parsed) \in Nat /\ Len(answers) \in Nat
      /\ Len(answers) <= Len(parsed) /\ Len(parsed) <= Len(sent) /\ Len(sent) <= Len(answers) + 1
  BY DEF HInv, InTurn
<1>2. Len(parsed) # Len(sent)
  <2>1. Len(parsed) = Len(sent) => pending = <<>>
    BY DEF HInv, Carried
  <2> QED BY <2>1
<1>3. Len(parsed) < Len(sent) /\ Len(answers) = Len(parsed) /\ Len(sent) = Len(parsed) + 1
  BY <1>1, <1>2
<1>4. raw_http_request \o pending = Text(sent[Len(sent)])
  BY <1>3 DEF HInv, Carried
<1>5. wire = <<>>
  BY <1>3 DEF HInv, Answering
<1>6. Len(sent) > 0 /\ sent[Len(sent)] \in Requests
  BY <1>1, <1>3
<1> QED
  BY <1>3, <1>4, <1>5, <1>6

(* The packet that completes a request is the last of its text. *)
LEMMA WholeRequest ==
  ASSUME HInv, NEW n \in 1 .. Len(pending)
  PROVE  LET s == raw_http_request \o SubSeq(pending, 1, n)
         IN  /\ s \in Seq(Tokens)
             /\ Complete(s) <=> n = Len(pending)
             /\ Complete(s) => Parse(s) = AsParsed(sent[Len(sent)])
             /\ s \o SubSeq(pending, n + 1, Len(pending)) = Text(sent[Len(sent)])
             /\ SubSeq(pending, n + 1, Len(pending)) \in Seq(Tokens)
             /\ Len(SubSeq(pending, n + 1, Len(pending))) = Len(pending) - n
<1> DEFINE a == raw_http_request
           b == pending
           r == sent[Len(sent)]
           t == Text(r)
           s == a \o SubSeq(b, 1, n)
           m == Len(a) + n
           rest == SubSeq(b, n + 1, Len(b))
<1>1. a \in Seq(Tokens) /\ b \in Seq(Tokens) /\ Len(a) \in Nat /\ Len(b) \in Nat
  BY DEF HInv, Carried
<1>2. n \in Nat /\ 1 <= n /\ n <= Len(b)
  BY <1>1
<1>3. r \in Requests /\ a \o b = t
  BY <1>1, <1>2, OnTheWay
<1>4. WellFormed(r)
  BY <1>3, RequestsAssumption
<1>5. /\ t \in Seq(Tokens)
      /\ \A i \in 0 .. Len(t) : Complete(SubSeq(t, 1, i)) <=> i = Len(t)
      /\ Parse(t) = AsParsed(r)
  BY <1>4, CompleteOnlyWhole, ParseText
<1> HIDE DEF a, b, r, t
<1>6. /\ s = SubSeq(a \o b, 1, Len(a) + n) /\ s \o rest = a \o b /\ s \in Seq(Tokens)
      /\ rest \in Seq(Tokens) /\ Len(rest) = Len(b) - n
  <2>1. n \in 0 .. Len(b)
    BY <1>1, <1>2
  <2> QED BY <1>1, <2>1, Cutting
<1>7. Len(t) = Len(a) + Len(b)
  <2>1. Len(a \o b) = Len(a) + Len(b)
    BY <1>1
  <2> QED BY <1>3, <2>1
<1> HIDE DEF s, rest
<1>8. s = SubSeq(t, 1, m)
  BY <1>3, <1>6
<1>9. m \in 0 .. Len(t) /\ (m = Len(t) <=> n = Len(b))
  BY <1>1, <1>2, <1>7
<1>10. Complete(s) <=> n = Len(b)
  <2>1. Complete(SubSeq(t, 1, m)) <=> m = Len(t)
    <3> HIDE DEF m
    <3> QED BY <1>5, <1>9
  <2> QED BY <1>8, <1>9, <2>1
<1>11. Complete(s) => s = t
  <2> SUFFICES ASSUME Complete(s)
               PROVE  s = t
    OBVIOUS
  <2>1. m = Len(t)
    BY <1>9, <1>10
  <2> HIDE DEF m
  <2>2. SubSeq(t, 1, Len(t)) = t
    BY <1>5
  <2> QED BY <1>8, <2>1, <2>2
<1>12. Complete(s) => Parse(s) = AsParsed(r)
  BY <1>5, <1>11
<1>13. s \o rest = t
  BY <1>3, <1>6
<1> QED
  BY <1>6, <1>10, <1>12, <1>13 DEF a, b, r, t, s, rest

LEMMA PacketStep ==
  ASSUME HInv, NEW n \in 1 .. MaxPacket, Packet(n)
  PROVE  HInv'
<1> DEFINE s == raw_http_request \o SubSeq(pending, 1, n)
           r == sent[Len(sent)]
           rest == SubSeq(pending, n + 1, Len(pending))
<1>1. /\ n <= Len(pending) /\ pending' = rest
      /\ UNCHANGED <<routes, running, sent, answers>>
      /\ \/ /\ Complete(s)
            /\ parsed' = Append(parsed, Parse(s))
            /\ wire' = wire \o Serialize(Respond(Found(Parse(s))))
            /\ raw_http_request' = <<>>
         \/ /\ ~ Complete(s)
            /\ raw_http_request' = s
            /\ UNCHANGED <<parsed, wire>>
  BY DEF Packet, Arrive, AfterRequest
<1>2. n \in Nat /\ 1 <= n /\ pending \in Seq(Tokens) /\ Len(pending) \in Nat
  BY BoundsAssumption DEF HInv, Carried
<1>3. n \in 1 .. Len(pending) /\ Len(pending) > 0
  BY <1>1, <1>2
<1>4. /\ r \in Requests /\ Len(answers) = Len(parsed) /\ Len(sent) = Len(parsed) + 1 /\ wire = <<>>
  BY <1>3, OnTheWay
<1>5. /\ s \in Seq(Tokens)
      /\ Complete(s) <=> n = Len(pending)
      /\ Complete(s) => Parse(s) = AsParsed(r)
      /\ s \o rest = Text(r)
      /\ rest \in Seq(Tokens) /\ Len(rest) = Len(pending) - n
  BY <1>3, WholeRequest
<1>6. /\ sent \in Seq(Requests) /\ Len(sent) \in Nat
      /\ parsed \in Seq({AsParsed(q) : q \in Requests}) /\ Len(parsed) \in Nat
      /\ answers \in Seq(Served) /\ running \in BOOLEAN /\ (Len(sent) > 0 => running)
  BY DEF HInv, InTurn
<1>7. RouteTable'
  BY <1>1 DEF HInv, RouteTable
<1>8. \A i \in 1 .. Len(parsed) : parsed[i] = AsParsed(sent[i])
  BY DEF HInv, ParsedAsSent
<1> HIDE DEF s, r, rest
<1>9. CASE Complete(s)
  <2>1. parsed' = Append(parsed, AsParsed(r)) /\ raw_http_request' = <<>>
        /\ wire' = wire \o Serialize(Respond(Found(AsParsed(r))))
    BY <1>1, <1>5, <1>9
  <2>2. AsParsed(r) \in {AsParsed(q) : q \in Requests}
    BY <1>4
  <2>3. /\ parsed' \in Seq({AsParsed(q) : q \in Requests}) /\ Len(parsed') = Len(sent)
        /\ parsed'[Len(sent)] = AsParsed(r)
        /\ \A i \in 1 .. Len(parsed) : parsed'[i] = parsed[i]
    <3> DEFINE Q == {AsParsed(q) : q \in Requests}
               e == AsParsed(r)
    <3>1. parsed \in Seq(Q) /\ e \in Q /\ parsed' = Append(parsed, e)
      BY <1>6, <2>1, <2>2
    <3> HIDE DEF Q, e
    <3>2. /\ parsed' \in Seq(Q) /\ Len(parsed') = Len(parsed) + 1
          /\ parsed'[Len(parsed) + 1] = e
          /\ \A i \in 1 .. Len(parsed) : parsed'[i] = parsed[i]
      BY <3>1
    <3> QED BY <1>4, <3>2 DEF Q, e
  <2>4. InTurn'
    BY <1>1, <1>4, <1>6, <2>3 DEF InTurn
  <2>5. pending' = <<>>
    BY <1>1, <1>2, <1>5, <1>9
  <2>6. Carried'
    <3>1. ~ (Len(parsed') < Len(sent'))
      BY <1>1, <1>6, <2>3
    <3>2. raw_http_request' \in Seq(Tokens) /\ pending' \in Seq(Tokens)
      BY <2>1, <2>5
    <3> QED BY <2>1, <2>5, <3>1, <3>2 DEF Carried
  <2>7. ParsedAsSent'
    <3>1. ASSUME NEW i \in 1 .. Len(sent)
          PROVE  parsed'[i] = AsParsed(sent[i])
      <4>1. i \in 1 .. Len(parsed) \/ i = Len(sent)
        BY <1>4, <1>6
      <4> QED BY <1>8, <2>3, <4>1 DEF r
    <3> QED BY <1>1, <1>6, <2>3, <3>1 DEF ParsedAsSent
  <2>8. wire' = Serialize(Respond(Found(AsParsed(r))))
    <3> DEFINE h == Found(AsParsed(r))
               w == Serialize(Respond(h))
    <3>1. h \in Handlers \cup {NotFoundHandler}
      BY FoundServed DEF HInv, Served
    <3> HIDE DEF h
    <3>2. w \in Seq(Tokens)
      BY <3>1, ResponseReadBack
    <3>3. wire' = <<>> \o w
      BY <1>4, <2>1 DEF h
    <3> HIDE DEF w
    <3>4. <<>> \o w = w
      BY <3>2
    <3> QED BY <3>3, <3>4 DEF w, h
  <2>9. Answering'
    <3>1. parsed'[Len(parsed')] = AsParsed(r)
      BY <2>3
    <3>2. Len(answers') # Len(parsed')
      BY <1>1, <1>4, <1>6, <2>3
    <3>3. wire' = Serialize(Respond(Found(parsed'[Len(parsed')])))
      BY <2>8, <3>1
    <3>4. routes' = routes
      BY <1>1
    <3> QED BY <3>2, <3>3, <3>4 DEF Answering, Found
  <2> QED BY <1>7, <2>4, <2>6, <2>7, <2>9 DEF HInv
<1>10. CASE ~ Complete(s)
  <2>1. raw_http_request' = s /\ UNCHANGED <<parsed, wire>>
    BY <1>1, <1>10
  <2>2. InTurn'
    BY <1>1, <2>1 DEF HInv, InTurn
  <2>3. Len(pending') > 0
    BY <1>1, <1>2, <1>3, <1>5, <1>10
  <2>4. Carried'
    <3>1. Len(parsed') # Len(sent') /\ sent'[Len(sent')] = r
      BY <1>1, <1>4, <1>6, <2>1 DEF r
    <3>2. raw_http_request' \o pending' = Text(r)
      BY <1>1, <1>5, <2>1
    <3>3. raw_http_request' \in Seq(Tokens) /\ pending' \in Seq(Tokens)
      BY <1>1, <1>5, <2>1
    <3> QED BY <2>3, <3>1, <3>2, <3>3 DEF Carried
  <2>5. ParsedAsSent'
    BY <1>1, <2>1 DEF HInv, ParsedAsSent
  <2>6. Answering'
    BY <1>1, <2>1, AnsweringKept DEF HInv
  <2> QED BY <1>7, <2>2, <2>4, <2>5, <2>6 DEF HInv
<1> QED
  BY <1>9, <1>10

(* The client reads the answer to its last request, and nothing stays on   *)
(* the wire.                                                               *)
LEMMA ReadGives ==
  ASSUME HInv, Read
  PROVE  LET h == Found(parsed[Len(parsed)])
         IN  /\ h \in Served
             /\ Len(parsed) > 0 /\ Len(sent) = Len(parsed) /\ Len(answers) + 1 = Len(parsed)
             /\ answers' = Append(answers, h)
             /\ wire' = <<>>
             /\ UNCHANGED <<routes, running, sent, pending, raw_http_request, parsed>>
<1> DEFINE h == Found(parsed[Len(parsed)])
           w == Serialize(Respond(h))
           n == Min(HeadLengths(w))
           head == SubSeq(w, 1, n)
<1>1. /\ sent \in Seq(Requests) /\ Len(sent) \in Nat /\ Len(parsed) \in Nat /\ Len(answers) \in Nat
      /\ Len(answers) <= Len(parsed) /\ Len(parsed) <= Len(sent) /\ Len(sent) <= Len(answers) + 1
  BY DEF HInv, InTurn
<1>2. wire # <<>>
  <2> SUFFICES ASSUME wire = <<>>
               PROVE  FALSE
    OBVIOUS
  <2>1. HeadLengths(wire) # {}
    BY DEF Read
  <2>2. 4 .. Len(wire) = {}
    OBVIOUS
  <2> QED BY <2>1, <2>2 DEF HeadLengths
<1>3. Len(answers) < Len(parsed)
  <2>1. Len(answers) = Len(parsed) => wire = <<>>
    BY DEF HInv, Answering
  <2> QED BY <1>1, <1>2, <2>1
<1>4. wire = w
  BY <1>3 DEF HInv, Answering
<1>5. h \in Handlers \cup {NotFoundHandler}
  BY FoundServed DEF HInv, Served
<1> HIDE DEF h
<1>6. /\ w \in Seq(Tokens)
      /\ n \in Nat /\ Len(w) = n + Len(h.text) /\ n > 0
      /\ \A m \in 0 .. Len(h.text) :
            ToString(m) = Field(head, "Content-Length") <=> m = Len(h.text)
      /\ h = [code |-> head[3], type |-> Field(head, "Content-Type"),
              text |-> SubSeq(w, n + 1, n + Len(h.text))]
  BY <1>5, ResponseReadBack
<1>7. Answer(h)
  BY <1>5, HandlersAnswer
<1>8. Len(h.text) \in Nat
  BY <1>7 DEF Answer
<1>9. PICK m \in 0 .. Len(wire) - n :
         /\ ToString(m) = Field(head, "Content-Length")
         /\ answers' = Append(answers, [code |-> head[3], type |-> Field(head, "Content-Type"),
                                        text |-> SubSeq(wire, n + 1, n + m)])
         /\ wire' = SubSeq(wire, n + m + 1, Len(wire))
  <2> DEFINE d == Min(HeadLengths(wire))
             front == SubSeq(wire, 1, d)
  <2>1. d = n /\ front = head
    BY <1>4
  <2>2. \E m \in 0 .. Len(wire) - d :
           /\ ToString(m) = Field(front, "Content-Length")
           /\ answers' = Append(answers, [code |-> front[3], type |-> Field(front, "Content-Type"),
                                          text |-> SubSeq(wire, d + 1, d + m)])
           /\ wire' = SubSeq(wire, d + m + 1, Len(wire))
    BY DEF Read
  <2> HIDE DEF w, n, head, d, front
  <2> QED BY <2>1, <2>2
<1>10. UNCHANGED <<routes, running, sent, pending, raw_http_request, parsed>>
  BY DEF Read
<1> HIDE DEF w, n, head
<1>11. m = Len(h.text)
  <2>1. Len(wire) - n = Len(h.text)
    BY <1>4, <1>6, <1>8
  <2>2. m \in 0 .. Len(h.text)
    BY <2>1
  <2> QED BY <1>6, <1>9, <2>2
<1>12. answers' = Append(answers, h)
  <2>1. [code |-> head[3], type |-> Field(head, "Content-Type"),
         text |-> SubSeq(wire, n + 1, n + m)] = h
    BY <1>4, <1>6, <1>11
  <2> QED BY <1>9, <2>1
<1>13. wire' = <<>>
  <2> DEFINE l == Len(w)
             f == n + m + 1
  <2>1. l \in Int /\ f \in Int /\ l < f
    BY <1>6, <1>8, <1>11
  <2>2. wire' = SubSeq(w, f, l)
    BY <1>4, <1>9
  <2> HIDE DEF l, f
  <2>3. SubSeq(w, f, l) = <<>>
    BY <2>1, SubSeqEmpty
  <2> QED BY <2>2, <2>3
<1>14. Len(parsed) > 0 /\ Len(sent) = Len(parsed) /\ Len(answers) + 1 = Len(parsed)
  BY <1>1, <1>3
<1> QED
  BY <1>5, <1>10, <1>12, <1>13, <1>14 DEF h, Served

LEMMA ReadStep ==
  ASSUME HInv, Read
  PROVE  HInv'
<1> DEFINE h == Found(parsed[Len(parsed)])
<1>1. /\ h \in Served
      /\ Len(parsed) > 0 /\ Len(sent) = Len(parsed) /\ Len(answers) + 1 = Len(parsed)
      /\ answers' = Append(answers, h)
      /\ wire' = <<>>
      /\ UNCHANGED <<routes, running, sent, pending, raw_http_request, parsed>>
  BY ReadGives
<1> HIDE DEF h
<1>2. /\ sent \in Seq(Requests) /\ Len(sent) \in Nat
      /\ parsed \in Seq({AsParsed(r) : r \in Requests}) /\ Len(parsed) \in Nat
      /\ answers \in Seq(Served) /\ Len(answers) \in Nat /\ running \in BOOLEAN
      /\ Len(sent) > 0 => running
  BY DEF HInv, InTurn
<1>3. answers' \in Seq(Served) /\ Len(answers') = Len(parsed)
  <2> DEFINE S == Served
  <2>1. answers \in Seq(S) /\ h \in S
    BY <1>1, <1>2
  <2> HIDE DEF S
  <2>2. answers' \in Seq(S) /\ Len(answers') = Len(answers) + 1
    BY <1>1, <2>1
  <2> QED BY <1>1, <2>2 DEF S
<1>4. InTurn'
  BY <1>1, <1>2, <1>3 DEF InTurn
<1>5. RouteTable' /\ Carried' /\ ParsedAsSent'
  BY <1>1 DEF HInv, RouteTable, Carried, ParsedAsSent
<1>6. Answering'
  <2>1. Len(answers') = Len(parsed') /\ Len(parsed') \in Nat
    BY <1>1, <1>2, <1>3
  <2> QED BY <1>1, <2>1 DEF Answering
<1> QED
  BY <1>4, <1>5, <1>6 DEF HInv

LEMMA StillStep ==
  ASSUME HInv, UNCHANGED vars
  PROVE  HInv'
<1>1. UNCHANGED <<routes, running, sent, pending, raw_http_request, parsed, wire, answers>>
  BY DEF vars
<1>2. RouteTable'
  BY <1>1 DEF HInv, RouteTable
<1>3. InTurn'
  BY <1>1 DEF HInv, InTurn
<1>4. Carried' /\ ParsedAsSent'
  BY <1>1 DEF HInv, Carried, ParsedAsSent
<1>5. Answering'
  BY <1>1, AnsweringKept DEF HInv
<1> QED
  BY <1>2, <1>3, <1>4, <1>5 DEF HInv

LEMMA RouteAdded ==
  ASSUME NEW p \in Paths, NEW h \in Handlers, Get(p, h) \/ Post(p, h)
  PROVE  \E k \in Keys : addRoute(k[1], k[2], h)
<1>1. <<<<"GET">>, p>> \in Keys /\ <<<<"POST">>, p>> \in Keys
  BY DEF Keys
<1>2. CASE Get(p, h)
  <2> DEFINE k == <<<<"GET">>, p>>
  <2>1. k[1] = <<"GET">> /\ k[2] = p /\ k \in Keys
    BY <1>1
  <2>2. addRoute(<<"GET">>, p, h)
    BY <1>2 DEF Get
  <2> HIDE DEF k
  <2> QED BY <2>1, <2>2
<1>3. CASE Post(p, h)
  <2> DEFINE k == <<<<"POST">>, p>>
  <2>1. k[1] = <<"POST">> /\ k[2] = p /\ k \in Keys
    BY <1>1
  <2>2. addRoute(<<"POST">>, p, h)
    BY <1>3 DEF Post
  <2> HIDE DEF k
  <2> QED BY <2>1, <2>2
<1> QED
  BY <1>2, <1>3

LEMMA Inductive ==
  Spec => []HInv
<1>1. Init => HInv
  BY InitHolds
<1>2. HInv /\ [Next]_vars => HInv'
  <2> SUFFICES ASSUME HInv, [Next]_vars
               PROVE  HInv'
    OBVIOUS
  <2>1. ASSUME NEW p \in Paths, NEW h \in Handlers, Get(p, h) \/ Post(p, h)
        PROVE  HInv'
    <3>1. PICK k \in Keys : addRoute(k[1], k[2], h)
      BY <2>1, RouteAdded
    <3> QED BY <3>1, AddRouteStep
  <2>2. ASSUME Run
        PROVE  HInv'
    BY <2>2, RunStep
  <2>3. ASSUME NEW r \in Requests, Send(r)
        PROVE  HInv'
    BY <2>3, SendStep
  <2>4. ASSUME NEW n \in 1 .. MaxPacket, Packet(n)
        PROVE  HInv'
    BY <2>4, PacketStep
  <2>5. ASSUME Read
        PROVE  HInv'
    BY <2>5, ReadStep
  <2>6. ASSUME UNCHANGED vars
        PROVE  HInv'
    BY <2>6, StillStep
  <2> QED BY <2>1, <2>2, <2>3, <2>4, <2>5, <2>6 DEF Next
<1> QED
  BY <1>1, <1>2, PTL DEF Spec

(* Every variable has the values the code gives it, for every application  *)
(* and every client: routes only for keys that Engine::Get and Post build, *)
(* and an answer on the way exactly while one request is parsed and not    *)
(* answered; what the client reads is always the answer of a handler       *)
(* (http_server.h, Router.cpp:6-17, http_message.cpp:13-22).               *)
THEOREM TypesHold ==
  Spec => []TypeOK
<1>1. HInv => TypeOK
  <2> SUFFICES ASSUME HInv
               PROVE  TypeOK
    OBVIOUS
  <2>1. /\ running \in BOOLEAN /\ sent \in Seq(Requests) /\ answers \in Seq(Served)
        /\ Len(answers) \in Nat /\ Len(parsed) \in Nat /\ Len(answers) <= Len(parsed)
    BY DEF HInv, InTurn
  <2>2. Range(sent) \subseteq Requests
    BY <2>1 DEF Range
  <2>3. Range(answers) \subseteq Handlers \cup {NotFoundHandler}
    <3> DEFINE S == Served
    <3> HIDE DEF S
    <3>1. answers \in Seq(S)
      BY <2>1 DEF S
    <3>2. Range(answers) \subseteq S
      BY <3>1 DEF Range
    <3> QED BY <3>2 DEF S, Served
  <2>4. wire = <<>> <=> Len(answers) = Len(parsed)
    <3>1. CASE Len(answers) = Len(parsed)
      BY <3>1 DEF HInv, Answering
    <3>2. CASE Len(answers) < Len(parsed)
      <4> DEFINE h == Found(parsed[Len(parsed)])
                 w == Serialize(Respond(h))
                 n == Min(HeadLengths(w))
      <4>1. h \in Handlers \cup {NotFoundHandler}
        BY FoundServed DEF HInv, Served
      <4>2. wire = w
        BY <3>2 DEF HInv, Answering
      <4> HIDE DEF h
      <4>3. w \in Seq(Tokens) /\ n \in Nat /\ n > 0 /\ Len(w) = n + Len(h.text)
        BY <4>1, ResponseReadBack
      <4>4. Len(h.text) \in Nat
        BY <4>1, HandlersAnswer DEF Answer
      <4> HIDE DEF w, n
      <4>5. Len(w) > 0
        BY <4>3, <4>4
      <4> QED BY <3>2, <4>2, <4>3, <4>5, <2>1
    <3> QED BY <2>1, <3>1, <3>2
  <2>5. RouteTable
    BY DEF HInv
  <2> QED BY <2>1, <2>2, <2>3, <2>4, <2>5 DEF TypeOK, RouteTable
<1> QED
  BY <1>1, Inductive, PTL

(* The engine is given the requests as they were sent, each once and in    *)
(* order, for every client whose requests are well-formed and wherever     *)
(* packets cut them (http_parser.cpp:71-102).                              *)
THEOREM RequestsArrive ==
  Spec => []ParsedAsSent
<1>1. HInv => ParsedAsSent
  BY DEF HInv
<1> QED
  BY <1>1, Inductive, PTL

-----------------------------------------------------------------------------
(* The exchange implements the service. *)

LEMMA RegisteredAre ==
  ASSUME RouteTable
  PROVE  /\ DOMAIN Registered = {k \in Keys : RouteKey(k[1], k[2]) \in DOMAIN routes}
         /\ \A k \in DOMAIN Registered : Registered[k] = routes[RouteKey(k[1], k[2])]
BY DEF Registered

(* The handler that the router finds is the one registered for the method  *)
(* and the path.                                                           *)
LEMMA FoundRegistered ==
  ASSUME RouteTable, NEW r \in Requests
  PROVE  Found(AsParsed(r)) = IF KeyOf(r) \in DOMAIN Registered
                              THEN Registered[KeyOf(r)] ELSE NotFoundHandler
<1> DEFINE key == RouteKey(r.method, r.url)
           k == KeyOf(r)
<1>1. Found(AsParsed(r)) = IF key \in DOMAIN routes THEN routes[key] ELSE NotFoundHandler
  BY DEF Found, AsParsed
<1>2. k[1] = r.method /\ k[2] = r.url
  BY DEF KeyOf
<1>3. \A j \in Keys : key = RouteKey(j[1], j[2]) => j = k
  BY RequestsAssumption, KeysOfRequest
<1>4. k \in DOMAIN Registered <=> key \in DOMAIN routes
  <2>1. CASE key \in DOMAIN routes
    <3>1. PICK j \in Keys : key = RouteKey(j[1], j[2])
      BY <2>1 DEF RouteTable
    <3>2. j = k
      BY <1>3, <3>1
    <3>3. k \in Keys /\ RouteKey(k[1], k[2]) \in DOMAIN routes
      BY <1>2, <2>1, <3>1, <3>2
    <3> HIDE DEF k, key
    <3> QED BY <2>1, <3>3, RegisteredAre
  <2>2. CASE key \notin DOMAIN routes
    <3>1. RouteKey(k[1], k[2]) \notin DOMAIN routes
      BY <1>2, <2>2
    <3> HIDE DEF k, key
    <3> QED BY <2>2, <3>1, RegisteredAre
  <2> QED BY <2>1, <2>2
<1>5. k \in DOMAIN Registered => Registered[k] = routes[key]
  BY <1>2, RegisteredAre
<1> QED
  BY <1>1, <1>4, <1>5

LEMMA RegisterStep ==
  ASSUME HInv, NEW k \in Keys, NEW h \in Handlers, addRoute(k[1], k[2], h)
  PROVE  Registered' = [j \in DOMAIN Registered \cup {k} |-> IF j = k THEN h ELSE Registered[j]]
<1> DEFINE key == RouteKey(k[1], k[2])
           K(j) == RouteKey(j[1], j[2])
<1>1. routes' = [j \in DOMAIN routes \cup {key} |-> IF j = key THEN h ELSE routes[j]]
  BY DEF addRoute
<1>2. RouteTable
  BY DEF HInv
<1>3. \A j \in Keys : K(j) = key => j = k
  BY KeysOfRoutes
<1>4. K(k) = key
  OBVIOUS
<1>5. Registered' = [j \in {i \in Keys : K(i) \in DOMAIN routes'} |-> routes'[K(j)]]
  BY DEF Registered
<1>6. /\ DOMAIN Registered = {j \in Keys : K(j) \in DOMAIN routes}
      /\ \A j \in DOMAIN Registered : Registered[j] = routes[K(j)]
  BY <1>2, RegisteredAre
<1>7. DOMAIN routes' = DOMAIN routes \cup {key}
  BY <1>1
<1> DEFINE D == {i \in Keys : K(i) \in DOMAIN routes'}
<1> HIDE DEF key, K
<1>8. D = DOMAIN Registered \cup {k}
  BY <1>3, <1>4, <1>6, <1>7
<1>9. ASSUME NEW j \in D
      PROVE  routes'[K(j)] = IF j = k THEN h ELSE Registered[j]
  <2>1. j \in Keys /\ K(j) \in DOMAIN routes \cup {key}
    BY <1>7
  <2>2. routes'[K(j)] = IF K(j) = key THEN h ELSE routes[K(j)]
    BY <1>1, <2>1
  <2>3. K(j) = key <=> j = k
    BY <1>3, <1>4, <2>1
  <2>4. j # k => Registered[j] = routes[K(j)]
    BY <1>6, <1>8
  <2> QED BY <2>2, <2>3, <2>4
<1>10. Registered' = [j \in D |-> routes'[K(j)]]
  BY <1>5
<1> HIDE DEF D
<1> QED
  BY <1>8, <1>9, <1>10

(* What the exchange says of the service without the fairness.             *)
ServiceSafety == Service!Init /\ [][Service!Next]_(Service!vars)

LEMMA ServiceInit ==
  ASSUME Init
  PROVE  Service!Init
<1>1. /\ DOMAIN routes = {} /\ running = FALSE /\ sent = <<>> /\ answers = <<>>
  BY DEF Init
<1>2. {k \in Keys : RouteKey(k[1], k[2]) \in DOMAIN routes} = {}
  BY <1>1
<1>3. Registered = [k \in {} |-> CHOOSE h \in Handlers : TRUE]
  BY <1>2 DEF Registered
<1> QED
  BY <1>1, <1>3 DEF Service!Init

(* A step of the exchange is a step of the service or leaves it alone.     *)
LEMMA ServiceStep ==
  ASSUME HInv, [Next]_vars
  PROVE  [Service!Next]_(Service!vars)
<1>1. ASSUME NEW p \in Paths, NEW h \in Handlers, Get(p, h) \/ Post(p, h)
      PROVE  Service!Next
  <2>1. PICK k \in Keys : addRoute(k[1], k[2], h)
    BY <1>1, RouteAdded
  <2>2. Registered' = [j \in DOMAIN Registered \cup {k} |-> IF j = k THEN h ELSE Registered[j]]
    BY <2>1, RegisterStep
  <2>3. ~ running /\ UNCHANGED <<running, sent, answers>>
    BY <2>1 DEF addRoute
  <2>4. Service!Register(k, h)
    BY <2>2, <2>3 DEF Service!Register
  <2> QED BY <2>4 DEF Service!Next
<1>2. ASSUME Run
      PROVE  Service!Next
  <2>1. ~ running /\ running' = TRUE /\ UNCHANGED <<routes, sent, answers>>
    BY <1>2 DEF Run
  <2>2. Registered' = Registered
    BY <2>1 DEF Registered
  <2>3. Service!Run
    BY <2>1, <2>2 DEF Service!Run
  <2> QED BY <2>3 DEF Service!Next
<1>3. ASSUME NEW r \in Requests, Send(r)
      PROVE  Service!Next
  <2>1. /\ running /\ Len(sent) = Len(answers) /\ Len(sent) < MaxRequests
        /\ sent' = Append(sent, r) /\ UNCHANGED <<routes, running, answers>>
    BY <1>3 DEF Send
  <2>2. Registered' = Registered
    BY <2>1 DEF Registered
  <2>3. Service!Ask(r)
    BY <2>1, <2>2 DEF Service!Ask
  <2> QED BY <2>3 DEF Service!Next
<1>4. ASSUME NEW n \in 1 .. MaxPacket, Packet(n)
      PROVE  UNCHANGED Service!vars
  <2>1. UNCHANGED <<routes, running, sent, answers>>
    BY <1>4 DEF Packet
  <2>2. Registered' = Registered
    BY <2>1 DEF Registered
  <2> QED BY <2>1, <2>2 DEF Service!vars
<1>5. ASSUME Read
      PROVE  Service!Next
  <2> DEFINE i == Len(answers) + 1
             r == sent[i]
             h == Found(parsed[Len(parsed)])
             k == KeyOf(r)
  <2>1. /\ Len(sent) = Len(parsed) /\ i = Len(parsed)
        /\ answers' = Append(answers, h)
        /\ UNCHANGED <<routes, running, sent, pending, raw_http_request, parsed>>
    BY <1>5, ReadGives
  <2>2. sent \in Seq(Requests) /\ Len(sent) \in Nat /\ Len(answers) \in Nat
    BY DEF HInv, InTurn
  <2>3. i \in 1 .. Len(sent) /\ i \in 1 .. Len(parsed) /\ Len(answers) < Len(sent)
    BY <2>1, <2>2
  <2>4. r \in Requests /\ parsed[Len(parsed)] = AsParsed(r)
    <3>1. r \in Requests
      BY <2>2, <2>3
    <3>2. parsed[i] = AsParsed(sent[i])
      BY <2>3 DEF HInv, ParsedAsSent
    <3> QED BY <2>1, <3>1, <3>2
  <2>5. h = IF k \in DOMAIN Registered THEN Registered[k] ELSE NotFoundHandler
    <3>1. RouteTable
      BY DEF HInv
    <3>2. h = Found(AsParsed(r))
      BY <2>4
    <3> HIDE DEF h, r
    <3> QED BY <2>4, <3>1, <3>2, FoundRegistered
  <2>6. Registered' = Registered
    BY <2>1 DEF Registered
  <2>7. answers' = Append(answers, IF k \in DOMAIN Registered THEN Registered[k] ELSE NotFoundHandler)
    <3> HIDE DEF h, k
    <3> QED BY <2>1, <2>5
  <2>8. Service!Reply
    BY <2>1, <2>3, <2>6, <2>7 DEF Service!Reply
  <2> QED BY <2>8 DEF Service!Next
<1>6. ASSUME UNCHANGED vars
      PROVE  UNCHANGED Service!vars
  BY <1>6 DEF vars, Service!vars, Registered
<1> QED
  BY <1>1, <1>2, <1>3, <1>4, <1>5, <1>6 DEF Next

(* The exchange answers as the service does: each request once, in order,  *)
(* by the handler registered last for its method and its path, or by 404   *)
(* (Router.cpp:6-17, Context.h:37-60, http_message.cpp:13-22).  That every *)
(* request is answered at last needs the fairness, and stays with TLC.     *)
THEOREM AnswersAsTheService ==
  Spec => ServiceSafety
<1>1. Init => Service!Init
  BY ServiceInit
<1>2. HInv /\ [Next]_vars => [Service!Next]_(Service!vars)
  BY ServiceStep
<1> QED
  BY <1>1, <1>2, Inductive, PTL DEF Spec, ServiceSafety
=============================================================================
