---------------------------- MODULE SamplesProofs ----------------------------
(***************************************************************************)
(* Proofs about Samples, for all finite sets of texts and tokens, any      *)
(* files, dictionaries and number of reloads.                              *)
(*                                                                         *)
(* CountersInv is inductive on any storage engine: the counters of the     *)
(* classifier count the samples learned, because learning one text more    *)
(* adds its share to what learning all of them counts (LearnOneMore), and  *)
(* unlearning it takes the same share out.  StoreInv is inductive where an *)
(* open cursor makes writes fail: from its first row on a reload holds the *)
(* store as it read it (Held).                                             *)
(***************************************************************************)
EXTENDS Samples, FiniteSetTheorems, TLAPS

----------------------------------------------------------------------------
(* Learning and unlearning count.                                          *)

Naturals4 ==
    [all  : Nat,
     docs : [Classes -> Nat],
     freq : [Classes -> Nat],
     res  : [Tokens \X Classes -> Nat]]

(* The counts are numbers.                                                 *)
LEMMA LearnAllType ==
    ASSUME IsFiniteSet(Tokens), NEW D, IsFiniteSet(D), NEW tokens
    PROVE  LearnAll(D, tokens) \in Naturals4
  <1>1. Cardinality(D) \in Nat
    BY FS_CardinalityType
  <1>2. ASSUME NEW k \in Classes PROVE Cardinality({d \in D : d[1] = k}) \in Nat
    <2>1. {d \in D : d[1] = k} \in SUBSET D
      OBVIOUS
    <2> QED BY <2>1, FS_Subset, FS_CardinalityType
  <1>3. ASSUME NEW k \in Classes
        PROVE  Cardinality({x \in D \X Tokens : x[1][1] = k /\ x[2] \in tokens[x[1][2]]}) \in Nat
    <2>1. IsFiniteSet(D \X Tokens)
      BY FS_Product
    <2>2. {x \in D \X Tokens : x[1][1] = k /\ x[2] \in tokens[x[1][2]]} \in SUBSET (D \X Tokens)
      OBVIOUS
    <2> QED BY <2>1, <2>2, FS_Subset, FS_CardinalityType
  <1>4. ASSUME NEW x \in Tokens \X Classes
        PROVE  Cardinality({d \in D : d[1] = x[2] /\ x[1] \in tokens[d[2]]}) \in Nat
    <2>1. {d \in D : d[1] = x[2] /\ x[1] \in tokens[d[2]]} \in SUBSET D
      OBVIOUS
    <2> QED BY <2>1, FS_Subset, FS_CardinalityType
  <1> QED
    BY <1>1, <1>2, <1>3, <1>4 DEF LearnAll, Naturals4

(* A document more counts one document of its class, and each of its       *)
(* tokens once: what learn does document by document.                      *)
LEMMA LearnOneMore ==
    ASSUME IsFiniteSet(Tokens), NEW D, IsFiniteSet(D), NEW d, d \notin D, NEW tokens,
           d[1] \in Classes, tokens[d[2]] \in SUBSET Tokens
    PROVE  LearnAll(D \union {d}, tokens) = Learn(LearnAll(D, tokens), d[1], tokens[d[2]])
  <1> DEFINE k == d[1]
             T == tokens[d[2]]
             E == D \union {d}
             Docs(S, j) == {x \in S : x[1] = j}
             Freq(S, j) == {x \in S \X Tokens : x[1][1] = j /\ x[2] \in tokens[x[1][2]]}
             Res(S, y) == {x \in S : x[1] = y[2] /\ y[1] \in tokens[x[2]]}
  <1>1. Cardinality(E) = Cardinality(D) + 1
    BY FS_AddElement
  <1>2. ASSUME NEW j \in Classes
        PROVE  Cardinality(Docs(E, j)) = IF j = k THEN Cardinality(Docs(D, j)) + 1 ELSE Cardinality(Docs(D, j))
    <2>1. Docs(D, j) \in SUBSET D
      OBVIOUS
    <2>2. IsFiniteSet(Docs(D, j)) /\ d \notin Docs(D, j)
      BY <2>1, FS_Subset
    <2>3. CASE j = k
      <3>1. Docs(E, j) = Docs(D, j) \union {d}
        BY <2>3
      <3>2. Cardinality(Docs(D, j) \union {d}) = Cardinality(Docs(D, j)) + 1
        BY <2>2, FS_AddElement
      <3> QED BY <2>3, <3>1, <3>2
    <2>4. CASE j # k
      <3>1. Docs(E, j) = Docs(D, j)
        BY <2>4
      <3> QED BY <2>4, <3>1
    <2> QED BY <2>3, <2>4
  <1>3. ASSUME NEW j \in Classes
        PROVE  Cardinality(Freq(E, j)) =
                 IF j = k THEN Cardinality(Freq(D, j)) + 1 * Cardinality(T) ELSE Cardinality(Freq(D, j))
    <2>1. IsFiniteSet(D \X Tokens)
      BY FS_Product
    <2>2. Freq(D, j) \in SUBSET (D \X Tokens)
      OBVIOUS
    <2>3. IsFiniteSet(Freq(D, j))
      BY <2>1, <2>2, FS_Subset
    <2>4. CASE j = k
      <3> DEFINE N == {d} \X T
      <3>1. Freq(E, j) = Freq(D, j) \union N
        <4>1. ASSUME NEW x \in Freq(E, j) PROVE x \in Freq(D, j) \union N
          OBVIOUS
        <4>2. ASSUME NEW x \in Freq(D, j) PROVE x \in Freq(E, j)
          OBVIOUS
        <4>3. ASSUME NEW x \in N PROVE x \in Freq(E, j)
          BY <2>4
        <4> HIDE DEF Freq, N
        <4> QED BY <4>1, <4>2, <4>3
      <3>2. Freq(D, j) \cap N = {}
        OBVIOUS
      <3>3. IsFiniteSet(T) /\ IsFiniteSet({d}) /\ Cardinality({d}) = 1
        BY FS_Subset, FS_Singleton
      <3>4. IsFiniteSet(N) /\ Cardinality(N) = 1 * Cardinality(T)
        BY <3>3, FS_Product
      <3>5. Cardinality(Freq(D, j) \union N) = Cardinality(Freq(D, j)) + Cardinality(N) - Cardinality(Freq(D, j) \cap N)
        <4> HIDE DEF Freq, N
        <4> QED BY <2>3, <3>4, FS_Union
      <3>6. Cardinality({}) = 0
        BY FS_EmptySet
      <3>7. Cardinality(Freq(D, j)) \in Nat /\ Cardinality(N) \in Nat
        BY <2>3, <3>4, FS_CardinalityType
      <3> HIDE DEF Freq, N
      <3>8. Cardinality(Freq(E, j)) = Cardinality(Freq(D, j)) + Cardinality(N)
        <4>1. Cardinality(Freq(D, j) \cap N) = 0
          BY <3>2, <3>6
        <4>2. Cardinality(Freq(D, j) \union N) = Cardinality(Freq(D, j)) + Cardinality(N)
          BY <3>5, <3>7, <4>1
        <4> QED BY <3>1, <4>2
      <3> QED BY <2>4, <3>4, <3>8
    <2>5. CASE j # k
      <3>1. Freq(E, j) = Freq(D, j)
        <4>1. ASSUME NEW x \in Freq(E, j) PROVE x \in Freq(D, j)
          BY <2>5
        <4>2. ASSUME NEW x \in Freq(D, j) PROVE x \in Freq(E, j)
          OBVIOUS
        <4> HIDE DEF Freq
        <4> QED BY <4>1, <4>2
      <3> QED BY <2>5, <3>1
    <2> QED BY <2>4, <2>5
  <1>4. ASSUME NEW y \in Tokens \X Classes
        PROVE  Cardinality(Res(E, y)) =
                 IF y[1] \in T /\ y[2] = k THEN Cardinality(Res(D, y)) + 1 ELSE Cardinality(Res(D, y))
    <2>1. Res(D, y) \in SUBSET D
      OBVIOUS
    <2>2. IsFiniteSet(Res(D, y)) /\ d \notin Res(D, y)
      BY <2>1, FS_Subset
    <2>3. CASE y[1] \in T /\ y[2] = k
      <3>1. Res(E, y) = Res(D, y) \union {d}
        BY <2>3
      <3>2. Cardinality(Res(D, y) \union {d}) = Cardinality(Res(D, y)) + 1
        BY <2>2, FS_AddElement
      <3> QED BY <2>3, <3>1, <3>2
    <2>4. CASE ~(y[1] \in T /\ y[2] = k)
      <3>1. Res(E, y) = Res(D, y)
        BY <2>4
      <3> QED BY <2>4, <3>1
    <2> QED BY <2>3, <2>4
  <1>5. /\ LearnAll(E, tokens) = [all  |-> Cardinality(E),
                                  docs |-> [j \in Classes |-> Cardinality(Docs(E, j))],
                                  freq |-> [j \in Classes |-> Cardinality(Freq(E, j))],
                                  res  |-> [y \in Tokens \X Classes |-> Cardinality(Res(E, y))]]
        /\ LearnAll(D, tokens) = [all  |-> Cardinality(D),
                                  docs |-> [j \in Classes |-> Cardinality(Docs(D, j))],
                                  freq |-> [j \in Classes |-> Cardinality(Freq(D, j))],
                                  res  |-> [y \in Tokens \X Classes |-> Cardinality(Res(D, y))]]
    BY DEF LearnAll
  <1> DEFINE c == LearnAll(D, tokens)
  <1> HIDE DEF Docs, Freq, Res, E
  <1>6. /\ c.all = Cardinality(D)
        /\ c.docs = [j \in Classes |-> Cardinality(Docs(D, j))]
        /\ c.freq = [j \in Classes |-> Cardinality(Freq(D, j))]
        /\ c.res = [y \in Tokens \X Classes |-> Cardinality(Res(D, y))]
    BY <1>5
  <1> HIDE DEF c, T, k
  <1>7. [c.docs EXCEPT ![k] = @ + 1] = [j \in Classes |-> Cardinality(Docs(E, j))]
    BY <1>2, <1>6
  <1>8. [c.freq EXCEPT ![k] = @ + 1 * Cardinality(T)] = [j \in Classes |-> Cardinality(Freq(E, j))]
    BY <1>3, <1>6
  <1>9. [x \in Tokens \X Classes |-> IF x[1] \in T /\ x[2] = k THEN c.res[x] + 1 ELSE c.res[x]]
          = [y \in Tokens \X Classes |-> Cardinality(Res(E, y))]
    BY <1>4, <1>6
  <1>10. Learn(c, k, T) = LearnAll(E, tokens)
    BY <1>1, <1>5, <1>6, <1>7, <1>8, <1>9 DEF Learn, Shift
  <1> QED
    BY <1>10 DEF c, k, T, E

(* A class without documents has no frequency.                             *)
LEMMA NoDocsNoTokens ==
    ASSUME IsFiniteSet(Tokens), NEW D, IsFiniteSet(D), NEW tokens, NEW k \in Classes,
           LearnAll(D, tokens).docs[k] = 0
    PROVE  LearnAll(D, tokens).freq[k] = 0
  <1> DEFINE S == {d \in D : d[1] = k}
             F == {x \in D \X Tokens : x[1][1] = k /\ x[2] \in tokens[x[1][2]]}
  <1>1. LearnAll(D, tokens).docs[k] = Cardinality(S) /\ LearnAll(D, tokens).freq[k] = Cardinality(F)
    BY DEF LearnAll
  <1>2. IsFiniteSet(S)
    <2>1. S \in SUBSET D
      OBVIOUS
    <2> QED BY <2>1, FS_Subset
  <1>3. S = {}
    <2> HIDE DEF S, F
    <2> QED BY <1>1, <1>2, FS_EmptySet
  <1>4. F = {}
    BY <1>3
  <1>5. Cardinality({}) = 0
    BY FS_EmptySet
  <1> HIDE DEF S, F
  <1> QED
    BY <1>1, <1>4, <1>5

(* Taking out what was just learned gives back what was there before.      *)
LEMMA UnlearnLearned ==
    ASSUME IsFiniteSet(Tokens), NEW b \in Naturals4, NEW k \in Classes, NEW T \in SUBSET Tokens,
           b.docs[k] = 0 => b.freq[k] = 0
    PROVE  /\ Learn(b, k, T) \in Counters
           /\ Unlearnable(Learn(b, k, T), k, T)
           /\ Unlearn(Learn(b, k, T), k, T) = b
  <1> DEFINE c == Learn(b, k, T)
             n == Cardinality(T)
             l == Shift(c, k, T, -1)
  <1>1. n \in Nat
    BY FS_Subset, FS_CardinalityType
  <1>2. /\ b.all \in Nat /\ b.docs \in [Classes -> Nat] /\ b.freq \in [Classes -> Nat]
        /\ b.res \in [Tokens \X Classes -> Nat]
        /\ b = [all |-> b.all, docs |-> b.docs, freq |-> b.freq, res |-> b.res]
    BY DEF Naturals4
  <1>3. /\ c.all = b.all + 1
        /\ c.docs = [b.docs EXCEPT ![k] = @ + 1]
        /\ c.freq = [b.freq EXCEPT ![k] = @ + 1 * n]
        /\ c.res = [x \in Tokens \X Classes |-> IF x[1] \in T /\ x[2] = k THEN b.res[x] + 1 ELSE b.res[x]]
        /\ c = [all |-> c.all, docs |-> c.docs, freq |-> c.freq, res |-> c.res]
    BY DEF Learn, Shift
  <1> HIDE DEF c, n
  <1>4. /\ c.docs \in [Classes -> Nat] /\ c.docs[k] = b.docs[k] + 1
        /\ c.freq \in [Classes -> Nat] /\ c.freq[k] = b.freq[k] + n
        /\ c.res \in [Tokens \X Classes -> Nat]
        /\ \A t \in T : c.res[<<t, k>>] = b.res[<<t, k>>] + 1
    BY <1>1, <1>2, <1>3
  <1>5. c \in Counters
    BY <1>2, <1>3, <1>4 DEF Counters
  <1>6. Unlearnable(c, k, T)
    <2>1. c.all > 0 /\ c.docs[k] > 0
      BY <1>2, <1>3, <1>4
    <2>2. n <= c.freq[k]
      BY <1>1, <1>2, <1>4
    <2>3. \A t \in T : c.res[<<t, k>>] > 0
      BY <1>2, <1>4
    <2> QED BY <2>1, <2>2, <2>3 DEF Unlearnable, Removable, n
  <1>7. /\ l.all = c.all + (-1)
        /\ l.docs = [c.docs EXCEPT ![k] = @ + (-1)]
        /\ l.freq = [c.freq EXCEPT ![k] = @ + (-1) * n]
        /\ l.res = [x \in Tokens \X Classes |-> IF x[1] \in T /\ x[2] = k THEN c.res[x] + (-1) ELSE c.res[x]]
        /\ l = [all |-> l.all, docs |-> l.docs, freq |-> l.freq, res |-> l.res]
    BY DEF Shift, n
  <1> HIDE DEF l
  <1>8. (-1) * n = -n
    BY <1>1
  <1>9. l.all = b.all
    BY <1>2, <1>3, <1>7
  <1>10. l.docs = b.docs
    <2>1. \A j \in Classes : l.docs[j] = b.docs[j]
      BY <1>2, <1>3, <1>4, <1>7
    <2> QED BY <1>2, <1>4, <1>7, <2>1
  <1>11. l.freq = b.freq
    <2>1. \A j \in Classes : l.freq[j] = b.freq[j]
      BY <1>1, <1>2, <1>3, <1>4, <1>7, <1>8
    <2> QED BY <1>2, <1>4, <1>7, <2>1
  <1>12. l.res = b.res
    <2>1. \A x \in Tokens \X Classes : l.res[x] = b.res[x]
      BY <1>2, <1>3, <1>7
    <2> QED BY <1>2, <1>7, <2>1
  <1>13. l = b
    BY <1>2, <1>7, <1>9, <1>10, <1>11, <1>12
  <1>14. Unlearn(c, k, T) = [b EXCEPT !.freq[k] = IF b.docs[k] = 0 THEN 0 ELSE @]
    BY <1>13 DEF Unlearn, l
  <1>15. [b.freq EXCEPT ![k] = IF b.docs[k] = 0 THEN 0 ELSE @] = b.freq
    BY <1>2
  <1>16. Unlearn(c, k, T) = b
    BY <1>2, <1>14, <1>15
  <1> QED
    BY <1>5, <1>6, <1>16 DEF c

----------------------------------------------------------------------------
(* What a load counts.                                                     *)

Texts == [Classes -> [Messages -> Int]]

Once(docs, k, m) == [docs EXCEPT ![k][m] = @ + 1]

Less(docs, k, m) == [docs EXCEPT ![k][m] = @ - 1]

(* The texts counted one by one.                                           *)
LEMMA CopiesAre ==
    ASSUME SamplesConstants, NEW docs \in Texts
    PROVE  /\ \A d : d \in Copies(docs) <=>
                       \E k \in Classes, m \in Messages : \E i \in 1 .. docs[k][m] : d = <<k, m, i>>
           /\ IsFiniteSet(Copies(docs))
  <1> DEFINE Of(k, m) == {<<k, m, i>> : i \in 1 .. docs[k][m]}
             g == [x \in Classes \X Messages |-> Of(x[1], x[2])]
             G == {g[x] : x \in Classes \X Messages}
  <1>7. Copies(docs) = UNION G
    BY DEF Copies
  <1>1. \A d : d \in Copies(docs) <=>
                 \E k \in Classes, m \in Messages : \E i \in 1 .. docs[k][m] : d = <<k, m, i>>
    <2>1. ASSUME NEW d \in UNION G
          PROVE  \E k \in Classes, m \in Messages : \E i \in 1 .. docs[k][m] : d = <<k, m, i>>
      <3>1. PICK x \in Classes \X Messages : d \in Of(x[1], x[2])
        OBVIOUS
      <3> QED BY <3>1
    <2>2. ASSUME NEW k \in Classes, NEW m \in Messages, NEW i \in 1 .. docs[k][m]
          PROVE  <<k, m, i>> \in UNION G
      <3> DEFINE x == <<k, m>>
      <3>1. x \in Classes \X Messages /\ x[1] = k /\ x[2] = m
        OBVIOUS
      <3>2. <<k, m, i>> \in Of(k, m)
        OBVIOUS
      <3>3. g[x] = Of(k, m)
        BY <3>1
      <3>4. g[x] \in G
        BY <3>1
      <3> HIDE DEF G, g, Of
      <3> QED BY <3>2, <3>3, <3>4
    <2> HIDE DEF G
    <2> QED BY <1>7, <2>1, <2>2
  <1>2. ASSUME NEW k \in Classes, NEW m \in Messages PROVE IsFiniteSet(Of(k, m))
    <2> DEFINE n == docs[k][m]
               f == [i \in 1 .. n |-> <<k, m, i>>]
    <2>1. n \in Int
      BY DEF Texts
    <2> HIDE DEF n
    <2>2. IsFiniteSet(1 .. n)
      <3>1. 1 \in Int
        OBVIOUS
      <3> QED BY <2>1, <3>1, FS_Interval
    <2>3. f \in Surjection(1 .. n, Of(k, m))
      BY DEF Surjection, n
    <2> HIDE DEF f, Of
    <2> QED BY <2>2, <2>3, FS_Surjection
  <1>3. IsFiniteSet(Classes \X Messages)
    <2>1. IsFiniteSet(Classes)
      <3>1. Classes = {"spam"} \union {"ham"}
        BY DEF Classes
      <3>2. IsFiniteSet({"spam"}) /\ IsFiniteSet({"ham"})
        BY FS_Singleton
      <3> QED BY <3>1, <3>2, FS_Union
    <2>2. IsFiniteSet(Messages)
      BY DEF SamplesConstants
    <2> QED BY <2>1, <2>2, FS_Product
  <1>4. IsFiniteSet(G)
    <2>1. g \in Surjection(Classes \X Messages, G)
      <3> HIDE DEF Of
      <3> QED BY DEF Surjection
    <2> HIDE DEF g, G
    <2> QED BY <1>3, <2>1, FS_Surjection
  <1>5. \A S \in G : IsFiniteSet(S)
    <2> HIDE DEF Of
    <2> QED BY <1>2
  <1>6. IsFiniteSet(UNION G)
    <2> HIDE DEF G
    <2> QED BY <1>4, <1>5, FS_UNION
  <1> QED
    BY <1>1, <1>6, <1>7

(* One text more is one copy more.                                         *)
LEMMA OneCopyMore ==
    ASSUME SamplesConstants, NEW docs \in Texts, NEW k \in Classes, NEW m \in Messages,
           docs[k][m] \in Nat, NEW more, more = Once(docs, k, m)
    PROVE  /\ more \in Texts
           /\ <<k, m, docs[k][m] + 1>> \notin Copies(docs)
           /\ Copies(more) = Copies(docs) \union {<<k, m, docs[k][m] + 1>>}
  <1> DEFINE n == docs[k][m]
             d == <<k, m, n + 1>>
  <1>1. /\ more \in Texts
        /\ \A j \in Classes, x \in Messages : more[j][x] = IF j = k /\ x = m THEN n + 1 ELSE docs[j][x]
    BY DEF Texts, Once
  <1>2. \A e : e \in Copies(docs) <=>
                 \E j \in Classes, x \in Messages : \E i \in 1 .. docs[j][x] : e = <<j, x, i>>
    BY CopiesAre
  <1>3. \A e : e \in Copies(more) <=>
                 \E j \in Classes, x \in Messages : \E i \in 1 .. more[j][x] : e = <<j, x, i>>
    BY <1>1, CopiesAre
  <1>4. \A i : i \in 1 .. n + 1 <=> i \in 1 .. n \/ i = n + 1
    OBVIOUS
  <1>5. n + 1 \notin 1 .. n
    OBVIOUS
  <1>6. d \notin Copies(docs)
    BY <1>2, <1>5
  <1>7. ASSUME NEW e \in Copies(more) PROVE e \in Copies(docs) \union {d}
    <2>1. PICK j \in Classes, x \in Messages : \E i \in 1 .. more[j][x] : e = <<j, x, i>>
      BY <1>3
    <2>2. PICK i \in 1 .. more[j][x] : e = <<j, x, i>>
      BY <2>1
    <2>3. CASE j = k /\ x = m
      <3>1. i \in 1 .. n + 1
        BY <1>1, <2>3
      <3>2. i \in 1 .. n \/ i = n + 1
        BY <1>4, <3>1
      <3> QED BY <1>2, <2>2, <2>3, <3>2
    <2>4. CASE ~(j = k /\ x = m)
      <3>1. i \in 1 .. docs[j][x]
        BY <1>1, <2>4
      <3> QED BY <1>2, <2>2, <3>1
    <2> QED BY <2>3, <2>4
  <1>8. ASSUME NEW e \in Copies(docs) PROVE e \in Copies(more)
    <2>1. PICK j \in Classes, x \in Messages : \E i \in 1 .. docs[j][x] : e = <<j, x, i>>
      BY <1>2
    <2>2. PICK i \in 1 .. docs[j][x] : e = <<j, x, i>>
      BY <2>1
    <2>3. i \in 1 .. more[j][x]
      BY <1>1, <1>4
    <2> QED BY <1>3, <2>2, <2>3
  <1>9. d \in Copies(more)
    <2>1. more[k][m] = n + 1 /\ n + 1 \in 1 .. n + 1
      BY <1>1
    <2> QED BY <1>3, <2>1
  <1> HIDE DEF d
  <1>10. Copies(more) = Copies(docs) \union {d}
    BY <1>7, <1>8, <1>9
  <1> QED
    BY <1>1, <1>6, <1>10 DEF d

(* What is loaded are counts.                                              *)
LEMMA LoadedType ==
    ASSUME SamplesConstants, NEW docs \in Texts, NEW excl
    PROVE  /\ Loaded(docs, excl) \in Naturals4
           /\ Loaded(docs, excl) \in Counters
           /\ \A m \in Messages : Tokenize(m, excl) \in SUBSET Tokens
           /\ \A k \in Classes : Loaded(docs, excl).docs[k] = 0 => Loaded(docs, excl).freq[k] = 0
  <1> DEFINE tokens == [m \in Messages |-> Tokenize(m, excl)]
             D == Copies(docs)
  <1>1. IsFiniteSet(D) /\ IsFiniteSet(Tokens)
    BY CopiesAre DEF SamplesConstants
  <1>2. Loaded(docs, excl) = LearnAll(D, tokens)
    BY DEF Loaded
  <1>3. \A m \in Messages : Tokenize(m, excl) \in SUBSET Tokens
    BY DEF Tokenize, SamplesConstants
  <1> HIDE DEF D, tokens
  <1>4. LearnAll(D, tokens) \in Naturals4
    BY <1>1, LearnAllType
  <1>5. \A k \in Classes : LearnAll(D, tokens).docs[k] = 0 => LearnAll(D, tokens).freq[k] = 0
    BY <1>1, NoDocsNoTokens
  <1>6. ASSUME NEW c \in Naturals4 PROVE c \in Counters
    <2>1. /\ c.all \in Nat /\ c.docs \in [Classes -> Nat] /\ c.freq \in [Classes -> Nat]
          /\ c.res \in [Tokens \X Classes -> Nat]
          /\ c = [all |-> c.all, docs |-> c.docs, freq |-> c.freq, res |-> c.res]
      BY DEF Naturals4
    <2>2. /\ c.all \in Int /\ c.docs \in [Classes -> Int] /\ c.freq \in [Classes -> Int]
          /\ c.res \in [Tokens \X Classes -> Int]
      BY <2>1
    <2> QED BY <2>1, <2>2 DEF Counters
  <1> QED
    BY <1>2, <1>3, <1>4, <1>5, <1>6

(* To learn one text more is to load it along with the others.             *)
LEMMA LoadOneMore ==
    ASSUME SamplesConstants, NEW docs \in Texts, NEW k \in Classes, NEW m \in Messages, NEW excl,
           docs[k][m] \in Nat
    PROVE  Loaded(Once(docs, k, m), excl) = Learn(Loaded(docs, excl), k, Tokenize(m, excl))
  <1> DEFINE more == Once(docs, k, m)
             tokens == [x \in Messages |-> Tokenize(x, excl)]
             D == Copies(docs)
             d == <<k, m, docs[k][m] + 1>>
  <1>1. d \notin D /\ Copies(more) = D \union {d}
    BY OneCopyMore
  <1>2. d[1] = k /\ d[2] = m
    OBVIOUS
  <1>3. tokens[d[2]] = Tokenize(m, excl) /\ tokens[d[2]] \in SUBSET Tokens
    BY <1>2, LoadedType
  <1>4. IsFiniteSet(D) /\ IsFiniteSet(Tokens)
    BY CopiesAre DEF SamplesConstants
  <1>5. Loaded(docs, excl) = LearnAll(D, tokens) /\ Loaded(more, excl) = LearnAll(D \union {d}, tokens)
    BY <1>1 DEF Loaded
  <1> HIDE DEF D, d, tokens
  <1>6. LearnAll(D \union {d}, tokens) = Learn(LearnAll(D, tokens), d[1], tokens[d[2]])
    BY <1>1, <1>2, <1>3, <1>4, LearnOneMore
  <1> QED
    BY <1>2, <1>3, <1>5, <1>6

(* One text less, and back.                                                *)
LEMMA OneTextLess ==
    ASSUME NEW docs \in Texts, NEW k \in Classes, NEW m \in Messages, docs[k][m] \in Nat \ {0}
    PROVE  /\ Less(docs, k, m) \in Texts
           /\ Less(docs, k, m)[k][m] = docs[k][m] - 1
           /\ Once(Less(docs, k, m), k, m) = docs
  <1> DEFINE less == [docs EXCEPT ![k] = [docs[k] EXCEPT ![m] = docs[k][m] - 1]]
  <1>1. docs \in [Classes -> [Messages -> Int]] /\ docs[k] \in [Messages -> Int]
    BY DEF Texts
  <1>2. docs[k][m] - 1 \in Nat /\ docs[k][m] - 1 + 1 = docs[k][m] /\ docs[k][m] - 1 \in Int
    OBVIOUS
  <1>3. Less(docs, k, m) = less
    BY DEF Less
  <1>4. less[k] = [docs[k] EXCEPT ![m] = docs[k][m] - 1] /\ less[k][m] = docs[k][m] - 1
    BY <1>1
  <1>5. less \in Texts
    BY <1>1, <1>2 DEF Texts
  <1>6. [less[k] EXCEPT ![m] = less[k][m] + 1] = docs[k]
    <2>1. \A x \in Messages : [less[k] EXCEPT ![m] = less[k][m] + 1][x] = docs[k][x]
      BY <1>1, <1>2, <1>4
    <2> QED BY <1>1, <1>4, <2>1
  <1>7. [less EXCEPT ![k] = docs[k]] = docs
    BY <1>1
  <1>8. Once(less, k, m) = [less EXCEPT ![k] = [less[k] EXCEPT ![m] = less[k][m] + 1]]
    BY DEF Once
  <1> QED
    BY <1>3, <1>4, <1>5, <1>6, <1>7, <1>8

(* To unlearn one of the texts loaded is to load the others.               *)
LEMMA LoadOneLess ==
    ASSUME SamplesConstants, NEW docs \in Texts, NEW k \in Classes, NEW m \in Messages, NEW excl,
           docs[k][m] \in Nat \ {0}
    PROVE  /\ Unlearnable(Loaded(docs, excl), k, Tokenize(m, excl))
           /\ Unlearn(Loaded(docs, excl), k, Tokenize(m, excl)) = Loaded(Less(docs, k, m), excl)
           /\ Learn(Loaded(Less(docs, k, m), excl), k, Tokenize(m, excl)) = Loaded(docs, excl)
  <1>1. PICK less \in Texts : less = Less(docs, k, m) /\ less[k][m] = docs[k][m] - 1 /\ Once(less, k, m) = docs
    BY OneTextLess
  <1> DEFINE b == Loaded(less, excl)
             T == Tokenize(m, excl)
  <1>2. less[k][m] \in Nat
    BY <1>1
  <1>3. Loaded(Once(less, k, m), excl) = Learn(Loaded(less, excl), k, Tokenize(m, excl))
    BY <1>2, LoadOneMore
  <1>4. Loaded(docs, excl) = Learn(b, k, T)
    BY <1>1, <1>3
  <1>5. b \in Naturals4 /\ T \in SUBSET Tokens /\ (b.docs[k] = 0 => b.freq[k] = 0)
    BY LoadedType
  <1>6. IsFiniteSet(Tokens)
    BY DEF SamplesConstants
  <1> HIDE DEF b, T
  <1>7. Unlearnable(Learn(b, k, T), k, T) /\ Unlearn(Learn(b, k, T), k, T) = b
    BY <1>5, <1>6, UnlearnLearned
  <1> QED
    BY <1>1, <1>4, <1>7 DEF b, T

----------------------------------------------------------------------------
(* The types.                                                              *)

(* Every count stays a number, whatever is learned or unlearned, and       *)
(* wherever an unlearning stops.                                           *)
LEMMA ShiftType ==
    ASSUME IsFiniteSet(Tokens), NEW c \in Counters, NEW k \in Classes, NEW T \in SUBSET Tokens, NEW n \in Int
    PROVE  Shift(c, k, T, n) \in Counters
  <1>1. /\ c.all \in Int /\ c.docs \in [Classes -> Int] /\ c.freq \in [Classes -> Int]
        /\ c.res \in [Tokens \X Classes -> Int]
    BY DEF Counters
  <1>2. PICK t \in Int : t = n * Cardinality(T)
    <2>1. IsFiniteSet(T)
      BY FS_Subset
    <2>2. Cardinality(T) \in Nat
      BY <2>1, FS_CardinalityType
    <2> QED BY <2>2
  <1>3. [c.docs EXCEPT ![k] = @ + n] \in [Classes -> Int] /\ c.all + n \in Int
    BY <1>1
  <1>4. [c.freq EXCEPT ![k] = @ + t] \in [Classes -> Int]
    BY <1>1
  <1>5. [x \in Tokens \X Classes |-> IF x[1] \in T /\ x[2] = k THEN c.res[x] + n ELSE c.res[x]]
          \in [Tokens \X Classes -> Int]
    BY <1>1
  <1>6. Shift(c, k, T, n) =
          [all |-> c.all + n, docs |-> [c.docs EXCEPT ![k] = @ + n], freq |-> [c.freq EXCEPT ![k] = @ + t],
           res |-> [x \in Tokens \X Classes |-> IF x[1] \in T /\ x[2] = k THEN c.res[x] + n ELSE c.res[x]]]
    BY <1>2 DEF Shift
  <1> QED
    BY <1>3, <1>4, <1>5, <1>6 DEF Counters

LEMMA FrequencyType ==
    ASSUME NEW c \in Counters, NEW k \in Classes, NEW n \in Int
    PROVE  [c EXCEPT !.freq[k] = n] \in Counters
  <1>1. /\ c.all \in Int /\ c.docs \in [Classes -> Int] /\ c.freq \in [Classes -> Int]
        /\ c.res \in [Tokens \X Classes -> Int]
        /\ c = [all |-> c.all, docs |-> c.docs, freq |-> c.freq, res |-> c.res]
    BY DEF Counters
  <1>2. [c.freq EXCEPT ![k] = n] \in [Classes -> Int]
    BY <1>1
  <1>3. [c EXCEPT !.freq[k] = n] = [all |-> c.all, docs |-> c.docs, freq |-> [c.freq EXCEPT ![k] = n], res |-> c.res]
    BY <1>1
  <1> QED
    BY <1>1, <1>2, <1>3 DEF Counters

LEMMA LearnType ==
    ASSUME IsFiniteSet(Tokens), NEW c \in Counters, NEW k \in Classes, NEW T \in SUBSET Tokens
    PROVE  Learn(c, k, T) \in Counters /\ Unlearn(c, k, T) \in Counters
  <1>1. Learn(c, k, T) \in Counters
    BY ShiftType DEF Learn
  <1>2. PICK low \in Counters : low = Shift(c, k, T, -1)
    BY ShiftType
  <1>3. PICK n \in Int : n = IF low.docs[k] = 0 THEN 0 ELSE low.freq[k]
    BY DEF Counters
  <1>4. Unlearn(c, k, T) = [low EXCEPT !.freq[k] = n]
    BY <1>2, <1>3 DEF Unlearn
  <1> QED
    BY <1>1, <1>4, FrequencyType

LEMMA FailedUnlearnType ==
    ASSUME IsFiniteSet(Tokens), NEW c \in Counters, NEW k \in Classes, NEW T \in SUBSET Tokens,
           NEW e \in FailedUnlearn(c, k, T)
    PROVE  e \in Counters
  <1>1. CASE c.all = 0
    BY <1>1 DEF FailedUnlearn
  <1>2. CASE c.all # 0 /\ c.docs[k] = 0
    <2>1. e = [c EXCEPT !.all = @ - 1]
      BY <1>2 DEF FailedUnlearn
    <2> QED BY <2>1 DEF Counters
  <1>3. CASE c.all # 0 /\ c.docs[k] # 0
    <2>1. PICK S \in SUBSET T : e = Stuck(c, k, S)
      BY <1>3 DEF FailedUnlearn
    <2>2. PICK low \in Counters : low = Shift(c, k, S, -1)
      BY ShiftType
    <2>3. PICK n \in Int : n = IF low.freq[k] > 0 THEN low.freq[k] - 1 ELSE low.freq[k]
      BY DEF Counters
    <2>4. Stuck(c, k, S) = [low EXCEPT !.freq[k] = n]
      BY <2>2, <2>3 DEF Stuck
    <2> QED BY <2>1, <2>4, FrequencyType
  <1> QED
    BY <1>1, <1>2, <1>3

(* ReloadSamples goes from step to step.                                   *)
LEMMA AfterType == \A from \in DOMAIN After : After[from] \in DOMAIN After
  BY DEF After

LEMMA StepType ==
    ASSUME NEW r \in Reloaders, NEW from \in DOMAIN After, Step(r, from), pc \in [Reloaders -> DOMAIN After]
    PROVE  pc' \in [Reloaders -> DOMAIN After]
  <1>1. After[from] \in DOMAIN After
    BY AfterType
  <1> QED
    BY <1>1 DEF Step

(* A query counts the rows it finds.                                       *)
Counts == [Classes -> [Messages -> Nat]]

LEMMA CountsAre ==
    /\ None \in Counts
    /\ \A k \in Classes, m \in Messages : None[k][m] = 0
  BY DEF None, Counts

LEMMA StoredType ==
    ASSUME NEW rows
    PROVE  Stored(rows) \in Counts
  BY DEF Stored, Counts

LEMMA QueryType ==
    ASSUME NEW r \in Reloaders, NEW step, NEW k \in Classes, NEW o, ReadSamples(r, step, k, o),
           read \in [Reloaders -> Counts]
    PROVE  read' \in [Reloaders -> Counts]
  <1>1. PICK f : f = [m \in Messages |-> IF samples[m] = [type |-> k, origin |-> o]
                                         THEN read[r][k][m] + 1 ELSE read[r][k][m]]
    OBVIOUS
  <1>2. read[r] \in Counts /\ read[r][k] \in [Messages -> Nat]
    BY DEF Counts
  <1>3. f \in [Messages -> Nat]
    BY <1>1, <1>2
  <1>4. read' = [read EXCEPT ![r] = [read[r] EXCEPT ![k] = f]]
    BY <1>1 DEF ReadSamples
  <1>5. [read[r] EXCEPT ![k] = f] \in Counts
    BY <1>2, <1>3 DEF Counts
  <1> QED
    BY <1>4, <1>5

(* An import keeps one row per text, and the words of the dictionary apart *)
(* by type.                                                                *)
Tables == [Messages -> Rows \union {NoRow}]

LEMMA RowsAre ==
    /\ SampleFiles[1].row \in Rows /\ SampleFiles[2].row \in Rows
    /\ SampleFiles[3].row \in Rows /\ SampleFiles[4].row \in Rows
  BY DEF SampleFiles, Rows, Classes

LEMMA ImportType ==
    ASSUME NEW rows \in Tables, NEW row \in Rows, NEW texts
    PROVE  Import(rows, row, texts) \in Tables
  BY DEF Import, Tables

LEMMA MigratedType ==
    ASSUME NEW rows \in Tables, NEW files
    PROVE  Migrated(rows, files) \in Tables
  <1> DEFINE after(t, f) == IF f.name \in files THEN Import(t, f.row, Content[f.name]) ELSE t
  <1>1. ASSUME NEW t \in Tables, NEW f, f.row \in Rows PROVE after(t, f) \in Tables
    BY <1>1, ImportType
  <1> HIDE DEF after
  <1>2. after(rows, SampleFiles[1]) \in Tables
    BY <1>1, RowsAre
  <1>3. after(after(rows, SampleFiles[1]), SampleFiles[2]) \in Tables
    BY <1>1, <1>2, RowsAre
  <1>4. after(after(after(rows, SampleFiles[1]), SampleFiles[2]), SampleFiles[3]) \in Tables
    BY <1>1, <1>3, RowsAre
  <1>5. after(after(after(after(rows, SampleFiles[1]), SampleFiles[2]), SampleFiles[3]), SampleFiles[4]) \in Tables
    BY <1>1, <1>4, RowsAre
  <1> QED
    BY <1>5 DEF Migrated, after

LEMMA MigrateDictsType ==
    ASSUME SamplesConstants, NEW files, MigrateDicts(files), ignoredWords \in SUBSET Words, stopPhrases \in SUBSET Words
    PROVE  ignoredWords' \in SUBSET Words /\ stopPhrases' \in SUBSET Words /\ ignoredWords' \intersect stopPhrases' = {}
  BY DEF MigrateDicts, SamplesConstants

LEMMA TokenizedType ==
    ASSUME SamplesConstants, NEW docs, NEW excl
    PROVE  TokenizedSpam(docs, excl) \in SUBSET SUBSET Tokens /\ \A m \in Messages : Tokenize(m, excl) \in SUBSET Tokens
  BY DEF TokenizedSpam, Tokenize, SamplesConstants

----------------------------------------------------------------------------
(* TypeOK and CountersInv, action by action.                               *)

LEMMA TypesFirst ==
    ASSUME SamplesConstants, Init
    PROVE  TypeOK
  <1>1. PICK rows \in Tables : rows = [m \in Messages |-> NoRow]
    BY DEF Tables
  <1>2. samples \in Tables
    BY <1>1, MigratedType DEF Init
  <1>3. learned \in Counts /\ None \in Counts
    BY StoredType, CountsAre DEF Init
  <1>4. learned \in Texts
    BY <1>3 DEF Texts, Counts
  <1>5. classifier \in Counters
    BY <1>4, LoadedType DEF Init
  <1>6. tokenizedSpam \in SUBSET SUBSET Tokens
    BY TokenizedType DEF Init
  <1>7. learned \in [Classes -> [Messages -> Int]] /\ read \in [Reloaders -> [Classes -> [Messages -> Nat]]]
    BY <1>3, <1>4 DEF Texts, Counts, Init
  <1>8. pc \in [Reloaders -> DOMAIN After]
    BY DEF Init, After
  <1>9. /\ ignoredWords = {} /\ stopPhrases = {} /\ excludedTokens = {} /\ stopWords = {}
        /\ readIgnored \in [Reloaders -> SUBSET Words] /\ readPhrases \in [Reloaders -> SUBSET Words]
        /\ spoiled \in BOOLEAN /\ reloadFailed \in BOOLEAN
    BY DEF Init
  <1> QED
    BY <1>2, <1>5, <1>6, <1>7, <1>8, <1>9 DEF TypeOK, Tables

LEMMA TypesRestart ==
    ASSUME SamplesConstants, TypeOK, NEW files, Restart(files)
    PROVE  TypeOK'
  <1>1. samples \in Tables
    BY DEF TypeOK, Tables
  <1>2. samples' \in Tables
    BY <1>1, MigratedType DEF Restart
  <1>3. learned' \in Counts /\ None \in Counts
    BY StoredType, CountsAre DEF Restart
  <1>4. learned' \in Texts
    BY <1>3 DEF Texts, Counts
  <1>5. classifier' = Loaded(learned', ignoredWords')
    BY DEF Restart
  <1>6. classifier' \in Counters
    <2>1. PICK docs \in Texts, excl \in {ignoredWords'} : docs = learned'
      BY <1>4
    <2>2. Loaded(docs, excl) \in Counters
      BY LoadedType
    <2> QED BY <1>5, <2>1, <2>2
  <1>7. tokenizedSpam' \in SUBSET SUBSET Tokens
    <2>1. PICK docs, excl : tokenizedSpam' = TokenizedSpam(docs, excl)
      BY DEF Restart
    <2> QED BY <2>1, TokenizedType
  <1>8. learned' \in [Classes -> [Messages -> Int]] /\ read' \in [Reloaders -> [Classes -> [Messages -> Nat]]]
    BY <1>3, <1>4 DEF Texts, Counts, Restart
  <1>9. pc' \in [Reloaders -> DOMAIN After]
    BY DEF Restart, After
  <1>10. ignoredWords' \in SUBSET Words /\ stopPhrases' \in SUBSET Words /\ ignoredWords' \intersect stopPhrases' = {}
    BY MigrateDictsType DEF TypeOK, Restart
  <1>11. /\ excludedTokens' = ignoredWords' /\ stopWords' = stopPhrases'
         /\ readIgnored' \in [Reloaders -> SUBSET Words] /\ readPhrases' \in [Reloaders -> SUBSET Words]
         /\ spoiled' \in BOOLEAN /\ reloadFailed' \in BOOLEAN
    BY DEF Restart
  <1> QED
    BY <1>2, <1>6, <1>7, <1>8, <1>9, <1>10, <1>11 DEF TypeOK, Tables

(* The classifier of a training is made of counts, and so is the history.  *)
LEMMA TypesTrain ==
    ASSUME SamplesConstants, TypeOK, NEW k \in Classes, NEW m \in Messages,
           UpdateSample(k, m) \/ RemoveSample(k, m) \/ RemoveNotStored(k, m) \/ RemoveNotUnlearned(k, m)
    PROVE  TypeOK'
  <1>1. PICK T \in SUBSET Tokens : T = Doc(m)
    BY DEF Doc, Tokenize, SamplesConstants
  <1>2. classifier \in Counters /\ IsFiniteSet(Tokens)
    BY DEF TypeOK, SamplesConstants
  <1>3. Learn(classifier, k, T) \in Counters /\ Unlearn(classifier, k, T) \in Counters
    BY <1>2, LearnType
  <1>4. Learn(Unlearn(classifier, k, T), k, T) \in Counters
    BY <1>2, <1>3, LearnType
  <1>5. \A e \in FailedUnlearn(classifier, k, T) : e \in Counters
    BY <1>2, FailedUnlearnType
  <1>6. classifier' \in Counters
    BY <1>1, <1>3, <1>4, <1>5 DEF UpdateSample, RemoveSample, RemoveNotStored, RemoveNotUnlearned
  <1>7. samples' \in [Messages -> Rows \union {NoRow}]
    <2>1. samples \in [Messages -> Rows \union {NoRow}] /\ [type |-> k, origin |-> "user"] \in Rows
      BY DEF TypeOK, Rows
    <2> QED BY <2>1 DEF UpdateSample, RemoveSample, RemoveNotStored, RemoveNotUnlearned
  <1>8. learned' \in [Classes -> [Messages -> Int]]
    <2>1. learned \in [Classes -> [Messages -> Int]] /\ learned[k] \in [Messages -> Int] /\ learned[k][m] \in Int
      BY DEF TypeOK
    <2>2. \A n \in Int : [learned EXCEPT ![k] = [learned[k] EXCEPT ![m] = n]] \in [Classes -> [Messages -> Int]]
      BY <2>1
    <2>3. learned[k][m] + 1 \in Int /\ learned[k][m] - 1 \in Int
      BY <2>1
    <2>4. \/ learned' = learned
          \/ learned' = [learned EXCEPT ![k] = [learned[k] EXCEPT ![m] = learned[k][m] + 1]]
          \/ learned' = [learned EXCEPT ![k] = [learned[k] EXCEPT ![m] = learned[k][m] - 1]]
      BY DEF UpdateSample, RemoveSample, RemoveNotStored, RemoveNotUnlearned
    <2> QED BY <2>1, <2>2, <2>3, <2>4
  <1>9. tokenizedSpam' \in SUBSET SUBSET Tokens
    BY <1>1 DEF TypeOK, UpdateSample, RemoveSample, RemoveNotStored, RemoveNotUnlearned, Removal
  <1>10. spoiled' \in BOOLEAN
    BY DEF TypeOK, UpdateSample, RemoveSample, RemoveNotStored, RemoveNotUnlearned, Removal
  <1>11. UNCHANGED <<ignoredWords, stopPhrases, lists, reload>>
    BY DEF UpdateSample, RemoveSample, RemoveNotStored, RemoveNotUnlearned, Removal
  <1> QED
    BY <1>6, <1>7, <1>8, <1>9, <1>10, <1>11 DEF TypeOK, lists, reload

LEMMA TypesRequest ==
    ASSUME SamplesConstants, TypeOK, NEW r \in Reloaders, Request(r)
    PROVE  TypeOK'
  <1>1. "idle" \in DOMAIN After
    BY DEF After
  <1>2. Step(r, "idle")
    BY DEF Request, Reload, AddDictionaryEntry, DeleteDictionaryEntry
  <1>3. pc' \in [Reloaders -> DOMAIN After]
    BY <1>1, <1>2, StepType DEF TypeOK
  <1>4. CASE Reload(r)
    BY <1>3, <1>4 DEF TypeOK, Reload, store, detector, lists
  <1>5. ASSUME NEW w \in Words, AddDictionaryEntry(r, w) PROVE TypeOK'
    <2>1. UNCHANGED <<samples, detector, read, readIgnored, readPhrases, history>>
      BY <1>5 DEF AddDictionaryEntry
    <2>2. ignoredWords' \in SUBSET Words /\ stopPhrases' \in SUBSET Words /\ ignoredWords' \intersect stopPhrases' = {}
      BY <1>5 DEF AddDictionaryEntry, TypeOK
    <2> QED BY <1>3, <2>1, <2>2 DEF TypeOK, detector, lists, history
  <1>6. ASSUME NEW w \in Words, DeleteDictionaryEntry(r, w) PROVE TypeOK'
    <2>1. UNCHANGED <<samples, detector, read, readIgnored, readPhrases, history>>
      BY <1>6 DEF DeleteDictionaryEntry
    <2>2. ignoredWords' \in SUBSET Words /\ stopPhrases' \in SUBSET Words /\ ignoredWords' \intersect stopPhrases' = {}
      BY <1>6 DEF DeleteDictionaryEntry, TypeOK
    <2> QED BY <1>3, <2>1, <2>2 DEF TypeOK, detector, lists, history
  <1> QED
    BY <1>4, <1>5, <1>6 DEF Request

(* The queries of a reload, and everything else it does before it loads.   *)
LEMMA TypesRead ==
    ASSUME SamplesConstants, TypeOK, NEW r \in Reloaders, NEW step \in DOMAIN After, NEW k \in Classes, NEW o,
           ReadSamples(r, step, k, o)
    PROVE  TypeOK'
  <1>1. pc' \in [Reloaders -> DOMAIN After]
    BY StepType DEF TypeOK, ReadSamples
  <1>2. read' \in [Reloaders -> Counts]
    BY QueryType DEF TypeOK, Counts
  <1>3. UNCHANGED <<store, detector, readIgnored, readPhrases, history>>
    BY DEF ReadSamples
  <1> QED
    BY <1>1, <1>2, <1>3 DEF TypeOK, Counts, store, detector, lists, history

LEMMA TypesLoad ==
    ASSUME SamplesConstants, TypeOK, NEW r \in Reloaders, LoadSamples(r)
    PROVE  TypeOK'
  <1>1. pc' \in [Reloaders -> DOMAIN After]
    <2>1. "load" \in DOMAIN After
      BY DEF After
    <2> QED BY <2>1, StepType DEF TypeOK, LoadSamples
  <1>2. read[r] \in Texts /\ read[r] \in Counts /\ None \in Counts
    BY CountsAre DEF TypeOK, Texts, Counts
  <1>3. PICK docs \in Texts, excl \in SUBSET Words : docs = read[r] /\ excl = readIgnored[r]
    BY <1>2 DEF TypeOK
  <1>4. Loaded(docs, excl) \in Counters /\ TokenizedSpam(docs, excl) \in SUBSET SUBSET Tokens
    BY LoadedType, TokenizedType
  <1>5. classifier' \in Counters /\ tokenizedSpam' \in SUBSET SUBSET Tokens /\ excludedTokens' \in SUBSET Words
    BY <1>3, <1>4 DEF LoadSamples
  <1>6. learned' \in Texts /\ read' \in [Reloaders -> Counts] /\ readIgnored' \in [Reloaders -> SUBSET Words] /\ spoiled' = FALSE
    BY <1>2 DEF LoadSamples, TypeOK, Counts
  <1>7. UNCHANGED <<store, stopWords, readPhrases, reloadFailed>>
    BY DEF LoadSamples
  <1> QED
    BY <1>1, <1>5, <1>6, <1>7 DEF TypeOK, Texts, Counts, store

LEMMA TypesReload ==
    ASSUME SamplesConstants, TypeOK, NEW r \in Reloaders, ReloadSamples(r)
    PROVE  TypeOK'
  <1> DEFINE Q(step) == step \in DOMAIN After
  <1>1. /\ Q("stats") /\ Q("presetSpam") /\ Q("presetHam") /\ Q("userSpam") /\ Q("userHam")
        /\ Q("stopWords") /\ Q("excluded") /\ Q("load") /\ Q("loadStopWords") /\ Q("idle")
    BY DEF After
  <1>2. CASE CheckStats(r)
    <2>1. pc' \in [Reloaders -> DOMAIN After]
      BY <1>1, <1>2, StepType DEF TypeOK, CheckStats
    <2> QED BY <1>2, <2>1 DEF TypeOK, CheckStats, store, detector, lists, history
  <1>3. CASE \/ ReadSamples(r, "presetSpam", "spam", "preset") \/ ReadSamples(r, "presetHam", "ham", "preset")
             \/ ReadSamples(r, "userSpam", "spam", "user") \/ ReadSamples(r, "userHam", "ham", "user")
    <2>1. PICK step \in DOMAIN After, k \in Classes, o \in {"preset", "user"} : ReadSamples(r, step, k, o)
      BY <1>1, <1>3 DEF Classes
    <2> QED BY <2>1, TypesRead
  <1>4. CASE ReadStopWords(r)
    <2>1. pc' \in [Reloaders -> DOMAIN After]
      BY <1>1, <1>4, StepType DEF TypeOK, ReadStopWords
    <2> QED BY <1>4, <2>1 DEF TypeOK, ReadStopWords, store, detector, lists, history
  <1>5. CASE ReadExcluded(r)
    <2>1. pc' \in [Reloaders -> DOMAIN After]
      BY <1>1, <1>5, StepType DEF TypeOK, ReadExcluded
    <2> QED BY <1>5, <2>1 DEF TypeOK, ReadExcluded, store, detector, lists, history
  <1>6. CASE LoadSamples(r)
    BY <1>6, TypesLoad
  <1>7. CASE LoadStopWords(r)
    <2>1. pc' \in [Reloaders -> DOMAIN After]
      BY <1>1, <1>7, StepType DEF TypeOK, LoadStopWords
    <2> QED BY <1>7, <2>1 DEF TypeOK, LoadStopWords, store, history
  <1>8. CASE ReloadFails(r)
    <2>1. read' \in [Reloaders -> Counts] /\ pc' \in [Reloaders -> DOMAIN After]
      BY <1>1, <1>8, CountsAre DEF TypeOK, ReloadFails, Counts
    <2>2. readIgnored' \in [Reloaders -> SUBSET Words] /\ readPhrases' \in [Reloaders -> SUBSET Words] /\ reloadFailed' = TRUE
      BY <1>8 DEF TypeOK, ReloadFails
    <2>3. UNCHANGED <<store, detector, learned, spoiled>>
      BY <1>8 DEF ReloadFails
    <2> QED BY <2>1, <2>2, <2>3 DEF TypeOK, Counts, store, detector, lists
  <1> QED
    BY <1>2, <1>3, <1>4, <1>5, <1>6, <1>7, <1>8 DEF ReloadSamples

(* Type correctness, for any files, dictionaries and number of reloads.    *)
LEMMA TypesNext ==
    ASSUME SamplesConstants, TypeOK, [Next]_vars
    PROVE  TypeOK'
  <1>1. CASE Train
    <2>1. PICK k \in Classes, m \in Submitted :
            UpdateSample(k, m) \/ RemoveSample(k, m) \/ RemoveNotStored(k, m) \/ RemoveNotUnlearned(k, m)
      BY <1>1 DEF Train
    <2>2. m \in Messages
      BY DEF SamplesConstants
    <2> QED BY <2>1, <2>2, TypesTrain
  <1>2. CASE \E files \in Migrations : Restart(files)
    BY <1>2, TypesRestart
  <1>3. CASE \E r \in Reloaders : Request(r) \/ ReloadSamples(r)
    BY <1>3, TypesRequest, TypesReload
  <1>4. CASE UNCHANGED vars
    BY <1>4 DEF vars, store, detector, lists, reload, TypeOK
  <1> QED
    BY <1>1, <1>2, <1>3, <1>4 DEF Next

(* The counters after a training are those of the texts learned after it.  *)
LEMMA CountersTrain ==
    ASSUME SamplesConstants, CountersInv, NEW k \in Classes, NEW m \in Messages,
           UpdateSample(k, m) \/ RemoveSample(k, m) \/ RemoveNotStored(k, m) \/ RemoveNotUnlearned(k, m)
    PROVE  spoiled' \/ (learned' \in Counts /\ classifier' = Loaded(learned', excludedTokens'))
  <1> SUFFICES ASSUME ~spoiled' PROVE learned' \in Counts /\ classifier' = Loaded(learned', excludedTokens')
    OBVIOUS
  <1>1. ~spoiled /\ excludedTokens' = excludedTokens
    BY DEF UpdateSample, RemoveSample, RemoveNotStored, RemoveNotUnlearned, Removal, lists
  <1>2. PICK docs \in Counts : docs = learned
    BY <1>1 DEF CountersInv, Counts
  <1>3. docs \in Texts /\ docs[k][m] \in Nat
    BY DEF Counts, Texts
  <1>4. PICK excl : excl = excludedTokens
    OBVIOUS
  <1>5. classifier = Loaded(docs, excl) /\ Doc(m) = Tokenize(m, excl)
    BY <1>1, <1>2, <1>4 DEF CountersInv, ClassifierExact, Doc
  <1>6. CASE UpdateSample(k, m)
    <2>1. Loaded(Once(docs, k, m), excl) = Learn(Loaded(docs, excl), k, Tokenize(m, excl))
      BY <1>3, LoadOneMore
    <2>2. learned' = Once(docs, k, m) /\ classifier' = Learn(classifier, k, Doc(m))
      BY <1>2, <1>6 DEF UpdateSample, Once
    <2>3. Once(docs, k, m) \in Counts
      BY DEF Once, Counts
    <2> QED BY <1>1, <1>4, <1>5, <2>1, <2>2, <2>3
  <1>7. CASE RemoveSample(k, m) \/ RemoveNotStored(k, m) \/ RemoveNotUnlearned(k, m)
    <2>1. docs[k][m] \in Nat \ {0}
      BY <1>2, <1>3, <1>7 DEF RemoveSample, RemoveNotStored, RemoveNotUnlearned, Removal
    <2>2. Unlearnable(Loaded(docs, excl), k, Tokenize(m, excl))
      BY <1>3, <2>1, LoadOneLess
    <2>3. Unlearn(Loaded(docs, excl), k, Tokenize(m, excl)) = Loaded(Less(docs, k, m), excl)
      BY <1>3, <2>1, LoadOneLess
    <2>4. Learn(Loaded(Less(docs, k, m), excl), k, Tokenize(m, excl)) = Loaded(docs, excl)
      BY <1>3, <2>1, LoadOneLess
    <2>5. CASE RemoveSample(k, m)
      <3>1. learned' = Less(docs, k, m) /\ classifier' = Unlearn(classifier, k, Doc(m))
        BY <1>2, <2>5 DEF RemoveSample, Less
      <3>2. Less(docs, k, m) \in Counts
        <4>1. docs[k][m] - 1 \in Nat /\ docs[k] \in [Messages -> Nat]
          BY <2>1 DEF Counts
        <4>2. Less(docs, k, m) = [docs EXCEPT ![k] = [docs[k] EXCEPT ![m] = docs[k][m] - 1]]
          BY DEF Less
        <4>3. [docs[k] EXCEPT ![m] = docs[k][m] - 1] \in [Messages -> Nat]
          BY <4>1
        <4> QED BY <4>2, <4>3 DEF Counts
      <3> QED BY <1>1, <1>4, <1>5, <2>3, <3>1, <3>2
    <2>6. CASE RemoveNotStored(k, m)
      <3>1. learned' = docs /\ classifier' = Learn(Unlearn(classifier, k, Doc(m)), k, Doc(m))
        BY <1>2, <2>6 DEF RemoveNotStored
      <3> QED BY <1>1, <1>4, <1>5, <2>3, <2>4, <3>1
    <2>7. CASE RemoveNotUnlearned(k, m)
      BY <1>5, <2>2, <2>7 DEF RemoveNotUnlearned
    <2> QED BY <1>7, <2>5, <2>6, <2>7
  <1> QED
    BY <1>6, <1>7

(* ReloadSamples and a start load what they count as learned; nothing else *)
(* touches the classifier.                                                 *)
LEMMA CountersNext ==
    ASSUME SamplesConstants, CountersInv, [Next]_vars
    PROVE  CountersInv'
  <1>1. TypeOK /\ TypeOK'
    BY TypesNext DEF CountersInv
  <1>2. CASE Train
    <2>1. PICK k \in Classes, m \in Submitted :
            UpdateSample(k, m) \/ RemoveSample(k, m) \/ RemoveNotStored(k, m) \/ RemoveNotUnlearned(k, m)
      BY <1>2 DEF Train
    <2>2. m \in Messages
      BY DEF SamplesConstants
    <2>3. spoiled' \/ (learned' \in Counts /\ classifier' = Loaded(learned', excludedTokens'))
      BY <2>1, <2>2, CountersTrain
    <2> QED BY <1>1, <2>3 DEF CountersInv, Counts, ClassifierExact
  <1>3. ASSUME NEW files, Restart(files) PROVE CountersInv'
    <2>1. learned' \in Counts
      BY <1>3, StoredType DEF Restart
    <2>2. classifier' = Loaded(learned', excludedTokens')
      BY <1>3 DEF Restart
    <2> QED BY <1>1, <2>1, <2>2 DEF CountersInv, Counts, ClassifierExact
  <1>4. ASSUME NEW r \in Reloaders, LoadSamples(r) PROVE CountersInv'
    <2>1. learned' \in Counts
      BY <1>1, <1>4 DEF LoadSamples, TypeOK, Counts
    <2>2. classifier' = Loaded(learned', excludedTokens')
      BY <1>4 DEF LoadSamples
    <2> QED BY <1>1, <2>1, <2>2 DEF CountersInv, Counts, ClassifierExact
  <1>5. ASSUME UNCHANGED <<learned, spoiled, classifier, excludedTokens>> PROVE CountersInv'
    BY <1>1, <1>5 DEF CountersInv, ClassifierExact
  <1>6. ASSUME NEW r \in Reloaders, Request(r) PROVE UNCHANGED <<learned, spoiled, classifier, excludedTokens>>
    BY <1>6 DEF Request, Reload, AddDictionaryEntry, DeleteDictionaryEntry, detector, lists, history
  <1>7. ASSUME NEW r \in Reloaders, ReloadSamples(r), ~LoadSamples(r)
        PROVE  UNCHANGED <<learned, spoiled, classifier, excludedTokens>>
    BY <1>7 DEF ReloadSamples, CheckStats, ReadSamples, ReadStopWords, ReadExcluded, LoadStopWords, ReloadFails,
                detector, lists, history
  <1>8. CASE UNCHANGED vars
    BY <1>5, <1>8 DEF vars, detector, lists
  <1> QED
    BY <1>2, <1>3, <1>4, <1>5, <1>6, <1>7, <1>8 DEF Next

LEMMA CountersAlways == Spec => []CountersInv
  <1>1. Init => CountersInv
    <2> SUFFICES ASSUME Init PROVE CountersInv
      OBVIOUS
    <2>1. TypeOK
      BY SamplesConstants, TypesFirst
    <2>2. learned \in Counts
      BY StoredType DEF Init
    <2>3. classifier = Loaded(learned, excludedTokens)
      BY DEF Init
    <2> QED BY <2>1, <2>2, <2>3 DEF CountersInv, Counts, ClassifierExact
  <1>2. CountersInv /\ [Next]_vars => CountersInv'
    BY SamplesConstants, CountersNext
  <1> QED
    BY <1>1, <1>2, PTL DEF Spec

(* Type correctness, with the dictionary's words of one type each, for any *)
(* files, dictionaries, storage engine and number of reloads.              *)
THEOREM TypeCorrect == Spec => []TypeOK
  <1>1. CountersInv => TypeOK
    BY DEF CountersInv
  <1> QED
    BY <1>1, CountersAlways, PTL

(* On any storage engine, the classifier counts exactly the samples        *)
(* learned and not unlearned, in the tokens that are not excluded now,     *)
(* until an admin removes a text that was not learned: learn, unlearn, the *)
(* relearning after a failed removal and LoadSamples agree on every count. *)
THEOREM CountersExact == Spec => []ClassifierExact
  <1>1. CountersInv => ClassifierExact
    BY DEF CountersInv
  <1> QED
    BY <1>1, CountersAlways, PTL

----------------------------------------------------------------------------
(* StoreInv: what a reload has read is what the store holds until it is    *)
(* loaded.                                                                 *)

Queries == {"presetSpam", "presetHam", "userSpam", "userHam"}

\* A reload that has made the queries of the presets and has not loaded.
Late == {"userSpam", "userHam", "stopWords", "excluded", "load"}

(* A step later in the reload has passed the queries before it.            *)
LEMMA LaterSteps ==
    /\ \A q \in Queries : {"stopWords", "excluded", "load"} \subseteq Later[q] /\ q \in DOMAIN After
    /\ \A q \in Queries, s \in Queries : After[s] \in Later[q] /\ q # s => s \in Later[q]
    /\ \A q \in Queries, s \in {"idle", "stats", "presetSpam", "loadStopWords"} : s \notin Later[q]
    /\ Later["userSpam"] \subseteq Late /\ Later["userHam"] \subseteq Late
    /\ Late \subseteq Later["presetSpam"] /\ Late \subseteq Later["presetHam"]
  BY DEF Later, After, Queries, Late

LEMMA QueryOfRow ==
    ASSUME NEW row \in Rows
    PROVE  /\ Query(row) \in Queries /\ row # NoRow
           /\ row.origin = "preset" => Query(row) \in {"presetSpam", "presetHam"}
           /\ row.origin = "user" => Query(row) \in {"userSpam", "userHam"}
           /\ Query(row) = "presetSpam" => row = [type |-> "spam", origin |-> "preset"]
           /\ Query(row) = "presetHam" => row = [type |-> "ham", origin |-> "preset"]
           /\ Query(row) = "userSpam" => row = [type |-> "spam", origin |-> "user"]
           /\ Query(row) = "userHam" => row = [type |-> "ham", origin |-> "user"]
  BY DEF Query, Queries, Rows, Classes, NoRow

(* A reload past the queries of the presets has their rows, and with them  *)
(* the cursor that makes every write fail.                                 *)
LEMMA Held ==
    ASSUME TypeOK, PresetStays, ReadsCurrent, ReadersBlockWriters, ~WritersBlocked, NEW r \in Reloaders
    PROVE  pc[r] \notin Late
  <1> SUFFICES ASSUME pc[r] \in Late PROVE FALSE
    OBVIOUS
  <1>1. PICK m \in Messages, k \in Classes : samples[m] = [type |-> k, origin |-> "preset"]
    BY DEF PresetStays
  <1>2. samples[m] \in Rows /\ samples[m].origin = "preset" /\ samples[m].type = k
    BY <1>1 DEF Rows
  <1>3. samples[m] # NoRow /\ Query(samples[m]) \in {"presetSpam", "presetHam"}
    BY <1>2, QueryOfRow
  <1>4. pc[r] \in Later[Query(samples[m])]
    BY <1>3, LaterSteps
  <1>5. read[r][k][m] > 0
    BY <1>2, <1>3, <1>4 DEF ReadsCurrent
  <1>6. read[r] # None
    BY <1>5, CountsAre
  <1> QED
    BY <1>6 DEF WritersBlocked

(* The presets of a table are those of the files.                          *)
PresetRows(rows) ==
    \A m \in Messages, k \in Classes : rows[m] = [type |-> k, origin |-> "preset"] => m \in PresetTexts[k]

LEMMA ImportPresets ==
    ASSUME NEW rows \in Tables, PresetRows(rows), NEW row \in Rows, NEW texts,
           \A k \in Classes : row = [type |-> k, origin |-> "preset"] => texts = PresetTexts[k]
    PROVE  PresetRows(Import(rows, row, texts))
  <1>1. PICK t : t = Import(rows, row, texts)
    OBVIOUS
  <1>2. \A m \in Messages : t[m] = IF m \in texts THEN row ELSE IF rows[m] = row THEN NoRow ELSE rows[m]
    BY <1>1 DEF Import
  <1>3. ASSUME NEW m \in Messages, NEW k \in Classes, t[m] = [type |-> k, origin |-> "preset"]
        PROVE  m \in PresetTexts[k]
    <2>1. t[m] # NoRow
      BY <1>3 DEF NoRow
    <2>2. CASE m \in texts
      BY <1>2, <1>3, <2>2
    <2>3. CASE m \notin texts
      BY <1>2, <1>3, <2>1, <2>3 DEF PresetRows
    <2> QED BY <2>2, <2>3
  <1> QED
    BY <1>1, <1>3 DEF PresetRows

LEMMA FilesArePresets ==
    /\ \A k \in Classes : SampleFiles[1].row = [type |-> k, origin |-> "preset"]
                            => Content[SampleFiles[1].name] = PresetTexts[k]
    /\ \A k \in Classes : SampleFiles[2].row = [type |-> k, origin |-> "preset"]
                            => Content[SampleFiles[2].name] = PresetTexts[k]
    /\ \A k \in Classes : SampleFiles[3].row # [type |-> k, origin |-> "preset"]
    /\ \A k \in Classes : SampleFiles[4].row # [type |-> k, origin |-> "preset"]
  BY DEF SampleFiles, PresetTexts, Classes

LEMMA MigratedPresets ==
    ASSUME NEW rows \in Tables, PresetRows(rows), NEW files
    PROVE  PresetRows(Migrated(rows, files))
  <1> DEFINE after(t, f) == IF f.name \in files THEN Import(t, f.row, Content[f.name]) ELSE t
             Fine(t) == t \in Tables /\ PresetRows(t)
  <1>1. ASSUME NEW t, Fine(t), NEW f, f.row \in Rows,
               \A k \in Classes : f.row = [type |-> k, origin |-> "preset"] => Content[f.name] = PresetTexts[k]
        PROVE  Fine(after(t, f))
    BY <1>1, ImportType, ImportPresets
  <1>2. Fine(rows)
    OBVIOUS
  <1> HIDE DEF after, Fine
  <1>3. Fine(after(rows, SampleFiles[1]))
    BY <1>1, <1>2, RowsAre, FilesArePresets
  <1>4. Fine(after(after(rows, SampleFiles[1]), SampleFiles[2]))
    BY <1>1, <1>3, RowsAre, FilesArePresets
  <1>5. Fine(after(after(after(rows, SampleFiles[1]), SampleFiles[2]), SampleFiles[3]))
    BY <1>1, <1>4, RowsAre, FilesArePresets
  <1>6. Fine(after(after(after(after(rows, SampleFiles[1]), SampleFiles[2]), SampleFiles[3]), SampleFiles[4]))
    BY <1>1, <1>5, RowsAre, FilesArePresets
  <1> QED
    BY <1>6 DEF Migrated, after, Fine

(* The first start leaves the presets of both classes.                     *)
LEMMA FirstPresets ==
    ASSUME SamplesConstants, Init
    PROVE  PresetsPresent /\ PresetRows(samples)
  <1>1. PICK empty \in Tables : empty = [m \in Messages |-> NoRow]
    BY DEF Tables
  <1>2. PresetRows(empty)
    BY <1>1 DEF PresetRows, NoRow
  <1>3. PresetRows(samples)
    BY <1>1, <1>2, MigratedPresets DEF Init
  <1>4. samples = Import(Import(empty, [type |-> "spam", origin |-> "preset"], Content["spam-samples"]),
                         [type |-> "ham", origin |-> "preset"], Content["ham-samples"])
    BY <1>1 DEF Init, Migrated, SampleFiles
  <1>5. PICK s \in Content["spam-samples"], h \in Content["ham-samples"] : TRUE
    BY DEF SamplesConstants
  <1>6. s \in Messages /\ h \in Messages /\ s \notin Content["ham-samples"]
    BY DEF SamplesConstants, SampleFiles
  <1>7. samples[s] = [type |-> "spam", origin |-> "preset"] /\ samples[h] = [type |-> "ham", origin |-> "preset"]
    BY <1>4, <1>5, <1>6 DEF Import
  <1> QED
    BY <1>3, <1>6, <1>7 DEF PresetsPresent, Classes

LEMMA PresetKept ==
    ASSUME SamplesConstants, PresetsKept, NEW rows, PresetRows(rows),
           \A k \in Classes : \E m \in Messages : rows[m] = [type |-> k, origin |-> "preset"]
    PROVE  \E m \in Messages \ Submitted, k \in Classes : rows[m] = [type |-> k, origin |-> "preset"]
  <1>1. PICK k \in Classes : PresetTexts[k] \intersect Submitted = {}
    BY DEF PresetsKept
  <1>2. PICK m \in Messages : rows[m] = [type |-> k, origin |-> "preset"]
    OBVIOUS
  <1>3. m \notin Submitted
    BY <1>1, <1>2 DEF PresetRows
  <1> QED
    BY <1>2, <1>3

(* A load puts every spam sample it counts in the similarity check.        *)
LEMMA LoadedSimilar ==
    ASSUME NEW docs, NEW excl, NEW m \in Messages, docs["spam"][m] > 0
    PROVE  Tokenize(m, excl) \in TokenizedSpam(docs, excl)
  BY DEF TokenizedSpam

LEMMA StoredCounts ==
    ASSUME NEW rows \in Tables, NEW m \in Messages, rows[m] # NoRow
    PROVE  Stored(rows)[rows[m].type][m] > 0 /\ rows[m].type \in Classes
  <1>1. rows[m] \in Rows /\ rows[m].type \in Classes
    BY DEF Tables, Rows
  <1> QED
    BY <1>1 DEF Stored

(* A start: everything is read from the store before anything else runs.   *)
LEMMA StoreStart ==
    ASSUME NEW rows \in Tables, NEW ignored, NEW m \in Messages,
           rows[m].type = "spam"
    PROVE  Tokenize(m, ignored) \in TokenizedSpam(Stored(rows), ignored)
  <1>1. rows[m] # NoRow
    BY DEF NoRow
  <1> QED
    BY <1>1, StoredCounts, LoadedSimilar

LEMMA StoreFirst ==
    ASSUME SamplesConstants, PresetsKept, Init
    PROVE  StoreInv
  <1>1. samples \in Tables
    BY TypesFirst DEF TypeOK, Tables
  <1>2. PresetStays
    BY FirstPresets, PresetKept DEF PresetStays, PresetRows, PresetsPresent
  <1>3. ReadsCurrent
    <2>1. \A r \in Reloaders, m \in Messages : samples[m] # NoRow => pc[r] \notin Later[Query(samples[m])]
      BY <1>1, QueryOfRow, LaterSteps DEF Tables, Init
    <2> QED BY <2>1 DEF ReadsCurrent, Init
  <1>4. StoreLearned
    BY <1>1, StoredCounts DEF StoreLearned, Init
  <1>5. SpamSimilar
    BY <1>1, StoreStart DEF SpamSimilar, Doc, Init
  <1>6. ApplyUnderWay
    BY DEF ApplyUnderWay, Init
  <1> QED
    BY <1>2, <1>3, <1>4, <1>5, <1>6 DEF StoreInv

LEMMA StoreRestart ==
    ASSUME SamplesConstants, PresetsKept, TypeOK, TypeOK', StoreInv, NEW files, Restart(files)
    PROVE  StoreInv'
  <1>1. PICK rows \in Tables : rows = samples'
    BY DEF TypeOK, Tables
  <1>2. PICK ignored : ignored = ignoredWords'
    OBVIOUS
  <1>3. PresetStays'
    <2>1. samples \in Tables /\ PresetRows(samples)
      BY DEF TypeOK, Tables, StoreInv, PresetStays, PresetRows
    <2>2. PresetRows(rows)
      BY <1>1, <2>1, MigratedPresets DEF Restart
    <2>3. \A k \in Classes : \E m \in Messages : rows[m] = [type |-> k, origin |-> "preset"]
      BY <1>1 DEF Restart, PresetsPresent
    <2>4. \E m \in Messages \ Submitted, k \in Classes : rows[m] = [type |-> k, origin |-> "preset"]
      BY <2>2, <2>3, PresetKept
    <2> QED BY <1>1, <2>2, <2>4 DEF PresetStays, PresetRows
  <1>4. ReadsCurrent'
    <2>1. \A r \in Reloaders, m \in Messages : rows[m] # NoRow => "idle" \notin Later[Query(rows[m])]
      BY QueryOfRow, LaterSteps DEF Tables
    <2>2. \A r \in Reloaders : pc'[r] = "idle"
      BY DEF Restart
    <2> QED BY <1>1, <2>1, <2>2 DEF ReadsCurrent
  <1>5. StoreLearned'
    <2>1. learned' = Stored(rows)
      BY <1>1 DEF Restart
    <2> QED BY <1>1, <2>1, StoredCounts DEF StoreLearned
  <1>6. SpamSimilar'
    <2>1. tokenizedSpam' = TokenizedSpam(Stored(rows), ignored) /\ \A m \in Messages : Doc(m)' = Tokenize(m, ignored)
      BY <1>1, <1>2 DEF Restart, Doc, Tokenize
    <2> QED BY <1>1, <2>1, StoreStart DEF SpamSimilar
  <1>7. ApplyUnderWay'
    BY DEF ApplyUnderWay, Restart
  <1> QED
    BY <1>3, <1>4, <1>5, <1>6, <1>7 DEF StoreInv

(* A training writes only while no reload is past the queries of presets,  *)
(* and its row is none that a reload has looked for.                       *)
LEMMA StoreTrain ==
    ASSUME SamplesConstants, ReadersBlockWriters, CountersInv, StoreInv, NEW k \in Classes, NEW m \in Submitted,
           UpdateSample(k, m) \/ RemoveSample(k, m) \/ RemoveNotStored(k, m) \/ RemoveNotUnlearned(k, m)
    PROVE  StoreInv'
  <1> DEFINE new == [type |-> k, origin |-> "user"]
  <1>1. m \in Messages /\ samples \in [Messages -> Rows \union {NoRow}]
    BY DEF SamplesConstants, CountersInv, TypeOK
  <1>2. UNCHANGED <<ignoredWords, excludedTokens, pc, read, readIgnored, reloadFailed>>
    BY DEF UpdateSample, RemoveSample, RemoveNotStored, RemoveNotUnlearned, Removal, reload, lists
  <1>3. \/ samples' = samples
        \/ UpdateSample(k, m) /\ samples' = [samples EXCEPT ![m] = new]
        \/ RemoveSample(k, m) /\ samples' = [samples EXCEPT ![m] = NoRow]
    BY DEF UpdateSample, RemoveSample, RemoveNotStored, RemoveNotUnlearned
  <1>4. samples' # samples => ~WritersBlocked
    BY <1>3 DEF UpdateSample, RemoveSample
  <1>5. samples'[m] \in {samples[m], new, NoRow} /\ \A x \in Messages : x # m => samples'[x] = samples[x]
    BY <1>1, <1>3
  <1>6. new \in Rows /\ new.origin = "user" /\ Query(new) \in {"userSpam", "userHam"}
    BY QueryOfRow DEF Rows
  <1>7. PresetStays'
    <2>1. \A x \in Messages, j \in Classes :
            samples'[x] = [type |-> j, origin |-> "preset"] => samples[x] = [type |-> j, origin |-> "preset"]
      BY <1>5 DEF NoRow
    <2>2. \A x \in Messages \ Submitted : samples'[x] = samples[x]
      BY <1>5
    <2> QED BY <2>1, <2>2 DEF StoreInv, PresetStays
  <1>8. ReadsCurrent'
    <2>1. ASSUME NEW r \in Reloaders, NEW x \in Messages, samples'[x] # NoRow, pc[r] \in Later[Query(samples'[x])]
          PROVE  samples'[x] = samples[x]
      <3>1. CASE samples' = samples
        BY <3>1
      <3>2. CASE samples' # samples
        <4>1. pc[r] \notin Late
          BY <1>4, <3>2, Held DEF CountersInv, StoreInv
        <4>2. samples'[x] # new
          BY <1>6, <2>1, <4>1, LaterSteps
        <4> QED BY <1>5, <2>1, <4>2
      <3> QED BY <3>1, <3>2
    <2>2. \A r \in Reloaders, x \in Messages :
            samples'[x] # NoRow /\ pc[r] \in Later[Query(samples'[x])] => read[r][samples'[x].type][x] > 0
      BY <2>1 DEF StoreInv, ReadsCurrent
    <2> QED BY <1>2, <2>2 DEF StoreInv, ReadsCurrent
  <1>9. StoreLearned'
    <2> SUFFICES ASSUME ~spoiled', NEW x \in Messages, samples'[x] # NoRow PROVE learned'[samples'[x].type][x] > 0
      BY DEF StoreLearned
    <2>1. ~spoiled
      BY DEF UpdateSample, RemoveSample, RemoveNotStored, RemoveNotUnlearned, Removal
    <2>2. learned \in Counts /\ \A y \in Messages : samples[y] # NoRow => learned[samples[y].type][y] > 0
      BY <2>1 DEF CountersInv, StoreInv, StoreLearned, Counts
    <2>3. samples'[x] \in Rows \union {NoRow}
      BY <1>1, <1>5, <1>6
    <2>4. samples'[x].type \in Classes
      BY <2>3 DEF Rows
    <2>5. CASE x = m /\ UpdateSample(k, m)
      <3>1. samples'[x].type = k
        BY <1>1, <2>5 DEF UpdateSample
      <3>2. learned[k][m] \in Nat /\ learned[k] \in [Messages -> Nat]
        BY <1>1, <2>2 DEF Counts
      <3>3. learned'[k][m] = learned[k][m] + 1
        BY <1>1, <2>2, <2>5, <3>2 DEF UpdateSample, Counts
      <3> QED BY <2>5, <3>1, <3>2, <3>3
    <2>6. CASE x = m /\ RemoveSample(k, m)
      <3>1. samples'[x] = NoRow
        BY <1>1, <2>6 DEF RemoveSample
      <3> QED BY <3>1
    <2>7. CASE x = m /\ (RemoveNotStored(k, m) \/ RemoveNotUnlearned(k, m))
      <3>1. samples' = samples /\ learned' = learned
        BY <2>7 DEF RemoveNotStored, RemoveNotUnlearned
      <3> QED BY <2>2, <3>1
    <2>8. CASE x # m
      <3>1. learned'[samples[x].type][x] = learned[samples[x].type][x]
        <4>1. PICK j \in Classes : j = samples[x].type
          BY <1>5, <2>4, <2>8
        <4>2. learned \in [Classes -> [Messages -> Nat]] /\ learned[k] \in [Messages -> Nat]
          BY <2>2 DEF Counts
        <4>3. \/ learned' = learned
              \/ learned' = [learned EXCEPT ![k] = [learned[k] EXCEPT ![m] = learned[k][m] + 1]]
              \/ learned' = [learned EXCEPT ![k] = [learned[k] EXCEPT ![m] = learned[k][m] - 1]]
          BY DEF UpdateSample, RemoveSample, RemoveNotStored, RemoveNotUnlearned
        <4>4. learned'[j][x] = learned[j][x]
          BY <2>8, <4>2, <4>3
        <4> QED BY <4>1, <4>4
      <3> QED BY <1>5, <2>2, <2>8, <3>1
    <2> QED BY <2>5, <2>6, <2>7, <2>8
  <1>10. SpamSimilar'
    <2>1. \A x \in Messages : Doc(x)' = Doc(x)
      BY <1>2 DEF Doc, Tokenize
    <2>2. tokenizedSpam \subseteq tokenizedSpam'
      BY DEF UpdateSample, RemoveSample, RemoveNotStored, RemoveNotUnlearned, Removal
    <2>3. ASSUME NEW x \in Messages, samples'[x].type = "spam" PROVE Doc(x) \in tokenizedSpam'
      <3>1. CASE samples'[x] = samples[x]
        BY <2>2, <2>3, <3>1 DEF StoreInv, SpamSimilar
      <3>2. CASE samples'[x] # samples[x]
        <4>1. x = m /\ samples'[x] = new /\ UpdateSample(k, m)
          BY <1>1, <1>3, <2>3, <3>2 DEF NoRow
        <4> QED BY <2>3, <4>1 DEF UpdateSample
      <3> QED BY <3>1, <3>2
    <2> QED BY <2>1, <2>3 DEF SpamSimilar
  <1>11. ApplyUnderWay'
    BY <1>2 DEF StoreInv, ApplyUnderWay
  <1> QED
    BY <1>7, <1>8, <1>9, <1>10, <1>11 DEF StoreInv

(* The parts of StoreInv that are about the detector and the store.        *)
LEMMA StoreUnchanged ==
    ASSUME StoreInv, UNCHANGED <<samples, learned, spoiled, tokenizedSpam, excludedTokens>>
    PROVE  PresetStays' /\ StoreLearned' /\ SpamSimilar'
  <1>1. PresetStays'
    BY DEF StoreInv, PresetStays
  <1>2. StoreLearned'
    BY DEF StoreInv, StoreLearned
  <1>3. SpamSimilar'
    <2>1. \A m \in Messages : Doc(m)' = Doc(m)
      BY DEF Doc, Tokenize
    <2> QED BY <2>1 DEF StoreInv, SpamSimilar
  <1> QED
    BY <1>1, <1>2, <1>3

(* A change of the dictionary finds no reload about to load, and is        *)
(* followed by one.                                                        *)
LEMMA StoreRequest ==
    ASSUME SamplesConstants, ReadersBlockWriters, TypeOK, StoreInv, NEW r \in Reloaders, Request(r)
    PROVE  StoreInv'
  <1>1. pc[r] = "idle" /\ pc' = [pc EXCEPT ![r] = "stats"]
    BY DEF Request, Reload, AddDictionaryEntry, DeleteDictionaryEntry, Step, After
  <1>2. pc \in [Reloaders -> DOMAIN After] /\ samples \in [Messages -> Rows \union {NoRow}]
    BY DEF TypeOK
  <1>3. UNCHANGED <<samples, learned, spoiled, tokenizedSpam, excludedTokens, read, readIgnored, reloadFailed>>
    BY DEF Request, Reload, AddDictionaryEntry, DeleteDictionaryEntry, store, detector, lists, history
  <1>4. ignoredWords' # ignoredWords => ~WritersBlocked
    BY DEF Request, Reload, AddDictionaryEntry, DeleteDictionaryEntry, store
  <1>5. PresetStays' /\ StoreLearned' /\ SpamSimilar'
    BY <1>3, StoreUnchanged
  <1>6. ReadsCurrent'
    <2>1. ASSUME NEW q \in Reloaders, NEW m \in Messages, samples[m] # NoRow, pc'[q] \in Later[Query(samples[m])]
          PROVE  read[q][samples[m].type][m] > 0
      <3>1. q # r
        BY <1>1, <1>2, <2>1, QueryOfRow, LaterSteps
      <3>2. pc[q] \in Later[Query(samples[m])]
        BY <1>1, <1>2, <2>1, <3>1
      <3> QED BY <2>1, <3>2 DEF StoreInv, ReadsCurrent
    <2>2. ASSUME NEW q \in Reloaders, pc'[q] = "load" PROVE readIgnored[q] = ignoredWords'
      <3>1. pc[q] = "load"
        BY <1>1, <1>2, <2>2
      <3>2. WritersBlocked
        BY <3>1, Held DEF StoreInv, Late
      <3> QED BY <1>4, <3>1, <3>2 DEF StoreInv, ReadsCurrent
    <2> QED BY <1>3, <2>1, <2>2 DEF ReadsCurrent
  <1>7. ApplyUnderWay'
    <2>1. pc'[r] = "stats"
      BY <1>1, <1>2
    <2> QED BY <2>1 DEF ApplyUnderWay
  <1> QED
    BY <1>5, <1>6, <1>7 DEF StoreInv

(* A query finds the rows of the store as they are.                        *)
LEMMA StoreRead ==
    ASSUME TypeOK, StoreInv, NEW r \in Reloaders, NEW row \in Rows,
           ReadSamples(r, Query(row), row.type, row.origin)
    PROVE  StoreInv'
  <1> DEFINE k == row.type
             s == Query(row)
  <1>1. s \in Queries /\ k \in Classes /\ row = [type |-> row.type, origin |-> row.origin]
    BY QueryOfRow DEF Rows
  <1>2. pc[r] = s /\ pc' = [pc EXCEPT ![r] = After[s]]
    BY DEF ReadSamples, Step
  <1>3. UNCHANGED <<samples, ignoredWords, learned, spoiled, tokenizedSpam, excludedTokens, readIgnored, reloadFailed>>
    BY DEF ReadSamples, store, detector, lists, history
  <1>4. pc \in [Reloaders -> DOMAIN After] /\ samples \in [Messages -> Rows \union {NoRow}]
        /\ read \in [Reloaders -> Counts]
    BY DEF TypeOK, Counts
  <1>5. PICK f : f = [m \in Messages |-> IF samples[m] = row THEN read[r][k][m] + 1 ELSE read[r][k][m]]
    OBVIOUS
  <1>6. read' = [read EXCEPT ![r] = [read[r] EXCEPT ![k] = f]]
    BY <1>1, <1>5 DEF ReadSamples
  <1>7. read[r] \in Counts /\ read[r][k] \in [Messages -> Nat]
    BY <1>1, <1>4 DEF Counts
  <1>8. \A m \in Messages : read'[r][k][m] = f[m]
    BY <1>1, <1>4, <1>6, <1>7 DEF Counts
  <1>9. \A j \in Classes : j # k => read'[r][j] = read[r][j]
    BY <1>1, <1>4, <1>6, <1>7 DEF Counts
  <1>10. \A q \in Reloaders : q # r => read'[q] = read[q] /\ pc'[q] = pc[q]
    BY <1>2, <1>4, <1>6
  <1>11. PresetStays' /\ StoreLearned' /\ SpamSimilar'
    BY <1>3, StoreUnchanged
  <1>12. ReadsCurrent'
    <2>1. ASSUME NEW m \in Messages, samples[m] # NoRow, After[s] \in Later[Query(samples[m])]
          PROVE  read'[r][samples[m].type][m] > 0
      <3>1. samples[m] \in Rows /\ Query(samples[m]) \in Queries /\ samples[m].type \in Classes
        BY <1>4, <2>1, QueryOfRow DEF Rows
      <3>2. CASE samples[m] = row
        BY <1>5, <1>7, <1>8, <3>2
      <3>3. CASE samples[m] # row
        <4>1. Query(samples[m]) # s
          BY <1>1, <3>1, <3>3, QueryOfRow DEF Queries
        <4>2. pc[r] \in Later[Query(samples[m])]
          BY <1>1, <1>2, <2>1, <3>1, <4>1, LaterSteps
        <4>3. read[r][samples[m].type][m] > 0
          BY <2>1, <4>2 DEF StoreInv, ReadsCurrent
        <4>4. CASE samples[m].type = k
          BY <1>5, <1>8, <3>3, <4>3, <4>4
        <4>5. CASE samples[m].type # k
          BY <1>9, <3>1, <4>3, <4>5
        <4> QED BY <4>4, <4>5
      <3> QED BY <3>2, <3>3
    <2>2. \A q \in Reloaders, m \in Messages :
            samples[m] # NoRow /\ pc'[q] \in Later[Query(samples[m])] => read'[q][samples[m].type][m] > 0
      BY <1>2, <1>4, <1>10, <2>1 DEF StoreInv, ReadsCurrent
    <2>3. \A q \in Reloaders : pc'[q] = "load" => pc[q] = "load"
      <3>1. After[s] # "load"
        BY <1>1 DEF Queries, After
      <3> QED BY <1>2, <1>4, <1>10, <3>1
    <2> QED BY <1>3, <2>2, <2>3 DEF StoreInv, ReadsCurrent
  <1>13. ApplyUnderWay'
    <2>1. pc'[r] \notin {"idle", "loadStopWords"}
      BY <1>1, <1>2, <1>4 DEF Queries, After
    <2> QED BY <2>1 DEF ApplyUnderWay
  <1> QED
    BY <1>11, <1>12, <1>13 DEF StoreInv

(* The steps of a reload that query no samples.                            *)
LEMMA StoreOnward ==
    ASSUME TypeOK, StoreInv, NEW r \in Reloaders,
           CheckStats(r) \/ ReadStopWords(r) \/ ReadExcluded(r) \/ LoadStopWords(r)
    PROVE  StoreInv'
  <1>1. PICK s \in {"stats", "stopWords", "excluded", "loadStopWords"} :
          pc[r] = s /\ pc' = [pc EXCEPT ![r] = After[s]]
    BY DEF CheckStats, ReadStopWords, ReadExcluded, LoadStopWords, Step
  <1>2. UNCHANGED <<samples, ignoredWords, learned, spoiled, tokenizedSpam, excludedTokens, read, reloadFailed>>
    BY DEF CheckStats, ReadStopWords, ReadExcluded, LoadStopWords, store, detector, lists, history
  <1>3. pc \in [Reloaders -> DOMAIN After] /\ samples \in [Messages -> Rows \union {NoRow}]
    BY DEF TypeOK
  <1>4. readIgnored' = readIgnored \/ (s = "excluded" /\ readIgnored' = [readIgnored EXCEPT ![r] = ignoredWords])
    BY <1>1 DEF CheckStats, ReadStopWords, ReadExcluded, LoadStopWords, Step
  <1>5. PresetStays' /\ StoreLearned' /\ SpamSimilar'
    BY <1>2, StoreUnchanged
  <1>6. ReadsCurrent'
    <2>1. ASSUME NEW q \in Reloaders, NEW m \in Messages, samples[m] # NoRow, pc'[q] \in Later[Query(samples[m])]
          PROVE  pc[q] \in Later[Query(samples[m])]
      <3>1. Query(samples[m]) \in Queries
        BY <1>3, <2>1, QueryOfRow
      <3>2. CASE q # r
        BY <1>1, <1>3, <2>1, <3>2
      <3>3. CASE q = r
        <4>1. pc'[q] = After[s]
          BY <1>1, <1>3, <3>3
        <4>2. s = "stats" => After[s] = "presetSpam"
          BY DEF After
        <4>3. s = "loadStopWords" => After[s] = "idle"
          BY DEF After
        <4>4. s \in {"stopWords", "excluded"}
          BY <2>1, <3>1, <4>1, <4>2, <4>3, LaterSteps
        <4> QED BY <1>1, <3>1, <3>3, <4>4, LaterSteps
      <3> QED BY <3>2, <3>3
    <2>2. ASSUME NEW q \in Reloaders, pc'[q] = "load" PROVE readIgnored'[q] = ignoredWords
      <3>1. CASE q = r
        <4>1. s = "excluded"
          BY <1>1, <1>3, <2>2, <3>1 DEF After
        <4>2. ReadExcluded(r)
          BY <1>1, <4>1 DEF CheckStats, ReadStopWords, ReadExcluded, LoadStopWords, Step
        <4> QED BY <3>1, <4>2 DEF ReadExcluded, TypeOK
      <3>2. CASE q # r
        <4>1. pc[q] = "load"
          BY <1>1, <1>3, <2>2, <3>2
        <4>2. readIgnored'[q] = readIgnored[q]
          BY <1>4, <3>2 DEF TypeOK
        <4> QED BY <4>1, <4>2 DEF StoreInv, ReadsCurrent
      <3> QED BY <3>1, <3>2
    <2> QED BY <1>2, <2>1, <2>2 DEF StoreInv, ReadsCurrent
  <1>7. ApplyUnderWay'
    <2>1. ASSUME NEW q \in Reloaders, pc[q] \notin {"idle", "loadStopWords"} PROVE pc'[q] \notin {"idle", "loadStopWords"}
      <3>1. CASE q # r
        BY <1>1, <1>3, <2>1, <3>1
      <3>2. CASE q = r
        <4>1. s \in {"stats", "stopWords", "excluded"} /\ pc'[q] = After[s]
          BY <1>1, <1>3, <2>1, <3>2
        <4> QED BY <4>1 DEF After
      <3> QED BY <3>1, <3>2
    <2> QED BY <1>2, <2>1 DEF StoreInv, ApplyUnderWay
  <1> QED
    BY <1>5, <1>6, <1>7 DEF StoreInv

(* What is loaded is what the store holds.                                 *)
LEMMA StoreLoad ==
    ASSUME TypeOK, StoreInv, NEW r \in Reloaders, LoadSamples(r)
    PROVE  StoreInv'
  <1>1. pc[r] = "load" /\ pc' = [pc EXCEPT ![r] = "loadStopWords"]
    BY DEF LoadSamples, Step, After
  <1>2. pc \in [Reloaders -> DOMAIN After] /\ samples \in [Messages -> Rows \union {NoRow}]
    BY DEF TypeOK
  <1>3. samples' = samples /\ ignoredWords' = ignoredWords
    BY DEF LoadSamples, store
  <1>4. \A m \in Messages : samples[m] # NoRow => read[r][samples[m].type][m] > 0
    BY <1>1, <1>2, QueryOfRow, LaterSteps DEF StoreInv, ReadsCurrent
  <1>5. PresetStays'
    BY <1>3 DEF StoreInv, PresetStays
  <1>6. ReadsCurrent'
    <2>1. \A q \in Reloaders : q # r => pc'[q] = pc[q] /\ read'[q] = read[q] /\ readIgnored'[q] = readIgnored[q]
      BY <1>1, <1>2 DEF LoadSamples, TypeOK
    <2>2. pc'[r] = "loadStopWords"
      BY <1>1, <1>2
    <2>3. \A m \in Messages : samples[m] # NoRow => pc'[r] \notin Later[Query(samples[m])]
      BY <1>2, <2>2, QueryOfRow, LaterSteps
    <2>4. \A q \in Reloaders, m \in Messages :
            samples[m] # NoRow /\ pc'[q] \in Later[Query(samples[m])] => read'[q][samples[m].type][m] > 0
      BY <2>1, <2>3 DEF StoreInv, ReadsCurrent
    <2>5. \A q \in Reloaders : pc'[q] = "load" => readIgnored'[q] = ignoredWords
      BY <2>1, <2>2 DEF StoreInv, ReadsCurrent
    <2> QED BY <1>3, <2>4, <2>5 DEF ReadsCurrent
  <1>7. StoreLearned'
    BY <1>3, <1>4 DEF LoadSamples, StoreLearned
  <1>8. SpamSimilar'
    <2>1. PICK docs, excl : docs = read[r] /\ excl = readIgnored[r]
      OBVIOUS
    <2>2. tokenizedSpam' = TokenizedSpam(docs, excl) /\ \A m \in Messages : Doc(m)' = Tokenize(m, excl)
      BY <2>1 DEF LoadSamples, Doc, Tokenize
    <2>3. ASSUME NEW m \in Messages, samples[m].type = "spam" PROVE docs["spam"][m] > 0
      <3>1. samples[m] # NoRow
        BY <2>3 DEF NoRow
      <3> QED BY <1>4, <2>1, <2>3, <3>1
    <2> QED BY <1>3, <2>2, <2>3, LoadedSimilar DEF SpamSimilar
  <1>9. ApplyUnderWay'
    BY <1>1, <1>3 DEF LoadSamples, StoreInv, ReadsCurrent, ApplyUnderWay
  <1> QED
    BY <1>5, <1>6, <1>7, <1>8, <1>9 DEF StoreInv

LEMMA StoreFails ==
    ASSUME TypeOK, StoreInv, NEW r \in Reloaders, ReloadFails(r)
    PROVE  StoreInv'
  <1>1. UNCHANGED <<samples, ignoredWords, learned, spoiled, tokenizedSpam, excludedTokens>> /\ reloadFailed' = TRUE
    BY DEF ReloadFails, store, detector, lists
  <1>2. PresetStays' /\ StoreLearned' /\ SpamSimilar'
    BY <1>1, StoreUnchanged
  <1>3. \A q \in Reloaders : q # r => pc'[q] = pc[q] /\ read'[q] = read[q] /\ readIgnored'[q] = readIgnored[q]
    BY DEF ReloadFails, TypeOK
  <1>4. pc'[r] = "idle"
    BY DEF ReloadFails, TypeOK
  <1>5. \A m \in Messages : samples[m] # NoRow => pc'[r] \notin Later[Query(samples[m])]
    BY <1>4, QueryOfRow, LaterSteps DEF TypeOK
  <1>6. \A q \in Reloaders, m \in Messages :
          samples[m] # NoRow /\ pc'[q] \in Later[Query(samples[m])] => read'[q][samples[m].type][m] > 0
    BY <1>3, <1>5 DEF StoreInv, ReadsCurrent
  <1>7. \A q \in Reloaders : pc'[q] = "load" => readIgnored'[q] = ignoredWords
    BY <1>3, <1>4 DEF StoreInv, ReadsCurrent
  <1>8. ReadsCurrent'
    BY <1>1, <1>6, <1>7 DEF ReadsCurrent
  <1> QED
    BY <1>1, <1>2, <1>8 DEF StoreInv, ApplyUnderWay

LEMMA StoreNext ==
    ASSUME SamplesConstants, ReadersBlockWriters, PresetsKept, CountersInv, StoreInv, [Next]_vars
    PROVE  StoreInv'
  <1>1. TypeOK /\ TypeOK'
    BY TypesNext DEF CountersInv
  <1>2. CASE Train
    BY <1>2, StoreTrain DEF Train
  <1>3. ASSUME NEW files, Restart(files) PROVE StoreInv'
    BY <1>1, <1>3, StoreRestart
  <1>4. ASSUME NEW r \in Reloaders, Request(r) PROVE StoreInv'
    BY <1>1, <1>4, StoreRequest
  <1>5. ASSUME NEW r \in Reloaders, ReloadSamples(r) PROVE StoreInv'
    <2>1. ASSUME NEW s, NEW k \in Classes, NEW o \in {"preset", "user"}, s = Query([type |-> k, origin |-> o]),
                 ReadSamples(r, s, k, o)
          PROVE  StoreInv'
      <3>1. PICK row \in Rows : row.type = k /\ row.origin = o /\ Query(row) = s
        BY <2>1 DEF Rows
      <3>2. ReadSamples(r, Query(row), row.type, row.origin)
        BY <2>1, <3>1
      <3> QED BY <1>1, <3>2, StoreRead
    <2>2. CASE \/ ReadSamples(r, "presetSpam", "spam", "preset") \/ ReadSamples(r, "presetHam", "ham", "preset")
               \/ ReadSamples(r, "userSpam", "spam", "user") \/ ReadSamples(r, "userHam", "ham", "user")
      <3>1. "presetSpam" = Query([type |-> "spam", origin |-> "preset"])
        BY DEF Query
      <3>2. "presetHam" = Query([type |-> "ham", origin |-> "preset"])
        BY DEF Query
      <3>3. "userSpam" = Query([type |-> "spam", origin |-> "user"])
        BY DEF Query
      <3>4. "userHam" = Query([type |-> "ham", origin |-> "user"])
        BY DEF Query
      <3>5. "spam" \in Classes /\ "ham" \in Classes
        BY DEF Classes
      <3> QED BY <2>1, <2>2, <3>1, <3>2, <3>3, <3>4, <3>5
    <2>3. CASE CheckStats(r) \/ ReadStopWords(r) \/ ReadExcluded(r) \/ LoadStopWords(r)
      BY <1>1, <2>3, StoreOnward
    <2>4. CASE LoadSamples(r)
      BY <1>1, <2>4, StoreLoad
    <2>5. CASE ReloadFails(r)
      BY <1>1, <2>5, StoreFails
    <2> QED BY <1>5, <2>2, <2>3, <2>4, <2>5 DEF ReloadSamples
  <1>6. CASE UNCHANGED vars
    <2>1. PresetStays' /\ StoreLearned' /\ SpamSimilar'
      BY <1>6, StoreUnchanged DEF vars, store, detector, lists
    <2>2. UNCHANGED <<samples, ignoredWords, excludedTokens, pc, read, readIgnored, reloadFailed>>
      BY <1>6 DEF vars, store, detector, lists, reload
    <2>3. ReadsCurrent'
      BY <2>2 DEF StoreInv, ReadsCurrent
    <2>4. ApplyUnderWay'
      BY <2>2 DEF StoreInv, ApplyUnderWay
    <2> QED BY <2>1, <2>3, <2>4 DEF StoreInv
  <1> QED
    BY <1>2, <1>3, <1>4, <1>5, <1>6 DEF Next

LEMMA StoreAlways ==
    ASSUME ReadersBlockWriters, PresetsKept
    PROVE  Spec => []StoreInv
  <1>1. Init => StoreInv
    BY SamplesConstants, StoreFirst
  <1>2. CountersInv /\ StoreInv /\ [Next]_vars => StoreInv'
    BY SamplesConstants, StoreNext
  <1> QED
    BY <1>1, <1>2, CountersAlways, PTL DEF Spec

(* On SQLite, a sample that is in the store is learned in its class, in    *)
(* whatever order admins train, change the dictionary and reload, as long  *)
(* as a preset stays: a reload holds its cursor from the presets on, and   *)
(* no sample is written between its query and LoadSamples.                 *)
THEOREM StoredIsLearned ==
    ASSUME ReadersBlockWriters, PresetsKept
    PROVE  Spec => []StoreLearned
  <1>1. StoreInv => StoreLearned
    BY DEF StoreInv
  <1> QED
    BY <1>1, StoreAlways, PTL

(* And a spam sample of the store is in the similarity check, in today's   *)
(* tokens.                                                                 *)
THEOREM StoredSpamIsSimilar ==
    ASSUME ReadersBlockWriters, PresetsKept
    PROVE  Spec => []SpamSimilar
  <1>1. StoreInv => SpamSimilar
    BY DEF StoreInv
  <1> QED
    BY <1>1, StoreAlways, PTL

(* And when no request is in progress and none failed, the detector        *)
(* excludes the ignored words of the store.                                *)
THEOREM IgnoredWordsApplied ==
    ASSUME ReadersBlockWriters, PresetsKept
    PROVE  Spec => []IgnoredApplied
  <1>1. StoreInv => IgnoredApplied
    BY DEF StoreInv, ApplyUnderWay, IgnoredApplied, Quiet
  <1> QED
    BY <1>1, StoreAlways, PTL
=============================================================================
