------------------------- MODULE SubsequenceProofs -------------------------
(***************************************************************************)
(* What Keep returns: the facts the proofs about the components cite.      *)
(***************************************************************************)
EXTENDS Subsequences, Integers, FiniteSetTheorems, SequenceTheorems, TLAPS

(* The positions of a sequence are finite, and so is every set of them.    *)
LEMMA PositionsFinite ==
    ASSUME NEW n \in Nat, NEW I \in SUBSET (1 .. n)
    PROVE  IsFiniteSet(I) /\ Cardinality(I) \in Nat /\ Cardinality(I) <= n
  <1>1. IsFiniteSet(1 .. n) /\ Cardinality(1 .. n) = n
    BY FS_Interval
  <1>2. IsFiniteSet(I) /\ Cardinality(I) <= Cardinality(1 .. n)
    BY <1>1, FS_Subset
  <1> QED
    BY <1>1, <1>2, FS_CardinalityType

(* The rank of a position is a number up to the number of positions.       *)
LEMMA RankType ==
    ASSUME NEW I, IsFiniteSet(I), NEW i \in I, i \in Nat
    PROVE  Cardinality(I) \in Nat /\ Rank(I, i) \in 1 .. Cardinality(I)
  <1> DEFINE L == {j \in I : j <= i}
  <1>1. Cardinality(I) \in Nat
    BY FS_CardinalityType
  <1>2. L \in SUBSET I /\ i \in L
    OBVIOUS
  <1>3. IsFiniteSet(L) /\ Cardinality(L) <= Cardinality(I)
    BY <1>2, FS_Subset
  <1>4. Cardinality(L) \in Nat
    BY <1>3, FS_CardinalityType
  <1>5. Cardinality(L) # 0
    BY <1>2, <1>3, FS_EmptySet
  <1> QED
    BY <1>1, <1>3, <1>4, <1>5 DEF Rank

(* A later position has a greater rank.                                    *)
LEMMA RankMonotonic ==
    ASSUME NEW I, IsFiniteSet(I), \A h \in I : h \in Nat, NEW i \in I, NEW j \in I, i < j
    PROVE  Rank(I, i) < Rank(I, j)
  <1> DEFINE below == {h \in I : h <= i}
             upto  == {h \in I : h <= j}
  <1>1. below \in SUBSET upto /\ j \in upto /\ j \notin below
    <2>1. i \in Nat /\ j \in Nat
      OBVIOUS
    <2>2. \A h \in I : h <= i => h <= j
      BY <2>1
    <2>3. ~(j <= i)
      BY <2>1
    <2>4. below \in SUBSET upto
      BY <2>2
    <2>5. j \in upto
      BY <2>1
    <2>6. j \notin below
      BY <2>3
    <2> QED BY <2>4, <2>5, <2>6
  <1>2. upto \in SUBSET I
    OBVIOUS
  <1>3. IsFiniteSet(upto)
    BY <1>2, FS_Subset
  <1>4. /\ IsFiniteSet(below)
        /\ Cardinality(below) <= Cardinality(upto)
        /\ Cardinality(upto) = Cardinality(below) => upto = below
    BY <1>1, <1>3, FS_Subset
  <1>5. Cardinality(below) \in Nat /\ Cardinality(upto) \in Nat
    BY <1>3, <1>4, FS_CardinalityType
  <1>6. Cardinality(below) < Cardinality(upto)
    <2> HIDE DEF below, upto
    <2> QED BY <1>1, <1>4, <1>5
  <1> QED
    BY <1>6 DEF Rank

(* Positions of the same rank are the same.                                *)
LEMMA RankInjective ==
    ASSUME NEW I, IsFiniteSet(I), \A h \in I : h \in Nat, NEW i \in I, NEW j \in I,
           Rank(I, i) = Rank(I, j)
    PROVE  i = j
  <1>1. i \in Nat /\ j \in Nat
    OBVIOUS
  <1>2. Rank(I, i) \in Nat /\ Rank(I, j) \in Nat
    BY <1>1, RankType
  <1>3. ~(i < j)
    <2>1. i < j => Rank(I, i) < Rank(I, j)
      BY RankMonotonic
    <2> QED BY <1>2, <2>1
  <1>4. ~(j < i)
    <2>1. j < i => Rank(I, j) < Rank(I, i)
      BY RankMonotonic
    <2> QED BY <1>2, <2>1
  <1> QED
    BY <1>1, <1>3, <1>4

(* The k-th position is one of the positions, and the one with rank k.     *)
LEMMA PositionProperties ==
    ASSUME NEW I, IsFiniteSet(I), \A h \in I : h \in Nat
    PROVE  /\ Cardinality(I) \in Nat
           /\ \A k \in 1 .. Cardinality(I) : Position(I, k) \in I /\ Rank(I, Position(I, k)) = k
           /\ \A i \in I : Rank(I, i) \in 1 .. Cardinality(I) /\ Position(I, Rank(I, i)) = i
           /\ \A k, l \in 1 .. Cardinality(I) : k < l => Position(I, k) < Position(I, l)
  <1> DEFINE T == 1 .. Cardinality(I)
             f == [i \in I |-> Rank(I, i)]
  <1>1. Cardinality(I) \in Nat
    BY FS_CardinalityType
  <1>2. IsFiniteSet(T) /\ Cardinality(T) = Cardinality(I)
    BY <1>1, FS_Interval
  <1>3. \A i \in I : Rank(I, i) \in T
    BY RankType
  <1>4. f \in Injection(I, T)
    <2>1. \A i, j \in I : Rank(I, i) = Rank(I, j) => i = j
      BY RankInjective
    <2> QED BY <1>3, <2>1 DEF Injection, IsInjective
  <1>5. f \in Surjection(I, T)
    BY <1>2, <1>4, FS_Injection
  <1>6. \A k \in T : \E i \in I : Rank(I, i) = k
    BY <1>5 DEF Surjection
  <1>7. \A k \in T : Position(I, k) \in I /\ Rank(I, Position(I, k)) = k
    BY <1>6 DEF Position
  <1>8. \A i \in I : Position(I, Rank(I, i)) = i
    BY <1>3, <1>7, RankInjective
  <1>9. ASSUME NEW k \in T, NEW l \in T, k < l PROVE Position(I, k) < Position(I, l)
    <2> DEFINE p == Position(I, k)
               q == Position(I, l)
    <2>1. p \in I /\ q \in I /\ Rank(I, p) = k /\ Rank(I, q) = l
      BY <1>7
    <2> HIDE DEF p, q
    <2>2. k \in Nat /\ l \in Nat /\ p \in Nat /\ q \in Nat
      BY <2>1, <1>1
    <2>3. p # q
      BY <2>1, <2>2, <1>9
    <2>4. q < p => Rank(I, q) < Rank(I, p)
      BY <2>1, RankMonotonic
    <2>5. p < q
      BY <1>9, <2>1, <2>2, <2>3, <2>4
    <2> QED BY <2>5 DEF p, q
  <1> QED
    BY <1>1, <1>3, <1>7, <1>8, <1>9

(* Keep returns a sequence of as many elements as there are positions, the *)
(* k-th of them from the k-th position.                                    *)
LEMMA KeepProperties ==
    ASSUME NEW S, NEW s \in Seq(S), NEW I \in SUBSET (1 .. Len(s))
    PROVE  /\ Keep(s, I) \in Seq(S)
           /\ Cardinality(I) \in Nat
           /\ Len(Keep(s, I)) = Cardinality(I)
           /\ \A k \in 1 .. Cardinality(I) :
                Position(I, k) \in I /\ Keep(s, I)[k] = s[Position(I, k)]
           /\ \A i \in I :
                Rank(I, i) \in 1 .. Cardinality(I) /\ Keep(s, I)[Rank(I, i)] = s[i]
  <1>1. Len(s) \in Nat /\ \A i \in 1 .. Len(s) : s[i] \in S
    BY LenProperties, ElementOfSeq
  <1> DEFINE c == Cardinality(I)
  <1>2. /\ c \in Nat
        /\ \A k \in 1 .. c : Position(I, k) \in I
        /\ \A i \in I : Rank(I, i) \in 1 .. c /\ Position(I, Rank(I, i)) = i
    <2>1. IsFiniteSet(I) /\ \A h \in I : h \in Nat
      BY <1>1, PositionsFinite
    <2> QED BY <2>1, PositionProperties
  <1>3. Keep(s, I) = [k \in 1 .. c |-> s[Position(I, k)]]
    BY DEF Keep
  <1> HIDE DEF c
  <1>4. \A k \in 1 .. c : s[Position(I, k)] \in S
    BY <1>1, <1>2
  <1>5. Keep(s, I) \in Seq(S)
    <2>1. Keep(s, I) \in [1 .. c -> S]
      BY <1>3, <1>4
    <2> QED BY <1>2, <2>1
  <1>6. Len(Keep(s, I)) = c
    BY <1>2, <1>3
  <1> QED
    BY <1>2, <1>3, <1>5, <1>6 DEF c

(* Nothing is kept when there is no position, and only then.               *)
LEMMA KeepEmpty ==
    ASSUME NEW S, NEW s \in Seq(S), NEW I \in SUBSET (1 .. Len(s))
    PROVE  Keep(s, I) = <<>> <=> I = {}
  <1>1. Len(Keep(s, I)) = Cardinality(I) /\ Keep(s, I) \in Seq(S)
    BY KeepProperties
  <1>2. Len(s) \in Nat /\ IsFiniteSet(I)
    BY LenProperties, PositionsFinite
  <1>3. Cardinality(I) = 0 <=> I = {}
    BY <1>2, FS_EmptySet
  <1> QED
    BY <1>1, <1>3

(* An interval of positions is kept as SubSeq keeps it.                    *)
LEMMA KeepInterval ==
    ASSUME NEW S, NEW s \in Seq(S), NEW a \in 1 .. Len(s) + 1, NEW b \in 0 .. Len(s), a <= b + 1
    PROVE  Keep(s, a .. b) = SubSeq(s, a, b)
  <1> DEFINE I == a .. b
  <1>1. Len(s) \in Nat
    BY LenProperties
  <1>2. I \in SUBSET (1 .. Len(s)) /\ a \in Nat /\ b \in Nat
    BY <1>1
  <1>3. Cardinality(a .. b) = b - a + 1
    <2>1. a \in Int /\ b \in Int
      BY <1>1
    <2>2. CASE a > b
      <3>1. b - a + 1 = 0
        BY <2>1, <2>2
      <3> QED BY <2>1, <2>2, <3>1, FS_Interval
    <2>3. CASE a <= b
      BY <2>1, <2>3, FS_Interval
    <2> QED BY <2>1, <2>2, <2>3
  <1>4. ASSUME NEW k \in 1 .. b - a + 1 PROVE Position(I, k) = a + k - 1
    <2>1. Rank(I, a + k - 1) = Cardinality(a .. a + k - 1)
      <3>1. {j \in I : j <= a + k - 1} = a .. a + k - 1
        BY <1>2
      <3> QED BY <3>1 DEF Rank
    <2>2. Rank(I, a + k - 1) = k
      BY <1>2, <2>1, FS_Interval
    <2>3. a + k - 1 \in I
      BY <1>2
    <2>4. IsFiniteSet(I) /\ \A h \in I : h \in Nat
      BY <1>1, <1>2, PositionsFinite
    <2> QED BY <2>2, <2>3, <2>4, PositionProperties
  <1>5. \A i \in a .. b : s[i] \in S
    BY <1>1, <1>2, ElementOfSeq
  <1>6. /\ SubSeq(s, a, b) \in Seq(S)
        /\ Len(SubSeq(s, a, b)) = b - a + 1
        /\ \A k \in 1 .. b - a + 1 : SubSeq(s, a, b)[k] = s[a + k - 1]
    BY <1>2, <1>5, SubSeqProperties
  <1>7. /\ Keep(s, I) \in Seq(S)
        /\ Len(Keep(s, I)) = b - a + 1
        /\ \A k \in 1 .. b - a + 1 : Keep(s, I)[k] = s[a + k - 1]
    <2> HIDE DEF I
    <2>1. Cardinality(I) = b - a + 1
      BY <1>3 DEF I
    <2>2. /\ Keep(s, I) \in Seq(S)
          /\ Len(Keep(s, I)) = Cardinality(I)
          /\ \A k \in 1 .. Cardinality(I) : Keep(s, I)[k] = s[Position(I, k)]
      BY <1>2, KeepProperties
    <2> QED BY <1>4, <2>1, <2>2
  <1> HIDE DEF I
  <1>8. Keep(s, I) = SubSeq(s, a, b)
    BY <1>2, <1>6, <1>7, SeqEqual
  <1> QED BY <1>8 DEF I

(* Whatever is kept was there, and no element is new.                      *)
LEMMA KeepElements ==
    ASSUME NEW S, NEW s \in Seq(S), NEW I \in SUBSET (1 .. Len(s))
    PROVE  /\ Keep(s, I) \in Seq(S) /\ Len(Keep(s, I)) \in Nat /\ Len(Keep(s, I)) <= Len(s)
           /\ \A k \in DOMAIN Keep(s, I) : \E i \in I : Keep(s, I)[k] = s[i]
           /\ \A i \in I : \E k \in DOMAIN Keep(s, I) : Keep(s, I)[k] = s[i]
  <1> DEFINE r == Keep(s, I)
             c == Cardinality(I)
  <1>1. Len(s) \in Nat
    BY LenProperties
  <1>2. c \in Nat /\ c <= Len(s)
    BY <1>1, PositionsFinite
  <1>3. /\ r \in Seq(S) /\ Len(r) = c
        /\ \A k \in 1 .. c : Position(I, k) \in I /\ r[k] = s[Position(I, k)]
        /\ \A i \in I : Rank(I, i) \in 1 .. c /\ r[Rank(I, i)] = s[i]
    BY KeepProperties
  <1> HIDE DEF r, c
  <1>4. DOMAIN r = 1 .. c
    BY <1>3, LenProperties
  <1>5. \A k \in DOMAIN r : \E i \in I : r[k] = s[i]
    BY <1>3, <1>4
  <1>6. \A i \in I : \E k \in DOMAIN r : r[k] = s[i]
    BY <1>3, <1>4
  <1> QED
    BY <1>2, <1>3, <1>5, <1>6 DEF r


\* f lists the positions I in increasing order.
Enumerates(f, m, I) ==
    /\ m \in Nat /\ f \in [1 .. m -> I]
    /\ \A h \in I : h \in Nat
    /\ \A i \in I : \E k \in 1 .. m : f[k] = i
    /\ \A k, l \in 1 .. m : k < l => f[k] < f[l]

(* Positions listed in increasing order are the k-th ones for each k.      *)
LEMMA PositionsEnumerated ==
    ASSUME NEW I, NEW m, NEW f, Enumerates(f, m, I)
    PROVE  IsFiniteSet(I) /\ Cardinality(I) = m /\ \A k \in 1 .. m : Position(I, k) = f[k]
  <1> USE DEF Enumerates
  <1>1. \A k, l \in 1 .. m : f[k] = f[l] => k = l
    <2> SUFFICES ASSUME NEW k \in 1 .. m, NEW l \in 1 .. m, f[k] = f[l] PROVE k = l
      OBVIOUS
    <2>1. f[k] \in Nat /\ f[l] \in Nat
      OBVIOUS
    <2>2. ~(k < l) /\ ~(l < k)
      <3>1. k < l => f[k] < f[l]
        OBVIOUS
      <3>2. l < k => f[l] < f[k]
        OBVIOUS
      <3> QED BY <2>1, <3>1, <3>2
    <2> QED BY <2>2
  <1>2. IsFiniteSet(1 .. m) /\ Cardinality(1 .. m) = m
    BY FS_Interval
  <1>3. f \in Surjection(1 .. m, I) /\ f \in Injection(1 .. m, I)
    BY <1>1 DEF Surjection, Injection, IsInjective
  <1>4. IsFiniteSet(I) /\ Cardinality(I) = m
    BY <1>2, <1>3, FS_Surjection
  <1>5. ASSUME NEW k \in 1 .. m PROVE Rank(I, f[k]) = k
    <2> DEFINE L == {j \in I : j <= f[k]}
               g == [l \in 1 .. k |-> f[l]]
    <2>1. \A l \in 1 .. m : l <= k <=> f[l] <= f[k]
      <3> SUFFICES ASSUME NEW l \in 1 .. m PROVE l <= k <=> f[l] <= f[k]
        OBVIOUS
      <3>1. f[k] \in Nat /\ f[l] \in Nat
        OBVIOUS
      <3>2. /\ k < l => f[k] < f[l]
            /\ l < k => f[l] < f[k]
        OBVIOUS
      <3>3. l < k \/ l = k \/ k < l
        OBVIOUS
      <3> QED BY <3>1, <3>2, <3>3
    <2>2. k \in Nat /\ \A l \in 1 .. k : l \in 1 .. m /\ l <= k
      OBVIOUS
    <2>3. g \in [1 .. k -> L]
      <3>1. \A l \in 1 .. k : f[l] \in L
        BY <2>1, <2>2
      <3> HIDE DEF L
      <3> QED BY <3>1
    <2>4. \A i \in L : \E l \in 1 .. k : g[l] = i
      <3> SUFFICES ASSUME NEW i \in L PROVE \E l \in 1 .. k : g[l] = i
        OBVIOUS
      <3>1. PICK l \in 1 .. m : f[l] = i
        OBVIOUS
      <3>2. l <= k
        BY <2>1, <3>1
      <3>3. l \in 1 .. k
        BY <3>2
      <3> QED BY <3>1, <3>3
    <2>5. \A h, l \in 1 .. k : g[h] = g[l] => h = l
      BY <1>1, <2>2
    <2> HIDE DEF L, g
    <2>6. g \in Surjection(1 .. k, L) /\ g \in Injection(1 .. k, L)
      BY <2>3, <2>4, <2>5 DEF Surjection, Injection, IsInjective
    <2>7. IsFiniteSet(1 .. k) /\ Cardinality(1 .. k) = k
      BY <2>2, FS_Interval
    <2>8. Cardinality(L) = k
      BY <2>6, <2>7, FS_Surjection
    <2> QED BY <2>8 DEF L, Rank
  <1>6. ASSUME NEW k \in 1 .. m PROVE Position(I, k) = f[k]
    <2>1. \A i \in I : Rank(I, i) \in 1 .. Cardinality(I) /\ Position(I, Rank(I, i)) = i
      BY <1>4, PositionProperties
    <2>2. f[k] \in I
      OBVIOUS
    <2> QED BY <1>5, <2>1, <2>2
  <1> QED
    BY <1>4, <1>6

(* Keeping every position keeps the sequence.                              *)
LEMMA KeepAll ==
    ASSUME NEW S, NEW s \in Seq(S)
    PROVE  Keep(s, DOMAIN s) = s
  <1>1. Len(s) \in Nat /\ DOMAIN s = 1 .. Len(s) /\ \A i \in 1 .. Len(s) : s[i] \in S
    BY LenProperties, ElementOfSeq
  <1>2. 1 \in 1 .. Len(s) + 1 /\ Len(s) \in 0 .. Len(s) /\ 1 <= Len(s) + 1
    BY <1>1
  <1>3. Keep(s, 1 .. Len(s)) = SubSeq(s, 1, Len(s))
    BY <1>2, KeepInterval
  <1>4. /\ SubSeq(s, 1, Len(s)) \in Seq(S)
        /\ Len(SubSeq(s, 1, Len(s))) = Len(s)
        /\ \A i \in 1 .. Len(s) : SubSeq(s, 1, Len(s))[i] = s[i]
    <2>1. 1 \in Int /\ Len(s) \in Int
      BY <1>1
    <2>2. /\ SubSeq(s, 1, Len(s)) \in Seq(S)
          /\ Len(SubSeq(s, 1, Len(s))) = IF 1 <= Len(s) THEN Len(s) - 1 + 1 ELSE 0
          /\ \A i \in 1 .. Len(s) - 1 + 1 : SubSeq(s, 1, Len(s))[i] = s[1 + i - 1]
      BY <1>1, <2>1, SubSeqProperties
    <2> QED BY <1>1, <2>2
  <1>5. SubSeq(s, 1, Len(s)) = s
    BY <1>4, SeqEqual
  <1> QED
    BY <1>1, <1>3, <1>5

(* What is kept of a kept sequence are the elements at the positions that  *)
(* the positions stand for.                                                *)
LEMMA KeepKeep ==
    ASSUME NEW S, NEW s \in Seq(S), NEW I \in SUBSET (1 .. Len(s)),
           NEW J \in SUBSET (1 .. Cardinality(I))
    PROVE  Keep(Keep(s, I), J) = Keep(s, {Position(I, j) : j \in J})
  <1> DEFINE c == Cardinality(I)
             m == Cardinality(J)
             B == {Position(I, j) : j \in J}
             f == [k \in 1 .. m |-> Position(I, Position(J, k))]
  <1>1. Len(s) \in Nat
    BY LenProperties
  <1>2. IsFiniteSet(I) /\ c \in Nat /\ \A h \in I : h \in Nat
    BY <1>1, PositionsFinite
  <1>3. IsFiniteSet(J) /\ m \in Nat /\ \A h \in J : h \in Nat
    BY <1>2, PositionsFinite
  <1>4. /\ \A k \in 1 .. c : Position(I, k) \in I
        /\ \A k, l \in 1 .. c : k < l => Position(I, k) < Position(I, l)
    BY <1>2, PositionProperties
  <1>5. /\ \A k \in 1 .. m : Position(J, k) \in J
        /\ \A j \in J : Rank(J, j) \in 1 .. m /\ Position(J, Rank(J, j)) = j
        /\ \A k, l \in 1 .. m : k < l => Position(J, k) < Position(J, l)
    BY <1>3, PositionProperties
  <1>6. J \subseteq 1 .. c
    OBVIOUS
  <1>7. Keep(s, I) = [k \in 1 .. c |-> s[Position(I, k)]]
    BY DEF Keep
  <1>8. Keep(Keep(s, I), J) = [k \in 1 .. m |-> Keep(s, I)[Position(J, k)]]
    BY DEF Keep
  <1> HIDE DEF c, m
  <1>9. f \in [1 .. m -> B]
    BY <1>5
  <1>10. \A i \in B : \E k \in 1 .. m : f[k] = i
    BY <1>5
  <1>11. \A k, l \in 1 .. m : k < l => f[k] < f[l]
    BY <1>4, <1>5, <1>6
  <1>12. \A h \in B : h \in Nat
    BY <1>2, <1>4, <1>6
  <1>13. \A k \in 1 .. m : f[k] = Position(I, Position(J, k))
    OBVIOUS
  <1> HIDE DEF f, B
  <1>14. Cardinality(B) = m /\ \A k \in 1 .. m : Position(B, k) = f[k]
    <2>1. Enumerates(f, m, B)
      BY <1>3, <1>9, <1>10, <1>11, <1>12 DEF Enumerates
    <2> QED BY <2>1, PositionsEnumerated
  <1>15. Keep(s, B) = [k \in 1 .. m |-> s[Position(B, k)]]
    BY <1>14 DEF Keep
  <1>16. \A k \in 1 .. m : Keep(s, I)[Position(J, k)] = s[Position(B, k)]
    <2> SUFFICES ASSUME NEW k \in 1 .. m
                 PROVE  Keep(s, I)[Position(J, k)] = s[Position(B, k)]
      OBVIOUS
    <2>1. Position(J, k) \in 1 .. c
      BY <1>5, <1>6
    <2>2. Keep(s, I)[Position(J, k)] = s[Position(I, Position(J, k))]
      BY <1>7, <2>1
    <2> QED BY <1>13, <1>14, <2>2
  <1>17. Keep(Keep(s, I), J) = Keep(s, B)
    BY <1>8, <1>15, <1>16
  <1> QED BY <1>17 DEF B

(* An element added at the end is kept at the end, or not at all.          *)
LEMMA KeepAppend ==
    ASSUME NEW S, NEW s \in Seq(S), NEW x \in S, NEW I \in SUBSET (1 .. Len(s))
    PROVE  /\ Keep(Append(s, x), I) = Keep(s, I)
           /\ Keep(Append(s, x), I \union {Len(s) + 1}) = Append(Keep(s, I), x)
  <1> DEFINE n == Len(s)
             c == Cardinality(I)
             B == I \union {n + 1}
             r == Append(s, x)
             f == [k \in 1 .. c + 1 |-> IF k = c + 1 THEN n + 1 ELSE Position(I, k)]
  <1>1. n \in Nat
    BY LenProperties
  <1>2. IsFiniteSet(I) /\ c \in Nat /\ \A h \in I : h \in Nat
    BY <1>1, PositionsFinite
  <1>3. /\ \A k \in 1 .. c : Position(I, k) \in I
        /\ \A i \in I : Rank(I, i) \in 1 .. c /\ Position(I, Rank(I, i)) = i
        /\ \A k, l \in 1 .. c : k < l => Position(I, k) < Position(I, l)
    BY <1>2, PositionProperties
  <1>4. r \in Seq(S) /\ Len(r) = n + 1 /\ r[n + 1] = x /\ \A i \in 1 .. n : r[i] = s[i]
    BY AppendProperties
  <1>5. I \subseteq 1 .. n
    OBVIOUS
  <1>6. /\ Keep(s, I) = [k \in 1 .. c |-> s[Position(I, k)]]
        /\ Keep(r, I) = [k \in 1 .. c |-> r[Position(I, k)]]
    BY DEF Keep
  <1>7. Keep(s, I) \in Seq(S) /\ Len(Keep(s, I)) = c
    BY KeepProperties
  <1> HIDE DEF n, c, r
  <1>8. Keep(r, I) = Keep(s, I)
    BY <1>3, <1>4, <1>5, <1>6
  <1>9. f \in [1 .. c + 1 -> B]
    <2>1. \A k \in 1 .. c + 1 : k = c + 1 \/ k \in 1 .. c
      BY <1>2
    <2> QED BY <1>3, <2>1
  <1>10. \A i \in B : \E k \in 1 .. c + 1 : f[k] = i
    <2> SUFFICES ASSUME NEW i \in B PROVE \E k \in 1 .. c + 1 : f[k] = i
      OBVIOUS
    <2>1. CASE i = n + 1
      <3>1. c + 1 \in 1 .. c + 1
        BY <1>2
      <3> QED BY <2>1, <3>1
    <2>2. CASE i \in I
      <3>1. Rank(I, i) \in 1 .. c + 1 /\ Rank(I, i) # c + 1 /\ Position(I, Rank(I, i)) = i
        BY <1>2, <1>3, <2>2
      <3> QED BY <3>1
    <2> QED BY <2>1, <2>2
  <1>11. \A k, l \in 1 .. c + 1 : k < l => f[k] < f[l]
    <2> SUFFICES ASSUME NEW k \in 1 .. c + 1, NEW l \in 1 .. c + 1, k < l PROVE f[k] < f[l]
      OBVIOUS
    <2>1. k \in 1 .. c /\ k # c + 1 /\ f[k] = Position(I, k)
      BY <1>2
    <2>2. CASE l = c + 1
      <3>1. f[l] = n + 1
        BY <2>2
      <3>2. Position(I, k) \in 1 .. n
        BY <1>3, <1>5, <2>1
      <3> QED BY <1>1, <2>1, <3>1, <3>2
    <2>3. CASE l # c + 1
      <3>1. l \in 1 .. c /\ f[l] = Position(I, l)
        BY <1>2, <2>3
      <3> QED BY <1>3, <2>1, <3>1
    <2> QED BY <2>2, <2>3
  <1>12. \A h \in B : h \in Nat
    BY <1>1, <1>2
  <1>13. \A k \in 1 .. c + 1 : f[k] = IF k = c + 1 THEN n + 1 ELSE Position(I, k)
    OBVIOUS
  <1>14. c + 1 \in Nat /\ n + 1 \in B
    BY <1>2
  <1> HIDE DEF f, B
  <1>15. Cardinality(B) = c + 1 /\ \A k \in 1 .. c + 1 : Position(B, k) = f[k]
    <2>1. Enumerates(f, c + 1, B)
      BY <1>9, <1>10, <1>11, <1>12, <1>14 DEF Enumerates
    <2> QED BY <2>1, PositionsEnumerated
  <1>16. Keep(r, B) = [k \in 1 .. c + 1 |-> r[Position(B, k)]]
    BY <1>15 DEF Keep
  <1>17. \A k \in 1 .. c + 1 : k \in 1 .. c \/ k = c + 1
    BY <1>2
  <1>18. /\ \A k \in 1 .. c : Keep(r, B)[k] = Keep(s, I)[k]
         /\ Keep(r, B)[c + 1] = x
    <2>1. ASSUME NEW k \in 1 .. c PROVE Keep(r, B)[k] = Keep(s, I)[k]
      <3>1. k \in 1 .. c + 1 /\ k # c + 1
        BY <1>2
      <3>2. Keep(r, B)[k] = r[Position(I, k)]
        BY <1>13, <1>15, <1>16, <3>1
      <3>3. Position(I, k) \in 1 .. n
        BY <1>3, <1>5
      <3> QED BY <1>4, <1>6, <3>2, <3>3
    <2>2. c + 1 \in 1 .. c + 1
      BY <1>2
    <2> QED BY <1>4, <1>13, <1>15, <1>16, <2>1, <2>2
  <1> DEFINE a == Append(Keep(s, I), x)
  <1>19. /\ a \in Seq(S) /\ Len(a) = c + 1 /\ a[c + 1] = x
         /\ \A k \in 1 .. c : a[k] = Keep(s, I)[k]
    BY <1>7, AppendProperties
  <1> HIDE DEF a
  <1>20. Keep(r, B) \in Seq(S) /\ Len(Keep(r, B)) = c + 1
    <2>1. \A k \in 1 .. c + 1 : Keep(r, B)[k] \in S
      <3>1. \A k \in 1 .. c + 1 : Keep(r, B)[k] = a[k]
        BY <1>17, <1>18, <1>19
      <3>2. \A k \in 1 .. c + 1 : a[k] \in S
        BY <1>19, ElementOfSeq
      <3> QED BY <3>1, <3>2
    <2>2. Keep(r, B) \in [1 .. c + 1 -> S]
      BY <1>16, <2>1
    <2>3. Len(Keep(r, B)) = c + 1
      BY <1>14, <1>16
    <2> QED BY <1>14, <2>2, <2>3
  <1>21. Keep(r, B) = a
    <2>1. \A k \in 1 .. Len(Keep(r, B)) : Keep(r, B)[k] = a[k]
      BY <1>17, <1>18, <1>19, <1>20
    <2> QED BY <1>19, <1>20, <2>1, SeqEqual
  <1> QED
    BY <1>8, <1>21 DEF a, r, n, B
=============================================================================
