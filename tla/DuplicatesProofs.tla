-------------------------- MODULE DuplicatesProofs --------------------------
(***************************************************************************)
(* What is proved about the duplicate detector, for any number of          *)
(* messages, texts and entries, any window and any limits: DuplicatesInv   *)
(* is inductive, and from it follow that the trackers are those of a       *)
(* recount, that each message is counted for the text it has, that nobody  *)
(* is flagged below the threshold or missed at it, and which messages are  *)
(* deleted along with a flagged one.                                       *)
(*                                                                         *)
(* The ids of a tracker are the column of the ids at some positions of the *)
(* entries: taking an entry out, or a message in, changes the positions.   *)
(***************************************************************************)
EXTENDS Duplicates, SubsequenceProofs

Entry == [text : Texts, id : Ids \union {0}, age : 0 .. Window]

\* No message has two entries.
Distinct(es) == \A i, j \in DOMAIN es : es[i].id > 0 /\ es[j].id = es[i].id => i = j

\* The ids of the entries, and the places of the messages with one text.
Column(es) == [i \in DOMAIN es |-> es[i].id]

IdPlaces(es, t) == {i \in Places(es, t) : es[i].id > 0}

----------------------------------------------------------------------------
(* Entries and their ids.                                                  *)

(* What every entry is.                                                    *)
LEMMA EntryFields ==
    ASSUME DuplicatesConstants, NEW es \in Seq(Entry)
    PROVE  /\ Len(es) \in Nat /\ DOMAIN es = 1 .. Len(es)
           /\ \A i \in 1 .. Len(es) : /\ es[i] \in Entry /\ es[i].text \in Texts
                                      /\ es[i].id \in Ids \union {0} /\ es[i].id \in Nat
                                      /\ es[i].age \in 0 .. Window
           /\ Column(es) \in Seq(Ids \union {0}) /\ Len(Column(es)) = Len(es)
           /\ DOMAIN Column(es) = 1 .. Len(es)
           /\ \A i \in 1 .. Len(es) : Column(es)[i] = es[i].id
  <1>1. Len(es) \in Nat /\ DOMAIN es = 1 .. Len(es)
    BY LenProperties
  <1>2. ASSUME NEW i \in 1 .. Len(es)
        PROVE  /\ es[i] \in Entry /\ es[i].text \in Texts
               /\ es[i].id \in Ids \union {0} /\ es[i].id \in Nat
               /\ es[i].age \in 0 .. Window
    <2>1. es[i] \in Entry
      BY ElementOfSeq
    <2>2. es[i].text \in Texts /\ es[i].id \in Ids \union {0} /\ es[i].age \in 0 .. Window
      BY <2>1 DEF Entry
    <2>3. es[i].id \in Nat
      <3>1. Ids \union {0} \subseteq Nat
        BY DEF DuplicatesConstants
      <3> QED BY <2>2, <3>1
    <2> QED BY <2>1, <2>2, <2>3
  <1> DEFINE n == Len(es)
             col == [i \in 1 .. n |-> es[i].id]
  <1>3. Column(es) = col
    BY <1>1 DEF Column
  <1>4. \A i \in 1 .. n : col[i] = es[i].id /\ col[i] \in Ids \union {0}
    BY <1>2
  <1>5. n \in Nat
    BY <1>1
  <1>6. col \in [1 .. n -> Ids \union {0}] /\ DOMAIN col = 1 .. n
    BY <1>2
  <1> HIDE DEF n, col
  <1>7. col \in Seq(Ids \union {0}) /\ Len(col) = n
    BY <1>5, <1>6
  <1> QED
    BY <1>1, <1>2, <1>3, <1>4, <1>6, <1>7 DEF n

(* The ids of a tracker are the ids of the entries at its places.          *)
LEMMA IdsOfColumn ==
    ASSUME DuplicatesConstants, NEW es \in Seq(Entry), NEW t
    PROVE  /\ IdPlaces(es, t) \in SUBSET (1 .. Len(es))
           /\ Places(es, t) \in SUBSET (1 .. Len(es))
           /\ IdsOf(es, t) = Keep(Column(es), IdPlaces(es, t))
           /\ IdsOf(es, t) \in Seq(Ids)
           /\ Len(IdsOf(es, t)) = Cardinality(IdPlaces(es, t))
           /\ Len(IdsOf(es, t)) \in Nat
           /\ DOMAIN IdsOf(es, t) = 1 .. Len(IdsOf(es, t))
  <1> DEFINE K == IdPlaces(es, t)
             c == Cardinality(K)
  <1>1. /\ Len(es) \in Nat /\ DOMAIN es = 1 .. Len(es)
        /\ \A i \in 1 .. Len(es) : es[i].id \in Ids \union {0} /\ es[i].id \in Nat
        /\ \A i \in 1 .. Len(es) : Column(es)[i] = es[i].id
    BY EntryFields
  <1>2. K \in SUBSET (1 .. Len(es)) /\ Places(es, t) \in SUBSET (1 .. Len(es))
    BY <1>1 DEF IdPlaces, Places
  <1>3. K = {i \in Places(es, t) : es[i].id > 0}
    BY DEF IdPlaces
  <1>4. \A i \in K : es[i].id > 0 /\ es[i].id \in Ids
    BY <1>1, <1>2, <1>3
  <1> HIDE DEF K
  <1>5. /\ c \in Nat /\ \A k \in 1 .. c : Position(K, k) \in K
    BY <1>2, KeepProperties
  <1>6. IdsOf(es, t) = [k \in DOMAIN Keep(es, K) |-> Keep(es, K)[k].id]
    BY <1>3 DEF IdsOf
  <1>7. Keep(es, K) = [k \in 1 .. c |-> es[Position(K, k)]]
    BY DEF Keep
  <1>8. Keep(Column(es), K) = [k \in 1 .. c |-> Column(es)[Position(K, k)]]
    BY DEF Keep
  <1> HIDE DEF c
  <1>9. DOMAIN Keep(es, K) = 1 .. c
    BY <1>7
  <1>10. \A k \in 1 .. c : Keep(es, K)[k].id = Column(es)[Position(K, k)]
    BY <1>1, <1>2, <1>5, <1>7
  <1>11. IdsOf(es, t) = Keep(Column(es), K)
    BY <1>6, <1>8, <1>9, <1>10
  <1>12. \A k \in 1 .. c : Column(es)[Position(K, k)] \in Ids
    BY <1>1, <1>2, <1>4, <1>5
  <1>13. IdsOf(es, t) \in [1 .. c -> Ids]
    BY <1>8, <1>11, <1>12
  <1>14. IdsOf(es, t) \in Seq(Ids) /\ Len(IdsOf(es, t)) = c /\ DOMAIN IdsOf(es, t) = 1 .. c
    BY <1>5, <1>13
  <1> QED
    BY <1>2, <1>5, <1>11, <1>14 DEF K, c

(* A text without entries has no ids.                                      *)
LEMMA NoPlacesNoIds ==
    ASSUME DuplicatesConstants, NEW es \in Seq(Entry), NEW t, Cardinality(Places(es, t)) = 0
    PROVE  IdsOf(es, t) = <<>>
  <1>1. /\ IdPlaces(es, t) \in SUBSET (1 .. Len(es)) /\ Places(es, t) \in SUBSET (1 .. Len(es))
        /\ IdsOf(es, t) = Keep(Column(es), IdPlaces(es, t))
    BY IdsOfColumn
  <1>2. Len(es) \in Nat
    BY LenProperties
  <1>3. IsFiniteSet(Places(es, t))
    BY <1>1, <1>2, PositionsFinite
  <1>4. Places(es, t) = {}
    BY <1>3, FS_EmptySet
  <1>5. IdPlaces(es, t) = {}
    BY <1>4 DEF IdPlaces
  <1>6. /\ Column(es) \in Seq(Ids \union {0}) /\ Len(Column(es)) = Len(es)
    BY EntryFields
  <1>7. IdPlaces(es, t) \in SUBSET (1 .. Len(Column(es)))
    BY <1>1, <1>6
  <1> QED
    BY <1>1, <1>5, <1>6, <1>7, KeepEmpty

(* Each of them is the id of an entry with the text, and none is left out. *)
LEMMA IdsOfElements ==
    ASSUME DuplicatesConstants, NEW es \in Seq(Entry), NEW t
    PROVE  /\ \A k \in 1 .. Len(IdsOf(es, t)) :
                \E i \in 1 .. Len(es) : /\ es[i].text = t /\ es[i].id > 0
                                        /\ IdsOf(es, t)[k] = es[i].id
           /\ \A i \in 1 .. Len(es) :
                es[i].text = t /\ es[i].id > 0 => \E k \in 1 .. Len(IdsOf(es, t)) : IdsOf(es, t)[k] = es[i].id
  <1> DEFINE K == IdPlaces(es, t)
             c == Cardinality(K)
             col == Column(es)
  <1>1. /\ Len(es) \in Nat /\ DOMAIN es = 1 .. Len(es)
        /\ col \in Seq(Ids \union {0}) /\ Len(col) = Len(es)
        /\ \A i \in 1 .. Len(es) : col[i] = es[i].id
    BY EntryFields
  <1>2. /\ K \in SUBSET (1 .. Len(es))
        /\ IdsOf(es, t) = Keep(col, K) /\ Len(IdsOf(es, t)) = c
    BY IdsOfColumn
  <1>3. \A i \in 1 .. Len(es) : i \in K <=> es[i].text = t /\ es[i].id > 0
    BY <1>1 DEF IdPlaces, Places
  <1> HIDE DEF K, col
  <1>4. K \in SUBSET (1 .. Len(col))
    BY <1>1, <1>2
  <1>5. /\ \A k \in 1 .. c : Position(K, k) \in K /\ Keep(col, K)[k] = col[Position(K, k)]
        /\ \A i \in K : Rank(K, i) \in 1 .. c /\ Keep(col, K)[Rank(K, i)] = col[i]
    <2>1. col \in Seq(Ids \union {0})
      BY <1>1
    <2> QED BY <2>1, <1>4, KeepProperties
  <1> HIDE DEF c
  <1>6. ASSUME NEW k \in 1 .. c
        PROVE  \E i \in 1 .. Len(es) : es[i].text = t /\ es[i].id > 0 /\ IdsOf(es, t)[k] = es[i].id
    <2>1. PICK i \in K : Keep(col, K)[k] = col[i]
      BY <1>5
    <2>2. i \in 1 .. Len(es)
      BY <1>2
    <2> QED BY <1>1, <1>2, <1>3, <2>1, <2>2
  <1>7. ASSUME NEW i \in 1 .. Len(es), es[i].text = t, es[i].id > 0
        PROVE  \E k \in 1 .. c : IdsOf(es, t)[k] = es[i].id
    <2>1. i \in K
      BY <1>3, <1>7
    <2>2. Rank(K, i) \in 1 .. c /\ Keep(col, K)[Rank(K, i)] = col[i]
      BY <1>5, <2>1
    <2> QED BY <1>1, <1>2, <2>2
  <1> QED
    BY <1>2, <1>6, <1>7

(* No id occurs twice in a tracker when no message has two entries.        *)
LEMMA IdsOfDistinct ==
    ASSUME DuplicatesConstants, NEW es \in Seq(Entry), NEW t, Distinct(es)
    PROVE  \A k, l \in 1 .. Len(IdsOf(es, t)) : IdsOf(es, t)[k] = IdsOf(es, t)[l] => k = l
  <1> DEFINE K == IdPlaces(es, t)
             c == Cardinality(K)
             col == Column(es)
  <1>1. /\ Len(es) \in Nat /\ DOMAIN es = 1 .. Len(es)
        /\ \A i \in 1 .. Len(es) : col[i] = es[i].id
    BY EntryFields
  <1>2. /\ K \in SUBSET (1 .. Len(es))
        /\ IdsOf(es, t) = Keep(col, K) /\ Len(IdsOf(es, t)) = c
    BY IdsOfColumn
  <1>3. \A i \in K : es[i].id > 0
    BY DEF IdPlaces
  <1> HIDE DEF K, col
  <1>4. IsFiniteSet(K) /\ \A h \in K : h \in Nat
    BY <1>1, <1>2, PositionsFinite
  <1>5. /\ c \in Nat /\ \A k \in 1 .. c : Position(K, k) \in K /\ Rank(K, Position(K, k)) = k
    BY <1>4, PositionProperties
  <1>6. \A k \in 1 .. c : Keep(col, K)[k] = col[Position(K, k)]
    BY DEF Keep
  <1> HIDE DEF c
  <1>7. ASSUME NEW k \in 1 .. c, NEW l \in 1 .. c, IdsOf(es, t)[k] = IdsOf(es, t)[l]
        PROVE  k = l
    <2>1. PICK i \in K : i = Position(K, k)
      BY <1>5
    <2>2. PICK j \in K : j = Position(K, l)
      BY <1>5
    <2>3. col[i] = col[j]
      BY <1>2, <1>6, <1>7, <2>1, <2>2
    <2>4. i \in DOMAIN es /\ j \in DOMAIN es /\ es[i].id > 0 /\ es[j].id = es[i].id
      BY <1>1, <1>2, <1>3, <2>3
    <2>5. i = j
      BY <2>4 DEF Distinct
    <2> QED BY <1>5, <2>1, <2>2, <2>5
  <1> QED
    BY <1>2, <1>7

----------------------------------------------------------------------------
(* Counts and ids when entries are taken out or added.                     *)

(* The entries that are left are counted at their former places.           *)
LEMMA RecountKept ==
    ASSUME DuplicatesConstants, NEW es \in Seq(Entry), NEW J \in SUBSET (1 .. Len(es)), NEW t
    PROVE  /\ Keep(es, J) \in Seq(Entry)
           /\ Cardinality(Places(Keep(es, J), t)) = Cardinality(J \cap Places(es, t))
           /\ IdsOf(Keep(es, J), t) = Keep(Column(es), J \cap IdPlaces(es, t))
  <1> DEFINE r == Keep(es, J)
             c == Cardinality(J)
             P == Places(r, t)
             Q == J \cap Places(es, t)
             K == IdPlaces(r, t)
             L == J \cap IdPlaces(es, t)
             col == Column(es)
             f == [k \in P |-> Position(J, k)]
  <1>1. /\ Len(es) \in Nat /\ DOMAIN es = 1 .. Len(es)
        /\ col \in Seq(Ids \union {0}) /\ Len(col) = Len(es)
        /\ \A i \in 1 .. Len(es) : col[i] = es[i].id
    BY EntryFields
  <1>2. r \in Seq(Entry) /\ c \in Nat /\ Len(r) = c /\ \A k \in 1 .. c : r[k] = es[Position(J, k)]
    <2>1. r \in Seq(Entry) /\ c \in Nat /\ Len(r) = c
      BY KeepProperties
    <2>2. r = [k \in 1 .. c |-> es[Position(J, k)]]
      BY DEF Keep
    <2> HIDE DEF r, c
    <2> QED BY <2>1, <2>2
  <1>3. IsFiniteSet(J) /\ \A h \in J : h \in Nat
    BY <1>1, PositionsFinite
  <1>4. /\ \A k \in 1 .. c : Position(J, k) \in J /\ Rank(J, Position(J, k)) = k
        /\ \A i \in J : Rank(J, i) \in 1 .. c /\ Position(J, Rank(J, i)) = i
    BY <1>3, PositionProperties
  <1>5. /\ DOMAIN r = 1 .. c
        /\ Column(r) \in Seq(Ids \union {0}) /\ Len(Column(r)) = c /\ DOMAIN Column(r) = 1 .. c
        /\ \A k \in 1 .. c : Column(r)[k] = r[k].id
    <2>1. /\ DOMAIN r = 1 .. Len(r)
          /\ Column(r) \in Seq(Ids \union {0}) /\ Len(Column(r)) = Len(r)
          /\ DOMAIN Column(r) = 1 .. Len(r)
          /\ \A k \in 1 .. Len(r) : Column(r)[k] = r[k].id
      BY <1>2, EntryFields
    <2> QED BY <1>2, <2>1
  <1>6. Keep(col, J) = [k \in 1 .. c |-> col[Position(J, k)]]
    BY DEF Keep
  <1>7. Column(r) = [k \in 1 .. c |-> r[k].id]
    BY <1>5 DEF Column
  <1> HIDE DEF r, c
  <1>8. \A k : k \in P <=> k \in 1 .. c /\ es[Position(J, k)].text = t
    BY <1>2, <1>5 DEF Places
  <1>9. \A k : k \in K <=> k \in P /\ es[Position(J, k)].id > 0
    BY <1>2, <1>8 DEF IdPlaces
  <1>10. \A i : i \in Q <=> i \in J /\ es[i].text = t
    BY <1>1 DEF Places
  <1>11. \A i : i \in L <=> i \in Q /\ es[i].id > 0
    BY DEF IdPlaces
  <1>12. Cardinality(P) = Cardinality(Q)
    <2>1. P \in SUBSET (1 .. c) /\ c \in Nat
      BY <1>2, <1>8
    <2> HIDE DEF P, Q
    <2>2. IsFiniteSet(P)
      BY <2>1, PositionsFinite
    <2>3. f \in [P -> Q]
      BY <1>4, <1>8, <1>10
    <2>4. \A i \in Q : \E k \in P : f[k] = i
      BY <1>4, <1>8, <1>10
    <2>5. \A k, l \in P : f[k] = f[l] => k = l
      BY <1>4, <1>8
    <2> HIDE DEF f
    <2>6. f \in Surjection(P, Q) /\ f \in Injection(P, Q)
      BY <2>3, <2>4, <2>5 DEF Surjection, Injection, IsInjective
    <2> QED BY <2>2, <2>6, FS_Surjection
  <1>13. IdsOf(r, t) = Keep(Column(r), K)
    BY <1>2, IdsOfColumn
  <1>14. Column(r) = Keep(col, J)
    <2>1. \A k \in 1 .. c : r[k].id = col[Position(J, k)]
      BY <1>1, <1>2, <1>4
    <2> QED BY <1>6, <1>7, <2>1
  <1>15. {Position(J, k) : k \in K} = L
    <2>1. ASSUME NEW k \in K PROVE Position(J, k) \in L
      BY <1>4, <1>8, <1>9, <1>10, <1>11
    <2>2. ASSUME NEW i \in L PROVE \E k \in K : i = Position(J, k)
      <3>1. Rank(J, i) \in 1 .. c /\ Position(J, Rank(J, i)) = i
        BY <1>4, <1>10, <1>11
      <3>2. Rank(J, i) \in K
        BY <1>8, <1>9, <1>10, <1>11, <3>1
      <3> QED BY <3>1, <3>2
    <2> HIDE DEF K, L
    <2> QED BY <2>1, <2>2
  <1>16. Keep(Keep(col, J), K) = Keep(col, {Position(J, k) : k \in K})
    <2>1. K \in SUBSET (1 .. Cardinality(J))
      BY <1>8, <1>9 DEF c
    <2>2. J \in SUBSET (1 .. Len(col)) /\ col \in Seq(Ids \union {0})
      BY <1>1
    <2> HIDE DEF K, col
    <2> QED BY <2>1, <2>2, KeepKeep
  <1>17. IdsOf(r, t) = Keep(col, L)
    BY <1>13, <1>14, <1>15, <1>16
  <1> QED
    BY <1>2, <1>12, <1>17 DEF r

(* An entry added at the end is counted for its text, its id comes last.   *)
LEMMA RecountAppended ==
    ASSUME DuplicatesConstants, NEW es \in Seq(Entry), NEW e \in Entry, NEW t
    PROVE  /\ Cardinality(Places(es, t)) \in Nat
           /\ Cardinality(Places(Append(es, e), t)) =
                IF e.text = t THEN Cardinality(Places(es, t)) + 1 ELSE Cardinality(Places(es, t))
           /\ IdsOf(Append(es, e), t) =
                IF e.text = t /\ e.id > 0 THEN Append(IdsOf(es, t), e.id) ELSE IdsOf(es, t)
  <1> DEFINE n == Len(es)
             r == Append(es, e)
             col == Column(es)
             P == Places(es, t)
             K == IdPlaces(es, t)
  <1>1. /\ n \in Nat /\ DOMAIN es = 1 .. n
        /\ col \in Seq(Ids \union {0}) /\ Len(col) = n
        /\ \A i \in 1 .. n : col[i] = es[i].id /\ es[i].id \in Ids \union {0}
    BY EntryFields
  <1>2. r \in Seq(Entry) /\ Len(r) = n + 1 /\ r[n + 1] = e /\ \A i \in 1 .. n : r[i] = es[i]
    BY AppendProperties
  <1>3. DOMAIN r = 1 .. n + 1
    BY <1>2, LenProperties
  <1>4. e.id \in Ids \union {0}
    BY DEF Entry
  <1>5. /\ P \in SUBSET (1 .. n) /\ K \in SUBSET (1 .. n)
        /\ IdsOf(es, t) = Keep(col, K)
    BY IdsOfColumn
  <1>6. \A i : i \in P <=> i \in 1 .. n /\ es[i].text = t
    BY <1>1 DEF Places
  <1>7. \A i : i \in K <=> i \in P /\ es[i].id > 0
    BY DEF IdPlaces
  <1>8. \A i : i \in Places(r, t) <=> i \in 1 .. n + 1 /\ r[i].text = t
    BY <1>3 DEF Places
  <1>9. \A i : i \in IdPlaces(r, t) <=> i \in Places(r, t) /\ r[i].id > 0
    BY DEF IdPlaces
  <1>10. IdsOf(r, t) = Keep(Column(r), IdPlaces(r, t))
    BY <1>2, IdsOfColumn
  <1>11. Column(r) = Append(col, e.id)
    <2>1. /\ Column(r) \in Seq(Ids \union {0}) /\ Len(Column(r)) = Len(r)
          /\ \A i \in 1 .. Len(r) : Column(r)[i] = r[i].id
      BY <1>2, EntryFields
    <2> DEFINE a == Append(col, e.id)
    <2> HIDE DEF col, n
    <2>2. /\ a \in Seq(Ids \union {0}) /\ Len(a) = Len(col) + 1
          /\ \A i \in 1 .. Len(col) : a[i] = col[i]
          /\ a[Len(col) + 1] = e.id
      BY <1>1, <1>4, AppendProperties
    <2> HIDE DEF a, r
    <2>3. \A i \in 1 .. Len(Column(r)) : Column(r)[i] = a[i]
      <3> SUFFICES ASSUME NEW i \in 1 .. n + 1 PROVE Column(r)[i] = a[i]
        BY <1>2, <2>1
      <3>1. i \in 1 .. n \/ i = n + 1
        BY <1>1
      <3> QED BY <1>1, <1>2, <2>1, <2>2, <3>1
    <2>4. Len(Column(r)) = Len(a)
      BY <1>1, <1>2, <2>1, <2>2
    <2>5. Column(r) = a
      BY <2>1, <2>2, <2>3, <2>4, SeqEqual
    <2> QED BY <2>5 DEF a
  <1>12. IsFiniteSet(P) /\ Cardinality(P) \in Nat
    BY <1>1, <1>5, PositionsFinite
  <1> HIDE DEF n, r, col, P, K
  <1>13. \A i \in 1 .. n + 1 : (i \in 1 .. n /\ i # n + 1) \/ (i = n + 1 /\ i \notin 1 .. n)
    BY <1>1
  <1>14. 1 .. n \subseteq 1 .. n + 1 /\ n + 1 \in 1 .. n + 1
    BY <1>1
  <1>15. Places(r, t) = IF e.text = t THEN P \union {n + 1} ELSE P
    BY <1>2, <1>6, <1>8, <1>13, <1>14
  <1>16. IdPlaces(r, t) = IF e.text = t /\ e.id > 0 THEN K \union {n + 1} ELSE K
    <2>1. ASSUME NEW i PROVE i \in IdPlaces(r, t) <=> i \in K \/ (e.text = t /\ e.id > 0 /\ i = n + 1)
      <3>1. CASE i \in 1 .. n
        BY <1>2, <1>6, <1>7, <1>8, <1>9, <1>13, <1>14, <3>1
      <3>2. CASE i \notin 1 .. n
        BY <1>2, <1>6, <1>7, <1>8, <1>9, <1>13, <1>14, <3>2
      <3> QED BY <3>1, <3>2
    <2>2. CASE e.text = t /\ e.id > 0
      BY <2>1, <2>2
    <2>3. CASE ~(e.text = t /\ e.id > 0)
      BY <2>1, <2>3
    <2> QED BY <2>2, <2>3
  <1>17. Cardinality(Places(r, t)) = IF e.text = t THEN Cardinality(P) + 1 ELSE Cardinality(P)
    <2>1. n + 1 \notin P
      BY <1>1, <1>5
    <2> QED BY <1>12, <1>15, <2>1, FS_AddElement
  <1>18. IdsOf(r, t) = IF e.text = t /\ e.id > 0 THEN Append(IdsOf(es, t), e.id) ELSE IdsOf(es, t)
    <2>1. /\ Keep(Append(col, e.id), K) = Keep(col, K)
          /\ Keep(Append(col, e.id), K \union {Len(col) + 1}) = Append(Keep(col, K), e.id)
      <3> DEFINE S == Ids \union {0}
      <3>1. K \in SUBSET (1 .. Len(col))
        BY <1>1, <1>5
      <3>2. col \in Seq(S)
        BY <1>1
      <3>3. PICK x : x = e.id
        OBVIOUS
      <3>4. x \in S
        BY <1>4, <3>3
      <3> HIDE DEF S
      <3>5. Keep(Append(col, x), K) = Keep(col, K)
        BY <3>1, <3>2, <3>4, KeepAppend
      <3>6. Keep(Append(col, x), K \union {Len(col) + 1}) = Append(Keep(col, K), x)
        BY <3>1, <3>2, <3>4, KeepAppend
      <3> QED BY <3>3, <3>5, <3>6
    <2> QED BY <1>1, <1>5, <1>10, <1>11, <1>16, <2>1
  <1> QED
    BY <1>12, <1>17, <1>18 DEF r, P

(* Taking an id out of the ids at some positions takes its position out.   *)
LEMMA RemovePresent ==
    ASSUME NEW S, NEW s \in Seq(S), NEW K \in SUBSET (1 .. Len(s)), NEW o \in K,
           \A i \in K : s[i] = s[o] => i = o
    PROVE  RemoveMessageID(Keep(s, K), s[o]) = Keep(s, K \ {o})
  <1> DEFINE ids == Keep(s, K)
             c == Cardinality(K)
             R == {i \in DOMAIN ids : ids[i] = s[o] => \E j \in DOMAIN ids : j < i /\ ids[j] = s[o]}
  <1>1. Len(s) \in Nat
    BY LenProperties
  <1>2. IsFiniteSet(K) /\ \A h \in K : h \in Nat
    BY <1>1, PositionsFinite
  <1>3. /\ c \in Nat
        /\ \A k \in 1 .. c : Position(K, k) \in K /\ Rank(K, Position(K, k)) = k
        /\ \A i \in K : Rank(K, i) \in 1 .. c /\ Position(K, Rank(K, i)) = i
    BY <1>2, PositionProperties
  <1>4. ids = [k \in 1 .. c |-> s[Position(K, k)]]
    BY DEF Keep
  <1>5. RemoveMessageID(ids, s[o]) = Keep(ids, R)
    BY DEF RemoveMessageID
  <1> HIDE DEF ids, c
  <1>6. DOMAIN ids = 1 .. c /\ \A k \in 1 .. c : ids[k] = s[Position(K, k)]
    BY <1>4
  <1>7. \A k \in 1 .. c : ids[k] = s[o] <=> Position(K, k) = o
    BY <1>3, <1>6
  <1>8. \A k, l \in 1 .. c : Position(K, k) = Position(K, l) => k = l
    BY <1>3
  <1>9. \A k : k \in R <=> k \in 1 .. c /\ Position(K, k) # o
    <2>1. ASSUME NEW k \in 1 .. c PROVE k \in R <=> Position(K, k) # o
      <3>1. CASE Position(K, k) # o
        BY <1>6, <1>7, <3>1
      <3>2. CASE Position(K, k) = o
        <4>1. \A j \in 1 .. c : ids[j] = s[o] => j = k
          BY <1>7, <1>8, <3>2
        <4>2. ~(k < k)
          BY <1>3
        <4> QED BY <1>6, <1>7, <3>2, <4>1, <4>2
      <3> QED BY <3>1, <3>2
    <2> QED BY <1>6, <2>1
  <1> HIDE DEF R
  <1>10. {Position(K, k) : k \in R} = K \ {o}
    BY <1>3, <1>9
  <1>11. Keep(ids, R) = Keep(s, {Position(K, k) : k \in R})
    <2>1. R \in SUBSET (1 .. Cardinality(K))
      BY <1>9 DEF c
    <2> QED BY <2>1, KeepKeep DEF ids
  <1>12. RemoveMessageID(ids, s[o]) = Keep(s, K \ {o})
    BY <1>5, <1>10, <1>11
  <1> QED
    BY <1>12 DEF ids

(* Taking out an id that is not there changes nothing.                     *)
LEMMA RemoveAbsent ==
    ASSUME NEW S, NEW ids \in Seq(S), NEW id, \A i \in DOMAIN ids : ids[i] # id
    PROVE  RemoveMessageID(ids, id) = ids
  <1>1. {i \in DOMAIN ids : ids[i] = id => \E j \in DOMAIN ids : j < i /\ ids[j] = id} = DOMAIN ids
    OBVIOUS
  <1>2. Keep(ids, DOMAIN ids) = ids
    BY KeepAll
  <1> QED
    BY <1>1, <1>2 DEF RemoveMessageID

(* A sequence without its first m elements.                                *)
LEMMA SuffixProperties ==
    ASSUME NEW S, NEW s \in Seq(S), NEW m \in 0 .. Len(s)
    PROVE  /\ SubSeq(s, m + 1, Len(s)) \in Seq(S)
           /\ Len(SubSeq(s, m + 1, Len(s))) = Len(s) - m
           /\ \A k \in 1 .. Len(s) - m : SubSeq(s, m + 1, Len(s))[k] = s[m + k]
           /\ m = 0 => SubSeq(s, m + 1, Len(s)) = s
  <1> DEFINE n == Len(s)
             r == SubSeq(s, m + 1, n)
  <1>1. n \in Nat /\ \A i \in 1 .. n : s[i] \in S
    BY LenProperties, ElementOfSeq
  <1>2. m \in Int /\ n \in Int /\ m + 1 \in Int /\ m <= n /\ 0 <= m
    BY <1>1
  <1>3. \A i \in m + 1 .. n : s[i] \in S
    BY <1>1, <1>2
  <1>4. /\ r \in Seq(S)
        /\ Len(r) = IF m + 1 <= n THEN n - (m + 1) + 1 ELSE 0
        /\ \A k \in 1 .. n - (m + 1) + 1 : r[k] = s[(m + 1) + k - 1]
    BY <1>2, <1>3, SubSeqProperties
  <1> HIDE DEF n, r
  <1>5. Len(r) = n - m
    BY <1>2, <1>4
  <1>6. \A k \in 1 .. n - m : r[k] = s[m + k]
    <2> SUFFICES ASSUME NEW k \in 1 .. n - m PROVE r[k] = s[m + k]
      OBVIOUS
    <2>1. k \in 1 .. n - (m + 1) + 1 /\ (m + 1) + k - 1 = m + k
      BY <1>2
    <2> QED BY <1>4, <2>1
  <1>7. ASSUME m = 0 PROVE r = s
    <2>1. Len(r) = Len(s)
      BY <1>2, <1>5, <1>7 DEF n
    <2>2. \A k \in 1 .. Len(r) : r[k] = s[k]
      BY <1>2, <1>5, <1>6, <1>7
    <2> QED BY <1>4, <2>1, <2>2, SeqEqual
  <1> QED
    BY <1>4, <1>5, <1>6, <1>7 DEF n, r

(* What one entry less means for the tracker of each text.                 *)
LEMMA WithoutEntry ==
    ASSUME DuplicatesConstants, NEW es \in Seq(Entry), Distinct(es), NEW o \in 1 .. Len(es), NEW t
    PROVE  LET r == Keep(es, (1 .. Len(es)) \ {o})
           IN  /\ r \in Seq(Entry)
               /\ Cardinality(Places(es, t)) \in Nat
               /\ es[o].text # t => /\ Cardinality(Places(r, t)) = Cardinality(Places(es, t))
                                    /\ IdsOf(r, t) = IdsOf(es, t)
               /\ es[o].text = t => /\ Cardinality(Places(r, t)) = Cardinality(Places(es, t)) - 1
                                    /\ IdsOf(r, t) = RemoveMessageID(IdsOf(es, t), es[o].id)
  <1> DEFINE n == Len(es)
             J == (1 .. n) \ {o}
             r == Keep(es, J)
             P == Places(es, t)
             K == IdPlaces(es, t)
             col == Column(es)
             S == Ids \union {0}
  <1>1. /\ n \in Nat /\ DOMAIN es = 1 .. n
        /\ col \in Seq(S) /\ Len(col) = n
        /\ \A i \in 1 .. n : col[i] = es[i].id /\ es[i].id \in Ids \union {0} /\ es[i].id \in Nat
    BY EntryFields
  <1>2. /\ P \in SUBSET (1 .. n) /\ K \in SUBSET (1 .. n)
        /\ IdsOf(es, t) = Keep(col, K) /\ IdsOf(es, t) \in Seq(Ids)
    BY IdsOfColumn
  <1>3. r \in Seq(Entry)
    <2>1. J \in SUBSET (1 .. Len(es))
      OBVIOUS
    <2> QED BY <2>1, RecountKept
  <1>4. Cardinality(Places(r, t)) = Cardinality(J \cap P)
    <2>1. J \in SUBSET (1 .. Len(es))
      OBVIOUS
    <2> HIDE DEF J
    <2> QED BY <2>1, RecountKept
  <1>5. IdsOf(r, t) = Keep(col, J \cap K)
    <2>1. J \in SUBSET (1 .. Len(es))
      OBVIOUS
    <2> HIDE DEF J
    <2> QED BY <2>1, RecountKept
  <1>6. \A i : i \in P <=> i \in 1 .. n /\ es[i].text = t
    BY <1>1 DEF Places
  <1>7. \A i : i \in K <=> i \in P /\ es[i].id > 0
    BY DEF IdPlaces
  <1> HIDE DEF n, r, P, K, col, S
  <1>8. J \cap P = P \ {o} /\ J \cap K = K \ {o}
    BY <1>2
  <1> HIDE DEF J
  <1>9. IsFiniteSet(P) /\ Cardinality(P) \in Nat
    BY <1>1, <1>2, PositionsFinite
  <1>10. o \in 1 .. n
    BY DEF n
  <1>11. ASSUME es[o].text # t
         PROVE  Cardinality(Places(r, t)) = Cardinality(P) /\ IdsOf(r, t) = IdsOf(es, t)
    <2>1. P \ {o} = P /\ K \ {o} = K
      BY <1>6, <1>7, <1>11
    <2> QED BY <1>2, <1>4, <1>5, <1>8, <2>1
  <1>12. ASSUME es[o].text = t
         PROVE  /\ Cardinality(Places(r, t)) = Cardinality(P) - 1
                /\ IdsOf(r, t) = RemoveMessageID(IdsOf(es, t), es[o].id)
    <2>1. o \in P
      BY <1>6, <1>10, <1>12
    <2>2. IsFiniteSet(P \ {o}) /\ Cardinality(P \ {o}) = Cardinality(P) - 1
      BY <1>9, <2>1, FS_RemoveElement
    <2>3. IdsOf(r, t) = RemoveMessageID(IdsOf(es, t), es[o].id)
      <3>1. CASE es[o].id > 0
        <4>1. o \in K
          BY <1>7, <2>1, <3>1
        <4>2. \A i \in K : col[i] = col[o] => i = o
          <5> SUFFICES ASSUME NEW i \in K, col[i] = col[o] PROVE i = o
            OBVIOUS
          <5>1. i \in DOMAIN es /\ o \in DOMAIN es /\ es[o].id > 0 /\ es[i].id = es[o].id
            BY <1>1, <1>2, <1>10, <3>1
          <5> QED BY <5>1 DEF Distinct
        <4>3. K \in SUBSET (1 .. Len(col))
          BY <1>1, <1>2
        <4>4. RemoveMessageID(Keep(col, K), col[o]) = Keep(col, K \ {o})
          BY <1>1, <4>1, <4>2, <4>3, RemovePresent
        <4> QED BY <1>1, <1>2, <1>5, <1>8, <1>10, <4>4
      <3>2. CASE ~(es[o].id > 0)
        <4>1. es[o].id \notin Ids
          BY <1>1, <1>10, <3>2 DEF DuplicatesConstants
        <4>2. K \ {o} = K
          BY <1>7, <3>2
        <4>3. \A i \in DOMAIN IdsOf(es, t) : IdsOf(es, t)[i] # es[o].id
          <5>1. \A i \in DOMAIN IdsOf(es, t) : IdsOf(es, t)[i] \in Ids
            BY <1>2, ElementOfSeq, LenProperties
          <5> QED BY <4>1, <5>1
        <4>4. RemoveMessageID(IdsOf(es, t), es[o].id) = IdsOf(es, t)
          BY <1>2, <4>3, RemoveAbsent
        <4> QED BY <1>2, <1>5, <1>8, <4>2, <4>4
      <3> QED BY <3>1, <3>2
    <2> QED BY <1>4, <1>8, <2>2, <2>3
  <1> QED
    BY <1>3, <1>9, <1>11, <1>12 DEF r, J, n, P

(* Taking an entry out of a recount is the recount without the entry.      *)
LEMMA UntrackRecounted ==
    ASSUME DuplicatesConstants, NEW es \in Seq(Entry), Distinct(es), NEW o \in 1 .. Len(es)
    PROVE  Untrack(Trackers(es), es[o]) = Trackers(Keep(es, (1 .. Len(es)) \ {o}))
  <1> DEFINE r == Keep(es, (1 .. Len(es)) \ {o})
             T == Trackers(es)
             U == Untrack(T, es[o])
  <1>1. /\ T = [t \in Texts |-> [count |-> Cardinality(Places(es, t)), ids |-> IdsOf(es, t)]]
        /\ Trackers(r) = [t \in Texts |-> [count |-> Cardinality(Places(r, t)), ids |-> IdsOf(r, t)]]
    BY DEF Trackers
  <1>2. U = [t \in Texts |->
               IF t = es[o].text
               THEN IF T[t].count = 1 THEN NoTracker
                    ELSE [count |-> T[t].count - 1, ids |-> RemoveMessageID(T[t].ids, es[o].id)]
               ELSE T[t]]
    BY <1>1 DEF Untrack
  <1>3. ASSUME NEW t \in Texts
        PROVE  U[t] = [count |-> Cardinality(Places(r, t)), ids |-> IdsOf(r, t)]
    <2>1. /\ Cardinality(Places(es, t)) \in Nat
          /\ es[o].text # t => /\ Cardinality(Places(r, t)) = Cardinality(Places(es, t))
                               /\ IdsOf(r, t) = IdsOf(es, t)
          /\ es[o].text = t => /\ Cardinality(Places(r, t)) = Cardinality(Places(es, t)) - 1
                               /\ IdsOf(r, t) = RemoveMessageID(IdsOf(es, t), es[o].id)
      BY WithoutEntry
    <2>2. T[t].count = Cardinality(Places(es, t)) /\ T[t].ids = IdsOf(es, t)
      BY <1>1
    <2>3. T[t] = [count |-> Cardinality(Places(es, t)), ids |-> IdsOf(es, t)]
      BY <1>1
    <2> HIDE DEF T, r, U
    <2>4. CASE es[o].text # t
      BY <1>2, <2>1, <2>3, <2>4
    <2>5. CASE es[o].text = t /\ T[t].count = 1
      <3>1. U[t] = [count |-> 0, ids |-> <<>>]
        BY <1>2, <2>5 DEF NoTracker
      <3>2. Cardinality(Places(r, t)) = 0
        BY <2>1, <2>2, <2>5
      <3>3. r \in Seq(Entry)
        BY WithoutEntry DEF r
      <3>4. IdsOf(r, t) = <<>>
        BY <3>2, <3>3, NoPlacesNoIds
      <3> QED BY <3>1, <3>2, <3>4
    <2>6. CASE es[o].text = t /\ T[t].count # 1
      <3>1. U[t] = [count |-> T[t].count - 1, ids |-> RemoveMessageID(T[t].ids, es[o].id)]
        BY <1>2, <2>6
      <3> QED BY <2>1, <2>2, <2>6, <3>1
    <2> QED BY <2>4, <2>5, <2>6
  <1>4. U = Trackers(r)
    <2> HIDE DEF T, r
    <2>1. U = [t \in Texts |-> U[t]]
      BY <1>2
    <2> HIDE DEF U
    <2> QED BY <1>1, <1>3, <2>1
  <1> QED
    BY <1>4

(* A tracker that is exact but for its oldest ids holds ids, and a count   *)
(* no greater than the number of entries.                                  *)
LEMMA RecountedType ==
    ASSUME DuplicatesConstants, NEW es \in Seq(Entry), NEW t, NEW tracker, Recounted(tracker, es, t)
    PROVE  /\ tracker.ids \in Seq(Ids)
           /\ tracker.count \in Nat /\ tracker.count <= Len(es)
  <1>1. IdsOf(es, t) \in Seq(Ids) /\ Places(es, t) \in SUBSET (1 .. Len(es))
    BY IdsOfColumn
  <1>2. PICK n \in 0 .. Len(IdsOf(es, t)) :
           tracker.ids = SubSeq(IdsOf(es, t), n + 1, Len(IdsOf(es, t)))
    BY DEF Recounted
  <1>3. SubSeq(IdsOf(es, t), n + 1, Len(IdsOf(es, t))) \in Seq(Ids)
    BY <1>1, SuffixProperties
  <1>4. Len(es) \in Nat
    BY LenProperties
  <1>5. Cardinality(Places(es, t)) \in Nat /\ Cardinality(Places(es, t)) <= Len(es)
    BY <1>1, <1>4, PositionsFinite
  <1> QED
    BY <1>2, <1>3, <1>5 DEF Recounted

(* The trackers just built are exact.                                      *)
LEMMA TrackersRecounted ==
    ASSUME DuplicatesConstants, NEW es \in Seq(Entry), NEW t \in Texts
    PROVE  Recounted(Trackers(es)[t], es, t)
  <1>1. Trackers(es)[t] = [count |-> Cardinality(Places(es, t)), ids |-> IdsOf(es, t)]
    BY DEF Trackers
  <1>2. IdsOf(es, t) \in Seq(Ids) /\ Len(IdsOf(es, t)) \in Nat
    BY IdsOfColumn
  <1>3. 0 \in 0 .. Len(IdsOf(es, t))
    BY <1>2
  <1>4. SubSeq(IdsOf(es, t), 0 + 1, Len(IdsOf(es, t))) = IdsOf(es, t)
    BY <1>2, <1>3, SuffixProperties
  <1> QED
    BY <1>1, <1>3, <1>4 DEF Recounted

(* A message counted keeps the tracker of its text exact, but for the      *)
(* oldest ids.                                                             *)
LEMMA CountRecounted ==
    ASSUME DuplicatesConstants, NEW es \in Seq(Entry), NEW e \in Entry
    PROVE  Recounted(Count(Trackers(es)[e.text], e.id), Append(es, e), e.text)
  <1> DEFINE t == e.text
             r == Append(es, e)
             ids == IdsOf(es, t)
             all == IdsOf(r, t)
             new == Count(Trackers(es)[t], e.id)
  <1>1. t \in Texts /\ e.id \in Ids \union {0} /\ e.id \in Nat
    <2>1. t \in Texts /\ e.id \in Ids \union {0}
      BY DEF Entry
    <2>2. Ids \union {0} \subseteq Nat
      BY DEF DuplicatesConstants
    <2> QED BY <2>1, <2>2
  <1>2. /\ Trackers(es)[t].count = Cardinality(Places(es, t))
        /\ Trackers(es)[t].ids = ids
    BY <1>1 DEF Trackers
  <1>3. r \in Seq(Entry)
    BY AppendProperties
  <1>4. all \in Seq(Ids) /\ Len(all) \in Nat
    BY <1>3, IdsOfColumn
  <1>5. /\ Cardinality(Places(es, t)) \in Nat
        /\ Cardinality(Places(r, t)) = Cardinality(Places(es, t)) + 1
        /\ all = IF e.id > 0 THEN Append(ids, e.id) ELSE ids
    <2>1. /\ Cardinality(Places(es, t)) \in Nat
          /\ Cardinality(Places(r, t)) =
               IF e.text = t THEN Cardinality(Places(es, t)) + 1 ELSE Cardinality(Places(es, t))
          /\ all = IF e.text = t /\ e.id > 0 THEN Append(ids, e.id) ELSE ids
      BY RecountAppended
    <2> QED BY <2>1
  <1>6. new.count = Cardinality(Places(r, t))
    BY <1>2, <1>5 DEF Count
  <1>7. new.ids = IF e.id > 0 THEN Newest(Append(ids, e.id)) ELSE ids
    BY <1>2 DEF Count
  <1>8. new.ids = IF e.id > 0 THEN Newest(all) ELSE all
    BY <1>5, <1>7
  <1> HIDE DEF all, new, ids, r
  <1>9. MaxIds \in Nat
    BY DEF DuplicatesConstants
  <1>10. CASE new.ids = all
    <2>1. 0 \in 0 .. Len(all) /\ SubSeq(all, 0 + 1, Len(all)) = all
      <3>1. 0 \in 0 .. Len(all)
        BY <1>4
      <3> QED BY <1>4, <3>1, SuffixProperties
    <2>2. \E n \in 0 .. Len(all) : new.ids = SubSeq(all, n + 1, Len(all))
      BY <1>10, <2>1
    <2> QED BY <1>6, <1>10, <2>2 DEF Recounted, all, new, r
  <1>11. CASE new.ids # all
    <2>1. Len(all) > MaxIds /\ new.ids = SubSeq(all, Len(all) - MaxIds + 1, Len(all))
      BY <1>8, <1>11 DEF Newest
    <2>2. PICK n : n = Len(all) - MaxIds
      OBVIOUS
    <2>3. n \in 0 .. Len(all) /\ Len(all) - n = MaxIds
      BY <1>4, <1>9, <2>1, <2>2
    <2>4. new.ids = SubSeq(all, n + 1, Len(all))
      BY <2>1, <2>2
    <2>5. Len(SubSeq(all, n + 1, Len(all))) = Len(all) - n
      BY <1>4, <2>3, SuffixProperties
    <2>6. Len(new.ids) >= MaxIds
      BY <1>9, <2>3, <2>4, <2>5
    <2> QED BY <1>6, <2>3, <2>4, <2>6 DEF Recounted, all, new, r
  <1> QED
    BY <1>10, <1>11

\* A sequence without its first m elements.
Suffix(s, m) == SubSeq(s, m + 1, Len(s))

(* The first of the ids goes, or none when the limit has already left it   *)
(* out: the ids stay exact but for the oldest.                             *)
LEMMA RemoveFirst ==
    ASSUME NEW S, NEW all \in Seq(S), NEW n \in 1 .. Len(all),
           \A k, l \in 1 .. Len(all) : all[k] = all[l] => k = l
    PROVE  /\ Len(RemoveMessageID(all, all[1])) = Len(all) - 1
           /\ RemoveMessageID(Suffix(all, n), all[1]) = Suffix(all, n)
           /\ Suffix(all, n) = Suffix(RemoveMessageID(all, all[1]), n - 1)
  <1> DEFINE L == Len(all)
             ids == Suffix(all, n)
             rest == RemoveMessageID(all, all[1])
             R == {i \in DOMAIN all : all[i] = all[1] => \E j \in DOMAIN all : j < i /\ all[j] = all[1]}
  <1>1. L \in Nat /\ DOMAIN all = 1 .. L /\ L > 0
    BY LenProperties
  <1>2. n \in Nat /\ n <= L /\ n > 0
    BY <1>1
  <1>3. /\ ids \in Seq(S) /\ Len(ids) = L - n
        /\ \A k \in 1 .. L - n : ids[k] = all[n + k]
    <2>1. n \in 0 .. Len(all)
      OBVIOUS
    <2> QED BY <2>1, SuffixProperties DEF Suffix
  <1>4. rest = Keep(all, R)
    BY DEF RemoveMessageID
  <1> HIDE DEF L, ids, rest
  <1>5. R = 2 .. L
    <2>1. ASSUME NEW i \in 1 .. L PROVE i \in R <=> i # 1
      <3>1. CASE i = 1
        <4>1. \A j \in 1 .. L : ~(j < 1)
          BY <1>1
        <4> QED BY <1>1, <3>1, <4>1
      <3>2. CASE i # 1
        <4>1. 1 \in 1 .. L
          BY <1>1
        <4>2. all[i] # all[1]
          BY <3>2, <4>1 DEF L
        <4> QED BY <1>1, <3>2, <4>2
      <3> QED BY <3>1, <3>2
    <2>2. \A i : i \in R => i \in 1 .. L
      BY <1>1
    <2>3. \A i : i \in 2 .. L <=> i \in 1 .. L /\ i # 1
      BY <1>1
    <2> HIDE DEF R
    <2> QED BY <2>1, <2>2, <2>3
  <1> HIDE DEF R
  <1>6. rest = SubSeq(all, 1 + 1, Len(all))
    <2>1. 2 \in 1 .. Len(all) + 1 /\ Len(all) \in 0 .. Len(all) /\ 2 <= Len(all) + 1
      BY <1>1 DEF L
    <2>2. Keep(all, 2 .. Len(all)) = SubSeq(all, 2, Len(all))
      BY <2>1, KeepInterval
    <2> QED BY <1>4, <1>5, <2>2 DEF L
  <1>7. /\ rest \in Seq(S) /\ Len(rest) = L - 1
        /\ \A k \in 1 .. L - 1 : rest[k] = all[1 + k]
    <2>1. 1 \in 0 .. Len(all)
      BY <1>1 DEF L
    <2> QED BY <1>6, <2>1, SuffixProperties DEF L
  <1>8. RemoveMessageID(ids, all[1]) = ids
    <2>1. ASSUME NEW k \in DOMAIN ids PROVE ids[k] # all[1]
      <3>1. DOMAIN ids = 1 .. L - n
        BY <1>3, LenProperties
      <3>2. n + k \in 1 .. L /\ n + k # 1 /\ 1 \in 1 .. L /\ k \in 1 .. L - n
        BY <1>1, <1>2, <3>1, <2>1
      <3>3. ids[k] = all[n + k]
        BY <1>3, <3>2
      <3> QED BY <3>2, <3>3 DEF L
    <2> QED BY <1>3, <2>1, RemoveAbsent
  <1>9. ids = Suffix(rest, n - 1)
    <2> DEFINE m == n - 1
               q == Suffix(rest, m)
    <2>1. m \in 0 .. Len(rest) /\ m + 1 = n
      BY <1>1, <1>2, <1>7
    <2>2. m \in 0 .. Len(rest)
      BY <2>1
    <2> HIDE DEF m
    <2>3. /\ q \in Seq(S) /\ Len(q) = Len(rest) - m
          /\ \A k \in 1 .. Len(rest) - m : q[k] = rest[m + k]
      BY <1>7, <2>2, SuffixProperties DEF Suffix
    <2> HIDE DEF q
    <2>4. Len(q) = L - n
      BY <1>1, <1>2, <1>7, <2>1, <2>3 DEF m
    <2>5. ASSUME NEW k \in 1 .. Len(ids) PROVE ids[k] = q[k]
      <3>1. k \in 1 .. L - n /\ k \in 1 .. Len(rest) - m
        BY <1>3, <2>3, <2>4
      <3>2. m + k \in 1 .. L - 1 /\ 1 + (m + k) = n + k
        BY <1>1, <1>2, <2>1, <3>1 DEF m
      <3>3. PICK j : j = m + k
        OBVIOUS
      <3>4. rest[j] = all[1 + j]
        BY <1>7, <3>2, <3>3
      <3> QED BY <1>3, <2>3, <3>1, <3>2, <3>3, <3>4
    <2>6. ids = q
      BY <1>3, <2>3, <2>4, <2>5, SeqEqual
    <2> QED BY <2>1, <2>6 DEF q, m
  <1> QED
    BY <1>7, <1>8, <1>9 DEF L, ids, rest

(* With the first entry taken out of its tracker, the trackers are exact   *)
(* for the others, but for the oldest ids.                                 *)
LEMMA UntrackFirst ==
    ASSUME DuplicatesConstants, NEW es \in Seq(Entry), es # <<>>, Distinct(es),
           NEW trk, trk = [t \in Texts |-> trk[t]],
           \A t \in Texts : Recounted(trk[t], es, t),
           NEW u \in Texts
    PROVE  Recounted(Untrack(trk, Head(es))[u], Tail(es), u)
  <1> DEFINE h == es[1]
             rest == Tail(es)
             c == Cardinality(Places(es, u))
             all == IdsOf(es, u)
             new == Untrack(trk, h)[u]
  <1>1. /\ Len(es) \in Nat /\ DOMAIN es = 1 .. Len(es)
        /\ \A i \in 1 .. Len(es) : es[i].id \in Ids \union {0} /\ es[i].id \in Nat
    BY EntryFields
  <1>2. 1 \in 1 .. Len(es) /\ Head(es) = h
    BY <1>1
  <1>3. rest = Keep(es, (1 .. Len(es)) \ {1})
    <2>1. 2 \in 1 .. Len(es) + 1 /\ Len(es) \in 0 .. Len(es) /\ 2 <= Len(es) + 1
      BY <1>1, <1>2
    <2>2. Keep(es, 2 .. Len(es)) = SubSeq(es, 2, Len(es))
      BY <2>1, KeepInterval
    <2>3. (1 .. Len(es)) \ {1} = 2 .. Len(es)
      BY <1>1
    <2>4. rest = SubSeq(es, 2, Len(es))
      BY TailIsSubSeq
    <2> QED BY <2>2, <2>3, <2>4
  <1>4. /\ rest \in Seq(Entry) /\ c \in Nat
        /\ h.text # u => Cardinality(Places(rest, u)) = c /\ IdsOf(rest, u) = all
        /\ h.text = u => /\ Cardinality(Places(rest, u)) = c - 1
                         /\ IdsOf(rest, u) = RemoveMessageID(all, h.id)
    <2> DEFINE r == Keep(es, (1 .. Len(es)) \ {1})
    <2>1. r \in Seq(Entry) /\ Cardinality(Places(es, u)) \in Nat
      BY <1>2, WithoutEntry
    <2>2. ASSUME es[1].text # u
          PROVE  Cardinality(Places(r, u)) = Cardinality(Places(es, u)) /\ IdsOf(r, u) = IdsOf(es, u)
      BY <1>2, <2>2, WithoutEntry
    <2>3. ASSUME es[1].text = u
          PROVE  /\ Cardinality(Places(r, u)) = Cardinality(Places(es, u)) - 1
                 /\ IdsOf(r, u) = RemoveMessageID(IdsOf(es, u), es[1].id)
      <3>1. Cardinality(Places(r, u)) = Cardinality(Places(es, u)) - 1
        BY <1>2, <2>3, WithoutEntry
      <3>2. IdsOf(r, u) = RemoveMessageID(IdsOf(es, u), es[1].id)
        BY <1>2, <2>3, WithoutEntry
      <3> QED BY <3>1, <3>2
    <2> HIDE DEF rest, r
    <2>4. rest = r
      BY <1>3 DEF r
    <2> QED BY <2>1, <2>2, <2>3, <2>4
  <1>5. Recounted(trk[u], es, u)
    OBVIOUS
  <1>6. /\ all \in Seq(Ids) /\ Len(all) \in Nat /\ DOMAIN all = 1 .. Len(all)
        /\ all = Keep(Column(es), IdPlaces(es, u))
    BY IdsOfColumn
  <1>7. new = IF u = h.text
              THEN IF trk[u].count = 1 THEN NoTracker
                   ELSE [count |-> trk[u].count - 1, ids |-> RemoveMessageID(trk[u].ids, h.id)]
              ELSE trk[u]
    BY DEF Untrack
  <1>8. trk[u].count = c
    BY <1>5 DEF Recounted
  <1> HIDE DEF c
  <1>9. CASE h.text # u
    <2>1. new = trk[u]
      BY <1>7, <1>9
    <2>2. Cardinality(Places(rest, u)) = Cardinality(Places(es, u)) /\ IdsOf(rest, u) = IdsOf(es, u)
      BY <1>4, <1>9 DEF c
    <2> HIDE DEF rest, new
    <2>3. Recounted(new, rest, u)
      BY <1>5, <2>1, <2>2 DEF Recounted
    <2> QED BY <1>2, <2>3 DEF rest, new
  <1>10. CASE h.text = u /\ c = 1
    <2>1. new.count = 0 /\ new.ids = <<>>
      BY <1>7, <1>8, <1>10 DEF NoTracker
    <2>2. Cardinality(Places(rest, u)) = 0 /\ IdsOf(rest, u) = <<>>
      <3>1. Cardinality(Places(rest, u)) = 0
        BY <1>4, <1>10
      <3> QED BY <1>4, <3>1, NoPlacesNoIds
    <2>3. 0 \in 0 .. Len(IdsOf(rest, u)) /\ SubSeq(IdsOf(rest, u), 0 + 1, Len(IdsOf(rest, u))) = <<>>
      <3>1. 0 \in 0 .. Len(IdsOf(rest, u))
        BY <2>2
      <3>2. IdsOf(rest, u) \in Seq(Ids)
        BY <1>4, IdsOfColumn
      <3>3. SubSeq(IdsOf(rest, u), 0 + 1, Len(IdsOf(rest, u))) = IdsOf(rest, u)
        BY <3>1, <3>2, SuffixProperties
      <3> QED BY <2>2, <3>1, <3>3
    <2>4. \E n \in 0 .. Len(IdsOf(rest, u)) :
            new.ids = SubSeq(IdsOf(rest, u), n + 1, Len(IdsOf(rest, u)))
      BY <2>1, <2>3
    <2> HIDE DEF rest, new
    <2>5. Recounted(new, rest, u)
      BY <2>1, <2>2, <2>4 DEF Recounted
    <2> QED BY <1>2, <2>5 DEF rest, new
  <1>11. CASE h.text = u /\ c # 1
    <2> DEFINE left == RemoveMessageID(all, h.id)
    <2>1. new.count = c - 1 /\ new.ids = RemoveMessageID(trk[u].ids, h.id)
      BY <1>7, <1>8, <1>11
    <2>2. Cardinality(Places(rest, u)) = c - 1 /\ IdsOf(rest, u) = left
      BY <1>4, <1>11
    <2>3. PICK n \in 0 .. Len(all) : trk[u].ids = SubSeq(all, n + 1, Len(all))
      BY <1>5 DEF Recounted
    <2>4. Len(trk[u].ids) >= MaxIds \/ trk[u].ids = all
      BY <1>5 DEF Recounted
    <2>5. /\ trk[u].ids \in Seq(Ids) /\ Len(trk[u].ids) = Len(all) - n
          /\ n = 0 => trk[u].ids = all
          /\ \A k \in 1 .. Len(all) - n : trk[u].ids[k] = all[n + k]
      <3> HIDE DEF all
      <3>1. SubSeq(all, n + 1, Len(all)) \in Seq(Ids)
        BY <1>6, SuffixProperties
      <3>2. Len(SubSeq(all, n + 1, Len(all))) = Len(all) - n
        BY <1>6, SuffixProperties
      <3>3. n = 0 => SubSeq(all, n + 1, Len(all)) = all
        BY <1>6, SuffixProperties
      <3>4. \A k \in 1 .. Len(all) - n : SubSeq(all, n + 1, Len(all))[k] = all[n + k]
        BY <1>6, SuffixProperties
      <3> QED BY <2>3, <3>1, <3>2, <3>3, <3>4
    <2>6. left \in Seq(Ids) /\ Len(left) \in Nat
      <3>1. IdsOf(rest, u) \in Seq(Ids) /\ Len(IdsOf(rest, u)) \in Nat
        BY <1>4, IdsOfColumn
      <3> QED BY <2>2, <3>1
    <2>7. /\ \E m \in 0 .. Len(left) : new.ids = SubSeq(left, m + 1, Len(left))
          /\ Len(new.ids) >= MaxIds \/ new.ids = left
      <3> HIDE DEF h, all, new, left
      <3>1. CASE h.id > 0
        <4>1. 1 \in IdPlaces(es, u)
          BY <1>1, <1>2, <1>11, <3>1 DEF IdPlaces, Places, h
        <4>2. Len(all) > 0 /\ all[1] = h.id
          <5> DEFINE K == IdPlaces(es, u)
                     col == Column(es)
          <5>1. K \in SUBSET (1 .. Len(es))
            BY IdsOfColumn
          <5>2. IsFiniteSet(K) /\ \A k \in K : k \in Nat
            BY <1>1, <5>1, PositionsFinite
          <5>3. Rank(K, 1) = 1
            <6>1. {j \in K : j <= 1} = {1}
              BY <4>1, <5>1
            <6>2. Cardinality({1}) = 1
              BY FS_Singleton
            <6> QED BY <6>1, <6>2 DEF Rank
          <5>4. \A i \in K : Rank(K, i) \in 1 .. Cardinality(K) /\ Position(K, Rank(K, i)) = i
            BY <5>2, PositionProperties
          <5>5. 1 \in 1 .. Cardinality(K) /\ Position(K, 1) = 1
            BY <4>1, <5>3, <5>4
          <5>6. Len(all) = Cardinality(K)
            BY IdsOfColumn DEF all
          <5>7. Cardinality(K) \in Nat
            BY <5>6, <1>6
          <5>8. all[1] = col[1]
            BY <1>6, <5>5 DEF Keep
          <5>9. col[1] = h.id
            BY <1>1, <1>2 DEF Column, h
          <5> QED BY <5>5, <5>6, <5>7, <5>8, <5>9
        <4>3. \A k, l \in 1 .. Len(all) : all[k] = all[l] => k = l
          BY IdsOfDistinct DEF all
        <4>4. CASE n = 0
          <5>1. new.ids = left
            BY <2>1, <2>5, <4>4 DEF left
          <5>2. 0 \in 0 .. Len(left)
            BY <2>6
          <5>3. SubSeq(left, 0 + 1, Len(left)) = left
            BY <2>6, <5>2, SuffixProperties
          <5> QED BY <5>1, <5>2, <5>3
        <4>5. CASE n > 0
          <5> DEFINE ids == Suffix(all, n)
                     gone == RemoveMessageID(all, all[1])
          <5>1. n \in 1 .. Len(all)
            BY <1>6, <4>5
          <5>2. Len(gone) = Len(all) - 1
            BY <1>6, <4>3, <5>1, RemoveFirst
          <5>3. RemoveMessageID(ids, all[1]) = ids
            BY <1>6, <4>3, <5>1, RemoveFirst
          <5>4. ids = Suffix(gone, n - 1)
            BY <1>6, <4>3, <5>1, RemoveFirst
          <5> HIDE DEF ids, gone
          <5>5. left = gone /\ trk[u].ids = ids
            BY <2>3, <4>2 DEF left, gone, ids, Suffix
          <5>6. new.ids = ids
            BY <2>1, <4>2, <5>3, <5>5
          <5>7. Len(trk[u].ids) >= MaxIds
            <6>1. Len(trk[u].ids) # Len(all)
              BY <1>6, <2>5, <4>5
            <6> QED BY <2>4, <6>1
          <5>8. PICK m : m = n - 1
            OBVIOUS
          <5>9. m \in 0 .. Len(left) /\ m + 1 = n
            BY <1>6, <4>5, <5>2, <5>5, <5>8
          <5>10. new.ids = SubSeq(left, m + 1, Len(left))
            BY <5>4, <5>5, <5>6, <5>8 DEF Suffix
          <5> QED BY <5>5, <5>6, <5>7, <5>9, <5>10
        <4> QED
          <5>1. n = 0 \/ n > 0
            BY <1>6
          <5> QED BY <4>4, <4>5, <5>1
      <3>2. CASE ~(h.id > 0)
        <4>1. h.id \notin Ids
          BY <1>1, <1>2, <3>2 DEF h, DuplicatesConstants
        <4>2. RemoveMessageID(all, h.id) = all
          <5>1. \A i \in DOMAIN all : all[i] # h.id
            BY <1>6, <4>1, ElementOfSeq
          <5> QED BY <1>6, <5>1, RemoveAbsent
        <4>3. RemoveMessageID(trk[u].ids, h.id) = trk[u].ids
          <5>1. \A i \in DOMAIN trk[u].ids : trk[u].ids[i] # h.id
            BY <2>5, <4>1, ElementOfSeq, LenProperties
          <5> QED BY <2>5, <5>1, RemoveAbsent
        <4>4. left = all /\ new.ids = trk[u].ids
          BY <2>1, <4>2, <4>3 DEF left
        <4> QED BY <2>3, <2>4, <4>4
      <3> QED BY <3>1, <3>2
    <2> HIDE DEF rest, new, left
    <2>8. Recounted(new, rest, u)
      BY <2>1, <2>2, <2>7 DEF Recounted
    <2> QED BY <1>2, <2>8 DEF rest, new
  <1> QED
    BY <1>9, <1>10, <1>11

----------------------------------------------------------------------------
(* The stages of a check.                                                  *)

\* Every text has a tracker that is exact but for its oldest ids.
Exact(trk, es) ==
    /\ trk = [t \in Texts |-> trk[t]]
    /\ \A t \in Texts : /\ trk[t] = [count |-> trk[t].count, ids |-> trk[t].ids]
                        /\ Recounted(trk[t], es, t)

\* The entry of the message holds a former text.
Outdated(e, text, id) == id > 0 /\ e.id = id /\ e.text # text

(* No message has two entries among those that are left.                   *)
LEMMA KeptDistinct ==
    ASSUME DuplicatesConstants, NEW es \in Seq(Entry), Distinct(es), NEW J \in SUBSET (1 .. Len(es))
    PROVE  Distinct(Keep(es, J))
  <1> DEFINE r == Keep(es, J)
             c == Cardinality(J)
  <1>1. Len(es) \in Nat /\ DOMAIN es = 1 .. Len(es)
    BY LenProperties
  <1>2. IsFiniteSet(J) /\ \A h \in J : h \in Nat
    BY <1>1, PositionsFinite
  <1>3. \A k \in 1 .. c : Position(J, k) \in J /\ Rank(J, Position(J, k)) = k
    BY <1>2, PositionProperties
  <1>4. r = [k \in 1 .. c |-> es[Position(J, k)]]
    BY DEF Keep
  <1> HIDE DEF r, c
  <1>5. ASSUME NEW k \in 1 .. c, NEW l \in 1 .. c, r[k].id > 0, r[l].id = r[k].id
        PROVE  k = l
    <2>1. PICK i \in 1 .. Len(es) : i = Position(J, k)
      BY <1>3
    <2>2. PICK j \in 1 .. Len(es) : j = Position(J, l)
      BY <1>3
    <2>3. r[k] = es[i] /\ r[l] = es[j]
      BY <1>4, <2>1, <2>2
    <2>4. i = j
      BY <1>1, <1>5, <2>3 DEF Distinct
    <2> QED BY <1>3, <2>1, <2>2, <2>4
  <1>6. DOMAIN r = 1 .. c
    BY <1>4
  <1> QED
    BY <1>5, <1>6 DEF Distinct, r

(* filterExpiredEntries leaves the recent entries.                         *)
LEMMA UnexpiredEntries ==
    ASSUME DuplicatesConstants, NEW es \in Seq(Entry), Distinct(es)
    PROVE  /\ Unexpired(es) \in Seq(Entry) /\ Len(Unexpired(es)) <= Len(es)
           /\ Distinct(Unexpired(es))
           /\ \A k \in 1 .. Len(Unexpired(es)) :
                \E i \in 1 .. Len(es) : Unexpired(es)[k] = es[i] /\ es[i].age < Window
           /\ \A i \in 1 .. Len(es) :
                es[i].age < Window => \E k \in 1 .. Len(Unexpired(es)) : Unexpired(es)[k] = es[i]
  <1> DEFINE I == {i \in DOMAIN es : es[i].age < Window}
             r == Keep(es, I)
  <1>1. Len(es) \in Nat /\ DOMAIN es = 1 .. Len(es)
    BY LenProperties
  <1>2. Unexpired(es) = r
    BY DEF Unexpired
  <1>3. I \in SUBSET (1 .. Len(es)) /\ \A i : i \in I <=> i \in 1 .. Len(es) /\ es[i].age < Window
    BY <1>1
  <1> HIDE DEF I
  <1>4. /\ r \in Seq(Entry) /\ Len(r) \in Nat /\ Len(r) <= Len(es)
        /\ \A k \in DOMAIN r : \E i \in I : r[k] = es[i]
        /\ \A i \in I : \E k \in DOMAIN r : r[k] = es[i]
    BY <1>3, KeepElements
  <1>5. Distinct(r)
    BY <1>3, KeptDistinct
  <1> HIDE DEF r
  <1>6. DOMAIN r = 1 .. Len(r)
    BY <1>4, LenProperties
  <1>7. ASSUME NEW k \in 1 .. Len(r) PROVE \E i \in 1 .. Len(es) : r[k] = es[i] /\ es[i].age < Window
    BY <1>3, <1>4, <1>6
  <1>8. ASSUME NEW i \in 1 .. Len(es), es[i].age < Window PROVE \E k \in 1 .. Len(r) : r[k] = es[i]
    BY <1>3, <1>4, <1>6, <1>8
  <1> QED
    BY <1>2, <1>4, <1>5, <1>7, <1>8

\* What is left of the entries without the outdated ones.
Current(left, es, text, id) ==
    /\ left \in Seq(Entry) /\ Len(left) <= Len(es)
    /\ Distinct(left)
    /\ \A k \in 1 .. Len(left) :
         \E i \in 1 .. Len(es) : left[k] = es[i] /\ ~Outdated(es[i], text, id)
    /\ \A i \in 1 .. Len(es) :
         ~Outdated(es[i], text, id) => \E k \in 1 .. Len(left) : left[k] = es[i]

(* The entry that an edit has made outdated is taken out, of its tracker   *)
(* as well.                                                                *)
LEMMA EditedOut ==
    ASSUME DuplicatesConstants, NEW es \in Seq(Entry), Distinct(es), NEW text, NEW id
    PROVE  LET old  == Edited(es, text, id)
               left == Keep(es, DOMAIN es \ old)
           IN  /\ Current(left, es, text, id)
               /\ (IF old = {} THEN Trackers(es) ELSE Untrack(Trackers(es), es[CHOOSE i \in old : TRUE]))
                    = Trackers(left)
  <1> DEFINE old == Edited(es, text, id)
             J == DOMAIN es \ old
             left == Keep(es, J)
  <1>1. Len(es) \in Nat /\ DOMAIN es = 1 .. Len(es)
    BY LenProperties
  <1>2. \A i \in 1 .. Len(es) : i \in old <=> Outdated(es[i], text, id)
    <2> SUFFICES ASSUME NEW i \in 1 .. Len(es) PROVE i \in old <=> Outdated(es[i], text, id)
      OBVIOUS
    <2>1. i \in old => Outdated(es[i], text, id)
      BY DEF Edited, Outdated
    <2>2. ASSUME Outdated(es[i], text, id) PROVE i \in old
      <3>1. \A j \in DOMAIN es : es[j].id = id => j = i
        BY <1>1, <2>2 DEF Outdated, Distinct
      <3>2. i <= i
        BY <1>1
      <3> QED BY <1>1, <2>2, <3>1, <3>2 DEF Edited, Outdated
    <2> QED BY <2>1, <2>2
  <1>3. old \in SUBSET (1 .. Len(es)) /\ \A i, j \in old : i = j
    <2>1. old \in SUBSET (1 .. Len(es))
      BY <1>1 DEF Edited
    <2>2. \A i \in old : Outdated(es[i], text, id)
      BY <1>2, <2>1
    <2>3. \A i, j \in old : i = j
      BY <1>1, <2>1, <2>2 DEF Outdated, Distinct
    <2> QED BY <2>1, <2>3
  <1> HIDE DEF old
  <1>4. J \in SUBSET (1 .. Len(es)) /\ \A i : i \in J <=> i \in 1 .. Len(es) /\ i \notin old
    BY <1>1
  <1> HIDE DEF J
  <1>5. /\ left \in Seq(Entry) /\ Len(left) \in Nat /\ Len(left) <= Len(es)
        /\ \A k \in DOMAIN left : \E i \in J : left[k] = es[i]
        /\ \A i \in J : \E k \in DOMAIN left : left[k] = es[i]
    BY <1>4, KeepElements
  <1>6. Distinct(left)
    BY <1>4, KeptDistinct
  <1>7. (IF old = {} THEN Trackers(es) ELSE Untrack(Trackers(es), es[CHOOSE i \in old : TRUE]))
          = Trackers(left)
    <2>1. CASE old = {}
      <3>1. J = DOMAIN es
        BY <1>1, <1>4, <2>1
      <3>2. left = es
        BY <3>1, KeepAll
      <3> QED BY <2>1, <3>2
    <2>2. CASE old # {}
      <3>1. PICK o : o = CHOOSE i \in old : TRUE
        OBVIOUS
      <3>2. o \in old /\ old = {o}
        BY <1>3, <2>2, <3>1
      <3>3. o \in 1 .. Len(es)
        BY <1>3, <3>2
      <3>4. J = (1 .. Len(es)) \ {o}
        BY <1>4, <3>2
      <3>5. Untrack(Trackers(es), es[o]) = Trackers(Keep(es, (1 .. Len(es)) \ {o}))
        BY <3>3, UntrackRecounted
      <3> QED BY <2>2, <3>1, <3>4, <3>5
    <2> QED BY <2>1, <2>2
  <1> HIDE DEF left
  <1>8. DOMAIN left = 1 .. Len(left)
    BY <1>5, LenProperties
  <1>9. ASSUME NEW k \in 1 .. Len(left)
        PROVE  \E i \in 1 .. Len(es) : left[k] = es[i] /\ ~Outdated(es[i], text, id)
    BY <1>2, <1>4, <1>5, <1>8
  <1>10. ASSUME NEW i \in 1 .. Len(es), ~Outdated(es[i], text, id)
         PROVE  \E k \in 1 .. Len(left) : left[k] = es[i]
    BY <1>2, <1>4, <1>5, <1>8, <1>10
  <1>11. Current(left, es, text, id)
    BY <1>5, <1>6, <1>9, <1>10 DEF Current
  <1> QED
    BY <1>7, <1>11 DEF left, J, old

(* The trackers built from the entries are exact; and so they are when an  *)
(* entry is added and counted.                                             *)
LEMMA CountedExact ==
    ASSUME DuplicatesConstants, NEW es \in Seq(Entry), NEW e \in Entry
    PROVE  /\ Exact(Trackers(es), es)
           /\ Exact([Trackers(es) EXCEPT ![e.text] = Count(@, e.id)], Append(es, e))
  <1> DEFINE T == Trackers(es)
             U == [T EXCEPT ![e.text] = Count(@, e.id)]
             r == Append(es, e)
  <1>1. T = [t \in Texts |-> [count |-> Cardinality(Places(es, t)), ids |-> IdsOf(es, t)]]
    BY DEF Trackers
  <1>2. U = [t \in Texts |-> IF t = e.text THEN Count(T[t], e.id) ELSE T[t]]
    BY <1>1
  <1>3. \A t \in Texts : T[t] = [count |-> T[t].count, ids |-> T[t].ids]
    BY <1>1
  <1>4. \A t \in Texts : Recounted(T[t], es, t)
    BY TrackersRecounted
  <1>5. T = [t \in Texts |-> T[t]]
    BY <1>1
  <1>6. ASSUME NEW t \in Texts
        PROVE  U[t] = [count |-> U[t].count, ids |-> U[t].ids] /\ Recounted(U[t], r, t)
    <2>1. CASE t = e.text
      <3>1. U[t] = Count(T[t], e.id)
        BY <1>2, <2>1
      <3>2. Recounted(Count(T[t], e.id), r, t)
        BY <2>1, CountRecounted
      <3>3. Count(T[t], e.id) = [count |-> Count(T[t], e.id).count, ids |-> Count(T[t], e.id).ids]
        BY DEF Count
      <3> QED BY <3>1, <3>2, <3>3
    <2>2. CASE t # e.text
      <3>1. U[t] = T[t]
        BY <1>2, <2>2
      <3>2. Cardinality(Places(r, t)) = Cardinality(Places(es, t)) /\ IdsOf(r, t) = IdsOf(es, t)
        <4>1. Cardinality(Places(r, t)) =
                IF e.text = t THEN Cardinality(Places(es, t)) + 1 ELSE Cardinality(Places(es, t))
          BY RecountAppended
        <4>2. IdsOf(r, t) =
                IF e.text = t /\ e.id > 0 THEN Append(IdsOf(es, t), e.id) ELSE IdsOf(es, t)
          BY RecountAppended
        <4> QED BY <2>2, <4>1, <4>2
      <3> HIDE DEF T, U, r
      <3>3. Recounted(T[t], r, t)
        BY <1>4, <3>2 DEF Recounted
      <3>4. T[t] = [count |-> T[t].count, ids |-> T[t].ids]
        BY <1>3
      <3> QED BY <3>1, <3>3, <3>4
    <2> QED BY <2>1, <2>2
  <1>7. U = [t \in Texts |-> U[t]]
    BY <1>2
  <1> HIDE DEF T, U, r
  <1>8. Exact(T, es)
    BY <1>3, <1>4, <1>5 DEF Exact
  <1>9. Exact(U, r)
    BY <1>6, <1>7 DEF Exact
  <1> QED
    BY <1>8, <1>9 DEF T, U, r

(* The limit of entries takes the first one out, and out of its tracker.   *)
LEMMA LimitedExact ==
    ASSUME DuplicatesConstants, NEW es \in Seq(Entry), Distinct(es), OverLimit(es),
           Len(es) <= MaxEntries + 1, NEW trk, Exact(trk, es)
    PROVE  /\ es # <<>> /\ Len(es) >= 2 /\ Head(es) = es[1]
           /\ Tail(es) \in Seq(Entry) /\ Len(Tail(es)) = Len(es) - 1 /\ Len(Tail(es)) <= MaxEntries
           /\ \A k \in 1 .. Len(es) - 1 : Tail(es)[k] = es[k + 1]
           /\ Distinct(Tail(es))
           /\ Exact(Untrack(trk, Head(es)), Tail(es))
  <1> DEFINE U == Untrack(trk, Head(es))
  <1>1. Len(es) \in Nat /\ DOMAIN es = 1 .. Len(es) /\ MaxEntries \in Nat \ {0}
    BY LenProperties DEF DuplicatesConstants
  <1>2. Len(es) > MaxEntries
    BY DEF OverLimit
  <1>3. Len(es) >= 2 /\ es # <<>> /\ Head(es) = es[1]
    <2>1. Len(es) >= 2
      BY <1>1, <1>2
    <2>2. es # <<>>
      BY <2>1
    <2> QED BY <2>1, <2>2
  <1>4. /\ Tail(es) \in Seq(Entry) /\ Len(Tail(es)) = Len(es) - 1
        /\ \A k \in 1 .. Len(Tail(es)) : Tail(es)[k] = es[k + 1]
    BY <1>3, HeadTailProperties
  <1>5. \A k \in 1 .. Len(es) - 1 : Tail(es)[k] = es[k + 1]
    BY <1>4
  <1>6. Len(Tail(es)) <= MaxEntries
    BY <1>1, <1>4
  <1>7. Distinct(Tail(es))
    <2>1. DOMAIN Tail(es) = 1 .. Len(es) - 1
      BY <1>4, LenProperties
    <2>2. ASSUME NEW i \in 1 .. Len(es) - 1, NEW j \in 1 .. Len(es) - 1,
                 Tail(es)[i].id > 0, Tail(es)[j].id = Tail(es)[i].id
          PROVE  i = j
      <3>1. PICK k \in 1 .. Len(es) : k = i + 1
        BY <1>1
      <3>2. PICK l \in 1 .. Len(es) : l = j + 1
        BY <1>1
      <3>3. Tail(es)[i] = es[k] /\ Tail(es)[j] = es[l]
        BY <1>5, <3>1, <3>2
      <3>4. k = l
        BY <1>1, <2>2, <3>3 DEF Distinct
      <3> QED BY <1>1, <3>1, <3>2, <3>4
    <2> QED BY <2>1, <2>2 DEF Distinct
  <1>8. trk = [t \in Texts |-> trk[t]] /\ \A t \in Texts : Recounted(trk[t], es, t)
    BY DEF Exact
  <1>9. \A t \in Texts : Recounted(U[t], Tail(es), t)
    BY <1>3, <1>8, UntrackFirst
  <1>10. U = [t \in Texts |-> U[t]]
    BY <1>8 DEF Untrack
  <1>11. \A t \in Texts : U[t] = [count |-> U[t].count, ids |-> U[t].ids]
    <2> SUFFICES ASSUME NEW t \in Texts PROVE U[t] = [count |-> U[t].count, ids |-> U[t].ids]
      OBVIOUS
    <2>1. trk[t] = [count |-> trk[t].count, ids |-> trk[t].ids]
      BY DEF Exact
    <2>2. U[t] = IF t = Head(es).text
                 THEN IF trk[t].count = 1 THEN NoTracker
                      ELSE [count |-> trk[t].count - 1,
                            ids |-> RemoveMessageID(trk[t].ids, Head(es).id)]
                 ELSE trk[t]
      BY <1>8 DEF Untrack
    <2> HIDE DEF U
    <2>3. CASE t # Head(es).text
      BY <2>1, <2>2, <2>3
    <2>4. CASE t = Head(es).text /\ trk[t].count = 1
      <3>1. U[t] = [count |-> 0, ids |-> <<>>]
        BY <2>2, <2>4 DEF NoTracker
      <3> QED BY <3>1
    <2>5. CASE t = Head(es).text /\ trk[t].count # 1
      BY <2>2, <2>5
    <2> QED BY <2>3, <2>4, <2>5
  <1>12. Exact(U, Tail(es))
    <2> HIDE DEF U
    <2> QED BY <1>9, <1>10, <1>11 DEF Exact
  <1> QED
    BY <1>3, <1>4, <1>5, <1>6, <1>7, <1>12

\* What a check of the text under the id leaves of the entries es: es2, with the trackers
\* trk2 and the ids lost; known when the message was already there with the text.
Checks(es, es2, trk2, gone, text, id, known) ==
    /\ es2 \in Seq(Entry) /\ Len(es2) <= MaxEntries /\ Distinct(es2) /\ Exact(trk2, es2)
    /\ \A k \in 1 .. Len(es2) :
         \/ \E i \in 1 .. Len(es) :
              es2[k] = es[i] /\ es[i].age < Window /\ ~Outdated(es[i], text, id)
         \/ ~known /\ es2[k] = [text |-> text, id |-> id, age |-> 0]
    /\ \A i \in 1 .. Len(es) :
         /\ es[i].age < Window
         /\ ~Outdated(es[i], text, id)
         /\ es[i].id > 0
         => es[i].id \in gone \/ \E k \in 1 .. Len(es2) : es2[k] = es[i]
    /\ ~known => es2 # <<>> /\ es2[Len(es2)] = [text |-> text, id |-> id, age |-> 0]
    /\ known => \E k \in 1 .. Len(es2) : es2[k].id = id /\ es2[k].text = text

\* What is left of the entries without the expired and the outdated ones.
Remaining(left, es, text, id) ==
    /\ left \in Seq(Entry) /\ Len(left) <= Len(es)
    /\ Distinct(left)
    /\ \A k \in 1 .. Len(left) :
         \E i \in 1 .. Len(es) :
            left[k] = es[i] /\ es[i].age < Window /\ ~Outdated(es[i], text, id)
    /\ \A i \in 1 .. Len(es) :
         es[i].age < Window /\ ~Outdated(es[i], text, id)
            => \E k \in 1 .. Len(left) : left[k] = es[i]

(* The recent entries without an outdated one.                             *)
LEMMA LeftEntries ==
    ASSUME DuplicatesConstants, NEW es \in Seq(Entry), Distinct(es), NEW text, NEW id, NEW left,
           left = Keep(Unexpired(es), DOMAIN Unexpired(es) \ Edited(Unexpired(es), text, id))
    PROVE  Remaining(left, es, text, id)
  <1> DEFINE recent == Unexpired(es)
  <1>1. /\ recent \in Seq(Entry) /\ Len(recent) <= Len(es) /\ Distinct(recent)
        /\ \A k \in 1 .. Len(recent) :
             \E i \in 1 .. Len(es) : recent[k] = es[i] /\ es[i].age < Window
        /\ \A i \in 1 .. Len(es) :
             es[i].age < Window => \E k \in 1 .. Len(recent) : recent[k] = es[i]
    BY UnexpiredEntries
  <1>2. left = Keep(recent, DOMAIN recent \ Edited(recent, text, id))
    OBVIOUS
  <1> HIDE DEF recent
  <1>3. /\ left \in Seq(Entry) /\ Len(left) <= Len(recent) /\ Distinct(left)
        /\ \A k \in 1 .. Len(left) :
             \E i \in 1 .. Len(recent) : left[k] = recent[i] /\ ~Outdated(recent[i], text, id)
        /\ \A i \in 1 .. Len(recent) :
             ~Outdated(recent[i], text, id) => \E k \in 1 .. Len(left) : left[k] = recent[i]
    <2>1. Current(left, recent, text, id)
      BY <1>1, <1>2, EditedOut
    <2> QED BY <2>1 DEF Current
  <1>4. Len(es) \in Nat /\ Len(recent) \in Nat /\ Len(left) \in Nat
    BY <1>1, <1>3, LenProperties
  <1>5. Len(left) <= Len(es)
    BY <1>1, <1>3, <1>4
  <1>6. ASSUME NEW k \in 1 .. Len(left)
        PROVE  \E i \in 1 .. Len(es) :
                  left[k] = es[i] /\ es[i].age < Window /\ ~Outdated(es[i], text, id)
    <2>1. PICK j \in 1 .. Len(recent) : left[k] = recent[j] /\ ~Outdated(recent[j], text, id)
      BY <1>3
    <2>2. PICK i \in 1 .. Len(es) : recent[j] = es[i] /\ es[i].age < Window
      BY <1>1
    <2> QED BY <2>1, <2>2
  <1>7. ASSUME NEW i \in 1 .. Len(es), es[i].age < Window, ~Outdated(es[i], text, id)
        PROVE  \E k \in 1 .. Len(left) : left[k] = es[i]
    <2>1. PICK j \in 1 .. Len(recent) : recent[j] = es[i]
      BY <1>1, <1>7
    <2> QED BY <1>3, <1>7, <2>1
  <1> QED
    BY <1>3, <1>5, <1>6, <1>7 DEF Remaining

(* An edit that does not change the text leaves the recent entries as they *)
(* are.                                                                    *)
LEMMA KnownChecks ==
    ASSUME DuplicatesConstants, NEW es \in Seq(Entry), Len(es) <= MaxEntries, Distinct(es),
           NEW text \in Texts, NEW id \in Ids \union {0}, NEW left,
           left = Keep(Unexpired(es), DOMAIN Unexpired(es) \ Edited(Unexpired(es), text, id)),
           NEW gone, Known(left, text, id)
    PROVE  /\ ~OverLimit(left)
           /\ Checks(es, left, Trackers(left), gone, text, id, TRUE)
  <1>1. /\ left \in Seq(Entry) /\ Len(left) <= Len(es)
        /\ Distinct(left)
        /\ \A k \in 1 .. Len(left) :
             \E i \in 1 .. Len(es) :
                left[k] = es[i] /\ es[i].age < Window /\ ~Outdated(es[i], text, id)
        /\ \A i \in 1 .. Len(es) :
             es[i].age < Window /\ ~Outdated(es[i], text, id)
                => \E k \in 1 .. Len(left) : left[k] = es[i]
    <2>1. Remaining(left, es, text, id)
      BY LeftEntries
    <2> QED BY <2>1 DEF Remaining
  <1>2. Len(es) \in Nat /\ Len(left) \in Nat /\ DOMAIN left = 1 .. Len(left) /\ MaxEntries \in Nat
    BY <1>1, LenProperties DEF DuplicatesConstants
  <1>3. Len(left) <= MaxEntries /\ ~OverLimit(left)
    BY <1>1, <1>2 DEF OverLimit
  <1>4. Exact(Trackers(left), left)
    <2>1. PICK e : e = [text |-> text, id |-> id, age |-> 0]
      OBVIOUS
    <2>2. e \in Entry
      BY <2>1 DEF Entry, DuplicatesConstants
    <2> QED BY <1>1, <2>2, CountedExact
  <1>5. \E k \in 1 .. Len(left) : left[k].id = id /\ left[k].text = text
    BY <1>2 DEF Known
  <1> QED
    BY <1>1, <1>3, <1>4, <1>5 DEF Checks

(* A new message is added at the end, where the limit of entries never     *)
(* takes it out.                                                           *)
LEMMA NewChecks ==
    ASSUME DuplicatesConstants, NEW es \in Seq(Entry), Len(es) <= MaxEntries, Distinct(es),
           NEW text \in Texts, NEW id \in Ids \union {0}, NEW left,
           left = Keep(Unexpired(es), DOMAIN Unexpired(es) \ Edited(Unexpired(es), text, id)),
           ~Known(left, text, id),
           NEW added, added = Append(left, [text |-> text, id |-> id, age |-> 0]),
           NEW counted, counted = [Trackers(left) EXCEPT ![text] = Count(@, id)],
           NEW gone
    PROVE  /\ OverLimit(added) /\ {Head(added).id} \ {0} \subseteq gone
                => Checks(es, Tail(added), Untrack(counted, Head(added)), gone, text, id, FALSE)
           /\ ~OverLimit(added) => Checks(es, added, counted, gone, text, id, FALSE)
  <1> DEFINE e == [text |-> text, id |-> id, age |-> 0]
             n == Len(left)
             From(x) == \E i \in 1 .. Len(es) :
                           x = es[i] /\ es[i].age < Window /\ ~Outdated(es[i], text, id)
  <1>1. /\ left \in Seq(Entry) /\ n <= Len(es)
        /\ Distinct(left)
        /\ \A k \in 1 .. n : From(left[k])
        /\ \A i \in 1 .. Len(es) :
             es[i].age < Window /\ ~Outdated(es[i], text, id) => \E k \in 1 .. n : left[k] = es[i]
    <2>1. Remaining(left, es, text, id)
      BY LeftEntries
    <2> QED BY <2>1 DEF Remaining
  <1>2. /\ Len(es) \in Nat /\ n \in Nat /\ DOMAIN left = 1 .. n
        /\ MaxEntries \in Nat /\ Window \in Nat \ {0}
    BY <1>1, LenProperties DEF DuplicatesConstants
  <1>3. e \in Entry /\ e.text = text /\ e.id = id /\ e.age = 0
    BY <1>2 DEF Entry
  <1> HIDE DEF e
  <1>4. /\ added \in Seq(Entry) /\ Len(added) = n + 1
        /\ added[n + 1] = e /\ \A k \in 1 .. n : added[k] = left[k]
    <2>1. added = Append(left, e)
      BY DEF e
    <2> HIDE DEF n
    <2>2. /\ Append(left, e) \in Seq(Entry) /\ Len(Append(left, e)) = Len(left) + 1
          /\ Append(left, e)[Len(left) + 1] = e
          /\ \A k \in 1 .. Len(left) : Append(left, e)[k] = left[k]
      BY <1>1, <1>3, AppendProperties
    <2> QED BY <2>1, <2>2 DEF n
  <1>5. Exact(counted, added)
    <2>1. Exact([Trackers(left) EXCEPT ![e.text] = Count(@, e.id)], Append(left, e))
      BY <1>1, <1>3, CountedExact
    <2>2. added = Append(left, e)
      BY DEF e
    <2>3. counted = [Trackers(left) EXCEPT ![e.text] = Count(@, e.id)]
      BY <1>3
    <2> QED BY <2>1, <2>2, <2>3
  <1> HIDE DEF n, From
  <1>6. \A k \in 1 .. n + 1 : (k \in 1 .. n) \/ (k = n + 1 /\ k \notin 1 .. n)
    BY <1>2
  <1>7. id > 0 => \A k \in 1 .. n : left[k].id # id
    <2> SUFFICES ASSUME id > 0, NEW k \in 1 .. n, left[k].id = id PROVE FALSE
      OBVIOUS
    <2>1. left[k].text # text
      BY <1>2 DEF Known
    <2>2. Outdated(left[k], text, id)
      BY <2>1 DEF Outdated
    <2>3. From(left[k])
      BY <1>1
    <2>4. ~Outdated(left[k], text, id)
      BY <2>3 DEF From
    <2> QED BY <2>2, <2>4
  <1>8. DOMAIN added = 1 .. n + 1
    BY <1>4, LenProperties
  <1>9. Distinct(added)
    <2> SUFFICES ASSUME NEW i \in 1 .. n + 1, NEW j \in 1 .. n + 1,
                        added[i].id > 0, added[j].id = added[i].id
                 PROVE  i = j
      BY <1>8 DEF Distinct
    <2>1. CASE i \in 1 .. n /\ j \in 1 .. n
      <3>1. added[i] = left[i] /\ added[j] = left[j]
        BY <1>4, <2>1
      <3>2. left[i].id > 0 /\ left[j].id = left[i].id
        BY <3>1
      <3> QED BY <1>1, <1>2, <2>1, <3>2 DEF Distinct
    <2>2. CASE i \in 1 .. n /\ j = n + 1
      BY <1>3, <1>4, <1>7, <2>2
    <2>3. CASE i = n + 1 /\ j \in 1 .. n
      BY <1>3, <1>4, <1>7, <2>3
    <2>4. CASE i = n + 1 /\ j = n + 1
      BY <2>4
    <2> QED BY <1>6, <2>1, <2>2, <2>3, <2>4
  <1>10. ASSUME NEW k \in 1 .. n + 1 PROVE From(added[k]) \/ added[k] = e
    BY <1>1, <1>4, <1>6
  <1>11. ASSUME NEW i \in 1 .. Len(es), es[i].age < Window, ~Outdated(es[i], text, id)
         PROVE  \E k \in 1 .. n : added[k] = es[i]
    BY <1>1, <1>4, <1>11
  <1>12. ASSUME OverLimit(added), {Head(added).id} \ {0} \subseteq gone
         PROVE  Checks(es, Tail(added), Untrack(counted, Head(added)), gone, text, id, FALSE)
    <2> DEFINE r == Tail(added)
               U == Untrack(counted, Head(added))
    <2>1. Len(added) <= MaxEntries + 1
      <3>1. n <= MaxEntries
        <4>1. n <= Len(es) /\ Len(es) <= MaxEntries
          BY <1>1
        <4> QED BY <1>2, <4>1
      <3> QED BY <1>2, <1>4, <3>1
    <2>2. /\ Len(added) >= 2 /\ Head(added) = added[1]
          /\ r \in Seq(Entry) /\ Len(r) = Len(added) - 1 /\ Len(r) <= MaxEntries
          /\ \A k \in 1 .. Len(added) - 1 : r[k] = added[k + 1]
          /\ Distinct(r) /\ Exact(U, r)
      BY <1>4, <1>5, <1>9, <1>12, <2>1, LimitedExact
    <2> HIDE DEF r, U
    <2>3. Len(r) = n /\ n >= 1
      BY <1>2, <1>4, <2>2
    <2>4. \A k \in 1 .. n : k + 1 \in 1 .. n + 1 /\ r[k] = added[k + 1]
      <3>1. Len(added) - 1 = n
        BY <1>2, <1>4
      <3>2. \A k \in 1 .. n : r[k] = added[k + 1]
        BY <2>2, <3>1
      <3>3. \A k \in 1 .. n : k + 1 \in 1 .. n + 1
        BY <1>2
      <3> QED BY <3>2, <3>3
    <2>5. \A k \in 1 .. n : From(r[k]) \/ r[k] = e
      BY <1>10, <2>4
    <2>6. r[n] = e /\ r # <<>>
      <3>1. n \in 1 .. n
        BY <1>2, <2>3
      <3>2. r # <<>>
        BY <2>3
      <3> QED BY <1>4, <2>4, <3>1, <3>2
    <2>7. ASSUME NEW i \in 1 .. Len(es), es[i].age < Window, ~Outdated(es[i], text, id), es[i].id > 0
          PROVE  es[i].id \in gone \/ \E k \in 1 .. n : r[k] = es[i]
      <3>1. PICK k \in 1 .. n : added[k] = es[i]
        BY <1>11, <2>7
      <3>2. CASE k = 1
        <4>1. es[i].id # 0
          BY <2>7
        <4> QED BY <1>12, <2>2, <3>1, <3>2, <4>1
      <3>3. CASE k # 1
        <4>1. PICK j \in 1 .. n : j + 1 = k
          <5>1. k - 1 \in 1 .. n /\ (k - 1) + 1 = k
            BY <1>2, <3>3
          <5> QED BY <5>1
        <4> QED BY <2>4, <3>1, <4>1
      <3> QED BY <3>2, <3>3
    <2>8. Checks(es, r, U, gone, text, id, FALSE)
      <3>1. \A k \in 1 .. Len(r) :
              \/ \E i \in 1 .. Len(es) :
                   r[k] = es[i] /\ es[i].age < Window /\ ~Outdated(es[i], text, id)
              \/ ~FALSE /\ r[k] = [text |-> text, id |-> id, age |-> 0]
        BY <2>3, <2>5 DEF From, e
      <3>2. \A i \in 1 .. Len(es) :
              es[i].age < Window /\ ~Outdated(es[i], text, id) /\ es[i].id > 0
              => es[i].id \in gone \/ \E k \in 1 .. Len(r) : r[k] = es[i]
        BY <2>3, <2>7
      <3>3. ~FALSE => r # <<>> /\ r[Len(r)] = [text |-> text, id |-> id, age |-> 0]
        BY <2>3, <2>6 DEF e
      <3> QED BY <2>2, <3>1, <3>2, <3>3 DEF Checks
    <2> QED BY <2>8 DEF r, U
  <1>13. ASSUME ~OverLimit(added) PROVE Checks(es, added, counted, gone, text, id, FALSE)
    <2>1. Len(added) <= MaxEntries
      BY <1>2, <1>4, <1>13 DEF OverLimit
    <2>2. \A k \in 1 .. Len(added) :
            \/ \E i \in 1 .. Len(es) :
                 added[k] = es[i] /\ es[i].age < Window /\ ~Outdated(es[i], text, id)
            \/ ~FALSE /\ added[k] = [text |-> text, id |-> id, age |-> 0]
      BY <1>4, <1>10 DEF From, e
    <2>3. \A i \in 1 .. Len(es) :
            es[i].age < Window /\ ~Outdated(es[i], text, id) /\ es[i].id > 0
            => es[i].id \in gone \/ \E k \in 1 .. Len(added) : added[k] = es[i]
      <3>1. \A k \in 1 .. n : k \in 1 .. Len(added)
        BY <1>2, <1>4
      <3> QED BY <1>11, <3>1
    <2>4. ~FALSE => added # <<>> /\ added[Len(added)] = [text |-> text, id |-> id, age |-> 0]
      <3>1. added # <<>>
        <4>1. n \in Nat /\ Len(added) = n + 1
          BY <1>2, <1>4
        <4>2. Len(added) # 0
          BY <4>1
        <4>3. Len(<<>>) = 0
          OBVIOUS
        <4> QED BY <4>2, <4>3
      <3> QED BY <1>4, <3>1 DEF e
    <2> QED BY <1>4, <1>5, <1>9, <2>1, <2>2, <2>3, <2>4 DEF Checks
  <1> QED
    BY <1>12, <1>13

----------------------------------------------------------------------------
(* The operations.                                                         *)

(* The entries in a state of the invariant.                                *)
LEMMA EntriesOfInv ==
    ASSUME TypeOK, OneContentPerMessage
    PROVE  entries \in Seq(Entry) /\ Len(entries) <= MaxEntries /\ Distinct(entries)
  <1>1. entries \in Seq(Entry) /\ Len(entries) <= MaxEntries
    BY DEF TypeOK, Entry
  <1>2. Distinct(entries)
    BY DEF OneContentPerMessage, Distinct
  <1> QED
    BY <1>1, <1>2

(* All that a check does to the entries, the trackers and the answer.      *)
LEMMA CheckEffect ==
    ASSUME DuplicatesConstants, TypeOK, OneContentPerMessage,
           NEW text \in Texts, NEW id \in Ids \union {0}, Check(text, id)
    PROVE  \E known \in BOOLEAN :
             /\ Checks(entries, entries', trackers', lost', text, id, known)
             /\ verdict' = [text |-> {text}, id |-> id, edit |-> known,
                            spam |-> ~known /\ trackers'[text].count >= Threshold,
                            extra |-> IF ~known /\ trackers'[text].count >= Threshold
                                      THEN AllButLast(trackers'[text].ids) ELSE <<>>]
             /\ lost \ {id} \subseteq lost' /\ lost' \subseteq Ids
  <1> DEFINE recent  == Unexpired(entries)
             old     == Edited(recent, text, id)
             left    == Keep(recent, DOMAIN recent \ old)
             trk     == IF old = {} THEN Trackers(recent)
                        ELSE Untrack(Trackers(recent), recent[CHOOSE i \in old : TRUE])
             known   == Known(left, text, id)
             added   == IF known THEN left ELSE Append(left, [text |-> text, id |-> id, age |-> 0])
             counted == IF known THEN trk ELSE [trk EXCEPT ![text] = Count(@, id)]
             over    == OverLimit(added)
             final   == IF over THEN Untrack(counted, Head(added)) ELSE counted
             alarm   == ~known /\ final[text].count >= Threshold
  <1>1. /\ entries' = IF over THEN Tail(added) ELSE added
        /\ trackers' = final
        /\ verdict' = [text |-> {text}, id |-> id, edit |-> known, spam |-> alarm,
                       extra |-> IF alarm THEN AllButLast(final[text].ids) ELSE <<>>]
        /\ lost' = (lost \ {id}) \union (IF over THEN {Head(added).id} \ {0} ELSE {})
    BY DEF Check
  <1>2. entries \in Seq(Entry) /\ Len(entries) <= MaxEntries /\ Distinct(entries)
    BY EntriesOfInv
  <1>3. recent \in Seq(Entry) /\ Distinct(recent)
    BY <1>2, UnexpiredEntries
  <1>4. trk = Trackers(left)
    BY <1>3, EditedOut
  <1>5. left = Keep(Unexpired(entries), DOMAIN Unexpired(entries) \ Edited(Unexpired(entries), text, id))
    OBVIOUS
  <1>6. known \in BOOLEAN
    BY DEF Known
  <1>7. left \in Seq(Entry)
    <2>1. Remaining(left, entries, text, id)
      BY <1>2, LeftEntries
    <2> QED BY <2>1 DEF Remaining
  <1>8. known <=> Known(left, text, id)
    OBVIOUS
  <1> HIDE DEF recent, old, left, trk
  <1>9. Checks(entries, entries', trackers', lost', text, id, known)
    <2>1. CASE known
      <3>1. added = left /\ counted = Trackers(left)
        BY <1>4, <2>1
      <3> HIDE DEF added, counted
      <3>2. ~OverLimit(left)
        BY <1>2, <1>5, <1>8, <2>1, KnownChecks
      <3>3. PICK es, ts, gone : es = entries' /\ ts = trackers' /\ gone = lost'
        OBVIOUS
      <3>4. Checks(entries, left, Trackers(left), gone, text, id, TRUE)
        BY <1>2, <1>5, <1>8, <2>1, KnownChecks
      <3>5. entries' = left /\ trackers' = Trackers(left)
        BY <1>1, <3>1, <3>2
      <3>6. known = TRUE
        BY <1>6, <2>1
      <3> HIDE DEF known
      <3> QED BY <3>3, <3>4, <3>5, <3>6
    <2>2. CASE ~known
      <3>1. /\ added = Append(left, [text |-> text, id |-> id, age |-> 0])
            /\ counted = [Trackers(left) EXCEPT ![text] = Count(@, id)]
        BY <1>4, <2>2
      <3>2. ~Known(left, text, id) /\ known = FALSE
        BY <1>6, <1>8, <2>2
      <3> HIDE DEF added, counted, known
      <3>3. ASSUME over PROVE Checks(entries, Tail(added), Untrack(counted, Head(added)), lost', text, id, FALSE)
        <4>1. PICK gone : gone = lost'
          OBVIOUS
        <4>2. {Head(added).id} \ {0} \subseteq gone
          BY <1>1, <3>3, <4>1
        <4>3. OverLimit(added)
          BY <3>3
        <4>4. Checks(entries, Tail(added), Untrack(counted, Head(added)), gone, text, id, FALSE)
          BY <1>2, <1>5, <3>1, <3>2, <4>2, <4>3, NewChecks
        <4> QED BY <4>1, <4>4
      <3>4. ASSUME ~over PROVE Checks(entries, added, counted, lost', text, id, FALSE)
        <4>1. PICK gone : gone = lost'
          OBVIOUS
        <4>2. ~OverLimit(added)
          BY <3>4
        <4>3. Checks(entries, added, counted, gone, text, id, FALSE)
          BY <1>2, <1>5, <3>1, <3>2, <4>2, NewChecks
        <4> QED BY <4>1, <4>3
      <3> HIDE DEF over
      <3>5. CASE over
        <4>1. entries' = Tail(added) /\ trackers' = Untrack(counted, Head(added))
          BY <1>1, <3>5
        <4> QED BY <3>2, <3>3, <3>5, <4>1
      <3>6. CASE ~over
        <4>1. entries' = added /\ trackers' = counted
          BY <1>1, <3>6
        <4> QED BY <3>2, <3>4, <3>6, <4>1
      <3> QED BY <3>5, <3>6
    <2> QED BY <2>1, <2>2
  <1>10. lost \ {id} \subseteq lost' /\ lost' \subseteq Ids
    <2>1. lost \subseteq Ids
      BY DEF TypeOK
    <2>2. ASSUME over PROVE Head(added).id \in Ids \union {0}
      <3>1. added \in Seq(Entry) /\ added # <<>>
        <4>1. added \in Seq(Entry)
          <5>1. PICK e : e = [text |-> text, id |-> id, age |-> 0]
            OBVIOUS
          <5>2. e \in Entry
            BY <5>1 DEF Entry, DuplicatesConstants
          <5>3. Append(left, e) \in Seq(Entry)
            BY <1>7, <5>2, AppendProperties
          <5>4. added = left \/ added = Append(left, e)
            BY <5>1
          <5> QED BY <1>7, <5>3, <5>4
        <4> HIDE DEF added
        <4>2. Len(added) > MaxEntries /\ MaxEntries \in Nat
          BY <2>2 DEF OverLimit, DuplicatesConstants
        <4>3. Len(added) \in Nat
          BY <4>1, LenProperties
        <4>4. added # <<>>
          BY <4>2, <4>3
        <4> QED BY <4>1, <4>4
      <3> HIDE DEF added
      <3>2. Head(added) \in Entry
        BY <3>1, HeadTailProperties
      <3> QED BY <3>2 DEF Entry
    <2> HIDE DEF added, over
    <2> QED BY <1>1, <2>1, <2>2
  <1>11. verdict' = [text |-> {text}, id |-> id, edit |-> known,
                     spam |-> ~known /\ trackers'[text].count >= Threshold,
                     extra |-> IF ~known /\ trackers'[text].count >= Threshold
                               THEN AllButLast(trackers'[text].ids) ELSE <<>>]
    <2> HIDE DEF known, final
    <2> QED BY <1>1
  <1> HIDE DEF known
  <1> QED
    BY <1>6, <1>9, <1>10, <1>11

(* The trackers of no entries are no trackers.                             *)
LEMMA EmptyTrackers ==
    ASSUME DuplicatesConstants
    PROVE  Trackers(<<>>) = NoTrackers /\ <<>> \in Seq(Entry) /\ Distinct(<<>>)
  <1>1. <<>> \in Seq(Entry) /\ DOMAIN <<>> = {}
    OBVIOUS
  <1>2. ASSUME NEW t \in Texts
        PROVE  Cardinality(Places(<<>>, t)) = 0 /\ IdsOf(<<>>, t) = <<>>
    <2>1. Places(<<>>, t) = {}
      BY DEF Places
    <2>2. Cardinality(Places(<<>>, t)) = 0
      BY <2>1, FS_EmptySet
    <2>3. PICK es : es = <<>>
      OBVIOUS
    <2>4. es \in Seq(Entry) /\ Cardinality(Places(es, t)) = 0
      BY <1>1, <2>2, <2>3
    <2>5. IdsOf(es, t) = <<>>
      BY <2>4, NoPlacesNoIds
    <2> QED BY <2>2, <2>3, <2>5
  <1>3. Trackers(<<>>) = NoTrackers
    BY <1>2 DEF Trackers, NoTrackers, NoTracker
  <1> QED
    BY <1>1, <1>3 DEF Distinct

(* Trackers just built are exact for the entries.                          *)
LEMMA BuiltExact ==
    ASSUME DuplicatesConstants, NEW es \in Seq(Entry)
    PROVE  Exact(Trackers(es), es)
  <1> DEFINE T == Trackers(es)
  <1>1. T = [t \in Texts |-> [count |-> Cardinality(Places(es, t)), ids |-> IdsOf(es, t)]]
    BY DEF Trackers
  <1>2. T = [t \in Texts |-> T[t]] /\ \A t \in Texts : T[t] = [count |-> T[t].count, ids |-> T[t].ids]
    BY <1>1
  <1>3. \A t \in Texts : Recounted(T[t], es, t)
    BY TrackersRecounted
  <1> HIDE DEF T
  <1>4. Exact(T, es)
    BY <1>2, <1>3 DEF Exact
  <1> QED
    BY <1>4 DEF T

(* Exact trackers have their type.                                         *)
LEMMA ExactType ==
    ASSUME DuplicatesConstants, NEW es \in Seq(Entry), Len(es) <= MaxEntries, NEW trk, Exact(trk, es)
    PROVE  trk \in [Texts -> [count : 0 .. MaxEntries, ids : Seq(Ids)]]
  <1>1. MaxEntries \in Nat /\ Len(es) \in Nat
    BY LenProperties DEF DuplicatesConstants
  <1>2. trk = [t \in Texts |-> trk[t]]
    BY DEF Exact
  <1>3. \A t \in Texts : trk[t] = [count |-> trk[t].count, ids |-> trk[t].ids]
    BY DEF Exact
  <1>4. \A t \in Texts : Recounted(trk[t], es, t)
    BY DEF Exact
  <1>5. ASSUME NEW t \in Texts PROVE trk[t] \in [count : 0 .. MaxEntries, ids : Seq(Ids)]
    <2>1. PICK c, ids : c = trk[t].count /\ ids = trk[t].ids
      OBVIOUS
    <2>2. trk[t] = [count |-> c, ids |-> ids]
      BY <1>3, <2>1
    <2>3. trk[t].ids \in Seq(Ids) /\ trk[t].count \in Nat /\ trk[t].count <= Len(es)
      BY <1>4, RecountedType
    <2>4. c \in 0 .. MaxEntries
      BY <1>1, <2>1, <2>3
    <2>5. ids \in Seq(Ids)
      BY <2>1, <2>3
    <2> QED BY <2>2, <2>4, <2>5
  <1> QED
    BY <1>2, <1>5

(* The trackers of a state of the invariant are exact.                     *)
LEMMA ExactOfInv ==
    ASSUME DuplicatesConstants, TypeOK, TrackersExact
    PROVE  Exact(trackers, entries)
  <1>1. trackers \in [Texts -> [count : 0 .. MaxEntries, ids : Seq(Ids)]]
    BY DEF TypeOK
  <1>2. trackers = [t \in Texts |-> trackers[t]]
    BY <1>1
  <1>3. ASSUME NEW t \in Texts PROVE trackers[t] = [count |-> trackers[t].count, ids |-> trackers[t].ids]
    <2>1. trackers[t] \in [count : 0 .. MaxEntries, ids : Seq(Ids)]
      BY <1>1
    <2> QED BY <2>1
  <1> QED
    BY <1>2, <1>3 DEF TrackersExact, Exact

(* The count and the ids of a text do not depend on the ages.              *)
LEMMA AgesAside ==
    ASSUME DuplicatesConstants, NEW es \in Seq(Entry), NEW es2 \in Seq(Entry), Len(es) = Len(es2),
           \A i \in 1 .. Len(es) : es2[i].text = es[i].text /\ es2[i].id = es[i].id,
           NEW trk, Exact(trk, es)
    PROVE  Exact(trk, es2)
  <1>1. /\ DOMAIN es = 1 .. Len(es)
        /\ Column(es) \in Seq(Ids \union {0}) /\ DOMAIN Column(es) = 1 .. Len(es)
        /\ \A i \in 1 .. Len(es) : Column(es)[i] = es[i].id
    BY EntryFields
  <1>2. /\ DOMAIN es2 = 1 .. Len(es2)
        /\ Column(es2) \in Seq(Ids \union {0}) /\ DOMAIN Column(es2) = 1 .. Len(es2)
        /\ \A i \in 1 .. Len(es2) : Column(es2)[i] = es2[i].id
    BY EntryFields
  <1>3. Column(es2) = Column(es)
    BY <1>1, <1>2 DEF Column
  <1>4. ASSUME NEW t \in Texts PROVE Places(es2, t) = Places(es, t) /\ IdsOf(es2, t) = IdsOf(es, t)
    <2>1. Places(es2, t) = Places(es, t)
      BY <1>1, <1>2 DEF Places
    <2>2. IdPlaces(es2, t) = IdPlaces(es, t)
      <3>1. \A i \in Places(es, t) : es2[i].id = es[i].id
        BY <1>1 DEF Places
      <3> QED BY <2>1, <3>1 DEF IdPlaces
    <2>3. /\ IdsOf(es, t) = Keep(Column(es), IdPlaces(es, t))
          /\ IdsOf(es2, t) = Keep(Column(es2), IdPlaces(es2, t))
      BY IdsOfColumn
    <2> QED BY <1>3, <2>1, <2>2, <2>3
  <1>5. \A t \in Texts : Recounted(trk[t], es2, t)
    BY <1>4 DEF Exact, Recounted
  <1> QED
    BY <1>5 DEF Exact

(* Nothing has been seen at the start.                                     *)
LEMMA StartInv ==
    ASSUME DuplicatesConstants, Init
    PROVE  DuplicatesInv
  <1>1. MaxEntries \in Nat \ {0} /\ Window \in Nat \ {0}
    BY DEF DuplicatesConstants
  <1>2. PICK es : es = <<>>
    OBVIOUS
  <1>3. Trackers(es) = NoTrackers /\ es \in Seq(Entry) /\ Len(es) = 0 /\ Len(es) <= MaxEntries
    BY <1>1, <1>2, EmptyTrackers
  <1>4. Exact(NoTrackers, es)
    BY <1>3, BuiltExact
  <1>5. entries = es /\ trackers = NoTrackers /\ verdict = NoVerdict /\ lost = {}
    BY <1>2 DEF Init
  <1>6. posts = [id \in Ids |-> [text |-> {}, since |-> Window, age |-> Window]]
    BY DEF Init
  <1>7. trackers \in [Texts -> [count : 0 .. MaxEntries, ids : Seq(Ids)]]
    BY <1>3, <1>4, <1>5, ExactType
  <1>8. TrackersExact
    BY <1>4, <1>5 DEF TrackersExact, Exact
  <1>9. posts \in [Ids -> [text : SUBSET Texts, since : 0 .. Window, age : 0 .. Window]]
    BY <1>1, <1>6
  <1>10. verdict \in [text : SUBSET Texts, id : Ids \union {0}, edit : BOOLEAN, spam : BOOLEAN,
                      extra : Seq(Ids)]
    BY <1>5 DEF NoVerdict
  <1>11. TypeOK
    BY <1>3, <1>5, <1>7, <1>9, <1>10 DEF TypeOK, Entry
  <1>12. DOMAIN entries = {}
    BY <1>2, <1>5
  <1>13. OneContentPerMessage /\ Fresh
    BY <1>12 DEF OneContentPerMessage, Fresh
  <1>14. Remembered
    BY <1>1, <1>6 DEF Remembered
  <1>15. Answered
    BY <1>5 DEF Answered
  <1> QED
    BY <1>8, <1>11, <1>13, <1>14, <1>15 DEF DuplicatesInv

(* A check keeps the invariant.                                            *)
LEMMA CheckKeeps ==
    ASSUME DuplicatesConstants, DuplicatesInv,
           NEW text \in Texts, NEW id \in Ids \union {0}, Check(text, id)
    PROVE  DuplicatesInv'
  <1> USE DEF DuplicatesInv
  <1>1. PICK known \in BOOLEAN :
             /\ Checks(entries, entries', trackers', lost', text, id, known)
             /\ verdict' = [text |-> {text}, id |-> id, edit |-> known,
                            spam |-> ~known /\ trackers'[text].count >= Threshold,
                            extra |-> IF ~known /\ trackers'[text].count >= Threshold
                                      THEN AllButLast(trackers'[text].ids) ELSE <<>>]
             /\ lost \ {id} \subseteq lost' /\ lost' \subseteq Ids
    BY CheckEffect
  <1>2. PICK es, ts, gone, ps : es = entries' /\ ts = trackers' /\ gone = lost' /\ ps = posts'
    OBVIOUS
  <1>3. /\ entries \in Seq(Entry) /\ Len(entries) <= MaxEntries /\ Distinct(entries)
        /\ Len(entries) \in Nat /\ DOMAIN entries = 1 .. Len(entries)
        /\ \A i \in 1 .. Len(entries) : /\ entries[i].text \in Texts
                                        /\ entries[i].id \in Ids \union {0} /\ entries[i].id \in Nat
                                        /\ entries[i].age \in 0 .. Window
    <2>1. entries \in Seq(Entry) /\ Len(entries) <= MaxEntries /\ Distinct(entries)
      BY EntriesOfInv
    <2>2. /\ Len(entries) \in Nat /\ DOMAIN entries = 1 .. Len(entries)
          /\ \A i \in 1 .. Len(entries) : /\ entries[i].text \in Texts
                                          /\ entries[i].id \in Ids \union {0} /\ entries[i].id \in Nat
                                          /\ entries[i].age \in 0 .. Window
      BY <2>1, EntryFields
    <2> QED BY <2>1, <2>2
  <1>4. /\ es \in Seq(Entry) /\ Len(es) <= MaxEntries /\ Distinct(es) /\ Exact(ts, es)
        /\ \A k \in 1 .. Len(es) :
             \/ \E i \in 1 .. Len(entries) :
                  es[k] = entries[i] /\ entries[i].age < Window /\ ~Outdated(entries[i], text, id)
             \/ ~known /\ es[k] = [text |-> text, id |-> id, age |-> 0]
        /\ \A i \in 1 .. Len(entries) :
             entries[i].age < Window /\ ~Outdated(entries[i], text, id) /\ entries[i].id > 0
             => entries[i].id \in gone \/ \E k \in 1 .. Len(es) : es[k] = entries[i]
        /\ ~known => es # <<>> /\ es[Len(es)] = [text |-> text, id |-> id, age |-> 0]
        /\ known => \E k \in 1 .. Len(es) : es[k].id = id /\ es[k].text = text
    BY <1>1, <1>2 DEF Checks
  <1>5. /\ Len(es) \in Nat /\ DOMAIN es = 1 .. Len(es)
        /\ \A i \in 1 .. Len(es) : es[i].id \in Ids \union {0} /\ es[i].id \in Nat
    BY <1>4, EntryFields
  <1>6. /\ posts \in [Ids -> [text : SUBSET Texts, since : 0 .. Window, age : 0 .. Window]]
        /\ Window \in Nat \ {0} /\ 0 \notin Ids /\ \A x \in Ids : x \in Nat /\ x > 0
    BY DEF TypeOK, DuplicatesConstants
  <1>7. ps = IF id = 0 THEN posts
             ELSE [posts EXCEPT ![id] =
                     [text |-> {text}, since |-> IF @.text = {text} THEN @.since ELSE 0, age |-> 0]]
    BY <1>2 DEF Check
  <1>8. /\ \A x \in Ids : x # id => ps[x] = posts[x]
        /\ id # 0 => /\ ps[id].text = {text} /\ ps[id].age = 0
                     /\ ps[id].since = IF posts[id].text = {text} THEN posts[id].since ELSE 0
    BY <1>6, <1>7
  <1>9. ps \in [Ids -> [text : SUBSET Texts, since : 0 .. Window, age : 0 .. Window]]
    <2>1. CASE id = 0
      BY <1>6, <1>7, <2>1
    <2>2. CASE id # 0
      <3>1. PICK a : a = IF posts[id].text = {text} THEN posts[id].since ELSE 0
        OBVIOUS
      <3>2. a \in 0 .. Window /\ 0 \in 0 .. Window
        <4>1. posts[id].since \in 0 .. Window
          BY <1>6, <2>2
        <4> QED BY <1>6, <3>1, <4>1
      <3>3. ps = [posts EXCEPT ![id] = [text |-> {text}, since |-> a, age |-> 0]]
        BY <1>7, <2>2, <3>1
      <3>4. [text |-> {text}, since |-> a, age |-> 0]
              \in [text : SUBSET Texts, since : 0 .. Window, age : 0 .. Window]
        BY <3>2
      <3> QED BY <1>6, <3>3, <3>4
    <2> QED BY <2>1, <2>2
  <1>10. ts \in [Texts -> [count : 0 .. MaxEntries, ids : Seq(Ids)]]
    BY <1>4, ExactType
  <1>11. TypeOK'
    <2>1. verdict' \in [text : SUBSET Texts, id : Ids \union {0}, edit : BOOLEAN, spam : BOOLEAN,
                        extra : Seq(Ids)]
      <3>1. ts[text].ids \in Seq(Ids)
        BY <1>10
      <3>2. AllButLast(ts[text].ids) \in Seq(Ids)
        <4>1. PICK ids : ids = ts[text].ids
          OBVIOUS
        <4>2. ids \in Seq(Ids) /\ Len(ids) \in Nat
          BY <3>1, <4>1, LenProperties
        <4>3. \A i \in 1 .. Len(ids) - 1 : ids[i] \in Ids
          BY <4>2, ElementOfSeq
        <4>4. 1 \in Int /\ Len(ids) - 1 \in Int
          BY <4>2
        <4>5. SubSeq(ids, 1, Len(ids) - 1) \in Seq(Ids)
          BY <4>3, <4>4, SubSeqProperties
        <4>6. <<>> \in Seq(Ids)
          OBVIOUS
        <4>7. AllButLast(ids) \in Seq(Ids)
          BY <4>5, <4>6 DEF AllButLast
        <4> QED BY <4>1, <4>7
      <3>3. PICK alarm \in BOOLEAN : alarm <=> ~known /\ ts[text].count >= Threshold
        OBVIOUS
      <3>4. PICK extra \in Seq(Ids) : extra = IF alarm THEN AllButLast(ts[text].ids) ELSE <<>>
        <4>1. PICK left : left = AllButLast(ts[text].ids)
          OBVIOUS
        <4>2. PICK none : none = <<>>
          OBVIOUS
        <4>3. left \in Seq(Ids) /\ none \in Seq(Ids)
          BY <3>2, <4>1, <4>2
        <4>4. \E extra \in Seq(Ids) : extra = IF alarm THEN left ELSE none
          BY <4>3, Zenon
        <4> QED BY <4>1, <4>2, <4>4, Zenon
      <3>5. verdict' = [text |-> {text}, id |-> id, edit |-> known, spam |-> alarm, extra |-> extra]
        BY <1>1, <1>2, <3>3, <3>4, Zenon
      <3> QED BY <3>5
    <2>2. entries' \in Seq([text : Texts, id : Ids \union {0}, age : 0 .. Window])
      BY <1>2, <1>4 DEF Entry
    <2> QED BY <1>1, <1>2, <1>4, <1>9, <1>10, <2>1, <2>2 DEF TypeOK
  <1>12. TrackersExact'
    <2>1. \A t \in Texts : Recounted(ts[t], es, t)
      BY <1>4 DEF Exact
    <2> QED BY <1>2, <2>1 DEF TrackersExact
  <1>13. ASSUME NEW k \in 1 .. Len(es), es[k].id > 0
         PROVE  /\ ps[es[k].id].text = {es[k].text}
                /\ ps[es[k].id].age <= es[k].age /\ es[k].age <= ps[es[k].id].since
                /\ es[k].id \in Ids
    <2>0. es[k].id \in Ids
      BY <1>5, <1>13
    <2>1. ASSUME NEW i \in 1 .. Len(entries), es[k] = entries[i], ~Outdated(entries[i], text, id)
          PROVE  /\ ps[es[k].id].text = {es[k].text}
                 /\ ps[es[k].id].age <= es[k].age /\ es[k].age <= ps[es[k].id].since
      <3>1. /\ posts[entries[i].id].text = {entries[i].text}
            /\ posts[entries[i].id].age <= entries[i].age
            /\ entries[i].age <= posts[entries[i].id].since
        BY <1>3, <1>13, <2>1 DEF OneContentPerMessage, Fresh
      <3>2. CASE es[k].id = id
        <4>1. entries[i].text = text
          BY <1>13, <2>1, <3>2 DEF Outdated
        <4>2. posts[id].text = {text} /\ id # 0
          BY <1>13, <2>1, <3>1, <3>2, <4>1
        <4>3. ps[id].text = {text} /\ ps[id].age = 0 /\ ps[id].since = posts[id].since
          BY <1>8, <4>2
        <4>4. 0 <= entries[i].age
          BY <1>3, <1>6
        <4> QED BY <2>1, <3>1, <3>2, <4>1, <4>3, <4>4
      <3>3. CASE es[k].id # id
        <4>1. ps[es[k].id] = posts[es[k].id]
          BY <1>8, <2>0, <3>3
        <4> QED BY <2>1, <3>1, <4>1
      <3> QED BY <3>2, <3>3
    <2>2. ASSUME es[k] = [text |-> text, id |-> id, age |-> 0]
          PROVE  /\ ps[es[k].id].text = {es[k].text}
                 /\ ps[es[k].id].age <= es[k].age /\ es[k].age <= ps[es[k].id].since
      <3>1. es[k].id = id /\ es[k].text = text /\ es[k].age = 0 /\ id # 0 /\ id \in Ids
        BY <1>6, <1>13, <2>0, <2>2
      <3>2. ps[id].text = {text} /\ ps[id].age = 0
        BY <1>8, <3>1
      <3>3. 0 <= ps[id].since
        <4>1. ps[id].since \in 0 .. Window
          BY <1>9, <3>1
        <4> QED BY <1>6, <4>1
      <3> QED BY <3>1, <3>2, <3>3
    <2> QED BY <1>4, <2>0, <2>1, <2>2
  <1>14. OneContentPerMessage'
    <2>1. \A k \in 1 .. Len(es) :
            es[k].id > 0 => /\ ps[es[k].id].text = {es[k].text}
                            /\ \A j \in DOMAIN es : es[j].id = es[k].id => k = j
      BY <1>4, <1>5, <1>13 DEF Distinct
    <2> QED BY <1>2, <1>5, <2>1 DEF OneContentPerMessage
  <1>15. Fresh'
    BY <1>2, <1>5, <1>13 DEF Fresh
  <1>16. Remembered'
    <2> SUFFICES ASSUME NEW x \in Ids, x \notin gone, ps[x].since < Window
                 PROVE  \E k \in 1 .. Len(es) : es[k].id = x
      BY <1>2, <1>5 DEF Remembered
    <2>1. CASE x = id
      <3>1. CASE known
        BY <1>4, <2>1, <3>1
      <3>2. CASE ~known
        <4>1. es # <<>> /\ es[Len(es)] = [text |-> text, id |-> id, age |-> 0]
          BY <1>4, <3>2
        <4>2. Len(es) \in 1 .. Len(es)
          BY <1>4, <1>5, <4>1
        <4>3. es[Len(es)].id = x
          BY <2>1, <4>1
        <4> QED BY <4>2, <4>3
      <3> QED BY <3>1, <3>2
    <2>2. CASE x # id
      <3>1. x \notin lost
        BY <1>1, <1>2, <2>2
      <3>2. posts[x].since < Window
        BY <1>8, <2>2
      <3>3. PICK i \in 1 .. Len(entries) : entries[i].id = x
        BY <1>3, <3>1, <3>2 DEF Remembered
      <3>4. x > 0 /\ entries[i].age <= posts[x].since /\ posts[x].since \in 0 .. Window
        BY <1>3, <1>6, <3>3 DEF Fresh
      <3>5. entries[i].age < Window
        BY <1>3, <1>6, <3>2, <3>4
      <3>6. ~Outdated(entries[i], text, id)
        BY <2>2, <3>3 DEF Outdated
      <3>7. \E k \in 1 .. Len(es) : es[k] = entries[i]
        BY <1>4, <3>3, <3>4, <3>5, <3>6
      <3> QED BY <3>3, <3>7
    <2> QED BY <2>1, <2>2
  <1>17. Answered'
    <2>1. verdict'.text = {text} /\ verdict'.id = id /\ verdict'.edit = known
      BY <1>1
    <2>2. verdict'.spam <=> ~verdict'.edit /\ ts[text].count >= Threshold
      BY <1>1, <1>2, Zenon
    <2>3. verdict'.spam => verdict'.extra = AllButLast(ts[text].ids)
      <3>1. verdict'.spam <=> ~known /\ ts[text].count >= Threshold
        BY <1>1, <1>2, Zenon
      <3>2. verdict'.extra = IF ~known /\ ts[text].count >= Threshold
                             THEN AllButLast(ts[text].ids) ELSE <<>>
        BY <1>1, <1>2, Zenon
      <3> QED BY <3>1, <3>2, Zenon
    <2>4. ASSUME NEW k \in 1 .. Len(es) PROVE es[k].age < Window
      BY <1>4, <1>6
    <2>5. ~verdict'.edit => /\ es # <<>>
                            /\ es[Len(es)] = [text |-> text, id |-> verdict'.id, age |-> 0]
      BY <1>4, <2>1
    <2> QED BY <1>2, <1>5, <2>1, <2>2, <2>3, <2>4, <2>5 DEF Answered
  <1> QED
    BY <1>11, <1>12, <1>14, <1>15, <1>16, <1>17

(* The periodic cleanup keeps the invariant.                               *)
LEMMA CleanupKeeps ==
    ASSUME DuplicatesConstants, DuplicatesInv, Cleanup
    PROVE  DuplicatesInv'
  <1> USE DEF DuplicatesInv
  <1>1. PICK es, ts : es = entries' /\ ts = trackers'
    OBVIOUS
  <1>2. /\ es = Unexpired(entries) /\ ts = Trackers(es) /\ verdict' = NoVerdict
        /\ posts' = posts /\ lost' = lost
    BY <1>1 DEF Cleanup, history
  <1>3. /\ entries \in Seq(Entry) /\ Len(entries) <= MaxEntries /\ Distinct(entries)
        /\ Len(entries) \in Nat /\ DOMAIN entries = 1 .. Len(entries)
    BY EntriesOfInv, LenProperties
  <1>4. /\ es \in Seq(Entry) /\ Len(es) <= Len(entries) /\ Distinct(es)
        /\ \A k \in 1 .. Len(es) :
             \E i \in 1 .. Len(entries) : es[k] = entries[i] /\ entries[i].age < Window
        /\ \A i \in 1 .. Len(entries) :
             entries[i].age < Window => \E k \in 1 .. Len(es) : es[k] = entries[i]
    BY <1>2, <1>3, UnexpiredEntries
  <1>5. Len(es) \in Nat /\ DOMAIN es = 1 .. Len(es) /\ Len(es) <= MaxEntries
    <2>1. Len(es) \in Nat /\ DOMAIN es = 1 .. Len(es)
      BY <1>4, LenProperties
    <2>2. MaxEntries \in Nat
      BY DEF DuplicatesConstants
    <2> QED BY <1>3, <1>4, <2>1, <2>2
  <1>6. Exact(ts, es)
    BY <1>2, <1>4, BuiltExact
  <1>7. TypeOK'
    <2>1. ts \in [Texts -> [count : 0 .. MaxEntries, ids : Seq(Ids)]]
      BY <1>4, <1>5, <1>6, ExactType
    <2>2. NoVerdict \in [text : SUBSET Texts, id : Ids \union {0}, edit : BOOLEAN, spam : BOOLEAN,
                         extra : Seq(Ids)]
      BY DEF NoVerdict
    <2>3. entries' \in Seq([text : Texts, id : Ids \union {0}, age : 0 .. Window])
      BY <1>1, <1>4 DEF Entry
    <2> QED BY <1>1, <1>2, <1>5, <2>1, <2>2, <2>3 DEF TypeOK
  <1>8. TrackersExact'
    BY <1>1, <1>6 DEF TrackersExact, Exact
  <1>9. OneContentPerMessage'
    <2>1. \A k \in 1 .. Len(es) :
            es[k].id > 0 => /\ posts[es[k].id].text = {es[k].text}
                            /\ \A j \in DOMAIN es : es[j].id = es[k].id => k = j
      <3>1. ASSUME NEW k \in 1 .. Len(es), es[k].id > 0 PROVE posts[es[k].id].text = {es[k].text}
        <4>1. PICK i \in 1 .. Len(entries) : es[k] = entries[i]
          BY <1>4
        <4> QED BY <1>3, <3>1, <4>1 DEF OneContentPerMessage
      <3>2. ASSUME NEW k \in 1 .. Len(es), es[k].id > 0, NEW j \in DOMAIN es, es[j].id = es[k].id
            PROVE  k = j
        BY <1>4, <1>5, <3>2 DEF Distinct
      <3> QED BY <3>1, <3>2
    <2> QED BY <1>1, <1>2, <1>5, <2>1 DEF OneContentPerMessage
  <1>10. Fresh'
    <2>1. \A k \in 1 .. Len(es) :
            es[k].id > 0 => posts[es[k].id].age <= es[k].age /\ es[k].age <= posts[es[k].id].since
      BY <1>3, <1>4 DEF Fresh
    <2> QED BY <1>1, <1>2, <1>5, <2>1 DEF Fresh
  <1>11. Remembered'
    <2> SUFFICES ASSUME NEW x \in Ids, x \notin lost, posts[x].since < Window
                 PROVE  \E k \in 1 .. Len(es) : es[k].id = x
      BY <1>1, <1>2, <1>5 DEF Remembered
    <2>1. PICK i \in 1 .. Len(entries) : entries[i].id = x
      BY <1>3 DEF Remembered
    <2>2. x > 0 /\ entries[i].age <= posts[x].since
      BY <1>3, <2>1 DEF Fresh, DuplicatesConstants
    <2>3. entries[i].age \in Nat /\ posts[x].since \in Nat /\ Window \in Nat
      <3>1. entries[i].age \in 0 .. Window
        BY <1>3, EntryFields
      <3>2. posts[x].since \in 0 .. Window
        BY DEF TypeOK
      <3>3. Window \in Nat
        BY DEF DuplicatesConstants
      <3> QED BY <3>1, <3>2, <3>3
    <2>4. entries[i].age < Window
      BY <2>2, <2>3
    <2> QED BY <1>4, <2>1, <2>4
  <1>12. Answered'
    BY <1>2 DEF Answered, NoVerdict
  <1> QED
    BY <1>7, <1>8, <1>9, <1>10, <1>11, <1>12

(* Forgetting the history keeps the invariant: its messages are lost.      *)
LEMMA ForgetKeeps ==
    ASSUME DuplicatesConstants, DuplicatesInv, Forget
    PROVE  DuplicatesInv'
  <1> USE DEF DuplicatesInv
  <1>1. /\ entries' = <<>> /\ trackers' = NoTrackers /\ verdict' = NoVerdict /\ posts' = posts
        /\ lost' = lost \union ({entries[i].id : i \in DOMAIN entries} \ {0})
    BY DEF Forget
  <1>2. PICK es : es = <<>>
    OBVIOUS
  <1>3. /\ Trackers(es) = NoTrackers /\ es \in Seq(Entry) /\ Len(es) = 0 /\ Len(es) <= MaxEntries
        /\ DOMAIN es = {} /\ entries' = es
    BY <1>1, <1>2, EmptyTrackers DEF DuplicatesConstants
  <1>4. Exact(NoTrackers, es)
    BY <1>3, BuiltExact
  <1>5. TypeOK'
    <2>1. NoTrackers \in [Texts -> [count : 0 .. MaxEntries, ids : Seq(Ids)]]
      BY <1>3, <1>4, ExactType
    <2>2. NoVerdict \in [text : SUBSET Texts, id : Ids \union {0}, edit : BOOLEAN, spam : BOOLEAN,
                         extra : Seq(Ids)]
      BY DEF NoVerdict
    <2>3. lost' \in SUBSET Ids
      <3>1. \A i \in DOMAIN entries : entries[i].id \in Ids \union {0}
        BY EntriesOfInv, EntryFields
      <3>2. lost \in SUBSET Ids
        BY DEF TypeOK
      <3> QED BY <1>1, <3>1, <3>2
    <2>4. entries' \in Seq([text : Texts, id : Ids \union {0}, age : 0 .. Window])
      BY <1>3 DEF Entry
    <2> QED BY <1>1, <1>3, <2>1, <2>2, <2>3, <2>4 DEF TypeOK
  <1>6. TrackersExact'
    BY <1>1, <1>3, <1>4 DEF TrackersExact, Exact
  <1>7. OneContentPerMessage' /\ Fresh'
    BY <1>3 DEF OneContentPerMessage, Fresh
  <1>8. Remembered'
    <2> SUFFICES ASSUME NEW x \in Ids, x \notin lost', posts[x].since < Window
                 PROVE  FALSE
      BY <1>1 DEF Remembered
    <2>1. PICK i \in DOMAIN entries : entries[i].id = x
      BY <1>1 DEF Remembered
    <2>2. x # 0
      BY DEF DuplicatesConstants
    <2> QED BY <1>1, <2>1, <2>2
  <1>9. Answered'
    BY <1>1 DEF Answered
  <1> QED
    BY <1>5, <1>6, <1>7, <1>8, <1>9

(* Time that passes keeps the invariant.                                   *)
LEMMA TickKeeps ==
    ASSUME DuplicatesConstants, DuplicatesInv, Tick
    PROVE  DuplicatesInv'
  <1> USE DEF DuplicatesInv
  <1>1. PICK es, ps : es = entries' /\ ps = posts'
    OBVIOUS
  <1>2. /\ es = [i \in DOMAIN entries |-> [entries[i] EXCEPT !.age = Older(@)]]
        /\ ps = [id \in Ids |-> [posts[id] EXCEPT !.since = Older(@), !.age = Older(@)]]
        /\ verdict' = NoVerdict /\ trackers' = trackers /\ lost' = lost
    BY <1>1 DEF Tick
  <1>3. /\ entries \in Seq(Entry) /\ Len(entries) <= MaxEntries /\ Distinct(entries)
        /\ Len(entries) \in Nat /\ DOMAIN entries = 1 .. Len(entries)
    BY EntriesOfInv, LenProperties
  <1>4. \A i \in 1 .. Len(entries) : /\ entries[i] \in Entry /\ entries[i].age \in 0 .. Window
                                     /\ entries[i].id \in Ids \union {0}
    BY <1>3, EntryFields
  <1>5. Window \in Nat \ {0}
    BY DEF DuplicatesConstants
  <1>6. /\ \A a \in 0 .. Window : Older(a) \in 0 .. Window /\ (Older(a) < Window => a < Window)
        /\ \A a, b \in 0 .. Window : a <= b => Older(a) <= Older(b)
    BY <1>5 DEF Older
  <1> DEFINE n == Len(entries)
  <1>7. ASSUME NEW i \in 1 .. n
        PROVE  /\ es[i] \in Entry
               /\ es[i].text = entries[i].text /\ es[i].id = entries[i].id
               /\ es[i].age = Older(entries[i].age)
    <2>1. PICK e : e = entries[i]
      OBVIOUS
    <2>2. e \in [text : Texts, id : Ids \union {0}, age : 0 .. Window]
      BY <1>4, <2>1 DEF Entry
    <2>3. PICK a \in 0 .. Window : a = Older(e.age)
      BY <1>6, <2>2
    <2>4. es[i] = [e EXCEPT !.age = a]
      BY <1>2, <1>3, <2>1, <2>3
    <2>5. es[i] = [text |-> e.text, id |-> e.id, age |-> a]
      BY <2>2, <2>4
    <2>6. es[i].text = e.text /\ es[i].id = e.id /\ es[i].age = a
      BY <2>5
    <2>7. es[i] \in Entry
      BY <2>2, <2>3, <2>5 DEF Entry
    <2> QED BY <2>1, <2>3, <2>6, <2>7
  <1>8. es \in Seq(Entry) /\ Len(es) = n /\ DOMAIN es = 1 .. n
    <2>1. \A i \in 1 .. n : es[i] \in Entry
      BY <1>7
    <2>2. es = [i \in 1 .. n |-> es[i]] /\ n \in Nat
      BY <1>2, <1>3
    <2> HIDE DEF n
    <2>3. es \in [1 .. n -> Entry]
      BY <2>1, <2>2
    <2> QED BY <2>2, <2>3
  <1>9. \A i \in 1 .. n : /\ es[i].text = entries[i].text /\ es[i].id = entries[i].id
                          /\ es[i].age = Older(entries[i].age)
    BY <1>7
  <1>10. Exact(trackers, es)
    <2>1. Exact(trackers, entries)
      BY ExactOfInv
    <2>2. PICK old, trk : old = entries /\ trk = trackers
      OBVIOUS
    <2>3. old \in Seq(Entry) /\ Len(old) = Len(es) /\ Exact(trk, old)
      BY <1>3, <1>8, <2>1, <2>2
    <2>4. \A i \in 1 .. Len(old) : es[i].text = old[i].text /\ es[i].id = old[i].id
      BY <1>9, <2>2
    <2>5. Exact(trk, es)
      BY <1>8, <2>3, <2>4, AgesAside
    <2> QED BY <2>2, <2>5
  <1>11. ASSUME NEW id \in Ids
         PROVE  /\ ps[id] \in [text : SUBSET Texts, since : 0 .. Window, age : 0 .. Window]
                /\ ps[id].text = posts[id].text /\ ps[id].since = Older(posts[id].since)
                /\ ps[id].age = Older(posts[id].age)
                /\ posts[id].since \in 0 .. Window /\ posts[id].age \in 0 .. Window
    <2>1. PICK p : p = posts[id]
      OBVIOUS
    <2>2. p \in [text : SUBSET Texts, since : 0 .. Window, age : 0 .. Window]
      BY <2>1 DEF TypeOK
    <2>3. PICK a \in 0 .. Window : a = Older(p.since)
      BY <1>6, <2>2
    <2>4. PICK b \in 0 .. Window : b = Older(p.age)
      BY <1>6, <2>2
    <2>5. ps[id] = [p EXCEPT !.since = a, !.age = b]
      BY <1>2, <2>1, <2>3, <2>4
    <2>6. ps[id] = [text |-> p.text, since |-> a, age |-> b]
      BY <2>2, <2>5
    <2>7. ps[id].text = p.text /\ ps[id].since = a /\ ps[id].age = b
      BY <2>6
    <2>8. ps[id] \in [text : SUBSET Texts, since : 0 .. Window, age : 0 .. Window]
      BY <2>2, <2>6
    <2>9. p.since \in 0 .. Window /\ p.age \in 0 .. Window
      BY <2>2
    <2> QED BY <2>1, <2>3, <2>4, <2>7, <2>8, <2>9
  <1>12. \A id \in Ids : /\ ps[id].text = posts[id].text /\ ps[id].since = Older(posts[id].since)
                         /\ ps[id].age = Older(posts[id].age)
                         /\ posts[id].since \in 0 .. Window /\ posts[id].age \in 0 .. Window
    BY <1>11
  <1> HIDE DEF n
  <1>13. TypeOK'
    <2>1. ps \in [Ids -> [text : SUBSET Texts, since : 0 .. Window, age : 0 .. Window]]
      <3>1. \A id \in Ids : ps[id] \in [text : SUBSET Texts, since : 0 .. Window, age : 0 .. Window]
        BY <1>11
      <3>2. ps = [id \in Ids |-> ps[id]]
        BY <1>2
      <3> QED BY <3>1, <3>2
    <2>2. NoVerdict \in [text : SUBSET Texts, id : Ids \union {0}, edit : BOOLEAN, spam : BOOLEAN,
                         extra : Seq(Ids)]
      BY DEF NoVerdict
    <2>3. entries' \in Seq([text : Texts, id : Ids \union {0}, age : 0 .. Window])
      BY <1>1, <1>8 DEF Entry
    <2>4. Len(es) <= MaxEntries
      BY <1>3, <1>8 DEF n
    <2>5. trackers \in [Texts -> [count : 0 .. MaxEntries, ids : Seq(Ids)]] /\ lost \in SUBSET Ids
      BY DEF TypeOK
    <2> QED BY <1>1, <1>2, <2>1, <2>2, <2>3, <2>4, <2>5 DEF TypeOK
  <1>14. TrackersExact'
    BY <1>1, <1>2, <1>10 DEF TrackersExact, Exact
  <1>15. \A i \in 1 .. n : i \in DOMAIN entries
    BY <1>3 DEF n
  <1>16. OneContentPerMessage'
    <2> SUFFICES ASSUME NEW k \in 1 .. n, es[k].id > 0
                 PROVE  /\ ps[es[k].id].text = {es[k].text}
                        /\ \A j \in 1 .. n : es[j].id = es[k].id => k = j
      BY <1>1, <1>8 DEF OneContentPerMessage
    <2>1. es[k].id = entries[k].id /\ es[k].text = entries[k].text
      BY <1>9
    <2>2. entries[k].id \in Ids
      BY <1>4, <2>1 DEF n
    <2>3. posts[entries[k].id].text = {entries[k].text}
      BY <1>15, <2>1 DEF OneContentPerMessage
    <2>4. \A j \in 1 .. n : entries[j].id = entries[k].id => k = j
      BY <1>15, <2>1 DEF OneContentPerMessage
    <2> QED BY <1>9, <1>12, <2>1, <2>2, <2>3, <2>4
  <1>17. Fresh'
    <2> SUFFICES ASSUME NEW k \in 1 .. n, es[k].id > 0
                 PROVE  ps[es[k].id].age <= es[k].age /\ es[k].age <= ps[es[k].id].since
      BY <1>1, <1>8 DEF Fresh
    <2>1. es[k].id = entries[k].id /\ es[k].age = Older(entries[k].age)
      BY <1>9
    <2>2. entries[k].id \in Ids /\ entries[k].age \in 0 .. Window
      BY <1>4, <2>1 DEF n, DuplicatesConstants
    <2>3. /\ posts[entries[k].id].age <= entries[k].age
          /\ entries[k].age <= posts[entries[k].id].since
      BY <1>15, <2>1 DEF Fresh
    <2>4. PICK x \in Ids : x = es[k].id
      BY <2>1, <2>2
    <2>5. posts[x].age \in 0 .. Window /\ posts[x].since \in 0 .. Window
      BY <1>12
    <2>6. /\ Older(posts[x].age) <= Older(entries[k].age)
          /\ Older(entries[k].age) <= Older(posts[x].since)
      BY <1>6, <2>1, <2>2, <2>3, <2>4, <2>5
    <2> QED BY <1>12, <2>1, <2>4, <2>6
  <1>18. Remembered'
    <2> SUFFICES ASSUME NEW x \in Ids, x \notin lost, ps[x].since < Window
                 PROVE  \E k \in 1 .. n : es[k].id = x
      BY <1>1, <1>2, <1>8 DEF Remembered
    <2>1. posts[x].since < Window
      BY <1>6, <1>12
    <2>2. PICK i \in 1 .. n : entries[i].id = x
      BY <1>3, <2>1 DEF Remembered, n
    <2> QED BY <1>9, <2>2
  <1>19. Answered'
    BY <1>2 DEF Answered
  <1> QED
    BY <1>13, <1>14, <1>16, <1>17, <1>18, <1>19

----------------------------------------------------------------------------
(* What follows from the invariant.                                        *)

(* What the invariant says of an entry: its text is the one the message    *)
(* has, which was updated within the window if the entry is recent.        *)
LEMMA EntryOfPost ==
    ASSUME DuplicatesConstants, DuplicatesInv, NEW i \in 1 .. Len(entries), entries[i].id > 0
    PROVE  /\ entries[i].id \in Ids
           /\ posts[entries[i].id].text = {entries[i].text}
           /\ entries[i].age < Window => posts[entries[i].id].age < Window
  <1>1. /\ i \in DOMAIN entries /\ entries[i].id \in Ids \union {0} /\ entries[i].age \in 0 .. Window
    BY EntriesOfInv, EntryFields DEF DuplicatesInv
  <1>2. entries[i].id \in Ids
    BY <1>1
  <1>3. posts[entries[i].id].text = {entries[i].text} /\ posts[entries[i].id].age <= entries[i].age
    BY <1>1 DEF DuplicatesInv, OneContentPerMessage, Fresh
  <1>4. posts[entries[i].id].age \in 0 .. Window /\ Window \in Nat
    <2>1. posts \in [Ids -> [text : SUBSET Texts, since : 0 .. Window, age : 0 .. Window]]
      BY DEF DuplicatesInv, TypeOK
    <2> QED BY <1>2, <2>1 DEF DuplicatesConstants
  <1>5. entries[i].age < Window => posts[entries[i].id].age < Window
    BY <1>1, <1>3, <1>4
  <1> QED
    BY <1>2, <1>3, <1>5

(* Conversely, an entry of the text for a message that has it and is not   *)
(* lost.                                                                   *)
HasEntry(id, text) ==
    \E i \in 1 .. Len(entries) : entries[i].id = id /\ entries[i].id > 0 /\ entries[i].text = text

LEMMA PostHasEntry ==
    ASSUME DuplicatesConstants, DuplicatesInv, NEW id \in Ids \ lost, posts[id].since < Window,
           NEW text, posts[id].text = {text}
    PROVE  HasEntry(id, text)
  <1>1. DOMAIN entries = 1 .. Len(entries)
    BY EntriesOfInv, EntryFields DEF DuplicatesInv
  <1>2. PICK i \in 1 .. Len(entries) : entries[i].id = id
    BY <1>1 DEF DuplicatesInv, Remembered
  <1>3. id > 0
    <2>1. \A x \in Ids : x \in Nat \ {0}
      BY DEF DuplicatesConstants
    <2>2. id \in Nat \ {0}
      BY <2>1
    <2> QED BY <2>2
  <1>4. posts[id].text = {entries[i].text}
    BY <1>2, <1>3, EntryOfPost
  <1>5. {entries[i].text} = {text}
    BY <1>4
  <1>6. entries[i].text = text
    BY <1>5, Zenon
  <1> QED
    BY <1>2, <1>3, <1>6 DEF HasEntry

(* What is known of whatever was flagged.                                  *)
LEMMA AnsweredSpam ==
    ASSUME DuplicatesInv, verdict.spam
    PROVE  \E text \in Texts :
             /\ verdict.text = {text}
             /\ \A i \in DOMAIN entries : entries[i].age < Window
             /\ verdict.spam <=> ~verdict.edit /\ trackers[text].count >= Threshold
  <1>1. verdict # NoVerdict
    BY DEF NoVerdict
  <1> QED
    BY <1>1 DEF DuplicatesInv, Answered

(* Whoever is flagged has as many messages and checks of the text.         *)
LEMMA NoFalseAlarmOfInv ==
    ASSUME DuplicatesConstants, DuplicatesInv
    PROVE  NoFalseAlarm
  <1> SUFFICES ASSUME verdict.spam
               PROVE  Threshold <= Checked(verdict.text)
                        + Cardinality({id \in Ids : posts[id].text = verdict.text /\ posts[id].age < Window})
    BY DEF NoFalseAlarm
  <1>1. PICK text \in Texts :
          /\ verdict.text = {text}
          /\ \A i \in DOMAIN entries : entries[i].age < Window
          /\ verdict.spam <=> ~verdict.edit /\ trackers[text].count >= Threshold
    BY AnsweredSpam
  <1> DEFINE P == Places(entries, text)
             K == IdPlaces(entries, text)
             Z == {i \in DOMAIN entries : {entries[i].text} = verdict.text /\ entries[i].id = 0}
             M == {id \in Ids : posts[id].text = verdict.text /\ posts[id].age < Window}
             f == [i \in K |-> entries[i].id]
  <1>2. /\ entries \in Seq(Entry) /\ Distinct(entries)
        /\ Len(entries) \in Nat /\ DOMAIN entries = 1 .. Len(entries)
        /\ \A i \in 1 .. Len(entries) : entries[i].id \in Nat
    BY EntriesOfInv, EntryFields DEF DuplicatesInv
  <1>3. trackers[text].count = Cardinality(P)
    BY <1>1 DEF DuplicatesInv, TrackersExact, Recounted
  <1>4. P \in SUBSET (1 .. Len(entries)) /\ K \in SUBSET (1 .. Len(entries))
    BY <1>2, IdsOfColumn
  <1>5. \A i \in 1 .. Len(entries) : {entries[i].text} = verdict.text <=> entries[i].text = text
    BY <1>1
  <1>6. Z \in SUBSET (1 .. Len(entries)) /\ Z \union K = P /\ Z \cap K = {}
    <2>1. \A i : i \in P <=> i \in 1 .. Len(entries) /\ entries[i].text = text
      BY <1>2 DEF Places
    <2>2. \A i : i \in K <=> i \in P /\ entries[i].id > 0
      BY DEF IdPlaces
    <2>3. \A i : i \in Z <=> i \in 1 .. Len(entries) /\ entries[i].text = text /\ entries[i].id = 0
      BY <1>2, <1>5
    <2>4. \A i \in 1 .. Len(entries) : ~(entries[i].id = 0 /\ entries[i].id > 0)
      BY <1>2
    <2>5. \A i \in 1 .. Len(entries) : entries[i].id = 0 \/ entries[i].id > 0
      BY <1>2
    <2> HIDE DEF P, K, Z
    <2> QED BY <2>1, <2>2, <2>3, <2>4, <2>5
  <1>7. IsFiniteSet(M)
    <2>1. IsFiniteSet(Ids)
      BY DEF DuplicatesConstants
    <2>2. M \in SUBSET Ids
      OBVIOUS
    <2> QED BY <2>1, <2>2, FS_Subset
  <1>8. \A i \in K : entries[i].id > 0 /\ entries[i].text = text
    BY DEF IdPlaces, Places
  <1> HIDE DEF P, K, Z
  <1>9. f \in Injection(K, M)
    <2>1. ASSUME NEW i \in K PROVE entries[i].id \in M
      <3>1. i \in 1 .. Len(entries) /\ entries[i].id > 0 /\ entries[i].text = text
        BY <1>4, <1>8
      <3>2. entries[i].age < Window
        BY <1>1, <1>2, <3>1
      <3>3. /\ entries[i].id \in Ids
            /\ posts[entries[i].id].text = {entries[i].text}
            /\ posts[entries[i].id].age < Window
        BY <3>1, <3>2, EntryOfPost
      <3> QED BY <1>1, <3>1, <3>3
    <2>2. ASSUME NEW i \in K, NEW j \in K, entries[i].id = entries[j].id PROVE i = j
      <3>1. i \in DOMAIN entries /\ j \in DOMAIN entries /\ entries[i].id > 0
        BY <1>2, <1>4, <1>8
      <3> QED BY <1>2, <2>2, <3>1 DEF Distinct
    <2> HIDE DEF M
    <2> QED BY <2>1, <2>2 DEF Injection, IsInjective
  <1> HIDE DEF M, f
  <1>10. Cardinality(K) <= Cardinality(M)
    BY <1>7, <1>9, FS_Injection
  <1>11. IsFiniteSet(Z) /\ IsFiniteSet(K) /\ Cardinality(Z) \in Nat /\ Cardinality(K) \in Nat
    BY <1>2, <1>4, <1>6, PositionsFinite
  <1>12. Cardinality(P) = Cardinality(Z) + Cardinality(K)
    <2>1. Cardinality(Z \union K) = Cardinality(Z) + Cardinality(K) - Cardinality(Z \cap K)
      <3>1. IsFiniteSet(Z)
        BY <1>11
      <3>2. IsFiniteSet(K)
        BY <1>11
      <3> QED BY <3>1, <3>2, FS_Union
    <2>2. Cardinality({}) = 0
      BY FS_EmptySet
    <2>3. Cardinality(P) = Cardinality(Z) + Cardinality(K) - 0
      BY <1>6, <2>1, <2>2
    <2> QED BY <1>11, <2>3
  <1>13. Cardinality(M) \in Nat /\ Threshold \in Nat
    BY <1>7, FS_CardinalityType DEF DuplicatesConstants
  <1>14. Threshold <= Cardinality(Z) + Cardinality(M)
    <2>1. trackers[text].count >= Threshold
      BY <1>1, Zenon
    <2>2. Cardinality(P) >= Threshold
      BY <1>3, <2>1
    <2> QED BY <1>10, <1>11, <1>12, <1>13, <2>2
  <1> QED
    BY <1>14 DEF Checked, Z, M

(* Whoever has that many messages of the text is flagged.                  *)
LEMMA NoMissedAlarmOfInv ==
    ASSUME DuplicatesConstants, DuplicatesInv
    PROVE  NoMissedAlarm
  <1> DEFINE M == {id \in Ids \ lost : posts[id].text = verdict.text /\ posts[id].since < Window}
  <1> SUFFICES ASSUME ~verdict.edit, Threshold <= Cardinality(M)
               PROVE  verdict.spam
    BY DEF NoMissedAlarm
  <1>1. PICK text \in Texts :
          /\ verdict.text = {text}
          /\ verdict.spam <=> trackers[text].count >= Threshold
    <2>1. verdict # NoVerdict
      BY DEF NoVerdict
    <2>2. PICK text \in Texts :
            /\ verdict.text = {text}
            /\ verdict.spam <=> ~verdict.edit /\ trackers[text].count >= Threshold
      BY <2>1 DEF DuplicatesInv, Answered
    <2>3. verdict.spam <=> trackers[text].count >= Threshold
      BY <2>2, Zenon
    <2> QED BY <2>2, <2>3, Zenon
  <1> DEFINE P == Places(entries, text)
             g == [id \in M |-> CHOOSE i \in P : entries[i].id = id]
  <1>2. /\ entries \in Seq(Entry)
        /\ Len(entries) \in Nat /\ DOMAIN entries = 1 .. Len(entries)
    BY EntriesOfInv, EntryFields DEF DuplicatesInv
  <1>3. trackers[text].count = Cardinality(P)
    BY <1>1 DEF DuplicatesInv, TrackersExact, Recounted
  <1>4. P \in SUBSET (1 .. Len(entries))
    BY <1>2, IdsOfColumn
  <1>5. IsFiniteSet(P) /\ Cardinality(P) \in Nat
    BY <1>2, <1>4, PositionsFinite
  <1>6. ASSUME NEW id \in M PROVE \E i \in P : entries[i].id = id
    <2>1. id \in Ids \ lost /\ posts[id].since < Window /\ posts[id].text = {text}
      BY <1>1
    <2>2. PICK i \in 1 .. Len(entries) : entries[i].id = id /\ entries[i].id > 0 /\ entries[i].text = text
      <3>1. HasEntry(id, text)
        BY <2>1, PostHasEntry
      <3> QED BY <3>1 DEF HasEntry
    <2>3. i \in P
      BY <1>2, <2>2 DEF Places
    <2> QED BY <2>2, <2>3
  <1> HIDE DEF P, M
  <1>7. \A id \in M : g[id] \in P /\ entries[g[id]].id = id
    BY <1>6
  <1>8. g \in Injection(M, P)
    <2>1. g \in [M -> P]
      BY <1>7
    <2> HIDE DEF g
    <2>2. \A x, y \in M : g[x] = g[y] => x = y
      BY <1>7
    <2> QED BY <2>1, <2>2 DEF Injection, IsInjective
  <1> HIDE DEF g
  <1>9. IsFiniteSet(M) /\ Cardinality(M) <= Cardinality(P)
    BY <1>5, <1>8, FS_Injection
  <1>10. Cardinality(M) \in Nat /\ Threshold \in Nat
    BY <1>9, FS_CardinalityType DEF DuplicatesConstants
  <1>11. Cardinality(P) >= Threshold
    BY <1>5, <1>9, <1>10
  <1> QED
    BY <1>1, <1>3, <1>11

(* The last of the ids is that of the last entry.                          *)
LEMMA LastId ==
    ASSUME DuplicatesConstants, NEW es \in Seq(Entry), es # <<>>, NEW t,
           es[Len(es)].text = t, es[Len(es)].id > 0
    PROVE  /\ Len(IdsOf(es, t)) > 0
           /\ IdsOf(es, t)[Len(IdsOf(es, t))] = es[Len(es)].id
  <1>1. PICK s \in Seq(Entry), e \in Entry : es = Append(s, e)
    BY SequenceEmptyOrAppend
  <1>2. Len(s) \in Nat /\ Len(es) = Len(s) + 1 /\ es[Len(es)] = e
    BY <1>1, LenProperties, AppendProperties
  <1>3. PICK ids : ids = IdsOf(s, t)
    OBVIOUS
  <1>4. ids \in Seq(Ids) /\ Len(ids) \in Nat
    BY <1>3, IdsOfColumn
  <1>5. e.id \in Ids
    <2>1. e.id \in Ids \union {0} /\ e.id > 0
      BY <1>2 DEF Entry
    <2> QED BY <2>1
  <1>6. IdsOf(es, t) = Append(ids, e.id)
    <2>1. IdsOf(Append(s, e), t) =
            IF e.text = t /\ e.id > 0 THEN Append(IdsOf(s, t), e.id) ELSE IdsOf(s, t)
      BY RecountAppended
    <2> QED BY <1>1, <1>2, <1>3, <2>1
  <1>7. Len(Append(ids, e.id)) = Len(ids) + 1 /\ Append(ids, e.id)[Len(ids) + 1] = e.id
    BY <1>4, <1>5, AppendProperties
  <1> QED
    BY <1>2, <1>4, <1>6, <1>7

\* Without the last element, of what a limit has left of all the elements: none but those
\* of all before the last, and every one that the limit has left.
LeftBut(r, all, n) ==
    /\ DOMAIN r = 1 .. Len(r)
    /\ \A k \in 1 .. Len(r) : \E j \in 1 .. Len(all) - 1 : r[k] = all[j]
    /\ \A j \in n + 1 .. Len(all) - 1 : \E k \in 1 .. Len(r) : r[k] = all[j]

LEMMA LastLeftOut ==
    ASSUME NEW S, NEW all \in Seq(S), NEW n \in 0 .. Len(all)
    PROVE  LeftBut(AllButLast(Suffix(all, n)), all, n)
  <1> DEFINE ids == Suffix(all, n)
             r == AllButLast(ids)
             m == Len(all) - n
  <1>1. Len(all) \in Nat /\ n \in Nat /\ m \in Nat
    BY LenProperties
  <1>2. ids \in Seq(S) /\ Len(ids) = m /\ \A k \in 1 .. m : ids[k] = all[n + k]
    BY SuffixProperties DEF Suffix
  <1> HIDE DEF ids
  <1>3. CASE m > 1
    <2>1. r = SubSeq(ids, 1, m - 1)
      BY <1>2, <1>3 DEF AllButLast
    <2>2. \A i \in 1 .. m - 1 : ids[i] \in S
      <3>1. \A i \in 1 .. m : ids[i] \in S
        BY <1>2, ElementOfSeq
      <3> QED BY <1>1, <3>1
    <2>3. Len(r) = m - 1 /\ \A k \in 1 .. m - 1 : r[k] = ids[k]
      <3>1. /\ Len(SubSeq(ids, 1, m - 1)) = (IF 1 <= m - 1 THEN (m - 1) - 1 + 1 ELSE 0)
            /\ \A i \in 1 .. (m - 1) - 1 + 1 : SubSeq(ids, 1, m - 1)[i] = ids[1 + i - 1]
        BY <1>1, <1>3, <2>2, SubSeqProperties
      <3> QED BY <1>1, <1>3, <2>1, <3>1
    <2>4. DOMAIN r = 1 .. Len(r)
      <3>1. SubSeq(ids, 1, m - 1) \in Seq(S)
        BY <1>1, <2>2, SubSeqProperties
      <3> QED BY <2>1, <3>1, LenProperties
    <2> HIDE DEF r, m
    <2>5. ASSUME NEW k \in 1 .. Len(r) PROVE \E j \in 1 .. Len(all) - 1 : r[k] = all[j]
      <3>1. r[k] = all[n + k]
        BY <1>1, <1>2, <2>3
      <3>2. n + k \in 1 .. Len(all) - 1
        BY <1>1, <2>3 DEF m
      <3> QED BY <3>1, <3>2
    <2>6. ASSUME NEW j \in n + 1 .. Len(all) - 1 PROVE \E k \in 1 .. Len(r) : r[k] = all[j]
      <3>1. j - n \in 1 .. Len(r) /\ n + (j - n) = j /\ j - n \in 1 .. m
        BY <1>1, <2>3 DEF m
      <3>2. r[j - n] = all[j]
        BY <1>1, <1>2, <2>3, <3>1
      <3> QED BY <3>1, <3>2
    <2> QED BY <2>4, <2>5, <2>6 DEF LeftBut, r, ids
  <1>4. CASE ~ m > 1
    <2>1. r = <<>>
      BY <1>2, <1>4 DEF AllButLast
    <2>2. Len(r) = 0 /\ DOMAIN r = {}
      BY <2>1
    <2>3. \A j \in n + 1 .. Len(all) - 1 : FALSE
      BY <1>1, <1>4
    <2>4. 1 .. Len(r) = {}
      BY <2>2
    <2> HIDE DEF r
    <2> QED BY <2>2, <2>3, <2>4 DEF LeftBut, r, ids
  <1> QED
    BY <1>3, <1>4

(* What is known of whatever was flagged, and of the copies to delete.      *)
LEMMA AnsweredCopies ==
    ASSUME DuplicatesInv, verdict.spam
    PROVE  \E text \in Texts :
             /\ verdict.text = {text}
             /\ \A i \in DOMAIN entries : entries[i].age < Window
             /\ entries # <<>>
             /\ entries[Len(entries)] = [text |-> text, id |-> verdict.id, age |-> 0]
             /\ verdict.extra = AllButLast(trackers[text].ids)
  <1>1. verdict # NoVerdict
    BY DEF NoVerdict
  <1>2. PICK text \in Texts :
             /\ verdict.text = {text}
             /\ \A i \in DOMAIN entries : entries[i].age < Window
             /\ ~verdict.edit => /\ entries # <<>>
                                 /\ entries[Len(entries)] = [text |-> text, id |-> verdict.id, age |-> 0]
             /\ verdict.spam <=> ~verdict.edit /\ trackers[text].count >= Threshold
             /\ verdict.spam => verdict.extra = AllButLast(trackers[text].ids)
    BY <1>1 DEF DuplicatesInv, Answered
  <1>3. ~verdict.edit
    BY <1>2, Zenon
  <1> QED
    BY <1>2, <1>3

(* The copies to delete: messages with the text, and all of them but the   *)
(* flagged one unless the limit of ids was reached.                        *)
LEMMA CopiesDeletedOfInv ==
    ASSUME DuplicatesConstants, DuplicatesInv
    PROVE  CopiesDeleted
  <1> DEFINE extra    == {verdict.extra[i] : i \in DOMAIN verdict.extra}
             sameText == {id \in Ids \ {verdict.id} : posts[id].text = verdict.text}
             recent   == {id \in sameText : posts[id].age < Window}
             copies   == {id \in sameText \ lost : posts[id].since < Window}
  <1> SUFFICES ASSUME verdict.spam
               PROVE  /\ extra \subseteq sameText
                      /\ verdict.id > 0 /\ Cardinality(recent) < MaxIds => copies \subseteq extra
    BY DEF CopiesDeleted
  <1>1. PICK text \in Texts :
          /\ verdict.text = {text}
          /\ \A i \in DOMAIN entries : entries[i].age < Window
          /\ entries # <<>>
          /\ entries[Len(entries)] = [text |-> text, id |-> verdict.id, age |-> 0]
          /\ verdict.extra = AllButLast(trackers[text].ids)
    BY AnsweredCopies
  <1>2. /\ entries \in Seq(Entry) /\ Distinct(entries)
        /\ Len(entries) \in Nat /\ DOMAIN entries = 1 .. Len(entries)
        /\ verdict.id \in Ids \union {0} /\ Ids \union {0} \subseteq Nat
    BY EntriesOfInv, EntryFields DEF DuplicatesInv, TypeOK, DuplicatesConstants
  <1>3. PICK all : all = IdsOf(entries, text)
    OBVIOUS
  <1>4. all \in Seq(Ids) /\ Len(all) \in Nat /\ DOMAIN all = 1 .. Len(all)
    BY <1>2, <1>3, IdsOfColumn
  <1>5. \A k, l \in 1 .. Len(all) : all[k] = all[l] => k = l
    BY <1>2, <1>3, IdsOfDistinct
  <1>6. Recounted(trackers[text], entries, text)
    BY DEF DuplicatesInv, TrackersExact
  <1>7. PICK n \in 0 .. Len(all) : trackers[text].ids = Suffix(all, n)
    BY <1>3, <1>6 DEF Recounted, Suffix
  <1>8. Len(Suffix(all, n)) = Len(all) - n
    BY <1>4, SuffixProperties DEF Suffix
  <1>9. Len(all) - n >= MaxIds \/ n = 0
    <2>1. Len(Suffix(all, n)) >= MaxIds \/ Suffix(all, n) = all
      BY <1>3, <1>6, <1>7 DEF Recounted
    <2> QED BY <1>4, <1>8, <2>1
  <1>10. LeftBut(verdict.extra, all, n)
    BY <1>1, <1>4, <1>7, LastLeftOut
  <1>11. verdict.id > 0 => Len(all) > 0 /\ all[Len(all)] = verdict.id
    <2>1. entries[Len(entries)].text = text /\ entries[Len(entries)].id = verdict.id
      BY <1>1
    <2> QED BY <1>1, <1>2, <1>3, <2>1, LastId
  <1>12. ASSUME NEW j \in 1 .. Len(all) - 1 PROVE all[j] \in recent
    <2>1. j \in 1 .. Len(all)
      BY <1>4
    <2>2. PICK i \in 1 .. Len(entries) : /\ entries[i].text = text /\ entries[i].id > 0
                                         /\ all[j] = entries[i].id
      <3>1. \A k \in 1 .. Len(IdsOf(entries, text)) :
              \E i \in 1 .. Len(entries) : /\ entries[i].text = text /\ entries[i].id > 0
                                           /\ IdsOf(entries, text)[k] = entries[i].id
        BY <1>2, IdsOfElements
      <3> QED BY <1>3, <2>1, <3>1
    <2>3. entries[i].age < Window
      BY <1>1, <1>2
    <2>4. /\ entries[i].id \in Ids
          /\ posts[entries[i].id].text = {entries[i].text}
          /\ posts[entries[i].id].age < Window
      BY <2>2, <2>3, EntryOfPost
    <2>5. all[j] # verdict.id
      <3>1. CASE verdict.id > 0
        <4>1. j \in Nat /\ 1 <= j /\ j <= Len(all) - 1
          BY <1>4
        <4>2. j # Len(all)
          <5>1. PICK L \in Nat : L = Len(all)
            BY <1>4
          <5>2. j <= L - 1
            BY <4>1, <5>1
          <5>3. j # L
            BY <4>1, <5>2
          <5> QED BY <5>1, <5>3
        <4>3. Len(all) \in 1 .. Len(all)
          BY <1>4, <4>1
        <4> QED BY <1>5, <1>11, <2>1, <3>1, <4>2, <4>3
      <3>2. CASE ~ verdict.id > 0
        BY <2>2, <3>2
      <3> QED BY <3>1, <3>2
    <2> QED BY <1>1, <2>2, <2>4, <2>5
  <1>13. \A x \in recent : x \in sameText
    OBVIOUS
  <1>14. extra \subseteq sameText
    <2>1. ASSUME NEW x \in extra PROVE x \in sameText
      <3>1. PICK k \in 1 .. Len(verdict.extra) : x = verdict.extra[k]
        BY <1>10 DEF LeftBut
      <3>2. PICK j \in 1 .. Len(all) - 1 : verdict.extra[k] = all[j]
        BY <1>10 DEF LeftBut
      <3> HIDE DEF recent, sameText
      <3> QED BY <1>12, <1>13, <3>1, <3>2
    <2> QED BY <2>1
  <1>15. IsFiniteSet(recent)
    <2>1. IsFiniteSet(Ids)
      BY DEF DuplicatesConstants
    <2>2. recent \in SUBSET Ids
      OBVIOUS
    <2> QED BY <2>1, <2>2, FS_Subset
  <1>16. ASSUME verdict.id > 0, Cardinality(recent) < MaxIds PROVE n = 0
    <2> SUFFICES ASSUME n # 0 PROVE FALSE
      OBVIOUS
    <2> DEFINE m == MaxIds
               f == [k \in 1 .. m |-> all[k]]
    <2>1. m \in Nat /\ m <= Len(all) - 1
      BY <1>4, <1>9 DEF DuplicatesConstants
    <2> HIDE DEF recent, m
    <2>2. \A k \in 1 .. m : k \in 1 .. Len(all) - 1 /\ k \in 1 .. Len(all)
      BY <1>4, <2>1
    <2>3. f \in [1 .. m -> recent]
      BY <1>12, <2>2
    <2>4. \A x, y \in 1 .. m : f[x] = f[y] => x = y
      BY <1>5, <2>2
    <2> HIDE DEF f
    <2>5. f \in Injection(1 .. m, recent)
      BY <2>3, <2>4 DEF Injection, IsInjective
    <2>6. Cardinality(1 .. m) <= Cardinality(recent)
      BY <1>15, <2>5, FS_Injection
    <2>7. Cardinality(1 .. m) = m
      <3>1. 1 \in Int /\ m \in Int
        BY <2>1
      <3>2. Cardinality(1 .. m) = IF 1 > m THEN 0 ELSE m - 1 + 1
        BY <3>1, FS_Interval
      <3> QED BY <2>1, <3>2
    <2>8. Cardinality(recent) \in Nat
      BY <1>15, FS_CardinalityType
    <2> QED BY <1>16, <2>1, <2>6, <2>7, <2>8 DEF m
  <1>17. ASSUME verdict.id > 0, Cardinality(recent) < MaxIds, NEW x \in copies PROVE x \in extra
    <2>1. x \in Ids \ lost /\ posts[x].since < Window /\ posts[x].text = {text} /\ x # verdict.id
      BY <1>1
    <2>2. HasEntry(x, text)
      BY <2>1, PostHasEntry
    <2>3. PICK i \in 1 .. Len(entries) : entries[i].id = x /\ entries[i].id > 0 /\ entries[i].text = text
      BY <2>2 DEF HasEntry
    <2>4. PICK j \in 1 .. Len(all) : all[j] = x
      <3>1. \A h \in 1 .. Len(entries) :
              entries[h].text = text /\ entries[h].id > 0 =>
                \E k \in 1 .. Len(IdsOf(entries, text)) : IdsOf(entries, text)[k] = entries[h].id
        BY <1>2, IdsOfElements
      <3> QED BY SMTT(30), <1>3, <2>3, <3>1
    <2>5. j # Len(all)
      BY <1>11, <1>17, <2>1, <2>4
    <2>6. j \in n + 1 .. Len(all) - 1
      <3>1. n = 0
        BY <1>16, <1>17
      <3>2. j \in Nat /\ 1 <= j /\ j <= Len(all)
        BY <1>4
      <3>3. PICK L \in Nat : L = Len(all)
        BY <1>4
      <3>4. j <= L /\ j # L
        BY <2>5, <3>2, <3>3
      <3>5. j \in n + 1 .. L - 1
        BY <3>1, <3>2, <3>4
      <3> QED BY <3>3, <3>5
    <2>7. PICK k \in 1 .. Len(verdict.extra) : verdict.extra[k] = all[j]
      BY <1>10, <2>6 DEF LeftBut
    <2>8. k \in DOMAIN verdict.extra
      BY <1>10 DEF LeftBut
    <2> QED BY <2>4, <2>7, <2>8
  <1> HIDE DEF extra, sameText, recent, copies
  <1> QED
    BY <1>14, <1>17

----------------------------------------------------------------------------
(* The theorems.                                                           *)

(* Every step keeps the invariant.                                         *)
LEMMA StepKeeps ==
    ASSUME DuplicatesConstants, DuplicatesInv, [Next]_vars
    PROVE  DuplicatesInv'
  <1>1. CASE Message
    <2>1. PICK text \in Texts, id \in Ids \union {0} : Check(text, id)
      BY <1>1 DEF Message
    <2> QED BY <2>1, CheckKeeps
  <1>2. CASE Cleanup
    BY <1>2, CleanupKeeps
  <1>3. CASE Forget
    BY <1>3, ForgetKeeps
  <1>4. CASE Tick
    BY <1>4, TickKeeps
  <1>5. CASE UNCHANGED vars
    <2>1. /\ entries' = entries /\ trackers' = trackers /\ verdict' = verdict
          /\ posts' = posts /\ lost' = lost
      BY <1>5 DEF vars, history
    <2>2. TypeOK'
      BY <2>1 DEF DuplicatesInv, TypeOK
    <2>3. TrackersExact'
      BY <2>1 DEF DuplicatesInv, TrackersExact
    <2>4. OneContentPerMessage' /\ Fresh' /\ Remembered'
      BY <2>1 DEF DuplicatesInv, OneContentPerMessage, Fresh, Remembered
    <2>5. Answered'
      BY <2>1 DEF DuplicatesInv, Answered
    <2> QED BY <2>2, <2>3, <2>4, <2>5 DEF DuplicatesInv
  <1> QED
    BY <1>1, <1>2, <1>3, <1>4, <1>5 DEF Next

LEMMA DuplicatesAlways == Spec => []DuplicatesInv
  <1>1. Init => DuplicatesInv
    BY DuplicatesConstants, StartInv
  <1>2. DuplicatesInv /\ [Next]_vars => DuplicatesInv'
    BY DuplicatesConstants, StepKeeps
  <1> QED
    BY <1>1, <1>2, PTL DEF Spec

(* The detector's entries, trackers and answers have their types, and the  *)
(* history of a user never exceeds its limit.                              *)
THEOREM TypeCorrect == Spec => []TypeOK
  <1>1. DuplicatesInv => TypeOK
    BY DEF DuplicatesInv
  <1> QED
    BY <1>1, DuplicatesAlways, PTL

(* Whatever the edits, expiries and overflows, the trackers adjusted step  *)
(* by step (trackMessage) are those of a recount of the entries.           *)
THEOREM TrackersAlwaysExact == Spec => []TrackersExact
  <1>1. DuplicatesInv => TrackersExact
    BY DEF DuplicatesInv
  <1> QED
    BY <1>1, DuplicatesAlways, PTL

(* A message is never counted twice, nor for a text it no longer has:      *)
(* "each messageID only belongs to one hash" (duplicate.go).               *)
THEOREM EachMessageCountsOnce == Spec => []OneContentPerMessage
  <1>1. DuplicatesInv => OneContentPerMessage
    BY DEF DuplicatesInv
  <1> QED
    BY <1>1, DuplicatesAlways, PTL

(* Whoever is flagged posted, edited or had checked for him the threshold  *)
(* of copies of the text within the window.                                *)
THEOREM FlaggedForCopies == Spec => []NoFalseAlarm
  <1>1. DuplicatesInv => NoFalseAlarm
    BY DuplicatesConstants, NoFalseAlarmOfInv
  <1> QED
    BY <1>1, DuplicatesAlways, PTL

(* Whoever reaches the threshold within the window is flagged at the       *)
(* message that reaches it, unless a limit or the cache dropped copies.    *)
THEOREM CopiesFlagged == Spec => []NoMissedAlarm
  <1>1. DuplicatesInv => NoMissedAlarm
    BY DuplicatesConstants, NoMissedAlarmOfInv
  <1> QED
    BY <1>1, DuplicatesAlways, PTL

(* The messages deleted along with a flagged one are copies of it, and     *)
(* below the limit of ids they are all the others.                         *)
THEOREM AllCopiesDeleted == Spec => []CopiesDeleted
  <1>1. DuplicatesInv => CopiesDeleted
    BY DuplicatesConstants, CopiesDeletedOfInv
  <1> QED
    BY <1>1, DuplicatesAlways, PTL
=============================================================================
