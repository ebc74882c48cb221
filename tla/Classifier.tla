----------------------------- MODULE Classifier -----------------------------
(***************************************************************************)
(* The counters of the naive Bayes classifier (classifier.go) as a record: *)
(*   all      nAllDocument                                                 *)
(*   docs[k]  nDocumentByClass                                             *)
(*   freq[k]  nFrequencyByClass                                            *)
(*   res[t,k] learningResults                                              *)
(* An absent key of a Go map reads as zero and is zero here.  Tokens of a  *)
(* document are a set: removeDuplicate is applied before they are counted. *)
(* Prior probabilities are functions of docs and all and are left out.     *)
(***************************************************************************)
EXTENDS Integers, FiniteSets

CONSTANT Tokens

Classes == {"spam", "ham"}

Counters ==
    [all  : Int,
     docs : [Classes -> Int],
     freq : [Classes -> Int],
     res  : [Tokens \X Classes -> Int]]

\* The counters after n more documents of class k with the tokens T (n may be -1).
Shift(c, k, T, n) ==
    [all  |-> c.all + n,
     docs |-> [c.docs EXCEPT ![k] = @ + n],
     freq |-> [c.freq EXCEPT ![k] = @ + n * Cardinality(T)],
     res  |-> [x \in Tokens \X Classes |->
                 IF x[1] \in T /\ x[2] = k THEN c.res[x] + n ELSE c.res[x]]]

\* learn of one document.
Learn(c, k, T) == Shift(c, k, T, 1)

\* learn of all documents D after a reset: documents <<k, m, i>> of class k with the tokens
\* tokens[m].
LearnAll(D, tokens) ==
    [all  |-> Cardinality(D),
     docs |-> [k \in Classes |-> Cardinality({d \in D : d[1] = k})],
     freq |-> [k \in Classes |-> Cardinality({x \in D \X Tokens : x[1][1] = k /\ x[2] \in tokens[x[1][2]]})],
     res  |-> [x \in Tokens \X Classes |-> Cardinality({d \in D : d[1] = x[2] /\ x[1] \in tokens[d[2]]})]]

----------------------------------------------------------------------------
(* unlearn of one document: it checks as it goes.                          *)

\* The tokens S can all be taken out of class k.
Removable(c, k, S) ==
    /\ Cardinality(S) <= c.freq[k]
    /\ \A t \in S : c.res[<<t, k>>] > 0

\* No check of unlearn fails.
Unlearnable(c, k, T) == c.all > 0 /\ c.docs[k] > 0 /\ Removable(c, k, T)

\* The frequency of the class is not lowered.
UnlearnKeepsFrequency(c, k, T) ==
    [Shift(c, k, T, -1) EXCEPT !.freq[k] = IF c.docs[k] = 1 THEN 0 ELSE c.freq[k]]

\* All checks passed; an empty class loses its entries.
Unlearn(c, k, T) ==
    LET lowered == Shift(c, k, T, -1)
    IN  [lowered EXCEPT !.freq[k] = IF lowered.docs[k] = 0 THEN 0 ELSE @]

\* A check failed after the tokens S (in the order of the map, which is any order):
\* what was lowered before the check stays lowered, the frequency included when it
\* is the token that is missing.
Stuck(c, k, S) ==
    LET lowered == Shift(c, k, S, -1)
    IN  [lowered EXCEPT !.freq[k] = IF @ > 0 THEN @ - 1 ELSE @]

\* The counters that a failing unlearn can leave behind.
FailedUnlearn(c, k, T) ==
    IF c.all = 0 THEN {c}
    ELSE IF c.docs[k] = 0 THEN {[c EXCEPT !.all = @ - 1]}
    ELSE {Stuck(c, k, S) : S \in {S \in SUBSET T :
              Removable(c, k, S) /\ \E t \in T \ S : ~Removable(c, k, S \union {t})}}
=============================================================================
