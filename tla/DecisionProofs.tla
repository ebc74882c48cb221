--------------------------- MODULE DecisionProofs ---------------------------
(***************************************************************************)
(* Proofs about Decision, for every set of goroutines, users and command   *)
(* lines, every size of the rings and any number of messages: the types,   *)
(* the verdict and the use of OpenAI by the book, and the histories.       *)
(*                                                                         *)
(* DecisionInv is inductive.  The verdicts need that an undecided call's   *)
(* author was not trusted when it began; that is, that the counts are the  *)
(* clean messages.  The histories need the shape of the rings, and the     *)
(* types (a count is at most the number of messages) that every message    *)
(* found ham has its own number.                                           *)
(***************************************************************************)
EXTENDS Decision, SubsequenceProofs

USE DEF Undecided

Answers == {"none", "ham", "spam", "error"}

(* The types of the fields of a command line.                              *)
LEMMA OptionTypes ==
    ASSUME DecisionConstants, options \in Options
    PROVE  /\ options.paranoid \in BOOLEAN /\ options.openAI \in BOOLEAN
           /\ options.veto \in BOOLEAN /\ options.shortToo \in BOOLEAN
           /\ options.firstMessagesCount \in Nat /\ options.historySize \in Nat
           /\ options.openAIHistorySize \in Nat
  BY DEF DecisionConstants

(* The configuration, said of the command line.                            *)
LEMMA ConfigByOptions ==
    ASSUME DecisionConstants, options \in Options
    PROVE  /\ Config.firstMessageOnly <=> ~options.paranoid
           /\ Config.firstMessagesCount \in Nat
           /\ options.paranoid => Config.firstMessagesCount = 0
           /\ ~options.paranoid =>
                \A n \in Nat : n >= Config.firstMessagesCount
                                 <=> n >= 1 /\ n >= options.firstMessagesCount
  <1>1. CASE options.paranoid
    <2> DEFINE p == MakeDetector(options)
    <2>1. ~p.firstMessageOnly
      BY <1>1 DEF MakeDetector
    <2>2. p.firstMessagesCount = 0
      BY <1>1 DEF MakeDetector
    <2>3. Config = NewDetector(p)
      BY DEF Config
    <2> HIDE DEF p
    <2>4. ~(p.firstMessagesCount > 0)
      BY <2>2
    <2>5. ~Config.firstMessageOnly
      BY <2>1, <2>3, <2>4, Zenon DEF NewDetector
    <2>6. Config.firstMessagesCount = 0
      BY <1>1 DEF Config, NewDetector, MakeDetector
    <2> QED BY <1>1, <2>5, <2>6
  <1>2. CASE ~options.paranoid
    <2> DEFINE f == options.firstMessagesCount
    <2>1. f \in Nat
      BY OptionTypes
    <2>2. /\ Config.firstMessageOnly
          /\ Config.firstMessagesCount = IF f = 0 THEN 1 ELSE f
      BY <1>2 DEF Config, NewDetector, MakeDetector
    <2> HIDE DEF f
    <2>3. \A n \in Nat : n >= (IF f = 0 THEN 1 ELSE f) <=> n >= 1 /\ n >= f
      BY <2>1
    <2> QED BY <1>2, <2>1, <2>2, <2>3 DEF f
  <1> QED
    BY <1>1, <1>2

(* The two words for a check that flags the message.                       *)
LEMMA FlaggedIsDetected ==
    ASSUME NEW req \in Requests
    PROVE  Flagged(req) <=> SpamDetected(req)
  BY DEF Requests, Flagged, Looking, SpamDetected

----------------------------------------------------------------------------
(* Rings.                                                                  *)

(* The remainder of a number that is not twice as great.                   *)
LEMMA OnceAround ==
    ASSUME NEW n \in Nat, n > 0, NEW x \in Nat, x < 2 * n
    PROVE  x % n = IF x < n THEN x ELSE x - n
  OBVIOUS

(* The age of a slot is less than the number of slots; a push adds one to *)
(* it, and sets that of the slot it writes to 0.                           *)
LEMMA BehindType ==
    ASSUME NEW n \in Nat, NEW p \in 1 .. n, NEW j \in 1 .. n
    PROVE  Behind(j, p, n) \in 0 .. n - 1
  BY DEF Behind

LEMMA BehindAfterPush ==
    ASSUME NEW n \in Nat, NEW p \in 1 .. n, NEW j \in 1 .. n
    PROVE  Behind(j, IF p = n THEN 1 ELSE p + 1, n) = IF j = p THEN 0 ELSE Behind(j, p, n) + 1
  <1>1. CASE p = n
    BY <1>1 DEF Behind
  <1>2. CASE p # n
    BY <1>2 DEF Behind
  <1> QED BY <1>1, <1>2

(* A new ring holds nothing.                                               *)
LEMMA NewRing ==
    ASSUME DecisionConstants, NEW size \in Nat
    PROVE  /\ Holds(NewLastRequests(size), <<>>)
           /\ NewLastRequests(size) \in Rings
           /\ NewLastRequests(size).next \in DOMAIN NewLastRequests(size).slots
  <1> DEFINE n == IF size < 1 THEN 1 ELSE size
             slots == [i \in 1 .. n |-> 0]
  <1>1. n \in Nat /\ n > 0
    OBVIOUS
  <1>2. NewLastRequests(size) = [slots |-> slots, next |-> 1]
    BY DEF NewLastRequests
  <1> HIDE DEF n
  <1>3. slots \in Seq(0 .. MaxMessages) /\ Len(slots) = n
    BY <1>1 DEF DecisionConstants
  <1>4. \A j \in 1 .. n : Behind(j, 1, n) >= 0 /\ Behind(j, 1, n) \in Int
    BY <1>1, BehindType
  <1>5. \A j \in 1 .. n : slots[j] = IF Behind(j, 1, n) < Len(<<>>)
                                     THEN <<>>[Len(<<>>) - Behind(j, 1, n)] ELSE 0
    BY <1>4
  <1> HIDE DEF slots
  <1>6. Holds([slots |-> slots, next |-> 1], <<>>)
    BY <1>1, <1>3, <1>5 DEF Holds, Size
  <1>7. [slots |-> slots, next |-> 1] \in Rings /\ 1 \in DOMAIN slots
    BY <1>1, <1>3 DEF Rings
  <1> QED
    BY <1>2, <1>6, <1>7

(* Push adds at the end of the sequence the ring holds.                    *)
LEMMA PushHolds ==
    ASSUME DecisionConstants, NEW ring \in Rings, NEW s \in Seq(1 .. MaxMessages), Holds(ring, s),
           NEW m \in 1 .. MaxMessages
    PROVE  /\ Holds(Push(ring, m), Append(s, m))
           /\ Push(ring, m) \in Rings
           /\ Push(ring, m).next \in DOMAIN Push(ring, m).slots
           /\ Size(Push(ring, m)) = Size(ring)
  <1> DEFINE n == Size(ring)
             p == ring.next
             slots == [ring.slots EXCEPT ![p] = m]
             q == (p % n) + 1
             t == Append(s, m)
  <1>1. /\ n \in Nat /\ n > 0 /\ p \in 1 .. n
    BY DEF Holds, Rings, Size
  <1>2. /\ n = Len(ring.slots) /\ ring.slots \in Seq(0 .. MaxMessages) /\ m \in 0 .. MaxMessages
    BY DEF Rings, Size, DecisionConstants
  <1>3. Push(ring, m) = [slots |-> slots, next |-> q]
    BY DEF Push
  <1>4. /\ slots \in Seq(0 .. MaxMessages) /\ Len(slots) = n
        /\ \A j \in 1 .. n : slots[j] = IF j = p THEN m ELSE ring.slots[j]
    BY <1>1, <1>2, ExceptSeq
  <1>5. /\ t \in Seq(1 .. MaxMessages) /\ Len(t) = Len(s) + 1 /\ Len(s) \in Nat
        /\ \A i \in 1 .. Len(s) : t[i] = s[i]
        /\ t[Len(s) + 1] = m
    BY AppendProperties, LenProperties
  <1>6. \A j \in 1 .. n : ring.slots[j] = IF Behind(j, p, n) < Len(s)
                                         THEN s[Len(s) - Behind(j, p, n)] ELSE 0
    BY DEF Holds
  <1>7. q = IF p = n THEN 1 ELSE p + 1
    <2> HIDE DEF p, n
    <2>1. p \in Nat /\ p < 2 * n
      BY <1>1
    <2>2. p % n = IF p < n THEN p ELSE p - n
      BY <1>1, <2>1, OnceAround
    <2> QED BY <2>2, <1>1
  <1> HIDE DEF n, p, slots, q, t
  <1>8. ASSUME NEW j \in 1 .. n
        PROVE  slots[j] = IF Behind(j, q, n) < Len(t) THEN t[Len(t) - Behind(j, q, n)] ELSE 0
    <2>1. Behind(j, q, n) = IF j = p THEN 0 ELSE Behind(j, p, n) + 1
      BY <1>1, <1>7, BehindAfterPush
    <2>2. CASE j = p
      BY <1>4, <1>5, <2>1, <2>2
    <2>3. CASE j # p
      <3> DEFINE behind == Behind(j, p, n)
      <3>1. behind \in Nat
        BY <1>1, BehindType
      <3>2. slots[j] = IF behind < Len(s) THEN s[Len(s) - behind] ELSE 0
        BY <1>4, <1>6, <2>3
      <3>3. Behind(j, q, n) = behind + 1
        BY <2>1, <2>3
      <3> HIDE DEF behind
      <3>4. CASE behind < Len(s)
        <4>1. Len(s) - behind \in 1 .. Len(s) /\ Len(t) - (behind + 1) = Len(s) - behind
          BY <1>5, <3>1, <3>4
        <4>2. behind + 1 < Len(t)
          BY <1>5, <3>1, <3>4
        <4> QED BY <1>5, <3>2, <3>3, <3>4, <4>1, <4>2
      <3>5. CASE ~(behind < Len(s))
        <4>1. ~(behind + 1 < Len(t))
          BY <1>5, <3>1, <3>5
        <4> QED BY <3>2, <3>3, <3>5, <4>1
      <3> QED BY <3>4, <3>5
    <2> QED BY <2>2, <2>3
  <1>9. q \in 1 .. n
    BY <1>1, <1>7
  <1>10. Holds([slots |-> slots, next |-> q], t)
    BY <1>1, <1>4, <1>8, <1>9 DEF Holds, Size
  <1>11. [slots |-> slots, next |-> q] \in Rings
    BY <1>1, <1>4, <1>9 DEF Rings
  <1>12. q \in DOMAIN slots /\ Size([slots |-> slots, next |-> q]) = n
    BY <1>1, <1>4, <1>9 DEF Size
  <1> QED
    BY <1>3, <1>10, <1>11, <1>12 DEF n, t

(* What a ring stores is the end of the sequence it holds.                 *)
LEMMA StoredIsLatest ==
    ASSUME DecisionConstants, NEW ring \in Rings, NEW s \in Seq(1 .. MaxMessages), Holds(ring, s)
    PROVE  Stored(ring) = Latest(s, Size(ring))
  <1> DEFINE n == Size(ring)
             p == ring.next
             turned == Turned(ring)
             L == Len(s)
             a == IF L < n THEN n - L + 1 ELSE 1
  <1>1. n \in Nat /\ n > 0 /\ p \in 1 .. n /\ L \in Nat
    BY LenProperties DEF Holds, Rings, Size
  <1>2. turned = [i \in 1 .. n |-> ring.slots[((p + i - 2) % n) + 1]]
    BY DEF Turned
  <1>3. \A j \in 1 .. n : ring.slots[j] = IF Behind(j, p, n) < L
                                         THEN s[L - Behind(j, p, n)] ELSE 0
    BY DEF Holds
  <1>4. \A i \in 1 .. L : s[i] \in 1 .. MaxMessages
    BY ElementOfSeq
  <1> HIDE DEF n, p, turned, L
  <1>5. ASSUME NEW i \in 1 .. n
        PROVE  turned[i] = IF n - i < L THEN s[L - (n - i)] ELSE 0
    <2> DEFINE x == p + i - 2
               j == (x % n) + 1
    <2>1. x \in Nat /\ x < 2 * n
      BY <1>1
    <2>2. x % n = IF x < n THEN x ELSE x - n
      <3> HIDE DEF x
      <3> QED BY <1>1, <2>1, OnceAround
    <2>3. turned[i] = ring.slots[j]
      BY <1>2
    <2>4. j = IF p + i - 1 <= n THEN p + i - 1 ELSE p + i - 1 - n
      <3>1. CASE p + i - 2 < n
        <4>1. j = p + i - 2 + 1
          BY <2>2, <3>1
        <4> QED BY <1>1, <3>1, <4>1
      <3>2. CASE ~(p + i - 2 < n)
        <4>1. j = p + i - 2 - n + 1
          BY <1>1, <2>2, <3>2
        <4> QED BY <1>1, <3>2, <4>1
      <3> QED BY <3>1, <3>2
    <2> HIDE DEF j
    <2>5. j \in 1 .. n /\ Behind(j, p, n) = n - i
      <3>1. CASE p + i - 1 <= n
        BY <1>1, <2>4, <3>1 DEF Behind
      <3>2. CASE ~(p + i - 1 <= n)
        BY <1>1, <2>4, <3>2 DEF Behind
      <3> QED BY <3>1, <3>2
    <2> QED BY <1>3, <2>3, <2>5
  <1>6. \A i \in 1 .. n : turned[i] \in 0 .. MaxMessages /\ (turned[i] # 0 <=> i >= a)
    <2> SUFFICES ASSUME NEW i \in 1 .. n
                 PROVE  turned[i] \in 0 .. MaxMessages /\ (turned[i] # 0 <=> i >= a)
      OBVIOUS
    <2>1. CASE n - i < L
      <3>1. L - (n - i) \in 1 .. L /\ i >= a
        BY <1>1, <2>1
      <3>2. turned[i] \in 1 .. MaxMessages
        BY <1>4, <1>5, <2>1, <3>1
      <3> QED BY <3>1, <3>2
    <2>2. CASE ~(n - i < L)
      <3>1. ~(i >= a)
        BY <1>1, <2>2
      <3> QED BY <1>5, <2>2, <3>1 DEF DecisionConstants
    <2> QED BY <2>1, <2>2
  <1>7. turned \in Seq(0 .. MaxMessages) /\ Len(turned) = n
    <2>1. turned \in [1 .. n -> 0 .. MaxMessages]
      BY <1>2, <1>6
    <2> QED BY <1>1, <2>1
  <1>8. a \in 1 .. n + 1 /\ a <= n + 1 /\ n - a + 1 = IF L < n THEN L ELSE n
    BY <1>1
  <1>9. Stored(ring) = SubSeq(turned, a, n)
    <2> HIDE DEF a
    <2>1. {i \in 1 .. n : turned[i] # 0} = a .. n
      BY <1>1, <1>6, <1>8
    <2>2. n \in 0 .. n
      BY <1>1
    <2>3. Keep(turned, a .. n) = SubSeq(turned, a, n)
      BY <1>7, <1>8, <2>2, KeepInterval
    <2> QED BY <2>1, <2>3 DEF Stored, turned, n
  <1>10. /\ SubSeq(turned, a, n) \in Seq(0 .. MaxMessages)
         /\ Len(SubSeq(turned, a, n)) = n - a + 1
         /\ \A i \in 1 .. n - a + 1 : SubSeq(turned, a, n)[i] = turned[a + i - 1]
    <2> HIDE DEF a
    <2>1. a \in Int /\ n \in Int /\ a <= n + 1
      BY <1>1, <1>8
    <2>2. \A i \in a .. n : turned[i] \in 0 .. MaxMessages
      BY <1>1, <1>6, <1>8
    <2>3. /\ SubSeq(turned, a, n) \in Seq(0 .. MaxMessages)
          /\ Len(SubSeq(turned, a, n)) = IF a <= n THEN n - a + 1 ELSE 0
          /\ \A i \in 1 .. n - a + 1 : SubSeq(turned, a, n)[i] = turned[a + i - 1]
      BY <2>1, <2>2, SubSeqProperties
    <2> QED BY <2>1, <2>3
  <1>11. CASE L > n
    <2> DEFINE latest == SubSeq(s, L - n + 1, L)
    <2>1. a = 1 /\ n - a + 1 = n
      BY <1>1, <1>11
    <2>2. Latest(s, n) = latest
      BY <1>11 DEF Latest, L
    <2>3. /\ latest \in Seq(0 .. MaxMessages)
          /\ Len(latest) = n
          /\ \A i \in 1 .. n : latest[i] = s[L - n + i]
      <3>1. L - n + 1 \in Int /\ L \in Int /\ L - n + 1 <= L /\ L - (L - n + 1) + 1 = n
        BY <1>1, <1>11
      <3>2. \A i \in L - n + 1 .. L : s[i] \in 0 .. MaxMessages
        BY <1>1, <1>4, <1>11
      <3>3. /\ latest \in Seq(0 .. MaxMessages)
            /\ Len(latest) = n
            /\ \A i \in 1 .. n : latest[i] = s[(L - n + 1) + i - 1]
        BY <3>1, <3>2, SubSeqProperties
      <3>4. \A i \in 1 .. n : (L - n + 1) + i - 1 = L - n + i
        BY <1>1
      <3> QED BY <3>3, <3>4
    <2>4. \A i \in 1 .. n : turned[i] = latest[i]
      <3>1. \A i \in 1 .. n : n - i < L /\ L - (n - i) = L - n + i
        BY <1>1, <1>11
      <3> QED BY <1>5, <2>3, <3>1
    <2>5. \A i \in 1 .. n : SubSeq(turned, 1, n)[i] = latest[i]
      <3>1. \A i \in 1 .. n : 1 + i - 1 = i
        BY <1>1
      <3> QED BY <1>10, <2>1, <2>4, <3>1
    <2>6. SubSeq(turned, 1, n) = latest
      <3> HIDE DEF latest
      <3> QED BY <1>10, <2>1, <2>3, <2>5, SeqEqual
    <2> QED BY <1>9, <2>1, <2>2, <2>6 DEF n
  <1>12. CASE L <= n
    <2>1. a = n - L + 1 /\ n - a + 1 = L
      BY <1>1, <1>12
    <2>2. Latest(s, n) = s
      <3>1. ~(L > n)
        BY <1>1, <1>12
      <3> QED BY <3>1 DEF Latest, L
    <2>3. s \in Seq(0 .. MaxMessages)
      BY SeqMonotonic
    <2>4. \A i \in 1 .. L : turned[a + i - 1] = s[i]
      <3>1. \A i \in 1 .. L : /\ a + i - 1 \in 1 .. n
                              /\ n - (a + i - 1) < L
                              /\ L - (n - (a + i - 1)) = i
        BY <1>1, <1>12, <2>1
      <3> HIDE DEF a
      <3> QED BY <1>5, <3>1
    <2>5. SubSeq(turned, a, n) = s
      <3> HIDE DEF a
      <3>1. \A i \in 1 .. L : SubSeq(turned, a, n)[i] = s[i]
        BY <1>10, <2>1, <2>4
      <3>2. Len(s) = L
        BY DEF L
      <3> QED BY <1>10, <2>1, <2>3, <3>1, <3>2, SeqEqual
    <2> QED BY <1>9, <2>2, <2>5 DEF n
  <1> QED
    BY <1>1, <1>11, <1>12

----------------------------------------------------------------------------
(* Calls.                                                                  *)

(* A call that is not idle is a record of the type Calls.                  *)
LEMMA CallType ==
    ASSUME TypeOK, NEW c \in Checkers, calls[c].pc # "idle"
    PROVE  calls[c] \in Calls
  BY DEF TypeOK, NoCall

(* The fields of a call.                                                   *)
LEMMA CallFields ==
    ASSUME NEW call \in Calls
    PROVE  /\ call.pc \in {"checking", "asking", "done"}
           /\ call.id \in 1 .. MaxMessages /\ call.req \in Requests /\ call.clean \in Nat
           /\ call.context \in Seq(1 .. MaxMessages) /\ call.failures \in 0 .. RetryCount
           /\ call.answer \in Answers /\ call.spam \in BOOLEAN
  BY DEF Calls, Answers

(* Return leaves the call done, with its result; the other calls are as    *)
(* before.                                                                 *)
LEMMA ReturnEffect ==
    ASSUME DecisionConstants, TypeOK, NEW c \in Checkers, calls[c].pc # "idle",
           NEW a \in Answers, NEW spam \in BOOLEAN, Return(c, a, spam)
    PROVE  /\ calls' \in [Checkers -> {NoCall} \union Calls]
           /\ calls'[c].pc = "done" /\ calls'[c].answer = a /\ calls'[c].spam = spam
           /\ calls'[c].id = calls[c].id /\ calls'[c].req = calls[c].req
           /\ calls'[c].clean = calls[c].clean
           /\ \A d \in Checkers : d # c => calls'[d] = calls[d]
  <1> DEFINE old == calls[c]
             new == [old EXCEPT !.pc = "done", !.context = <<>>, !.failures = 0,
                                !.answer = a, !.spam = spam]
  <1>1. calls \in [Checkers -> {NoCall} \union Calls] /\ RetryCount \in Nat
    BY DEF TypeOK, DecisionConstants
  <1>2. old \in Calls
    BY CallType
  <1>3. calls' = [calls EXCEPT ![c] = new]
    BY <1>1 DEF Return
  <1> HIDE DEF old
  <1>4. new \in Calls
    <2>1. <<>> \in Seq(1 .. MaxMessages) /\ 0 \in 0 .. RetryCount
      BY <1>1
    <2> QED BY <1>2, <2>1 DEF Calls, Answers
  <1>5. /\ new.pc = "done" /\ new.answer = a /\ new.spam = spam
        /\ new.id = old.id /\ new.req = old.req /\ new.clean = old.clean
    BY <1>2 DEF Calls
  <1> HIDE DEF new
  <1> QED
    BY <1>1, <1>3, <1>4, <1>5 DEF old

(* The verdicts after a call returned as the book says: what was said of   *)
(* the other calls holds still.                                            *)
LEMMA ReturnByTheBook ==
    ASSUME DecisionConstants, DecisionInv, NEW c \in Checkers, Undecided(c),
           NEW a \in Answers, NEW spam \in BOOLEAN, Return(c, a, spam), options' = options,
           spam <=> IF Flagged(calls[c].req) THEN ~(options.veto /\ a = "ham") ELSE a = "spam",
           a # "none" <=> ToBeAsked(calls[c])
    PROVE  UndecidedByTheBook' /\ VerdictByTheBook' /\ AskedByTheBook'
  <1>1. /\ TypeOK /\ ~Trusted(calls[c])
        /\ UndecidedByTheBook /\ VerdictByTheBook /\ AskedByTheBook
    BY DEF DecisionInv, UndecidedByTheBook
  <1>2. /\ calls'[c].pc = "done" /\ calls'[c].answer = a /\ calls'[c].spam = spam
        /\ calls'[c].req = calls[c].req /\ calls'[c].clean = calls[c].clean
        /\ \A d \in Checkers : d # c => calls'[d] = calls[d]
    BY <1>1, ReturnEffect
  <1>3. ~Trusted(calls[c])' /\ (ToBeAsked(calls[c])' <=> ToBeAsked(calls[c]))
    BY <1>1, <1>2 DEF Trusted, ToBeAsked
  <1>4. RightVerdict(calls[c])'
    BY <1>2, <1>3 DEF RightVerdict
  <1>5. ASSUME NEW d \in Checkers, d # c
        PROVE  /\ Trusted(calls[d])' <=> Trusted(calls[d])
               /\ ToBeAsked(calls[d])' <=> ToBeAsked(calls[d])
               /\ RightVerdict(calls[d])' <=> RightVerdict(calls[d])
    BY <1>2, <1>5 DEF Trusted, ToBeAsked, RightVerdict
  <1>6. UndecidedByTheBook'
    BY <1>1, <1>2, <1>5 DEF UndecidedByTheBook
  <1>7. VerdictByTheBook'
    BY <1>1, <1>2, <1>4, <1>5 DEF VerdictByTheBook
  <1>8. AskedByTheBook'
    BY <1>1, <1>2, <1>3, <1>5 DEF AskedByTheBook
  <1> QED
    BY <1>6, <1>7, <1>8

----------------------------------------------------------------------------
(* The two ends of a call.                                                 *)

(* Finding spam keeps the invariant apart from the verdicts.               *)
LEMMA FoundSpamStep ==
    ASSUME DecisionConstants, DecisionInv, NEW c \in Checkers, Undecided(c), NEW a \in Answers,
           FoundSpam(c, a)
    PROVE  TypeOK' /\ Numbered' /\ Counted' /\ RingsHold'
  <1>1. /\ Return(c, a, TRUE)
        /\ spamHistory' = Push(spamHistory, calls[c].id)
        /\ pushed' = [pushed EXCEPT !.spam = Append(@, calls[c].id)]
        /\ UNCHANGED <<options, counts, hamHistory, arrived, clean>>
    BY DEF FoundSpam
  <1>2. TypeOK /\ Numbered /\ Counted /\ RingsHold
    BY DEF DecisionInv
  <1>3. calls[c].id \in 1 .. MaxMessages
    BY <1>2, CallType, CallFields
  <1>4. /\ calls' \in [Checkers -> {NoCall} \union Calls]
        /\ calls'[c].pc = "done" /\ calls'[c].id = calls[c].id
        /\ \A d \in Checkers : d # c => calls'[d] = calls[d]
    BY <1>1, <1>2, ReturnEffect
  <1>5. /\ pushed.ham \in Seq(1 .. MaxMessages) /\ pushed.spam \in Seq(1 .. MaxMessages)
        /\ pushed'.ham = pushed.ham /\ pushed'.spam = Append(pushed.spam, calls[c].id)
        /\ pushed' \in [ham : Seq(1 .. MaxMessages), spam : Seq(1 .. MaxMessages)]
    BY <1>1, <1>2, <1>3, AppendProperties DEF TypeOK
  <1>6. /\ Holds(Push(spamHistory, calls[c].id), Append(pushed.spam, calls[c].id))
        /\ Push(spamHistory, calls[c].id) \in Rings
        /\ Push(spamHistory, calls[c].id).next \in DOMAIN Push(spamHistory, calls[c].id).slots
    BY <1>2, <1>3, <1>5, PushHolds DEF TypeOK, RingsHold
  <1>7. TypeOK'
    BY <1>1, <1>2, <1>4, <1>5, <1>6 DEF TypeOK, Size
  <1>8. Numbered'
    <2>1. ASSUME NEW d \in Checkers, calls'[d].pc # "idle"
          PROVE  calls[d].pc # "idle" /\ calls'[d].id = calls[d].id
      BY <1>4, <2>1
    <2>2. ASSUME NEW d \in Checkers, Undecided(d)'
          PROVE  Undecided(d) /\ calls'[d].id = calls[d].id
      BY <1>4, <2>2
    <2>3. arrived' = arrived
      BY <1>1
    <2>4. /\ \A d \in Checkers : calls'[d].pc # "idle" => calls'[d].id \in 1 .. arrived'
          /\ \A d, e \in Checkers : calls'[d].pc # "idle" /\ calls'[e].pc # "idle"
                                   /\ calls'[d].id = calls'[e].id => d = e
      BY <1>2, <2>1, <2>3 DEF Numbered
    <2>5. \A i \in DOMAIN pushed'.ham :
            /\ pushed'.ham[i] \in 1 .. arrived'
            /\ \A j \in DOMAIN pushed'.ham : pushed'.ham[i] = pushed'.ham[j] => i = j
            /\ \A d \in Checkers : Undecided(d)' => calls'[d].id # pushed'.ham[i]
      BY <1>2, <1>5, <2>2, <2>3 DEF Numbered
    <2> QED BY <2>4, <2>5 DEF Numbered
  <1>9. Counted'
    BY <1>1, <1>2, <1>5 DEF Counted
  <1>10. RingsHold'
    BY <1>1, <1>2, <1>5, <1>6 DEF RingsHold, Holds, Size
  <1> QED
    BY <1>7, <1>8, <1>9, <1>10

(* As many messages as were found ham arrived: they have different numbers. *)
LEMMA InjectiveIsShort ==
    ASSUME NEW n \in Nat, NEW m \in Nat, NEW s \in [1 .. n -> 1 .. m],
           \A i, j \in 1 .. n : s[i] = s[j] => i = j
    PROVE  n <= m
  <1>1. s \in Injection(1 .. n, 1 .. m)
    BY DEF Injection, IsInjective
  <1>2. IsFiniteSet(1 .. m) /\ Cardinality(1 .. m) = m /\ Cardinality(1 .. n) = n
    BY FS_Interval
  <1> QED
    BY <1>1, <1>2, FS_Injection

(* Finding ham keeps the invariant apart from the verdicts.                *)
LEMMA FoundHamStep ==
    ASSUME DecisionConstants, DecisionInv, NEW c \in Checkers, Undecided(c), NEW a \in Answers,
           FoundHam(c, a)
    PROVE  TypeOK' /\ Numbered' /\ Counted' /\ RingsHold'
  <1> DEFINE id == calls[c].id
             who == calls[c].req.user
             one == IF calls[c].req.checkOnly \/ calls[c].req.short THEN 0 ELSE 1
             P == Users \union {NoUser}
  <1>1. /\ Return(c, a, FALSE)
        /\ counts' = IF Config.firstMessageOnly \/ Config.firstMessagesCount > 0
                     THEN [counts EXCEPT ![who] = @ + one] ELSE counts
        /\ clean' = [clean EXCEPT ![who] = @ + one]
        /\ hamHistory' = Push(hamHistory, id)
        /\ pushed' = [pushed EXCEPT !.ham = Append(@, id)]
        /\ UNCHANGED <<options, spamHistory, arrived>>
    BY DEF FoundHam
  <1>2. TypeOK /\ Numbered /\ Counted /\ RingsHold
    BY DEF DecisionInv
  <1>3. id \in 1 .. MaxMessages /\ calls[c].req \in Requests
    BY <1>2, CallType, CallFields
  <1>4. who \in P /\ one \in {0, 1}
    BY <1>3 DEF Requests
  <1>5. /\ calls' \in [Checkers -> {NoCall} \union Calls]
        /\ calls'[c].pc = "done" /\ calls'[c].id = calls[c].id
        /\ \A d \in Checkers : d # c => calls'[d] = calls[d]
    BY <1>1, <1>2, ReturnEffect
  <1>6. /\ pushed.ham \in Seq(1 .. MaxMessages) /\ Len(pushed.ham) \in Nat
        /\ pushed'.ham = Append(pushed.ham, id) /\ pushed'.spam = pushed.spam
        /\ pushed' \in [ham : Seq(1 .. MaxMessages), spam : Seq(1 .. MaxMessages)]
    BY <1>1, <1>2, <1>3, AppendProperties, LenProperties DEF TypeOK
  <1> HIDE DEF id, who, one, P
  <1>7. /\ Holds(Push(hamHistory, id), Append(pushed.ham, id))
        /\ Push(hamHistory, id) \in Rings
        /\ Push(hamHistory, id).next \in DOMAIN Push(hamHistory, id).slots
        /\ Size(Push(hamHistory, id)) = Size(hamHistory)
    BY <1>2, <1>3, <1>6, PushHolds DEF TypeOK, RingsHold
  <1>8. /\ pushed'.ham \in Seq(1 .. MaxMessages) /\ Len(pushed'.ham) = Len(pushed.ham) + 1
        /\ \A i \in 1 .. Len(pushed.ham) : pushed'.ham[i] = pushed.ham[i]
        /\ pushed'.ham[Len(pushed.ham) + 1] = id
        /\ DOMAIN pushed.ham = 1 .. Len(pushed.ham)
        /\ DOMAIN pushed'.ham = 1 .. Len(pushed.ham) + 1
    BY <1>3, <1>6, AppendProperties, LenProperties
  <1>9. Numbered'
    <2>1. ASSUME NEW d \in Checkers, calls'[d].pc # "idle"
          PROVE  calls[d].pc # "idle" /\ calls'[d].id = calls[d].id
      BY <1>5, <2>1
    <2>2. \A d \in Checkers : calls'[d].pc # "idle" => calls'[d].id \in 1 .. arrived'
      BY <1>1, <1>2, <2>1 DEF Numbered
    <2>3. \A d, e \in Checkers : calls'[d].pc # "idle" /\ calls'[e].pc # "idle"
                                /\ calls'[d].id = calls'[e].id => d = e
      BY <1>2, <2>1 DEF Numbered
    <2>4. \A i \in 1 .. Len(pushed.ham) : pushed.ham[i] # id
      BY <1>2, <1>8 DEF Numbered, id
    <2>5. id \in 1 .. arrived
      BY <1>2 DEF Numbered, id
    <2>6. ASSUME NEW i \in DOMAIN pushed'.ham
          PROVE  /\ pushed'.ham[i] \in 1 .. arrived'
                 /\ \A j \in DOMAIN pushed'.ham : pushed'.ham[i] = pushed'.ham[j] => i = j
      <3>1. i \in 1 .. Len(pushed.ham) \/ i = Len(pushed.ham) + 1
        BY <1>6, <1>8
      <3>2. ASSUME NEW j \in DOMAIN pushed'.ham
            PROVE  j \in 1 .. Len(pushed.ham) \/ j = Len(pushed.ham) + 1
        BY <1>6, <1>8
      <3> QED BY <1>1, <1>2, <1>8, <2>4, <2>5, <3>1, <3>2 DEF Numbered
    <2>7. ASSUME NEW i \in DOMAIN pushed'.ham, NEW d \in Checkers, Undecided(d)'
          PROVE  calls'[d].id # pushed'.ham[i]
      <3>1. d # c /\ calls'[d] = calls[d]
        BY <1>5, <2>7
      <3>2. calls[d].id # id
        BY <1>2, <2>7, <3>1 DEF Numbered, id
      <3>3. i \in 1 .. Len(pushed.ham) \/ i = Len(pushed.ham) + 1
        BY <1>6, <1>8
      <3> QED BY <1>2, <1>8, <2>7, <3>1, <3>2, <3>3 DEF Numbered
    <2> QED BY <2>2, <2>3, <2>6, <2>7 DEF Numbered
  <1>10. Len(pushed'.ham) <= MaxMessages
    <2>1. arrived \in Nat /\ arrived <= MaxMessages /\ arrived' = arrived /\ MaxMessages \in Nat
      BY <1>1, <1>2 DEF TypeOK, DecisionConstants
    <2> DEFINE s == pushed'.ham
               n == Len(pushed.ham) + 1
    <2>2. n \in Nat /\ DOMAIN s = 1 .. n /\ Len(s) = n
      BY <1>6, <1>8
    <2>3. \A i \in DOMAIN s : s[i] \in 1 .. arrived /\ \A j \in DOMAIN s : s[i] = s[j] => i = j
      BY <1>9, <2>1 DEF Numbered
    <2>4. s \in [1 .. Len(s) -> 1 .. MaxMessages]
      BY <1>8, LenProperties
    <2> HIDE DEF s, n
    <2>5. s \in [1 .. n -> 1 .. arrived]
      BY <2>2, <2>3, <2>4
    <2>6. n <= arrived
      BY <2>1, <2>2, <2>3, <2>5, InjectiveIsShort
    <2>7. n <= MaxMessages
      BY <2>1, <2>2, <2>6
    <2> QED BY <2>2, <2>7 DEF s
  <1>11. /\ \A u \in P : /\ clean'[u] \in Nat /\ counts'[u] \in Nat
                         /\ counts'[u] <= clean'[u] /\ clean'[u] <= Len(pushed'.ham)
         /\ DOMAIN counts' = P /\ DOMAIN clean' = P
    <2>1. /\ counts \in [P -> Nat] /\ clean \in [P -> Nat]
          /\ \A u \in P : counts[u] <= clean[u] /\ clean[u] <= Len(pushed.ham)
      BY <1>2 DEF TypeOK, Counted, P, DecisionConstants
    <2>2. clean' \in [P -> Nat] /\ \A u \in P : clean'[u] = IF u = who THEN clean[u] + one ELSE clean[u]
      BY <1>1, <1>4, <2>1
    <2>3. /\ counts' \in [P -> Nat]
          /\ \A u \in P : counts'[u] = counts[u] \/ counts'[u] = IF u = who THEN counts[u] + one ELSE counts[u]
      BY <1>1, <1>4, <2>1
    <2>4. ASSUME NEW u \in P
          PROVE  /\ clean'[u] \in Nat /\ counts'[u] \in Nat
                 /\ counts'[u] <= clean'[u] /\ clean'[u] <= Len(pushed'.ham)
      <3>1. /\ counts[u] \in Nat /\ clean[u] \in Nat
            /\ counts[u] <= clean[u] /\ clean[u] <= Len(pushed.ham)
        BY <2>1
      <3>2. Len(pushed'.ham) = Len(pushed.ham) + 1 /\ Len(pushed.ham) \in Nat
        BY <1>6, <1>8
      <3>3. CASE u = who
        <4>1. clean'[u] = clean[u] + one /\ counts'[u] \in {counts[u], counts[u] + one}
          BY <2>1, <2>2, <2>3, <1>1, <3>3
        <4> QED BY <1>4, <3>1, <3>2, <4>1
      <3>4. CASE u # who
        <4>1. clean'[u] = clean[u] /\ counts'[u] = counts[u]
          BY <2>2, <2>3, <3>4
        <4> QED BY <3>1, <3>2, <4>1
      <3> QED BY <3>3, <3>4
    <2> QED BY <2>2, <2>3, <2>4
  <1>12. options.paranoid \/ counts' = clean'
    <2> SUFFICES ASSUME ~options.paranoid PROVE counts' = clean'
      OBVIOUS
    <2>1. Config.firstMessageOnly
      BY <1>2, ConfigByOptions DEF TypeOK
    <2>2. counts = clean
      BY <1>2 DEF Counted
    <2> QED BY <1>1, <2>1, <2>2
  <1>13. Counted'
    BY <1>1, <1>11, <1>12 DEF Counted, P
  <1>14. TypeOK'
    <2>1. counts' \in [P -> 0 .. MaxMessages] /\ clean' \in [P -> 0 .. MaxMessages]
      <3>1. \A u \in P : clean'[u] \in 0 .. MaxMessages /\ counts'[u] \in 0 .. MaxMessages
        BY <1>6, <1>8, <1>10, <1>11 DEF DecisionConstants
      <3>2. counts' = [u \in P |-> counts'[u]] /\ clean' = [u \in P |-> clean'[u]]
        BY <1>1, <1>2 DEF TypeOK, P
      <3> QED BY <3>1, <3>2
    <2> QED BY <1>1, <1>2, <1>5, <1>6, <1>7, <2>1 DEF TypeOK, P, Size
  <1>15. RingsHold'
    BY <1>1, <1>2, <1>6, <1>7 DEF RingsHold, Holds, Size
  <1> QED
    BY <1>9, <1>13, <1>14, <1>15

----------------------------------------------------------------------------
(* The steps.                                                              *)

(* The end of a call as the book says keeps the whole invariant.           *)
LEMMA FoundStep ==
    ASSUME DecisionConstants, DecisionInv, NEW c \in Checkers, Undecided(c),
           NEW a \in Answers, NEW spam \in BOOLEAN, Found(c, a, spam),
           spam <=> IF Flagged(calls[c].req) THEN ~(options.veto /\ a = "ham") ELSE a = "spam",
           a # "none" <=> ToBeAsked(calls[c])
    PROVE  DecisionInv'
  <1>1. Return(c, a, spam) /\ options' = options
    BY DEF Found, FoundSpam, FoundHam
  <1>2. UndecidedByTheBook' /\ VerdictByTheBook' /\ AskedByTheBook'
    BY <1>1, ReturnByTheBook
  <1>3. TypeOK' /\ Numbered' /\ Counted' /\ RingsHold'
    BY FoundSpamStep, FoundHamStep DEF Found
  <1> QED
    BY <1>2, <1>3 DEF DecisionInv

(* A step that changes one call, and no count and no history.              *)
LEMMA CallStep ==
    ASSUME DecisionConstants, DecisionInv, NEW c \in Checkers,
           UNCHANGED <<options, counts, hamHistory, spamHistory, clean, pushed>>,
           arrived' \in 0 .. MaxMessages, arrived' >= arrived,
           NEW new \in {NoCall} \union Calls, calls' = [calls EXCEPT ![c] = new],
           new.pc = "idle" \/ new.id \in 1 .. arrived',
           new.pc = "idle" \/ (calls[c].pc # "idle" /\ new.id = calls[c].id)
                           \/ new.id > arrived,
           new.pc \in {"checking", "asking"} => Undecided(c) \/ new.id > arrived
    PROVE  TypeOK' /\ Numbered' /\ Counted' /\ RingsHold'
  <1>1. TypeOK /\ Numbered /\ Counted /\ RingsHold
    BY DEF DecisionInv
  <1>2. calls'[c] = new /\ \A d \in Checkers : d # c => calls'[d] = calls[d]
    BY <1>1 DEF TypeOK
  <1>3. arrived \in Nat /\ arrived' \in Nat
    BY <1>1 DEF TypeOK, DecisionConstants
  <1>4. TypeOK'
    BY <1>1 DEF TypeOK, Size
  <1>5. Counted' /\ RingsHold'
    BY <1>1 DEF Counted, RingsHold, Holds, Size
  <1>6. Numbered'
    <2>1. \A d \in Checkers : calls'[d].pc # "idle" => calls'[d].id \in 1 .. arrived'
      BY <1>1, <1>2, <1>3 DEF Numbered
    <2>2. ASSUME NEW d \in Checkers, NEW e \in Checkers, calls'[d].pc # "idle",
                 calls'[e].pc # "idle", calls'[d].id = calls'[e].id, d = c, e # c
          PROVE  FALSE
      <3>1. calls[e].pc # "idle" /\ calls[e].id = new.id /\ new.pc # "idle"
        BY <1>2, <2>2
      <3>2. calls[e].id \in 1 .. arrived
        BY <1>1, <3>1 DEF Numbered
      <3>3. ~(new.id > arrived)
        BY <1>3, <3>1, <3>2
      <3>4. calls[c].pc # "idle" /\ new.id = calls[c].id
        BY <3>1, <3>3
      <3> QED BY <1>1, <2>2, <3>1, <3>4 DEF Numbered
    <2>3. \A d, e \in Checkers : calls'[d].pc # "idle" /\ calls'[e].pc # "idle"
                                /\ calls'[d].id = calls'[e].id => d = e
      <3> SUFFICES ASSUME NEW d \in Checkers, NEW e \in Checkers, calls'[d].pc # "idle",
                          calls'[e].pc # "idle", calls'[d].id = calls'[e].id
                   PROVE  d = e
        OBVIOUS
      <3>1. CASE d = c
        BY <2>2, <3>1
      <3>2. CASE e = c
        BY <2>2, <3>2
      <3>3. CASE d # c /\ e # c
        BY <1>1, <1>2, <3>3 DEF Numbered
      <3> QED BY <3>1, <3>2, <3>3
    <2>4. \A i \in DOMAIN pushed.ham :
            /\ pushed.ham[i] \in 1 .. arrived
            /\ \A j \in DOMAIN pushed.ham : pushed.ham[i] = pushed.ham[j] => i = j
            /\ \A d \in Checkers : Undecided(d) => calls[d].id # pushed.ham[i]
      BY <1>1 DEF Numbered
    <2>5. ASSUME NEW i \in DOMAIN pushed.ham, NEW d \in Checkers, Undecided(d)'
          PROVE  calls'[d].id # pushed.ham[i]
      <3>1. CASE d = c
        <4>1. new.pc \in {"checking", "asking"} /\ calls'[d].id = new.id
          BY <1>2, <2>5, <3>1
        <4>2. CASE new.id > arrived
          BY <1>3, <2>4, <4>1, <4>2
        <4>3. CASE ~(new.id > arrived)
          <5>1. Undecided(c) /\ new.id = calls[c].id
            BY <4>1, <4>3
          <5> QED BY <2>4, <4>1, <5>1
        <4> QED BY <4>2, <4>3
      <3>2. CASE d # c
        BY <1>2, <2>4, <2>5, <3>2
      <3> QED BY <3>1, <3>2
    <2>6. \A i \in DOMAIN pushed.ham : pushed.ham[i] \in 1 .. arrived'
      BY <1>3, <2>4
    <2>7. pushed' = pushed
      OBVIOUS
    <2> QED BY <2>1, <2>3, <2>4, <2>5, <2>6, <2>7 DEF Numbered
  <1> QED
    BY <1>4, <1>5, <1>6

(* The author who is let pass is the one the documentation trusts.         *)
LEMMA PassingIsTrusted ==
    ASSUME DecisionConstants, TypeOK, Counted, NEW req \in Requests, NEW call,
           call.req = req, call.clean = clean[req.user]
    PROVE  PreApproved(req) <=> Trusted(call)
  <1> DEFINE n == clean[req.user]
  <1>1. req.user \in Users \union {NoUser}
    BY DEF Requests
  <1>2. n \in Nat
    BY <1>1 DEF TypeOK, DecisionConstants
  <1>3. options \in Options
    BY DEF TypeOK
  <1>4. CASE options.paranoid
    BY <1>3, <1>4, ConfigByOptions DEF PreApproved, Trusted
  <1>5. CASE ~options.paranoid
    <2>1. counts[req.user] = n
      BY <1>5 DEF Counted
    <2>2. n >= Config.firstMessagesCount <=> n >= 1 /\ n >= options.firstMessagesCount
      BY <1>2, <1>3, <1>5, ConfigByOptions
    <2>3. Config.firstMessageOnly
      BY <1>3, <1>5, ConfigByOptions
    <2> QED BY <1>5, <2>1, <2>2, <2>3 DEF PreApproved, Trusted
  <1> QED
    BY <1>4, <1>5

(* Whether OpenAI is asked, in the code's words and in the book's.         *)
LEMMA AskingByTheBook ==
    ASSUME DecisionConstants, TypeOK, NEW call, call.req \in Requests, ~Trusted(call)
    PROVE  ToBeAsked(call) <=> ~DoneShort(call.req) /\ ShouldCheck(call.req)
  <1> DEFINE req == call.req
  <1>1. /\ options.paranoid \in BOOLEAN /\ options.openAI \in BOOLEAN
        /\ options.veto \in BOOLEAN /\ options.shortToo \in BOOLEAN
    BY OptionTypes DEF TypeOK
  <1>2. OpenAIUsable <=> options.openAI /\ ~options.paranoid
    <2>1. /\ Config.firstMessageOnly <=> ~options.paranoid
          /\ options.paranoid => Config.firstMessagesCount = 0
      BY ConfigByOptions DEF TypeOK
    <2>2. ~(0 > 0)
      OBVIOUS
    <2> QED BY <2>1, <2>2 DEF OpenAIUsable
  <1>3. Flagged(req) <=> SpamDetected(req)
    BY FlaggedIsDetected
  <1>4. Flagged(req) \in BOOLEAN /\ SpamDetected(req) \in BOOLEAN /\ req.short \in BOOLEAN
    BY DEF Flagged, SpamDetected, Requests
  <1>5. CASE req.short
    BY <1>1, <1>2, <1>3, <1>4, <1>5 DEF ToBeAsked, DoneShort, ShouldCheck
  <1>6. CASE ~req.short
    BY <1>1, <1>2, <1>3, <1>4, <1>6 DEF ToBeAsked, DoneShort, ShouldCheck
  <1> QED
    BY <1>5, <1>6

(* What is known of an undecided call.                                     *)
LEMMA UndecidedCall ==
    ASSUME DecisionConstants, DecisionInv, NEW c \in Checkers, Undecided(c)
    PROVE  /\ calls[c] \in Calls /\ calls[c].req \in Requests
           /\ Flagged(calls[c].req) <=> SpamDetected(calls[c].req)
           /\ SpamDetected(calls[c].req) \in BOOLEAN
           /\ ToBeAsked(calls[c]) <=> ~DoneShort(calls[c].req) /\ ShouldCheck(calls[c].req)
  <1>1. TypeOK /\ ~Trusted(calls[c])
    BY DEF DecisionInv, UndecidedByTheBook
  <1>2. calls[c] \in Calls /\ calls[c].req \in Requests
    BY <1>1, CallType, CallFields
  <1> QED
    BY <1>1, <1>2, FlaggedIsDetected, AskingByTheBook DEF SpamDetected

(* The verdicts when a call other than those with a verdict changed.       *)
LEMMA OthersByTheBook ==
    ASSUME DecisionInv, NEW c \in Checkers, options' = options,
           \A d \in Checkers : d # c => calls'[d] = calls[d],
           Undecided(c)' => ~Trusted(calls[c])' /\ calls'[c].answer = "none",
           calls'[c].pc = "done" => RightVerdict(calls[c])'
                                    /\ (calls'[c].answer # "none" <=> ToBeAsked(calls[c])'),
           calls'[c].pc = "asking" => ToBeAsked(calls[c])'
    PROVE  UndecidedByTheBook' /\ VerdictByTheBook' /\ AskedByTheBook'
  <1>1. UndecidedByTheBook /\ VerdictByTheBook /\ AskedByTheBook
    BY DEF DecisionInv
  <1>2. ASSUME NEW d \in Checkers, d # c
        PROVE  /\ Trusted(calls[d])' <=> Trusted(calls[d])
               /\ ToBeAsked(calls[d])' <=> ToBeAsked(calls[d])
               /\ RightVerdict(calls[d])' <=> RightVerdict(calls[d])
    BY <1>2 DEF Trusted, ToBeAsked, RightVerdict
  <1>3. UndecidedByTheBook'
    BY <1>1, <1>2 DEF UndecidedByTheBook
  <1>4. VerdictByTheBook'
    BY <1>1, <1>2 DEF VerdictByTheBook
  <1>5. AskedByTheBook'
    BY <1>1, <1>2 DEF AskedByTheBook
  <1> QED
    BY <1>3, <1>4, <1>5

(* Each action keeps the invariant: a message arrives.                     *)
LEMMA EnterStep ==
    ASSUME DecisionConstants, DecisionInv, NEW c \in Checkers, NEW req \in Requests, Enter(c, req)
    PROVE  DecisionInv'
  <1> DEFINE new == [pc |-> IF PreApproved(req) THEN "done" ELSE "checking", id |-> arrived + 1,
                     req |-> req, clean |-> clean[req.user], context |-> <<>>, failures |-> 0,
                     answer |-> "none", spam |-> FALSE]
  <1>1. /\ calls[c].pc = "idle" /\ arrived < MaxMessages /\ arrived' = arrived + 1
        /\ calls' = [calls EXCEPT ![c] = new]
        /\ UNCHANGED <<options, counts, hamHistory, spamHistory, clean, pushed>>
    BY DEF Enter
  <1>2. TypeOK /\ Counted
    BY DEF DecisionInv
  <1>3. arrived \in Nat /\ MaxMessages \in Nat /\ RetryCount \in Nat
    BY <1>2 DEF TypeOK, DecisionConstants
  <1>4. req.user \in Users \union {NoUser} /\ clean[req.user] \in Nat
    BY <1>2, <1>3 DEF Requests, TypeOK
  <1>5. new \in Calls
    <2>1. <<>> \in Seq(1 .. MaxMessages) /\ 0 \in 0 .. RetryCount /\ arrived + 1 \in 1 .. MaxMessages
      BY <1>1, <1>3
    <2> QED BY <1>4, <2>1 DEF Calls
  <1>6. /\ new.pc \in {"done", "checking"} /\ new.id = arrived + 1 /\ new.req = req
        /\ new.clean = clean[req.user] /\ new.answer = "none" /\ new.spam = FALSE
        /\ new.pc = "done" <=> PreApproved(req)
    OBVIOUS
  <1> HIDE DEF new
  <1>7. calls'[c] = new /\ \A d \in Checkers : d # c => calls'[d] = calls[d]
    BY <1>1, <1>2 DEF TypeOK
  <1>8. TypeOK' /\ Numbered' /\ Counted' /\ RingsHold'
    <2>1. arrived' \in 0 .. MaxMessages /\ arrived' >= arrived /\ new.id \in 1 .. arrived' /\ new.id > arrived
      BY <1>1, <1>3, <1>6
    <2> QED BY <1>1, <1>5, <2>1, CallStep
  <1>9. PreApproved(req) <=> Trusted(new)
    BY <1>2, <1>6, PassingIsTrusted
  <1>10. (Trusted(calls[c])' <=> Trusted(new)) /\ (ToBeAsked(calls[c])' => ~Trusted(new))
    BY <1>1, <1>7 DEF Trusted, ToBeAsked
  <1>11. Trusted(new) => RightVerdict(calls[c])'
    BY <1>6, <1>7, <1>10 DEF RightVerdict
  <1>12. UndecidedByTheBook' /\ VerdictByTheBook' /\ AskedByTheBook'
    BY <1>1, <1>6, <1>7, <1>9, <1>10, <1>11, OthersByTheBook
  <1> QED
    BY <1>8, <1>12 DEF DecisionInv

(* The verdict on a short message.                                         *)
LEMMA ReturnShortStep ==
    ASSUME DecisionConstants, DecisionInv, NEW c \in Checkers, ReturnShort(c)
    PROVE  DecisionInv'
  <1>1. Undecided(c) /\ DoneShort(calls[c].req)
    BY DEF ReturnShort
  <1>2. /\ calls[c] \in Calls
        /\ Flagged(calls[c].req) <=> SpamDetected(calls[c].req)
        /\ ~ToBeAsked(calls[c])
    BY <1>1, UndecidedCall
  <1>3. CASE SpamDetected(calls[c].req)
    <2>1. Found(c, "none", TRUE)
      BY <1>3 DEF ReturnShort, Found
    <2> QED BY <1>1, <1>2, <1>3, <2>1, FoundStep DEF Answers
  <1>4. CASE ~SpamDetected(calls[c].req)
    <2>1. /\ Return(c, "none", FALSE)
          /\ UNCHANGED <<options, counts, hamHistory, spamHistory, arrived, clean, pushed>>
      BY <1>4 DEF ReturnShort
    <2>2. UndecidedByTheBook' /\ VerdictByTheBook' /\ AskedByTheBook'
      BY <1>1, <1>2, <1>4, <2>1, ReturnByTheBook DEF Answers
    <2>3. TypeOK /\ Numbered /\ arrived \in 0 .. MaxMessages /\ arrived \in Nat
      BY DEF DecisionInv, TypeOK, DecisionConstants
    <2>4. /\ calls' \in [Checkers -> {NoCall} \union Calls]
          /\ calls'[c].pc = "done" /\ calls'[c].id = calls[c].id
          /\ \A d \in Checkers : d # c => calls'[d] = calls[d]
      BY <1>1, <2>1, <2>3, ReturnEffect DEF Answers
    <2>5. calls' = [calls EXCEPT ![c] = calls'[c]]
      BY <2>3, <2>4 DEF TypeOK
    <2>6. /\ calls'[c] \in {NoCall} \union Calls /\ calls'[c].id \in 1 .. arrived'
          /\ arrived' \in 0 .. MaxMessages /\ arrived' >= arrived
      BY <1>1, <2>1, <2>3, <2>4 DEF Numbered
    <2>7. TypeOK' /\ Numbered' /\ Counted' /\ RingsHold'
      BY <1>1, <2>1, <2>4, <2>5, <2>6, CallStep
    <2> QED BY <2>2, <2>7 DEF DecisionInv
  <1> QED
    BY <1>3, <1>4

(* The verdict without OpenAI.                                             *)
LEMMA JudgeStep ==
    ASSUME DecisionConstants, DecisionInv, NEW c \in Checkers, Judge(c)
    PROVE  DecisionInv'
  <1>1. Undecided(c) /\ ~ShouldCheck(calls[c].req) /\ Found(c, "none", SpamDetected(calls[c].req))
    BY DEF Judge
  <1>2. /\ Flagged(calls[c].req) <=> SpamDetected(calls[c].req)
        /\ SpamDetected(calls[c].req) \in BOOLEAN /\ ~ToBeAsked(calls[c])
    BY <1>1, UndecidedCall
  <1> QED
    BY <1>1, <1>2, FoundStep DEF Answers

(* OpenAI's answer is the verdict ...                                      *)
LEMMA OpenAIAnswersStep ==
    ASSUME DecisionConstants, DecisionInv, NEW c \in Checkers, OpenAIAnswers(c)
    PROVE  DecisionInv'
  <1>1. Undecided(c) /\ calls[c].pc = "asking"
    BY DEF OpenAIAnswers
  <1>2. ToBeAsked(calls[c]) /\ options.veto \in BOOLEAN
    BY <1>1, OptionTypes DEF DecisionInv, AskedByTheBook, TypeOK
  <1>3. CASE Found(c, "spam", TRUE)
    BY <1>1, <1>2, <1>3, FoundStep DEF Answers
  <1>4. CASE Found(c, "ham", FALSE)
    <2>1. Flagged(calls[c].req) => options.veto
      BY <1>2 DEF ToBeAsked, Flagged
    <2> QED BY <1>1, <1>2, <1>4, <2>1, FoundStep DEF Answers
  <1> QED
    BY <1>3, <1>4 DEF OpenAIAnswers

(* ... and its failure is none.                                            *)
LEMMA OpenAIFailsStep ==
    ASSUME DecisionConstants, DecisionInv, NEW c \in Checkers, OpenAIFails(c)
    PROVE  DecisionInv'
  <1>1. Undecided(c) /\ calls[c].pc = "asking"
    BY DEF OpenAIFails
  <1>2. ToBeAsked(calls[c]) /\ TypeOK /\ Numbered
    BY <1>1 DEF DecisionInv, AskedByTheBook
  <1>3. /\ calls[c] \in Calls
        /\ Flagged(calls[c].req) <=> SpamDetected(calls[c].req)
        /\ SpamDetected(calls[c].req) \in BOOLEAN
    BY <1>1, UndecidedCall
  <1>4. CASE ~(calls[c].failures + 1 < RetryCount)
    <2>1. Found(c, "error", SpamDetected(calls[c].req))
      BY <1>4 DEF OpenAIFails
    <2> QED BY <1>1, <1>2, <1>3, <2>1, FoundStep DEF Answers
  <1>5. CASE calls[c].failures + 1 < RetryCount
    <2> DEFINE old == calls[c]
               new == [old EXCEPT !.failures = old.failures + 1]
    <2>1. /\ calls' = [calls EXCEPT ![c] = new]
          /\ UNCHANGED <<options, counts, hamHistory, spamHistory, arrived, clean, pushed>>
      BY <1>5 DEF OpenAIFails
    <2>2. new \in Calls
      <3>1. old \in Calls /\ old.failures + 1 \in 0 .. RetryCount
        BY <1>3, <1>5, CallFields DEF DecisionConstants
      <3> HIDE DEF old
      <3> QED BY <3>1 DEF Calls
    <2>3. /\ new.pc = old.pc /\ new.id = old.id /\ new.req = old.req /\ new.clean = old.clean
          /\ new.answer = old.answer /\ new.context = old.context
      BY <1>3 DEF Calls
    <2> HIDE DEF new
    <2>4. calls'[c] = new /\ \A d \in Checkers : d # c => calls'[d] = calls[d]
      BY <1>2, <2>1 DEF TypeOK
    <2>5. TypeOK' /\ Numbered' /\ Counted' /\ RingsHold'
      <3>1. /\ arrived \in Nat /\ arrived' \in 0 .. MaxMessages /\ arrived' >= arrived
            /\ new.id \in 1 .. arrived'
        BY <1>1, <1>2, <2>1, <2>3 DEF TypeOK, Numbered, DecisionConstants
      <3> QED BY <1>1, <2>1, <2>2, <2>3, <3>1, CallStep
    <2>6. UndecidedByTheBook' /\ VerdictByTheBook' /\ AskedByTheBook'
      <3>1. ~Trusted(calls[c]) /\ calls[c].answer = "none"
        BY <1>1 DEF DecisionInv, UndecidedByTheBook
      <3>2. ~Trusted(calls[c])' /\ ToBeAsked(calls[c])'
        BY <1>2, <2>1, <2>3, <2>4, <3>1 DEF Trusted, ToBeAsked
      <3>3. calls'[c].pc # "done" /\ calls'[c].answer = "none"
        BY <1>1, <2>3, <2>4, <3>1
      <3> QED BY <2>1, <2>4, <3>2, <3>3, OthersByTheBook
    <2> QED BY <2>5, <2>6 DEF DecisionInv
  <1> QED
    BY <1>4, <1>5

(* The latest n elements of a sequence, and those before position k, are   *)
(* of its type.                                                            *)
LEMMA LatestType ==
    ASSUME NEW T, NEW s \in Seq(T), NEW n \in Nat
    PROVE  Latest(s, n) \in Seq(T) /\ (Len(s) > n => SubSeq(s, 1, n) \in Seq(T))
  <1> DEFINE L == Len(s)
  <1>1. L \in Nat /\ \A i \in 1 .. L : s[i] \in T
    BY LenProperties, ElementOfSeq
  <1>2. ASSUME NEW a \in Int, NEW b \in Int, \A i \in a .. b : i \in 1 .. L
        PROVE  SubSeq(s, a, b) \in Seq(T)
    <2>1. \A i \in a .. b : s[i] \in T
      BY <1>1, <1>2
    <2> QED BY <2>1, SubSeqProperties
  <1> HIDE DEF L
  <1>3. L > n => SubSeq(s, 1, n) \in Seq(T)
    <2>1. L > n => 1 \in Int /\ n \in Int /\ \A i \in 1 .. n : i \in 1 .. L
      BY <1>1
    <2> QED BY <1>2, <2>1
  <1>4. L > n => SubSeq(s, L - n + 1, L) \in Seq(T)
    <2>1. L > n => L - n + 1 \in Int /\ L \in Int /\ \A i \in L - n + 1 .. L : i \in 1 .. L
      BY <1>1
    <2> QED BY <1>2, <2>1
  <1> QED
    BY <1>3, <1>4 DEF Latest, L

(* The context for OpenAI is made of messages.                             *)
LEMMA ContextType ==
    ASSUME DecisionConstants, DecisionInv
    PROVE  Context \in Seq(1 .. MaxMessages)
  <1> DEFINE s == pushed.ham
             k == options.openAIHistorySize
             n == Size(hamHistory)
             all == Stored(hamHistory)
  <1>1. /\ s \in Seq(1 .. MaxMessages) /\ k \in Nat /\ n \in Nat /\ hamHistory \in Rings
        /\ Holds(hamHistory, s)
    BY OptionTypes, LenProperties DEF DecisionInv, TypeOK, RingsHold, Size, Rings
  <1>2. all = Latest(s, n)
    BY <1>1, StoredIsLatest
  <1> HIDE DEF s, n, all
  <1>3. all \in Seq(1 .. MaxMessages)
    BY <1>1, <1>2, LatestType
  <1> HIDE DEF k
  <1>4. Len(all) > k => SubSeq(all, 1, k) \in Seq(1 .. MaxMessages)
    BY <1>1, <1>3, LatestType
  <1>5. Last(hamHistory, k) \in Seq(1 .. MaxMessages)
    BY <1>3, <1>4 DEF Last, all
  <1>6. Context \in {Last(hamHistory, k), <<>>}
    BY DEF Context, k
  <1>7. <<>> \in Seq(1 .. MaxMessages)
    OBVIOUS
  <1> QED
    BY <1>5, <1>6, <1>7

(* OpenAI is asked.                                                        *)
LEMMA AskOpenAIStep ==
    ASSUME DecisionConstants, DecisionInv, NEW c \in Checkers, AskOpenAI(c)
    PROVE  DecisionInv'
  <1> DEFINE old == calls[c]
             new == [old EXCEPT !.pc = "asking", !.context = Context]
  <1>1. /\ calls' = [calls EXCEPT ![c] = new]
        /\ UNCHANGED <<options, counts, hamHistory, spamHistory, arrived, clean, pushed>>
        /\ Undecided(c) /\ ~DoneShort(old.req) /\ ShouldCheck(old.req)
    BY DEF AskOpenAI
  <1>2. old \in Calls /\ ToBeAsked(old)
    BY <1>1, UndecidedCall
  <1>3. TypeOK /\ Numbered /\ ~Trusted(calls[c]) /\ calls[c].answer = "none"
    BY <1>1 DEF DecisionInv, UndecidedByTheBook
  <1>4. Context \in Seq(1 .. MaxMessages)
    BY ContextType
  <1>5. new \in Calls
    <2> HIDE DEF old
    <2> QED BY <1>2, <1>4 DEF Calls
  <1>6. /\ new.pc = "asking" /\ new.id = old.id /\ new.req = old.req /\ new.clean = old.clean
        /\ new.answer = old.answer /\ new.context = Context
    BY <1>2 DEF Calls
  <1> HIDE DEF new
  <1>7. calls'[c] = new /\ \A d \in Checkers : d # c => calls'[d] = calls[d]
    BY <1>1, <1>3 DEF TypeOK
  <1>8. TypeOK' /\ Numbered' /\ Counted' /\ RingsHold'
    <2>1. /\ arrived \in Nat /\ arrived' \in 0 .. MaxMessages /\ arrived' >= arrived
          /\ new.id \in 1 .. arrived'
      BY <1>1, <1>3, <1>6 DEF TypeOK, Numbered, DecisionConstants
    <2> QED BY <1>1, <1>5, <1>6, <2>1, CallStep
  <1>9. UndecidedByTheBook' /\ VerdictByTheBook' /\ AskedByTheBook'
    <2>1. ~Trusted(calls[c])' /\ ToBeAsked(calls[c])'
      BY <1>1, <1>2, <1>3, <1>6, <1>7 DEF Trusted, ToBeAsked
    <2>2. calls'[c].pc # "done" /\ calls'[c].answer = "none"
      BY <1>3, <1>6, <1>7
    <2> QED BY <1>1, <1>7, <2>1, <2>2, OthersByTheBook
  <1> QED
    BY <1>8, <1>9 DEF DecisionInv

(* The caller takes the result.                                            *)
LEMMA LeaveStep ==
    ASSUME DecisionConstants, DecisionInv, NEW c \in Checkers, Leave(c)
    PROVE  DecisionInv'
  <1>1. /\ calls' = [calls EXCEPT ![c] = NoCall]
        /\ UNCHANGED <<options, counts, hamHistory, spamHistory, arrived, clean, pushed>>
    BY DEF Leave
  <1>2. TypeOK
    BY DEF DecisionInv
  <1>3. NoCall.pc = "idle"
    BY DEF NoCall
  <1>4. calls'[c] = NoCall /\ \A d \in Checkers : d # c => calls'[d] = calls[d]
    BY <1>1, <1>2 DEF TypeOK
  <1>5. TypeOK' /\ Numbered' /\ Counted' /\ RingsHold'
    <2>1. arrived' \in 0 .. MaxMessages /\ arrived' >= arrived
      BY <1>1, <1>2 DEF TypeOK, DecisionConstants
    <2> QED BY <1>1, <1>3, <2>1, CallStep
  <1>6. UndecidedByTheBook' /\ VerdictByTheBook' /\ AskedByTheBook'
    BY <1>1, <1>3, <1>4, OthersByTheBook
  <1> QED
    BY <1>5, <1>6 DEF DecisionInv

(* A step of Next, or one that changes nothing.                            *)
LEMMA DecisionStep ==
    ASSUME DecisionConstants, DecisionInv, [Next]_vars
    PROVE  DecisionInv'
  <1>1. CASE Next
    <2>1. PICK c \in Checkers : Check(c)
      BY <1>1 DEF Next
    <2> QED
      BY <2>1, EnterStep, ReturnShortStep, JudgeStep, AskOpenAIStep, OpenAIAnswersStep,
         OpenAIFailsStep, LeaveStep DEF Check
  <1>2. CASE UNCHANGED vars
    BY <1>2 DEF vars, DecisionInv, TypeOK, Numbered, Counted, RingsHold, Holds, UndecidedByTheBook,
                VerdictByTheBook, AskedByTheBook, Trusted, RightVerdict, ToBeAsked, Size
  <1> QED
    BY <1>1, <1>2

(* The invariant holds when the bot starts.                                *)
LEMMA DecisionStart ==
    ASSUME DecisionConstants, Init
    PROVE  DecisionInv
  <1>1. /\ options \in Options /\ options.historySize \in Nat /\ MaxMessages \in Nat
    BY OptionTypes DEF Init, DecisionConstants
  <1>2. /\ hamHistory = NewLastRequests(options.historySize)
        /\ spamHistory = NewLastRequests(options.historySize)
        /\ pushed.ham = <<>> /\ pushed.spam = <<>>
        /\ \A c \in Checkers : calls[c] = NoCall /\ calls[c].pc = "idle"
    BY DEF Init, NoCall
  <1>3. /\ Holds(hamHistory, pushed.ham) /\ Holds(spamHistory, pushed.spam)
        /\ \A ring \in {hamHistory, spamHistory} : ring \in Rings /\ ring.next \in DOMAIN ring.slots
    BY <1>1, <1>2, NewRing
  <1>4. TypeOK
    BY <1>1, <1>2, <1>3 DEF Init, TypeOK
  <1>5. Counted
    BY <1>2 DEF Init, Counted
  <1> QED
    BY <1>2, <1>3, <1>4, <1>5 DEF DecisionInv, Numbered, RingsHold, UndecidedByTheBook,
                                  VerdictByTheBook, AskedByTheBook

----------------------------------------------------------------------------
(* The theorems.                                                           *)

(* The invariant holds always.                                             *)
LEMMA DecisionAlways == Spec => []DecisionInv
  <1>1. Init => DecisionInv
    BY DecisionConstants, DecisionStart
  <1>2. DecisionInv /\ [Next]_vars => DecisionInv'
    BY DecisionConstants, DecisionStep
  <1> QED
    BY <1>1, <1>2, PTL DEF Spec

(* Every variable keeps its type: a count is at most the number of the     *)
(* messages that arrived, and a slot to be written next is in its ring.    *)
THEOREM TypeCorrect == Spec => []TypeOK
  <1>1. DecisionInv => TypeOK
    BY DEF DecisionInv
  <1> QED
    BY <1>1, DecisionAlways, PTL

(* A verdict is what the options, the checks and OpenAI's answer call for, *)
(* for every command line and however the goroutines overlap.              *)
THEOREM RightVerdicts == Spec => []VerdictByTheBook
  <1>1. DecisionInv => VerdictByTheBook
    BY DEF DecisionInv
  <1> QED
    BY <1>1, DecisionAlways, PTL

(* OpenAI is asked about the messages it is to be asked about, no others.  *)
THEOREM RightlyAsked == Spec => []AskedByTheBook
  <1>1. DecisionInv => AskedByTheBook
    BY DEF DecisionInv
  <1> QED
    BY <1>1, DecisionAlways, PTL

(* The histories hold the latest messages of their verdicts, in order.     *)
THEOREM HistoriesLatest == Spec => []HistoryLatest
  <1>1. DecisionInv => HistoryLatest
    BY DecisionConstants, StoredIsLatest DEF DecisionInv, TypeOK, RingsHold, HistoryLatest
  <1> QED
    BY <1>1, DecisionAlways, PTL
=============================================================================
