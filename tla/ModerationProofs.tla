-------------------------- MODULE ModerationProofs --------------------------
(***************************************************************************)
(* Proofs about Moderation, for every set of users, texts and modes and    *)
(* every bound: the types, that the locator leads to the right message,    *)
(* that decisions are carried out or seen to fail, that a ban by the bot   *)
(* can be appealed, and that all of it implements Standing.                *)
(*                                                                         *)
(* ModerationInv is inductive.  Its heart is HandlerSound: every call a    *)
(* handler has still to make follows from the latest decision about its    *)
(* user, and all the calls are about one user, so that a failure ends      *)
(* nobody else's business.                                                 *)
(***************************************************************************)
EXTENDS Moderation, SubsequenceProofs

USE DEF Idle, At, next, clicked, notice, Anonymous, SuperUsers, trust, tables, admin, history

Ops == {"disapprove", "approve", "learn", "unban", "delete", "ban", "report", "clear", "cleanup"}
Hows == {"restrict", "ban", "confirmed"}

(* What is in a call.                                                      *)
LEMMA CallFields ==
    ASSUME NEW c \in Calls
    PROVE  /\ c.op \in Ops
           /\ c.op # "delete" => c.user \in Users
           /\ c.op = "ban" => c.how \in Hows
           /\ c.op \in {"delete", "report", "cleanup"} => c.msg \in Nat
           /\ c.op = "report" => c.text \in Texts
           /\ c.op = "clear" => c.note \in Nat
  BY DEF Calls, Ops, Hows

LEMMA CallsMade ==
    ASSUME NEW u \in Users
    PROVE  /\ Disapprove(u) \in Calls /\ Approve(u) \in Calls /\ Learn(u) \in Calls /\ Unban(u) \in Calls
           /\ \A how \in Hows : Ban(u, how) \in Calls
           /\ \A m \in Nat : Delete(m) \in Calls /\ Cleanup(u, m) \in Calls
           /\ \A m \in Nat, t \in Texts : ReportBan(u, m, t) \in Calls
           /\ \A n \in Nat : notices[n].user = u => Clear(n) \in Calls
  <1>1. Disapprove(u) \in Calls /\ Approve(u) \in Calls /\ Learn(u) \in Calls /\ Unban(u) \in Calls
    BY DEF Calls, Disapprove, Approve, Learn, Unban
  <1>2. \A how \in Hows : Ban(u, how) \in Calls
    BY DEF Calls, Ban, Hows
  <1>3. \A m \in Nat : Delete(m) \in Calls /\ Cleanup(u, m) \in Calls
    BY DEF Calls, Delete, Cleanup
  <1>4. \A m \in Nat, t \in Texts : ReportBan(u, m, t) \in Calls
    BY DEF Calls, ReportBan
  <1>5. \A n \in Nat : notices[n].user = u => Clear(n) \in Calls
    BY DEF Calls, Clear
  <1> QED
    BY <1>1, <1>2, <1>3, <1>4, <1>5

----------------------------------------------------------------------------
(* Lists of calls.                                                         *)

(* A list holds an element.                                                *)
Has(s, c) == \E i \in DOMAIN s : s[i] = c

LEMMA Joined ==
    ASSUME NEW S, NEW s \in Seq(S), NEW t \in Seq(S)
    PROVE  /\ s \o t \in Seq(S)
           /\ \A i \in DOMAIN s : i \in DOMAIN (s \o t) /\ (s \o t)[i] = s[i]
           /\ \A c : Has(s, c) \/ Has(t, c) => Has(s \o t, c)
           /\ \A i \in DOMAIN (s \o t) : i \notin DOMAIN s => i > Len(s) /\ Has(t, (s \o t)[i])
  <1> DEFINE r == s \o t
  <1>1. /\ r \in Seq(S) /\ Len(r) = Len(s) + Len(t)
        /\ \A i \in 1 .. Len(s) + Len(t) : r[i] = IF i <= Len(s) THEN s[i] ELSE t[i - Len(s)]
    BY ConcatProperties
  <1>2. Len(s) \in Nat /\ Len(t) \in Nat /\ DOMAIN s = 1 .. Len(s) /\ DOMAIN t = 1 .. Len(t)
    BY LenProperties
  <1> HIDE DEF r
  <1>3. DOMAIN r = 1 .. Len(s) + Len(t)
    BY <1>1, LenProperties
  <1>4. \A i \in DOMAIN s : i \in DOMAIN r /\ r[i] = s[i]
    BY <1>1, <1>2, <1>3
  <1>5. \A i \in DOMAIN t : Len(s) + i \in DOMAIN r /\ r[Len(s) + i] = t[i]
    <2> SUFFICES ASSUME NEW i \in DOMAIN t
                 PROVE  Len(s) + i \in DOMAIN r /\ r[Len(s) + i] = t[i]
      OBVIOUS
    <2>1. i \in 1 .. Len(t)
      BY <1>2
    <2>2. Len(s) + i \in 1 .. Len(s) + Len(t) /\ ~(Len(s) + i <= Len(s)) /\ Len(s) + i - Len(s) = i
      BY <1>2, <2>1
    <2> QED BY <1>1, <1>3, <2>2
  <1>6. \A c : Has(s, c) \/ Has(t, c) => Has(r, c)
    BY <1>4, <1>5 DEF Has
  <1>7. \A i \in DOMAIN r : i \notin DOMAIN s => i > Len(s) /\ Has(t, r[i])
    <2> SUFFICES ASSUME NEW i \in DOMAIN r, i \notin DOMAIN s
                 PROVE  i > Len(s) /\ Has(t, r[i])
      OBVIOUS
    <2>1. i \in 1 .. Len(s) + Len(t) /\ i > Len(s)
      BY <1>2, <1>3
    <2>2. i - Len(s) \in 1 .. Len(t) /\ r[i] = t[i - Len(s)]
      BY <1>1, <1>2, <2>1
    <2> QED BY <1>2, <2>1, <2>2 DEF Has
  <1> QED
    BY <1>1, <1>4, <1>6, <1>7 DEF r

LEMMA OneOrMore ==
    ASSUME NEW S, NEW a \in S, NEW b \in S
    PROVE  /\ <<a>> \in Seq(S) /\ Has(<<a>>, a) /\ 1 \in DOMAIN <<a>> /\ <<a>>[1] = a
           /\ Len(<<a>>) = 1
           /\ <<a, b>> \in Seq(S) /\ Has(<<a, b>>, a) /\ Has(<<a, b>>, b)
           /\ 1 \in DOMAIN <<a, b>> /\ <<a, b>>[1] = a
           /\ <<>> \in Seq(S)
  BY DEF Has

LEMMA One ==
    ASSUME NEW S, NEW a \in S
    PROVE  <<a>> \in Seq(S) /\ Has(<<a>>, a)
  BY OneOrMore

LEMMA Optional ==
    ASSUME NEW S, NEW s \in Seq(S), NEW condition \in BOOLEAN
    PROVE  /\ When(condition, s) \in Seq(S)
           /\ \A c : condition /\ Has(s, c) => Has(When(condition, s), c)
  BY DEF When

(* A list of elements of a smaller set is one of the larger.               *)
LEMMA Wider ==
    ASSUME NEW S, NEW T, S \subseteq T, NEW s \in Seq(S)
    PROVE  s \in Seq(T) /\ \A i \in DOMAIN s : s[i] \in S
  <1>1. Len(s) \in Nat /\ s \in [1 .. Len(s) -> S] /\ DOMAIN s = 1 .. Len(s)
    BY LenProperties
  <1>2. s \in [1 .. Len(s) -> T]
    BY <1>1
  <1> QED
    BY <1>1, <1>2

(* The list that SetToSeq makes of a finite set.                           *)
LEMMA Listed ==
    ASSUME NEW S, IsFiniteSet(S)
    PROVE  SetToSeq(S) \in Seq(S)
  <1>1. PICK n \in Nat : ExistsBijection(1 .. n, S)
    BY FS_NatBijection
  <1>2. Cardinality(S) = n
    BY <1>1, FS_CountingElements
  <1>3. \E f \in [1 .. Cardinality(S) -> S] : IsInjective(f)
    BY <1>1, <1>2 DEF ExistsBijection, Bijection, Injection, IsInjective
  <1>4. SetToSeq(S) \in [1 .. Cardinality(S) -> S]
    BY <1>3 DEF SetToSeq
  <1> QED
    BY <1>2, <1>4

----------------------------------------------------------------------------
(* How a handler begins, goes on and stops.                                *)

LEMMA NothingPending ==
    ASSUME todo = <<>>
    PROVE  \A u : ~PendingBan(u) /\ \A op : ~Pending(op, u)
  BY DEF Pending, PendingBan

(* A new handler is sound when its calls follow from the decision made.    *)
LEMMA HandlerBegins ==
    ASSUME ModerationInv, todo = <<>>, NEW u \in Users, NEW what \in Verdicts, Decide(u, what),
           NEW C \in SUBSET Calls, todo' \in Seq(C),
           \A c \in C : c.op # "delete" => c.user = u /\ Justified(c)', mode' = mode,
           what = "auto" =>
               \A i \in DOMAIN todo' : todo'[i].op = "ban" => i = 1 /\ Pending("report", u)',
           what = "unban" /\ status'[u] # "free" /\ ~mode.training =>
               \A i \in DOMAIN todo' :
                   todo'[i].op = "clear" => \E j \in DOMAIN todo' : j < i /\ todo'[j].op = "unban"
    PROVE  todo' \in Seq(Calls) /\ HandlerSound'
  <1>1. todo' \in Seq(Calls) /\ \A i \in DOMAIN todo' : todo'[i] \in C
    BY Wider
  <1>2. \A i \in DOMAIN todo' : todo'[i].op # "delete" => todo'[i].user = u /\ Justified(todo[i])'
    <2> SUFFICES ASSUME NEW i \in DOMAIN todo', todo'[i].op # "delete"
                 PROVE  todo'[i].user = u /\ Justified(todo[i])'
      OBVIOUS
    <2>1. PICK c \in C : c = todo'[i]
      BY <1>1
    <2>2. c.op # "delete" => c.user = u /\ Justified(c)'
      OBVIOUS
    <2> QED BY <2>1, <2>2 DEF Justified
  <1>3. verdict'[u] = what
    BY DEF Decide, ModerationInv, TypeOK
  <1>4. \A i, j \in DOMAIN todo' :
            todo'[i].op # "delete" /\ todo'[j].op # "delete" => todo'[i].user = todo'[j].user
    BY <1>2
  <1>5. \A i \in DOMAIN todo' : todo'[i].op \in {"ban", "clear"} => todo'[i].user = u
    BY <1>2
  <1>6. \A i \in DOMAIN todo' :
            todo'[i].op = "ban" /\ verdict'[todo'[i].user] = "auto" => i = 1 /\ Pending("report", todo[i].user)'
    <2> SUFFICES ASSUME NEW i \in DOMAIN todo', todo'[i].op = "ban", verdict'[todo'[i].user] = "auto"
                 PROVE  i = 1 /\ Pending("report", todo[i].user)'
      OBVIOUS
    <2>1. todo'[i].user = u
      BY <1>5
    <2>2. i = 1 /\ Pending("report", u)'
      BY <1>3, <2>1
    <2> QED BY <2>1, <2>2 DEF Pending
  <1>7. \A i \in DOMAIN todo' :
            todo'[i].op = "clear" /\ verdict'[todo'[i].user] = "unban" =>
                \/ status'[todo'[i].user] = "free" \/ mode'.training
                \/ \E j \in DOMAIN todo' : j < i /\ todo'[j].op = "unban"
    BY <1>3, <1>5
  <1> QED
    BY <1>1, <1>2, <1>4, <1>6, <1>7 DEF HandlerSound

(* A user's trust changes only as the latest decision allows.               *)
KeptTrust(w) ==
    /\ w \in approved \intersect approvedRows => w \in approved' \intersect approvedRows'
    /\ verdict[w] = "ban" /\ w \in approved' \union approvedRows' =>
        w \in approved \union approvedRows \union redeemed'
    /\ w \in redeemed => w \in redeemed'

LEMMA TrustSame ==
    ASSUME UNCHANGED trust, NEW w, w \in redeemed => w \in redeemed'
    PROVE  KeptTrust(w)
  BY DEF KeptTrust

(* Whom the present handler is not about has nothing pending: what was     *)
(* decided about that user holds already, and goes on to hold.             *)
LEMMA Undisturbed ==
    ASSUME ModerationInv, NEW w \in Users,
           \A i \in DOMAIN todo : todo[i].op # "delete" => todo[i].user # w,
           mode' = mode, verdict'[w] = verdict[w], status'[w] = status[w],
           KeptTrust(w),
           w \in failed => w \in failed',
           Appealable(w) => Appealable(w)'
    PROVE  /\ w \notin failed' => DecisionUnderWay(w)'
           /\ SanctionDecided(w)' /\ AppealUnderWay(w)'
  <1>1. ~PendingBan(w) /\ ~Pending("approve", w) /\ ~Pending("unban", w) /\ ~Pending("disapprove", w)
        /\ ~Pending("report", w)
    BY DEF Pending, PendingBan
  <1>2. SanctionDecided(w) /\ AppealUnderWay(w) /\ (w \notin failed => DecisionUnderWay(w))
    BY DEF ModerationInv
  <1>3. SanctionDecided(w)'
    BY <1>2 DEF SanctionDecided
  <1>4. AppealUnderWay(w)'
    BY <1>1, <1>2 DEF AppealUnderWay
  <1>5. w \notin failed' => DecisionUnderWay(w)'
    BY <1>1, <1>2 DEF DecisionUnderWay, KeptTrust
  <1> QED
    BY <1>3, <1>4, <1>5

(* The first call is taken from the list.                                  *)
LEMMA CallTaken ==
    ASSUME ModerationInv, todo # <<>>
    PROVE  /\ next \in Calls /\ 1 \in DOMAIN todo /\ todo[1] = next
           /\ Tail(todo) \in Seq(Calls)
           /\ next.op # "delete" => next.user \in Users /\ Justified(next)
           /\ \A i \in DOMAIN Tail(todo) :
                i \in Nat /\ i + 1 \in DOMAIN todo /\ i + 1 # 1 /\ Tail(todo)[i] = todo[i + 1]
           /\ \A i \in DOMAIN todo : i = 1 \/ (i - 1 \in DOMAIN Tail(todo) /\ Tail(todo)[i - 1] = todo[i])
  <1>1. todo \in Seq(Calls)
    BY DEF ModerationInv, TypeOK
  <1>2. /\ next \in Calls /\ Tail(todo) \in Seq(Calls)
        /\ Len(Tail(todo)) = Len(todo) - 1 /\ Len(todo) \in Nat /\ Len(todo) > 0
        /\ \A i \in 1 .. Len(Tail(todo)) : Tail(todo)[i] = todo[i + 1]
    BY <1>1, HeadTailProperties, EmptySeq, LenProperties
  <1>3. DOMAIN todo = 1 .. Len(todo) /\ DOMAIN Tail(todo) = 1 .. Len(todo) - 1
    BY <1>1, <1>2, LenProperties
  <1>4. 1 \in DOMAIN todo /\ todo[1] = next
    BY <1>1, <1>2, <1>3
  <1>5. \A i \in DOMAIN Tail(todo) :
            i \in Nat /\ i + 1 \in DOMAIN todo /\ i + 1 # 1 /\ Tail(todo)[i] = todo[i + 1]
    BY <1>2, <1>3
  <1>6. \A i \in DOMAIN todo : i = 1 \/ (i - 1 \in DOMAIN Tail(todo) /\ Tail(todo)[i - 1] = todo[i])
    <2> SUFFICES ASSUME NEW i \in 1 .. Len(todo), i # 1
                 PROVE  i - 1 \in 1 .. Len(todo) - 1 /\ Tail(todo)[i - 1] = todo[i]
      BY <1>3
    <2>1. i - 1 \in 1 .. Len(todo) - 1 /\ i - 1 + 1 = i
      BY <1>2
    <2> QED BY <1>2, <2>1
  <1>7. next.op # "delete" => next.user \in Users
    BY <1>2, CallFields
  <1>8. next.op # "delete" => Justified(next)
    BY <1>4 DEF ModerationInv, HandlerSound
  <1> QED
    BY <1>2, <1>4, <1>5, <1>6, <1>7, <1>8

(* What is pending after the first call was made.                          *)
LEMMA StillPending ==
    ASSUME ModerationInv, todo # <<>>, todo' = Tail(todo), mode' = mode
    PROVE  /\ \A op, w : Pending(op, w) => Pending(op, w)' \/ (next.op = op /\ next.user = w)
           /\ \A w : PendingBan(w) =>
                \/ PendingBan(w)'
                \/ /\ next.op = "ban" /\ next.user = w /\ next.how # "restrict"
                   /\ mode.training => next.how = "confirmed"
  <1>1. /\ todo[1] = next
        /\ \A i \in DOMAIN todo : i = 1 \/ (i - 1 \in DOMAIN todo' /\ todo'[i - 1] = todo[i])
    BY CallTaken
  <1>2. \A i \in DOMAIN todo : todo[i] = next \/ \E j \in DOMAIN todo' : todo'[j] = todo[i]
    BY <1>1
  <1>3. \A op, w : Pending(op, w) => Pending(op, w)' \/ (next.op = op /\ next.user = w)
    BY <1>2 DEF Pending
  <1>4. ASSUME NEW w, PendingBan(w)
        PROVE  \/ PendingBan(w)'
               \/ /\ next.op = "ban" /\ next.user = w /\ next.how # "restrict"
                  /\ mode.training => next.how = "confirmed"
    BY <1>2, <1>4 DEF PendingBan
  <1> QED
    BY <1>3, <1>4

(* The rest of a handler is sound.                                         *)
LEMMA HandlerGoesOn ==
    ASSUME ModerationInv, todo # <<>>, todo' = Tail(todo), mode' = mode, verdict' = verdict,
           \A n \in DOMAIN notices : n \in DOMAIN notices' /\ notices'[n].user = notices[n].user,
           \A w \in Users : status'[w] = status[w] \/ (next.op \in {"ban", "unban"} /\ next.user = w),
           next.op = "unban" => status'[next.user] = "free"
    PROVE  HandlerSound'
  <1>1. /\ next \in Calls /\ 1 \in DOMAIN todo /\ todo[1] = next /\ todo \in Seq(Calls)
        /\ \A i \in DOMAIN todo' : i \in Nat /\ i + 1 \in DOMAIN todo /\ i + 1 # 1 /\ todo'[i] = todo[i + 1]
        /\ \A i \in DOMAIN todo : i = 1 \/ (i - 1 \in DOMAIN todo' /\ todo'[i - 1] = todo[i])
    BY CallTaken DEF ModerationInv, TypeOK
  <1>2. HandlerSound
    BY DEF ModerationInv
  <1>3. ASSUME NEW i \in DOMAIN todo', todo'[i].op # "delete"
        PROVE  Justified(todo[i])'
    <2>1. PICK k \in DOMAIN todo : k # 1 /\ todo'[i] = todo[k]
      BY <1>1
    <2>2. Justified(todo[k])
      BY <1>2, <1>3, <2>1 DEF HandlerSound
    <2>3. todo[k].op = "ban" => verdict[todo[k].user] # "auto"
      BY <1>2, <2>1 DEF HandlerSound
    <2> QED BY <2>1, <2>2, <2>3 DEF Justified
  <1>4. \A i, j \in DOMAIN todo' :
            todo'[i].op # "delete" /\ todo'[j].op # "delete" => todo'[i].user = todo'[j].user
    BY <1>1, <1>2 DEF HandlerSound
  <1>5. \A i \in DOMAIN todo' : ~(todo'[i].op = "ban" /\ verdict'[todo'[i].user] = "auto")
    BY <1>1, <1>2 DEF HandlerSound
  <1>6. ASSUME NEW i \in DOMAIN todo', todo'[i].op = "clear", verdict'[todo'[i].user] = "unban",
               ~mode'.training
        PROVE  status'[todo'[i].user] = "free" \/ \E j \in DOMAIN todo' : j < i /\ todo'[j].op = "unban"
    <2>1. i \in Nat /\ i + 1 \in DOMAIN todo /\ todo'[i] = todo[i + 1]
      BY <1>1
    <2> DEFINE u == todo[i + 1].user
    <2>2. u \in Users
      <3>1. todo[i + 1] \in Calls
        BY <1>1, <2>1
      <3> QED BY <1>6, <2>1, <3>1, CallFields
    <2>3. status[u] = "free" \/ \E j \in DOMAIN todo : j < i + 1 /\ todo[j].op = "unban"
      BY <1>2, <1>6, <2>1 DEF HandlerSound
    <2>4. next.op # "delete" => next.user = u
      BY <1>1, <1>2, <1>6, <2>1 DEF HandlerSound
    <2>5. next.op # "ban"
      BY <1>1, <1>2, <1>6, <2>1, <2>4 DEF HandlerSound, Justified
    <2>6. CASE status[u] = "free"
      BY <2>1, <2>2, <2>5, <2>6
    <2>7. ASSUME NEW j \in DOMAIN todo, j < i + 1, todo[j].op = "unban"
          PROVE  status'[u] = "free" \/ \E k \in DOMAIN todo' : k < i /\ todo'[k].op = "unban"
      <3>1. CASE j = 1
        BY <1>1, <2>4, <2>7, <3>1
      <3>2. CASE j # 1
        <4>1. j - 1 \in DOMAIN todo' /\ todo'[j - 1] = todo[j]
          BY <1>1, <3>2
        <4>2. j - 1 < i
          <5>1. j \in Nat
            BY <1>1, LenProperties
          <5> QED BY <2>1, <2>7, <5>1
        <4> QED BY <2>7, <4>1, <4>2
      <3> QED BY <3>1, <3>2
    <2> QED BY <2>1, <2>3, <2>6, <2>7
  <1> QED
    BY <1>3, <1>4, <1>5, <1>6 DEF HandlerSound

(* A handler that stops has failed before the admins' eyes.                *)
LEMMA HandlerStops ==
    ASSUME ModerationInv, todo # <<>>, next.op # "delete", todo' = <<>>,
           failed' = failed \union {next.user},
           mode' = mode, verdict' = verdict, status' = status,
           \A w \in Users : w # next.user => KeptTrust(w),
           \A w \in Users : Appealable(w) => Appealable(w)'
    PROVE  /\ HandlerSound'
           /\ \A w \in Users : SanctionDecided(w)' /\ AppealUnderWay(w)'
           /\ \A w \in Users \ failed' : DecisionUnderWay(w)'
  <1>1. HandlerSound'
    BY DEF HandlerSound
  <1>2. 1 \in DOMAIN todo /\ todo[1] = next
    BY CallTaken
  <1>3. \A i \in DOMAIN todo : todo[i].op # "delete" => todo[i].user = next.user
    BY <1>2 DEF ModerationInv, HandlerSound
  <1>4. ASSUME NEW w \in Users, w # next.user
        PROVE  (w \notin failed' => DecisionUnderWay(w)') /\ SanctionDecided(w)' /\ AppealUnderWay(w)'
    BY <1>3, <1>4, Undisturbed
  <1>5. ASSUME NEW w \in Users, w = next.user
        PROVE  w \in failed' /\ SanctionDecided(w)' /\ AppealUnderWay(w)'
    <2>1. SanctionDecided(w) /\ AppealUnderWay(w)
      BY DEF ModerationInv
    <2> QED BY <1>5, <2>1 DEF SanctionDecided, AppealUnderWay
  <1> QED
    BY <1>1, <1>4, <1>5

(* What is decided about the user a new handler is for begins to be done.  *)
LEMMA HandlerStarts ==
    ASSUME ModerationInv, todo = <<>>, NEW u \in Users, NEW what \in Verdicts, Decide(u, what),
           NEW C \in SUBSET Calls, todo' \in Seq(C),
           \A c \in C : c.op # "delete" => c.user = u /\ Justified(c)',
           what = "auto" =>
               \A i \in DOMAIN todo' : todo'[i].op = "ban" => i = 1 /\ Pending("report", u)',
           what = "unban" /\ status'[u] # "free" /\ ~mode.training =>
               \A i \in DOMAIN todo' :
                   todo'[i].op = "clear" => \E j \in DOMAIN todo' : j < i /\ todo'[j].op = "unban",
           UNCHANGED <<mode, status, notices, trust>>,
           SanctionDecided(u)', AppealUnderWay(u)', DecisionUnderWay(u)'
    PROVE  /\ todo' \in Seq(Calls) /\ HandlerSound'
           /\ verdict' \in [Users -> Verdicts] /\ failed' \in SUBSET Users /\ redeemed' \in SUBSET Users
           /\ \A w \in Users : SanctionDecided(w)' /\ AppealUnderWay(w)'
           /\ \A w \in Users \ failed' : DecisionUnderWay(w)'
  <1>1. todo' \in Seq(Calls) /\ HandlerSound'
    BY HandlerBegins
  <1>2. /\ verdict' \in [Users -> Verdicts] /\ failed' \in SUBSET Users /\ redeemed' \in SUBSET Users
        /\ \A w \in Users : w # u => /\ verdict'[w] = verdict[w]
                                     /\ w \in failed => w \in failed'
                                     /\ w \in redeemed => w \in redeemed'
    BY DEF Decide, ModerationInv, TypeOK
  <1>3. ASSUME NEW w \in Users, w # u
        PROVE  (w \notin failed' => DecisionUnderWay(w)') /\ SanctionDecided(w)' /\ AppealUnderWay(w)'
    <2>1. Appealable(w) => Appealable(w)'
      BY DEF Appealable
    <2>2. KeptTrust(w)
      BY <1>2, <1>3, TrustSame
    <2> QED BY <1>2, <1>3, <2>1, <2>2, Undisturbed
  <1>4. \A w \in Users : SanctionDecided(w)' /\ AppealUnderWay(w)'
    <2> SUFFICES ASSUME NEW w \in Users
                 PROVE  SanctionDecided(w)' /\ AppealUnderWay(w)'
      OBVIOUS
    <2>1. CASE w = u
      BY <2>1 DEF SanctionDecided, AppealUnderWay, Appealable, Pending
    <2> QED BY <1>3, <2>1
  <1>5. \A w \in Users \ failed' : DecisionUnderWay(w)'
    <2> SUFFICES ASSUME NEW w \in Users \ failed'
                 PROVE  DecisionUnderWay(w)'
      OBVIOUS
    <2>1. CASE w = u
      BY <2>1 DEF DecisionUnderWay, Pending, PendingBan
    <2> QED BY <1>3, <2>1
  <1> QED
    BY <1>1, <1>2, <1>4, <1>5

(* Reports in the admin chat are neither lost nor given another user.      *)
NoticesKept ==
    \A n \in DOMAIN notices : n \in DOMAIN notices' /\ notices'[n].user = notices[n].user

(* A step of nobody's decision and of no call.                             *)
LEMMA StandingGoesOn ==
    ASSUME ModerationInv, UNCHANGED <<mode, status, todo, verdict>>,
           failed \subseteq failed', NoticesKept, \A w : Appealable(w) => Appealable(w)',
           \A w \in Users : KeptTrust(w)
    PROVE  /\ HandlerSound'
           /\ \A w \in Users : SanctionDecided(w)' /\ AppealUnderWay(w)'
           /\ \A w \in Users \ failed' : DecisionUnderWay(w)'
  <1>1. HandlerSound'
    <2>1. HandlerSound
      BY DEF ModerationInv
    <2>2. \A i \in DOMAIN todo : todo[i].op # "delete" => Justified(todo[i])'
      BY <2>1 DEF HandlerSound, Justified, NoticesKept
    <2>3. \A u : Pending("report", u) => Pending("report", u)'
      BY DEF Pending
    <2> QED BY <2>1, <2>2, <2>3 DEF HandlerSound
  <1>2. ASSUME NEW w \in Users
        PROVE  (w \notin failed' => DecisionUnderWay(w)') /\ SanctionDecided(w)' /\ AppealUnderWay(w)'
    <2>1. SanctionDecided(w) /\ AppealUnderWay(w) /\ (w \notin failed => DecisionUnderWay(w))
      BY DEF ModerationInv
    <2>2. /\ \A op : Pending(op, w) => Pending(op, w)'
          /\ PendingBan(w) => PendingBan(w)'
      BY DEF Pending, PendingBan
    <2>3. SanctionDecided(w)'
      BY <2>1 DEF SanctionDecided
    <2>4. AppealUnderWay(w)'
      BY <2>1, <2>2 DEF AppealUnderWay
    <2>5. w \notin failed' => DecisionUnderWay(w)'
      BY <2>1, <2>2 DEF DecisionUnderWay, KeptTrust
    <2> QED BY <2>3, <2>4, <2>5
  <1> QED
    BY <1>1, <1>2

LEMMA StandingStays ==
    ASSUME ModerationInv, UNCHANGED <<mode, status, trust, todo, verdict, redeemed>>,
           failed \subseteq failed', NoticesKept, \A w : Appealable(w) => Appealable(w)'
    PROVE  /\ HandlerSound' /\ AnonymousSpared'
           /\ \A w \in Users : SanctionDecided(w)' /\ AppealUnderWay(w)'
           /\ \A w \in Users \ failed' : DecisionUnderWay(w)'
  <1>1. \A w \in Users : KeptTrust(w)
    BY TrustSame
  <1>2. AnonymousSpared'
    BY DEF ModerationInv, AnonymousSpared
  <1> QED
    BY <1>1, <1>2, StandingGoesOn

(* Messages stay, with their authors and all they have said.               *)
MessagesKept ==
    \A m \in DOMAIN messages : /\ m \in DOMAIN messages'
                               /\ messages'[m].from = messages[m].from
                               /\ messages[m].said \subseteq messages'[m].said

LEMMA RowsStay ==
    ASSUME ModerationInv, MessagesKept,
           \A i \in DOMAIN located' :
                \/ \E j \in DOMAIN located : /\ located'[i].key = located[j].key
                                             /\ located'[i].user = located[j].user
                                             /\ located'[i].id = located[j].id
                \/ located'[i].key \in Texts =>
                       /\ located'[i].id \in DOMAIN messages'
                       /\ messages'[located'[i].id].from = located'[i].user
                       /\ located'[i].key \in messages'[located'[i].id].said
    PROVE  LocatorConsistent' /\ RowsKnown'
  <1>1. \A j \in DOMAIN located : located[j].key \in Texts =>
            /\ located[j].id \in DOMAIN messages
            /\ messages[located[j].id].from = located[j].user
            /\ located[j].key \in messages[located[j].id].said
    BY DEF ModerationInv, LocatorConsistent, RowsKnown
  <1>2. \A i \in DOMAIN located' : located'[i].key \in Texts =>
            /\ located'[i].id \in DOMAIN messages'
            /\ messages'[located'[i].id].from = located'[i].user
            /\ located'[i].key \in messages'[located'[i].id].said
    BY <1>1 DEF MessagesKept
  <1> QED
    BY <1>2 DEF LocatorConsistent, RowsKnown

(* What AddMessage puts into the table.                                    *)
LEMMA AddMessageEffect ==
    ASSUME ModerationInv, NEW row \in RowSet, AddMessage(row)
    PROVE  /\ located' \in Seq(RowSet)
           /\ \A i \in DOMAIN located' :
                located'[i] = row \/ \E j \in DOMAIN located : located'[i] = located[j]
  <1> DEFINE others == Without(row.key)
             more == Append(others, row)
  <1>1. located \in Seq(RowSet) /\ DOMAIN located = 1 .. Len(located)
    BY LenProperties DEF ModerationInv, TypeOK
  <1>2. /\ others \in Seq(RowSet)
        /\ \A i \in DOMAIN others : \E j \in DOMAIN located : others[i] = located[j]
    <2> DEFINE I == {i \in DOMAIN located : located[i].key # row.key}
    <2>1. I \in SUBSET (1 .. Len(located)) /\ I \subseteq DOMAIN located
      BY <1>1
    <2>2. others = Keep(located, I)
      BY DEF Without
    <2> HIDE DEF I, others
    <2> QED BY <1>1, <2>1, <2>2, KeepElements
  <1> HIDE DEF others
  <1>3. /\ more \in Seq(RowSet) /\ Len(others) \in Nat /\ Len(more) = Len(others) + 1
        /\ \A i \in 1 .. Len(others) : more[i] = others[i]
        /\ more[Len(others) + 1] = row
        /\ DOMAIN others = 1 .. Len(others)
    BY <1>2, AppendProperties, LenProperties
  <1> HIDE DEF more
  <1>4. \A i \in DOMAIN more : more[i] = row \/ \E j \in DOMAIN located : more[i] = located[j]
    <2>1. \A i \in DOMAIN more : i \in 1 .. Len(others) \/ i = Len(others) + 1
      BY <1>3, LenProperties
    <2> QED BY <1>2, <1>3, <2>1
  <1>5. /\ Cleaned(more) \in Seq(RowSet)
        /\ \A i \in DOMAIN Cleaned(more) : \E j \in DOMAIN more : Cleaned(more)[i] = more[j]
    <2> DEFINE I == {i \in DOMAIN more : ~more[i].old}
    <2>1. I \in SUBSET (1 .. Len(more)) /\ I \subseteq DOMAIN more
      BY <1>3, LenProperties
    <2>2. Cleaned(more) = more \/ Cleaned(more) = Keep(more, I)
      BY DEF Cleaned
    <2> HIDE DEF I
    <2>3. Keep(more, I) \in Seq(RowSet) /\ \A i \in DOMAIN Keep(more, I) : \E j \in I : Keep(more, I)[i] = more[j]
      BY <1>3, <2>1, KeepElements
    <2>4. CASE Cleaned(more) = more
      BY <1>3, <2>4
    <2>5. CASE Cleaned(more) = Keep(more, I)
      BY <2>1, <2>3, <2>5
    <2> QED BY <2>2, <2>4, <2>5
  <1>6. located' = located \/ located' = more \/ located' = Cleaned(more)
    BY DEF AddMessage, Insert, more, others
  <1>7. CASE located' = located
    BY <1>1, <1>7
  <1>8. CASE located' = more
    BY <1>3, <1>4, <1>8
  <1>9. CASE located' = Cleaned(more)
    <2>1. \A i \in DOMAIN Cleaned(more) :
            Cleaned(more)[i] = row \/ \E j \in DOMAIN located : Cleaned(more)[i] = located[j]
      BY <1>4, <1>5
    <2> QED BY <1>5, <1>9, <2>1
  <1> QED
    BY <1>6, <1>7, <1>8, <1>9

----------------------------------------------------------------------------
(* The steps that are nobody's decision.                                   *)

LEMMA StutterKeeps ==
    ASSUME ModerationInv, UNCHANGED vars
    PROVE  ModerationInv'
  <1>1. UNCHANGED <<mode, messages, status, tables, admin, todo, cleanups, history>>
    BY DEF vars
  <1>2. TypeOK' /\ LocatorConsistent' /\ RowsKnown' /\ Reported'
    BY <1>1 DEF ModerationInv, TypeOK, LocatorConsistent, RowsKnown, Reported
  <1>3. NoticesKept /\ \A w : Appealable(w) => Appealable(w)'
    BY <1>1 DEF NoticesKept, Appealable
  <1> QED
    BY <1>1, <1>2, <1>3, StandingStays DEF ModerationInv

LEMMA JoinKeeps ==
    ASSUME ModerationConstants, ModerationInv, NEW u \in Users, Join(u)
    PROVE  ModerationInv'
  <1> DEFINE row == [key |-> u, user |-> u, named |-> FALSE, id |-> 0, old |-> FALSE]
  <1>1. /\ AddMessage(row)
        /\ UNCHANGED <<mode, messages, status, trust, admin, todo, cleanups, history>>
    BY DEF Join
  <1>2. row \in RowSet
    BY DEF RowSet
  <1>3. row.key \notin Texts
    BY DEF ModerationConstants
  <1> HIDE DEF row
  <1>4. /\ located' \in Seq(RowSet)
        /\ \A i \in DOMAIN located' :
                located'[i] = row \/ \E j \in DOMAIN located : located'[i] = located[j]
    BY <1>1, <1>2, AddMessageEffect
  <1>5. LocatorConsistent' /\ RowsKnown'
    <2>1. MessagesKept
      BY <1>1 DEF MessagesKept
    <2> QED BY <1>3, <1>4, <2>1, RowsStay
  <1>6. TypeOK' /\ Reported'
    BY <1>1, <1>4 DEF ModerationInv, TypeOK, Reported
  <1>7. NoticesKept /\ \A w : Appealable(w) => Appealable(w)'
    BY <1>1 DEF NoticesKept, Appealable
  <1> QED
    BY <1>1, <1>5, <1>6, <1>7, StandingStays DEF ModerationInv

LEMMA ExpireKeeps ==
    ASSUME ModerationConstants, ModerationInv, Expire
    PROVE  ModerationInv'
  <1>1. /\ located' = [i \in DOMAIN located |-> [located[i] EXCEPT !.old = TRUE]]
        /\ UNCHANGED <<mode, messages, status, trust, admin, todo, cleanups, history>>
    BY DEF Expire
  <1>2. located \in Seq(RowSet) /\ Len(located) \in Nat /\ DOMAIN located = 1 .. Len(located)
    BY LenProperties DEF ModerationInv, TypeOK
  <1>3. \A i \in 1 .. Len(located) : located[i] \in RowSet
    BY <1>2
  <1>4. \A i \in 1 .. Len(located) : /\ located'[i] \in RowSet
                                     /\ located'[i].key = located[i].key
                                     /\ located'[i].user = located[i].user
                                     /\ located'[i].id = located[i].id
    BY <1>1, <1>2, <1>3 DEF RowSet
  <1>5. DOMAIN located' = 1 .. Len(located) /\ located' = [i \in 1 .. Len(located) |-> located'[i]]
    BY <1>1, <1>2
  <1>6. located' \in [1 .. Len(located) -> RowSet]
    BY <1>4, <1>5
  <1>7. located' \in Seq(RowSet)
    BY <1>2, <1>6
  <1>8. LocatorConsistent' /\ RowsKnown'
    <2>1. MessagesKept
      BY <1>1 DEF MessagesKept
    <2> QED BY <1>2, <1>4, <1>5, <2>1, RowsStay
  <1>9. TypeOK' /\ Reported'
    BY <1>1, <1>7 DEF ModerationInv, TypeOK, Reported
  <1>10. NoticesKept /\ \A w : Appealable(w) => Appealable(w)'
    BY <1>1 DEF NoticesKept, Appealable
  <1> QED
    BY <1>1, <1>8, <1>9, <1>10, StandingStays DEF ModerationInv

LEMMA ClickKeeps ==
    ASSUME ModerationConstants, ModerationInv, Admin
    PROVE  ModerationInv'
  <1>1. PICK n \in DOMAIN notices : \E button \in notices[n].buttons : Click(n, button)
    BY DEF Admin
  <1>2. PICK button \in notices[n].buttons : Click(n, button)
    BY <1>1
  <1> DEFINE query == [note |-> n, button |-> button]
  <1>3. /\ clicks' = Append(clicks, query)
        /\ UNCHANGED <<mode, messages, status, tables, notices, todo, cleanups, history>>
    BY <1>2 DEF Click
  <1>4. notices \in Seq(NoticeSet) /\ clicks \in Seq(ClickSet)
    BY DEF ModerationInv, TypeOK
  <1>5. notices[n] \in NoticeSet /\ n \in Nat
    BY <1>4
  <1>6. query \in ClickSet /\ query.note = n
    BY <1>2, <1>5 DEF ClickSet, NoticeSet
  <1> HIDE DEF query
  <1>7. /\ clicks' \in Seq(ClickSet) /\ DOMAIN clicks' = 1 .. Len(clicks) + 1 /\ Len(clicks) \in Nat
        /\ \A i \in 1 .. Len(clicks) : clicks'[i] = clicks[i]
        /\ clicks'[Len(clicks) + 1] = query
        /\ DOMAIN clicks = 1 .. Len(clicks)
    BY <1>3, <1>4, <1>6, AppendProperties, LenProperties
  <1>8. Reported'
    <2>1. \A i \in DOMAIN clicks' : i \in DOMAIN clicks \/ clicks'[i] = query
      BY <1>7
    <2>2. \A i \in DOMAIN clicks' : clicks'[i].note \in DOMAIN notices
      BY <1>6, <1>7, <2>1 DEF ModerationInv, Reported
    <2> QED BY <1>3, <2>2 DEF ModerationInv, Reported
  <1>9. TypeOK' /\ LocatorConsistent' /\ RowsKnown'
    BY <1>3, <1>7 DEF ModerationInv, TypeOK, LocatorConsistent, RowsKnown
  <1>10. NoticesKept /\ \A w : Appealable(w) => Appealable(w)'
    BY <1>3 DEF NoticesKept, Appealable
  <1> QED
    BY <1>3, <1>8, <1>9, <1>10, StandingStays DEF ModerationInv

(* The query at the head of the queue.                                     *)
LEMMA TakenClick ==
    ASSUME ModerationInv, NEW button, Take(button)
    PROVE  /\ todo = <<>> /\ clicked \in Nat /\ clicked \in DOMAIN notices
           /\ notice \in NoticeSet /\ notice.user \in Users /\ notice.user \notin Anonymous
           /\ clicks' \in Seq(ClickSet)
           /\ \A i \in DOMAIN clicks' : clicks'[i].note \in DOMAIN notices
  <1>1. /\ clicks \in Seq(ClickSet) /\ clicks # <<>> /\ clicks' = Tail(clicks) /\ todo = <<>>
        /\ notices \in Seq(NoticeSet)
    BY DEF Take, ModerationInv, TypeOK
  <1>2. /\ Head(clicks) \in ClickSet /\ Tail(clicks) \in Seq(ClickSet)
        /\ Len(Tail(clicks)) = Len(clicks) - 1 /\ Len(clicks) \in Nat
        /\ \A i \in 1 .. Len(Tail(clicks)) : Tail(clicks)[i] = clicks[i + 1]
    BY <1>1, HeadTailProperties, LenProperties
  <1>3. 1 \in DOMAIN clicks /\ Head(clicks) = clicks[1]
    BY <1>1
  <1>4. clicked \in DOMAIN notices
    BY <1>3 DEF ModerationInv, Reported
  <1>5. notice \in NoticeSet /\ notice.user \notin Anonymous
    BY <1>1, <1>4 DEF ModerationInv, Reported
  <1>6. notice.user \in Users
    BY <1>5 DEF NoticeSet
  <1>7. clicked \in Nat
    BY <1>2 DEF ClickSet
  <1>8. \A i \in DOMAIN clicks' : clicks'[i].note \in DOMAIN notices
    BY <1>1, <1>2 DEF ModerationInv, Reported
  <1> QED
    BY <1>1, <1>2, <1>4, <1>5, <1>6, <1>7, <1>8

(* New buttons on a report.                                                *)
LEMMA ShowEffect ==
    ASSUME ModerationInv, NEW n, NEW b \in SUBSET Buttons, NEW ok \in BOOLEAN, Show(n, b, ok)
    PROVE  /\ notices' \in Seq(NoticeSet) /\ DOMAIN notices' = DOMAIN notices
           /\ \A k \in DOMAIN notices : notices'[k].user = notices[k].user
           /\ b # {} => \A w : Appealable(w) => Appealable(w)'
           /\ \A w : (n \in DOMAIN notices => notices[n].user # w) /\ Appealable(w) => Appealable(w)'
  <1> DEFINE N == Len(notices)
  <1>1. /\ notices \in Seq(NoticeSet) /\ N \in Nat
        /\ DOMAIN notices = 1 .. N
        /\ \A k \in 1 .. N : notices[k] \in NoticeSet
    BY LenProperties DEF ModerationInv, TypeOK
  <1>2. CASE ~ok
    <2>1. notices' = notices
      BY <1>2 DEF Show
    <2> QED BY <1>1, <2>1 DEF Appealable
  <1>3. CASE ok
    <2>1. notices' = [notices EXCEPT ![n].buttons = b]
      BY <1>3 DEF Show
    <2>2. \A k \in 1 .. N : notices'[k] = IF k = n THEN [notices[k] EXCEPT !.buttons = b] ELSE notices[k]
      BY <1>1, <2>1
    <2>3. \A k \in 1 .. N : notices'[k] \in NoticeSet
      BY <1>1, <2>2 DEF NoticeSet
    <2>4. \A k \in 1 .. N : notices'[k].user = notices[k].user
      BY <1>1, <2>2 DEF NoticeSet
    <2>5. \A k \in 1 .. N : notices'[k].buttons = IF k = n THEN b ELSE notices[k].buttons
      BY <1>1, <2>2 DEF NoticeSet
    <2>6. notices' = [k \in 1 .. N |-> notices'[k]]
      BY <1>1, <2>1
    <2> HIDE DEF N
    <2>7. notices' \in [1 .. N -> NoticeSet]
      BY <2>3, <2>6
    <2>8. notices' \in Seq(NoticeSet) /\ DOMAIN notices' = DOMAIN notices
      BY <1>1, <2>7
    <2>9. b # {} => \A w : Appealable(w) => Appealable(w)'
      BY <1>1, <2>4, <2>5, <2>8 DEF Appealable
    <2>10. \A w : (n \in DOMAIN notices => notices[n].user # w) /\ Appealable(w) => Appealable(w)'
      BY <1>1, <2>4, <2>5, <2>8 DEF Appealable
    <2> QED BY <1>1, <2>4, <2>8, <2>9, <2>10
  <1> QED
    BY <1>2, <1>3

(* The dialogs of a report.                                                *)
LEMMA DialogKeeps ==
    ASSUME ModerationConstants, ModerationInv, NEW button, Take(button),
           NEW b \in SUBSET Buttons, b # {}, NEW ok \in BOOLEAN, Show(clicked, b, ok),
           UNCHANGED <<mode, messages, status, tables, todo, cleanups, history>>
    PROVE  ModerationInv'
  <1>1. clicks' \in Seq(ClickSet) /\ \A i \in DOMAIN clicks' : clicks'[i].note \in DOMAIN notices
    BY TakenClick
  <1> HIDE DEF clicked
  <1>2. /\ notices' \in Seq(NoticeSet) /\ DOMAIN notices' = DOMAIN notices
        /\ \A k \in DOMAIN notices : notices'[k].user = notices[k].user
        /\ \A w : Appealable(w) => Appealable(w)'
    BY ShowEffect
  <1>3. Reported'
    BY <1>1, <1>2 DEF ModerationInv, Reported
  <1>4. TypeOK' /\ LocatorConsistent' /\ RowsKnown'
    BY <1>1, <1>2 DEF ModerationInv, TypeOK, LocatorConsistent, RowsKnown
  <1>5. NoticesKept
    BY <1>2 DEF NoticesKept
  <1> QED
    BY <1>2, <1>3, <1>4, <1>5, StandingStays DEF ModerationInv

LEMMA AskBanConfirmationKeeps ==
    ASSUME ModerationConstants, ModerationInv, AskBanConfirmation
    PROVE  ModerationInv'
  <1>1. PICK ok \in BOOLEAN : Show(clicked, {"unban", "keep"}, ok)
    BY DEF AskBanConfirmation, Outcomes
  <1>2. {"unban", "keep"} \in SUBSET Buttons /\ {"unban", "keep"} # {}
    BY DEF Buttons
  <1>3. Take("ask") /\ UNCHANGED <<mode, messages, status, tables, todo, cleanups, history>>
    BY DEF AskBanConfirmation
  <1> QED
    BY <1>1, <1>2, <1>3, DialogKeeps

LEMMA ShowInfoKeeps ==
    ASSUME ModerationConstants, ModerationInv, ShowInfo
    PROVE  ModerationInv'
  <1>1. PICK ok \in BOOLEAN : Show(clicked, {"ask"}, ok)
    BY DEF ShowInfo, Outcomes
  <1>2. {"ask"} \in SUBSET Buttons /\ {"ask"} # {}
    BY DEF Buttons
  <1>3. Take("info") /\ UNCHANGED <<mode, messages, status, tables, todo, cleanups, history>>
    BY DEF ShowInfo
  <1> QED
    BY <1>1, <1>2, <1>3, DialogKeeps

LEMMA AnswerFailsKeeps ==
    ASSUME ModerationConstants, ModerationInv, AnswerFails
    PROVE  ModerationInv'
  <1>1. /\ Take("unban") /\ failed' = failed \union {notice.user}
        /\ UNCHANGED <<mode, messages, status, tables, notices, todo, cleanups, verdict, redeemed>>
    BY DEF AnswerFails
  <1>2. /\ clicks' \in Seq(ClickSet) /\ \A i \in DOMAIN clicks' : clicks'[i].note \in DOMAIN notices
        /\ notice.user \in Users
    BY <1>1, TakenClick
  <1>3. Reported'
    BY <1>1, <1>2 DEF ModerationInv, Reported
  <1>4. failed' \in SUBSET Users
    BY <1>1, <1>2 DEF ModerationInv, TypeOK
  <1>5. TypeOK' /\ LocatorConsistent' /\ RowsKnown'
    BY <1>1, <1>2, <1>4 DEF ModerationInv, TypeOK, LocatorConsistent, RowsKnown
  <1>6. NoticesKept /\ \A w : Appealable(w) => Appealable(w)'
    BY <1>1 DEF NoticesKept, Appealable
  <1>7. failed \subseteq failed'
    BY <1>1
  <1> QED
    BY <1>1, <1>3, <1>5, <1>6, <1>7, StandingStays DEF ModerationInv

----------------------------------------------------------------------------
(* Handlers that begin with a decision.                                    *)

(* A handler that decides nothing leaves all that was decided before.      *)
LEMMA UndecidedBegins ==
    ASSUME ModerationInv, todo = <<>>, NEW u \in Users,
           NEW C \in SUBSET Calls, todo' \in Seq(C),
           \A c \in C : c.op # "delete" => c.user = u /\ Justified(c)' /\ c.op \notin {"ban", "clear"},
           UNCHANGED <<mode, status, notices, trust, history>>
    PROVE  /\ todo' \in Seq(Calls) /\ HandlerSound'
           /\ \A w \in Users : SanctionDecided(w)' /\ AppealUnderWay(w)'
           /\ \A w \in Users \ failed' : DecisionUnderWay(w)'
  <1>1. todo' \in Seq(Calls) /\ \A i \in DOMAIN todo' : todo'[i] \in C
    BY Wider
  <1>2. \A i \in DOMAIN todo' : todo'[i].op # "delete" => todo'[i].user = u /\ Justified(todo[i])'
    <2> SUFFICES ASSUME NEW i \in DOMAIN todo', todo'[i].op # "delete"
                 PROVE  todo'[i].user = u /\ Justified(todo[i])'
      OBVIOUS
    <2>1. PICK c \in C : c = todo'[i]
      BY <1>1
    <2>2. c.op # "delete" => c.user = u /\ Justified(c)'
      OBVIOUS
    <2> QED BY <2>1, <2>2 DEF Justified
  <1>3. \A i \in DOMAIN todo' : todo'[i].op \notin {"ban", "clear"}
    <2> SUFFICES ASSUME NEW i \in DOMAIN todo'
                 PROVE  todo'[i].op \notin {"ban", "clear"}
      OBVIOUS
    <2>1. PICK c \in C : c = todo'[i]
      BY <1>1
    <2> QED BY <2>1
  <1>4. \A i, j \in DOMAIN todo' :
            todo'[i].op # "delete" /\ todo'[j].op # "delete" => todo'[i].user = todo'[j].user
    BY <1>2
  <1>5. HandlerSound'
    BY <1>2, <1>3, <1>4 DEF HandlerSound
  <1>6. ASSUME NEW w \in Users
        PROVE  (w \notin failed' => DecisionUnderWay(w)') /\ SanctionDecided(w)' /\ AppealUnderWay(w)'
    <2>1. Appealable(w) => Appealable(w)'
      BY DEF Appealable
    <2>2. \A i \in DOMAIN todo : todo[i].op # "delete" => todo[i].user # w
      OBVIOUS
    <2>3. KeptTrust(w)
      BY TrustSame
    <2> QED BY <2>1, <2>2, <2>3, Undisturbed
  <1> QED
    BY <1>1, <1>5, <1>6

(* A decision leads to a state where its calls are under way.              *)
LEMMA DecisionKeeps ==
    ASSUME ModerationInv, todo = <<>>, NEW u \in Users, u \notin Anonymous,
           NEW what \in Verdicts, Decide(u, what),
           NEW C \in SUBSET Calls, todo' \in Seq(C),
           \A c \in C : c.op # "delete" => c.user = u /\ Justified(c)',
           what = "auto" =>
               \A i \in DOMAIN todo' : todo'[i].op = "ban" => i = 1 /\ Pending("report", u)',
           what = "unban" /\ status'[u] # "free" /\ ~mode.training =>
               \A i \in DOMAIN todo' :
                   todo'[i].op = "clear" => \E j \in DOMAIN todo' : j < i /\ todo'[j].op = "unban",
           UNCHANGED <<mode, messages, status, tables, notices, cleanups>>,
           clicks' \in Seq(ClickSet), \A i \in DOMAIN clicks' : clicks'[i].note \in DOMAIN notices,
           SanctionDecided(u)', AppealUnderWay(u)', DecisionUnderWay(u)'
    PROVE  ModerationInv'
  <1>1. /\ todo' \in Seq(Calls) /\ HandlerSound'
        /\ verdict' \in [Users -> Verdicts] /\ failed' \in SUBSET Users /\ redeemed' \in SUBSET Users
        /\ \A w \in Users : SanctionDecided(w)' /\ AppealUnderWay(w)'
        /\ \A w \in Users \ failed' : DecisionUnderWay(w)'
    BY HandlerStarts
  <1>2. TypeOK' /\ LocatorConsistent' /\ RowsKnown'
    BY <1>1 DEF ModerationInv, TypeOK, LocatorConsistent, RowsKnown
  <1>3. Reported'
    BY DEF ModerationInv, Reported
  <1>4. AnonymousSpared'
    <2>1. \A w \in Anonymous : verdict'[w] = verdict[w]
      BY DEF Decide, ModerationInv, TypeOK
    <2> QED BY <2>1 DEF ModerationInv, AnonymousSpared
  <1> QED
    BY <1>1, <1>2, <1>3, <1>4 DEF ModerationInv

(* The calls that follow from a report by an admin.                        *)
CommandCalls(u) ==
    {Disapprove(u), Learn(u)} \union {Delete(m) : m \in Nat} \union {Cleanup(u, m) : m \in Nat}
    \union {c \in {Ban(u, "ban")} : u \notin Anonymous}

LEMMA CommandKeeps ==
    ASSUME ModerationInv, todo = <<>>, NEW u \in Users,
           DecideBan(u),
           todo' \in Seq(CommandCalls(u)), Has(todo', Disapprove(u)),
           u \notin Anonymous /\ ~mode.dry => Has(todo', Ban(u, "ban")),
           UNCHANGED <<mode, messages, status, tables, admin, cleanups>>
    PROVE  ModerationInv'
  <1> DEFINE C == CommandCalls(u)
  <1>1. C \in SUBSET Calls
    BY DEF CommandCalls, Calls, Disapprove, Learn, Delete, Cleanup, Ban
  <1>2. clicks' \in Seq(ClickSet) /\ \A i \in DOMAIN clicks' : clicks'[i].note \in DOMAIN notices
    BY DEF ModerationInv, TypeOK, Reported
  <1>3. ASSUME NEW c \in C, c.op # "delete"
        PROVE  c = Disapprove(u) \/ c = Learn(u) \/ (\E m \in Nat : c = Cleanup(u, m))
               \/ (c = Ban(u, "ban") /\ u \notin Anonymous)
    BY <1>3 DEF CommandCalls, Delete
  <1> HIDE DEF C
  <1>4. CASE u \in Anonymous
    <2>1. UNCHANGED history
      BY <1>4 DEF DecideBan
    <2>2. ASSUME NEW c \in C, c.op # "delete"
          PROVE  c.user = u /\ Justified(c)' /\ c.op \notin {"ban", "clear"}
      <3>1. CASE c = Disapprove(u)
        BY <1>4, <3>1 DEF Justified, Disapprove
      <3>2. CASE c = Learn(u)
        BY <3>2 DEF Justified, Learn
      <3>3. CASE \E m \in Nat : c = Cleanup(u, m)
        BY <3>3 DEF Justified, Cleanup
      <3> QED BY <1>3, <1>4, <2>2, <3>1, <3>2, <3>3
    <2>3. todo' \in Seq(C) /\ UNCHANGED <<mode, status, notices, trust, history>>
      BY <2>1 DEF C
    <2>4. /\ todo' \in Seq(Calls) /\ HandlerSound'
          /\ \A w \in Users : SanctionDecided(w)' /\ AppealUnderWay(w)'
          /\ \A w \in Users \ failed' : DecisionUnderWay(w)'
      BY <1>1, <2>2, <2>3, UndecidedBegins
    <2>5. TypeOK' /\ LocatorConsistent' /\ RowsKnown' /\ Reported' /\ AnonymousSpared'
      BY <2>1, <2>4 DEF ModerationInv, TypeOK, LocatorConsistent, RowsKnown, Reported, AnonymousSpared
    <2> QED BY <2>4, <2>5 DEF ModerationInv
  <1>5. CASE u \notin Anonymous
    <2>1. Decide(u, "ban") /\ "ban" \in Verdicts
      BY <1>5 DEF DecideBan, Verdicts
    <2>2. verdict'[u] = "ban"
      BY <2>1 DEF Decide, ModerationInv, TypeOK
    <2>3. \A c \in C : c.op # "delete" => c.user = u /\ Justified(c)'
      <3> SUFFICES ASSUME NEW c \in C, c.op # "delete"
                   PROVE  c.user = u /\ Justified(c)'
        OBVIOUS
      <3>1. CASE c = Disapprove(u)
        BY <2>2, <3>1 DEF Justified, Disapprove
      <3>2. CASE c = Learn(u)
        BY <3>2 DEF Justified, Learn
      <3>3. CASE \E m \in Nat : c = Cleanup(u, m)
        BY <3>3 DEF Justified, Cleanup
      <3>4. CASE c = Ban(u, "ban")
        BY <1>5, <2>2, <3>4 DEF Justified, Ban
      <3> QED BY <1>3, <3>1, <3>2, <3>3, <3>4
    <2>4. Pending("disapprove", u)'
      BY DEF Has, Pending, Disapprove
    <2>5. ~mode.dry /\ ~mode.training => PendingBan(u)'
      BY <1>5 DEF Has, PendingBan, Ban
    <2>6. SanctionDecided(u)'
      BY <2>2 DEF SanctionDecided
    <2>7. AppealUnderWay(u)'
      BY <2>2 DEF AppealUnderWay
    <2>8. DecisionUnderWay(u)'
      <3>1. mode'.dry \/ mode'.training \/ PendingBan(u)'
        BY <2>5
      <3> QED BY <2>2, <2>4, <3>1 DEF DecisionUnderWay
    <2>9. todo' \in Seq(C)
      BY DEF C
    <2> QED
      BY <1>1, <1>2, <1>5, <2>1, <2>3, <2>6, <2>7, <2>8, <2>9, DecisionKeeps
  <1> QED
    BY <1>4, <1>5

LEMMA ForwardKeeps ==
    ASSUME ModerationConstants, ModerationInv, NEW m, NEW t, Forward(m, t)
    PROVE  ModerationInv'
  <1>1. PICK row \in RowsOf(t) :
            /\ todo' = <<Disapprove(row.user)>>
                       \o When(~mode.dry, <<Learn(row.user), Delete(row.id)>>
                                          \o When(row.user \notin Anonymous, <<Ban(row.user, "ban")>>))
            /\ DecideBan(row.user)
    BY DEF Forward
  <1>2. row.user \in Users /\ row.id \in Nat
    <2>1. located \in Seq(RowSet)
      BY DEF ModerationInv, TypeOK
    <2>2. row \in RowSet
      BY <2>1 DEF RowsOf
    <2> QED BY <2>2 DEF RowSet
  <1> DEFINE u == row.user
             C == CommandCalls(u)
             bans == When(u \notin Anonymous, <<Ban(u, "ban")>>)
             more == <<Learn(u), Delete(row.id)>> \o bans
             rest == When(~mode.dry, more)
  <1>3. Disapprove(u) \in C /\ Learn(u) \in C /\ Delete(row.id) \in C
    BY <1>2 DEF CommandCalls
  <1>4. u \notin Anonymous => Ban(u, "ban") \in C
    BY DEF CommandCalls
  <1>5. todo' = <<Disapprove(u)>> \o rest
    BY <1>1
  <1> HIDE DEF C
  <1>6. bans \in Seq(C) /\ (u \notin Anonymous => Has(bans, Ban(u, "ban")))
    <2>1. CASE u \in Anonymous
      BY <2>1 DEF When
    <2>2. CASE u \notin Anonymous
      <3>1. bans = <<Ban(u, "ban")>>
        BY <2>2 DEF When
      <3> HIDE DEF bans, u
      <3>2. <<Ban(u, "ban")>> \in Seq(C) /\ Has(<<Ban(u, "ban")>>, Ban(u, "ban"))
        BY <1>4, <2>2, One
      <3> QED BY <3>1, <3>2
    <2> QED BY <2>1, <2>2
  <1> HIDE DEF bans
  <1>7. more \in Seq(C) /\ (u \notin Anonymous => Has(more, Ban(u, "ban")))
    <2>1. <<Learn(u), Delete(row.id)>> \in Seq(C)
      BY <1>3
    <2> QED BY <1>6, <2>1, Joined
  <1> HIDE DEF more
  <1>8. rest \in Seq(C) /\ (u \notin Anonymous /\ ~mode.dry => Has(rest, Ban(u, "ban")))
    <2>1. CASE mode.dry
      BY <2>1 DEF When
    <2>2. CASE ~mode.dry
      BY <1>7, <2>2 DEF When
    <2> QED BY <2>1, <2>2
  <1> HIDE DEF rest
  <1>9. /\ todo' \in Seq(C) /\ Has(todo', Disapprove(u))
        /\ u \notin Anonymous /\ ~mode.dry => Has(todo', Ban(u, "ban"))
    <2> HIDE DEF u
    <2>1. <<Disapprove(u)>> \in Seq(C) /\ Has(<<Disapprove(u)>>, Disapprove(u))
      BY <1>3, One
    <2> QED BY <1>5, <1>8, <2>1, Joined
  <1>10. todo = <<>> /\ UNCHANGED <<mode, messages, status, tables, admin, cleanups>>
    BY DEF Forward
  <1>11. DecideBan(u) /\ u \in Users
    BY <1>1, <1>2
  <1>12. todo' \in Seq(CommandCalls(u))
    BY <1>9 DEF C
  <1> HIDE DEF u
  <1> QED
    BY <1>9, <1>10, <1>11, <1>12, CommandKeeps

(* The author of a message is one of the users.                            *)
LEMMA MessageFields ==
    ASSUME ModerationInv, NEW m \in DOMAIN messages
    PROVE  m \in Nat /\ messages[m] \in MessageSet /\ messages[m].from \in Users
  <1>1. messages \in Seq(MessageSet)
    BY DEF ModerationInv, TypeOK
  <1>2. m \in Nat /\ messages[m] \in MessageSet
    BY <1>1
  <1> QED
    BY <1>2 DEF MessageSet

LEMMA ForwardFallbackKeeps ==
    ASSUME ModerationConstants, ModerationInv, NEW m \in DOMAIN messages, NEW t, ForwardFallback(m, t)
    PROVE  ModerationInv'
  <1> DEFINE u == messages[m].from
             C == CommandCalls(u)
             rest == When(~mode.dry, <<Learn(u), Ban(u, "ban")>>)
  <1>1. /\ todo = <<>> /\ u \notin Channels /\ todo' = <<Disapprove(u)>> \o rest /\ Decide(u, "ban")
        /\ UNCHANGED <<mode, messages, status, tables, admin, cleanups>>
    BY DEF ForwardFallback
  <1>2. u \in Users
    BY MessageFields
  <1>3. u \notin Anonymous
    BY <1>1 DEF ModerationConstants, ModerationInv, TypeOK
  <1> HIDE DEF u
  <1>4. Disapprove(u) \in C /\ Learn(u) \in C /\ Ban(u, "ban") \in C
    BY <1>3 DEF CommandCalls
  <1> HIDE DEF C
  <1>5. rest \in Seq(C) /\ (~mode.dry => Has(rest, Ban(u, "ban")))
    <2>1. CASE mode.dry
      BY <2>1 DEF When
    <2>2. CASE ~mode.dry
      <3>1. rest = <<Learn(u), Ban(u, "ban")>>
        BY <2>2 DEF When
      <3> HIDE DEF rest
      <3>2. rest \in Seq(C) /\ Has(rest, Ban(u, "ban"))
        BY <1>4, <3>1 DEF Has
      <3> QED BY <3>2
    <2> QED BY <2>1, <2>2
  <1> HIDE DEF rest
  <1>6. <<Disapprove(u)>> \in Seq(C) /\ Has(<<Disapprove(u)>>, Disapprove(u))
    BY <1>4, One
  <1>7. todo' \in Seq(C) /\ Has(todo', Disapprove(u)) /\ (~mode.dry => Has(todo', Ban(u, "ban")))
    BY <1>1, <1>5, <1>6, Joined
  <1>8. todo' \in Seq(CommandCalls(u))
    BY <1>7 DEF C
  <1>9. DecideBan(u)
    BY <1>1, <1>3 DEF DecideBan
  <1> QED
    BY <1>1, <1>2, <1>3, <1>7, <1>8, <1>9, CommandKeeps

LEMMA DirectReportKeeps ==
    ASSUME ModerationConstants, ModerationInv, NEW m \in DOMAIN messages, NEW t,
           NEW updateSamples \in BOOLEAN, DirectReport(m, t, updateSamples)
    PROVE  ModerationInv'
  <1> DEFINE u == messages[m].from
             C == CommandCalls(u)
             learned == When(updateSamples, <<Learn(u)>>)
             cleaned == When(mode.cleanup, <<Cleanup(u, m)>>)
             banned == <<Ban(u, "ban")>> \o cleaned
             bans == When(u \notin Anonymous, banned)
             learns == learned \o <<Delete(m)>>
             more == learns \o bans
             rest == When(~mode.dry, more)
  <1>1. /\ todo = <<>> /\ todo' = <<Disapprove(u)>> \o rest
        /\ DecideBan(u)
        /\ UNCHANGED <<mode, messages, status, tables, admin, cleanups>>
    BY DEF DirectReport
  <1>2. u \in Users /\ m \in Nat
    BY MessageFields
  <1> HIDE DEF u
  <1>3. /\ Disapprove(u) \in C /\ Learn(u) \in C /\ Delete(m) \in C /\ Cleanup(u, m) \in C
        /\ u \notin Anonymous => Ban(u, "ban") \in C
    BY <1>2 DEF CommandCalls
  <1> HIDE DEF C
  <1>4. learned \in Seq(C) /\ cleaned \in Seq(C)
    BY <1>3 DEF When
  <1> HIDE DEF learned, cleaned
  <1>5. learns \in Seq(C)
    <2>1. <<Delete(m)>> \in Seq(C)
      BY <1>3
    <2> QED BY <1>4, <2>1, Joined
  <1> HIDE DEF learns
  <1>6. bans \in Seq(C) /\ (u \notin Anonymous => Has(bans, Ban(u, "ban")))
    <2>1. CASE u \in Anonymous
      BY <2>1 DEF When
    <2>2. CASE u \notin Anonymous
      <3>1. <<Ban(u, "ban")>> \in Seq(C) /\ Has(<<Ban(u, "ban")>>, Ban(u, "ban"))
        BY <1>3, <2>2, One
      <3>2. banned \in Seq(C) /\ Has(banned, Ban(u, "ban"))
        BY <1>4, <3>1, Joined
      <3> HIDE DEF banned
      <3> QED BY <2>2, <3>2 DEF When
    <2> QED BY <2>1, <2>2
  <1> HIDE DEF bans
  <1>7. more \in Seq(C) /\ (u \notin Anonymous => Has(more, Ban(u, "ban")))
    BY <1>5, <1>6, Joined
  <1> HIDE DEF more
  <1>8. rest \in Seq(C) /\ (u \notin Anonymous /\ ~mode.dry => Has(rest, Ban(u, "ban")))
    <2>1. CASE mode.dry
      BY <2>1 DEF When
    <2>2. CASE ~mode.dry
      BY <1>7, <2>2 DEF When
    <2> QED BY <2>1, <2>2
  <1> HIDE DEF rest
  <1>9. <<Disapprove(u)>> \in Seq(C) /\ Has(<<Disapprove(u)>>, Disapprove(u))
    BY <1>3, One
  <1>10. /\ todo' \in Seq(C) /\ Has(todo', Disapprove(u))
         /\ u \notin Anonymous /\ ~mode.dry => Has(todo', Ban(u, "ban"))
    BY <1>1, <1>8, <1>9, Joined
  <1>11. todo' \in Seq(CommandCalls(u))
    BY <1>10 DEF C
  <1> QED
    BY <1>1, <1>2, <1>10, <1>11, CommandKeeps

LEMMA DirectWarnReportKeeps ==
    ASSUME ModerationConstants, ModerationInv, NEW m \in DOMAIN messages, DirectWarnReport(m)
    PROVE  ModerationInv'
  <1>1. /\ todo = <<>> /\ todo' = <<Delete(m)>>
        /\ UNCHANGED <<mode, messages, status, tables, admin, cleanups, history>>
    BY DEF DirectWarnReport
  <1>2. m \in Nat
    BY MessageFields
  <1>3. Delete(m) \in Calls /\ Delete(m).op = "delete"
    BY <1>2 DEF Calls, Delete
  <1>4. /\ todo' \in Seq(Calls)
        /\ \A i \in DOMAIN todo' : todo'[i].op = "delete"
    BY <1>1, <1>3
  <1>5. HandlerSound'
    BY <1>4 DEF HandlerSound
  <1>6. TypeOK' /\ LocatorConsistent' /\ RowsKnown' /\ Reported' /\ AnonymousSpared'
    BY <1>1, <1>4
    DEF ModerationInv, TypeOK, LocatorConsistent, RowsKnown, Reported, AnonymousSpared
  <1>7. ASSUME NEW w \in Users
        PROVE  (w \notin failed' => DecisionUnderWay(w)') /\ SanctionDecided(w)' /\ AppealUnderWay(w)'
    <2>1. Appealable(w) => Appealable(w)'
      BY <1>1 DEF Appealable
    <2>2. \A i \in DOMAIN todo : todo[i].op # "delete" => todo[i].user # w
      BY <1>1
    <2>3. KeptTrust(w)
      BY <1>1, TrustSame
    <2> QED BY <1>1, <2>1, <2>2, <2>3, Undisturbed
  <1> QED
    BY <1>5, <1>6, <1>7 DEF ModerationInv

LEMMA BanConfirmedKeeps ==
    ASSUME ModerationConstants, ModerationInv, BanConfirmed
    PROVE  ModerationInv'
  <1>1. Take("keep")
    BY DEF BanConfirmed
  <1>2. /\ todo = <<>> /\ clicked \in Nat /\ clicked \in DOMAIN notices
        /\ notice \in NoticeSet /\ notice.user \in Users /\ notice.user \notin Anonymous
        /\ clicks' \in Seq(ClickSet)
        /\ \A i \in DOMAIN clicks' : clicks'[i].note \in DOMAIN notices
    BY <1>1, TakenClick
  <1>n. PICK n : n = clicked
    OBVIOUS
  <1>u. PICK u : u = notices[n].user
    OBVIOUS
  <1>m. PICK m : m = notices[n].msg
    OBVIOUS
  <1>3. PICK named \in NamesFound(u) :
            todo' = <<Clear(n), Learn(u)>>
                    \o When(mode.training,
                            When(~(named /\ u \in SuperUsers), <<Ban(u, "confirmed")>>)
                            \o <<Delete(m)>>)
                    \o When(mode.soft /\ ~mode.training, <<Ban(u, "ban")>>)
    BY <1>n, <1>u, <1>m DEF BanConfirmed
  <1>4. Decide(u, "keep") /\ UNCHANGED <<mode, messages, status, tables, notices, cleanups>>
    BY <1>n, <1>u DEF BanConfirmed
  <1>5. m \in Nat /\ u \in Users /\ u \notin Anonymous
    BY <1>2, <1>n, <1>u, <1>m DEF NoticeSet
  <1>6. n \in Nat /\ n \in DOMAIN notices /\ notices[n].user = u
    BY <1>2, <1>n, <1>u
  <1> DEFINE C == {Clear(n), Learn(u), Ban(u, "confirmed"), Ban(u, "ban"), Delete(m)}
             confirmed == When(~(named /\ u \in SuperUsers), <<Ban(u, "confirmed")>>)
             trained == confirmed \o <<Delete(m)>>
             first == <<Clear(n), Learn(u)>> \o When(mode.training, trained)
             last == When(mode.soft /\ ~mode.training, <<Ban(u, "ban")>>)
  <1>18. todo' = first \o last
    BY <1>3
  <1>7. C \in SUBSET Calls
    <2>1. Clear(n) \in Calls /\ Learn(u) \in Calls
      BY <1>5, <1>6, CallsMade
    <2>2. Ban(u, "confirmed") \in Calls /\ Ban(u, "ban") \in Calls
      BY <1>5 DEF Calls, Ban
    <2>3. Delete(m) \in Calls
      BY <1>5 DEF Calls, Delete
    <2> QED BY <2>1, <2>2, <2>3
  <1>8. verdict'[u] = "keep" /\ "keep" \in Verdicts
    BY <1>4, <1>5 DEF Decide, ModerationInv, TypeOK, Verdicts
  <1>9. \A c \in C : c.op # "delete" => c.user = u /\ Justified(c)'
    <2> SUFFICES ASSUME NEW c \in C, c.op # "delete"
                 PROVE  c.user = u /\ Justified(c)'
      OBVIOUS
    <2>1. c = Clear(n) \/ c = Learn(u) \/ c = Ban(u, "confirmed") \/ c = Ban(u, "ban")
      BY DEF Delete
    <2>2. CASE c = Clear(n)
      <3>1. c.op = "clear" /\ c.note = n /\ c.user = u
        BY <1>6, <2>2 DEF Clear
      <3> QED BY <1>4, <1>6, <1>8, <3>1 DEF Justified
    <2>3. CASE c = Learn(u)
      BY <1>8, <2>3 DEF Justified, Learn
    <2>4. CASE c = Ban(u, "confirmed")
      BY <1>4, <1>5, <1>8, <2>4 DEF Justified, Ban
    <2>5. CASE c = Ban(u, "ban")
      BY <1>4, <1>5, <1>8, <2>5 DEF Justified, Ban
    <2> QED BY <2>1, <2>2, <2>3, <2>4, <2>5
  <1>10. /\ Clear(n) \in C /\ Learn(u) \in C /\ Ban(u, "confirmed") \in C /\ Ban(u, "ban") \in C
         /\ Delete(m) \in C
    OBVIOUS
  <1> HIDE DEF C
  <1>11. <<Ban(u, "confirmed")>> \in Seq(C) /\ Has(<<Ban(u, "confirmed")>>, Ban(u, "confirmed"))
    BY <1>10, One
  <1>12. confirmed \in Seq(C) /\ (u \notin SuperUsers => Has(confirmed, Ban(u, "confirmed")))
    <2>1. CASE named /\ u \in SuperUsers
      BY <2>1 DEF When
    <2>2. CASE ~(named /\ u \in SuperUsers)
      BY <1>11, <2>2 DEF When
    <2> QED BY <2>1, <2>2
  <1> HIDE DEF confirmed
  <1>13. trained \in Seq(C) /\ (u \notin SuperUsers => Has(trained, Ban(u, "confirmed")))
    <2>1. <<Delete(m)>> \in Seq(C)
      BY <1>10
    <2> QED BY <1>12, <2>1, Joined
  <1> HIDE DEF trained
  <1>14. /\ When(mode.training, trained) \in Seq(C)
         /\ mode.training /\ u \notin SuperUsers => Has(When(mode.training, trained), Ban(u, "confirmed"))
    <2>1. CASE mode.training
      BY <1>13, <2>1 DEF When
    <2>2. CASE ~mode.training
      BY <2>2 DEF When
    <2> QED BY <2>1, <2>2
  <1>15. first \in Seq(C) /\ (mode.training /\ u \notin SuperUsers => Has(first, Ban(u, "confirmed")))
    <2>1. <<Clear(n), Learn(u)>> \in Seq(C)
      BY <1>10
    <2> QED BY <1>14, <2>1, Joined
  <1>16. <<Ban(u, "ban")>> \in Seq(C) /\ Has(<<Ban(u, "ban")>>, Ban(u, "ban"))
    BY <1>10, One
  <1>17. last \in Seq(C) /\ (mode.soft /\ ~mode.training => Has(last, Ban(u, "ban")))
    <2>1. CASE mode.soft /\ ~mode.training
      BY <1>16, <2>1 DEF When
    <2>2. CASE ~(mode.soft /\ ~mode.training)
      BY <2>2 DEF When
    <2> QED BY <2>1, <2>2
  <1> HIDE DEF first, last
  <1>19. /\ todo' \in Seq(C)
         /\ mode.training /\ u \notin SuperUsers => Has(todo', Ban(u, "confirmed"))
         /\ mode.soft /\ ~mode.training => Has(todo', Ban(u, "ban"))
    BY <1>15, <1>17, <1>18, Joined
  <1>20. mode.training \/ mode.soft => u \in SuperUsers \/ PendingBan(u)'
    <2>1. CASE mode.training
      BY <1>4, <1>19, <2>1 DEF Has, PendingBan, Ban
    <2>2. CASE mode.soft /\ ~mode.training
      BY <1>4, <1>19, <2>2 DEF Has, PendingBan, Ban
    <2> QED BY <2>1, <2>2
  <1>21. SanctionDecided(u)'
    BY <1>8 DEF SanctionDecided
  <1>22. AppealUnderWay(u)'
    BY <1>8 DEF AppealUnderWay
  <1>23. DecisionUnderWay(u)'
    BY <1>4, <1>8, <1>20 DEF DecisionUnderWay
  <1> QED
    BY <1>2, <1>4, <1>5, <1>7, <1>8, <1>9, <1>19, <1>21, <1>22, <1>23, DecisionKeeps

LEMMA UnbanConfirmedKeeps ==
    ASSUME ModerationConstants, ModerationInv, UnbanConfirmed
    PROVE  ModerationInv'
  <1>1. Take("unban")
    BY DEF UnbanConfirmed
  <1>2. /\ todo = <<>> /\ clicked \in Nat /\ clicked \in DOMAIN notices
        /\ notice \in NoticeSet /\ notice.user \in Users /\ notice.user \notin Anonymous
        /\ clicks' \in Seq(ClickSet)
        /\ \A i \in DOMAIN clicks' : clicks'[i].note \in DOMAIN notices
    BY <1>1, TakenClick
  <1>n. PICK n : n = clicked
    OBVIOUS
  <1>u. PICK u : u = notices[n].user
    OBVIOUS
  <1>w. PICK what : what = Pardon(u)
    OBVIOUS
  <1> DEFINE before == <<Learn(u)>> \o When(~mode.training, <<Unban(u)>>)
  <1>3. /\ todo' = before \o <<Approve(u), Clear(n)>> /\ Decide(u, what)
        /\ UNCHANGED <<mode, messages, status, tables, notices, cleanups>>
    BY <1>n, <1>u, <1>w DEF UnbanConfirmed
  <1>4. n \in Nat /\ n \in DOMAIN notices /\ notices[n].user = u /\ u \in Users /\ u \notin Anonymous
    BY <1>2, <1>n, <1>u
  <1>5. /\ what \in {"unban", "reversed"}
        /\ what = "unban" => verdict[u] \in {"none", "unban"} \/ (verdict[u] = "auto" /\ u \notin failed)
    BY <1>w DEF Pardon
  <1> DEFINE B == {Learn(u), Unban(u)}
             C == {Learn(u), Unban(u), Approve(u), Clear(n)}
  <1>6. C \in SUBSET Calls
    BY <1>4, CallsMade
  <1>7. verdict'[u] = what /\ what \in Verdicts
    BY <1>3, <1>4, <1>5 DEF Decide, ModerationInv, TypeOK, Verdicts
  <1>8. \A c \in C : c.op # "delete" => c.user = u /\ Justified(c)'
    <2> SUFFICES ASSUME NEW c \in C
                 PROVE  c.user = u /\ Justified(c)'
      OBVIOUS
    <2>1. CASE c = Clear(n)
      <3>1. c.op = "clear" /\ c.note = n /\ c.user = u
        BY <1>4, <2>1 DEF Clear
      <3> QED BY <1>3, <1>4, <1>5, <1>7, <3>1 DEF Justified
    <2>2. CASE c = Learn(u)
      BY <2>2 DEF Justified, Learn
    <2>3. CASE c = Unban(u)
      BY <1>3, <1>4, <1>5, <1>7, <2>3 DEF Justified, Unban
    <2>4. CASE c = Approve(u)
      BY <1>3, <1>4, <1>5, <1>7, <2>4 DEF Justified, Approve
    <2> QED BY <2>1, <2>2, <2>3, <2>4
  <1>9. /\ Learn(u) \in B /\ Unban(u) \in B /\ Approve(u) \in C /\ Clear(n) \in C /\ B \subseteq C
        /\ \A c \in B : c.op # "clear"
    BY DEF Learn, Unban
  <1> HIDE DEF B, C
  <1>10. before \in Seq(B) /\ (~mode.training => Has(before, Unban(u)))
    <2>1. <<Learn(u)>> \in Seq(B) /\ <<Unban(u)>> \in Seq(B) /\ Has(<<Unban(u)>>, Unban(u))
      BY <1>9, One
    <2>2. When(~mode.training, <<Unban(u)>>) \in Seq(B)
      BY <2>1 DEF When
    <2>3. ~mode.training => Has(When(~mode.training, <<Unban(u)>>), Unban(u))
      BY <2>1 DEF When
    <2> QED BY <2>1, <2>2, <2>3, Joined
  <1> HIDE DEF before
  <1>11. before \in Seq(C) /\ \A i \in DOMAIN before : before[i] \in B
    BY <1>9, <1>10, Wider
  <1> DEFINE last == <<Approve(u), Clear(n)>>
  <1>12. last \in Seq(C) /\ Has(last, Approve(u))
    <2>1. last \in Seq(C)
      BY <1>9
    <2>2. 1 \in DOMAIN last /\ last[1] = Approve(u)
      OBVIOUS
    <2> QED BY <2>1, <2>2 DEF Has
  <1> HIDE DEF last
  <1>13. /\ todo' \in Seq(C)
         /\ \A i \in DOMAIN before : i \in DOMAIN todo' /\ todo'[i] = before[i]
         /\ Has(todo', Approve(u))
         /\ \A i \in DOMAIN todo' : i \notin DOMAIN before => i > Len(before)
    <2>1. todo' = before \o last
      BY <1>3 DEF last
    <2> QED BY <1>11, <1>12, <2>1, Joined
  <1>14. Pending("approve", u)'
    BY <1>13 DEF Has, Pending, Approve
  <1>15. mode.training \/ Pending("unban", u)'
    <2>1. ~mode.training => Has(todo', Unban(u))
      BY <1>10, <1>13 DEF Has
    <2> QED BY <2>1 DEF Has, Pending, Unban
  <1>16. SanctionDecided(u) /\ AppealUnderWay(u) /\ ~Pending("report", u)
    BY <1>2, <1>4, NothingPending DEF ModerationInv
  <1>18. SanctionDecided(u)'
    BY <1>3, <1>5, <1>7 DEF SanctionDecided
  <1>19. status[u] # "free" /\ ~mode.training /\ what = "unban" => Appealable(u)
    BY <1>5, <1>16 DEF SanctionDecided, AppealUnderWay
  <1>20. Appealable(u) => Appealable(u)'
    BY <1>3 DEF Appealable
  <1>21. AppealUnderWay(u)'
    BY <1>3, <1>5, <1>7, <1>19, <1>20 DEF AppealUnderWay
  <1>22. DecisionUnderWay(u)'
    BY <1>3, <1>5, <1>7, <1>14, <1>15 DEF DecisionUnderWay
  <1>23. ASSUME what = "unban", ~mode.training, NEW i \in DOMAIN todo', todo'[i].op = "clear"
         PROVE  \E j \in DOMAIN todo' : j < i /\ todo'[j].op = "unban"
    <2>1. Has(before, Unban(u))
      BY <1>10, <1>23
    <2>2. PICK j \in DOMAIN before : before[j] = Unban(u)
      BY <2>1 DEF Has
    <2>3. j \in DOMAIN todo' /\ todo'[j].op = "unban"
      BY <1>13, <2>2 DEF Unban
    <2>4. i \notin DOMAIN before
      BY <1>9, <1>11, <1>13, <1>23
    <2>5. i > Len(before) /\ i \in Nat
      BY <1>13, <1>23, <2>4, LenProperties
    <2>6. j \in Nat /\ j <= Len(before) /\ Len(before) \in Nat
      BY <1>10, <2>2, LenProperties
    <2>7. j < i
      BY <2>5, <2>6
    <2> QED BY <2>3, <2>7
  <1>24. what = "unban" /\ status'[u] # "free" /\ ~mode.training =>
            \A i \in DOMAIN todo' :
                todo'[i].op = "clear" => \E j \in DOMAIN todo' : j < i /\ todo'[j].op = "unban"
    BY <1>23
  <1>25. what = "auto" =>
            \A i \in DOMAIN todo' : todo'[i].op = "ban" => i = 1 /\ Pending("report", u)'
    BY <1>5
  <1>26. /\ u \in Users /\ u \notin Anonymous /\ what \in Verdicts /\ Decide(u, what) /\ C \in SUBSET Calls /\ todo' \in Seq(C)
         /\ todo = <<>> /\ UNCHANGED <<mode, messages, status, tables, notices, cleanups>>
    BY <1>2, <1>3, <1>4, <1>6, <1>7, <1>13
  <1>27. clicks' \in Seq(ClickSet) /\ \A i \in DOMAIN clicks' : clicks'[i].note \in DOMAIN notices
    BY <1>2
  <1> QED
    BY <1>8, <1>18, <1>21, <1>22, <1>24, <1>25, <1>26, <1>27, DecisionKeeps

----------------------------------------------------------------------------
(* The calls.                                                              *)

LEMMA OneUser ==
    ASSUME ModerationInv, todo # <<>>, next.op # "delete"
    PROVE  \A i \in DOMAIN todo : todo[i].op # "delete" => todo[i].user = next.user
  <1>1. 1 \in DOMAIN todo /\ todo[1] = next
    BY CallTaken
  <1> QED
    BY <1>1 DEF ModerationInv, HandlerSound

(* A call has been made: only for its user there is something to show.     *)
LEMMA CallGoesOn ==
    ASSUME ModerationInv, todo # <<>>, next.op # "delete", todo' = Tail(todo),
           mode' = mode, verdict' = verdict, failed \subseteq failed', NoticesKept,
           NEW u \in Users, u = next.user,
           \A w \in Users : w # u => /\ status'[w] = status[w] /\ KeptTrust(w)
                                     /\ Appealable(w) => Appealable(w)',
           status'[u] = status[u] \/ next.op \in {"ban", "unban"},
           next.op = "unban" => status'[u] = "free",
           SanctionDecided(u)', AppealUnderWay(u)', u \notin failed' => DecisionUnderWay(u)'
    PROVE  /\ HandlerSound' /\ todo' \in Seq(Calls)
           /\ \A w \in Users : SanctionDecided(w)' /\ AppealUnderWay(w)'
           /\ \A w \in Users \ failed' : DecisionUnderWay(w)'
  <1>1. HandlerSound'
    BY HandlerGoesOn DEF NoticesKept
  <1>2. todo' \in Seq(Calls)
    BY CallTaken
  <1>3. \A i \in DOMAIN todo : todo[i].op # "delete" => todo[i].user = u
    BY OneUser
  <1>4. ASSUME NEW w \in Users, w # u
        PROVE  (w \notin failed' => DecisionUnderWay(w)') /\ SanctionDecided(w)' /\ AppealUnderWay(w)'
    <2>1. w \in failed => w \in failed'
      OBVIOUS
    <2>2. verdict'[w] = verdict[w] /\ status'[w] = status[w] /\ KeptTrust(w)
          /\ (Appealable(w) => Appealable(w)')
      BY <1>4
    <2> QED BY <1>3, <1>4, <2>1, <2>2, Undisturbed
  <1>5. \A w \in Users : SanctionDecided(w)' /\ AppealUnderWay(w)'
    <2> SUFFICES ASSUME NEW w \in Users
                 PROVE  SanctionDecided(w)' /\ AppealUnderWay(w)'
      OBVIOUS
    <2>1. CASE w = u
      BY <2>1 DEF SanctionDecided, AppealUnderWay, Appealable, Pending
    <2> QED BY <1>4, <2>1
  <1>6. \A w \in Users \ failed' : DecisionUnderWay(w)'
    <2> SUFFICES ASSUME NEW w \in Users \ failed'
                 PROVE  DecisionUnderWay(w)'
      OBVIOUS
    <2>1. CASE w = u
      BY <2>1 DEF DecisionUnderWay, Pending, PendingBan
    <2> QED BY <1>4, <2>1
  <1> QED
    BY <1>1, <1>2, <1>5, <1>6

LEMMA RemoveApprovedUserKeeps ==
    ASSUME ModerationConstants, ModerationInv, RemoveApprovedUser
    PROVE  ModerationInv'
  <1>1. /\ todo # <<>> /\ next.op = "disapprove" /\ approved' = approved \ {next.user}
        /\ todo' = Tail(todo)
        /\ UNCHANGED <<mode, messages, status, located, admin, cleanups, verdict>>
    BY DEF RemoveApprovedUser
  <1>2. next.user \in Users /\ Justified(next)
    BY <1>1, CallTaken
  <1>3. PICK u \in Users : u = next.user
    BY <1>2
  <1>r. PICK ok \in BOOLEAN : /\ approvedRows' = IF ok THEN approvedRows \ {u} ELSE approvedRows
                             /\ Fail(ok \/ u \notin approvedRows)
    BY <1>3 DEF RemoveApprovedUser, Record, Outcomes
  <1>f. /\ failed \subseteq failed' /\ failed' \in SUBSET Users /\ redeemed' = redeemed
        /\ u \notin failed' => u \notin approved' \union approvedRows'
    BY <1>1, <1>3, <1>r DEF Fail, ModerationInv, TypeOK
  <1>4. verdict[u] = "ban" \/ u \in Anonymous
    BY <1>1, <1>2, <1>3 DEF Justified
  <1>5. /\ \A op : op # "disapprove" /\ Pending(op, u) => Pending(op, u)'
        /\ PendingBan(u) => PendingBan(u)'
    BY <1>1, StillPending
  <1>6. SanctionDecided(u) /\ AppealUnderWay(u) /\ (u \notin failed => DecisionUnderWay(u))
        /\ (u \in Anonymous => verdict[u] = "none")
    BY DEF ModerationInv, AnonymousSpared
  <1>7. NoticesKept /\ \A w : Appealable(w) => Appealable(w)'
    BY <1>1 DEF NoticesKept, Appealable
  <1>8. SanctionDecided(u)'
    BY <1>1, <1>6 DEF SanctionDecided
  <1>9. AppealUnderWay(u)'
    BY <1>1, <1>5, <1>6, <1>7, <1>f DEF AppealUnderWay
  <1>10. u \notin failed' => DecisionUnderWay(u)'
    <2> SUFFICES ASSUME u \notin failed' PROVE DecisionUnderWay(u)'
      OBVIOUS
    <2>1. DecisionUnderWay(u) /\ u \notin approved' \union approvedRows'
      BY <1>6, <1>f
    <2>2. CASE verdict[u] = "ban"
      BY <1>1, <1>5, <2>1, <2>2 DEF DecisionUnderWay
    <2>3. CASE verdict[u] = "none"
      BY <1>1, <2>3 DEF DecisionUnderWay
    <2> QED BY <1>4, <1>6, <2>2, <2>3
  <1>11. \A w \in Users : w # u => KeptTrust(w)
    BY <1>1, <1>3, <1>f, <1>r DEF KeptTrust
  <1>12. /\ HandlerSound' /\ todo' \in Seq(Calls)
         /\ \A w \in Users : SanctionDecided(w)' /\ AppealUnderWay(w)'
         /\ \A w \in Users \ failed' : DecisionUnderWay(w)'
    BY <1>1, <1>3, <1>7, <1>8, <1>9, <1>10, <1>11, <1>f, CallGoesOn
  <1>13. approved' \in SUBSET Users /\ approvedRows' \in SUBSET Users
    BY <1>1, <1>r DEF ModerationInv, TypeOK
  <1>14. AnonymousSpared'
    BY <1>1, <1>r DEF ModerationInv, AnonymousSpared
  <1>15. TypeOK' /\ LocatorConsistent' /\ RowsKnown' /\ Reported'
    BY <1>1, <1>12, <1>13, <1>f DEF ModerationInv, TypeOK, LocatorConsistent, RowsKnown, Reported
  <1> QED
    BY <1>12, <1>14, <1>15 DEF ModerationInv

LEMMA UpdateSamplesKeeps ==
    ASSUME ModerationConstants, ModerationInv, UpdateSamples
    PROVE  ModerationInv'
  <1>1. /\ todo # <<>> /\ next.op = "learn"
        /\ UNCHANGED <<mode, messages, status, tables, admin, cleanups, verdict>>
    BY DEF UpdateSamples
  <1>2. PICK ok \in BOOLEAN : StopUnless(ok) /\ Fail(ok)
    BY DEF UpdateSamples, Outcomes
  <1>k. redeemed' = redeemed /\ \A w \in Users : KeptTrust(w)
    BY <1>1, <1>2, TrustSame DEF Fail
  <1>3. next.user \in Users /\ <<>> \in Seq(Calls)
    BY <1>1, CallTaken
  <1>4. NoticesKept /\ \A w : Appealable(w) => Appealable(w)'
    BY <1>1 DEF NoticesKept, Appealable
  <1>5. /\ HandlerSound' /\ todo' \in Seq(Calls) /\ failed' \in SUBSET Users
        /\ \A w \in Users : SanctionDecided(w)' /\ AppealUnderWay(w)'
        /\ \A w \in Users \ failed' : DecisionUnderWay(w)'
    <2>1. CASE ok
      <3>1. todo' = Tail(todo) /\ failed' = failed
        BY <1>2, <2>1 DEF StopUnless, Fail
      <3>2. PICK u \in Users : u = next.user
        BY <1>3
      <3>3. /\ \A op : op # "learn" /\ Pending(op, u) => Pending(op, u)'
            /\ PendingBan(u) => PendingBan(u)'
        BY <1>1, <3>1, StillPending
      <3>4. SanctionDecided(u) /\ AppealUnderWay(u) /\ (u \notin failed => DecisionUnderWay(u))
        BY DEF ModerationInv
      <3>5. SanctionDecided(u)'
        BY <1>1, <3>4 DEF SanctionDecided
      <3>6. AppealUnderWay(u)'
        BY <1>1, <1>4, <3>1, <3>3, <3>4 DEF AppealUnderWay
      <3>7. u \notin failed' => DecisionUnderWay(u)'
        BY <1>1, <1>k, <3>1, <3>3, <3>4 DEF DecisionUnderWay
      <3>8. /\ HandlerSound' /\ todo' \in Seq(Calls)
            /\ \A w \in Users : SanctionDecided(w)' /\ AppealUnderWay(w)'
            /\ \A w \in Users \ failed' : DecisionUnderWay(w)'
        BY <1>1, <1>4, <1>k, <3>1, <3>2, <3>5, <3>6, <3>7, CallGoesOn
      <3> QED BY <3>1, <3>8 DEF ModerationInv, TypeOK
    <2>2. CASE ~ok
      <3>1. todo' = <<>> /\ failed' = failed \union {next.user}
        BY <1>2, <2>2 DEF StopUnless, Fail
      <3>2. failed' \in SUBSET Users
        BY <1>3, <3>1 DEF ModerationInv, TypeOK
      <3> QED BY <1>1, <1>3, <1>4, <1>k, <3>1, <3>2, HandlerStops
    <2> QED BY <2>1, <2>2
  <1>6. TypeOK' /\ LocatorConsistent' /\ RowsKnown' /\ Reported' /\ AnonymousSpared'
    BY <1>1, <1>5, <1>k
    DEF ModerationInv, TypeOK, LocatorConsistent, RowsKnown, Reported, AnonymousSpared
  <1> QED
    BY <1>5, <1>6 DEF ModerationInv

LEMMA AddApprovedUserKeeps ==
    ASSUME ModerationConstants, ModerationInv, AddApprovedUser
    PROVE  ModerationInv'
  <1>1. /\ todo # <<>> /\ next.op = "approve" /\ approved' = approved \union {next.user}
        /\ UNCHANGED <<mode, messages, status, located, admin, cleanups, verdict>>
    BY DEF AddApprovedUser
  <1>2. PICK ok \in BOOLEAN :
            /\ approvedRows' = IF ok THEN approvedRows \union {next.user} ELSE approvedRows
            /\ StopUnless(ok) /\ Fail(ok)
    BY DEF AddApprovedUser, Record, Outcomes
  <1>r. redeemed' = redeemed
    BY <1>2 DEF Fail
  <1>3. next.user \in Users /\ <<>> \in Seq(Calls) /\ Justified(next)
    BY <1>1, CallTaken
  <1>4. PICK u \in Users : u = next.user
    BY <1>3
  <1>5. verdict[u] \in {"unban", "reversed"} /\ u \notin Anonymous
    BY <1>1, <1>3, <1>4 DEF Justified
  <1>6. NoticesKept /\ \A w : Appealable(w) => Appealable(w)'
    BY <1>1 DEF NoticesKept, Appealable
  <1>7. \A w \in Users : w # u => KeptTrust(w)
    BY <1>1, <1>2, <1>4, <1>r DEF KeptTrust
  <1>8. /\ HandlerSound' /\ todo' \in Seq(Calls) /\ failed' \in SUBSET Users
        /\ \A w \in Users : SanctionDecided(w)' /\ AppealUnderWay(w)'
        /\ \A w \in Users \ failed' : DecisionUnderWay(w)'
    <2>1. CASE ok
      <3>1. todo' = Tail(todo) /\ failed' = failed
        BY <1>2, <2>1 DEF StopUnless, Fail
      <3>2. /\ \A op : op # "approve" /\ Pending(op, u) => Pending(op, u)'
            /\ PendingBan(u) => PendingBan(u)'
        BY <1>1, <3>1, StillPending
      <3>3. SanctionDecided(u) /\ AppealUnderWay(u) /\ (u \notin failed => DecisionUnderWay(u))
        BY DEF ModerationInv
      <3>4. SanctionDecided(u)'
        BY <1>1, <3>3 DEF SanctionDecided
      <3>5. AppealUnderWay(u)'
        BY <1>1, <1>6, <3>1, <3>2, <3>3 DEF AppealUnderWay
      <3>6. u \notin failed' => DecisionUnderWay(u)'
        BY <1>1, <1>2, <1>4, <1>5, <2>1, <3>1, <3>2, <3>3 DEF DecisionUnderWay
      <3>7. /\ HandlerSound' /\ todo' \in Seq(Calls)
            /\ \A w \in Users : SanctionDecided(w)' /\ AppealUnderWay(w)'
            /\ \A w \in Users \ failed' : DecisionUnderWay(w)'
        BY <1>1, <1>4, <1>6, <1>7, <3>1, <3>4, <3>5, <3>6, CallGoesOn
      <3> QED BY <3>1, <3>7 DEF ModerationInv, TypeOK
    <2>2. CASE ~ok
      <3>1. todo' = <<>> /\ failed' = failed \union {next.user}
        BY <1>2, <2>2 DEF StopUnless, Fail
      <3>2. failed' \in SUBSET Users
        BY <1>3, <3>1 DEF ModerationInv, TypeOK
      <3>3. \A w \in Users : w # next.user => KeptTrust(w)
        BY <1>4, <1>7
      <3> QED BY <1>1, <1>3, <1>6, <3>1, <3>2, <3>3, HandlerStops
    <2> QED BY <2>1, <2>2
  <1>9. approved' \in SUBSET Users /\ approvedRows' \in SUBSET Users
    BY <1>1, <1>2, <1>3 DEF ModerationInv, TypeOK
  <1>10. AnonymousSpared'
    BY <1>1, <1>2, <1>4, <1>5 DEF ModerationInv, AnonymousSpared
  <1>11. TypeOK' /\ LocatorConsistent' /\ RowsKnown' /\ Reported'
    BY <1>1, <1>8, <1>9, <1>r DEF ModerationInv, TypeOK, LocatorConsistent, RowsKnown, Reported
  <1> QED
    BY <1>8, <1>10, <1>11 DEF ModerationInv

LEMMA UnbanUserKeeps ==
    ASSUME ModerationConstants, ModerationInv, UnbanUser
    PROVE  ModerationInv'
  <1>1. /\ todo # <<>> /\ next.op = "unban"
        /\ UNCHANGED <<mode, messages, tables, admin, cleanups, verdict>>
    BY DEF UnbanUser
  <1>2. PICK ok \in BOOLEAN :
            /\ status' = IF ok THEN [status EXCEPT ![next.user] = "free"] ELSE status
            /\ StopUnless(ok) /\ Fail(ok)
    BY DEF UnbanUser, Outcomes
  <1>k. redeemed' = redeemed /\ \A w \in Users : KeptTrust(w)
    BY <1>1, <1>2, TrustSame DEF Fail
  <1>3. next.user \in Users /\ <<>> \in Seq(Calls) /\ Justified(next)
    BY <1>1, CallTaken
  <1>4. PICK u \in Users : u = next.user
    BY <1>3
  <1>5. verdict[u] \in {"unban", "reversed"} /\ u \notin Anonymous
    BY <1>1, <1>3, <1>4 DEF Justified
  <1>6. NoticesKept /\ \A w : Appealable(w) => Appealable(w)'
    BY <1>1 DEF NoticesKept, Appealable
  <1>7. status \in [Users -> Statuses]
    BY DEF ModerationInv, TypeOK
  <1>8. status' \in [Users -> Statuses] /\ \A w \in Users : w # u => status'[w] = status[w]
    BY <1>2, <1>4, <1>7 DEF Statuses
  <1>9. /\ HandlerSound' /\ todo' \in Seq(Calls) /\ failed' \in SUBSET Users
        /\ \A w \in Users : SanctionDecided(w)' /\ AppealUnderWay(w)'
        /\ \A w \in Users \ failed' : DecisionUnderWay(w)'
    <2>1. CASE ok
      <3>1. todo' = Tail(todo) /\ failed' = failed /\ status'[u] = "free"
        BY <1>2, <1>4, <1>7, <2>1 DEF StopUnless, Fail
      <3>2. /\ \A op : op # "unban" /\ Pending(op, u) => Pending(op, u)'
            /\ PendingBan(u) => PendingBan(u)'
        BY <1>1, <3>1, StillPending
      <3>3. u \notin failed => DecisionUnderWay(u)
        BY DEF ModerationInv
      <3>4. SanctionDecided(u)'
        BY <3>1 DEF SanctionDecided
      <3>5. AppealUnderWay(u)'
        BY <3>1 DEF AppealUnderWay
      <3>6. u \notin failed' => DecisionUnderWay(u)'
        BY <1>1, <1>5, <1>k, <3>1, <3>2, <3>3 DEF DecisionUnderWay
      <3>7. /\ HandlerSound' /\ todo' \in Seq(Calls)
            /\ \A w \in Users : SanctionDecided(w)' /\ AppealUnderWay(w)'
            /\ \A w \in Users \ failed' : DecisionUnderWay(w)'
        BY <1>1, <1>4, <1>6, <1>8, <1>k, <3>1, <3>4, <3>5, <3>6, CallGoesOn
      <3> QED BY <3>1, <3>7 DEF ModerationInv, TypeOK
    <2>2. CASE ~ok
      <3>1. todo' = <<>> /\ failed' = failed \union {next.user} /\ status' = status
        BY <1>2, <2>2 DEF StopUnless, Fail
      <3>2. failed' \in SUBSET Users
        BY <1>3, <3>1 DEF ModerationInv, TypeOK
      <3> QED BY <1>1, <1>3, <1>6, <1>k, <3>1, <3>2, HandlerStops
    <2> QED BY <2>1, <2>2
  <1>10. AnonymousSpared'
    <2>1. Anonymous \subseteq Users
      BY DEF ModerationConstants, ModerationInv, TypeOK
    <2> QED BY <1>1, <1>5, <1>8, <2>1 DEF ModerationInv, AnonymousSpared
  <1>11. TypeOK' /\ LocatorConsistent' /\ RowsKnown' /\ Reported'
    BY <1>1, <1>8, <1>9, <1>k DEF ModerationInv, TypeOK, LocatorConsistent, RowsKnown, Reported
  <1> QED
    BY <1>9, <1>10, <1>11 DEF ModerationInv

LEMMA SendReportKeeps ==
    ASSUME ModerationConstants, ModerationInv, SendReport
    PROVE  ModerationInv'
  <1>1. /\ todo # <<>> /\ next.op = "report" /\ todo' = Tail(todo)
        /\ UNCHANGED <<mode, messages, status, tables, clicks, cleanups, verdict>>
    BY DEF SendReport
  <1> DEFINE report == [user |-> next.user, msg |-> next.msg, text |-> next.text, buttons |-> {"ask", "info"}]
  <1>2. PICK ok \in BOOLEAN : notices' = (IF ok THEN Append(notices, report) ELSE notices) /\ Fail(ok)
    BY DEF SendReport, Outcomes
  <1>k. redeemed' = redeemed /\ \A w \in Users : KeptTrust(w)
    BY <1>1, <1>2, TrustSame DEF Fail
  <1>3. next \in Calls /\ next.user \in Users /\ Justified(next)
    BY <1>1, CallTaken
  <1>4. PICK u \in Users : u = next.user
    BY <1>3
  <1>5. u \notin Anonymous
    BY <1>1, <1>3, <1>4 DEF Justified
  <1>6. report \in NoticeSet /\ report.user = u /\ report.buttons # {}
    <2>1. next.msg \in Nat /\ next.text \in Texts
      BY <1>1, <1>3, CallFields
    <2> QED BY <1>4, <2>1 DEF NoticeSet, Buttons
  <1> HIDE DEF report
  <1> DEFINE N == Len(notices)
  <1>7. notices \in Seq(NoticeSet) /\ N \in Nat /\ DOMAIN notices = 1 .. N
    BY LenProperties DEF ModerationInv, TypeOK
  <1>8. /\ notices' \in Seq(NoticeSet)
        /\ NoticesKept /\ (\A w : Appealable(w) => Appealable(w)')
        /\ \A n \in DOMAIN notices' : notices'[n].user \notin Anonymous
        /\ ok => Appealable(u)'
    <2>1. CASE ok
      <3>1. /\ notices' \in Seq(NoticeSet) /\ DOMAIN notices' = 1 .. N + 1
            /\ \A i \in 1 .. N : notices'[i] = notices[i]
            /\ notices'[N + 1] = report
        BY <1>2, <1>6, <1>7, <2>1, AppendProperties, LenProperties
      <3>2. N + 1 \in 1 .. N + 1 /\ \A i \in 1 .. N + 1 : i = N + 1 \/ i \in 1 .. N
        BY <1>7
      <3>3. \A i \in 1 .. N : i \in 1 .. N + 1
        BY <1>7
      <3> HIDE DEF N
      <3>4. NoticesKept
        BY <1>7, <3>1, <3>3 DEF NoticesKept
      <3>5. \A w : Appealable(w) => Appealable(w)'
        BY <1>7, <3>1, <3>3 DEF Appealable
      <3>6. \A n \in DOMAIN notices' : notices'[n].user \notin Anonymous
        BY <1>5, <1>6, <1>7, <3>1, <3>2 DEF ModerationInv, Reported
      <3>7. Appealable(u)'
        BY <1>6, <3>1, <3>2 DEF Appealable
      <3> QED BY <3>1, <3>4, <3>5, <3>6, <3>7
    <2>2. CASE ~ok
      <3>1. notices' = notices
        BY <1>2, <2>2
      <3> QED BY <1>7, <2>2, <3>1 DEF NoticesKept, Appealable, ModerationInv, Reported
    <2> QED BY <2>1, <2>2
  <1> HIDE DEF N
  <1>9. failed \subseteq failed' /\ failed' \in SUBSET Users /\ (u \notin failed' => ok)
    BY <1>2, <1>4 DEF Fail, ModerationInv, TypeOK
  <1>10. /\ \A op : op # "report" /\ Pending(op, u) => Pending(op, u)'
         /\ PendingBan(u) => PendingBan(u)'
    BY <1>1, StillPending
  <1>11. SanctionDecided(u) /\ AppealUnderWay(u) /\ (u \notin failed => DecisionUnderWay(u))
    BY DEF ModerationInv
  <1>12. SanctionDecided(u)'
    BY <1>1, <1>11 DEF SanctionDecided
  <1>13. AppealUnderWay(u)'
    BY <1>1, <1>8, <1>9, <1>11 DEF AppealUnderWay
  <1>14. u \notin failed' => DecisionUnderWay(u)'
    <2> SUFFICES ASSUME u \notin failed' PROVE DecisionUnderWay(u)'
      OBVIOUS
    <2>1. DecisionUnderWay(u)
      BY <1>9, <1>11
    <2> QED BY <1>1, <1>10, <1>k, <2>1 DEF DecisionUnderWay
  <1>15. /\ HandlerSound' /\ todo' \in Seq(Calls)
         /\ \A w \in Users : SanctionDecided(w)' /\ AppealUnderWay(w)'
         /\ \A w \in Users \ failed' : DecisionUnderWay(w)'
    <2>1. \A w \in Users : w # u => /\ status'[w] = status[w] /\ KeptTrust(w)
                                    /\ Appealable(w) => Appealable(w)'
      BY <1>1, <1>8, <1>k
    <2>2. next.op # "delete" /\ next.op # "unban" /\ status'[u] = status[u]
      BY <1>1
    <2>3. mode' = mode /\ verdict' = verdict /\ failed \subseteq failed' /\ NoticesKept
      BY <1>1, <1>8, <1>9
    <2> QED BY <1>1, <1>4, <1>12, <1>13, <1>14, <2>1, <2>2, <2>3, CallGoesOn
  <1>16. TypeOK' /\ LocatorConsistent' /\ RowsKnown'
    BY <1>1, <1>8, <1>9, <1>15, <1>k DEF ModerationInv, TypeOK, LocatorConsistent, RowsKnown
  <1>17. Reported' /\ AnonymousSpared'
    <2>1. \A i \in DOMAIN clicks : clicks[i].note \in DOMAIN notices'
      BY <1>8 DEF NoticesKept, ModerationInv, Reported
    <2> QED BY <1>1, <1>8, <2>1 DEF ModerationInv, Reported, AnonymousSpared
  <1> QED
    BY <1>15, <1>16, <1>17 DEF ModerationInv

LEMMA ClearButtonsKeeps ==
    ASSUME ModerationConstants, ModerationInv, ClearButtons
    PROVE  ModerationInv'
  <1>1. /\ todo # <<>> /\ next.op = "clear"
        /\ UNCHANGED <<mode, messages, status, tables, clicks, cleanups, verdict>>
    BY DEF ClearButtons
  <1>n. PICK n : n = next.note
    OBVIOUS
  <1>2. PICK ok \in BOOLEAN : Show(n, {}, ok) /\ StopUnless(ok) /\ Fail(ok)
    BY <1>n DEF ClearButtons, Outcomes
  <1>k. redeemed' = redeemed /\ \A w \in Users : KeptTrust(w)
    BY <1>1, <1>2, TrustSame DEF Fail
  <1>3. /\ next.user \in Users /\ <<>> \in Seq(Calls) /\ Justified(next)
        /\ 1 \in DOMAIN todo /\ todo[1] = next
    BY <1>1, CallTaken
  <1>4. PICK u \in Users : u = next.user
    BY <1>3
  <1>5. /\ verdict[u] \in {"keep", "unban", "reversed"}
        /\ n \in DOMAIN notices /\ notices[n].user = u
    BY <1>1, <1>3, <1>4, <1>n DEF Justified
  <1>6. {} \in SUBSET Buttons
    OBVIOUS
  <1>7. /\ notices' \in Seq(NoticeSet) /\ DOMAIN notices' = DOMAIN notices
        /\ \A k \in DOMAIN notices : notices'[k].user = notices[k].user
        /\ \A w : w # u /\ Appealable(w) => Appealable(w)'
    BY <1>2, <1>5, <1>6, ShowEffect
  <1>8. NoticesKept
    BY <1>7 DEF NoticesKept
  <1>9. verdict[u] = "unban" => status[u] = "free" \/ mode.training
    <2> SUFFICES ASSUME verdict[u] = "unban", ~mode.training
                 PROVE  status[u] = "free"
      OBVIOUS
    <2>1. status[u] = "free" \/ \E j \in DOMAIN todo : j < 1
      BY <1>1, <1>3, <1>4 DEF ModerationInv, HandlerSound
    <2>2. todo \in Seq(Calls)
      BY DEF ModerationInv, TypeOK
    <2>3. \A j \in DOMAIN todo : ~(j < 1)
      BY <2>2, LenProperties
    <2> QED BY <2>1, <2>3
  <1>10. /\ HandlerSound' /\ todo' \in Seq(Calls) /\ failed' \in SUBSET Users
         /\ \A w \in Users : SanctionDecided(w)' /\ AppealUnderWay(w)'
         /\ \A w \in Users \ failed' : DecisionUnderWay(w)'
    <2>1. CASE ok
      <3>1. todo' = Tail(todo) /\ failed' = failed
        BY <1>2, <2>1 DEF StopUnless, Fail
      <3>2. /\ \A op : op # "clear" /\ Pending(op, u) => Pending(op, u)'
            /\ PendingBan(u) => PendingBan(u)'
        BY <1>1, <3>1, StillPending
      <3>3. SanctionDecided(u) /\ (u \notin failed => DecisionUnderWay(u))
        BY DEF ModerationInv
      <3>4. SanctionDecided(u)'
        BY <1>1, <3>3 DEF SanctionDecided
      <3>5. AppealUnderWay(u)'
        BY <1>1, <1>5, <1>9 DEF AppealUnderWay
      <3>6. u \notin failed' => DecisionUnderWay(u)'
        BY <1>1, <1>k, <3>1, <3>2, <3>3 DEF DecisionUnderWay
      <3>7. \A w \in Users : w # u => /\ status'[w] = status[w] /\ KeptTrust(w)
                                      /\ Appealable(w) => Appealable(w)'
        BY <1>1, <1>7, <1>k
      <3>8. /\ HandlerSound' /\ todo' \in Seq(Calls)
            /\ \A w \in Users : SanctionDecided(w)' /\ AppealUnderWay(w)'
            /\ \A w \in Users \ failed' : DecisionUnderWay(w)'
        BY <1>1, <1>4, <1>8, <3>1, <3>4, <3>5, <3>6, <3>7, CallGoesOn
      <3> QED BY <3>1, <3>8 DEF ModerationInv, TypeOK
    <2>2. CASE ~ok
      <3>1. todo' = <<>> /\ failed' = failed \union {next.user} /\ notices' = notices
        BY <1>2, <2>2 DEF StopUnless, Fail, Show
      <3>2. failed' \in SUBSET Users
        BY <1>3, <3>1 DEF ModerationInv, TypeOK
      <3>3. \A w \in Users : Appealable(w) => Appealable(w)'
        BY <3>1 DEF Appealable
      <3> QED BY <1>1, <1>3, <1>k, <3>1, <3>2, <3>3, HandlerStops
    <2> QED BY <2>1, <2>2
  <1>11. TypeOK' /\ LocatorConsistent' /\ RowsKnown'
    BY <1>1, <1>7, <1>10, <1>k DEF ModerationInv, TypeOK, LocatorConsistent, RowsKnown
  <1>12. Reported' /\ AnonymousSpared'
    BY <1>1, <1>7 DEF ModerationInv, Reported, AnonymousSpared
  <1> QED
    BY <1>10, <1>11, <1>12 DEF ModerationInv

LEMMA StartCleanupKeeps ==
    ASSUME ModerationConstants, ModerationInv, StartCleanup
    PROVE  ModerationInv'
  <1> DEFINE c == [msg |-> next.msg, user |-> next.user, fetched |-> FALSE, ids |-> <<>>, failures |-> 0]
  <1>1. /\ todo # <<>> /\ next.op = "cleanup" /\ todo' = Tail(todo) /\ cleanups' = cleanups \union {c}
        /\ UNCHANGED <<mode, messages, status, tables, admin, history>>
    BY DEF StartCleanup
  <1>k. \A w \in Users : KeptTrust(w)
    BY <1>1, TrustSame
  <1>2. next \in Calls /\ next.user \in Users
    BY <1>1, CallTaken
  <1>3. c \in CleanupSet
    <2>1. next.msg \in Nat
      BY <1>1, <1>2, CallFields
    <2>2. 0 \in 0 .. MaxFailures /\ <<>> \in Seq(Nat)
      BY DEF ModerationConstants
    <2> QED BY <1>2, <2>1, <2>2 DEF CleanupSet
  <1> HIDE DEF c
  <1>4. PICK u \in Users : u = next.user
    BY <1>2
  <1>5. /\ \A op : op # "cleanup" /\ Pending(op, u) => Pending(op, u)'
        /\ PendingBan(u) => PendingBan(u)'
    BY <1>1, StillPending
  <1>6. SanctionDecided(u) /\ AppealUnderWay(u) /\ (u \notin failed => DecisionUnderWay(u))
    BY DEF ModerationInv
  <1>7. NoticesKept /\ \A w : Appealable(w) => Appealable(w)'
    BY <1>1 DEF NoticesKept, Appealable
  <1>8. SanctionDecided(u)'
    BY <1>1, <1>6 DEF SanctionDecided
  <1>9. AppealUnderWay(u)'
    BY <1>1, <1>5, <1>6, <1>7 DEF AppealUnderWay
  <1>10. u \notin failed' => DecisionUnderWay(u)'
    BY <1>1, <1>5, <1>6 DEF DecisionUnderWay
  <1>11. /\ HandlerSound' /\ todo' \in Seq(Calls)
         /\ \A w \in Users : SanctionDecided(w)' /\ AppealUnderWay(w)'
         /\ \A w \in Users \ failed' : DecisionUnderWay(w)'
    BY <1>1, <1>4, <1>7, <1>8, <1>9, <1>10, <1>k, CallGoesOn
  <1>12. cleanups' \in SUBSET CleanupSet
    BY <1>1, <1>3 DEF ModerationInv, TypeOK
  <1>13. TypeOK' /\ LocatorConsistent' /\ RowsKnown' /\ Reported' /\ AnonymousSpared'
    BY <1>1, <1>11, <1>12
    DEF ModerationInv, TypeOK, LocatorConsistent, RowsKnown, Reported, AnonymousSpared
  <1> QED
    BY <1>11, <1>13 DEF ModerationInv

(* A message that is deleted keeps its author and texts.                   *)
LEMMA MarkedDeleted ==
    ASSUME ModerationInv, NEW m, MarkDeleted(m)
    PROVE  messages' \in Seq(MessageSet) /\ MessagesKept
  <1> DEFINE N == Len(messages)
  <1>1. /\ messages \in Seq(MessageSet) /\ N \in Nat /\ DOMAIN messages = 1 .. N
        /\ \A k \in 1 .. N : messages[k] \in MessageSet
    BY LenProperties DEF ModerationInv, TypeOK
  <1>2. CASE m \notin DOMAIN messages
    <2>1. messages' = messages
      BY <1>2 DEF MarkDeleted
    <2> QED BY <1>1, <2>1 DEF MessagesKept
  <1>3. CASE m \in DOMAIN messages
    <2>1. messages' = [messages EXCEPT ![m].there = FALSE]
      BY <1>3 DEF MarkDeleted
    <2>2. \A k \in 1 .. N :
            messages'[k] = IF k = m THEN [messages[k] EXCEPT !.there = FALSE] ELSE messages[k]
      BY <1>1, <2>1
    <2>3. \A k \in 1 .. N : messages'[k] \in MessageSet
      BY <1>1, <2>2 DEF MessageSet
    <2>4. \A k \in 1 .. N : messages'[k].from = messages[k].from /\ messages'[k].said = messages[k].said
      BY <1>1, <2>2 DEF MessageSet
    <2>5. messages' = [k \in 1 .. N |-> messages'[k]]
      BY <1>1, <2>1
    <2> HIDE DEF N
    <2>6. messages' \in [1 .. N -> MessageSet]
      BY <2>3, <2>5
    <2>7. messages' \in Seq(MessageSet) /\ DOMAIN messages' = 1 .. N
      BY <1>1, <2>6
    <2>8. MessagesKept
      BY <1>1, <2>4, <2>7 DEF MessagesKept
    <2> QED BY <2>7, <2>8
  <1> QED
    BY <1>2, <1>3

LEMMA DeleteMessageKeeps ==
    ASSUME ModerationConstants, ModerationInv, DeleteMessage
    PROVE  ModerationInv'
  <1>1. /\ todo # <<>> /\ next.op = "delete" /\ todo' = Tail(todo)
        /\ UNCHANGED <<mode, status, tables, admin, cleanups, history>>
    BY DEF DeleteMessage
  <1>m. PICK m : m = next.msg
    OBVIOUS
  <1>2. MarkDeleted(m) \/ UNCHANGED messages
    BY <1>m DEF DeleteMessage
  <1>3. messages' \in Seq(MessageSet) /\ MessagesKept
    <2>1. CASE UNCHANGED messages
      BY <2>1 DEF MessagesKept, ModerationInv, TypeOK
    <2> QED BY <1>2, <2>1, MarkedDeleted
  <1>4. LocatorConsistent' /\ RowsKnown'
    BY <1>1, <1>3, RowsStay
  <1>5. todo' \in Seq(Calls)
    BY <1>1, CallTaken
  <1>6. HandlerSound'
    BY <1>1, HandlerGoesOn
  <1>7. ASSUME NEW w \in Users
        PROVE  (w \notin failed' => DecisionUnderWay(w)') /\ SanctionDecided(w)' /\ AppealUnderWay(w)'
    <2>1. /\ \A op : op # "delete" /\ Pending(op, w) => Pending(op, w)'
          /\ PendingBan(w) => PendingBan(w)'
      BY <1>1, StillPending
    <2>2. SanctionDecided(w) /\ AppealUnderWay(w) /\ (w \notin failed => DecisionUnderWay(w))
      BY DEF ModerationInv
    <2>3. Appealable(w) => Appealable(w)'
      BY <1>1 DEF Appealable
    <2>4. SanctionDecided(w)'
      BY <1>1, <2>2 DEF SanctionDecided
    <2>5. AppealUnderWay(w)'
      BY <1>1, <2>1, <2>2, <2>3 DEF AppealUnderWay
    <2>6. w \notin failed' => DecisionUnderWay(w)'
      BY <1>1, <2>1, <2>2 DEF DecisionUnderWay
    <2> QED BY <2>4, <2>5, <2>6
  <1>8. TypeOK' /\ Reported' /\ AnonymousSpared'
    BY <1>1, <1>3, <1>5 DEF ModerationInv, TypeOK, Reported, AnonymousSpared
  <1> QED
    BY <1>4, <1>6, <1>7, <1>8 DEF ModerationInv

LEMMA BanUserOrChannelKeeps ==
    ASSUME ModerationConstants, ModerationInv, BanUserOrChannel
    PROVE  ModerationInv'
  <1> DEFINE skipped == mode.dry \/ (mode.training /\ next.how # "confirmed")
  <1>1. /\ todo # <<>> /\ next.op = "ban"
        /\ UNCHANGED <<mode, messages, tables, admin, cleanups, verdict>>
    BY DEF BanUserOrChannel
  <1>2. /\ next \in Calls /\ next.user \in Users /\ Justified(next)
        /\ 1 \in DOMAIN todo /\ todo[1] = next
    BY <1>1, CallTaken
  <1>3. PICK u \in Users : u = next.user
    BY <1>2
  <1>s. PICK sanction \in {"restricted", "banned"} :
            sanction = IF next.how = "restrict" /\ u \notin Channels THEN "restricted" ELSE "banned"
    OBVIOUS
  <1>4. PICK ok \in BOOLEAN :
            /\ skipped => ok
            /\ status' = IF ok /\ ~skipped THEN [status EXCEPT ![u] = sanction] ELSE status
            /\ todo' = IF ok THEN Tail(todo) ELSE Unreported(Tail(todo))
            /\ Fail(ok)
    BY <1>3, <1>s DEF BanUserOrChannel, Outcomes
  <1>k. redeemed' = redeemed /\ \A w \in Users : KeptTrust(w)
    BY <1>1, <1>4, TrustSame DEF Fail
  <1>5. /\ u \notin Anonymous
        /\ \/ verdict[u] = "auto" /\ next.how # "confirmed"
           \/ verdict[u] \in {"ban", "keep"} /\ next.how # "restrict"
    BY <1>1, <1>2, <1>3 DEF Justified
  <1>6. NoticesKept /\ \A w : Appealable(w) => Appealable(w)'
    BY <1>1 DEF NoticesKept, Appealable
  <1>7. status \in [Users -> Statuses]
    BY DEF ModerationInv, TypeOK
  <1>8. status' \in [Users -> Statuses] /\ \A w \in Users : w # u => status'[w] = status[w]
    BY <1>4, <1>7 DEF Statuses
  <1>9. SanctionDecided(u) /\ AppealUnderWay(u) /\ (u \notin failed => DecisionUnderWay(u))
    BY DEF ModerationInv
  <1>10. SanctionDecided(u)'
    <2>1. CASE ok /\ ~skipped
      BY <1>1, <1>5, <2>1 DEF SanctionDecided
    <2>2. CASE ~(ok /\ ~skipped)
      BY <1>1, <1>4, <1>9, <2>2 DEF SanctionDecided
    <2> QED BY <2>1, <2>2
  <1>11. /\ HandlerSound' /\ todo' \in Seq(Calls) /\ failed' \in SUBSET Users
         /\ \A w \in Users : SanctionDecided(w)' /\ AppealUnderWay(w)'
         /\ \A w \in Users \ failed' : DecisionUnderWay(w)'
    <2>1. CASE ok
      <3>1. todo' = Tail(todo) /\ failed' = failed
        BY <1>4, <2>1 DEF Fail
      <3>2. /\ \A op : op # "ban" /\ Pending(op, u) => Pending(op, u)'
            /\ PendingBan(u) =>
                    PendingBan(u)' \/ (next.how # "restrict" /\ (mode.training => next.how = "confirmed"))
        BY <1>1, <3>1, StillPending
      <3>3. verdict[u] = "auto" => Pending("report", u)'
        <4>1. verdict[u] = "auto" => Pending("report", u)
          BY <1>1, <1>2, <1>3 DEF ModerationInv, HandlerSound
        <4> QED BY <3>2, <4>1
      <3>4. AppealUnderWay(u)'
        BY <1>1, <1>5, <3>3 DEF AppealUnderWay
      <3>5. u \notin failed' => DecisionUnderWay(u)'
        <4> SUFFICES ASSUME u \notin failed' PROVE DecisionUnderWay(u)'
          OBVIOUS
        <4>1. DecisionUnderWay(u)
          BY <1>9, <3>1
        <4>2. verdict'[u] \notin {"unban", "reversed"}
          BY <1>1, <1>5
        <4>3. CASE ~skipped
          <5>1. verdict[u] \in {"ban", "keep"} => status'[u] = "banned"
            BY <1>4, <1>5, <1>7, <1>s, <2>1, <4>3
          <5> QED BY <1>1, <1>k, <3>2, <4>1, <4>2, <5>1 DEF DecisionUnderWay
        <4>4. CASE skipped
          <5>1. status' = status
            BY <1>4, <4>4
          <5> QED BY <1>1, <1>k, <3>2, <4>1, <4>2, <4>4, <5>1 DEF DecisionUnderWay
        <4> QED BY <4>3, <4>4
      <3>6. \A w \in Users : w # u => /\ status'[w] = status[w] /\ KeptTrust(w)
                                      /\ Appealable(w) => Appealable(w)'
        BY <1>1, <1>6, <1>8, <1>k
      <3>7. next.op # "delete" /\ next.op # "unban" /\ next.op \in {"ban", "unban"}
        BY <1>1
      <3>8. /\ HandlerSound' /\ todo' \in Seq(Calls)
            /\ \A w \in Users : SanctionDecided(w)' /\ AppealUnderWay(w)'
            /\ \A w \in Users \ failed' : DecisionUnderWay(w)'
        BY <1>1, <1>3, <1>6, <1>10, <3>1, <3>4, <3>5, <3>6, <3>7, CallGoesOn
      <3> QED BY <3>1, <3>8 DEF ModerationInv, TypeOK
    <2>2. CASE ~ok
      <3>1. status' = status /\ failed' = failed \union {u} /\ todo' = Unreported(Tail(todo))
        BY <1>3, <1>4, <2>2 DEF Fail
      <3> DEFINE T == Tail(todo)
                 I == {i \in DOMAIN T : T[i].op # "report"}
      <3>2. /\ T \in Seq(Calls)
            /\ \A i \in DOMAIN T : \E k \in DOMAIN todo : k # 1 /\ T[i] = todo[k]
        BY <1>1, CallTaken
      <3>3. todo' = Keep(T, I)
        BY <3>1 DEF Unreported
      <3>4. I \in SUBSET (1 .. Len(T)) /\ I \subseteq DOMAIN T
        BY <3>2, LenProperties
      <3> HIDE DEF T, I
      <3>5. todo' \in Seq(Calls) /\ \A i \in DOMAIN todo' : \E k \in I : todo'[i] = T[k]
        BY <3>2, <3>3, <3>4, KeepElements
      <3>6. \A i \in DOMAIN todo' : \E k \in DOMAIN todo : k # 1 /\ todo'[i] = todo[k]
        BY <3>2, <3>4, <3>5
      <3>7. \A i \in DOMAIN todo : todo[i].op # "delete" => todo[i].user = u
        BY <1>1, <1>3, OneUser
      <3>8. HandlerSound
        BY DEF ModerationInv
      <3>9. \A i \in DOMAIN todo' : todo'[i].op # "delete" => todo'[i].user = u
        BY <3>6, <3>7
      <3>10. ASSUME NEW i \in DOMAIN todo', todo'[i].op # "delete"
             PROVE  Justified(todo[i])'
        <4>1. PICK k \in DOMAIN todo : todo'[i] = todo[k]
          BY <3>6
        <4>2. Justified(todo[k])
          BY <3>8, <3>10, <4>1 DEF HandlerSound
        <4> QED BY <1>1, <3>1, <4>1, <4>2 DEF Justified
      <3>11. \A i \in DOMAIN todo' : ~(todo'[i].op = "ban" /\ verdict'[todo'[i].user] = "auto")
        BY <1>1, <3>6, <3>8 DEF HandlerSound
      <3>12. \A i \in DOMAIN todo' : ~(todo'[i].op = "clear" /\ verdict'[todo'[i].user] = "unban")
        BY <1>1, <1>5, <3>9
      <3>13. HandlerSound'
        <4>1. \A i, j \in DOMAIN todo' :
                todo'[i].op # "delete" /\ todo'[j].op # "delete" => todo'[i].user = todo'[j].user
          BY <3>9
        <4> QED BY <3>10, <3>11, <3>12, <4>1 DEF HandlerSound
      <3>14. ASSUME NEW w \in Users, w # u
             PROVE  (w \notin failed' => DecisionUnderWay(w)') /\ SanctionDecided(w)' /\ AppealUnderWay(w)'
        <4>1. \A i \in DOMAIN todo : todo[i].op # "delete" => todo[i].user # w
          BY <3>7, <3>14
        <4>2. Appealable(w) => Appealable(w)'
          BY <1>6
        <4> QED BY <1>1, <1>k, <3>1, <4>1, <4>2, Undisturbed
      <3>15. u \in failed' /\ AppealUnderWay(u)'
        BY <1>1, <1>5, <3>1 DEF AppealUnderWay
      <3>16. ASSUME NEW w \in Users
             PROVE  (w \notin failed' => DecisionUnderWay(w)') /\ SanctionDecided(w)' /\ AppealUnderWay(w)'
        <4>1. CASE w = u
          BY <1>10, <3>15, <4>1 DEF SanctionDecided, AppealUnderWay, Appealable, Pending
        <4> QED BY <3>14, <4>1
      <3>17. failed' \in SUBSET Users
        BY <3>1 DEF ModerationInv, TypeOK
      <3> QED BY <3>5, <3>13, <3>16, <3>17
    <2> QED BY <2>1, <2>2
  <1>12. AnonymousSpared'
    <2>1. Anonymous \subseteq Users
      BY DEF ModerationConstants, ModerationInv, TypeOK
    <2> QED BY <1>1, <1>5, <1>8, <2>1 DEF ModerationInv, AnonymousSpared
  <1>13. TypeOK' /\ LocatorConsistent' /\ RowsKnown' /\ Reported'
    BY <1>1, <1>8, <1>11, <1>k DEF ModerationInv, TypeOK, LocatorConsistent, RowsKnown, Reported
  <1> QED
    BY <1>11, <1>12, <1>13 DEF ModerationInv

----------------------------------------------------------------------------
(* New and edited messages.                                                *)

(* The calls that follow from the verdict of the detector.                 *)
AutoCalls(u, m, t) ==
    {Ban(u, "restrict"), Ban(u, "ban"), ReportBan(u, m, t)} \union {Delete(k) : k \in Nat}

LEMMA AutoBanCalls ==
    ASSUME ModerationInv, NEW u \in Users, NEW m \in Nat, NEW t \in Texts,
           NEW copies \in SUBSET Copies(u, m, t)
    PROVE  /\ AutoBan(u, m, t, copies) \in Seq(AutoCalls(u, m, t))
           /\ u \notin SuperUsers =>
                /\ Has(AutoBan(u, m, t, copies), ReportBan(u, m, t))
                /\ \A i \in DOMAIN AutoBan(u, m, t, copies) : AutoBan(u, m, t, copies)[i].op = "ban" => i = 1
           /\ u \in SuperUsers =>
                \A i \in DOMAIN AutoBan(u, m, t, copies) : AutoBan(u, m, t, copies)[i].op # "ban"
  <1> DEFINE A == AutoBan(u, m, t, copies)
             C == AutoCalls(u, m, t)
             D == {Delete(k) : k \in Nat}
             ban == Ban(u, IF mode.soft THEN "restrict" ELSE "ban")
             report == ReportBan(u, m, t)
             others == {Delete(c) : c \in copies}
             deletes == SetToSeq(others) \o <<Delete(m)>>
             rest == When(~mode.dry /\ ~mode.training, deletes)
  <1>1. ban \in C /\ report \in C /\ D \subseteq C
    BY DEF AutoCalls
  <1>2. \A c \in D : c.op = "delete"
    BY DEF Delete
  <1>3. report.op = "report"
    BY DEF ReportBan
  <1>4. others \subseteq D /\ Delete(m) \in D
    <2>1. messages \in Seq(MessageSet)
      BY DEF ModerationInv, TypeOK
    <2>2. DOMAIN messages \subseteq Nat
      BY <2>1
    <2> QED BY <2>2 DEF Copies
  <1>5. IsFiniteSet(others)
    <2>1. messages \in Seq(MessageSet)
      BY DEF ModerationInv, TypeOK
    <2>2. Len(messages) \in Nat /\ DOMAIN messages = 1 .. Len(messages)
      BY <2>1, LenProperties
    <2>3. IsFiniteSet(1 .. Len(messages))
      BY <2>2, FS_Interval
    <2>4. IsFiniteSet(copies)
      BY <2>2, <2>3, FS_Subset DEF Copies
    <2>5. [c \in copies |-> Delete(c)] \in Surjection(copies, others)
      BY DEF Surjection
    <2> HIDE DEF others
    <2> QED BY <2>4, <2>5, FS_Surjection
  <1> HIDE DEF others
  <1>6. SetToSeq(others) \in Seq(D)
    BY <1>4, <1>5, Listed, Wider
  <1>7. <<Delete(m)>> \in Seq(D)
    BY <1>4
  <1> HIDE DEF D
  <1>8. deletes \in Seq(D)
    BY <1>6, <1>7, Joined
  <1> HIDE DEF deletes
  <1>9. rest \in Seq(D)
    BY <1>8 DEF When
  <1>10. A = IF u \in SuperUsers THEN When(mode.training, <<report>>) ELSE <<ban, report>> \o rest
    BY DEF AutoBan, rest, deletes, others
  <1> HIDE DEF rest, C, report
  <1>11. CASE u \in SuperUsers
    <2>1. A \in Seq(C) /\ \A i \in DOMAIN A : A[i] = report
      BY <1>1, <1>10, <1>11 DEF When
    <2> QED BY <1>3, <1>11, <2>1 DEF C, report
  <1>12. CASE u \notin SuperUsers
    <2> HIDE DEF ban
    <2> DEFINE first == <<ban, report>>
    <2>1. first \in Seq(C) /\ Has(first, report) /\ DOMAIN first = {1, 2} /\ first[2] = report
      BY <1>1 DEF Has
    <2> HIDE DEF first
    <2>2. rest \in Seq(C) /\ \A i \in DOMAIN rest : rest[i] \in D
      BY <1>1, <1>9, Wider
    <2>3. A = first \o rest
      BY <1>10, <1>12 DEF first
    <2> HIDE DEF A
    <2>4. /\ A \in Seq(C) /\ Has(A, report)
          /\ \A i \in DOMAIN first : i \in DOMAIN A /\ A[i] = first[i]
          /\ \A i \in DOMAIN A : i \notin DOMAIN first => Has(rest, A[i])
      BY <2>1, <2>2, <2>3, Joined
    <2>5. ASSUME NEW i \in DOMAIN A, A[i].op = "ban"
          PROVE  i = 1
      <3>1. CASE i \notin DOMAIN first
        <4>1. A[i] \in D
          BY <2>2, <2>4, <2>5, <3>1 DEF Has
        <4> QED BY <1>2, <2>5, <4>1
      <3>2. CASE i = 2
        BY <1>3, <2>1, <2>4, <2>5, <3>2
      <3> QED BY <2>1, <3>1, <3>2
    <2> QED BY <1>12, <2>4, <2>5 DEF A, C, report
  <1> QED
    BY <1>11, <1>12

(* A clean message is nobody's decision; whom it approves is redeemed.     *)
LEMMA FoundHamStays ==
    ASSUME ModerationConstants, ModerationInv, todo = <<>>, NEW u \in Users, FoundHam(u),
           UNCHANGED <<mode, status, admin>>
    PROVE  /\ todo' \in Seq(Calls) /\ HandlerSound' /\ AnonymousSpared'
           /\ \A w \in Users : SanctionDecided(w)' /\ AppealUnderWay(w)'
           /\ \A w \in Users \ failed' : DecisionUnderWay(w)'
           /\ approved' \in SUBSET Users /\ approvedRows' \in SUBSET Users
           /\ UNCHANGED <<verdict, failed>> /\ redeemed' \in SUBSET Users
  <1>1. todo' = <<>> /\ UNCHANGED <<verdict, failed>> /\ <<>> \in Seq(Calls)
    BY DEF FoundHam
  <1>2. \/ UNCHANGED <<trust, redeemed>>
        \/ /\ u \notin Anonymous /\ approved' = approved \union {u}
           /\ approvedRows' \in {approvedRows, approvedRows \union {u}}
           /\ redeemed' = IF verdict[u] = "ban" THEN redeemed \union {u} ELSE redeemed
    BY DEF FoundHam, Record
  <1>3. \A w \in Users : KeptTrust(w)
    <2>1. CASE UNCHANGED <<trust, redeemed>>
      BY <2>1, TrustSame
    <2> QED BY <1>2, <2>1 DEF KeptTrust
  <1>4. approved' \in SUBSET Users /\ approvedRows' \in SUBSET Users /\ redeemed' \in SUBSET Users
    BY <1>2 DEF ModerationInv, TypeOK
  <1>5. AnonymousSpared'
    BY <1>1, <1>2 DEF ModerationInv, AnonymousSpared
  <1>6. NoticesKept /\ \A w : Appealable(w) => Appealable(w)'
    BY DEF NoticesKept, Appealable
  <1>7. /\ HandlerSound'
        /\ \A w \in Users : SanctionDecided(w)' /\ AppealUnderWay(w)'
        /\ \A w \in Users \ failed' : DecisionUnderWay(w)'
    BY <1>1, <1>3, <1>6, StandingGoesOn
  <1> QED
    BY <1>1, <1>4, <1>5, <1>7

(* A message found to be spam begins a handler about its author.           *)
LEMMA FoundSpamBegins ==
    ASSUME ModerationConstants, ModerationInv, todo = <<>>,
           NEW u \in Users, NEW m \in Nat, NEW t \in Texts, FoundSpam(u, m, t),
           UNCHANGED <<mode, status, admin>>
    PROVE  /\ todo' \in Seq(Calls) /\ HandlerSound' /\ AnonymousSpared'
           /\ \A w \in Users : SanctionDecided(w)' /\ AppealUnderWay(w)'
           /\ \A w \in Users \ failed' : DecisionUnderWay(w)'
           /\ UNCHANGED trust
           /\ verdict' \in [Users -> Verdicts] /\ failed' \in SUBSET Users /\ redeemed' \in SUBSET Users
  <1>1. u \notin Anonymous /\ UNCHANGED trust
    BY DEF FoundSpam
  <1>2. PICK copies \in SUBSET Copies(u, m, t) : todo' = AutoBan(u, m, t, copies)
    BY DEF FoundSpam
  <1>3. /\ todo' \in Seq(AutoCalls(u, m, t))
        /\ u \notin SuperUsers =>
             /\ Has(todo', ReportBan(u, m, t))
             /\ \A i \in DOMAIN todo' : todo'[i].op = "ban" => i = 1
        /\ u \in SuperUsers => \A i \in DOMAIN todo' : todo'[i].op # "ban"
    BY <1>2, AutoBanCalls
  <1>4. AutoCalls(u, m, t) \in SUBSET Calls
    BY DEF AutoCalls, Calls, Ban, ReportBan, Delete
  <1>5. ASSUME NEW c \in AutoCalls(u, m, t), c.op # "delete"
        PROVE  c = Ban(u, "restrict") \/ c = Ban(u, "ban") \/ c = ReportBan(u, m, t)
    BY <1>5 DEF AutoCalls, Delete
  <1>6. CASE u \in SuperUsers
    <2> DEFINE C == {c \in AutoCalls(u, m, t) : c.op # "ban"}
    <2>1. UNCHANGED history
      BY <1>6 DEF FoundSpam
    <2>2. C \in SUBSET Calls
      BY <1>4
    <2>3. todo' \in Seq(C)
      <3>1. /\ Len(todo') \in Nat /\ DOMAIN todo' = 1 .. Len(todo')
            /\ todo' \in [1 .. Len(todo') -> AutoCalls(u, m, t)]
        BY <1>3, LenProperties
      <3>2. \A i \in 1 .. Len(todo') : todo'[i] \in C
        BY <1>3, <1>6, <3>1
      <3> HIDE DEF C
      <3>3. todo' \in [1 .. Len(todo') -> C]
        BY <3>1, <3>2
      <3> QED BY <3>1, <3>3
    <2>4. ASSUME NEW c \in C, c.op # "delete"
          PROVE  c.user = u /\ Justified(c)' /\ c.op \notin {"ban", "clear"}
      <3>1. c = ReportBan(u, m, t)
        BY <1>5, <2>4 DEF Ban
      <3> QED BY <1>1, <3>1 DEF Justified, ReportBan
    <2> HIDE DEF C
    <2>5. /\ todo' \in Seq(Calls) /\ HandlerSound'
          /\ \A w \in Users : SanctionDecided(w)' /\ AppealUnderWay(w)'
          /\ \A w \in Users \ failed' : DecisionUnderWay(w)'
      BY <1>1, <2>1, <2>2, <2>3, <2>4, UndecidedBegins
    <2>6. AnonymousSpared'
      BY <1>1, <2>1 DEF ModerationInv, AnonymousSpared
    <2> QED BY <1>1, <2>1, <2>5, <2>6 DEF ModerationInv, TypeOK
  <1>7. CASE u \notin SuperUsers
    <2> DEFINE C == AutoCalls(u, m, t)
    <2>1. Decide(u, "auto") /\ "auto" \in Verdicts
      BY <1>7 DEF FoundSpam, Verdicts
    <2>2. verdict'[u] = "auto" /\ \A w \in Users : w # u => verdict'[w] = verdict[w]
      BY <2>1 DEF Decide, ModerationInv, TypeOK
    <2>3. Pending("report", u)'
      BY <1>3, <1>7 DEF Has, Pending, ReportBan
    <2>4. \A c \in C : c.op # "delete" => c.user = u /\ Justified(c)'
      <3> SUFFICES ASSUME NEW c \in C, c.op # "delete"
                   PROVE  c.user = u /\ Justified(c)'
        OBVIOUS
      <3>1. CASE c = Ban(u, "restrict")
        BY <1>1, <2>2, <3>1 DEF Justified, Ban
      <3>2. CASE c = Ban(u, "ban")
        BY <1>1, <2>2, <3>2 DEF Justified, Ban
      <3>3. CASE c = ReportBan(u, m, t)
        BY <1>1, <3>3 DEF Justified, ReportBan
      <3> QED BY <1>5, <3>1, <3>2, <3>3
    <2>5. SanctionDecided(u)' /\ AppealUnderWay(u)' /\ DecisionUnderWay(u)'
      BY <2>2, <2>3 DEF SanctionDecided, AppealUnderWay, DecisionUnderWay
    <2>6. AnonymousSpared'
      <3>1. Anonymous \subseteq Users
        BY DEF ModerationConstants, ModerationInv, TypeOK
      <3> QED BY <1>1, <2>2, <3>1 DEF ModerationInv, AnonymousSpared
    <2> HIDE DEF C
    <2>7. C \in SUBSET Calls /\ todo' \in Seq(C)
      BY <1>3, <1>4 DEF C
    <2>8. \A i \in DOMAIN todo' : todo'[i].op = "ban" => i = 1 /\ Pending("report", u)'
      BY <1>3, <1>7, <2>3
    <2>9. UNCHANGED <<mode, status, notices, trust>>
      BY <1>1
    <2>10. /\ todo' \in Seq(Calls) /\ HandlerSound'
           /\ verdict' \in [Users -> Verdicts] /\ failed' \in SUBSET Users /\ redeemed' \in SUBSET Users
           /\ \A w \in Users : SanctionDecided(w)' /\ AppealUnderWay(w)'
           /\ \A w \in Users \ failed' : DecisionUnderWay(w)'
      BY <2>1, <2>4, <2>5, <2>7, <2>8, <2>9, HandlerStarts
    <2> QED BY <1>1, <2>6, <2>10
  <1> QED
    BY <1>6, <1>7

LEMMA ProcEventsKeeps ==
    ASSUME ModerationConstants, ModerationInv, todo = <<>>,
           NEW u \in Users, NEW m \in Nat, NEW t \in Texts, ProcEvents(u, m, t),
           messages' \in Seq(MessageSet), MessagesKept,
           m \in DOMAIN messages', messages'[m].from = u, t \in messages'[m].said
    PROVE  ModerationInv'
  <1> DEFINE row == [key |-> t, user |-> u, named |-> u \in Named, id |-> m, old |-> FALSE]
  <1>1. AddMessage(row) /\ UNCHANGED <<mode, status, admin, cleanups>>
    BY DEF ProcEvents
  <1>2. row \in RowSet /\ row.key = t /\ row.user = u /\ row.id = m
    <2>1. (u \in Named) \in BOOLEAN /\ FALSE \in BOOLEAN /\ t \in Texts \union Users
      OBVIOUS
    <2> QED BY <2>1 DEF RowSet
  <1> HIDE DEF row
  <1>3. /\ located' \in Seq(RowSet)
        /\ \A i \in DOMAIN located' :
                located'[i] = row \/ \E j \in DOMAIN located : located'[i] = located[j]
    BY <1>1, <1>2, AddMessageEffect
  <1>4. LocatorConsistent' /\ RowsKnown'
    BY <1>2, <1>3, RowsStay
  <1>5. Reported'
    BY <1>1 DEF ModerationInv, Reported
  <1>6. CASE FoundHam(u)
    <2>1. /\ todo' \in Seq(Calls) /\ HandlerSound' /\ AnonymousSpared'
          /\ \A w \in Users : SanctionDecided(w)' /\ AppealUnderWay(w)'
          /\ \A w \in Users \ failed' : DecisionUnderWay(w)'
          /\ approved' \in SUBSET Users /\ approvedRows' \in SUBSET Users
          /\ UNCHANGED <<verdict, failed>> /\ redeemed' \in SUBSET Users
      BY <1>1, <1>6, FoundHamStays
    <2>2. TypeOK'
      BY <1>1, <1>3, <2>1 DEF ModerationInv, TypeOK
    <2> QED BY <1>4, <1>5, <2>1, <2>2 DEF ModerationInv
  <1>7. CASE FoundSpam(u, m, t)
    <2>1. /\ todo' \in Seq(Calls) /\ HandlerSound' /\ AnonymousSpared'
          /\ \A w \in Users : SanctionDecided(w)' /\ AppealUnderWay(w)'
          /\ \A w \in Users \ failed' : DecisionUnderWay(w)'
          /\ UNCHANGED trust
          /\ verdict' \in [Users -> Verdicts] /\ failed' \in SUBSET Users /\ redeemed' \in SUBSET Users
      BY <1>1, <1>7, FoundSpamBegins
    <2>2. TypeOK'
      BY <1>1, <1>3, <2>1 DEF ModerationInv, TypeOK
    <2> QED BY <1>4, <1>5, <2>1, <2>2 DEF ModerationInv
  <1> QED
    BY <1>6, <1>7 DEF ProcEvents

LEMMA PostKeeps ==
    ASSUME ModerationConstants, ModerationInv, NEW u \in Users, NEW t \in Texts, Post(u, t)
    PROVE  ModerationInv'
  <1> DEFINE new == [from |-> u, said |-> {t}, there |-> TRUE]
             N == Len(messages)
  <1>1. /\ todo = <<>> /\ messages' = Append(messages, new) /\ ProcEvents(u, N + 1, t)
    BY DEF Post
  <1>2. messages \in Seq(MessageSet) /\ new \in MessageSet /\ new.from = u /\ t \in new.said
    BY DEF ModerationInv, TypeOK, MessageSet
  <1> HIDE DEF new
  <1>3. /\ messages' \in Seq(MessageSet) /\ DOMAIN messages' = 1 .. N + 1 /\ N \in Nat
        /\ \A k \in 1 .. N : messages'[k] = messages[k]
        /\ messages'[N + 1] = new /\ DOMAIN messages = 1 .. N
    BY <1>1, <1>2, AppendProperties, LenProperties
  <1>4. N + 1 \in Nat /\ N + 1 \in 1 .. N + 1 /\ \A k \in 1 .. N : k \in 1 .. N + 1
    BY <1>3
  <1>5. MessagesKept
    BY <1>3, <1>4 DEF MessagesKept
  <1>m. PICK m \in Nat : m = N + 1
    BY <1>4
  <1>6. /\ ProcEvents(u, m, t)
        /\ m \in DOMAIN messages' /\ messages'[m].from = u /\ t \in messages'[m].said
    BY <1>1, <1>2, <1>3, <1>4, <1>m
  <1> HIDE DEF N
  <1> QED
    BY <1>1, <1>3, <1>5, <1>6, ProcEventsKeeps

LEMMA EditKeeps ==
    ASSUME ModerationConstants, ModerationInv, NEW m \in DOMAIN messages, NEW t \in Texts, Edit(m, t)
    PROVE  ModerationInv'
  <1> DEFINE N == Len(messages)
  <1>u. PICK u : u = messages[m].from
    OBVIOUS
  <1>1. /\ todo = <<>> /\ ProcEvents(u, m, t)
        /\ messages' = [messages EXCEPT ![m].said = @ \union {t}]
    BY <1>u DEF Edit
  <1>2. u \in Users /\ m \in Nat
    BY <1>u, MessageFields
  <1>3. /\ messages \in Seq(MessageSet) /\ N \in Nat /\ DOMAIN messages = 1 .. N
        /\ \A k \in 1 .. N : messages[k] \in MessageSet
    BY LenProperties DEF ModerationInv, TypeOK
  <1>4. \A k \in 1 .. N :
            messages'[k] = IF k = m THEN [messages[k] EXCEPT !.said = @ \union {t}] ELSE messages[k]
    BY <1>1, <1>3
  <1>s. PICK said \in SUBSET Texts : said = messages[m].said \union {t}
    <2>1. messages[m].said \in SUBSET Texts
      BY <1>3 DEF MessageSet
    <2> QED BY <2>1
  <1>e. messages'[m] = [messages[m] EXCEPT !.said = said] /\ messages[m] \in MessageSet
    BY <1>3, <1>4, <1>s
  <1>f. messages'[m] \in MessageSet /\ messages'[m].from = messages[m].from /\ messages'[m].said = said
    BY <1>e, <1>s DEF MessageSet
  <1>5. \A k \in 1 .. N : messages'[k] \in MessageSet
    BY <1>3, <1>4, <1>f
  <1>6. \A k \in 1 .. N : messages'[k].from = messages[k].from
    BY <1>3, <1>4, <1>f
  <1>7. messages'[m].said = said /\ \A k \in 1 .. N : messages[k].said \subseteq messages'[k].said
    BY <1>3, <1>4, <1>f, <1>s
  <1>8. messages' = [k \in 1 .. N |-> messages'[k]]
    BY <1>1, <1>3
  <1> HIDE DEF N
  <1>9. messages' \in [1 .. N -> MessageSet]
    BY <1>5, <1>8
  <1>10. messages' \in Seq(MessageSet) /\ DOMAIN messages' = 1 .. N
    BY <1>3, <1>9
  <1>11. MessagesKept
    BY <1>3, <1>6, <1>7, <1>10 DEF MessagesKept
  <1>12. m \in DOMAIN messages' /\ messages'[m].from = u /\ t \in messages'[m].said
    BY <1>3, <1>6, <1>7, <1>10, <1>s, <1>u
  <1> QED
    BY <1>1, <1>2, <1>10, <1>11, <1>12, ProcEventsKeeps

----------------------------------------------------------------------------
(* Cleanups, and crashes.                                                  *)

(* Cleanups only mark messages as deleted.                                 *)
LEMMA CleanupKeeps ==
    ASSUME ModerationInv, UNCHANGED <<mode, status, tables, admin, todo, history>>,
           cleanups' \in SUBSET CleanupSet, messages' \in Seq(MessageSet), MessagesKept
    PROVE  ModerationInv'
  <1>1. LocatorConsistent' /\ RowsKnown'
    BY RowsStay
  <1>2. TypeOK' /\ Reported'
    BY DEF ModerationInv, TypeOK, Reported
  <1>3. NoticesKept /\ \A w : Appealable(w) => Appealable(w)'
    BY DEF NoticesKept, Appealable
  <1> QED
    BY <1>1, <1>2, <1>3, StandingStays DEF ModerationInv

LEMMA MessagesSame ==
    ASSUME ModerationInv, UNCHANGED messages
    PROVE  messages' \in Seq(MessageSet) /\ MessagesKept
  BY DEF ModerationInv, TypeOK, MessagesKept

(* The newest rows name messages.                                          *)
LEMMA NewestIds ==
    ASSUME ModerationConstants, ModerationInv, NEW u
    PROVE  Newest(u) \in Seq(Nat)
  <1> DEFINE rows == Keep(located, PlacesOf(u))
             n == Len(rows)
             k == IF n < CleanupLimit THEN n ELSE CleanupLimit
  <1>1. located \in Seq(RowSet) /\ DOMAIN located = 1 .. Len(located)
    BY LenProperties DEF ModerationInv, TypeOK
  <1>2. PlacesOf(u) \in SUBSET (1 .. Len(located))
    BY <1>1 DEF PlacesOf
  <1>3. rows \in Seq(RowSet)
    BY <1>1, <1>2, KeepElements
  <1>4. Newest(u) = [i \in 1 .. k |-> rows[n + 1 - i].id]
    BY DEF Newest
  <1> HIDE DEF rows
  <1>5. n \in Nat /\ CleanupLimit \in Nat /\ \A i \in 1 .. n : rows[i].id \in Nat
    <2>1. n \in Nat /\ \A i \in 1 .. n : rows[i] \in RowSet
      BY <1>3, LenProperties
    <2> QED BY <2>1 DEF ModerationConstants, RowSet
  <1> HIDE DEF n
  <1>6. k \in Nat /\ \A i \in 1 .. k : n + 1 - i \in 1 .. n
    BY <1>5
  <1> HIDE DEF k
  <1>7. [i \in 1 .. k |-> rows[n + 1 - i].id] \in [1 .. k -> Nat]
    BY <1>5, <1>6
  <1> QED
    BY <1>4, <1>6, <1>7

LEMMA FetchMessagesKeeps ==
    ASSUME ModerationConstants, ModerationInv, NEW c \in cleanups, FetchMessages(c)
    PROVE  ModerationInv'
  <1>1. UNCHANGED <<mode, messages, status, tables, admin, todo, history>>
    BY DEF FetchMessages
  <1>2. c \in CleanupSet /\ cleanups \in SUBSET CleanupSet
    BY DEF ModerationInv, TypeOK
  <1>3. [c EXCEPT !.fetched = TRUE, !.ids = Newest(c.user)] \in CleanupSet
    BY <1>2, NewestIds DEF CleanupSet
  <1>4. cleanups' \in SUBSET CleanupSet
    BY <1>2, <1>3 DEF FetchMessages, Become
  <1>5. messages' \in Seq(MessageSet) /\ MessagesKept
    BY <1>1, MessagesSame
  <1> QED
    BY <1>1, <1>4, <1>5, CleanupKeeps

LEMMA DeleteNextKeeps ==
    ASSUME ModerationConstants, ModerationInv, NEW c \in cleanups, DeleteNext(c)
    PROVE  ModerationInv'
  <1>1. /\ UNCHANGED <<mode, status, tables, admin, todo, history>>
        /\ c.ids # <<>> /\ c.failures < MaxFailures
    BY DEF DeleteNext
  <1>2. c \in CleanupSet /\ cleanups \in SUBSET CleanupSet
    BY DEF ModerationInv, TypeOK
  <1>3. c.ids \in Seq(Nat) /\ c.failures \in 0 .. MaxFailures
    BY <1>2 DEF CleanupSet
  <1>4. Tail(c.ids) \in Seq(Nat)
    BY <1>1, <1>3, HeadTailProperties
  <1>5. 0 \in 0 .. MaxFailures /\ c.failures + 1 \in 0 .. MaxFailures
    BY <1>1, <1>3 DEF ModerationConstants
  <1>6. /\ [c EXCEPT !.ids = Tail(@), !.failures = 0] \in CleanupSet
        /\ [c EXCEPT !.ids = Tail(@), !.failures = @ + 1] \in CleanupSet
    BY <1>2, <1>4, <1>5 DEF CleanupSet
  <1>7. \/ MarkDeleted(Head(c.ids)) /\ Become(c, [c EXCEPT !.ids = Tail(@), !.failures = 0])
        \/ UNCHANGED messages /\ Become(c, [c EXCEPT !.ids = Tail(@), !.failures = @ + 1])
    BY DEF DeleteNext
  <1>8. cleanups' \in SUBSET CleanupSet
    BY <1>2, <1>6, <1>7 DEF Become
  <1>m. PICK m : m = Head(c.ids)
    OBVIOUS
  <1>9. MarkDeleted(m) \/ UNCHANGED messages
    BY <1>7, <1>m
  <1>10. messages' \in Seq(MessageSet) /\ MessagesKept
    BY <1>9, MessagesSame, MarkedDeleted
  <1> QED
    BY <1>1, <1>8, <1>10, CleanupKeeps

LEMMA EndCleanupKeeps ==
    ASSUME ModerationConstants, ModerationInv, NEW c \in cleanups, EndCleanup(c)
    PROVE  ModerationInv'
  <1>1. UNCHANGED <<mode, messages, status, tables, admin, todo, history>> /\ cleanups' = cleanups \ {c}
    BY DEF EndCleanup
  <1>2. cleanups' \in SUBSET CleanupSet
    BY <1>1 DEF ModerationInv, TypeOK
  <1>3. messages' \in Seq(MessageSet) /\ MessagesKept
    BY <1>1, MessagesSame
  <1> QED
    BY <1>1, <1>2, <1>3, CleanupKeeps

(* A crash ends the handler: for its user something failed.                *)
LEMMA CrashKeeps ==
    ASSUME ModerationConstants, ModerationInv, Crash
    PROVE  ModerationInv'
  <1>1. /\ todo' = <<>> /\ cleanups' = {} /\ clicks' \in {clicks, <<>>}
        /\ failed' = failed \union {todo[i].user : i \in {i \in DOMAIN todo : todo[i].op # "delete"}}
                            \union {notices[clicks[i].note].user : i \in DOMAIN clicks}
        /\ approved' = approvedRows
        /\ UNCHANGED <<mode, messages, status, located, approvedRows, notices, verdict, redeemed>>
    BY DEF Crash
  <1>2. todo \in Seq(Calls) /\ clicks \in Seq(ClickSet) /\ notices \in Seq(NoticeSet)
    BY DEF ModerationInv, TypeOK
  <1>3. failed' \in SUBSET Users
    <2>1. \A i \in DOMAIN todo : todo[i].op # "delete" => todo[i].user \in Users
      BY <1>2, CallFields
    <2>2. \A i \in DOMAIN clicks : notices[clicks[i].note].user \in Users
      <3>1. \A n \in DOMAIN notices : notices[n].user \in Users
        <4>1. \A n \in DOMAIN notices : notices[n] \in NoticeSet
          BY <1>2
        <4> QED BY <4>1 DEF NoticeSet
      <3> QED BY <3>1 DEF ModerationInv, Reported
    <2> QED BY <1>1, <2>1, <2>2 DEF ModerationInv, TypeOK
  <1>4. todo' \in Seq(Calls) /\ clicks' \in Seq(ClickSet)
    <2>1. <<>> \in Seq(Calls) /\ <<>> \in Seq(ClickSet)
      OBVIOUS
    <2>2. todo' \in Seq(Calls)
      BY <1>1, <2>1
    <2>3. clicks' \in Seq(ClickSet)
      BY <1>1, <1>2, <2>1
    <2> QED BY <2>2, <2>3
  <1>5. HandlerSound'
    BY <1>1 DEF HandlerSound
  <1>6. ASSUME NEW w \in Users
        PROVE  (w \notin failed' => DecisionUnderWay(w)') /\ SanctionDecided(w)' /\ AppealUnderWay(w)'
    <2>1. Appealable(w) => Appealable(w)'
      BY <1>1 DEF Appealable
    <2>2. CASE \A i \in DOMAIN todo : todo[i].op # "delete" => todo[i].user # w
      <3>1. w \in failed => w \in failed'
        BY <1>1
      <3>2. KeptTrust(w)
        BY <1>1 DEF KeptTrust
      <3> QED BY <1>1, <2>1, <2>2, <3>1, <3>2, Undisturbed
    <2>3. CASE \E i \in DOMAIN todo : todo[i].op # "delete" /\ todo[i].user = w
      <3>1. w \in failed'
        BY <1>1, <2>3
      <3>2. SanctionDecided(w) /\ AppealUnderWay(w)
        BY DEF ModerationInv
      <3> QED BY <1>1, <2>1, <3>1, <3>2 DEF SanctionDecided, AppealUnderWay
    <2> QED BY <2>2, <2>3
  <1>7. TypeOK' /\ LocatorConsistent' /\ RowsKnown' /\ Reported' /\ AnonymousSpared'
    BY <1>1, <1>3, <1>4
    DEF ModerationInv, TypeOK, LocatorConsistent, RowsKnown, Reported, AnonymousSpared
  <1> QED
    BY <1>5, <1>6, <1>7 DEF ModerationInv

----------------------------------------------------------------------------
(* ModerationInv is invariant.                                             *)

LEMMA StartRight ==
    ASSUME ModerationConstants, Init
    PROVE  ModerationInv
  <1>1. /\ mode \in Modes /\ messages = <<>> /\ located = <<>> /\ status = [u \in Users |-> "free"]
        /\ approved = {} /\ approvedRows = {} /\ notices = <<>> /\ clicks = <<>> /\ todo = <<>> /\ cleanups = {}
        /\ verdict = [u \in Users |-> "none"] /\ failed = {} /\ redeemed = {}
    BY DEF Init
  <1>2. TypeOK
    BY <1>1 DEF TypeOK, Statuses, Verdicts
  <1>3. LocatorConsistent /\ RowsKnown /\ Reported /\ HandlerSound
    BY <1>1 DEF LocatorConsistent, RowsKnown, Reported, HandlerSound
  <1>4. AnonymousSpared
    BY <1>1 DEF AnonymousSpared, ModerationConstants
  <1>5. \A u \in Users : SanctionDecided(u) /\ AppealUnderWay(u) /\ DecisionUnderWay(u)
    BY <1>1 DEF SanctionDecided, AppealUnderWay, DecisionUnderWay
  <1> QED
    BY <1>2, <1>3, <1>4, <1>5 DEF ModerationInv

LEMMA StepRight ==
    ASSUME ModerationConstants, ModerationInv, [Next]_vars
    PROVE  ModerationInv'
  <1>1. CASE Chat
    <2>1. \/ \E u \in Users : Join(u) \/ \E t \in Texts : Post(u, t)
          \/ \E m \in DOMAIN messages, t \in Texts : Edit(m, t)
      BY <1>1 DEF Chat
    <2> QED BY <2>1, JoinKeeps, PostKeeps, EditKeeps
  <1>2. CASE Command
    <2>1. PICK m \in DOMAIN messages :
            \/ DirectWarnReport(m)
            \/ \E t \in Texts : Forward(m, t) \/ ForwardFallback(m, t)
            \/ \E t \in Texts, updateSamples \in BOOLEAN : DirectReport(m, t, updateSamples)
      BY <1>2 DEF Command
    <2> QED BY <2>1, DirectWarnReportKeeps, ForwardKeeps, ForwardFallbackKeeps, DirectReportKeeps
  <1>3. CASE InlineCallback
    BY <1>3, AskBanConfirmationKeeps, ShowInfoKeeps, BanConfirmedKeeps, UnbanConfirmedKeeps, AnswerFailsKeeps
    DEF InlineCallback
  <1>4. CASE Call
    BY <1>4, RemoveApprovedUserKeeps, AddApprovedUserKeeps, UpdateSamplesKeeps, DeleteMessageKeeps,
       BanUserOrChannelKeeps, UnbanUserKeeps, SendReportKeeps, ClearButtonsKeeps, StartCleanupKeeps
    DEF Call
  <1>5. CASE DeleteUserMessages
    BY <1>5, FetchMessagesKeeps, DeleteNextKeeps, EndCleanupKeeps DEF DeleteUserMessages
  <1>6. CASE Admin \/ Crash \/ Expire
    BY <1>6, ClickKeeps, CrashKeeps, ExpireKeeps
  <1>7. CASE UNCHANGED vars
    BY <1>7, StutterKeeps
  <1> QED
    BY <1>1, <1>2, <1>3, <1>4, <1>5, <1>6, <1>7 DEF Next

LEMMA ModerationAlways == Spec => []ModerationInv
  <1>1. Init => ModerationInv
    BY ModerationConstants, StartRight
  <1>2. ModerationInv /\ [Next]_vars => ModerationInv'
    BY ModerationConstants, StepRight
  <1> QED
    BY <1>1, <1>2, PTL DEF Spec

----------------------------------------------------------------------------
(* The theorems.                                                           *)

(* Whatever is posted, edited, forwarded, clicked, failed or restarted,    *)
(* every variable of the listener keeps a value of its type.               *)
THEOREM TypeCorrect == Spec => []TypeOK
  <1>1. ModerationInv => TypeOK
    BY DEF ModerationInv
  <1> QED
    BY <1>1, ModerationAlways, PTL

(* Through edits, replaced rows, expiry and clean-up, the message to which *)
(* the locator leads from a text (storage/locator.go) is by the user the   *)
(* row names, and has had that text: an admin who forwards a message bans  *)
(* its author and deletes nobody else's words.                             *)
THEOREM LocatorLeadsRight == Spec => []LocatorConsistent
  <1>1. ModerationInv => LocatorConsistent
    BY DEF ModerationInv
  <1> QED
    BY <1>1, ModerationAlways, PTL

(* When the listener is idle, what an admin decided about a user (events/  *)
(* admin.go) holds, in memory, in the table and in the chat, unless a call *)
(* for that user failed: for any number of users, reports and waiting      *)
(* clicks, with messages handled after their author's ban, rows that could *)
(* not be written or deleted, and restarts.  A message found clean later   *)
(* may redeem a reported user, who moreover is not banned in training or   *)
(* dry mode.                                                               *)
THEOREM DecisionsCarriedOut == Spec => []DecisionsHold
  <1>1. ModerationInv => DecisionsHold
    <2> SUFFICES ASSUME ModerationInv, todo = <<>>, NEW u \in Users \ failed
                 PROVE  /\ verdict[u] \in {"unban", "reversed"} =>
                            /\ u \in approved \intersect approvedRows
                            /\ status[u] = "free" \/ mode.training
                        /\ verdict[u] = "ban" =>
                            /\ u \notin approved \union approvedRows \/ u \in redeemed
                            /\ status[u] = "banned" \/ mode.dry \/ mode.training
                        /\ verdict[u] = "keep" /\ (mode.soft \/ mode.training) /\ ~mode.dry =>
                            status[u] = "banned" \/ u \in SuperUsers
      BY DEF DecisionsHold
    <2>1. DecisionUnderWay(u)
      BY DEF ModerationInv
    <2> QED BY <2>1, NothingPending DEF DecisionUnderWay
  <1> QED
    BY <1>1, ModerationAlways, PTL

(* Whom the bot banned or restricted by itself, and reported, an admin can *)
(* unban from the admin chat, whatever dialogs, failed calls and stale     *)
(* clicks came in between (events/admin.go, the callback handlers); but in *)
(* training an unban lifts no ban.                                         *)
THEOREM BansAppealable == Spec => []BanAppealable
  <1>1. ModerationInv => BanAppealable
    <2> SUFFICES ASSUME ModerationInv, todo = <<>>, ~mode.training, NEW u \in Users, status[u] # "free",
                        verdict[u] = "unban" \/ (verdict[u] = "auto" /\ u \notin failed)
                 PROVE  Appealable(u)
      BY DEF BanAppealable
    <2>1. AppealUnderWay(u)
      BY DEF ModerationInv
    <2> QED BY <2>1, NothingPending DEF AppealUnderWay
  <1> QED
    BY <1>1, ModerationAlways, PTL

----------------------------------------------------------------------------
(* Moderation implements Standing.                                         *)

(* A decision of a handler is the decision of Standing.                    *)
LEMMA DecideMaps ==
    ASSUME ModerationInv, NEW u \in Users, NEW what \in Verdicts, Decide(u, what)
    PROVE  [w \in Users |-> Decided(w)]' =
            [[w \in Users |-> Decided(w)] EXCEPT ![u] = IF what = "reversed" THEN "unban" ELSE what]
  BY DEF Decide, Decided, ModerationInv, TypeOK

(* Nothing is decided and nobody's standing changes.                       *)
LEMMA StandingStutters ==
    ASSUME UNCHANGED <<status, trust, verdict>>
    PROVE  [Promise!Next]_(Promise!vars)
  BY DEF Promise!vars, Decided

(* A verdict of the bot: a clean message that is counted, or a suspicion.  *)
LEMMA VerdictMaps ==
    ASSUME ModerationInv, NEW u \in Users, NEW m, NEW t, ProcEvents(u, m, t)
    PROVE  [Promise!Next]_(Promise!vars)
  <1>1. status' = status
    BY DEF ProcEvents
  <1>2. CASE FoundHam(u)
    <2>1. UNCHANGED verdict
      BY <1>2 DEF FoundHam
    <2>2. CASE UNCHANGED trust
      BY <1>1, <2>1, <2>2, StandingStutters
    <2>3. CASE ~UNCHANGED trust
      <3>1. /\ approved' = approved \union {u}
            /\ approvedRows' \in {approvedRows, approvedRows \union {u}}
        BY <1>2, <2>3 DEF FoundHam, Record
      <3>2. Promise!Clear(u)
        BY <1>1, <2>1, <3>1 DEF Promise!Clear, Decided
      <3> QED BY <3>2 DEF Promise!Next
    <2> QED BY <2>2, <2>3
  <1>3. CASE FoundSpam(u, m, t)
    <2>1. UNCHANGED trust
      BY <1>3 DEF FoundSpam
    <2>2. CASE u \in SuperUsers
      BY <1>1, <1>3, <2>1, <2>2, StandingStutters DEF FoundSpam
    <2>3. CASE u \notin SuperUsers
      <3>1. Decide(u, "auto") /\ "auto" \in Verdicts
        BY <1>3, <2>3 DEF FoundSpam, Verdicts
      <3>2. [w \in Users |-> Decided(w)]' = [[w \in Users |-> Decided(w)] EXCEPT ![u] = "auto"]
        BY <3>1, DecideMaps
      <3>3. Promise!Suspect(u)
        BY <1>1, <2>1, <3>2 DEF Promise!Suspect
      <3> QED BY <3>3 DEF Promise!Next
    <2> QED BY <2>2, <2>3
  <1> QED
    BY <1>2, <1>3 DEF ProcEvents

(* An admin's command; about the group itself it says nothing.             *)
LEMMA CommandMaps ==
    ASSUME ModerationInv, NEW u \in Users, UNCHANGED <<status, trust>>, DecideBan(u)
    PROVE  [Promise!Next]_(Promise!vars)
  <1>1. CASE u \in Anonymous
    BY <1>1, StandingStutters DEF DecideBan
  <1>2. CASE u \notin Anonymous
    <2>1. Decide(u, "ban") /\ "ban" \in Verdicts
      BY <1>2 DEF DecideBan, Verdicts
    <2>2. [w \in Users |-> Decided(w)]' = [[w \in Users |-> Decided(w)] EXCEPT ![u] = "ban"]
      BY <2>1, DecideMaps
    <2> QED BY <2>2 DEF Promise!Next, Promise!AdminDecides
  <1> QED
    BY <1>1, <1>2

(* A confirmed ban or an unban.                                            *)
LEMMA ConfirmationMaps ==
    ASSUME ModerationInv, NEW u \in Users, UNCHANGED <<status, trust>>,
           NEW what \in {"keep", "unban", "reversed"}, Decide(u, what)
    PROVE  Promise!Next
  <1> DEFINE said == IF what = "reversed" THEN "unban" ELSE what
  <1>1. what \in Verdicts /\ said \in {"ban", "keep", "unban"}
    BY DEF Verdicts
  <1>2. [w \in Users |-> Decided(w)]' = [[w \in Users |-> Decided(w)] EXCEPT ![u] = said]
    BY <1>1, DecideMaps
  <1> QED
    BY <1>1, <1>2 DEF Promise!Next, Promise!AdminDecides

LEMMA ChatMaps ==
    ASSUME ModerationConstants, ModerationInv, Chat
    PROVE  [Promise!Next]_(Promise!vars)
  <1>1. CASE \E u \in Users : Join(u)
    BY <1>1, StandingStutters DEF Join
  <1>2. ASSUME NEW u \in Users, NEW t \in Texts, Post(u, t)
        PROVE  [Promise!Next]_(Promise!vars)
    BY <1>2, VerdictMaps DEF Post
  <1>3. ASSUME NEW m \in DOMAIN messages, NEW t \in Texts, Edit(m, t)
        PROVE  [Promise!Next]_(Promise!vars)
    <2>1. PICK u \in Users : u = messages[m].from
      BY MessageFields
    <2> QED BY <1>3, <2>1, VerdictMaps DEF Edit
  <1> QED
    BY <1>1, <1>2, <1>3 DEF Chat

LEMMA CommandsMap ==
    ASSUME ModerationConstants, ModerationInv, Command
    PROVE  [Promise!Next]_(Promise!vars)
  <1>1. ASSUME NEW m \in DOMAIN messages, DirectWarnReport(m)
        PROVE  [Promise!Next]_(Promise!vars)
    BY <1>1, StandingStutters DEF DirectWarnReport
  <1>2. ASSUME NEW m \in DOMAIN messages, NEW t \in Texts, Forward(m, t)
        PROVE  [Promise!Next]_(Promise!vars)
    <2>1. PICK row \in RowsOf(t) : DecideBan(row.user)
      BY <1>2 DEF Forward
    <2>2. row.user \in Users
      <3>1. located \in Seq(RowSet)
        BY DEF ModerationInv, TypeOK
      <3>2. row \in RowSet
        BY <3>1 DEF RowsOf
      <3> QED BY <3>2 DEF RowSet
    <2>3. PICK u \in Users : u = row.user
      BY <2>2
    <2> QED BY <1>2, <2>1, <2>3, CommandMaps DEF Forward
  <1>3. ASSUME NEW m \in DOMAIN messages, NEW t \in Texts, ForwardFallback(m, t)
        PROVE  [Promise!Next]_(Promise!vars)
    <2>1. PICK u \in Users : u = messages[m].from
      BY MessageFields
    <2>2. Decide(u, "ban") /\ u \notin Channels /\ UNCHANGED <<status, trust>>
      BY <1>3, <2>1 DEF ForwardFallback
    <2>3. u \notin Anonymous
      BY <2>2 DEF ModerationConstants, ModerationInv, TypeOK
    <2>4. DecideBan(u)
      BY <2>2, <2>3 DEF DecideBan
    <2> QED BY <2>2, <2>4, CommandMaps
  <1>4. ASSUME NEW m \in DOMAIN messages, NEW t \in Texts, NEW updateSamples \in BOOLEAN,
               DirectReport(m, t, updateSamples)
        PROVE  [Promise!Next]_(Promise!vars)
    <2>1. PICK u \in Users : u = messages[m].from
      BY MessageFields
    <2> QED BY <1>4, <2>1, CommandMaps DEF DirectReport
  <1>5. PICK m \in DOMAIN messages :
            \/ DirectWarnReport(m)
            \/ \E t \in Texts : Forward(m, t) \/ ForwardFallback(m, t)
            \/ \E t \in Texts, updateSamples \in BOOLEAN : DirectReport(m, t, updateSamples)
    BY DEF Command
  <1> QED
    BY <1>1, <1>2, <1>3, <1>4, <1>5

LEMMA CallbackMaps ==
    ASSUME ModerationConstants, ModerationInv, InlineCallback
    PROVE  [Promise!Next]_(Promise!vars)
  <1>1. CASE AskBanConfirmation \/ ShowInfo \/ AnswerFails
    BY <1>1, StandingStutters DEF AskBanConfirmation, ShowInfo, AnswerFails
  <1>2. CASE BanConfirmed
    <2>1. PICK u \in Users : u = notice.user
      BY <1>2, TakenClick DEF BanConfirmed
    <2>2. Decide(u, "keep") /\ UNCHANGED <<status, trust>>
      BY <1>2, <2>1 DEF BanConfirmed
    <2> QED BY <2>2, ConfirmationMaps
  <1>3. CASE UnbanConfirmed
    <2>1. PICK u \in Users : u = notice.user
      BY <1>3, TakenClick DEF UnbanConfirmed
    <2>2. PICK what \in {"unban", "reversed"} : what = Pardon(u)
      BY DEF Pardon
    <2>3. Decide(u, what) /\ UNCHANGED <<status, trust>>
      BY <1>3, <2>1, <2>2 DEF UnbanConfirmed
    <2> QED BY <2>3, ConfirmationMaps
  <1> QED
    BY <1>1, <1>2, <1>3 DEF InlineCallback

LEMMA CallMaps ==
    ASSUME ModerationConstants, ModerationInv, Call
    PROVE  [Promise!Next]_(Promise!vars)
  <1> DEFINE D == [w \in Users |-> Decided(w)]
  <1>1. CASE UpdateSamples \/ DeleteMessage \/ SendReport \/ ClearButtons \/ StartCleanup
    BY <1>1, StandingStutters DEF UpdateSamples, DeleteMessage, SendReport, ClearButtons, StartCleanup
  <1>2. CASE RemoveApprovedUser
    <2>1. /\ todo # <<>> /\ next.op = "disapprove" /\ UNCHANGED <<status, verdict>>
          /\ approved' = approved \ {next.user}
          /\ approvedRows' \in {approvedRows, approvedRows \ {next.user}}
      BY <1>2 DEF RemoveApprovedUser, Record
    <2>2. next.user \in Users /\ Justified(next)
      BY <2>1, CallTaken
    <2>3. PICK u \in Users : u = next.user
      BY <2>2
    <2>4. D' = D
      BY <2>1 DEF Decided
    <2>5. CASE u \in Anonymous
      <3>1. UNCHANGED trust
        BY <2>1, <2>3, <2>5 DEF ModerationInv, AnonymousSpared
      <3> QED BY <2>1, <3>1, StandingStutters
    <2>6. CASE u \notin Anonymous
      <3>1. D[u] = "ban"
        BY <2>1, <2>2, <2>3, <2>6 DEF Justified, Decided
      <3>2. Promise!Distrust(u)
        BY <2>1, <2>3, <2>4, <3>1 DEF Promise!Distrust
      <3> QED BY <3>2 DEF Promise!Next
    <2> QED BY <2>5, <2>6
  <1>3. CASE AddApprovedUser
    <2>1. /\ todo # <<>> /\ next.op = "approve" /\ UNCHANGED <<status, verdict>>
          /\ approved' = approved \union {next.user}
          /\ approvedRows' \in {approvedRows, approvedRows \union {next.user}}
      BY <1>3 DEF AddApprovedUser, Record
    <2>2. next.user \in Users /\ Justified(next)
      BY <2>1, CallTaken
    <2>3. PICK u \in Users : u = next.user
      BY <2>2
    <2>4. D' = D
      BY <2>1 DEF Decided
    <2>5. D[u] = "unban"
      BY <2>1, <2>2, <2>3 DEF Justified, Decided
    <2>6. Promise!Trust(u)
      BY <2>1, <2>3, <2>4, <2>5 DEF Promise!Trust
    <2> QED BY <2>6 DEF Promise!Next
  <1>4. CASE BanUserOrChannel
    <2>1. todo # <<>> /\ next.op = "ban" /\ UNCHANGED <<trust, verdict>>
      BY <1>4 DEF BanUserOrChannel
    <2>2. next.user \in Users /\ Justified(next)
      BY <2>1, CallTaken
    <2>3. PICK u \in Users : u = next.user
      BY <2>2
    <2>4. D' = D
      BY <2>1 DEF Decided
    <2>5. PICK sanction \in {"restricted", "banned"} :
            /\ sanction = IF next.how = "restrict" /\ u \notin Channels THEN "restricted" ELSE "banned"
            /\ status' = [status EXCEPT ![u] = sanction] \/ status' = status
      BY <1>4, <2>3 DEF BanUserOrChannel
    <2>6. CASE status' = status
      BY <2>1, <2>6, StandingStutters
    <2>7. CASE status' = [status EXCEPT ![u] = sanction]
      <3>1. \/ D[u] = "auto"
            \/ D[u] \in {"ban", "keep"} /\ sanction = "banned"
        BY <2>1, <2>2, <2>3, <2>5 DEF Justified, Decided
      <3>2. Promise!Sanction(u)
        BY <2>1, <2>4, <2>7, <3>1 DEF Promise!Sanction
      <3> QED BY <3>2 DEF Promise!Next
    <2> QED BY <2>5, <2>6, <2>7
  <1>5. CASE UnbanUser
    <2>1. todo # <<>> /\ next.op = "unban" /\ UNCHANGED <<trust, verdict>>
      BY <1>5 DEF UnbanUser
    <2>2. next.user \in Users /\ Justified(next)
      BY <2>1, CallTaken
    <2>3. PICK u \in Users : u = next.user
      BY <2>2
    <2>4. D' = D
      BY <2>1 DEF Decided
    <2>5. status' = [status EXCEPT ![u] = "free"] \/ status' = status
      BY <1>5, <2>3 DEF UnbanUser
    <2>6. CASE status' = status
      BY <2>1, <2>6, StandingStutters
    <2>7. CASE status' = [status EXCEPT ![u] = "free"]
      <3>1. D[u] = "unban"
        BY <2>1, <2>2, <2>3 DEF Justified, Decided
      <3>2. Promise!Release(u)
        BY <2>1, <2>4, <2>7, <3>1 DEF Promise!Release
      <3> QED BY <3>2 DEF Promise!Next
    <2> QED BY <2>5, <2>6, <2>7
  <1> QED
    BY <1>1, <1>2, <1>3, <1>4, <1>5 DEF Call

(* Every behaviour of the listener, with its queue of clicks, its lists of *)
(* calls, failures and crashes (events/listener.go, events/admin.go), is   *)
(* one of Standing: nobody is banned, restricted, released or distrusted,  *)
(* and nobody trusted unearned, but by the latest decision about that same *)
(* user; and what a restart makes of trust is what was recorded of such    *)
(* steps, some of which may have failed to be (detector.go, the table of   *)
(* approved users).                                                        *)
THEOREM ImplementsStanding == Spec => StandingSpec
  <1>1. Init => Promise!Init
    BY DEF Init, Promise!Init, Decided
  <1>2. ModerationInv /\ [Next]_vars => [Promise!Next]_(Promise!vars)
    <2> SUFFICES ASSUME ModerationInv, [Next]_vars
                 PROVE  [Promise!Next]_(Promise!vars)
      OBVIOUS
    <2>1. CASE Chat
      BY <2>1, ModerationConstants, ChatMaps
    <2>2. CASE Command
      BY <2>2, ModerationConstants, CommandsMap
    <2>3. CASE InlineCallback
      BY <2>3, ModerationConstants, CallbackMaps
    <2>4. CASE Call
      BY <2>4, ModerationConstants, CallMaps
    <2>5. CASE DeleteUserMessages
      BY <2>5, StandingStutters DEF DeleteUserMessages, FetchMessages, DeleteNext, EndCleanup
    <2>6. CASE Admin \/ Expire
      BY <2>6, StandingStutters DEF Admin, Click, Expire
    <2>7. CASE Crash
      <3>1. approved' = approvedRows /\ UNCHANGED <<status, approvedRows, verdict>>
        BY <2>7 DEF Crash
      <3>2. Promise!Restart
        BY <3>1 DEF Promise!Restart, Decided
      <3> QED BY <3>2 DEF Promise!Next
    <2>8. CASE UNCHANGED vars
      BY <2>8, StandingStutters DEF vars
    <2> QED BY <2>1, <2>2, <2>3, <2>4, <2>5, <2>6, <2>7, <2>8 DEF Next
  <1> QED
    BY <1>1, <1>2, ModerationAlways, PTL DEF Spec, StandingSpec, Promise!Spec
=============================================================================
