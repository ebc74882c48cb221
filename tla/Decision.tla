------------------------------ MODULE Decision ------------------------------
(***************************************************************************)
(* Detector.Check: which checks a message meets, how OpenAI's answer and   *)
(* the other checks make a verdict, and what the verdict leaves behind:    *)
(* the author's count of clean messages and the history of recent          *)
(* messages, which is given to OpenAI as context.                          *)
(*                                                                         *)
(* Check holds the read lock only, so that the listener and web requests   *)
(* are inside it together, and stay there while OpenAI is asked.  What     *)
(* concurrent counting may do to the counts is the subject of Approval;    *)
(* here a count is written in one step.  What each family of checks says   *)
(* of a message is a free choice.                                          *)
(***************************************************************************)
EXTENDS Naturals, Sequences, Subsequences

CONSTANTS
    Checkers,     \* the goroutines that call Check
    Users,
    NoUser,       \* the empty user id, which a web request may give
    Options,      \* the command lines the bot may be started with
    RetryCount,   \* OpenAIConfig.RetryCount, as newOpenAIChecker corrects it
    MaxMessages   \* bound: messages checked

ASSUME DecisionConstants ==
    /\ NoUser \notin Users
    /\ RetryCount \in Nat \ {0} /\ MaxMessages \in Nat
    /\ Options \subseteq [paranoid : BOOLEAN, firstMessagesCount : Nat, historySize : Nat,
                          openAI : BOOLEAN, veto : BOOLEAN, shortToo : BOOLEAN,
                          openAIHistorySize : Nat]

VARIABLES
    options,      \* what the bot was started with
    counts,       \* approvedUsers: Count of each user, 0 without an entry
    hamHistory,   \* the rings of recent messages
    spamHistory,
    calls,        \* calls[c]: the call of Check that goroutine c is in, and its result
    arrived,      \* history: how many messages were checked so far; they are numbered
    clean,        \* history: each user's messages found clean that were to be counted
    pushed        \* history: the messages pushed to each ring, in order

vars == <<options, counts, hamHistory, spamHistory, calls, arrived, clean, pushed>>

----------------------------------------------------------------------------
(* LastRequests: a ring of messages and the slot to be written next.       *)
(* 0 is an empty slot.                                                     *)

NewLastRequests(size) ==
    LET n == IF size < 1 THEN 1 ELSE size
    IN  [slots |-> [i \in 1 .. n |-> 0], next |-> 1]

Size(ring) == Len(ring.slots)

\* The ring does not turn.
PushInPlace(ring, m) == [ring EXCEPT !.slots[ring.next] = m]

\* The ring has no end.
PushOnwards(ring, m) == [slots |-> [ring.slots EXCEPT ![ring.next] = m], next |-> ring.next + 1]

Push(ring, m) == [slots |-> [ring.slots EXCEPT ![ring.next] = m],
                  next  |-> (ring.next % Size(ring)) + 1]

\* Once around from the slot to be written next, so that the oldest comes first.
Turned(ring) == [i \in 1 .. Size(ring) |-> ring.slots[((ring.next + i - 2) % Size(ring)) + 1]]

Stored(ring) == Keep(Turned(ring), {i \in 1 .. Size(ring) : Turned(ring)[i] # 0})

\* Last cuts behind n messages: what is left is the oldest of those stored.
Last(ring, n) ==
    IF Len(Stored(ring)) > n THEN SubSeq(Stored(ring), 1, n) ELSE Stored(ring)

----------------------------------------------------------------------------
(* The configuration: makeDetector from the command line, and NewDetector. *)

\* Paranoid mode leaves the number of first messages alone.
MakeDetectorCountKept(o) ==
    [firstMessageOnly |-> ~o.paranoid, firstMessagesCount |-> o.firstMessagesCount]

MakeDetector(o) ==
    [firstMessageOnly   |-> ~o.paranoid,
     firstMessagesCount |-> IF o.paranoid THEN 0 ELSE o.firstMessagesCount]

\* A number of first messages enforces FirstMessageOnly, which alone means the first one.
NewDetector(p) ==
    [firstMessageOnly   |-> p.firstMessageOnly \/ p.firstMessagesCount > 0,
     firstMessagesCount |-> IF p.firstMessageOnly /\ p.firstMessagesCount = 0 THEN 1
                            ELSE p.firstMessagesCount]

Config == NewDetector(MakeDetector(options))

OpenAIUsable == options.openAI /\ (Config.firstMessageOnly \/ Config.firstMessagesCount > 0)

----------------------------------------------------------------------------
(* A request: its author, the first family of checks that would flag it    *)
(* (the duplicate detector; a simple check, that is stop words, emoji,     *)
(* meta, Lua, CAS, languages, spacing; similarity or the classifier; or    *)
(* none), whether it is short, and whether it is not to be counted.        *)

Requests ==
    {req \in [user : Users \union {NoUser}, flag : {"duplicate", "simple", "content", "none"},
              short : BOOLEAN, checkOnly : BOOLEAN] : req.flag = "duplicate" => req.user # NoUser}

\* A duplicate from an approved author passes, too.
PreApprovedAnyway(req) ==
    /\ req.user # NoUser
    /\ Config.firstMessageOnly
    /\ counts[req.user] >= Config.firstMessagesCount

PreApproved(req) ==
    /\ req.user # NoUser
    /\ Config.firstMessageOnly
    /\ req.flag # "duplicate"
    /\ counts[req.user] >= Config.firstMessagesCount

\* isSpamDetected before OpenAI: similarity and classifier do not look at short messages.
SpamDetected(req) == req.flag \in {"duplicate", "simple"} \/ (req.flag = "content" /\ ~req.short)

\* A short message is done with when it is spam already or OpenAI is not to see it.
DoneShort(req) == req.short /\ (SpamDetected(req) \/ ~options.openAI \/ ~options.shortToo)

\* OpenAI is asked: about short messages, to find spam, or to veto spam.
ShouldCheck(req) ==
    OpenAIUsable /\ ((req.short /\ options.shortToo) \/ SpamDetected(req) = options.veto)

\* The messages given to OpenAI.
Context ==
    IF options.openAIHistorySize > 0 /\ options.historySize > 0
    THEN Last(hamHistory, options.openAIHistorySize) ELSE <<>>

----------------------------------------------------------------------------
(* Calls of Check.                                                         *)

NoCall == [pc |-> "idle"]

Calls == [pc : {"checking", "asking", "done"}, id : 1 .. MaxMessages, req : Requests,
          clean : Nat,                \* history: the author's clean messages at the beginning
          context : Seq(1 .. MaxMessages), failures : 0 .. RetryCount,
          answer : {"none", "ham", "spam", "error"}, spam : BOOLEAN]

Return(c, answer, spam) ==
    calls' = [calls EXCEPT ![c].pc = "done", ![c].context = <<>>, ![c].failures = 0,
                           ![c].answer = answer, ![c].spam = spam]

\* The read lock is taken, duplicates are looked for; an approved author ends it here.
Enter(c, req) ==
    /\ calls[c].pc = "idle"
    /\ arrived < MaxMessages
    /\ arrived' = arrived + 1
    /\ calls' = [calls EXCEPT ![c] =
                    [pc |-> IF PreApproved(req) THEN "done" ELSE "checking", id |-> arrived + 1,
                     req |-> req, clean |-> clean[req.user], context |-> <<>>, failures |-> 0,
                     answer |-> "none", spam |-> FALSE]]
    /\ UNCHANGED <<options, counts, hamHistory, spamHistory, clean, pushed>>

FoundSpam(c, answer) ==
    /\ Return(c, answer, TRUE)
    /\ spamHistory' = Push(spamHistory, calls[c].id)
    /\ pushed' = [pushed EXCEPT !.spam = Append(@, calls[c].id)]
    /\ UNCHANGED <<options, counts, hamHistory, arrived, clean>>

\* The approved users are updated except in paranoid mode.
FoundHam(c, answer) ==
    LET req == calls[c].req
        one == IF req.checkOnly \/ req.short THEN 0 ELSE 1
    IN  /\ Return(c, answer, FALSE)
        /\ counts' = IF Config.firstMessageOnly \/ Config.firstMessagesCount > 0
                     THEN [counts EXCEPT ![req.user] = @ + one] ELSE counts
        /\ clean' = [clean EXCEPT ![req.user] = @ + one]
        /\ hamHistory' = Push(hamHistory, calls[c].id)
        /\ pushed' = [pushed EXCEPT !.ham = Append(@, calls[c].id)]
        /\ UNCHANGED <<options, spamHistory, arrived>>

Found(c, answer, spam) == IF spam THEN FoundSpam(c, answer) ELSE FoundHam(c, answer)

\* A short message that is not spam leaves nothing behind.
ReturnShort(c) ==
    /\ calls[c].pc = "checking" /\ DoneShort(calls[c].req)
    /\ IF SpamDetected(calls[c].req)
       THEN FoundSpam(c, "none")
       ELSE /\ Return(c, "none", FALSE)
            /\ UNCHANGED <<options, counts, hamHistory, spamHistory, arrived, clean, pushed>>

Judge(c) ==
    /\ calls[c].pc = "checking" /\ ~DoneShort(calls[c].req) /\ ~ShouldCheck(calls[c].req)
    /\ Found(c, "none", SpamDetected(calls[c].req))

AskOpenAI(c) ==
    /\ calls[c].pc = "checking" /\ ~DoneShort(calls[c].req) /\ ShouldCheck(calls[c].req)
    /\ calls' = [calls EXCEPT ![c].pc = "asking", ![c].context = Context]
    /\ UNCHANGED <<options, counts, hamHistory, spamHistory, arrived, clean, pushed>>

OpenAIAnswers(c) ==
    /\ calls[c].pc = "asking"
    /\ \/ Found(c, "spam", TRUE)
       \/ Found(c, "ham", FALSE)

\* The request fails or the answer makes no sense: again, then what the other checks said.
OpenAIFails(c) ==
    /\ calls[c].pc = "asking"
    /\ IF calls[c].failures + 1 < RetryCount
       THEN /\ calls' = [calls EXCEPT ![c].failures = @ + 1]
            /\ UNCHANGED <<options, counts, hamHistory, spamHistory, arrived, clean, pushed>>
       ELSE Found(c, "error", SpamDetected(calls[c].req))

\* The caller takes the result.
Leave(c) ==
    /\ calls[c].pc = "done"
    /\ calls' = [calls EXCEPT ![c] = NoCall]
    /\ UNCHANGED <<options, counts, hamHistory, spamHistory, arrived, clean, pushed>>

Check(c) ==
    \/ \E req \in Requests : Enter(c, req)
    \/ ReturnShort(c)
    \/ Judge(c)
    \/ AskOpenAI(c)
    \/ OpenAIAnswers(c)
    \/ OpenAIFails(c)
    \/ Leave(c)

Init ==
    /\ options \in Options
    /\ counts = [u \in Users \union {NoUser} |-> 0]
    /\ hamHistory = NewLastRequests(options.historySize)
    /\ spamHistory = NewLastRequests(options.historySize)
    /\ calls = [c \in Checkers |-> NoCall]
    /\ arrived = 0
    /\ clean = [u \in Users \union {NoUser} |-> 0]
    /\ pushed = [ham |-> <<>>, spam |-> <<>>]

Next == \E c \in Checkers : Check(c)

Spec == Init /\ [][Next]_vars

----------------------------------------------------------------------------
(* Properties.                                                             *)

Rings == [slots : Seq(0 .. MaxMessages), next : Nat \ {0}]

\* Every variable keeps its type, and the rings the size NewLastRequests gave them.
TypeOK ==
    /\ options \in Options
    /\ counts \in [Users \union {NoUser} -> 0 .. MaxMessages]
    /\ clean \in [Users \union {NoUser} -> 0 .. MaxMessages]
    /\ \A ring \in {hamHistory, spamHistory} :
        ring \in Rings /\ ring.next \in DOMAIN ring.slots
    /\ Size(hamHistory) = Size(NewLastRequests(options.historySize))
    /\ calls \in [Checkers -> {NoCall} \union Calls]
    /\ arrived \in 0 .. MaxMessages
    /\ pushed \in [ham : Seq(1 .. MaxMessages), spam : Seq(1 .. MaxMessages)]

\* What the documentation says, of the options as given: the authors of enough clean
\* messages are trusted, except in paranoid mode and except that they repeat themselves.
Trusted(call) ==
    /\ ~options.paranoid
    /\ call.req.user # NoUser /\ call.req.flag # "duplicate"
    /\ call.clean >= 1 /\ call.clean >= options.firstMessagesCount

\* The checks that look at a message: those of the content pass over short ones.
Looking(req) == {"duplicate", "simple"} \union (IF req.short THEN {} ELSE {"content"})

Flagged(req) == req.flag \in Looking(req)

RightVerdict(call) ==
    call.spam <=> /\ ~Trusted(call)
                  /\ IF Flagged(call.req) THEN ~(options.veto /\ call.answer = "ham")
                     ELSE call.answer = "spam"

\* A verdict is what the options, the checks and OpenAI's answer call for, whatever path
\* Check took to it: spam when a check found some and OpenAI did not veto it, or when
\* OpenAI found it; never for a trusted author; and OpenAI's failure decides nothing.
VerdictByTheBook == \A c \in Checkers : calls[c].pc = "done" => RightVerdict(calls[c])

ToBeAsked(call) ==
    /\ options.openAI /\ ~options.paranoid /\ ~Trusted(call)
    /\ IF call.req.short THEN options.shortToo /\ ~Flagged(call.req)
       ELSE Flagged(call.req) = options.veto

\* OpenAI is asked about the messages it is paid for and no others: never in paranoid mode
\* nor of a trusted author; about a short message when that is enabled and nothing was
\* found; about spam in veto mode and about the rest otherwise.
AskedByTheBook ==
    \A c \in Checkers :
        /\ calls[c].pc = "asking" => ToBeAsked(calls[c])
        /\ calls[c].pc = "done" => (calls[c].answer # "none" <=> ToBeAsked(calls[c]))

Latest(s, n) == IF Len(s) > n THEN SubSeq(s, Len(s) - n + 1, Len(s)) ELSE s

\* A history, read in the order of Last, holds the latest messages of its verdict in the
\* order of their verdicts, as many as it has room for, also after it went around.
HistoryLatest ==
    /\ Stored(hamHistory) = Latest(pushed.ham, Size(hamHistory))
    /\ Stored(spamHistory) = Latest(pushed.spam, Size(spamHistory))

\* "Last returns up to n last requests in chronological order" (history.go:43), "the number of
\* preceding messages to include" (README.md:110): the context OpenAI is given is the latest
\* messages found ham, as many as asked for and kept.
ContextLatest ==
    [][\A c \in Checkers :
        calls[c].pc = "checking" /\ calls'[c].pc = "asking" /\ options.historySize > 0 =>
            calls'[c].context = Latest(Latest(pushed.ham, options.historySize), options.openAIHistorySize)]_vars

----------------------------------------------------------------------------
(* The inductive invariant of the proofs.                                  *)

Undecided(c) == calls[c].pc \in {"checking", "asking"}

\* No two messages have the same number, and none found ham is still undecided.
Numbered ==
    /\ \A c \in Checkers : calls[c].pc # "idle" => calls[c].id \in 1 .. arrived
    /\ \A c, d \in Checkers :
        calls[c].pc # "idle" /\ calls[d].pc # "idle" /\ calls[c].id = calls[d].id => c = d
    /\ \A i \in DOMAIN pushed.ham :
        /\ pushed.ham[i] \in 1 .. arrived
        /\ \A j \in DOMAIN pushed.ham : pushed.ham[i] = pushed.ham[j] => i = j
        /\ \A c \in Checkers : Undecided(c) => calls[c].id # pushed.ham[i]

\* A count is the user's clean messages, except in paranoid mode, where nobody is counted.
Counted ==
    /\ \A u \in Users \union {NoUser} : counts[u] <= clean[u] /\ clean[u] <= Len(pushed.ham)
    /\ options.paranoid \/ counts = clean

\* How long ago slot j of n was written, in messages pushed since.
Behind(j, next, n) == IF j < next THEN next - 1 - j ELSE next - 1 - j + n

\* The ring, read backwards from the slot before the next one, holds the sequence s read
\* backwards from its end, and 0 where s has ended.
Holds(ring, s) ==
    /\ Size(ring) > 0 /\ ring.next \in 1 .. Size(ring)
    /\ \A j \in 1 .. Size(ring) :
        LET behind == Behind(j, ring.next, Size(ring))
        IN  ring.slots[j] = IF behind < Len(s) THEN s[Len(s) - behind] ELSE 0

RingsHold == Holds(hamHistory, pushed.ham) /\ Holds(spamHistory, pushed.spam)

\* The author of an undecided call is not trusted.
UndecidedByTheBook ==
    \A c \in Checkers : Undecided(c) => ~Trusted(calls[c]) /\ calls[c].answer = "none"

DecisionInv ==
    /\ TypeOK /\ Numbered /\ Counted /\ RingsHold
    /\ UndecidedByTheBook /\ VerdictByTheBook /\ AskedByTheBook
=============================================================================
