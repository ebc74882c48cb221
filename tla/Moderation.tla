----------------------------- MODULE Moderation -----------------------------
(***************************************************************************)
(* The listener and the admin chat: what happens to users and messages     *)
(* once a message is found to be spam or an admin says it is, and how it   *)
(* is undone; and the locator, which finds the message behind a text.      *)
(*                                                                         *)
(* One goroutine, the listener, handles updates one after the other.  A    *)
(* handler is a list of calls to Telegram, the detector and the store:     *)
(* todo holds those still to be made.  Each may fail (some failures end    *)
(* the handler, others are only reported) and the process may die between  *)
(* any two.  Clicks on buttons wait in a queue while other updates are     *)
(* handled, and so do messages: their author may have been banned since    *)
(* they were sent.  Aggressive cleanup runs in goroutines of its own.      *)
(*                                                                         *)
(* Learning the texts, the counting of clean messages and user reports are *)
(* in Samples, Approval and Reports.                                       *)
(***************************************************************************)
EXTENDS Naturals, Sequences, FiniteSets, SequencesExt, Subsequences

CONSTANTS
    Users,         \* those who write: users, and channels under their channel id
    Channels,      \* which of them are channels: banned and unbanned, never restricted
    Named,         \* users with a username
    Texts,
    Modes,         \* configurations: soft, training, dry, cleanup, who is who, and what may fail
    CleanupLimit,  \* aggressiveCleanupLimit
    MaxFailures,   \* maxConsecutiveFailures of a cleanup
    MinSize,       \* the locator keeps expired rows up to this many
    MaxMessages,   \* bound: messages posted
    MaxNotices,    \* bound: no message is found to be spam while the admin chat has this many
    MaxClicks      \* bound: clicks waiting to be handled

ASSUME ModerationConstants ==
    /\ Channels \subseteq Users /\ Named \subseteq Users
    /\ Users \intersect Texts = {}
    /\ Modes \subseteq [soft : BOOLEAN, training : BOOLEAN, dry : BOOLEAN, cleanup : BOOLEAN,
                       supers : SUBSET (Users \ Channels), anonymous : SUBSET Channels,
                       mayFail : SUBSET {"storage", "telegram", "crash"}]
    /\ CleanupLimit \in Nat /\ MaxFailures \in Nat /\ MinSize \in Nat
    /\ MaxMessages \in Nat /\ MaxNotices \in Nat /\ MaxClicks \in Nat

VARIABLES
    mode,      \* the configuration the process runs with
    messages,  \* the messages of the chat: author, the texts it had, whether it is still there
    located,   \* the locator's table of messages, in the order of time
    status,    \* status[u]: free, restricted or banned in the chat
    approved,  \* users on the detector's list of approved users, enough clean messages or not
    approvedRows,  \* users with a row in table approved_users, from which a start makes the list
    notices,   \* the ban reports in the admin chat, with the buttons each shows
    clicks,    \* callback queries waiting for the listener
    todo,      \* the calls the present handler has still to make
    cleanups,  \* the goroutines that delete a user's messages
    verdict,   \* history: what was last decided about a user, and by whom
    failed,    \* history: users for whom a call failed since then, or who were not reported
    redeemed   \* history: users reported by an admin of whom a clean message was counted since

trust == <<approved, approvedRows>>
tables == <<located, trust>>
admin == <<notices, clicks>>
history == <<verdict, failed, redeemed>>
vars == <<mode, messages, status, tables, admin, todo, cleanups, history>>

----------------------------------------------------------------------------
\* Users listed as super, by id or by name, or admins of the chat when the bot started.
SuperUsers == mode.supers

\* The group itself, as which admins write who hide their names.
Anonymous == mode.anonymous

\* The outcomes of a call: it fails only if its kind may.
Outcomes(kind) == IF kind \in mode.mayFail THEN BOOLEAN ELSE {TRUE}

Idle == todo = <<>>

\* The calls handlers are made of.
Disapprove(u) == [op |-> "disapprove", user |-> u]
Approve(u) == [op |-> "approve", user |-> u]
Learn(u) == [op |-> "learn", user |-> u]
Delete(m) == [op |-> "delete", msg |-> m]
Ban(u, how) == [op |-> "ban", user |-> u, how |-> how]
Unban(u) == [op |-> "unban", user |-> u]
ReportBan(u, m, t) == [op |-> "report", user |-> u, msg |-> m, text |-> t]
Clear(n) == [op |-> "clear", note |-> n, user |-> notices[n].user]
Cleanup(u, m) == [op |-> "cleanup", user |-> u, msg |-> m]

When(condition, calls) == IF condition THEN calls ELSE <<>>

Decide(u, what) ==
    /\ verdict' = [verdict EXCEPT ![u] = what]
    /\ failed' = failed \ {u}
    /\ redeemed' = redeemed \ {u}

\* The group itself cannot be banned, whatever is said of it.
DecideBan(u) == IF u \in Anonymous THEN UNCHANGED history ELSE Decide(u, "ban")

\* A row written or deleted, if the store does it.
Record(rows, ok) == approvedRows' = IF ok THEN rows ELSE approvedRows

----------------------------------------------------------------------------
(* The locator.                                                            *)

\* The rows of other keys.
Without(key) == Keep(located, {i \in DOMAIN located : located[i].key # key})

\* The row of a text that is known keeps its message id.
InsertKeepingId(row) ==
    LET known == {i \in DOMAIN located : located[i].key = row.key}
    IN  Append(Without(row.key),
               IF known = {} THEN row ELSE [row EXCEPT !.id = located[CHOOSE i \in known : TRUE].id])

\* INSERT OR REPLACE: one row for each text, whoever wrote it.
Insert(row) == Append(Without(row.key), row)

\* cleanupMessages: too many rows make all expired ones go.
Cleaned(rows) ==
    IF Len(rows) > MinSize THEN Keep(rows, {i \in DOMAIN rows : ~rows[i].old}) ELSE rows

\* AddMessage, whose errors are only logged.
AddMessage(row) ==
    \E stored, cleaned \in Outcomes("storage") :
        located' = IF ~stored THEN located ELSE IF cleaned THEN Cleaned(Insert(row)) ELSE Insert(row)

\* The rows of a text, and the places of the rows of a user.
RowsOf(key) == {located[i] : i \in {i \in DOMAIN located : located[i].key = key}}
PlacesOf(u) == {i \in DOMAIN located : located[i].user = u}

\* UserNameByID takes the name from any row of the user; a join message has none.
NamesFound(u) ==
    IF PlacesOf(u) = {} THEN {FALSE} ELSE {located[i].named : i \in PlacesOf(u)}

----------------------------------------------------------------------------
(* Messages of the chat.                                                   *)

\* What the listener does about spam: the ban (or restriction), the report to the admin
\* chat, the other copies, the message.  A super user is reported in training only.
AutoBan(u, m, t, copies) ==
    IF u \in SuperUsers THEN When(mode.training, <<ReportBan(u, m, t)>>)
    ELSE <<Ban(u, IF mode.soft THEN "restrict" ELSE "ban"), ReportBan(u, m, t)>>
         \o When(~mode.dry /\ ~mode.training, SetToSeq({Delete(c) : c \in copies}) \o <<Delete(m)>>)

\* Other messages of the author with the same text, that the duplicate check may name.
Copies(u, m, t) == {c \in DOMAIN messages \ {m} : messages[c].from = u /\ t \in messages[c].said}

\* A clean message may be counted (not in paranoid mode, nor if it is short or its author
\* needs no check): in memory at once; an error of the store is ignored.
FoundHam(u) ==
    /\ todo' = <<>>
    /\ \/ UNCHANGED <<trust, redeemed>>
       \/ /\ u \notin Anonymous
          /\ approved' = approved \union {u}
          /\ \E ok \in Outcomes("storage") : Record(approvedRows \union {u}, ok)
          /\ redeemed' = IF verdict[u] = "ban" THEN redeemed \union {u} ELSE redeemed
    /\ UNCHANGED <<verdict, failed>>

\* Bound: no message is found to be spam when the admin chat has MaxNotices reports.
FoundSpam(u, m, t) ==
    /\ u \notin Anonymous
    /\ Len(notices) < MaxNotices
    /\ \E copies \in SUBSET Copies(u, m, t) : todo' = AutoBan(u, m, t, copies)
    /\ IF u \in SuperUsers THEN UNCHANGED history ELSE Decide(u, "auto")
    /\ UNCHANGED trust

\* procEvents: the locator, then the verdict of the detector, whatever it is.
ProcEvents(u, m, t) ==
    /\ AddMessage([key |-> t, user |-> u, named |-> u \in Named, id |-> m, old |-> FALSE])
    /\ FoundHam(u) \/ FoundSpam(u, m, t)
    /\ UNCHANGED <<mode, status, admin, cleanups>>

\* A message that is handled was sent before, perhaps before its author was banned.
Post(u, t) ==
    /\ Idle
    /\ Len(messages) < MaxMessages
    /\ messages' = Append(messages, [from |-> u, said |-> {t}, there |-> TRUE])
    /\ ProcEvents(u, Len(messages) + 1, t)

\* An edited message is handled like a new one, and perhaps when it is gone already.
Edit(m, t) ==
    /\ Idle
    /\ messages' = [messages EXCEPT ![m].said = @ \union {t}]
    /\ ProcEvents(messages[m].from, m, t)

\* A join message is put into the locator without a name.  Bound: who joins does so before
\* anybody writes.
Join(u) ==
    /\ Idle /\ u \notin Channels /\ messages = <<>>
    /\ AddMessage([key |-> u, user |-> u, named |-> FALSE, id |-> 0, old |-> FALSE])
    /\ UNCHANGED <<mode, messages, status, trust, admin, todo, cleanups, history>>

----------------------------------------------------------------------------
(* Forwards to the admin chat, and replies by super users.                 *)

\* The check made to show its results counts the message and approves its author again.
ForwardCounted(m, t) ==
    /\ Idle
    /\ t \in messages[m].said
    /\ \E row \in RowsOf(t) :
        /\ row.user \notin SuperUsers
        /\ todo' = <<Disapprove(row.user), Approve(row.user)>>
                   \o When(~mode.dry, <<Learn(row.user), Delete(row.id)>>
                                      \o When(row.user \notin Anonymous, <<Ban(row.user, "ban")>>))
        /\ DecideBan(row.user)
    /\ UNCHANGED <<mode, messages, status, tables, admin, cleanups>>

\* The user found in the locator is taken off the list, the author of the forward banned.
ForwardBansAuthor(m, t) ==
    /\ Idle
    /\ t \in messages[m].said
    /\ \E row \in RowsOf(t) :
        /\ row.user \notin SuperUsers
        /\ todo' = <<Disapprove(row.user)>>
                   \o When(~mode.dry, <<Learn(row.user), Delete(row.id)>>
                                      \o When(row.user \notin Anonymous, <<Ban(messages[m].from, "ban")>>))
        /\ DecideBan(row.user)
    /\ UNCHANGED <<mode, messages, status, tables, admin, cleanups>>

\* MsgHandler: the text of message m is looked up, and the user found is banned.
Forward(m, t) ==
    /\ Idle
    /\ t \in messages[m].said
    /\ \E row \in RowsOf(t) :
        /\ row.user \notin SuperUsers
        /\ todo' = <<Disapprove(row.user)>>
                   \o When(~mode.dry, <<Learn(row.user), Delete(row.id)>>
                                      \o When(row.user \notin Anonymous, <<Ban(row.user, "ban")>>))
        /\ DecideBan(row.user)
    /\ UNCHANGED <<mode, messages, status, tables, admin, cleanups>>

\* msgHandlerFallback: the text is not found, the forward names its author.
ForwardFallback(m, t) ==
    LET u == messages[m].from
    IN  /\ Idle
        /\ t \in messages[m].said
        /\ RowsOf(t) = {}
        /\ u \notin SuperUsers \union Channels
        /\ todo' = <<Disapprove(u)>> \o When(~mode.dry, <<Learn(u), Ban(u, "ban")>>)
        /\ Decide(u, "ban")
        /\ UNCHANGED <<mode, messages, status, tables, admin, cleanups>>

\* directReport: /spam and /ban.  Bound: one cleanup at a time.
DirectReport(m, t, updateSamples) ==
    LET u == messages[m].from
    IN  /\ Idle
        /\ t \in messages[m].said
        /\ ~(u \in Named /\ u \in SuperUsers)
        /\ cleanups = {}
        /\ todo' = <<Disapprove(u)>>
                   \o When(~mode.dry,
                           When(updateSamples, <<Learn(u)>>) \o <<Delete(m)>>
                           \o When(u \notin Anonymous,
                                   <<Ban(u, "ban")>> \o When(mode.cleanup, <<Cleanup(u, m)>>)))
        /\ DecideBan(u)
        /\ UNCHANGED <<mode, messages, status, tables, admin, cleanups>>

\* DirectWarnReport deletes the message and warns, in dry mode too.
DirectWarnReport(m) ==
    /\ Idle
    /\ ~(messages[m].from \in Named /\ messages[m].from \in SuperUsers)
    /\ todo' = <<Delete(m)>>
    /\ UNCHANGED <<mode, messages, status, tables, admin, cleanups, history>>

----------------------------------------------------------------------------
(* The buttons of a ban report.                                            *)

\* An admin clicks a button that is shown; the query waits for its turn.
Click(n, button) ==
    /\ Len(clicks) < MaxClicks
    /\ button \in notices[n].buttons
    /\ clicks' = Append(clicks, [note |-> n, button |-> button])
    /\ UNCHANGED <<mode, messages, status, tables, notices, todo, cleanups, history>>

Take(button) ==
    /\ Idle
    /\ clicks # <<>>
    /\ Head(clicks).button = button
    /\ clicks' = Tail(clicks)

clicked == Head(clicks).note
notice == notices[clicked]

Show(n, buttons, ok) ==
    notices' = IF ok THEN [notices EXCEPT ![n].buttons = buttons] ELSE notices

\* "?": the dialog with two buttons.
AskBanConfirmation ==
    /\ Take("ask")
    /\ \E ok \in Outcomes("telegram") : Show(clicked, {"unban", "keep"}, ok)
    /\ UNCHANGED <<mode, messages, status, tables, todo, cleanups, history>>

\* "!": the details; of the buttons it was clicked among, the first remains.
ShowInfo ==
    /\ Take("info")
    /\ \E ok \in Outcomes("telegram") : Show(clicked, {"ask"}, ok)
    /\ UNCHANGED <<mode, messages, status, tables, todo, cleanups, history>>

\* "+": deleteAndBan in training, a real ban in soft mode, else the ban is there already.
BanConfirmed ==
    LET u == notice.user
    IN  /\ Take("keep")
        /\ \E named \in NamesFound(u) :
            todo' = <<Clear(clicked), Learn(u)>>
                    \o When(mode.training,
                            When(~(named /\ u \in SuperUsers), <<Ban(u, "confirmed")>>)
                            \o <<Delete(notice.msg)>>)
                    \o When(mode.soft /\ ~mode.training, <<Ban(u, "ban")>>)
        /\ Decide(u, "keep")
        /\ UNCHANGED <<mode, messages, status, tables, notices, cleanups>>

\* "unban" takes back a ban of the bot's own that the admins were told of, "reversed" any other.
Pardon(u) ==
    IF verdict[u] \in {"none", "unban"} \/ (verdict[u] = "auto" /\ u \notin failed) THEN "unban" ELSE "reversed"

\* The buttons go before the user is free.
UnbanClearedFirst ==
    LET u == notice.user
    IN  /\ Take("unban")
        /\ todo' = <<Clear(clicked), Learn(u)>>
                   \o When(~mode.training, <<Unban(u)>>) \o <<Approve(u)>>
        /\ Decide(u, Pardon(u))
        /\ UNCHANGED <<mode, messages, status, tables, notices, cleanups>>

\* In soft mode nobody is taken to be banned.
UnbanHardOnly ==
    LET u == notice.user
    IN  /\ Take("unban")
        /\ todo' = <<Learn(u)>>
                   \o When(~mode.training /\ ~mode.soft, <<Unban(u)>>) \o <<Approve(u), Clear(clicked)>>
        /\ Decide(u, Pardon(u))
        /\ UNCHANGED <<mode, messages, status, tables, notices, cleanups>>

\* No prefix: learned as ham, unbanned unless training, approved; then the buttons go.
UnbanConfirmed ==
    LET u == notice.user
    IN  /\ Take("unban")
        /\ todo' = <<Learn(u)>>
                   \o When(~mode.training, <<Unban(u)>>) \o <<Approve(u), Clear(clicked)>>
        /\ Decide(u, Pardon(u))
        /\ UNCHANGED <<mode, messages, status, tables, notices, cleanups>>

\* The query of an unban cannot be answered: the handler ends at once.
AnswerFails ==
    /\ "telegram" \in mode.mayFail
    /\ Take("unban")
    /\ failed' = failed \union {notice.user}
    /\ UNCHANGED <<mode, messages, status, tables, notices, todo, cleanups, verdict, redeemed>>

----------------------------------------------------------------------------
(* The calls.                                                              *)

next == Head(todo)
At(op) == todo # <<>> /\ next.op = op

\* A failure that ends the handler, and one that is only reported.
StopUnless(ok) == todo' = IF ok THEN Tail(todo) ELSE <<>>
Fail(ok) ==
    /\ failed' = IF ok THEN failed ELSE failed \union {next.user}
    /\ UNCHANGED redeemed

\* Taken off the list in memory at once; the row stays if it cannot be deleted, which is only
\* reported.  That there is none is an error, too, and harmless.
RemoveApprovedUser ==
    /\ At("disapprove")
    /\ approved' = approved \ {next.user}
    /\ \E ok \in Outcomes("storage") :
        Record(approvedRows \ {next.user}, ok) /\ Fail(ok \/ next.user \notin approvedRows)
    /\ todo' = Tail(todo)
    /\ UNCHANGED <<mode, messages, status, located, admin, cleanups, verdict>>

\* In memory at once; the store may fail, which ends the handler.
AddApprovedUser ==
    /\ At("approve")
    /\ approved' = approved \union {next.user}
    /\ \E ok \in Outcomes("storage") :
        Record(approvedRows \union {next.user}, ok) /\ StopUnless(ok) /\ Fail(ok)
    /\ UNCHANGED <<mode, messages, status, located, admin, cleanups, verdict>>

\* UpdateSpam or UpdateHam.
UpdateSamples ==
    /\ At("learn")
    /\ \E ok \in Outcomes("storage") : StopUnless(ok) /\ Fail(ok)
    /\ UNCHANGED <<mode, messages, status, tables, admin, cleanups, verdict>>

MarkDeleted(m) ==
    messages' = IF m \in DOMAIN messages THEN [messages EXCEPT ![m].there = FALSE] ELSE messages

DeleteMessage ==
    /\ At("delete")
    /\ \E ok \in Outcomes("telegram") : IF ok THEN MarkDeleted(next.msg) ELSE UNCHANGED messages
    /\ todo' = Tail(todo)
    /\ UNCHANGED <<mode, status, tables, admin, cleanups, history>>

Unreported(calls) == Keep(calls, {i \in DOMAIN calls : calls[i].op # "report"})

\* The status recorded is the sanction asked for, which is not always one of the chat.
BanAsAsked ==
    LET u       == next.user
        skipped == mode.dry \/ (mode.training /\ next.how # "confirmed")
    IN  /\ At("ban")
        /\ \E ok \in IF skipped THEN {TRUE} ELSE Outcomes("telegram") :
            /\ status' = IF ok /\ ~skipped THEN [status EXCEPT ![u] = next.how] ELSE status
            /\ todo' = IF ok THEN Tail(todo) ELSE Unreported(Tail(todo))
            /\ Fail(ok)
        /\ UNCHANGED <<mode, messages, tables, admin, cleanups, verdict>>

\* banUserOrChannel: nothing in dry mode nor, unless confirmed, in training; a ban that
\* failed is not reported.
BanUserOrChannel ==
    LET u       == next.user
        skipped == mode.dry \/ (mode.training /\ next.how # "confirmed")
        sanction == IF next.how = "restrict" /\ u \notin Channels THEN "restricted" ELSE "banned"
    IN  /\ At("ban")
        /\ \E ok \in IF skipped THEN {TRUE} ELSE Outcomes("telegram") :
            /\ status' = IF ok /\ ~skipped THEN [status EXCEPT ![u] = sanction] ELSE status
            /\ todo' = IF ok THEN Tail(todo) ELSE Unreported(Tail(todo))
            /\ Fail(ok)
        /\ UNCHANGED <<mode, messages, tables, admin, cleanups, verdict>>

\* unban and unbanChannel.
UnbanUser ==
    /\ At("unban")
    /\ \E ok \in Outcomes("telegram") :
        /\ status' = IF ok THEN [status EXCEPT ![next.user] = "free"] ELSE status
        /\ StopUnless(ok) /\ Fail(ok)
    /\ UNCHANGED <<mode, messages, tables, admin, cleanups, verdict>>

\* sendWithUnbanMarkup, whose failure is only logged.
SendReport ==
    /\ At("report")
    /\ \E ok \in Outcomes("telegram") :
        /\ notices' = IF ok THEN Append(notices, [user |-> next.user, msg |-> next.msg, text |-> next.text,
                                                  buttons |-> {"ask", "info"}])
                      ELSE notices
        /\ Fail(ok)
    /\ todo' = Tail(todo)
    /\ UNCHANGED <<mode, messages, status, tables, clicks, cleanups, verdict>>

ClearButtons ==
    /\ At("clear")
    /\ \E ok \in Outcomes("telegram") : Show(next.note, {}, ok) /\ StopUnless(ok) /\ Fail(ok)
    /\ UNCHANGED <<mode, messages, status, tables, clicks, cleanups, verdict>>

StartCleanup ==
    /\ At("cleanup")
    /\ cleanups' = cleanups \union {[msg |-> next.msg, user |-> next.user, fetched |-> FALSE,
                                     ids |-> <<>>, failures |-> 0]}
    /\ todo' = Tail(todo)
    /\ UNCHANGED <<mode, messages, status, tables, admin, history>>

----------------------------------------------------------------------------
(* deleteUserMessages, in a goroutine of its own.                          *)

Become(c, d) == cleanups' = (cleanups \ {c}) \union {d}

\* The newest rows of the user, one for each text.
Newest(u) ==
    LET rows == Keep(located, PlacesOf(u))
        n    == Len(rows)
    IN  [i \in 1 .. IF n < CleanupLimit THEN n ELSE CleanupLimit |-> rows[n + 1 - i].id]

FetchMessages(c) ==
    /\ ~c.fetched
    /\ \E ok \in Outcomes("storage") :
        IF ok THEN Become(c, [c EXCEPT !.fetched = TRUE, !.ids = Newest(c.user)])
        ELSE cleanups' = cleanups \ {c}
    /\ UNCHANGED <<mode, messages, status, tables, admin, todo, history>>

\* A message that is gone already cannot be deleted, which is a failure like any other.
Deletable(id) == id \in DOMAIN messages => messages[id].there

\* A message that cannot be deleted is tried again.
DeleteAgain(c) ==
    /\ c.fetched /\ c.ids # <<>> /\ c.failures < MaxFailures
    /\ \E ok \in IF Deletable(Head(c.ids)) THEN Outcomes("telegram") ELSE {FALSE} :
        IF ok THEN MarkDeleted(Head(c.ids)) /\ Become(c, [c EXCEPT !.ids = Tail(@), !.failures = 0])
        ELSE UNCHANGED <<messages, cleanups>>
    /\ UNCHANGED <<mode, status, tables, admin, todo, history>>

DeleteNext(c) ==
    /\ c.fetched /\ c.ids # <<>> /\ c.failures < MaxFailures
    /\ \E ok \in IF Deletable(Head(c.ids)) THEN Outcomes("telegram") ELSE {FALSE} :
        IF ok THEN MarkDeleted(Head(c.ids)) /\ Become(c, [c EXCEPT !.ids = Tail(@), !.failures = 0])
        ELSE Become(c, [c EXCEPT !.ids = Tail(@), !.failures = @ + 1]) /\ UNCHANGED messages
    /\ UNCHANGED <<mode, status, tables, admin, todo, history>>

EndCleanup(c) ==
    /\ c.fetched
    /\ c.ids = <<>> \/ c.failures >= MaxFailures
    /\ cleanups' = cleanups \ {c}
    /\ UNCHANGED <<mode, messages, status, tables, admin, todo, history>>

----------------------------------------------------------------------------
(* The environment.                                                        *)

\* The process dies, also in the middle of a handler, and is started again: whoever has a row
\* is approved then (WithUserStorage), and nobody else.
Crash ==
    /\ "crash" \in mode.mayFail
    /\ todo' = <<>>
    /\ cleanups' = {}
    /\ clicks' \in {clicks, <<>>}
    /\ failed' = failed \union {todo[i].user : i \in {i \in DOMAIN todo : todo[i].op # "delete"}}
                        \union {notices[clicks[i].note].user : i \in DOMAIN clicks}
    /\ approved' = approvedRows
    /\ UNCHANGED <<mode, messages, status, located, approvedRows, notices, verdict, redeemed>>

\* The time to live of all messages located so far has passed.
Expire ==
    /\ located' = [i \in DOMAIN located |-> [located[i] EXCEPT !.old = TRUE]]
    /\ UNCHANGED <<mode, messages, status, trust, admin, todo, cleanups, history>>

Init ==
    /\ mode \in Modes
    /\ messages = <<>> /\ located = <<>>
    /\ status = [u \in Users |-> "free"]
    /\ approved = {} /\ approvedRows = {}
    /\ notices = <<>> /\ clicks = <<>> /\ todo = <<>>
    /\ cleanups = {}
    /\ verdict = [u \in Users |-> "none"]
    /\ failed = {} /\ redeemed = {}

Chat ==
    \/ \E u \in Users : Join(u) \/ \E t \in Texts : Post(u, t)
    \/ \E m \in DOMAIN messages, t \in Texts : Edit(m, t)

Command ==
    \E m \in DOMAIN messages :
        \/ DirectWarnReport(m)
        \/ \E t \in Texts : Forward(m, t) \/ ForwardFallback(m, t)
        \/ \E t \in Texts, updateSamples \in BOOLEAN : DirectReport(m, t, updateSamples)

InlineCallback == AskBanConfirmation \/ ShowInfo \/ BanConfirmed \/ UnbanConfirmed \/ AnswerFails

Call ==
    \/ RemoveApprovedUser \/ AddApprovedUser \/ UpdateSamples \/ DeleteMessage
    \/ BanUserOrChannel \/ UnbanUser \/ SendReport \/ ClearButtons \/ StartCleanup

DeleteUserMessages == \E c \in cleanups : FetchMessages(c) \/ DeleteNext(c) \/ EndCleanup(c)

Admin == \E n \in DOMAIN notices : \E button \in notices[n].buttons : Click(n, button)

Next ==
    \/ Chat \/ Command \/ InlineCallback \/ Call \/ DeleteUserMessages
    \/ Admin \/ Crash \/ Expire

Spec == Init /\ [][Next]_vars

\* A handler goes on, a goroutine is scheduled; updates are taken from the channel in the
\* order they came, so that a click is not passed over for ever.
Fairness ==
    /\ WF_vars(Call)
    /\ SF_vars(InlineCallback)
    /\ WF_vars(DeleteUserMessages)

FairSpec == Spec /\ Fairness

----------------------------------------------------------------------------
(* Properties.                                                             *)

Calls ==
    [op : {"disapprove", "approve", "learn", "unban"}, user : Users]
    \union [op : {"delete"}, msg : Nat]
    \union [op : {"ban"}, user : Users, how : {"restrict", "ban", "confirmed"}]
    \union [op : {"report"}, user : Users, msg : Nat, text : Texts]
    \union [op : {"clear"}, note : Nat, user : Users]
    \union [op : {"cleanup"}, user : Users, msg : Nat]

Buttons == {"ask", "info", "unban", "keep"}
Statuses == {"free", "restricted", "banned"}
Verdicts == {"none", "auto", "ban", "keep", "unban", "reversed"}
MessageSet == [from : Users, said : SUBSET Texts, there : BOOLEAN]
RowSet == [key : Texts \union Users, user : Users, named : BOOLEAN, id : Nat, old : BOOLEAN]
NoticeSet == [user : Users, msg : Nat, text : Texts, buttons : SUBSET Buttons]
ClickSet == [note : Nat, button : Buttons]
CleanupSet == [msg : Nat, user : Users, fetched : BOOLEAN, ids : Seq(Nat), failures : 0 .. MaxFailures]

\* Every variable holds a value of its type.
TypeOK ==
    /\ mode \in Modes
    /\ messages \in Seq(MessageSet)
    /\ located \in Seq(RowSet)
    /\ status \in [Users -> Statuses]
    /\ approved \in SUBSET Users /\ approvedRows \in SUBSET Users
    /\ notices \in Seq(NoticeSet)
    /\ clicks \in Seq(ClickSet)
    /\ todo \in Seq(Calls)
    /\ cleanups \in SUBSET CleanupSet
    /\ verdict \in [Users -> Verdicts]
    /\ failed \in SUBSET Users /\ redeemed \in SUBSET Users

\* "to ban this user, we need to get the match on the message from the locator" (admin.go):
\* through edits, replaced rows and expiry, the message a text leads to is by the user it
\* leads to, and has had that text.
LocatorConsistent ==
    \A i \in DOMAIN located :
        LET row == located[i]
        IN  row.key \in Texts => /\ messages[row.id].from = row.user
                                 /\ row.key \in messages[row.id].said

\* What an admin decided about a user holds when the listener is done with it, if no call
\* for it failed and no message of the user was found to be spam later; also after a restart,
\* which takes the approved users from their table.  An unbanned user is approved, and free
\* except in training, where an unban is not made.  A user reported by an admin is banned,
\* and not approved unless a message of his that came later was found clean; but in training
\* he is not banned, although admin.go:78 says so (the code passes training on to
\* banUserOrChannel), nor in dry mode.  A ban confirmed in soft mode or training is a real
\* one, except of super users.
DecisionsHold ==
    \A u \in Users \ failed :
        Idle =>
            /\ verdict[u] \in {"unban", "reversed"} =>
                u \in approved \intersect approvedRows /\ (status[u] = "free" \/ mode.training)
            /\ verdict[u] = "ban" =>
                /\ u \notin approved \union approvedRows \/ u \in redeemed
                /\ status[u] = "banned" \/ mode.dry \/ mode.training
            /\ verdict[u] = "keep" /\ (mode.soft \/ mode.training) /\ ~mode.dry =>
                status[u] = "banned" \/ u \in SuperUsers

Appealable(u) == \E n \in DOMAIN notices : notices[n].user = u /\ notices[n].buttons # {}

\* Whoever the bot banned or restricted by itself, and reported, can be unbanned from the
\* admin chat until an admin has done so or decided to ban: the buttons survive the dialogs,
\* and an unban that fails half-way can be tried again.  Not in training, where the bot bans
\* nobody by itself and a click on unban lifts no ban.
BanAppealable ==
    \A u \in Users :
        /\ Idle /\ ~mode.training /\ status[u] # "free"
        /\ verdict[u] = "unban" \/ (verdict[u] = "auto" /\ u \notin failed)
        => Appealable(u)

\* What is decided about a user, where it makes no difference what was decided before.
Decided(u) == IF verdict[u] = "reversed" THEN "unban" ELSE verdict[u]

Promise == INSTANCE Standing WITH
    standing <- status, trusted <- approved, recorded <- approvedRows,
    decided <- [u \in Users |-> Decided(u)]

\* The listener, with its queue of clicks, its lists of calls, the rows of the locator that
\* lead from a text to a user, failed calls and crashes, implements Standing: nobody is
\* banned, restricted or released but by the latest decision about that same user, and trust
\* changes by clean messages of that user, by such a decision, and by a restart, which goes
\* by the table: that brings back who could not be deleted, and loses who could not be
\* written.
StandingSpec == Promise!Spec

\* "check if user is super and don't ban if so" (deleteAndBan in admin.go), whatever has
\* become of the row that tells the name.
SupersSafe == \A u \in SuperUsers : status[u] = "free"

\* An aggressive cleanup ends, although the listener adds messages to the locator meanwhile,
\* and messages it has to delete may be gone or refused.
CleanupEnds == cleanups # {} ~> cleanups = {}

Waiting(n, button) == \E i \in DOMAIN clicks : clicks[i].note = n /\ clicks[i].button = button

\* A click on unban sets the user free or fails where the admins see it.
UnbanHappens ==
    \A n \in 1 .. MaxNotices :
        Waiting(n, "unban") ~>
            /\ n \in DOMAIN notices
            /\ status[notices[n].user] = "free" \/ notices[n].user \in failed \/ mode.training

----------------------------------------------------------------------------
(* The inductive invariant of the proofs.                                  *)

\* Clicks are on reports that exist, and reports are never about the group itself, which is
\* neither approved nor banned.
Reported ==
    /\ \A i \in DOMAIN clicks : clicks[i].note \in DOMAIN notices
    /\ \A n \in DOMAIN notices : notices[n].user \notin Anonymous

AnonymousSpared ==
    \A u \in Anonymous : status[u] = "free" /\ verdict[u] = "none" /\ u \notin approved \union approvedRows

\* A text leads to a message that exists.
RowsKnown == \A i \in DOMAIN located : located[i].key \in Texts => located[i].id \in DOMAIN messages

\* Nobody is banned without a decision.
SanctionDecided(u) == verdict[u] = "none" => status[u] = "free"

\* A call follows from the latest decision about its user.
Justified(call) ==
    LET u == call.user
    IN  /\ call.op = "disapprove" => verdict[u] = "ban" \/ u \in Anonymous
        /\ call.op \in {"approve", "unban"} => verdict[u] \in {"unban", "reversed"} /\ u \notin Anonymous
        /\ call.op = "ban" =>
            /\ u \notin Anonymous
            /\ \/ verdict[u] = "auto" /\ call.how # "confirmed"
               \/ verdict[u] \in {"ban", "keep"} /\ call.how # "restrict"
        /\ call.op = "report" => u \notin Anonymous
        /\ call.op = "clear" =>
            /\ verdict[u] \in {"keep", "unban", "reversed"}
            /\ call.note \in DOMAIN notices /\ notices[call.note].user = u

Pending(op, u) == \E i \in DOMAIN todo : todo[i].op = op /\ todo[i].user = u

\* A ban that will be a real one.
PendingBan(u) ==
    \E i \in DOMAIN todo :
        /\ todo[i].op = "ban" /\ todo[i].user = u
        /\ todo[i].how # "restrict" /\ (mode.training => todo[i].how = "confirmed")

\* The calls of a handler are about one user; the bot's own ban comes first and is reported
\* later, and the buttons are not cleared before the user is free.
HandlerSound ==
    /\ \A i \in DOMAIN todo : todo[i].op # "delete" => Justified(todo[i])
    /\ \A i, j \in DOMAIN todo :
        todo[i].op # "delete" /\ todo[j].op # "delete" => todo[i].user = todo[j].user
    /\ \A i \in DOMAIN todo :
        todo[i].op = "ban" /\ verdict[todo[i].user] = "auto" => i = 1 /\ Pending("report", todo[i].user)
    /\ \A i \in DOMAIN todo :
        todo[i].op = "clear" /\ verdict[todo[i].user] = "unban" =>
            \/ status[todo[i].user] = "free" \/ mode.training
            \/ \E j \in DOMAIN todo : j < i /\ todo[j].op = "unban"

\* What was decided holds or is still to be done.
DecisionUnderWay(u) ==
    /\ verdict[u] \in {"unban", "reversed"} =>
        /\ u \in approved \intersect approvedRows \/ Pending("approve", u)
        /\ status[u] = "free" \/ mode.training \/ Pending("unban", u)
    /\ verdict[u] = "ban" =>
        /\ u \notin approved \union approvedRows \/ u \in redeemed \/ Pending("disapprove", u)
        /\ status[u] = "banned" \/ mode.dry \/ mode.training \/ PendingBan(u)
    /\ verdict[u] = "keep" /\ (mode.soft \/ mode.training) /\ ~mode.dry =>
        status[u] = "banned" \/ u \in SuperUsers \/ PendingBan(u)

\* A ban by the bot can be appealed or is still to be reported.
AppealUnderWay(u) ==
    status[u] # "free" /\ ~mode.training =>
        /\ verdict[u] = "unban" => Appealable(u)
        /\ verdict[u] = "auto" /\ u \notin failed => Appealable(u) \/ Pending("report", u)

ModerationInv ==
    /\ TypeOK
    /\ LocatorConsistent /\ RowsKnown
    /\ Reported /\ AnonymousSpared
    /\ HandlerSound
    /\ \A u \in Users : SanctionDecided(u) /\ AppealUnderWay(u)
    /\ \A u \in Users \ failed : DecisionUnderWay(u)
=============================================================================
