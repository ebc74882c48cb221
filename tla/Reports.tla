------------------------------ MODULE Reports ------------------------------
(***************************************************************************)
(* Spam reports by users: the table reports, the notifications in the      *)
(* admin chat with their buttons, and the handlers of userReports.         *)
(*                                                                         *)
(* One goroutine, the listener, runs the handlers one after the other, so  *)
(* they never overlap; but each is a series of calls to the store and to   *)
(* Telegram that fail one by one (most failures are logged and the handler *)
(* goes on), the process may die between any two, and admins click buttons *)
(* while other updates wait in the queue: a click is handled when the      *)
(* button may be long gone.                                                *)
(***************************************************************************)
EXTENDS Naturals, Sequences, FiniteSets, Subsequences

CONSTANTS
    Users,             \* users of the chat
    SuperUsers,        \* users whose reports and messages are left alone
    ApprovedAtStart,   \* the approved users to begin with
    Msgs,              \* messages of the primary chat that are reported
    AuthorOf,          \* AuthorOf[m]: the user who sent m
    Threshold,         \* ReportConfig.Threshold
    AutoBanThreshold,  \* ReportConfig.AutoBanThreshold, 0 turns it off
    RateLimit,         \* ReportConfig.RateLimit, 0 turns it off
    Effects,           \* {} in dry mode, {"delete"} in training, else {"delete", "ban"}
    MayFail,           \* what may go wrong: a subset of {"storage", "telegram", "crash"}
    MaxNotifications,  \* bound: no report is handled when the admin chat has this many
    MaxClicks          \* bound: clicks waiting to be handled

ASSUME ReportsConstants ==
    /\ Msgs # {} /\ SuperUsers \subseteq Users /\ ApprovedAtStart \subseteq Users
    /\ AuthorOf \in [Msgs -> Users]
    /\ Threshold \in Nat \ {0} /\ AutoBanThreshold \in Nat /\ RateLimit \in Nat
    /\ AutoBanThreshold = 0 \/ AutoBanThreshold >= Threshold
    /\ Effects \subseteq {"delete", "ban"}
    /\ MayFail \subseteq {"storage", "telegram", "crash"}
    /\ MaxNotifications \in Nat /\ MaxClicks \in Nat

VARIABLES
    rows,           \* rows[m]: the reports of m in the table, the oldest first
    notifications,  \* the messages in the admin chat, with the buttons each shows
    clicks,         \* callback queries waiting for the listener
    approved,       \* users for whom IsApprovedUser holds
    banned,         \* users banned from the primary chat
    deleted,        \* messages deleted from the primary chat
    handler,        \* the handler the listener is in, and how far
    untold,         \* history: messages auto-banned for, and neither told to nor dealt with by admins
    rejected,       \* history: messages whose reports were rejected, with no report since
    autoBanned,     \* history: messages whose auto-ban is complete, with no report since
    broken          \* history: messages one of whose handlers failed, with no report since

chat == <<approved, banned, deleted>>
history == <<untold, rejected, autoBanned, broken>>
vars == <<rows, notifications, clicks, chat, handler, history>>

----------------------------------------------------------------------------
\* The outcomes of a call: it fails only if its kind may.
Outcomes(kind) == IF kind \in MayFail THEN BOOLEAN ELSE {TRUE}

msg == handler.msg
note == handler.note

At(place) == handler.at = place
GoTo(place) == handler' = [handler EXCEPT !.at = place]
Start(place, mode, m, n, u) == handler' = [at |-> place, mode |-> mode, msg |-> m, note |-> n, user |-> u]
Idle == [at |-> "idle", mode |-> "report", msg |-> CHOOSE m \in Msgs : TRUE, note |-> 0,
         user |-> AuthorOf[CHOOSE m \in Msgs : TRUE]]
Done == handler' = Idle

Modes == {"report", "auto", "ban", "reject", "reporter"}
Places == {"idle", "add", "check", "send", "save", "update", "punish", "tell",
           "remaining", "restore", "clear", "close"}

Reporters(m) == {rows[m][i].by : i \in DOMAIN rows[m]}

\* NotificationSent of reports[0], the only row that is asked.
Notified(m) == rows[m] # <<>> /\ Head(rows[m]).admin > 0

\* The buttons of a notification with the callback data of another kind of notification.
MainButtonsUnprefixed(m) == {<<kind, AuthorOf[m]>> : kind \in {"R+", "R-", "?"}}

\* The callback data of the buttons: of a notification, and of the dialog behind "R?".
MainButtons(m) == {<<kind, AuthorOf[m]>> : kind \in {"R+", "R-", "R?"}}
DialogButtons(m) == {<<"R!", u>> : u \in Reporters(m)} \union {<<"RX", AuthorOf[m]>>}

\* Edit the buttons of notification n, if Telegram agrees.
Show(n, buttons, ok) ==
    notifications' = IF ok THEN [notifications EXCEPT ![n].buttons = buttons] ELSE notifications

Break(m, ok) == broken' = IF ok THEN broken ELSE broken \union {m}

----------------------------------------------------------------------------
(* DirectUserReport.                                                       *)

\* Rows of the reporter, whatever the message, that are still in the rate period.
RateLimited(u) ==
    RateLimit > 0 /\
    RateLimit <= Cardinality({m \in Msgs : \E i \in DOMAIN rows[m] :
                                 rows[m][i].by = u /\ rows[m][i].age = 0})

\* The checks that come before the store; a refused report changes nothing modelled.
DirectUserReport(u, m) ==
    /\ At("idle") /\ Len(notifications) < MaxNotifications
    /\ u \notin SuperUsers /\ AuthorOf[m] \notin SuperUsers
    /\ u \in approved
    /\ ~RateLimited(u)
    /\ Start("add", "report", m, 0, u)
    /\ UNCHANGED <<rows, notifications, clicks, chat, history>>

\* Add, by INSERT OR IGNORE, and its cleanup of rows older than seven days.
AddReport ==
    LET added == IF handler.user \in Reporters(msg) THEN rows
                 ELSE [rows EXCEPT ![msg] = Append(@, [by |-> handler.user, admin |-> 0, age |-> 0])]
        kept  == [m \in Msgs |-> Keep(added[m], {i \in DOMAIN added[m] : added[m][i].age < 2})]
    IN  /\ At("add")
        /\ \E cleaned \in Outcomes("storage") : rows' = IF cleaned THEN kept ELSE added
        /\ GoTo("check")
        /\ untold' = {m \in untold : rows'[m] # <<>>}
        /\ rejected' = rejected \ {msg}
        /\ autoBanned' = autoBanned \ {msg}
        /\ broken' = broken \ {msg}
        /\ UNCHANGED <<notifications, clicks, chat>>

\* Add or GetByMessage fails: the handler gives up.
ReportFails ==
    /\ "storage" \in MayFail
    /\ At("add") \/ At("check")
    /\ Done
    /\ Break(msg, At("add"))
    /\ UNCHANGED <<rows, notifications, clicks, chat, untold, rejected, autoBanned>>

\* checkReportThreshold.
CheckThreshold ==
    LET count == Len(rows[msg])
        auto  == AutoBanThreshold > 0 /\ count >= AutoBanThreshold
    IN  /\ At("check")
        /\ \/ auto /\ Start("punish", "auto", msg, 0, handler.user)
           \/ ~auto /\ count < Threshold /\ Done
           \/ ~auto /\ count >= Threshold /\ Notified(msg)
              /\ Start("update", "report", msg, Head(rows[msg]).admin, handler.user)
           \/ ~auto /\ count >= Threshold /\ ~Notified(msg) /\ GoTo("send")
        /\ UNCHANGED <<rows, notifications, clicks, chat, history>>

\* sendReportNotification: the message is sent ...
SendNotification ==
    /\ At("send")
    /\ \E ok \in Outcomes("telegram") :
        /\ IF ok
           THEN /\ notifications' = Append(notifications, [msg |-> msg, buttons |-> MainButtons(msg)])
                /\ Start("save", "report", msg, Len(notifications) + 1, handler.user)
           ELSE Done /\ UNCHANGED notifications
        /\ Break(msg, ok)
    /\ UNCHANGED <<rows, clicks, chat, untold, rejected, autoBanned>>

\* ... and its id is stored with all reports of the message; a failure is only logged.
SaveAdminMsgID ==
    /\ At("save")
    /\ \E ok \in Outcomes("storage") :
        /\ rows' = IF ok THEN [rows EXCEPT ![msg] = [i \in DOMAIN @ |-> [@[i] EXCEPT !.admin = note]]]
                   ELSE rows
        /\ Break(msg, ok)
    /\ Done
    /\ UNCHANGED <<notifications, clicks, chat, untold, rejected, autoBanned>>

\* updateReportNotification: new text, and the three buttons again.
UpdateNotification ==
    /\ At("update")
    /\ \E ok \in Outcomes("telegram") : Show(note, MainButtons(msg), ok) /\ Break(msg, ok)
    /\ Done
    /\ UNCHANGED <<rows, clicks, chat, untold, rejected, autoBanned>>

----------------------------------------------------------------------------
(* What executeAutoBan and callbackReportBan have in common, and the rest  *)
(* of executeAutoBan.                                                      *)

\* The author is no longer approved; the message is deleted and the author banned, as
\* far as the mode has it so and Telegram agrees.  Learning the text is in Samples.
Punish ==
    /\ At("punish")
    /\ approved' = approved \ {AuthorOf[msg]}
    /\ \E ok \in Outcomes("telegram") :
        deleted' = IF ok /\ "delete" \in Effects THEN deleted \union {msg} ELSE deleted
    /\ \E ok \in Outcomes("telegram") :
        banned' = IF ok /\ "ban" \in Effects THEN banned \union {AuthorOf[msg]} ELSE banned
    /\ IF handler.mode = "auto"
       THEN GoTo("tell") /\ untold' = untold \union {msg}
       ELSE GoTo("clear") /\ UNCHANGED untold
    /\ UNCHANGED <<rows, notifications, clicks, rejected, autoBanned, broken>>

\* The auto-ban that deletes the reports before anybody is told.
TellAfterClear ==
    /\ At("tell")
    /\ rows' = [rows EXCEPT ![msg] = <<>>]
    /\ GoTo("clear")
    /\ UNCHANGED <<notifications, clicks, chat, history>>

\* The existing notification loses its buttons, or a new one without buttons is sent.
\* If that fails the reports are kept: the handler ends here.
TellAutoBan ==
    /\ At("tell")
    /\ \E ok \in Outcomes("telegram") :
        /\ IF Notified(msg) THEN Show(Head(rows[msg]).admin, {}, ok)
           ELSE notifications' =
                    IF ok THEN Append(notifications, [msg |-> msg, buttons |-> {}]) ELSE notifications
        /\ IF ok THEN GoTo("clear") ELSE Done
        /\ untold' = IF ok THEN untold \ {msg} ELSE untold
        /\ Break(msg, ok)
    /\ UNCHANGED <<rows, clicks, chat, rejected, autoBanned>>

\* DeleteByMessage, whose failure is only logged.  An auto-ban is complete after it.
Clear ==
    /\ At("clear")
    /\ \E ok \in Outcomes("storage") :
        /\ rows' = IF ok THEN [rows EXCEPT ![msg] = <<>>] ELSE rows
        /\ rejected' = IF ok /\ handler.mode = "reject" THEN rejected \union {msg} ELSE rejected
        /\ autoBanned' = IF ok /\ handler.mode = "auto" THEN autoBanned \union {msg} ELSE autoBanned
        /\ Break(msg, ok)
    /\ IF handler.mode = "auto" THEN Done ELSE GoTo("close")
    /\ UNCHANGED <<notifications, clicks, chat, untold>>

----------------------------------------------------------------------------
(* The buttons.                                                            *)

\* An admin clicks a button that is shown; the query waits for its turn.
Click(n, button) ==
    /\ Len(clicks) < MaxClicks
    /\ button \in notifications[n].buttons
    /\ clicks' = Append(clicks, [note |-> n, button |-> button])
    /\ UNCHANGED <<rows, notifications, chat, handler, history>>

\* HandleReportCallback takes a query whose button is of that kind.
Take(kind) ==
    /\ At("idle")
    /\ clicks # <<>>
    /\ Head(clicks).button[1] = kind
    /\ clicks' = Tail(clicks)

on == Head(clicks).note
about == notifications[on].msg

\* R+, R-, R? and R! of a message without reports, or whose reports cannot be read.
CallbackFails ==
    /\ \E kind \in {"R+", "R-", "R?", "R!"} : Take(kind)
    /\ rows[about] = <<>> \/ "storage" \in MayFail
    /\ UNCHANGED <<rows, notifications, chat, handler, history>>

\* The approval of a ban that does not ask whether there are reports.
BanAnyway ==
    /\ Take("R+")
    /\ Start("punish", "ban", about, on, AuthorOf[about])
    /\ untold' = untold \ {about}
    /\ UNCHANGED <<rows, notifications, chat, rejected, autoBanned, broken>>

ReportBan ==
    /\ Take("R+")
    /\ rows[about] # <<>>
    /\ Start("punish", "ban", about, on, AuthorOf[about])
    /\ untold' = untold \ {about}
    /\ UNCHANGED <<rows, notifications, chat, rejected, autoBanned, broken>>

ReportReject ==
    /\ Take("R-")
    /\ rows[about] # <<>>
    /\ Start("clear", "reject", about, on, AuthorOf[about])
    /\ untold' = untold \ {about}
    /\ UNCHANGED <<rows, notifications, chat, rejected, autoBanned, broken>>

BanReporterAsk ==
    /\ Take("R?")
    /\ rows[about] # <<>>
    /\ \E ok \in Outcomes("telegram") : Show(on, DialogButtons(about), ok)
    /\ UNCHANGED <<rows, chat, handler, history>>

\* The reporter on the button is banned and the report deleted, if both calls succeed.
BanReporterConfirm ==
    LET reporter == Head(clicks).button[2]
    IN  /\ Take("R!")
        /\ rows[about] # <<>>
        /\ \E ok \in Outcomes("telegram") :
            banned' = IF ok /\ "ban" \in Effects THEN banned \union {reporter} ELSE banned
        /\ \E ok \in Outcomes("storage") :
            rows' = IF ok THEN [rows EXCEPT ![about] = Keep(@, {i \in DOMAIN @ : @[i].by # reporter})]
                    ELSE rows
        /\ Start("remaining", "reporter", about, on, reporter)
        /\ untold' = untold \ {about}
        /\ UNCHANGED <<notifications, approved, deleted, rejected, autoBanned, broken>>

\* The buttons are closed although reports of other users remain.
CountAsNone ==
    /\ At("remaining")
    /\ GoTo("close")
    /\ UNCHANGED <<rows, notifications, clicks, chat, history>>

\* The reports that remain; a failure to read them counts as none.
CountRemaining ==
    /\ At("remaining")
    /\ \E ok \in Outcomes("storage") : GoTo(IF ok /\ rows[msg] # <<>> THEN "restore" ELSE "clear")
    /\ UNCHANGED <<rows, notifications, clicks, chat, history>>

Restore ==
    /\ At("restore")
    /\ \E ok \in Outcomes("telegram") : Show(note, MainButtons(msg), ok)
    /\ Done
    /\ UNCHANGED <<rows, clicks, chat, history>>

\* The end of R+ and R-, and of R! when no report remains.
Close ==
    /\ At("close")
    /\ \E ok \in Outcomes("telegram") : Show(note, {}, ok)
    /\ Done
    /\ UNCHANGED <<rows, clicks, chat, history>>

\* The buttons are restored without a look at the reports.
ReportCancel ==
    /\ Take("RX")
    /\ \E ok \in Outcomes("telegram") : Show(on, MainButtons(about), ok)
    /\ UNCHANGED <<rows, chat, handler, history>>

----------------------------------------------------------------------------
(* The environment.                                                        *)

\* The process dies, also in the middle of a handler, and is started again.
Crash ==
    /\ "crash" \in MayFail
    /\ clicks' \in {clicks, <<>>}
    /\ Done
    /\ Break(msg, At("idle"))
    /\ UNCHANGED <<rows, notifications, chat, untold, rejected, autoBanned>>

\* Time passes: rows leave the rate period (age 1), then the seven days (age 2).
TimePasses ==
    /\ At("idle")
    /\ \E m \in Msgs : \E i \in DOMAIN rows[m] : rows[m][i].age < 2
    /\ rows' = [m \in Msgs |-> [i \in DOMAIN rows[m] |->
                   [rows[m][i] EXCEPT !.age = IF @ < 2 THEN @ + 1 ELSE 2]]]
    /\ UNCHANGED <<notifications, clicks, chat, handler, history>>

Init ==
    /\ rows = [m \in Msgs |-> <<>>]
    /\ notifications = <<>>
    /\ clicks = <<>>
    /\ approved = ApprovedAtStart
    /\ banned = {} /\ deleted = {}
    /\ handler = Idle
    /\ untold = {} /\ rejected = {} /\ autoBanned = {} /\ broken = {}

Report ==
    \/ \E u \in Users, m \in Msgs : DirectUserReport(u, m)
    \/ AddReport \/ ReportFails \/ CheckThreshold
    \/ SendNotification \/ SaveAdminMsgID \/ UpdateNotification

Callback ==
    \/ CallbackFails \/ ReportBan \/ ReportReject \/ BanReporterAsk \/ BanReporterConfirm
    \/ ReportCancel \/ CountRemaining \/ Restore \/ Close

Admin == \E n \in DOMAIN notifications : \E button \in notifications[n].buttons : Click(n, button)

Next == Report \/ Punish \/ TellAutoBan \/ Clear \/ Callback \/ Admin \/ Crash \/ TimePasses

Spec == Init /\ [][Next]_vars

----------------------------------------------------------------------------
(* Properties.                                                             *)

Buttons == {"R+", "R-", "R?", "R!", "RX"} \X Users

Rows == [by : Users, admin : Nat, age : 0 .. 2]
Notifications == [msg : Msgs, buttons : SUBSET Buttons]
Clicks == [note : Nat, button : Buttons]

\* Every variable holds a value of its type.
TypeOK ==
    /\ rows \in [Msgs -> Seq(Rows)]
    /\ notifications \in Seq(Notifications)
    /\ clicks \in Seq(Clicks)
    /\ approved \in SUBSET Users /\ banned \in SUBSET Users /\ deleted \in SUBSET Msgs
    /\ handler \in [at : Places, mode : Modes, msg : Msgs, note : Nat, user : Users]
    /\ untold \in SUBSET Msgs /\ rejected \in SUBSET Msgs
    /\ autoBanned \in SUBSET Msgs /\ broken \in SUBSET Msgs

Live(m) == \E n \in DOMAIN notifications : notifications[n].msg = m /\ notifications[n].buttons # {}

\* "the bot sends a notification to the admin chat" (README): a message with enough
\* reports has a notification with buttons, whatever was rejected, banned, clicked
\* twice or cancelled before, unless a call failed since its last report.
Escalated ==
    \A m \in Msgs :
        At("idle") /\ m \notin broken /\ Len(rows[m]) >= Threshold => Live(m)

\* "only delete reports if notification succeeds" (reports.go): as long as the admins
\* were not told of an auto-ban its reports are in the table, crashes included, so
\* that a later report repeats it or an admin decides.
ReportsKept == \A m \in untold : rows[m] # <<>>

\* Once an admin has rejected the reports of a message it is not deleted, by a second
\* admin's click that was already waiting for example, until somebody reports it again.
RejectSticks == [][(deleted' \ deleted) \intersect rejected = {}]_vars

\* "this prevents leaving orphaned notifications with live buttons that would fail on
\* click" (reports.go, of the auto-ban): when an auto-ban is complete no notification
\* of the message has buttons.
AutoBanLeavesNoButtons == \A m \in autoBanned : ~Live(m)

----------------------------------------------------------------------------
(* The inductive invariant of the proofs.                                  *)

NoteOf(n, m) == n \in DOMAIN notifications /\ notifications[n].msg = m

\* Rows, clicks and handlers know notifications that exist, of the message they are about.
RowNotes ==
    \A m \in Msgs : \A i \in DOMAIN rows[m] : rows[m][i].admin > 0 => NoteOf(rows[m][i].admin, m)

ClickNotes == \A i \in DOMAIN clicks : clicks[i].note \in DOMAIN notifications

HandlerNotes ==
    /\ \/ handler.at \in {"save", "update", "remaining", "restore", "close"}
       \/ handler.at \in {"punish", "clear"} /\ handler.mode # "auto"
       => NoteOf(note, msg)
    /\ At("tell") => handler.mode = "auto"
    /\ At("save") => notifications[note].buttons # {}

\* A rejection leaves no reports.
RejectedGone == \A m \in rejected : rows[m] = <<>>

\* A message is deleted only with reports of it at hand, reports are deleted only when
\* the admins know, and a notification is closed only when they are gone.
Accountable ==
    /\ At("punish") => rows[msg] # <<>>
    /\ \/ handler.at \in {"clear", "remaining"}
       \/ At("punish") /\ handler.mode # "auto"
       => msg \notin untold
    /\ At("close") => msg \in broken \/ rows[msg] = <<>>

\* A message with enough reports and no live notification is in the hands of a handler
\* that will see to it, or one has failed.
Escalating ==
    \A m \in Msgs :
        m \notin broken /\ Len(rows[m]) >= Threshold =>
            \/ Live(m)
            \/ msg = m /\ handler.at \in {"check", "send", "update", "punish", "tell", "clear"}

ReportsInv ==
    /\ TypeOK
    /\ RowNotes /\ ClickNotes /\ HandlerNotes
    /\ ReportsKept /\ RejectedGone /\ Accountable
    /\ Escalating
=============================================================================
