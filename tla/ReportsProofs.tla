---------------------------- MODULE ReportsProofs ----------------------------
(***************************************************************************)
(* Proofs about Reports, for every set of users and messages and every     *)
(* threshold, whatever fails: the types, that enough reports have a        *)
(* notification with buttons, that an auto-ban nobody was told of keeps    *)
(* its reports, and that a rejection is not undone by a late click.        *)
(*                                                                         *)
(* ReportsInv is inductive.  It says what the handler that is under way    *)
(* owes: which notification it works on, that it deletes reports only when *)
(* the admins know, and that a message without a live notification is in   *)
(* the hands of a handler that will see to it or fail.                     *)
(***************************************************************************)
EXTENDS Reports, SubsequenceProofs

USE DEF msg, note, on, about, At, GoTo, Start, Done, chat, history

Handlers == [at : Places, mode : Modes, msg : Msgs, note : Nat, user : Users]

(* The handler that is none.                                               *)
LEMMA IdleHandler ==
    ASSUME ReportsConstants
    PROVE  /\ Idle \in Handlers
           /\ Idle.at = "idle" /\ Idle.mode = "report"
  BY DEF ReportsConstants, Idle, Handlers, Places, Modes

(* The buttons are buttons, and there are some.                            *)
LEMMA SomeButtons ==
    ASSUME ReportsConstants, TypeOK, NEW m \in Msgs
    PROVE  /\ MainButtons(m) \in SUBSET Buttons /\ MainButtons(m) # {}
           /\ DialogButtons(m) \in SUBSET Buttons /\ DialogButtons(m) # {}
  <1>1. AuthorOf[m] \in Users
    BY DEF ReportsConstants
  <1>2. Reporters(m) \subseteq Users
    <2>1. rows[m] \in Seq(Rows)
      BY DEF TypeOK
    <2>2. \A i \in DOMAIN rows[m] : rows[m][i] \in Rows
      BY <2>1
    <2> QED BY <2>2 DEF Reporters, Rows
  <1>3. MainButtons(m) \in SUBSET Buttons
    BY <1>1 DEF MainButtons, Buttons
  <1>4. <<"R+", AuthorOf[m]>> \in MainButtons(m)
    BY DEF MainButtons
  <1>5. {<<"R!", u>> : u \in Reporters(m)} \in SUBSET Buttons
    BY <1>2 DEF Buttons
  <1>6. <<"RX", AuthorOf[m]>> \in Buttons
    BY <1>1 DEF Buttons
  <1> QED
    BY <1>3, <1>4, <1>5, <1>6 DEF DialogButtons

(* Show changes the buttons of one notification, if any.                   *)
LEMMA ShowEffect ==
    ASSUME TypeOK, NEW n, NEW b \in SUBSET Buttons, NEW ok \in BOOLEAN, Show(n, b, ok)
    PROVE  /\ notifications' \in Seq(Notifications)
           /\ DOMAIN notifications' = DOMAIN notifications
           /\ \A k \in DOMAIN notifications :
                /\ notifications'[k].msg = notifications[k].msg
                /\ k # n => notifications'[k].buttons = notifications[k].buttons
                /\ k = n /\ ok => notifications'[k].buttons = b
           /\ ~ok => notifications' = notifications
  <1>1. CASE ~ok
    <2>1. notifications' = notifications
      BY <1>1 DEF Show
    <2> QED BY <1>1, <2>1 DEF TypeOK
  <1>2. CASE ok
    <2> DEFINE N == Len(notifications)
    <2>1. /\ notifications \in [1 .. N -> Notifications] /\ N \in Nat
          /\ DOMAIN notifications = 1 .. N
      BY LenProperties DEF TypeOK
    <2>2. notifications' = [notifications EXCEPT ![n].buttons = b]
      BY <1>2 DEF Show
    <2>3. \A k \in 1 .. N : notifications'[k] = IF k = n THEN [notifications[k] EXCEPT !.buttons = b]
                                               ELSE notifications[k]
      BY <2>1, <2>2
    <2>4. \A k \in 1 .. N : notifications[k] \in Notifications
      BY <2>1
    <2>5. \A k \in 1 .. N : notifications'[k] \in Notifications
      BY <2>3, <2>4 DEF Notifications
    <2>6. \A k \in 1 .. N : notifications'[k].msg = notifications[k].msg
      BY <2>3, <2>4 DEF Notifications
    <2>7. \A k \in 1 .. N : k = n => notifications'[k].buttons = b
      BY <2>3, <2>4 DEF Notifications
    <2>8. \A k \in 1 .. N : k # n => notifications'[k].buttons = notifications[k].buttons
      BY <2>3
    <2>9. notifications' = [k \in 1 .. N |-> notifications'[k]]
      BY <2>1, <2>2
    <2> HIDE DEF N
    <2>10. notifications' \in [1 .. N -> Notifications]
      BY <2>5, <2>9
    <2>11. notifications' \in Seq(Notifications) /\ DOMAIN notifications' = 1 .. N
      BY <2>1, <2>10
    <2> QED BY <1>2, <2>1, <2>6, <2>7, <2>8, <2>11
  <1> QED
    BY <1>1, <1>2

(* A new notification leaves the others alone.                             *)
LEMMA SendEffect ==
    ASSUME TypeOK, NEW m \in Msgs, NEW b \in SUBSET Buttons,
           notifications' = Append(notifications, [msg |-> m, buttons |-> b])
    PROVE  /\ notifications' \in Seq(Notifications)
           /\ Len(notifications) \in Nat
           /\ Len(notifications) + 1 \in DOMAIN notifications'
           /\ notifications'[Len(notifications) + 1] = [msg |-> m, buttons |-> b]
           /\ \A k \in DOMAIN notifications :
                k \in DOMAIN notifications' /\ notifications'[k] = notifications[k]
  <1>1. notifications \in Seq(Notifications) /\ [msg |-> m, buttons |-> b] \in Notifications
    BY DEF TypeOK, Notifications
  <1>2. Len(notifications) \in Nat /\ DOMAIN notifications = 1 .. Len(notifications)
    BY <1>1, LenProperties
  <1> QED
    BY <1>1, <1>2, AppendProperties

(* What is known of the query at the head of the queue.                    *)
LEMMA TakenClick ==
    ASSUME TypeOK, ClickNotes, NEW kind, Take(kind)
    PROVE  /\ handler.at = "idle"
           /\ Head(clicks) \in Clicks /\ on \in Nat
           /\ on \in DOMAIN notifications /\ about \in Msgs /\ NoteOf(on, about)
           /\ Head(clicks).button[1] = kind /\ Head(clicks).button[2] \in Users
           /\ clicks' \in Seq(Clicks)
           /\ \A i \in DOMAIN clicks' : clicks'[i].note \in DOMAIN notifications
  <1>1. /\ clicks \in Seq(Clicks) /\ clicks # <<>> /\ clicks' = Tail(clicks)
        /\ handler.at = "idle" /\ Head(clicks).button[1] = kind
    BY DEF Take, TypeOK
  <1>2. /\ Head(clicks) \in Clicks /\ Tail(clicks) \in Seq(Clicks)
        /\ Len(Tail(clicks)) = Len(clicks) - 1 /\ Len(clicks) \in Nat
        /\ \A i \in 1 .. Len(Tail(clicks)) : Tail(clicks)[i] = clicks[i + 1]
    BY <1>1, HeadTailProperties, LenProperties
  <1>3. 1 \in DOMAIN clicks /\ Head(clicks) = clicks[1]
    BY <1>1
  <1>4. on \in DOMAIN notifications
    BY <1>3 DEF ClickNotes
  <1>5. about \in Msgs
    <2>1. notifications[on] \in Notifications
      BY <1>4 DEF TypeOK
    <2> QED BY <2>1 DEF Notifications
  <1>6. \A i \in DOMAIN clicks' : clicks'[i].note \in DOMAIN notifications
    BY <1>1, <1>2 DEF ClickNotes
  <1>7. Head(clicks).button[2] \in Users /\ on \in Nat
    BY <1>2 DEF Clicks, Buttons
  <1> QED
    BY <1>1, <1>2, <1>4, <1>5, <1>6, <1>7 DEF NoteOf

(* A step to another place of the handler.                                 *)
LEMMA GoToEffect ==
    ASSUME TypeOK, NEW place \in Places, GoTo(place)
    PROVE  /\ handler' \in Handlers
           /\ handler'.at = place /\ handler'.mode = handler.mode /\ handler'.msg = handler.msg
           /\ handler'.note = handler.note /\ handler'.user = handler.user
  BY DEF TypeOK, Handlers

(* No notification is lost or gets another message.                        *)
Keeping ==
    \A k \in DOMAIN notifications :
        k \in DOMAIN notifications' /\ notifications'[k].msg = notifications[k].msg

LEMMA NotesStay ==
    ASSUME Keeping
    PROVE  /\ \A n, m : NoteOf(n, m) => NoteOf(n, m)'
           /\ RowNotes /\ rows' = rows => RowNotes'
           /\ ClickNotes /\ clicks' = clicks => ClickNotes'
  <1>1. \A n, m : NoteOf(n, m) => NoteOf(n, m)'
    BY DEF NoteOf, Keeping
  <1>2. RowNotes /\ rows' = rows => RowNotes'
    BY <1>1 DEF RowNotes
  <1>3. ClickNotes /\ clicks' = clicks => ClickNotes'
    BY DEF ClickNotes, Keeping
  <1> QED
    BY <1>1, <1>2, <1>3

(* A live message stays live when its notifications keep buttons.          *)
LEMMA LiveStays ==
    ASSUME Keeping, NEW m,
           \A k \in DOMAIN notifications :
                notifications[k].msg = m /\ notifications[k].buttons # {} =>
                    notifications'[k].buttons # {},
           Live(m)
    PROVE  Live(m)'
  BY DEF Live, Keeping


(* What a step without a new report, row or notification leaves as it was. *)
LEMMA QuietStep ==
    ASSUME ReportsInv, rows' = rows, notifications' = notifications,
           untold' \subseteq untold, rejected' \subseteq rejected
    PROVE  /\ RowNotes' /\ ReportsKept' /\ RejectedGone'
           /\ clicks' = clicks => ClickNotes'
           /\ \A n, m : NoteOf(n, m) => NoteOf(n, m)'
           /\ \A m \in Msgs : m \notin broken /\ Len(rows'[m]) >= Threshold =>
                Live(m)' \/ (msg = m /\ handler.at \in {"check", "send", "update", "punish", "tell", "clear"})
  <1>1. Keeping
    BY DEF Keeping
  <1>2. RowNotes' /\ (clicks' = clicks => ClickNotes') /\ \A n, m : NoteOf(n, m) => NoteOf(n, m)'
    BY <1>1, NotesStay DEF ReportsInv
  <1>3. ReportsKept' /\ RejectedGone'
    BY DEF ReportsInv, ReportsKept, RejectedGone
  <1>4. \A m : Live(m) => Live(m)'
    BY DEF Live
  <1>5. \A m \in Msgs : m \notin broken /\ Len(rows'[m]) >= Threshold =>
            Live(m)' \/ (msg = m /\ handler.at \in {"check", "send", "update", "punish", "tell", "clear"})
    BY <1>4 DEF ReportsInv, Escalating
  <1> QED
    BY <1>2, <1>3, <1>5

LEMMA DirectUserReportKeeps ==
    ASSUME ReportsConstants, ReportsInv, NEW u \in Users, NEW m \in Msgs, DirectUserReport(u, m)
    PROVE  ReportsInv'
  <1>1. /\ handler.at = "idle"
        /\ handler' = [at |-> "add", mode |-> "report", msg |-> m, note |-> 0, user |-> u]
        /\ UNCHANGED <<rows, notifications, clicks, chat, history>>
    BY DEF DirectUserReport
  <1>2. TypeOK'
    BY <1>1 DEF ReportsInv, TypeOK, Places, Modes
  <1>3. RowNotes' /\ ClickNotes' /\ ReportsKept' /\ RejectedGone'
    BY <1>1, QuietStep
  <1>4. HandlerNotes' /\ Accountable'
    BY <1>1 DEF HandlerNotes, Accountable
  <1>5. Escalating'
    BY <1>1, QuietStep DEF Escalating
  <1> QED
    BY <1>2, <1>3, <1>4, <1>5 DEF ReportsInv

LEMMA ReportFailsKeeps ==
    ASSUME ReportsConstants, ReportsInv, ReportFails
    PROVE  ReportsInv'
  <1>1. /\ handler.at \in {"add", "check"}
        /\ handler' = Idle
        /\ broken' = IF handler.at = "add" THEN broken ELSE broken \union {msg}
        /\ UNCHANGED <<rows, notifications, clicks, chat, untold, rejected, autoBanned>>
    BY DEF ReportFails, Break
  <1>2. Idle \in Handlers /\ Idle.at = "idle"
    BY IdleHandler
  <1>3. TypeOK'
    <2>1. msg \in Msgs
      BY DEF ReportsInv, TypeOK
    <2> QED BY <1>1, <1>2, <2>1 DEF ReportsInv, TypeOK, Handlers
  <1>4. RowNotes' /\ ClickNotes' /\ ReportsKept' /\ RejectedGone'
    BY <1>1, QuietStep
  <1>5. HandlerNotes' /\ Accountable'
    BY <1>1, <1>2 DEF HandlerNotes, Accountable
  <1>6. Escalating'
    BY <1>1, QuietStep DEF Escalating
  <1> QED
    BY <1>3, <1>4, <1>5, <1>6 DEF ReportsInv

(* The first of the reports of a message.                                  *)
LEMMA FirstReport ==
    ASSUME TypeOK, NEW m \in Msgs
    PROVE  /\ rows[m] \in Seq(Rows) /\ Len(rows[m]) \in Nat
           /\ rows[m] # <<>> => /\ Len(rows[m]) >= 1 /\ 1 \in DOMAIN rows[m]
                                /\ Head(rows[m]) = rows[m][1] /\ Head(rows[m]) \in Rows
           /\ Len(rows[m]) >= 1 => rows[m] # <<>>
  <1>1. rows[m] \in Seq(Rows)
    BY DEF TypeOK
  <1> QED
    BY <1>1, LenProperties

LEMMA CheckThresholdKeeps ==
    ASSUME ReportsConstants, ReportsInv, CheckThreshold
    PROVE  ReportsInv'
  <1> DEFINE auto == AutoBanThreshold > 0 /\ Len(rows[msg]) >= AutoBanThreshold
  <1>1. /\ handler.at = "check"
        /\ UNCHANGED <<rows, notifications, clicks, chat, history>>
    BY DEF CheckThreshold
  <1>2. TypeOK /\ msg \in Msgs /\ handler \in Handlers
    BY DEF ReportsInv, TypeOK, Handlers
  <1>3. RowNotes' /\ ClickNotes' /\ ReportsKept' /\ RejectedGone'
    BY <1>1, QuietStep
  <1>4. Len(rows[msg]) \in Nat
    BY <1>2, FirstReport
  <1>5. CASE auto /\ Start("punish", "auto", msg, 0, handler.user)
    <2>1. handler' \in Handlers /\ handler'.at = "punish" /\ handler'.mode = "auto" /\ handler'.msg = msg
      BY <1>2, <1>5 DEF Handlers, Places, Modes
    <2>2. rows[msg] # <<>>
      BY <1>2, <1>4, <1>5, FirstReport DEF ReportsConstants
    <2>3. TypeOK'
      BY <1>1, <1>2, <2>1 DEF TypeOK, Handlers
    <2>4. HandlerNotes' /\ Accountable'
      BY <1>1, <2>1, <2>2 DEF HandlerNotes, Accountable
    <2>5. Escalating'
      BY <1>1, <2>1, QuietStep DEF Escalating
    <2> QED BY <1>3, <2>3, <2>4, <2>5 DEF ReportsInv
  <1>6. CASE ~auto /\ Len(rows[msg]) < Threshold /\ Done
    <2>1. handler' \in Handlers /\ handler'.at = "idle"
      BY <1>6, IdleHandler
    <2>3. TypeOK'
      BY <1>1, <1>2, <2>1 DEF TypeOK, Handlers
    <2>4. HandlerNotes' /\ Accountable'
      BY <1>1, <2>1 DEF HandlerNotes, Accountable
    <2>5. Escalating'
      <3>1. ~(Len(rows'[msg]) >= Threshold)
        BY <1>1, <1>4, <1>6 DEF ReportsConstants
      <3> QED BY <1>1, <3>1, QuietStep DEF Escalating
    <2> QED BY <1>3, <2>3, <2>4, <2>5 DEF ReportsInv
  <1>7. CASE /\ ~auto /\ Len(rows[msg]) >= Threshold /\ Notified(msg)
             /\ Start("update", "report", msg, Head(rows[msg]).admin, handler.user)
    <2>1. Head(rows[msg]) \in Rows /\ NoteOf(Head(rows[msg]).admin, msg)
      BY <1>2, <1>7, FirstReport DEF Notified, ReportsInv, RowNotes
    <2>2. Head(rows[msg]).admin \in Nat
      BY <2>1 DEF Rows
    <2>3. /\ handler' \in Handlers /\ handler'.at = "update" /\ handler'.msg = msg
          /\ handler'.note = Head(rows[msg]).admin
      BY <1>2, <1>7, <2>2 DEF Handlers, Places, Modes
    <2>4. TypeOK'
      BY <1>1, <1>2, <2>3 DEF TypeOK, Handlers
    <2>5. HandlerNotes'
      BY <1>1, <2>3, <2>1 DEF HandlerNotes, NoteOf
    <2>6. Accountable'
      BY <2>3 DEF Accountable
    <2>7. Escalating'
      BY <1>1, <2>3, QuietStep DEF Escalating
    <2> QED BY <1>3, <2>4, <2>5, <2>6, <2>7 DEF ReportsInv
  <1>8. CASE ~auto /\ Len(rows[msg]) >= Threshold /\ ~Notified(msg) /\ GoTo("send")
    <2>1. handler' \in Handlers /\ handler'.at = "send" /\ handler'.msg = msg
      <3>1. "send" \in Places
        BY DEF Places
      <3> QED BY <1>2, <1>8, <3>1, GoToEffect
    <2>3. TypeOK'
      BY <1>1, <1>2, <2>1 DEF TypeOK, Handlers
    <2>4. HandlerNotes' /\ Accountable'
      BY <1>1, <2>1 DEF HandlerNotes, Accountable
    <2>5. Escalating'
      BY <1>1, <2>1, QuietStep DEF Escalating
    <2> QED BY <1>3, <2>3, <2>4, <2>5 DEF ReportsInv
  <1> QED
    BY <1>5, <1>6, <1>7, <1>8 DEF CheckThreshold

LEMMA CallbackFailsKeeps ==
    ASSUME ReportsConstants, ReportsInv, CallbackFails
    PROVE  ReportsInv'
  <1>1. PICK kind \in {"R+", "R-", "R?", "R!"} : Take(kind)
    BY DEF CallbackFails
  <1>2. UNCHANGED <<rows, notifications, chat, handler, history>>
    BY DEF CallbackFails
  <1>3. clicks' \in Seq(Clicks) /\ \A i \in DOMAIN clicks' : clicks'[i].note \in DOMAIN notifications
    BY <1>1, TakenClick DEF ReportsInv
  <1>4. TypeOK' /\ ClickNotes'
    BY <1>2, <1>3 DEF ReportsInv, TypeOK, ClickNotes
  <1>5. RowNotes' /\ ReportsKept' /\ RejectedGone'
    BY <1>2, QuietStep
  <1>6. HandlerNotes' /\ Accountable'
    BY <1>2 DEF ReportsInv, HandlerNotes, Accountable, NoteOf
  <1>7. Escalating'
    BY <1>2, QuietStep DEF Escalating
  <1> QED
    BY <1>4, <1>5, <1>6, <1>7 DEF ReportsInv

LEMMA ReportBanKeeps ==
    ASSUME ReportsConstants, ReportsInv, ReportBan
    PROVE  ReportsInv'
  <1>1. /\ Take("R+") /\ rows[about] # <<>>
        /\ handler' = [at |-> "punish", mode |-> "ban", msg |-> about, note |-> on, user |-> AuthorOf[about]]
        /\ untold' = untold \ {about}
        /\ UNCHANGED <<rows, notifications, chat, rejected, autoBanned, broken>>
    BY DEF ReportBan
  <1>2. /\ handler.at = "idle" /\ on \in Nat /\ about \in Msgs /\ NoteOf(on, about)
        /\ clicks' \in Seq(Clicks) /\ \A i \in DOMAIN clicks' : clicks'[i].note \in DOMAIN notifications
    BY <1>1, TakenClick DEF ReportsInv
  <1> HIDE DEF on, about
  <1>3. /\ handler' \in Handlers /\ handler'.at = "punish" /\ handler'.mode = "ban"
        /\ handler'.msg = about /\ handler'.note = on
    BY <1>1, <1>2 DEF Handlers, Places, Modes, ReportsConstants
  <1>4. TypeOK' /\ ClickNotes'
    BY <1>1, <1>2, <1>3 DEF ReportsInv, TypeOK, ClickNotes, Handlers
  <1>5. RowNotes' /\ ReportsKept' /\ RejectedGone'
    BY <1>1, QuietStep
  <1>6. HandlerNotes' /\ Accountable'
    BY <1>1, <1>2, <1>3 DEF HandlerNotes, Accountable, NoteOf
  <1>7. Escalating'
    BY <1>1, <1>2, QuietStep DEF Escalating
  <1> QED
    BY <1>4, <1>5, <1>6, <1>7 DEF ReportsInv

LEMMA ReportRejectKeeps ==
    ASSUME ReportsConstants, ReportsInv, ReportReject
    PROVE  ReportsInv'
  <1>1. /\ Take("R-") /\ rows[about] # <<>>
        /\ handler' = [at |-> "clear", mode |-> "reject", msg |-> about, note |-> on, user |-> AuthorOf[about]]
        /\ untold' = untold \ {about}
        /\ UNCHANGED <<rows, notifications, chat, rejected, autoBanned, broken>>
    BY DEF ReportReject
  <1>2. /\ handler.at = "idle" /\ on \in Nat /\ about \in Msgs /\ NoteOf(on, about)
        /\ clicks' \in Seq(Clicks) /\ \A i \in DOMAIN clicks' : clicks'[i].note \in DOMAIN notifications
    BY <1>1, TakenClick DEF ReportsInv
  <1> HIDE DEF on, about
  <1>3. /\ handler' \in Handlers /\ handler'.at = "clear" /\ handler'.mode = "reject"
        /\ handler'.msg = about /\ handler'.note = on
    BY <1>1, <1>2 DEF Handlers, Places, Modes, ReportsConstants
  <1>4. TypeOK' /\ ClickNotes'
    BY <1>1, <1>2, <1>3 DEF ReportsInv, TypeOK, ClickNotes, Handlers
  <1>5. RowNotes' /\ ReportsKept' /\ RejectedGone'
    BY <1>1, QuietStep
  <1>6. HandlerNotes' /\ Accountable'
    BY <1>1, <1>2, <1>3 DEF HandlerNotes, Accountable, NoteOf
  <1>7. Escalating'
    BY <1>1, <1>2, QuietStep DEF Escalating
  <1> QED
    BY <1>4, <1>5, <1>6, <1>7 DEF ReportsInv

LEMMA CountRemainingKeeps ==
    ASSUME ReportsConstants, ReportsInv, CountRemaining
    PROVE  ReportsInv'
  <1>1. /\ handler.at = "remaining"
        /\ UNCHANGED <<rows, notifications, clicks, chat, history>>
    BY DEF CountRemaining
  <1>2. PICK place \in {"restore", "clear"} : GoTo(place)
    BY DEF CountRemaining
  <1>3. /\ handler' \in Handlers /\ handler'.at \in {"restore", "clear"}
        /\ handler'.msg = handler.msg /\ handler'.note = handler.note
    BY <1>2, GoToEffect DEF ReportsInv, Places
  <1>4. TypeOK'
    BY <1>1, <1>3 DEF ReportsInv, TypeOK, Handlers
  <1>5. RowNotes' /\ ClickNotes' /\ ReportsKept' /\ RejectedGone'
    BY <1>1, QuietStep
  <1>6. NoteOf(note, msg) /\ msg \notin untold
    BY <1>1 DEF ReportsInv, HandlerNotes, Accountable
  <1>7. NoteOf(note, msg)'
    BY <1>1, <1>3, <1>6 DEF NoteOf
  <1>8. HandlerNotes'
    BY <1>3, <1>7 DEF HandlerNotes
  <1>9. Accountable'
    BY <1>1, <1>3, <1>6 DEF Accountable
  <1>10. Escalating'
    BY <1>1, QuietStep DEF Escalating
  <1> QED
    BY <1>4, <1>5, <1>8, <1>9, <1>10 DEF ReportsInv

LEMMA ClickKeeps ==
    ASSUME ReportsConstants, ReportsInv, Admin
    PROVE  ReportsInv'
  <1>1. PICK n \in DOMAIN notifications : \E button \in notifications[n].buttons : Click(n, button)
    BY DEF Admin
  <1>2. PICK button \in notifications[n].buttons : Click(n, button)
    BY <1>1
  <1>3. /\ clicks' = Append(clicks, [note |-> n, button |-> button])
        /\ UNCHANGED <<rows, notifications, chat, handler, history>>
    BY <1>2 DEF Click
  <1>4. notifications \in Seq(Notifications) /\ clicks \in Seq(Clicks)
    BY DEF ReportsInv, TypeOK
  <1>5. notifications[n] \in Notifications /\ n \in Nat
    BY <1>4
  <1>6. [note |-> n, button |-> button] \in Clicks
    BY <1>2, <1>5 DEF Clicks, Notifications
  <1>7. /\ clicks' \in Seq(Clicks) /\ DOMAIN clicks' = 1 .. Len(clicks) + 1 /\ Len(clicks) \in Nat
        /\ \A i \in 1 .. Len(clicks) : clicks'[i] = clicks[i]
        /\ clicks'[Len(clicks) + 1] = [note |-> n, button |-> button]
    BY <1>3, <1>4, <1>6, AppendProperties, LenProperties
  <1>8. TypeOK'
    BY <1>3, <1>7 DEF ReportsInv, TypeOK
  <1>9. ClickNotes'
    <2>1. \A i \in DOMAIN clicks' : i \in 1 .. Len(clicks) \/ i = Len(clicks) + 1
      BY <1>7
    <2>2. DOMAIN clicks = 1 .. Len(clicks)
      BY <1>4, LenProperties
    <2>3. \A i \in 1 .. Len(clicks) : clicks'[i].note \in DOMAIN notifications
      BY <1>7, <2>2 DEF ReportsInv, ClickNotes
    <2>4. clicks'[Len(clicks) + 1].note \in DOMAIN notifications
      BY <1>7
    <2>5. \A i \in DOMAIN clicks' : clicks'[i].note \in DOMAIN notifications
      BY <2>1, <2>3, <2>4
    <2> QED BY <1>3, <2>5 DEF ClickNotes
  <1>10. RowNotes' /\ ReportsKept' /\ RejectedGone'
    BY <1>3, QuietStep
  <1>11. HandlerNotes' /\ Accountable'
    BY <1>3 DEF ReportsInv, HandlerNotes, Accountable, NoteOf
  <1>12. Escalating'
    BY <1>3, QuietStep DEF Escalating
  <1> QED
    BY <1>8, <1>9, <1>10, <1>11, <1>12 DEF ReportsInv

LEMMA CrashKeeps ==
    ASSUME ReportsConstants, ReportsInv, Crash
    PROVE  ReportsInv'
  <1>1. /\ clicks' \in {clicks, <<>>}
        /\ handler' = Idle
        /\ broken' = IF handler.at = "idle" THEN broken ELSE broken \union {msg}
        /\ UNCHANGED <<rows, notifications, chat, untold, rejected, autoBanned>>
    BY DEF Crash, Break
  <1>2. Idle \in Handlers /\ Idle.at = "idle"
    BY IdleHandler
  <1>3. clicks' \in Seq(Clicks) /\ broken' \in SUBSET Msgs
    <2>1. msg \in Msgs /\ broken \in SUBSET Msgs
      BY DEF ReportsInv, TypeOK
    <2>2. clicks' \in Seq(Clicks)
      <3>1. clicks \in Seq(Clicks)
        BY DEF ReportsInv, TypeOK
      <3>2. <<>> \in Seq(Clicks)
        OBVIOUS
      <3> QED BY <1>1, <3>1, <3>2
    <2> QED BY <1>1, <2>1, <2>2
  <1>4. TypeOK'
    BY <1>1, <1>2, <1>3 DEF ReportsInv, TypeOK, Handlers
  <1>5. ClickNotes'
    BY <1>1 DEF ReportsInv, ClickNotes
  <1>6. RowNotes' /\ ReportsKept' /\ RejectedGone'
    BY <1>1, QuietStep
  <1>7. HandlerNotes' /\ Accountable'
    BY <1>1, <1>2 DEF HandlerNotes, Accountable
  <1>8. Escalating'
    BY <1>1, QuietStep DEF Escalating
  <1> QED
    BY <1>4, <1>5, <1>6, <1>7, <1>8 DEF ReportsInv

LEMMA StutterKeeps ==
    ASSUME ReportsInv, UNCHANGED vars
    PROVE  ReportsInv'
  <1>1. UNCHANGED <<rows, notifications, clicks, handler, chat, history>>
    BY DEF vars
  <1>2. TypeOK' /\ HandlerNotes' /\ Accountable'
    BY <1>1 DEF ReportsInv, TypeOK, HandlerNotes, Accountable, NoteOf
  <1>3. RowNotes' /\ ClickNotes' /\ ReportsKept' /\ RejectedGone'
    BY <1>1, QuietStep
  <1>4. Escalating'
    BY <1>1, QuietStep DEF Escalating
  <1> QED
    BY <1>2, <1>3, <1>4 DEF ReportsInv

(***************************************************************************)
(* The steps that change the table or the notifications.                   *)
(***************************************************************************)

(* What goes with fewer reports: no row is new, none changes its id, and   *)
(* nobody gets buttons or loses them.                                      *)
LEMMA FewerReports ==
    ASSUME ReportsInv, notifications' = notifications,
           \A m \in Msgs : /\ Len(rows'[m]) <= Len(rows[m]) /\ Len(rows'[m]) \in Nat
                           /\ \A i \in DOMAIN rows'[m] : \E j \in DOMAIN rows[m] :
                                rows'[m][i].admin = rows[m][j].admin
    PROVE  /\ RowNotes'
           /\ \A n, m : NoteOf(n, m) => NoteOf(n, m)'
           /\ clicks' = clicks => ClickNotes'
           /\ ReportsConstants => \A m \in Msgs : m \notin broken /\ Len(rows'[m]) >= Threshold =>
                Live(m)' \/ (msg = m /\ handler.at \in {"check", "send", "update", "punish", "tell", "clear"})
  <1>1. \A n, m : NoteOf(n, m) => NoteOf(n, m)'
    BY DEF NoteOf
  <1>2. \A m : Live(m) => Live(m)'
    BY DEF Live
  <1>3. RowNotes'
    BY <1>1 DEF ReportsInv, RowNotes
  <1>4. clicks' = clicks => ClickNotes'
    BY DEF ReportsInv, ClickNotes
  <1>5. ASSUME ReportsConstants, NEW m \in Msgs, m \notin broken, Len(rows'[m]) >= Threshold
        PROVE  Live(m)' \/ (msg = m /\ handler.at \in {"check", "send", "update", "punish", "tell", "clear"})
    <2>1. Len(rows[m]) \in Nat
      BY FirstReport DEF ReportsInv
    <2>2. Len(rows[m]) >= Threshold
      BY <1>5, <2>1 DEF ReportsConstants
    <2> QED BY <1>2, <1>5, <2>2 DEF ReportsInv, Escalating
  <1> QED
    BY <1>1, <1>3, <1>4, <1>5

(* Some of the reports of a message are kept.                              *)
LEMMA KeptReports ==
    ASSUME NEW s \in Seq(Rows), NEW I \in SUBSET (1 .. Len(s))
    PROVE  /\ Keep(s, I) \in Seq(Rows) /\ Len(Keep(s, I)) \in Nat /\ Len(Keep(s, I)) <= Len(s)
           /\ \A i \in DOMAIN Keep(s, I) : \E j \in DOMAIN s : Keep(s, I)[i] = s[j]
           /\ s = <<>> => Keep(s, I) = <<>>
  <1>1. DOMAIN s = 1 .. Len(s)
    BY LenProperties
  <1>2. s = <<>> => I = {}
    BY <1>1
  <1> QED
    BY SMTT(30), <1>1, <1>2, KeepElements, KeepEmpty

LEMMA ClearKeeps ==
    ASSUME ReportsConstants, ReportsInv, Clear
    PROVE  ReportsInv'
  <1>1. PICK ok \in BOOLEAN :
            /\ rows' = IF ok THEN [rows EXCEPT ![msg] = <<>>] ELSE rows
            /\ rejected' = IF ok /\ handler.mode = "reject" THEN rejected \union {msg} ELSE rejected
            /\ autoBanned' = IF ok /\ handler.mode = "auto" THEN autoBanned \union {msg} ELSE autoBanned
            /\ broken' = IF ok THEN broken ELSE broken \union {msg}
    BY DEF Clear, Break, Outcomes
  <1>2. /\ handler.at = "clear"
        /\ UNCHANGED <<notifications, clicks, chat, untold>>
        /\ IF handler.mode = "auto" THEN Done ELSE GoTo("close")
    BY DEF Clear
  <1>3. /\ TypeOK /\ msg \in Msgs /\ handler \in Handlers
        /\ msg \notin untold /\ rows \in [Msgs -> Seq(Rows)]
    BY <1>2 DEF ReportsInv, TypeOK, Accountable, Handlers
  <1>4. /\ handler' \in Handlers
        /\ \/ handler'.at = "idle"
           \/ handler.mode # "auto" /\ handler'.at = "close" /\ handler'.msg = handler.msg /\ handler'.note = handler.note
    <2>1. "close" \in Places
      BY DEF Places
    <2>2. CASE handler.mode = "auto"
      BY <1>2, <2>2, IdleHandler
    <2>3. CASE handler.mode # "auto"
      BY <1>2, <1>3, <2>1, <2>3, GoToEffect
    <2> QED BY <2>2, <2>3
  <1>5. /\ rows' \in [Msgs -> Seq(Rows)]
        /\ \A m \in Msgs : rows'[m] = rows[m] \/ (m = msg /\ rows'[m] = <<>>)
        /\ ok => rows'[msg] = <<>>
    <2>1. CASE ok
      <3>1. rows' = [rows EXCEPT ![msg] = <<>>]
        BY <1>1, <2>1
      <3>2. <<>> \in Seq(Rows)
        OBVIOUS
      <3> QED BY <1>3, <3>1, <3>2
    <2>2. CASE ~ok
      BY <1>1, <1>3, <2>2
    <2> QED BY <2>1, <2>2
  <1>6. \A m \in Msgs : /\ Len(rows'[m]) <= Len(rows[m]) /\ Len(rows'[m]) \in Nat
                        /\ \A i \in DOMAIN rows'[m] : \E j \in DOMAIN rows[m] :
                                rows'[m][i].admin = rows[m][j].admin
    <2> SUFFICES ASSUME NEW m \in Msgs
                 PROVE  /\ Len(rows'[m]) <= Len(rows[m]) /\ Len(rows'[m]) \in Nat
                        /\ \A i \in DOMAIN rows'[m] : \E j \in DOMAIN rows[m] :
                                rows'[m][i].admin = rows[m][j].admin
      OBVIOUS
    <2>1. Len(rows[m]) \in Nat
      BY <1>3, FirstReport
    <2>2. CASE rows'[m] = rows[m]
      BY <2>1, <2>2
    <2>3. CASE rows'[m] = <<>>
      <3>1. Len(rows'[m]) = 0 /\ DOMAIN rows'[m] = {}
        BY <2>3
      <3> QED BY <2>1, <3>1
    <2> QED BY <1>5, <2>2, <2>3
  <1>7. TypeOK'
    BY <1>1, <1>2, <1>3, <1>4, <1>5 DEF TypeOK, Handlers
  <1>8. RowNotes' /\ ClickNotes' /\ \A n, m : NoteOf(n, m) => NoteOf(n, m)'
    BY <1>2, <1>6, FewerReports
  <1>9. HandlerNotes'
    BY <1>2, <1>4, <1>8 DEF ReportsInv, HandlerNotes
  <1>10. ReportsKept'
    BY <1>2, <1>3, <1>5 DEF ReportsInv, ReportsKept, TypeOK
  <1>11. RejectedGone'
    <2>1. \A m \in rejected : m \in Msgs /\ rows[m] = <<>>
      BY <1>3 DEF ReportsInv, RejectedGone, TypeOK
    <2>2. \A m \in rejected : rows'[m] = <<>>
      BY <1>5, <2>1
    <2> QED BY <1>1, <1>5, <2>2 DEF RejectedGone
  <1>12. Accountable'
    BY <1>1, <1>4, <1>5 DEF Accountable
  <1>13. Escalating'
    <2> SUFFICES ASSUME NEW m \in Msgs, m \notin broken', Len(rows'[m]) >= Threshold
                 PROVE  Live(m)'
      BY DEF Escalating
    <2>1. ok => Len(rows'[msg]) = 0
      BY <1>5
    <2>2. m # msg
      BY <1>1, <2>1 DEF ReportsConstants
    <2> QED BY <1>1, <1>2, <1>6, <2>2, FewerReports
  <1> QED
    BY <1>7, <1>8, <1>9, <1>10, <1>11, <1>12, <1>13 DEF ReportsInv

LEMMA BanReporterConfirmKeeps ==
    ASSUME ReportsConstants, ReportsInv, BanReporterConfirm
    PROVE  ReportsInv'
  <1> DEFINE reporter == Head(clicks).button[2]
             others == {i \in DOMAIN rows[about] : rows[about][i].by # reporter}
  <1>1. /\ Take("R!") /\ rows[about] # <<>>
        /\ handler' = [at |-> "remaining", mode |-> "reporter", msg |-> about, note |-> on, user |-> reporter]
        /\ untold' = untold \ {about}
        /\ UNCHANGED <<notifications, approved, deleted, rejected, autoBanned, broken>>
    BY DEF BanReporterConfirm
  <1>2. banned' = banned \/ banned' = banned \union {reporter}
    BY DEF BanReporterConfirm
  <1>3. rows' = rows \/ rows' = [rows EXCEPT ![about] = Keep(@, others)]
    BY DEF BanReporterConfirm
  <1>4. /\ handler.at = "idle" /\ on \in Nat /\ about \in Msgs /\ NoteOf(on, about) /\ reporter \in Users
        /\ clicks' \in Seq(Clicks) /\ \A i \in DOMAIN clicks' : clicks'[i].note \in DOMAIN notifications
    BY <1>1, TakenClick DEF ReportsInv
  <1>5. rows \in [Msgs -> Seq(Rows)]
    BY DEF ReportsInv, TypeOK
  <1>6. others \in SUBSET (1 .. Len(rows[about]))
    BY <1>4, <1>5, LenProperties
  <1> HIDE DEF on, about, reporter, others
  <1>7. \A m \in Msgs : rows'[m] = rows[m] \/ (m = about /\ rows'[m] = Keep(rows[m], others))
    BY <1>3, <1>5
  <1>8. \A m \in Msgs : /\ Len(rows'[m]) <= Len(rows[m]) /\ Len(rows'[m]) \in Nat
                        /\ rows'[m] \in Seq(Rows)
                        /\ \A i \in DOMAIN rows'[m] : \E j \in DOMAIN rows[m] : rows'[m][i] = rows[m][j]
                        /\ rows[m] = <<>> => rows'[m] = <<>>
    <2> SUFFICES ASSUME NEW m \in Msgs
                 PROVE  /\ Len(rows'[m]) <= Len(rows[m]) /\ Len(rows'[m]) \in Nat
                        /\ rows'[m] \in Seq(Rows)
                        /\ \A i \in DOMAIN rows'[m] : \E j \in DOMAIN rows[m] : rows'[m][i] = rows[m][j]
                        /\ rows[m] = <<>> => rows'[m] = <<>>
      OBVIOUS
    <2>1. Len(rows[m]) \in Nat /\ rows[m] \in Seq(Rows)
      BY FirstReport DEF ReportsInv
    <2>2. CASE rows'[m] = rows[m]
      BY <2>1, <2>2
    <2>3. CASE m = about /\ rows'[m] = Keep(rows[m], others)
      BY <1>6, <2>1, <2>3, KeptReports
    <2> QED BY <1>7, <2>2, <2>3
  <1>9. \A m \in Msgs : /\ Len(rows'[m]) <= Len(rows[m]) /\ Len(rows'[m]) \in Nat
                        /\ \A i \in DOMAIN rows'[m] : \E j \in DOMAIN rows[m] :
                                rows'[m][i].admin = rows[m][j].admin
    BY <1>8
  <1>10. rows' \in [Msgs -> Seq(Rows)]
    <2>1. DOMAIN rows' = Msgs /\ rows' = [m \in Msgs |-> rows'[m]]
      BY <1>3, <1>5
    <2> QED BY <1>8, <2>1
  <1>11. /\ handler' \in Handlers /\ handler'.at = "remaining" /\ handler'.mode = "reporter"
         /\ handler'.msg = about /\ handler'.note = on
    BY <1>1, <1>4 DEF Handlers, Places, Modes
  <1>12. TypeOK'
    BY <1>1, <1>2, <1>4, <1>10, <1>11 DEF ReportsInv, TypeOK, Handlers
  <1>13. RowNotes' /\ \A n, m : NoteOf(n, m) => NoteOf(n, m)'
    BY <1>1, <1>9, FewerReports
  <1>14. ClickNotes'
    BY <1>1, <1>4 DEF ClickNotes
  <1>15. HandlerNotes' /\ Accountable'
    BY <1>1, <1>4, <1>11, <1>13 DEF HandlerNotes, Accountable
  <1>16. ReportsKept'
    <2>1. \A m \in untold' : m \in untold /\ m # about /\ m \in Msgs /\ rows[m] # <<>>
      BY <1>1 DEF ReportsInv, ReportsKept, TypeOK
    <2> QED BY <1>7, <2>1 DEF ReportsKept
  <1>17. RejectedGone'
    <2>1. \A m \in rejected : m \in Msgs /\ rows[m] = <<>>
      BY DEF ReportsInv, RejectedGone, TypeOK
    <2> QED BY <1>1, <1>8, <2>1 DEF RejectedGone
  <1>18. Escalating'
    BY <1>1, <1>4, <1>9, FewerReports DEF Escalating
  <1> QED
    BY <1>12, <1>13, <1>14, <1>15, <1>16, <1>17, <1>18 DEF ReportsInv

LEMMA TimePassesKeeps ==
    ASSUME ReportsConstants, ReportsInv, TimePasses
    PROVE  ReportsInv'
  <1> DEFINE older(r) == [r EXCEPT !.age = IF @ < 2 THEN @ + 1 ELSE 2]
             aged(m) == [i \in DOMAIN rows[m] |-> older(rows[m][i])]
  <1>1. /\ handler.at = "idle"
        /\ rows' = [m \in Msgs |-> aged(m)]
        /\ UNCHANGED <<notifications, clicks, chat, handler, history>>
    BY DEF TimePasses
  <1>2. \A r \in Rows : older(r) \in Rows /\ older(r).admin = r.admin
    BY DEF Rows
  <1> HIDE DEF older
  <1>3. \A m \in Msgs : /\ rows'[m] \in Seq(Rows)
                        /\ Len(rows'[m]) = Len(rows[m])
                        /\ DOMAIN rows'[m] = DOMAIN rows[m]
                        /\ \A i \in DOMAIN rows[m] : rows'[m][i].admin = rows[m][i].admin
    <2> SUFFICES ASSUME NEW m \in Msgs
                 PROVE  /\ rows'[m] \in Seq(Rows)
                        /\ Len(rows'[m]) = Len(rows[m])
                        /\ DOMAIN rows'[m] = DOMAIN rows[m]
                        /\ \A i \in DOMAIN rows[m] : rows'[m][i].admin = rows[m][i].admin
      OBVIOUS
    <2>1. rows[m] \in Seq(Rows) /\ Len(rows[m]) \in Nat /\ DOMAIN rows[m] = 1 .. Len(rows[m])
      BY FirstReport, LenProperties DEF ReportsInv
    <2>2. \A i \in DOMAIN rows[m] : rows[m][i] \in Rows
      BY <2>1
    <2>3. rows'[m] = aged(m)
      BY <1>1
    <2>4. \A i \in DOMAIN rows[m] : rows'[m][i] \in Rows /\ rows'[m][i].admin = rows[m][i].admin
      BY <1>2, <2>2, <2>3
    <2>5. DOMAIN rows'[m] = 1 .. Len(rows[m]) /\ rows'[m] = [i \in 1 .. Len(rows[m]) |-> rows'[m][i]]
      BY <2>1, <2>3
    <2>6. rows'[m] \in [1 .. Len(rows[m]) -> Rows]
      BY <2>1, <2>4, <2>5
    <2> QED BY <2>1, <2>4, <2>6
  <1>4. rows' \in [Msgs -> Seq(Rows)]
    BY <1>1, <1>3
  <1>5. \A m \in Msgs : /\ Len(rows'[m]) <= Len(rows[m]) /\ Len(rows'[m]) \in Nat
                        /\ \A i \in DOMAIN rows'[m] : \E j \in DOMAIN rows[m] :
                                rows'[m][i].admin = rows[m][j].admin
    <2>1. \A m \in Msgs : Len(rows[m]) \in Nat
      BY FirstReport DEF ReportsInv
    <2> QED BY <1>3, <2>1
  <1>6. \A m \in Msgs : rows[m] = <<>> <=> rows'[m] = <<>>
    BY <1>3, FirstReport DEF ReportsInv
  <1>7. TypeOK'
    BY <1>1, <1>4 DEF ReportsInv, TypeOK
  <1>8. RowNotes' /\ ClickNotes'
    BY <1>1, <1>5, FewerReports
  <1>9. HandlerNotes' /\ Accountable'
    BY <1>1 DEF HandlerNotes, Accountable
  <1>10. ReportsKept' /\ RejectedGone'
    BY <1>1, <1>6 DEF ReportsInv, ReportsKept, RejectedGone, TypeOK
  <1>11. Escalating'
    BY <1>1, <1>5, FewerReports DEF Escalating
  <1> QED
    BY <1>7, <1>8, <1>9, <1>10, <1>11 DEF ReportsInv

(* What the buttons of one notification change.                            *)
LEMMA ButtonStep ==
    ASSUME ReportsInv, rows' = rows, untold' \subseteq untold, rejected' \subseteq rejected,
           NEW n, NEW b \in SUBSET Buttons, NEW ok \in BOOLEAN, Show(n, b, ok)
    PROVE  /\ notifications' \in Seq(Notifications)
           /\ RowNotes' /\ ReportsKept' /\ RejectedGone'
           /\ clicks' = clicks => ClickNotes'
           /\ DOMAIN notifications' = DOMAIN notifications
           /\ \A k, m : NoteOf(k, m) => NoteOf(k, m)'
           /\ \A m : b # {} /\ Live(m) => Live(m)'
           /\ \A m : ~NoteOf(n, m) /\ Live(m) => Live(m)'
           /\ \A m : b # {} /\ ok /\ NoteOf(n, m) => Live(m)'
  <1>1. /\ notifications' \in Seq(Notifications)
        /\ DOMAIN notifications' = DOMAIN notifications
        /\ \A k \in DOMAIN notifications :
                /\ notifications'[k].msg = notifications[k].msg
                /\ k # n => notifications'[k].buttons = notifications[k].buttons
                /\ k = n /\ ok => notifications'[k].buttons = b
        /\ ~ok => notifications' = notifications
    BY ShowEffect DEF ReportsInv
  <1>2. Keeping
    BY <1>1 DEF Keeping
  <1>3. RowNotes' /\ (clicks' = clicks => ClickNotes') /\ \A k, m : NoteOf(k, m) => NoteOf(k, m)'
    BY <1>2, NotesStay DEF ReportsInv
  <1>4. ReportsKept' /\ RejectedGone'
    BY DEF ReportsInv, ReportsKept, RejectedGone
  <1>5. \A k \in DOMAIN notifications :
            \/ notifications'[k].buttons = notifications[k].buttons
            \/ k = n /\ notifications'[k].buttons = b
    BY <1>1
  <1>6. \A m : b # {} /\ Live(m) => Live(m)'
    BY <1>1, <1>5 DEF Live
  <1>7. \A m : ~NoteOf(n, m) /\ Live(m) => Live(m)'
    BY <1>1, <1>5 DEF Live, NoteOf
  <1>8. \A m : b # {} /\ ok /\ NoteOf(n, m) => Live(m)'
    BY <1>1 DEF Live, NoteOf
  <1> QED
    BY <1>1, <1>3, <1>4, <1>6, <1>7, <1>8

LEMMA UpdateNotificationKeeps ==
    ASSUME ReportsConstants, ReportsInv, UpdateNotification
    PROVE  ReportsInv'
  <1>1. PICK ok \in BOOLEAN : Show(note, MainButtons(msg), ok) /\ broken' = IF ok THEN broken ELSE broken \union {msg}
    BY DEF UpdateNotification, Break, Outcomes
  <1>2. /\ handler.at = "update" /\ handler' = Idle
        /\ UNCHANGED <<rows, clicks, chat, untold, rejected, autoBanned>>
    BY DEF UpdateNotification
  <1>3. TypeOK /\ msg \in Msgs /\ NoteOf(note, msg)
    BY <1>2 DEF ReportsInv, TypeOK, HandlerNotes
  <1>4. MainButtons(msg) \in SUBSET Buttons /\ MainButtons(msg) # {}
    BY <1>3, SomeButtons
  <1> DEFINE b == MainButtons(msg)
  <1> HIDE DEF b
  <1>0. PICK h \in Msgs : h = msg
    BY <1>3
  <1>5. /\ notifications' \in Seq(Notifications)
        /\ RowNotes' /\ ReportsKept' /\ RejectedGone' /\ ClickNotes'
        /\ \A m : Live(m) => Live(m)'
        /\ ok => Live(h)'
    <2>1. Show(note, b, ok) /\ b \in SUBSET Buttons /\ b # {}
      BY <1>1, <1>4 DEF b
    <2> QED BY <1>2, <1>3, <1>0, <2>1, ButtonStep
  <1>6. handler' \in Handlers /\ handler'.at = "idle"
    BY <1>2, IdleHandler
  <1>7. TypeOK'
    <2>1. broken' \in SUBSET Msgs
      BY <1>1, <1>3 DEF TypeOK
    <2> QED BY <1>2, <1>3, <1>5, <1>6, <2>1 DEF TypeOK, Handlers
  <1>8. HandlerNotes' /\ Accountable'
    BY <1>6 DEF HandlerNotes, Accountable
  <1>9. Escalating'
    <2> SUFFICES ASSUME NEW m \in Msgs, m \notin broken', Len(rows'[m]) >= Threshold
                 PROVE  Live(m)'
      BY DEF Escalating
    <2>1. CASE m = h
      BY <1>1, <1>5, <1>0, <2>1
    <2>2. CASE m # h
      BY <1>1, <1>2, <1>5, <1>0, <2>2 DEF ReportsInv, Escalating
    <2> QED BY <2>1, <2>2
  <1> QED
    BY <1>5, <1>7, <1>8, <1>9 DEF ReportsInv

LEMMA RestoreKeeps ==
    ASSUME ReportsConstants, ReportsInv, Restore
    PROVE  ReportsInv'
  <1>1. PICK ok \in BOOLEAN : Show(note, MainButtons(msg), ok)
    BY DEF Restore, Outcomes
  <1>2. /\ handler.at = "restore" /\ handler' = Idle
        /\ UNCHANGED <<rows, clicks, chat, history>>
    BY DEF Restore
  <1>3. TypeOK /\ msg \in Msgs
    BY DEF ReportsInv, TypeOK
  <1>4. MainButtons(msg) \in SUBSET Buttons /\ MainButtons(msg) # {}
    BY <1>3, SomeButtons
  <1> DEFINE b == MainButtons(msg)
  <1> HIDE DEF b
  <1>5. /\ notifications' \in Seq(Notifications)
        /\ RowNotes' /\ ReportsKept' /\ RejectedGone' /\ ClickNotes'
        /\ \A m : Live(m) => Live(m)'
    <2>1. Show(note, b, ok) /\ b \in SUBSET Buttons /\ b # {}
      BY <1>1, <1>4 DEF b
    <2> QED BY <1>2, <2>1, ButtonStep
  <1>6. handler' \in Handlers /\ handler'.at = "idle"
    BY <1>2, IdleHandler
  <1>7. TypeOK'
    BY <1>2, <1>3, <1>5, <1>6 DEF TypeOK, Handlers
  <1>8. HandlerNotes' /\ Accountable'
    BY <1>6 DEF HandlerNotes, Accountable
  <1>9. Escalating'
    BY <1>2, <1>5 DEF ReportsInv, Escalating
  <1> QED
    BY <1>5, <1>7, <1>8, <1>9 DEF ReportsInv

LEMMA CloseKeeps ==
    ASSUME ReportsConstants, ReportsInv, Close
    PROVE  ReportsInv'
  <1>1. PICK ok \in BOOLEAN : Show(note, {}, ok)
    BY DEF Close, Outcomes
  <1>2. /\ handler.at = "close" /\ handler' = Idle
        /\ UNCHANGED <<rows, clicks, chat, history>>
    BY DEF Close
  <1>3. /\ TypeOK /\ msg \in Msgs /\ NoteOf(note, msg)
        /\ msg \in broken \/ rows[msg] = <<>>
    BY <1>2 DEF ReportsInv, TypeOK, HandlerNotes, Accountable
  <1>4. /\ notifications' \in Seq(Notifications)
        /\ RowNotes' /\ ReportsKept' /\ RejectedGone' /\ ClickNotes'
        /\ \A m : m # msg /\ Live(m) => Live(m)'
    <2>1. \A m : m # msg => ~NoteOf(note, m)
      BY <1>3 DEF NoteOf
    <2>2. {} \in SUBSET Buttons
      OBVIOUS
    <2> QED BY <1>1, <1>2, <2>1, <2>2, ButtonStep
  <1>5. handler' \in Handlers /\ handler'.at = "idle"
    BY <1>2, IdleHandler
  <1>6. TypeOK'
    BY <1>2, <1>3, <1>4, <1>5 DEF TypeOK, Handlers
  <1>7. HandlerNotes' /\ Accountable'
    BY <1>5 DEF HandlerNotes, Accountable
  <1>8. Escalating'
    <2>1. msg \notin broken => Len(rows[msg]) = 0
      BY <1>3
    <2>2. msg \notin broken => ~(Len(rows[msg]) >= Threshold)
      BY <2>1 DEF ReportsConstants
    <2> QED BY <1>2, <1>4, <2>2 DEF ReportsInv, Escalating
  <1> QED
    BY <1>4, <1>6, <1>7, <1>8 DEF ReportsInv

(* The buttons of the notification on which the query at hand was clicked. *)
LEMMA EditingKeeps ==
    ASSUME ReportsConstants, ReportsInv, NEW kind, Take(kind),
           NEW b \in SUBSET Buttons, b # {}, NEW ok \in BOOLEAN, Show(on, b, ok),
           UNCHANGED <<rows, chat, handler, history>>
    PROVE  ReportsInv'
  <1>1. /\ handler.at = "idle"
        /\ clicks' \in Seq(Clicks) /\ \A i \in DOMAIN clicks' : clicks'[i].note \in DOMAIN notifications
    BY TakenClick DEF ReportsInv
  <1> HIDE DEF on
  <1>2. /\ notifications' \in Seq(Notifications)
        /\ RowNotes' /\ ReportsKept' /\ RejectedGone'
        /\ DOMAIN notifications' = DOMAIN notifications
        /\ \A m : Live(m) => Live(m)'
    BY ButtonStep
  <1>3. TypeOK' /\ ClickNotes'
    BY <1>1, <1>2 DEF ReportsInv, TypeOK, ClickNotes
  <1>4. HandlerNotes' /\ Accountable'
    BY <1>1 DEF HandlerNotes, Accountable
  <1>5. Escalating'
    BY <1>1, <1>2 DEF ReportsInv, Escalating
  <1> QED
    BY <1>2, <1>3, <1>4, <1>5 DEF ReportsInv

LEMMA BanReporterAskKeeps ==
    ASSUME ReportsConstants, ReportsInv, BanReporterAsk
    PROVE  ReportsInv'
  <1>1. PICK ok \in BOOLEAN : Show(on, DialogButtons(about), ok)
    BY DEF BanReporterAsk, Outcomes
  <1>2. Take("R?") /\ UNCHANGED <<rows, chat, handler, history>>
    BY DEF BanReporterAsk
  <1>3. about \in Msgs
    BY <1>2, TakenClick DEF ReportsInv
  <1>4. DialogButtons(about) \in SUBSET Buttons /\ DialogButtons(about) # {}
    BY <1>3, SomeButtons DEF ReportsInv
  <1> QED
    BY <1>1, <1>2, <1>4, EditingKeeps

LEMMA ReportCancelKeeps ==
    ASSUME ReportsConstants, ReportsInv, ReportCancel
    PROVE  ReportsInv'
  <1>1. PICK ok \in BOOLEAN : Show(on, MainButtons(about), ok)
    BY DEF ReportCancel, Outcomes
  <1>2. Take("RX") /\ UNCHANGED <<rows, chat, handler, history>>
    BY DEF ReportCancel
  <1>3. about \in Msgs
    BY <1>2, TakenClick DEF ReportsInv
  <1>4. MainButtons(about) \in SUBSET Buttons /\ MainButtons(about) # {}
    BY <1>3, SomeButtons DEF ReportsInv
  <1> QED
    BY <1>1, <1>2, <1>4, EditingKeeps

(* What a new notification changes.                                        *)
LEMMA NewNotification ==
    ASSUME ReportsInv, rows' = rows, untold' \subseteq untold, rejected' \subseteq rejected,
           NEW m \in Msgs, NEW b \in SUBSET Buttons,
           notifications' = Append(notifications, [msg |-> m, buttons |-> b])
    PROVE  /\ notifications' \in Seq(Notifications)
           /\ RowNotes' /\ ReportsKept' /\ RejectedGone'
           /\ clicks' = clicks => ClickNotes'
           /\ \A k, h : NoteOf(k, h) => NoteOf(k, h)'
           /\ Len(notifications) \in Nat
           /\ Len(notifications) + 1 \in DOMAIN notifications'
           /\ notifications'[Len(notifications) + 1] = [msg |-> m, buttons |-> b]
           /\ \A h : Live(h) => Live(h)'
           /\ b # {} => Live(m)'
  <1>1. /\ notifications' \in Seq(Notifications)
        /\ Len(notifications) \in Nat
        /\ Len(notifications) + 1 \in DOMAIN notifications'
        /\ notifications'[Len(notifications) + 1] = [msg |-> m, buttons |-> b]
        /\ \A k \in DOMAIN notifications :
                k \in DOMAIN notifications' /\ notifications'[k] = notifications[k]
    BY SendEffect DEF ReportsInv
  <1>2. Keeping
    BY <1>1 DEF Keeping
  <1>3. RowNotes' /\ (clicks' = clicks => ClickNotes') /\ \A k, h : NoteOf(k, h) => NoteOf(k, h)'
    BY <1>2, NotesStay DEF ReportsInv
  <1>4. ReportsKept' /\ RejectedGone'
    BY DEF ReportsInv, ReportsKept, RejectedGone
  <1>5. \A h : Live(h) => Live(h)'
    BY <1>1 DEF Live
  <1>6. b # {} => Live(m)'
    BY <1>1 DEF Live
  <1> QED
    BY <1>1, <1>3, <1>4, <1>5, <1>6

LEMMA SendNotificationKeeps ==
    ASSUME ReportsConstants, ReportsInv, SendNotification
    PROVE  ReportsInv'
  <1> DEFINE new == Len(notifications) + 1
  <1>1. /\ handler.at = "send"
        /\ UNCHANGED <<rows, clicks, chat, untold, rejected, autoBanned>>
    BY DEF SendNotification
  <1>2. TypeOK /\ msg \in Msgs /\ handler.user \in Users
    BY DEF ReportsInv, TypeOK
  <1>3. MainButtons(msg) \in SUBSET Buttons /\ MainButtons(msg) # {}
    BY <1>2, SomeButtons
  <1>4. CASE /\ notifications' = Append(notifications, [msg |-> msg, buttons |-> MainButtons(msg)])
             /\ Start("save", "report", msg, new, handler.user)
             /\ broken' = broken
    <2> DEFINE b == MainButtons(msg)
    <2>0. PICK h \in Msgs : h = msg
      BY <1>2
    <2>1. notifications' = Append(notifications, [msg |-> h, buttons |-> b]) /\ h \in Msgs
          /\ b \in SUBSET Buttons /\ b # {}
      BY <1>2, <1>3, <1>4, <2>0
    <2> HIDE DEF b
    <2>2. /\ notifications' \in Seq(Notifications)
          /\ RowNotes' /\ ReportsKept' /\ RejectedGone' /\ ClickNotes'
          /\ Len(notifications) \in Nat
          /\ new \in DOMAIN notifications' /\ notifications'[new] = [msg |-> h, buttons |-> b]
          /\ \A m : Live(m) => Live(m)'
          /\ Live(h)'
      BY <1>1, <2>1, NewNotification
    <2> HIDE DEF new
    <2>3. new \in Nat
      BY <2>2 DEF new
    <2>4. /\ handler' \in Handlers /\ handler'.at = "save" /\ handler'.mode = "report"
          /\ handler'.msg = h /\ handler'.note = new
      BY <1>2, <1>4, <2>0, <2>3 DEF Handlers, Places, Modes
    <2>5. TypeOK'
      BY <1>1, <1>2, <1>4, <2>2, <2>4 DEF TypeOK, Handlers
    <2>6. HandlerNotes' /\ Accountable'
      BY <2>1, <2>2, <2>4 DEF HandlerNotes, Accountable, NoteOf
    <2>7. Escalating'
      <3> SUFFICES ASSUME NEW m \in Msgs, m \notin broken', Len(rows'[m]) >= Threshold
                   PROVE  Live(m)'
        BY DEF Escalating
      <3>1. CASE m = h
        BY <2>2, <3>1
      <3>2. CASE m # h
        BY <1>1, <1>4, <2>0, <2>2, <3>2 DEF ReportsInv, Escalating
      <3> QED BY <3>1, <3>2
    <2> QED BY <2>2, <2>5, <2>6, <2>7 DEF ReportsInv
  <1>5. CASE Done /\ notifications' = notifications /\ broken' = broken \union {msg}
    <2>1. handler' \in Handlers /\ handler'.at = "idle"
      BY <1>5, IdleHandler
    <2>2. RowNotes' /\ ReportsKept' /\ RejectedGone' /\ ClickNotes'
      BY <1>1, <1>5, QuietStep
    <2>3. TypeOK'
      <3>1. broken' \in SUBSET Msgs
        BY <1>2, <1>5 DEF TypeOK
      <3> QED BY <1>1, <1>2, <1>5, <2>1, <3>1 DEF TypeOK, Handlers
    <2>4. HandlerNotes' /\ Accountable'
      BY <2>1 DEF HandlerNotes, Accountable
    <2>5. Escalating'
      BY <1>1, <1>5, QuietStep DEF Escalating
    <2> QED BY <2>2, <2>3, <2>4, <2>5 DEF ReportsInv
  <1> QED
    BY <1>4, <1>5 DEF SendNotification, Break

LEMMA SaveAdminMsgIDKeeps ==
    ASSUME ReportsConstants, ReportsInv, SaveAdminMsgID
    PROVE  ReportsInv'
  <1>1. /\ handler.at = "save" /\ handler' = Idle
        /\ UNCHANGED <<notifications, clicks, chat, untold, rejected, autoBanned>>
    BY DEF SaveAdminMsgID
  <1>2. PICK ok \in BOOLEAN :
            /\ rows' = IF ok THEN [rows EXCEPT ![msg] = [i \in DOMAIN @ |-> [@[i] EXCEPT !.admin = note]]]
                       ELSE rows
            /\ broken' = IF ok THEN broken ELSE broken \union {msg}
    BY DEF SaveAdminMsgID, Break, Outcomes
  <1>3. /\ TypeOK /\ msg \in Msgs /\ note \in Nat /\ rows \in [Msgs -> Seq(Rows)]
        /\ NoteOf(note, msg) /\ notifications[note].buttons # {}
    BY <1>1 DEF ReportsInv, TypeOK, HandlerNotes
  <1> DEFINE noted == [i \in DOMAIN rows[msg] |-> [rows[msg][i] EXCEPT !.admin = note]]
  <1>4. /\ rows[msg] \in Seq(Rows) /\ Len(rows[msg]) \in Nat
        /\ DOMAIN rows[msg] = 1 .. Len(rows[msg])
    BY <1>3, FirstReport, LenProperties
  <1>5. /\ noted \in Seq(Rows) /\ Len(noted) = Len(rows[msg])
        /\ \A i \in DOMAIN noted : noted[i].admin = note
    <2>1. \A i \in 1 .. Len(rows[msg]) : rows[msg][i] \in Rows
      BY <1>4
    <2>2. \A i \in 1 .. Len(rows[msg]) : noted[i] \in Rows /\ noted[i].admin = note
      BY <1>3, <1>4, <2>1 DEF Rows
    <2>3. noted = [i \in 1 .. Len(rows[msg]) |-> noted[i]]
      BY <1>4
    <2> HIDE DEF noted
    <2>4. noted \in [1 .. Len(rows[msg]) -> Rows]
      BY <2>2, <2>3
    <2> QED BY <1>4, <2>2, <2>4
  <1>6. \A m \in Msgs : rows'[m] = rows[m] \/ (m = msg /\ rows'[m] = noted)
    BY <1>2, <1>3
  <1>7. rows' \in [Msgs -> Seq(Rows)]
    <2>1. rows' = [m \in Msgs |-> rows'[m]]
      BY <1>2, <1>3
    <2> HIDE DEF noted
    <2>2. \A m \in Msgs : rows'[m] \in Seq(Rows)
      BY <1>3, <1>5, <1>6
    <2> QED BY <2>1, <2>2
  <1> HIDE DEF noted
  <1>8. \A m \in Msgs : Len(rows'[m]) = Len(rows[m])
    BY <1>5, <1>6
  <1>9. handler' \in Handlers /\ handler'.at = "idle"
    BY <1>1, IdleHandler
  <1>10. TypeOK'
    <2>1. broken' \in SUBSET Msgs
      BY <1>2, <1>3 DEF TypeOK
    <2> QED BY <1>1, <1>3, <1>7, <1>9, <2>1 DEF TypeOK, Handlers
  <1>11. RowNotes'
    <2> SUFFICES ASSUME NEW m \in Msgs, NEW i \in DOMAIN rows'[m], rows'[m][i].admin > 0
                 PROVE  rows'[m][i].admin \in DOMAIN notifications /\ notifications[rows'[m][i].admin].msg = m
      BY <1>1 DEF RowNotes, NoteOf
    <2>1. CASE rows'[m] = rows[m]
      BY <2>1 DEF ReportsInv, RowNotes, NoteOf
    <2>2. CASE m = msg /\ rows'[m] = noted
      BY <1>3, <1>5, <2>2 DEF NoteOf
    <2> QED BY <1>6, <2>1, <2>2
  <1>12. ClickNotes' /\ HandlerNotes' /\ Accountable'
    BY <1>1, <1>9 DEF ReportsInv, ClickNotes, HandlerNotes, Accountable
  <1>13. ReportsKept' /\ RejectedGone'
    <2>1. \A m \in Msgs : rows'[m] = <<>> <=> rows[m] = <<>>
      <3>1. \A m \in Msgs : rows[m] \in Seq(Rows) /\ rows'[m] \in Seq(Rows)
        BY <1>3, <1>7
      <3> QED BY <1>8, <3>1
    <2> QED BY <1>1, <2>1 DEF ReportsInv, ReportsKept, RejectedGone, TypeOK
  <1>14. Escalating'
    <2>1. \A m : Live(m) => Live(m)'
      BY <1>1 DEF Live
    <2> QED BY <1>1, <1>2, <1>8, <2>1 DEF ReportsInv, Escalating
  <1> QED
    BY <1>10, <1>11, <1>12, <1>13, <1>14 DEF ReportsInv

LEMMA PunishKeeps ==
    ASSUME ReportsConstants, ReportsInv, Punish
    PROVE  ReportsInv'
  <1>1. /\ handler.at = "punish"
        /\ approved' = approved \ {AuthorOf[msg]}
        /\ UNCHANGED <<rows, notifications, clicks, rejected, autoBanned, broken>>
        /\ IF handler.mode = "auto" THEN GoTo("tell") /\ untold' = untold \union {msg}
                                    ELSE GoTo("clear") /\ untold' = untold
    BY DEF Punish
  <1>2. deleted' = deleted \/ deleted' = deleted \union {msg}
    BY DEF Punish
  <1>3. banned' = banned \/ banned' = banned \union {AuthorOf[msg]}
    BY DEF Punish
  <1>4. /\ TypeOK /\ msg \in Msgs /\ AuthorOf[msg] \in Users /\ rows[msg] # <<>>
        /\ handler.mode # "auto" => NoteOf(note, msg) /\ msg \notin untold
    BY <1>1 DEF ReportsInv, TypeOK, HandlerNotes, Accountable, ReportsConstants
  <1>5. /\ handler' \in Handlers /\ handler'.mode = handler.mode
        /\ handler'.msg = handler.msg /\ handler'.note = handler.note
        /\ handler'.at = IF handler.mode = "auto" THEN "tell" ELSE "clear"
    <2>1. "tell" \in Places /\ "clear" \in Places
      BY DEF Places
    <2> QED BY <1>1, <1>4, <2>1, GoToEffect
  <1>6. /\ untold' \in SUBSET Msgs /\ deleted' \in SUBSET Msgs /\ banned' \in SUBSET Users
        /\ approved' \in SUBSET Users
    BY <1>1, <1>2, <1>3, <1>4 DEF TypeOK
  <1>7. TypeOK'
    BY <1>1, <1>4, <1>5, <1>6 DEF TypeOK, Handlers
  <1>8. Keeping
    BY <1>1 DEF Keeping
  <1>9. RowNotes' /\ ClickNotes' /\ \A n, m : NoteOf(n, m) => NoteOf(n, m)'
    BY <1>1, <1>8, NotesStay DEF ReportsInv
  <1>10. HandlerNotes'
    BY <1>4, <1>5, <1>9 DEF HandlerNotes
  <1>11. ReportsKept' /\ RejectedGone'
    BY <1>1, <1>4 DEF ReportsInv, ReportsKept, RejectedGone
  <1>12. Accountable'
    BY <1>1, <1>4, <1>5 DEF Accountable
  <1>13. Escalating'
    <2>1. \A m : Live(m) => Live(m)'
      BY <1>1 DEF Live
    <2> QED BY <1>1, <1>5, <2>1 DEF ReportsInv, Escalating
  <1> QED
    BY <1>7, <1>9, <1>10, <1>11, <1>12, <1>13 DEF ReportsInv

LEMMA TellAutoBanKeeps ==
    ASSUME ReportsConstants, ReportsInv, TellAutoBan
    PROVE  ReportsInv'
  <1>1. handler.at = "tell" /\ UNCHANGED <<rows, clicks, chat, rejected, autoBanned>>
    BY DEF TellAutoBan
  <1>2. PICK ok \in BOOLEAN :
            /\ IF Notified(msg) THEN Show(Head(rows[msg]).admin, {}, ok)
               ELSE notifications' =
                        IF ok THEN Append(notifications, [msg |-> msg, buttons |-> {}]) ELSE notifications
            /\ IF ok THEN GoTo("clear") ELSE Done
            /\ untold' = IF ok THEN untold \ {msg} ELSE untold
            /\ broken' = IF ok THEN broken ELSE broken \union {msg}
    BY DEF TellAutoBan, Break, Outcomes
  <1>3. TypeOK /\ handler.mode = "auto"
    BY <1>1 DEF ReportsInv, HandlerNotes
  <1>4. PICK h \in Msgs : h = msg
    BY <1>3 DEF TypeOK
  <1>5. /\ handler' \in Handlers
        /\ ~ok => handler'.at = "idle"
        /\ ok => handler'.at = "clear" /\ handler'.mode = "auto" /\ handler'.msg = h
    <2>1. "clear" \in Places
      BY DEF Places
    <2>2. CASE ok
      BY <1>2, <1>3, <1>4, <2>1, <2>2, GoToEffect
    <2>3. CASE ~ok
      BY <1>2, <2>3, IdleHandler
    <2> QED BY <2>2, <2>3
  <1>6. untold' \subseteq untold /\ rejected' \subseteq rejected
    BY <1>1, <1>2
  <1>7. {} \in SUBSET Buttons
    OBVIOUS
  <1>8. /\ notifications' \in Seq(Notifications)
        /\ RowNotes' /\ ReportsKept' /\ RejectedGone' /\ ClickNotes'
        /\ \A m \in Msgs : m # h /\ Live(m) => Live(m)'
    <2>1. CASE Notified(msg)
      <3> DEFINE n == Head(rows[h]).admin
      <3>1. Show(n, {}, ok)
        BY <1>2, <1>4, <2>1
      <3>2. NoteOf(n, h)
        BY <1>3, <1>4, <2>1, FirstReport DEF Notified, ReportsInv, RowNotes
      <3> HIDE DEF n
      <3>3. \A m : m # h => ~NoteOf(n, m)
        BY <3>2 DEF NoteOf
      <3> QED BY <1>1, <1>6, <1>7, <3>1, <3>3, ButtonStep
    <2>2. CASE ~Notified(msg) /\ ok
      <3>1. notifications' = Append(notifications, [msg |-> h, buttons |-> {}])
        BY <1>2, <1>4, <2>2
      <3> QED BY <1>1, <1>6, <1>7, <3>1, NewNotification
    <2>3. CASE ~Notified(msg) /\ ~ok
      <3>1. notifications' = notifications
        BY <1>2, <2>3
      <3>2. RowNotes' /\ ReportsKept' /\ RejectedGone' /\ ClickNotes'
        BY <1>1, <1>6, <3>1, QuietStep
      <3>3. \A m \in Msgs : Live(m) => Live(m)'
        BY <3>1 DEF Live
      <3> QED BY <1>3, <3>1, <3>2, <3>3 DEF TypeOK
    <2> QED BY <2>1, <2>2, <2>3
  <1>9. TypeOK'
    <2>1. broken' \in SUBSET Msgs /\ untold' \in SUBSET Msgs
      BY <1>2, <1>3, <1>4, <1>6 DEF TypeOK
    <2> QED BY <1>1, <1>3, <1>5, <1>8, <2>1 DEF TypeOK, Handlers
  <1>10. HandlerNotes'
    BY <1>5 DEF HandlerNotes
  <1>11. Accountable'
    BY <1>2, <1>4, <1>5 DEF Accountable
  <1>12. Escalating'
    BY <1>1, <1>2, <1>4, <1>5, <1>8 DEF ReportsInv, Escalating
  <1> QED
    BY <1>8, <1>9, <1>10, <1>11, <1>12 DEF ReportsInv

LEMMA AddReportKeeps ==
    ASSUME ReportsConstants, ReportsInv, AddReport
    PROVE  ReportsInv'
  <1> DEFINE new == [by |-> handler.user, admin |-> 0, age |-> 0]
             added == IF handler.user \in Reporters(msg) THEN rows
                      ELSE [rows EXCEPT ![msg] = Append(@, new)]
             young(m) == {i \in DOMAIN added[m] : added[m][i].age < 2}
  <1>1. /\ handler.at = "add" /\ GoTo("check")
        /\ untold' = {m \in untold : rows'[m] # <<>>}
        /\ rejected' = rejected \ {msg}
        /\ autoBanned' = autoBanned \ {msg}
        /\ broken' = broken \ {msg}
        /\ UNCHANGED <<notifications, clicks, chat>>
    BY DEF AddReport
  <1>2. rows' = added \/ rows' = [m \in Msgs |-> Keep(added[m], young(m))]
    BY DEF AddReport
  <1>3. TypeOK /\ msg \in Msgs /\ rows \in [Msgs -> Seq(Rows)] /\ new \in Rows
    <2>1. TypeOK /\ msg \in Msgs /\ rows \in [Msgs -> Seq(Rows)] /\ handler.user \in Users
      BY DEF ReportsInv, TypeOK
    <2>2. new \in Rows
      BY <2>1 DEF Rows
    <2> QED BY <2>1, <2>2
  <1>4. /\ added \in [Msgs -> Seq(Rows)]
        /\ \A m \in Msgs : m # msg => added[m] = rows[m]
        /\ \A i \in DOMAIN added[msg] :
             (i \in DOMAIN rows[msg] /\ added[msg][i] = rows[msg][i]) \/ added[msg][i] = new
    <2>1. CASE handler.user \in Reporters(msg)
      BY <1>3, <2>1
    <2>2. CASE handler.user \notin Reporters(msg)
      <3> DEFINE more == Append(rows[msg], new)
      <3>1. rows[msg] \in Seq(Rows) /\ Len(rows[msg]) \in Nat /\ DOMAIN rows[msg] = 1 .. Len(rows[msg])
        BY <1>3, FirstReport, LenProperties
      <3> HIDE DEF new
      <3>2. /\ more \in Seq(Rows) /\ DOMAIN more = 1 .. Len(rows[msg]) + 1
            /\ \A i \in 1 .. Len(rows[msg]) : more[i] = rows[msg][i]
            /\ more[Len(rows[msg]) + 1] = new
        BY <1>3, <3>1, AppendProperties, LenProperties
      <3>3. \A i \in DOMAIN more : (i \in DOMAIN rows[msg] /\ more[i] = rows[msg][i]) \/ more[i] = new
        <4>1. \A i \in DOMAIN more : i \in 1 .. Len(rows[msg]) \/ i = Len(rows[msg]) + 1
          BY <3>1, <3>2
        <4> QED BY <3>1, <3>2, <4>1
      <3>4. added = [rows EXCEPT ![msg] = more]
        BY <2>2
      <3> HIDE DEF more, added
      <3> QED BY <1>3, <3>2, <3>3, <3>4
    <2> QED BY <2>1, <2>2
  <1>5. new.admin = 0
    OBVIOUS
  <1> HIDE DEF new, added
  <1>6. \A m \in Msgs : /\ rows'[m] \in Seq(Rows) /\ Len(rows'[m]) \in Nat /\ Len(rows'[m]) <= Len(added[m])
                        /\ \A i \in DOMAIN rows'[m] : \E j \in DOMAIN added[m] : rows'[m][i] = added[m][j]
                        /\ added[m] = <<>> => rows'[m] = <<>>
    <2> SUFFICES ASSUME NEW m \in Msgs
                 PROVE  /\ rows'[m] \in Seq(Rows) /\ Len(rows'[m]) \in Nat /\ Len(rows'[m]) <= Len(added[m])
                        /\ \A i \in DOMAIN rows'[m] : \E j \in DOMAIN added[m] : rows'[m][i] = added[m][j]
                        /\ added[m] = <<>> => rows'[m] = <<>>
      OBVIOUS
    <2>1. added[m] \in Seq(Rows) /\ Len(added[m]) \in Nat /\ DOMAIN added[m] = 1 .. Len(added[m])
      BY <1>4, LenProperties
    <2>2. CASE rows' = added
      BY <2>1, <2>2
    <2>3. CASE rows' = [h \in Msgs |-> Keep(added[h], young(h))]
      <3>1. rows'[m] = Keep(added[m], young(m))
        BY <2>3
      <3>2. young(m) \in SUBSET (1 .. Len(added[m]))
        BY <2>1
      <3> HIDE DEF young
      <3> QED BY <2>1, <3>1, <3>2, KeptReports
    <2> QED BY <1>2, <2>2, <2>3
  <1> HIDE DEF young
  <1>7. rows' \in [Msgs -> Seq(Rows)]
    <2>1. rows' = [m \in Msgs |-> rows'[m]]
      BY <1>2, <1>4
    <2> QED BY <1>6, <2>1
  <1>8. /\ handler' \in Handlers /\ handler'.at = "check" /\ handler'.msg = handler.msg
    <2>1. "check" \in Places
      BY DEF Places
    <2> QED BY <1>1, <1>3, <2>1, GoToEffect
  <1>9. TypeOK'
    BY <1>1, <1>3, <1>7, <1>8 DEF TypeOK, Handlers
  <1>10. RowNotes'
    <2> SUFFICES ASSUME NEW m \in Msgs, NEW i \in DOMAIN rows'[m], rows'[m][i].admin > 0
                 PROVE  rows'[m][i].admin \in DOMAIN notifications /\ notifications[rows'[m][i].admin].msg = m
      BY <1>1 DEF RowNotes, NoteOf
    <2>1. PICK j \in DOMAIN added[m] : rows'[m][i] = added[m][j]
      BY <1>6
    <2>2. added[m][j] # new
      BY <1>5, <2>1
    <2>3. j \in DOMAIN rows[m] /\ added[m][j] = rows[m][j]
      BY <1>4, <2>2
    <2> QED BY <2>1, <2>3 DEF ReportsInv, RowNotes, NoteOf
  <1>11. ClickNotes' /\ HandlerNotes' /\ Accountable'
    BY <1>1, <1>8 DEF ReportsInv, ClickNotes, HandlerNotes, Accountable
  <1>12. ReportsKept' /\ RejectedGone'
    <2>1. \A m \in rejected' : m \in Msgs /\ m # msg /\ rows[m] = <<>>
      BY <1>1, <1>3 DEF ReportsInv, RejectedGone, TypeOK
    <2>2. \A m \in rejected' : rows'[m] = <<>>
      BY <1>4, <1>6, <2>1
    <2> QED BY <1>1, <2>2 DEF ReportsKept, RejectedGone
  <1>13. Escalating'
    <2> SUFFICES ASSUME NEW m \in Msgs, m # msg, m \notin broken', Len(rows'[m]) >= Threshold
                 PROVE  Live(m)'
      BY <1>8 DEF Escalating
    <2>1. Len(rows[m]) \in Nat /\ Len(rows'[m]) \in Nat /\ Len(rows'[m]) <= Len(rows[m])
      BY <1>3, <1>4, <1>6, FirstReport
    <2>2. Len(rows[m]) >= Threshold
      BY <2>1 DEF ReportsConstants
    <2>3. Live(m)
      BY <1>1, <2>2 DEF ReportsInv, Escalating
    <2> QED BY <1>1, <2>3 DEF Live
  <1> QED
    BY <1>9, <1>10, <1>11, <1>12, <1>13 DEF ReportsInv

----------------------------------------------------------------------------
LEMMA StartRight ==
    ASSUME ReportsConstants, Init
    PROVE  ReportsInv
  <1>1. Idle \in Handlers /\ Idle.at = "idle"
    BY IdleHandler
  <1>2. /\ rows = [m \in Msgs |-> <<>>] /\ notifications = <<>> /\ clicks = <<>>
        /\ approved = ApprovedAtStart /\ banned = {} /\ deleted = {} /\ handler = Idle
        /\ untold = {} /\ rejected = {} /\ autoBanned = {} /\ broken = {}
    BY DEF Init
  <1>3. rows \in [Msgs -> Seq(Rows)] /\ notifications \in Seq(Notifications) /\ clicks \in Seq(Clicks)
    BY <1>2
  <1>4. TypeOK
    BY <1>1, <1>2, <1>3 DEF TypeOK, Handlers, ReportsConstants
  <1>5. \A m \in Msgs : DOMAIN rows[m] = {} /\ Len(rows[m]) = 0
    BY <1>2
  <1>6. RowNotes /\ ClickNotes /\ HandlerNotes
    BY <1>1, <1>2, <1>5 DEF RowNotes, ClickNotes, HandlerNotes
  <1>7. ReportsKept /\ RejectedGone /\ Accountable
    BY <1>1, <1>2 DEF ReportsKept, RejectedGone, Accountable
  <1>8. Escalating
    BY <1>5 DEF Escalating, ReportsConstants
  <1> QED
    BY <1>4, <1>6, <1>7, <1>8 DEF ReportsInv

LEMMA StepRight ==
    ASSUME ReportsConstants, ReportsInv, [Next]_vars
    PROVE  ReportsInv'
  <1>1. CASE Report
    <2>1. ASSUME NEW u \in Users, NEW m \in Msgs, DirectUserReport(u, m) PROVE ReportsInv'
      BY <2>1, DirectUserReportKeeps
    <2> QED BY <1>1, <2>1, AddReportKeeps, ReportFailsKeeps, CheckThresholdKeeps,
               SendNotificationKeeps, SaveAdminMsgIDKeeps, UpdateNotificationKeeps DEF Report
  <1>2. CASE Callback
    BY <1>2, CallbackFailsKeeps, ReportBanKeeps, ReportRejectKeeps, BanReporterAskKeeps,
       BanReporterConfirmKeeps, ReportCancelKeeps, CountRemainingKeeps, RestoreKeeps, CloseKeeps
       DEF Callback
  <1>3. CASE Punish \/ TellAutoBan \/ Clear \/ Admin \/ Crash \/ TimePasses
    BY <1>3, PunishKeeps, TellAutoBanKeeps, ClearKeeps, ClickKeeps, CrashKeeps, TimePassesKeeps
  <1>4. CASE UNCHANGED vars
    BY <1>4, StutterKeeps
  <1> QED
    BY <1>1, <1>2, <1>3, <1>4 DEF Next

LEMMA ReportsAlways == Spec => []ReportsInv
  <1>1. Init => ReportsInv
    BY ReportsConstants, StartRight
  <1>2. ReportsInv /\ [Next]_vars => ReportsInv'
    BY ReportsConstants, StepRight
  <1> QED
    BY <1>1, <1>2, PTL DEF Spec

(* Every variable of the reports has its type.                             *)
THEOREM TypeCorrect == Spec => []TypeOK
  <1>1. ReportsInv => TypeOK
    BY DEF ReportsInv
  <1> QED
    BY <1>1, ReportsAlways, PTL

(* A message with enough reports has a notification with buttons whenever  *)
(* the listener is idle, unless a call failed since its last report.       *)
THEOREM EnoughReportsEscalated == Spec => []Escalated
  <1>1. ReportsInv => Escalated
    BY DEF ReportsInv, Escalating, Escalated
  <1> QED
    BY <1>1, ReportsAlways, PTL

(* The reports behind an auto-ban stay until the admins are told of it.    *)
THEOREM UntoldReportsKept == Spec => []ReportsKept
  <1>1. ReportsInv => ReportsKept
    BY DEF ReportsInv
  <1> QED
    BY <1>1, ReportsAlways, PTL

(* A message whose reports were rejected is not deleted by a click that    *)
(* was waiting: whoever deletes has a report of it at hand.                *)
THEOREM RejectionSticks == Spec => RejectSticks
  <1>1. ReportsInv /\ [Next]_vars => [(deleted' \ deleted) \intersect rejected = {}]_vars
    <2> SUFFICES ASSUME ReportsInv, Next
                 PROVE  (deleted' \ deleted) \intersect rejected = {}
      OBVIOUS
    <2>1. CASE Punish
      <3>1. deleted' = deleted \/ deleted' = deleted \union {msg}
        BY <2>1 DEF Punish
      <3>2. msg \notin rejected
        BY <2>1 DEF Punish, ReportsInv, Accountable, RejectedGone
      <3> QED BY <3>1, <3>2
    <2>2. CASE ~Punish
      <3>1. deleted' = deleted
        BY <2>2 DEF Next, Report, Callback, Admin, DirectUserReport, AddReport, ReportFails,
           CheckThreshold, SendNotification, SaveAdminMsgID, UpdateNotification, TellAutoBan,
           Clear, CallbackFails, ReportBan, ReportReject, BanReporterAsk, BanReporterConfirm,
           ReportCancel, CountRemaining, Restore, Close, Click, Crash, TimePasses
      <3> QED BY <3>1
    <2> QED BY <2>1, <2>2
  <1> QED
    BY <1>1, ReportsAlways, PTL DEF Spec, RejectSticks
=============================================================================
