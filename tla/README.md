# Verification of tg-spam

TLA+ modules, TLC runs and TLAPS proofs for the anti-spam bot in `src/`. Each definition that
models code is tied to its lines by `map` in `PROJECT.json`; the hazards the properties are
aimed at are listed there too, each at its line.

## The system

The bot sits in a Telegram group. One goroutine, the *listener* (`app/events/listener.go`), takes
updates one after the other: messages of the group, messages and button clicks of the admin chat.
A message goes to the *detector* (`lib/tgspam`), whose verdict the listener carries out (ban,
delete, report to the admin chat). Admins correct it by forwarding, by commands and by buttons;
users report spam with `/report`. A *web server* (`app/webapi`) runs one goroutine per request
against the same detector and the same tables. Everything durable is in one SQL database, SQLite
or Postgres (`app/storage`).

| component | its state | its operations | correct when | hard because |
|---|---|---|---|---|
| Approved users (`detector.go`, `approved_users.go`) | map of counts, table of rows | counting in `Check`, `AddApprovedUser`, `RemoveApprovedUser`, load at start | nobody skips the checks who did not earn it; a removed user stays removed over restarts | the map is written under a read lock; the row is deleted outside the lock; failed writes; restarts |
| Samples, classifier, dictionaries (`classifier.go`, `samples.go`, `dictionary.go`, `bot/spam.go`, import in `main.go`) | two tables; counters, token sets, excluded tokens, stop words | learn, unlearn, dictionary changes, `ReloadSamples`, import of text files at start | the detector's side is what the tables say | a reload reads the tables query by query without the detector's lock; cursors; failing unlearn |
| User reports (`events/reports.go`, `storage/reports.go`) | table of reports, notifications with buttons | `/report`, threshold, auto-ban, five buttons, cleanup | enough reports reach the admins; nothing is lost silently; a decision sticks | every call fails on its own; crash between any two; clicks arrive when the button is gone |
| Duplicate detection (`duplicate.go`) | per user: entries and trackers | `check`, periodic cleanup, cache eviction | counts equal the user's present messages in the window | edits reuse ids, two limits, expiry, incremental counters |
| Decision of `Check` (`detector.go`, `openai.go`, `history.go`) | spam and ham history rings | one pass over all checks | order and overriding as configured | many configurations; early returns |
| Listener and admin commands (`listener.go`, `admin.go`, `events.go`) | bans, deletions, samples and approvals it causes | message, forward, `/spam` `/ban` `/warn`, buttons, aggressive cleanup | a spammer is banned, an unban restores everything | modes (training, soft ban, dry), a cleanup goroutine, failed calls |
| Locator (`locator.go`) | messages by text hash, spam by user | add, look up, retention | an admin's forward finds the right message | same text from two users; rows replaced |
| Lua plugins (`lib/tgspam/plugin`) | registered functions, the VM's globals, debounced file events, the functions the detector took | load, take, reload, watch, run | once edits stop, what is registered is what is on disk; no load meets a check in the VM | a load reads its file twice; files change during loads, between load and watch, between notification and action; scripts share a global name; the detector keeps what it took at start |
| Detected spam log, web pages, storage engine, start-up | log rows, settings | append, list, back up, migrate | | sequential I/O |

Interactions: the listener and every web request call the detector directly; the detector calls
the stores (`userStorage`, the sample updaters) while holding its lock or not, which is where the
interleavings come from. Reports and admin commands call back into the detector (learn, approve,
remove). The locator links an admin's forward to the message it came from.

## Modules

| module | models |
|---|---|
| `Approval` | the approved users, in memory and in the table |
| `ApprovalRegistry` | what that promises, without goroutines, locks, counters: the abstract specification |
| `ApprovalProofs` | theorems about `Approval` |
| `Classifier` | the counters of the Bayes classifier as a record, and learn and unlearn as operators |
| `Samples` (uses `Classifier`) | samples, dictionaries and `ReloadSamples` |
| `SamplesProofs` | theorems about `Samples` |
| `Reports` | user reports, notifications, buttons |
| `ReportsProofs` | theorems about `Reports` |
| `Duplicates` | the history of one user in the duplicate detector |
| `DuplicatesProofs` | theorems about `Duplicates` |
| `Moderation` | the listener, the admin chat and the locator: bans, unbans, deletions |
| `Standing` | what moderation promises a user, without messages, buttons, queues and failures: the abstract specification |
| `ModerationProofs` | theorems about `Moderation`, the refinement of `Standing` among them |
| `Plugins` | the Lua plugins, the directory they are in and its watcher |
| `PluginsProofs` | theorems about `Plugins` |
| `Decision` | `Check`: configuration, verdict, questions to OpenAI, the history rings |
| `DecisionProofs` | theorems about `Decision` |
| `Subsequences` | a sequence without some of its elements, by positions |
| `SubsequenceProofs` | lemmas about that |
| `MC...` | instances for TLC |

**Approval.** `approvedUsers[u]` is the count in the map (0: no entry), `approvedRows` the table,
`pc`, `user`, `count` where each goroutine is. `Check` is split into taking the read lock, reading
the entry (line 309), assigning it (315) and the storage call (316), since other readers run in
between; `AddApprovedUser` holds the write lock over its storage call, `RemoveApprovedUser` does
not. Storage calls may fail: the row then stays as it was. The verdict of the content checks is a
free choice. `clean`, `granted`, `restored`, `deleteFailed` are history variables.

**Samples.** Tables `samples`, `ignoredWords`, `stopPhrases`; the detector's `classifier`,
`tokenizedSpam`, `excludedTokens`, `stopWords`; per reload a program counter and what it has read.
A text is a model value with a set of tokens. `updateSample` and `removeSample` hold the detector's
lock over the store call and are one step each, with one action per outcome. `ReloadSamples` takes
one step per query and per locked call. `ReadersBlockWriters` is the storage engine: on SQLite
(journal mode DELETE, no busy timeout, `engine.go`) an open cursor of a sample reader makes writes
fail; on Postgres it does not (the run is for SQLite; with the constant `FALSE`, `StoreLearned` fails: a
sample learned between reading and loading is lost until the next reload). A text of several lines is stored as one line (`spam.go`): the
texts here are those after that change. A word is in the dictionary once, whatever its type
(`UNIQUE` and `INSERT OR IGNORE` in `dictionary.go`), so that adding it as the other type changes
nothing. `Restart(files)` is a start at which the text files in `files` are found: `migrateSamples` and
`migrateDicts` import each in a transaction of its own and rename it afterwards. A crash in between
shows as the same files at the next start. Starts that end in an error are left out: nothing runs after
them, and what they imported is what the next start finds.

**Reports.** `rows[m]` is the table, `notifications` what the admin chat shows, `clicks` the queue
of callback queries, `handler` how far the listener is in which handler. Each call to the store or
to Telegram has its own outcome; a crash may come between any two steps. Rows age in two steps
(out of the rate period, out of the seven days). After a crash Telegram may deliver the query in
progress again: two queued clicks of a button that is still shown cover it. The admin chat is
configured, as `reports.go` requires for anything to happen.

**Duplicates.** `entries` and `trackers` are `userHistory`; `posts` and `lost` are history: what
each message of the user says now and since when, and which messages the limits or the cache made
the detector forget. Hashes are the texts themselves. Id 0 is a check without a message (the web
API, a forward). A message of white space only is no call: `check` returns at once (`duplicate.go:71`).

**Moderation.** A handler of the listener is a list `todo` of calls to Telegram, the detector and the
store, decided when the update is taken (all its conditions are evaluated before the first call, but
the outcomes of calls, which may cut the list short); one action makes the next call. `messages` and
`status` are the chat, `located` the locator's table in the order of time, `notices` the ban reports
with the buttons they show, `clicks` the queue. `mode` is the configuration, who is a super user and which
channel is the group itself, together with the kinds of failures of that behaviour. `cleanups` are the goroutines of aggressive cleanup. A channel that posts
is a user of its own, as its id is used everywhere; the group itself is the author of what
anonymous admins post (`Anonymous`). In soft mode an unban lifts a ban as well as a restriction: so Telegram treats a
restriction with all permissions. History: `verdict`, what was last decided about each user (`unban` where an admin takes back a ban of the
bot's own that was reported, `reversed` where he takes back anything else), and `failed`, for whom a call
failed since. The verdict of the detector and the counting of clean messages
are free choices here. The approved users are those in memory (`approved`) and those with a row (`approvedRows`): a call
that approves or removes changes memory first, its write or deletion may fail, and a restart (`Crash`) makes the list
from the rows. Updates wait in a channel, so a message may be handled after its author was banned or reported
(`Post` and `Edit` ask for no status; they allow that at any time, which is more than the program does): a late message found
clean approves a reported user again (`redeemed`), a late one found spam decides anew. Forwards, commands and clicks may be
repeated at will; the same message handed to the listener a second time after a crash is not modelled.

**Standing.** `standing`, `trusted` and `recorded` are `status`, `approved` and `approvedRows` of `Moderation`, `decided` is
its history of decisions (`Decided`). It leaves open whether a decision is carried out, and when; it says that a
user is banned, restricted or released only by the latest decision about that same user, that a pardon is never the
bot's own, and that trust changes only by a clean message of that user, by an admin's latest decision, and at a restart,
which goes by what is recorded: that brings back who could not be deleted and loses who could not be written. `Moderation` takes these steps from a text looked up
in the locator, a button of a notice, or a list of calls made while newer decisions may already have
been taken by clicks.

**Plugins.** `start` is how far `WithLuaEngine` is: `LoadDirectory` goes through `batch`, the detector takes
the functions of the enabled plugins (`luaChecks`), the watcher starts. Then `queue` is fsnotify's
channel, `events` the watcher's map of times, reduced to younger and older than the debounce time, and
`batch` what `processEvents` collected. `loader` is the load in progress. `LoadScript` runs the file in
a throw-away VM and then reads and runs it again in the shared one: the file may change in
between, and then the function registered can be the leftover `globalCheck` of another script.
`ReloadScript` deletes the entry in one locked section and loads in the next. `running` says which
goroutine is in the VM, under the read lock. The directory, and what fsnotify says of a change, is
external. Not modelled: `Close`, which only `Detector.Reset` calls, and the program never calls that; the
helpers given to scripts, pure functions; what a check answers. History: `edits`, and `unnoticed`, the scripts last
changed between loading and watching.

**Decision.** `calls[c]` is how far goroutine `c` is in `Check` and what it has in hand, at the end the
verdict; `hamHistory` and `spamHistory` are the rings (slots, and the one written next). The
configuration is a function of the command line (`options`): `makeDetector`, then `NewDetector`. What
each family of checks finds in a message is part of the request and freely chosen, like OpenAI's
answers. A count is written in one step, as its race is `Approval`'s subject. History: numbers of
messages, `clean`, `pushed`.

## What the runs show

| run | configuration | shows |
|---|---|---|
| `approval` | 2 users, the listener, which counts, and two web requests | `NoResurrection`, `EarnedTrust`, `TrustKept`, `RegistrySpec` (implements `ApprovalRegistry`) |
| `approval_report` | 1 user, 1 goroutine | *violated*: `CleanUsersMayReport` |
| `samples` | SQLite, two presets, one more text, one word of either type, three sets of files at a start, two reloads | `StoreLearned`, `SpamSimilar`, `ClassifierExact`, `IgnoredApplied` |
| `reports` | two reporters, one message, every failure and crashes | `Escalated`, `ReportsKept`, `RejectSticks` |
| `reports_buttons` | the same, nothing fails | *violated*: `AutoBanLeavesNoButtons` |
| `duplicates` | three messages, two texts | `TrackersExact`, `OneContentPerMessage`, `NoFalseAlarm`, `NoMissedAlarm`, `CopiesDeleted` |
| `decision` | two goroutines, four messages, five command lines | `VerdictByTheBook`, `AskedByTheBook`, `HistoryLatest` |
| `decision_context` | one goroutine, one message of context out of two | *violated*: `ContextLatest` |
| `moderation` | a user and a channel, one text: soft mode where nothing fails; the channel being the group, Telegram failing in soft mode and training, and cleanup mode; the user being super, the store failing and the process dying in soft mode, and dry mode; fairness | `LocatorConsistent`, `DecisionsHold`, `BanAppealable`, `StandingSpec` (implements `Standing`), `CleanupEnds`, `UnbanHappens` |
| `moderation_supers` | a super user and a user, training mode, nothing fails | *violated*: `SupersSafe` |
| `plugins` | two scripts with two contents, one goroutine that checks, three edits, fairness | `QuietCurrent`, `LoadExclusive`, `Reloaded` |
| `plugins_reload` | the same, one edit | *violated*: `ReloadTakesEffect` |

Every passing run also checks its module's `TypeOK`. Each violated property restates
a line of the documentation or of a comment; the disagreement is described under `findings` in
`PROJECT.json`.

Bounds, and why they are enough to meet the interesting cases:

- `Approval`: `FirstMessagesCount = 2`, so that there is a state of partial trust; three goroutines,
  so that a remover, a writer and a reader overlap; one of them counts, as in the program unless a web
  request clears its `CheckOnly` (then `RegistrySpec` is false; the other two invariants are proved for
  any number); `MaxClean` is the threshold, past which counts do not differ; a second user for the
  mapping to the registry.
- `Samples`: the submitted texts are a new one that shares a token with each preset, and the spam
  preset itself, so that a preset can be replaced, relabelled and removed; one word, a
  token of two of the texts, as either type; no file at a start, those of presets and stop words put
  back, or those an older version left, which name a text and a word twice; `MaxLearned = 1` allows a text to be learned once in each class besides what a load makes
  of it (`MaxLearned = 2` was run once by hand: 10.5 million states, no violation). No second removal
  follows one of a text that was not learned until the next load (`spoiled`): after it the counters
  are known to be off. One preset is not submitted: see `StoreInv` below.
- `Reports`: threshold 1 and auto-ban at 2, so that with two reporters a message passes through all
  stages and back; two queued clicks, two notifications (no report is handled when the chat has that
  many).
- `Duplicates`: threshold 2, three entries, two ids, so that both limits are hit and differ as 200
  and 100 do in the code; a window of one tick, so that some entries expire while others stay.
- `Moderation`: two authors of one text, so that rows of the locator replace each other; one report
  with buttons (no message is judged while it is there) and one waiting click, which may wait during
  another handler; a limit of one failure in a row and of two messages for a cleanup, one cleanup at a
  time; an expired row goes when there is more than one. Joins come before messages, since the two
  kinds of rows never replace each other. With one text an edit repeats it, under another message's row or after
  it expired; edits that change the text are covered by the theorems, as are an info click that waits behind a click on unban
  (`BansAppealable`) and other combinations of failures. In cleanup mode only messages that are gone already cannot be deleted;
  with failing calls to Telegram as well that mode was run once by hand (1.07 million states, no violation).
- `Plugins`: two scripts, so that one can leave its function to the other; three edits, so that a file
  can change after the notification, between the two reads, and once more; one goroutine that
  checks, as more would only be more holders of the read lock; one plugin is enabled and one is not.
  Edits before the directory is read, or when a failed start left no watcher, make no difference and are
  left out.
- `Decision`: four messages, so that a ring of two has gone around when the fourth is asked about; one
  user and the empty id; two attempts to reach OpenAI. The command lines meet each option both ways,
  veto with short messages, no history and paranoid mode with a number of first messages included.

Fairness is assumed in two runs. In `moderation`: weak fairness of the calls of the present handler
and of the cleanup goroutine, which Go schedules as long as the process lives, and strong fairness of
the callbacks, because updates are taken from the channel in the order they came and a click is not
passed over for ever. In `plugins`: strong fairness of the watcher taking a notification and of the rest of
its loop, since Go's `select` chooses at random among what is ready and a waiting writer is not starved by
the readers of an `RWMutex`; weak fairness of time (`Settle`) and of scripts, which end. Nothing obliges users, admins, Telegram or the store to anything: a call may
fail for ever. For reports, `Escalated` and `ReportsKept` say what has to be there when the listener
is idle, in place of a liveness property about admins. Deadlock is checked in every run but
`decision`, whose behaviours end at the bound on messages, and the two of `Plugins`, where a failed start with no
plugin taken leaves nothing to do; in `Moderation` time may always pass.

## What is proved

`ApprovalProofs`, for every set of users and goroutines, every threshold and bound, from
`ApprovalConstants` alone:

- `TypeCorrect`: `Spec => []TypeOK`.
- `Durable`: `Spec => []NoResurrection`. Not inductive by itself: a `Check` past its assignment is
  going to write a row without looking again. `DurableInv` adds that such a user is in memory, and
  that `AddApprovedUser` excludes all holders of the lock; the removal from memory waits for all of
  them, so a row written later is of a user who is back in memory.
- `Earned`: `Spec => []EarnedTrust`. `TrustInv` adds that neither the map nor a count read from it
  is ahead of the clean messages: updates lost under the read lock can only lower a count.
- `Kept`: with at most one goroutine that counts, `Spec => TrustKept`: a trusted user stays so until a
  removal, or a restart that finds no row. It follows from `CountFresh`, below.
- `ImplementsRegistry`: with at most one goroutine that counts (`SingleApprover`, the listener; web
  requests keep `CheckOnly` unless they clear it), `Spec => RegistrySpec`. `CountFresh` says that the
  count read is still the count in the map when it is written back; every step of `Approval` is a
  step of the registry or a stutter (`RegistryStep`). Without the assumption it is false: a stale
  count written over a grant takes trust away.

`Durable` and `Earned` hold for any number of counting goroutines, where the run has one.

`PluginsProofs`, for every set of scripts, contents and checking goroutines, from `PluginsConstants` alone:

- `TypeCorrect`: `Spec => []TypeOK`.
- `Exclusive`: `Spec => []LoadExclusive`, which is inductive.
- `NothingLost`: `Spec => []QuietCurrent`. `QuietInv` says where a change is before it takes effect. Until the
  detector takes the checks, a script nobody touched is registered or still in `batch` (`StartInv`). Once the
  watcher runs, a script not registered as its file says has a notification in the queue (`Notified`) or
  an event (`WatchInv`); the event goes when the load it caused is over, and no notification is taken during that
  load, so a change between its two reads is still in the queue then. `AppendNotified` and `TailNotified`
  are the lemmas about the queue.

`DecisionProofs`, for every set of goroutines, users and command lines, every ring size and any number of
messages, from `DecisionConstants` alone: `TypeCorrect`, `RightVerdicts` (`VerdictByTheBook`), `RightlyAsked`
(`AskedByTheBook`), `HistoriesLatest` (`HistoryLatest`). The inductive
invariant is `DecisionInv`. A verdict is by the book because the author of an undecided call was not trusted
when it began (`UndecidedByTheBook`), for which the counts have to be the clean messages (`Counted`); a
ring, read backwards from the slot before the next, holds the end of the sequence pushed (`RingsHold`), which is
an induction over pushes that needs no induction over slots, with the numbers of messages all different (`Numbered`).

`ReportsProofs`, for every set of users and messages and every threshold, from `ReportsConstants` alone:
`TypeCorrect`, `EnoughReportsEscalated` (`Escalated`), `UntoldReportsKept` (`ReportsKept`), `RejectionSticks`
(`RejectSticks`, an action property). The inductive invariant is `ReportsInv`: the notification that rows, clicks
and the handler refer to exists and is about the same message; a handler that deletes rows does so after the
admins were told, and one that deletes a message has its rows in hand (`Accountable`); a message with enough
reports and no live notification is in the hands of a handler that will see to it, or a call failed
(`Escalating`).

`ModerationProofs`, for every set of users, texts and modes and every bound, from `ModerationConstants` alone:
`TypeCorrect`, `LocatorLeadsRight` (`LocatorConsistent`), `DecisionsCarriedOut` (`DecisionsHold`), `BansAppealable`
(`BanAppealable`) and `ImplementsStanding` (`Spec => StandingSpec`). The heart of `ModerationInv` is `HandlerSound`:
every call a handler has still to make follows from the latest decision about its user (`Justified`), all its
calls but deletions are about one user, the bot's own ban comes first and is reported afterwards, and buttons are
not cleared before the user is free. `DecisionUnderWay` and `AppealUnderWay` say that what was decided holds or is
still to be done; of trust, that it holds in memory and in the table, so that a restart leaves it alone: a row that could
not be written or deleted puts the user in `failed`. A step about somebody else, or a clean message, adds to the trust of a
reported user only if it puts the user in `redeemed` (`KeptTrust`). For `Standing`, each action is a step or a stutter: a click or a text in the locator
decides (`CommandMaps`, `CallbackMaps`), a call of a handler carries a decision out (`CallMaps`). 
`DecisionsCarriedOut` makes exceptions. In training a ban is lifted by nobody, and a user reported by a forward or a command
is not banned, although `admin.go:78` says "the user will be banned even in training mode, but not in the dry mode":
`MsgHandler` hands the training mode to `banUserOrChannel`, which then bans nobody (only a ban confirmed by button is a real one).
In dry mode nobody is banned. And a reported user of whom a message sent before was found clean afterwards is approved
again. What `BansAppealable` claims of an unban is that it can be tried again as long as it took back a ban the admins had
been told of; a ban they were not told of has no buttons.

`DuplicatesProofs`, for every finite set of ids, every set of texts, every threshold, window and limit, from
`DuplicatesConstants` alone: `TypeCorrect`, `TrackersAlwaysExact` (`TrackersExact`), `EachMessageCountsOnce`
(`OneContentPerMessage`), `FlaggedForCopies` (`NoFalseAlarm`), `CopiesFlagged` (`NoMissedAlarm`), `AllCopiesDeleted`
(`CopiesDeleted`). The ids of a tracker are the id column of the entries at the places of its text, without some
of the oldest; the lemmas say what becomes of that when an entry goes (`UntrackRecounted`, `UntrackFirst`), is
added (`CountRecounted`) or expires (`TrackersRecounted`). `DuplicatesInv` adds to the three properties which the
detector keeps that an entry lies in time between when its message got the text and when it was last updated (`Fresh`), that a
message not older than the window has an entry unless it was lost (`Remembered`), and what the answer just given
was computed from (`Answered`). The alarms follow by counting: entries of a text map one to one to messages with
that text (`NoFalseAlarmOfInv`), and such messages to entries (`NoMissedAlarmOfInv`); if fewer than the limit of
ids are recent, the limit has left none out (`CopiesDeletedOfInv`).

`SamplesProofs`, for all finite sets of texts and tokens, any words, files and number of reloads, from
`SamplesConstants`: `TypeCorrect` and `CountersExact` (`ClassifierExact`) on any storage engine. The heart is that
`LearnAll`, which counts documents and tokens of a set, gains exactly what `learn` adds when the set gains a document
(`LearnOneMore`), and that `unlearn` takes back what `learn` added, the entries of a class left empty included
(`UnlearnLearned`), so that its checks cannot fail for a text that was learned (`LoadOneLess`).
`StoredIsLearned` (`StoreLearned`), `StoredSpamIsSimilar` (`SpamSimilar`) and `IgnoredWordsApplied` (`IgnoredApplied`)
have two hypotheses more: `ReadersBlockWriters`, that is SQLite, and `PresetsKept`, that admins do not submit the
presets of one of the classes. `StoreInv` is inductive under them: one of those presets is always in the store, so a
reload past the queries of presets has a row in hand and a cursor open (`Held`), and what it reads stays what the
store holds until it is loaded (`ReadsCurrent`). Both hypotheses are needed. On Postgres a sample learned between query and
load is lost. And if admins remove or relabel all the presets after `ReloadSamples` has counted them and before its
first query, its queries may return nothing and leave no cursor open, and a sample taught before the load is
in the store and not learned, until the next load; TLC finds this when both presets are submitted.

`SubsequenceProofs` holds what the others share. The loops that filter a slice, and the `SELECT` and `DELETE` statements,
are `Keep(s, I)`, the elements at a set of positions, not `SelectSeq`, whose recursive definition is beyond the
provers; its lemmas (length, elements, order, prefixes, composition, appending) rest on the rank of a position, a
cardinality, and so need no induction.

Only model-checked are the liveness properties, `Reloaded`, `CleanupEnds` and `UnbanHappens`: fairness and
`ENABLED` are beyond the prover. The violated properties have nothing to prove.

Observed beside the properties: two goroutines in `Check` may access the map of approved users at the
same time (`detector.go:315`), on which the Go runtime may abort.

`Last(n)` of a ring with more than `n` messages gives its oldest `n` (`history.go:66`, as its test has it), although its
comment promises the last: with the default ring of 100 and the 5 to 10 messages of context the documentation
recommends, OpenAI is given messages sent some 90 before the one in question. The run `decision_context` shows it.

`unlearn` checks its counters as it goes, not before ("first validate that we can unlearn",
`detector.go:642`; `classifier.go:83` to 102), so removing a text that was never learned leaves them
changed, although it reports an error; until the next load `StoreLearned` and `ClassifierExact` make an exception
for that (`spoiled`). `RemoveDynamicSpamSample` "reloads samples after this" by its comment (`bot/spam.go:298`)
and does not: a removed sample stays in the similarity list until something else reloads. A word that is in
the dictionary as the other type is answered as added and ignored (`dictionary.go:59`).

The Lua VM is shared by concurrent `Check`s under the read lock (gopher-lua's VMs are not made for
that); scripts see each other's globals, in spite of the comment at `checker.go:44`; edits between
`LoadDirectory` and the watcher's start go unnoticed (`unnoticed`; `detector.go:358` to 400); a missing enabled
plugin leaves those named before it active although the start reports an error; a removed script stays
registered.

## Not modelled

Text checks with floating-point thresholds (similarity, probabilities, multi-language): pure functions
that unit tests reach. Schema migrations, backup, conversion to Postgres: run once, before or beside the
bot, on one goroutine. Starts that end in an error. The deletion of leave and of orphaned `/report` messages:
one call, on which nothing else depends. The log of detected spam: appended to and listed. Log rotation,
rendering, settings, authentication: no state of the bot. `_examples`: not part of it.

## Plan

1. *Done*: `Approval` with its registry and proofs, `Samples` with the import at start, `Reports`,
   `Duplicates`, `Moderation` with `Standing`, `Decision`, `Plugins`.
2. *Done*: proofs of all safety properties that the passing runs check, and of both refinements.
