------------------------------- MODULE Plugins -------------------------------
(***************************************************************************)
(* The Lua plugins: Checker loads the scripts of a directory into one Lua  *)
(* VM and registers the function check of each under the script's name;    *)
(* the detector takes these functions once, at start, and runs them in     *)
(* every Check; Watcher collects the file system's notifications, waits    *)
(* until a script has been left alone for the debounce time and has the    *)
(* Checker load it again.                                                  *)
(*                                                                         *)
(* Checker.lock: held for writing over LoadScript, for reading while a     *)
(* check runs in the VM.  The watcher is one goroutine, so notifications   *)
(* wait while scripts are loaded; files change at any time.                *)
(***************************************************************************)
EXTENDS Integers, Sequences

CONSTANTS
    Scripts,   \* names of scripts, without extension
    Versions,  \* contents that run and define check
    Enabled,   \* LuaPlugins.EnabledPlugins in their order; empty: all that are loaded
    Checkers,  \* goroutines that call Detector.Check
    MaxEdits   \* bound: how many times files change

ASSUME PluginsConstants ==
    /\ {"absent", "empty", "broken"} \intersect Versions = {}
    /\ Enabled \in Seq(Scripts)
    /\ MaxEdits \in Nat

VARIABLES
    files,        \* the directory: what each script contains
    edits,        \* how many times files have changed
    unnoticed,    \* history: scripts whose last change came between loading and watching
    start,        \* how far WithLuaEngine is, or how it ended
    queue,        \* fsnotify's channel of notifications not yet taken
    events,       \* Watcher.events: none, fresh (younger than debounceTime) or due
    batch,        \* what LoadDirectory or processEvents still has to go through
    loader,       \* the load in progress, by whichever of the two
    checkers,     \* Checker.checkers
    globalCheck,  \* the global check of the VM all scripts share
    luaChecks,    \* Detector.luaChecks: the function in each closure
    running       \* running[g]: the script whose function g runs in the VM

directory == <<files, edits, unnoticed>>
watcher == <<queue, events>>
registry == <<checkers, globalCheck>>
vars == <<directory, start, watcher, batch, loader, registry, luaChecks, running>>

----------------------------------------------------------------------------
NoFunction == [script |-> "none", version |-> "none"]

\* The function check that a script with this content defines.
Function(s, v) == [script |-> s, version |-> v]

\* empty: no function check, as a file being saved; broken: fails to run.
Contents == Versions \union {"absent", "empty", "broken"}

Functions == {NoFunction} \union [script : Scripts, version : Versions \union {"broken"}]

\* What fsnotify says of a change.
Notifications == [name : Scripts, op : {"create", "write", "remove", "rename"}]

\* No script is being loaded; the script waits for the lock; the lock is held.
Idle == [pc |-> "idle", script |-> "none"]
Deleted(s) == [pc |-> "deleted", script |-> s]
FirstRead(s) == [pc |-> "firstRead", script |-> s]

NoReader == \A g \in Checkers : running[g] = "none"
NoWriter == loader.pc # "firstRead"

\* The watcher's goroutine is back in its select.
Waiting == start = "started" /\ batch = {} /\ loader = Idle

----------------------------------------------------------------------------
(* LoadScript: the file is run in a VM of its own, then read and run again *)
(* in the shared one.                                                      *)

\* A failure at start does not end LoadDirectory.
EndLoadGoOn(s, loaded) ==
    /\ loader' = Idle
    /\ IF start = "loading"
       THEN /\ batch' = batch \ {s}
            /\ start' = IF loaded THEN "loading" ELSE "failed"
            /\ UNCHANGED events
       ELSE /\ batch' = batch \ {s}
            /\ events' = [events EXCEPT ![s] = "none"]
            /\ UNCHANGED start

\* The end of a load: at start the first failure ends LoadDirectory; the watcher
\* only logs it, and forgets the event either way.
EndLoad(s, loaded) ==
    /\ loader' = Idle
    /\ IF start = "loading"
       THEN /\ batch' = IF loaded THEN batch \ {s} ELSE {}
            /\ start' = IF loaded THEN "loading" ELSE "failed"
            /\ UNCHANGED events
       ELSE /\ batch' = batch \ {s}
            /\ events' = [events EXCEPT ![s] = "none"]
            /\ UNCHANGED start

\* Who calls LoadScript: LoadDirectory, or ReloadScript once it has deleted the entry.
Called(s) ==
    \/ start = "loading" /\ s \in batch /\ loader = Idle
    \/ loader = Deleted(s)

\* The lock is taken whoever is in the VM.
LoadScriptUnlocked(s) ==
    /\ Called(s)
    /\ \/ /\ files[s] \in Versions
          /\ loader' = FirstRead(s)
          /\ UNCHANGED <<start, events, batch>>
       \/ files[s] \notin Versions /\ EndLoad(s, FALSE)
    /\ UNCHANGED <<directory, queue, registry, luaChecks, running>>

\* The lock is taken; the first run must succeed and define check.
LoadScript(s) ==
    /\ Called(s)
    /\ NoReader
    /\ \/ /\ files[s] \in Versions
          /\ loader' = FirstRead(s)
          /\ UNCHANGED <<start, events, batch>>
       \/ files[s] \notin Versions /\ EndLoad(s, FALSE)
    /\ UNCHANGED <<directory, queue, registry, luaChecks, running>>

\* The second run defines the global check, which is registered.
Register(s) ==
    /\ loader = FirstRead(s)
    /\ files[s] \in Versions
    /\ globalCheck' = Function(s, files[s])
    /\ checkers' = [checkers EXCEPT ![s] = globalCheck']
    /\ EndLoad(s, TRUE)
    /\ UNCHANGED <<directory, queue, luaChecks, running>>

\* The file lost its check since the first run: what is found is the check of
\* whatever script was loaded last.
RegisterLeftover(s) ==
    /\ loader = FirstRead(s)
    /\ files[s] = "empty"
    /\ globalCheck # NoFunction
    /\ checkers' = [checkers EXCEPT ![s] = globalCheck]
    /\ EndLoad(s, TRUE)
    /\ UNCHANGED <<directory, queue, globalCheck, luaChecks, running>>

\* The file is gone or no longer runs; it may have defined check before it failed.
SecondRunFails(s) ==
    /\ loader = FirstRead(s)
    /\ \/ files[s] = "absent" /\ UNCHANGED globalCheck
       \/ files[s] = "empty" /\ globalCheck = NoFunction /\ UNCHANGED globalCheck
       \/ files[s] = "broken" /\ globalCheck' \in {globalCheck, Function(s, "broken")}
    /\ EndLoad(s, FALSE)
    /\ UNCHANGED <<directory, queue, checkers, luaChecks, running>>

----------------------------------------------------------------------------
(* WithLuaEngine, with dynamic reload, before any message is checked.      *)

LoadDirectory ==
    /\ start = "new"
    /\ start' = "loading"
    /\ batch' = {s \in Scripts : files[s] # "absent"}
    /\ UNCHANGED <<directory, watcher, loader, registry, luaChecks, running>>

Found(s) == checkers[s] # NoFunction

\* The enabled plugins up to the first one missing, or all when none is named.
Taken ==
    IF Enabled = <<>> THEN {s \in Scripts : Found(s)}
    ELSE {Enabled[i] : i \in {i \in DOMAIN Enabled : \A j \in 1 .. i : Found(Enabled[j])}}

\* A missing plugin is an error, which leaves those before it in place.
TakeChecks ==
    /\ start = "loading"
    /\ batch = {} /\ loader = Idle
    /\ luaChecks' = [s \in Scripts |-> IF s \in Taken THEN checkers[s] ELSE NoFunction]
    /\ start' = IF \A i \in DOMAIN Enabled : Found(Enabled[i]) THEN "taken" ELSE "failed"
    /\ UNCHANGED <<directory, watcher, batch, loader, registry, running>>

\* From here on changes are notified; fsnotify may refuse.
StartWatcher ==
    /\ start = "taken"
    /\ start' \in {"started", "failed"}
    /\ UNCHANGED <<directory, watcher, batch, loader, registry, luaChecks, running>>

----------------------------------------------------------------------------
(* watchLoop: the ticker's period is the debounce time.                    *)

\* One notification; a rename away is none of the operations handled.
HandleEvent ==
    /\ Waiting
    /\ queue # <<>>
    /\ queue' = Tail(queue)
    /\ events' = IF Head(queue).op \in {"create", "write", "remove"}
                 THEN [events EXCEPT ![Head(queue).name] = "fresh"] ELSE events
    /\ UNCHANGED <<directory, start, batch, loader, registry, luaChecks, running>>

\* The debounce time passes since the last notification of this script was handled.
Settle(s) ==
    /\ events[s] = "fresh"
    /\ events' = [events EXCEPT ![s] = "due"]
    /\ UNCHANGED <<directory, start, queue, batch, loader, registry, luaChecks, running>>

\* A tick that forgets the events it finds too young.
ProcessOnce ==
    /\ Waiting
    /\ \E s \in Scripts : events[s] = "due"
    /\ batch' = {s \in Scripts : events[s] = "due"}
    /\ events' = [s \in Scripts |-> IF events[s] = "due" THEN "due" ELSE "none"]
    /\ UNCHANGED <<directory, start, queue, loader, registry, luaChecks, running>>

\* A tick finds events old enough.
ProcessEvents ==
    /\ Waiting
    /\ \E s \in Scripts : events[s] = "due"
    /\ batch' = {s \in Scripts : events[s] = "due"}
    /\ UNCHANGED <<directory, start, watcher, loader, registry, luaChecks, running>>

\* The event of a script that is gone stays, for the next tick to find.
SkipRemoved(s) ==
    /\ start = "started" /\ s \in batch /\ loader = Idle
    /\ files[s] = "absent"
    /\ batch' = batch \ {s}
    /\ UNCHANGED <<directory, start, watcher, loader, registry, luaChecks, running>>

\* The old function stays registered until the new one replaces it.
ReloadInPlace(s) ==
    /\ start = "started" /\ s \in batch /\ loader = Idle
    /\ files[s] # "absent"
    /\ NoReader
    /\ loader' = Deleted(s)
    /\ UNCHANGED <<directory, start, watcher, batch, registry, luaChecks, running>>

\* ReloadScript deletes the entry under the lock, which it gives back.
ReloadScript(s) ==
    /\ start = "started" /\ s \in batch /\ loader = Idle
    /\ files[s] # "absent"
    /\ NoReader
    /\ checkers' = [checkers EXCEPT ![s] = NoFunction]
    /\ loader' = Deleted(s)
    /\ UNCHANGED <<directory, start, watcher, batch, globalCheck, luaChecks, running>>

----------------------------------------------------------------------------
(* Detector.Check, which runs the functions one after the other, each      *)
(* under the lock for reading.                                             *)

BeginCheck(g, s) ==
    /\ start \in {"started", "failed"}
    /\ luaChecks[s] # NoFunction
    /\ running[g] = "none"
    /\ NoWriter
    /\ running' = [running EXCEPT ![g] = s]
    /\ UNCHANGED <<directory, start, watcher, batch, loader, registry, luaChecks>>

EndCheck(g) ==
    /\ running[g] # "none"
    /\ running' = [running EXCEPT ![g] = "none"]
    /\ UNCHANGED <<directory, start, watcher, batch, loader, registry, luaChecks>>

----------------------------------------------------------------------------
(* The directory: fsnotify reports changes once it watches.  Before the    *)
(* directory is read, or when nobody reads it any more, changes make no    *)
(* difference and are left out.                                            *)

Change(s, content, op) ==
    /\ start \notin {"new", "failed"}
    /\ edits < MaxEdits
    /\ edits' = edits + 1
    /\ files' = [files EXCEPT ![s] = content]
    /\ queue' = IF start = "started" THEN Append(queue, [name |-> s, op |-> op]) ELSE queue
    /\ unnoticed' = IF start = "started" THEN unnoticed \ {s} ELSE unnoticed \union {s}
    /\ UNCHANGED <<start, events, batch, loader, registry, luaChecks, running>>

\* A write in place, which may leave the file empty for a moment.
Write(s) == files[s] # "absent" /\ \E c \in Contents \ {"absent"} : Change(s, c, "write")

\* A new file, or one renamed over the old.
Create(s) == \E c \in Contents \ {"absent"} : Change(s, c, "create")

Remove(s) == files[s] # "absent" /\ \E op \in {"remove", "rename"} : Change(s, "absent", op)

----------------------------------------------------------------------------
Init ==
    /\ files \in [Scripts -> Contents]
    /\ edits = 0
    /\ unnoticed = {}
    /\ start = "new"
    /\ queue = <<>>
    /\ events = [s \in Scripts |-> "none"]
    /\ batch = {}
    /\ loader = Idle
    /\ checkers = [s \in Scripts |-> NoFunction]
    /\ globalCheck = NoFunction
    /\ luaChecks = [s \in Scripts |-> NoFunction]
    /\ running = [g \in Checkers |-> "none"]

Load(s) == LoadScript(s) \/ Register(s) \/ RegisterLeftover(s) \/ SecondRunFails(s)

WithLuaEngine == LoadDirectory \/ TakeChecks \/ StartWatcher

WatchLoop ==
    \/ HandleEvent \/ ProcessEvents
    \/ \E s \in Scripts : SkipRemoved(s) \/ ReloadScript(s)

Check(g) == EndCheck(g) \/ \E s \in Scripts : BeginCheck(g, s)

Edit(s) == Write(s) \/ Create(s) \/ Remove(s)

Next ==
    \/ WithLuaEngine \/ WatchLoop
    \/ \E s \in Scripts : Load(s) \/ Settle(s) \/ Edit(s)
    \/ \E g \in Checkers : Check(g)

\* The watcher's goroutine, but for taking a notification.
Proceed == ProcessEvents \/ \E s \in Scripts : SkipRemoved(s) \/ ReloadScript(s) \/ Load(s)

\* That goroutine runs as long as the process; its select, and the lock it shares with
\* checks, pass nobody over for ever.  Scripts end.  Nobody has to edit.
Fairness ==
    /\ SF_vars(HandleEvent) /\ SF_vars(Proceed)
    /\ WF_vars(\E s \in Scripts : Settle(s))
    /\ WF_vars(\E g \in Checkers : EndCheck(g))

Spec == Init /\ [][Next]_vars /\ Fairness

----------------------------------------------------------------------------
(* Properties.                                                             *)

\* Every variable holds a value of its type.
TypeOK ==
    /\ files \in [Scripts -> Contents]
    /\ edits \in 0 .. MaxEdits
    /\ unnoticed \in SUBSET Scripts
    /\ start \in {"new", "loading", "taken", "started", "failed"}
    /\ queue \in Seq(Notifications)
    /\ events \in [Scripts -> {"none", "fresh", "due"}]
    /\ batch \in SUBSET Scripts /\ (batch # {} => start \in {"loading", "started"})
    /\ loader \in {Idle} \union [pc : {"deleted", "firstRead"}, script : Scripts]
    /\ checkers \in [Scripts -> Functions] /\ luaChecks \in [Scripts -> Functions]
    /\ globalCheck \in Functions
    /\ running \in [Checkers -> Scripts \union {"none"}]

\* Nothing is left for the watcher to do, but to look again for scripts removed.
Quiet ==
    /\ Waiting
    /\ queue = <<>>
    /\ \A s \in Scripts : events[s] = "none" \/ files[s] = "absent"

\* What the content of a script's file defines.
Defined(s) == IF files[s] \in Versions THEN Function(s, files[s]) ELSE NoFunction

\* Every script in the directory, if its last change was not made too early to be
\* notified, is registered with the function its file defines, and with none if none.
Current == \A s \in Scripts \ unnoticed : files[s] # "absent" => checkers[s] = Defined(s)

\* "process events that are older than the debounce time" must lose none: when the
\* watcher has nothing left to do the registry is that of the directory, although
\* LoadScript reads a file twice, files change between and during loads, scripts share
\* a global name, and a second notification may come while the first is acted upon.
QuietCurrent == Quiet => Current

\* "protect checkers map during concurrent access" (checker.go): no script is run in the
\* shared VM by a load while a check is in it.
LoadExclusive == loader.pc = "firstRead" => NoReader

\* "automatically reload plugins when they change" (README), as far as the registry goes:
\* if files change finitely often it is that of the directory in the end, though checks
\* hold the lock and the events of removed scripts come round at every tick.
Reloaded == start = "started" ~> []Current

\* "automatically reload plugins when they change" (README): when the watcher has nothing
\* left to do, the detector runs the function that a plugin's file defines.
ReloadTakesEffect ==
    Quiet => \A s \in Scripts \ unnoticed :
        files[s] \in Versions /\ luaChecks[s] # NoFunction => luaChecks[s] = Defined(s)

----------------------------------------------------------------------------
(* Why QuietCurrent holds: the inductive invariant.                        *)

\* A change that left a file is among the notifications not yet taken.
Notified(s) == \E i \in DOMAIN queue : queue[i].name = s /\ queue[i].op # "rename"

Registered(s) == checkers[s] = Defined(s)

\* Until the detector takes the checks, a script nobody touched is loaded or still to be.
StartInv ==
    /\ start = "loading" =>
          /\ loader.pc # "deleted"
          /\ loader.pc = "firstRead" /\ loader.script \notin unnoticed => files[loader.script] \in Versions
          /\ \A s \in Scripts \ unnoticed : files[s] # "absent" => s \in batch \/ Registered(s)
    /\ start = "taken" => Current

\* Then a script that is not registered as its file says has a notification or an event,
\* which goes only when the load it caused is over; a change between the two reads of that
\* load has left a notification of its own.
WatchInv ==
    start = "started" =>
        /\ \A s \in batch : events[s] # "none"
        /\ loader # Idle => checkers[loader.script] = NoFunction
        /\ loader.pc = "firstRead" =>
              files[loader.script] \in Versions \union {"absent"} \/ Notified(loader.script)
        /\ \A s \in Scripts \ unnoticed :
              files[s] # "absent" => Registered(s) \/ Notified(s) \/ events[s] # "none"

QuietInv ==
    /\ start \notin {"loading", "started"} => batch = {} /\ loader = Idle
    /\ loader # Idle => loader.script \in batch
    /\ StartInv
    /\ WatchInv
=============================================================================
