---------------------------- MODULE PluginsProofs ----------------------------
(***************************************************************************)
(* Proofs about Plugins, for any scripts, contents, enabled plugins, edits *)
(* and goroutines that check.                                              *)
(***************************************************************************)
EXTENDS Plugins, SequenceTheorems, TLAPS

USE DEF directory, watcher, registry

\* Every reachable state is well typed, however the files change.
THEOREM TypeCorrect == Spec => []TypeOK
<1> USE PluginsConstants
<1>1. Init => TypeOK
  BY DEF Init, TypeOK, Contents, Functions, NoFunction, Idle
<1>2. TypeOK /\ [Next]_vars => TypeOK'
  <2> SUFFICES ASSUME TypeOK, [Next]_vars PROVE TypeOK'
    OBVIOUS
  <2> USE DEF TypeOK, Contents, Functions, Function, NoFunction, Idle
  <2>1. CASE WithLuaEngine
    <3>1. CASE LoadDirectory
      BY <3>1 DEF LoadDirectory
    <3>2. CASE TakeChecks
      BY <3>2 DEF TakeChecks
    <3>3. CASE StartWatcher
      BY <3>3 DEF StartWatcher
    <3> QED
      BY <2>1, <3>1, <3>2, <3>3 DEF WithLuaEngine
  <2>2. CASE HandleEvent
    <3>1. Head(queue) \in Notifications /\ Tail(queue) \in Seq(Notifications)
      BY <2>2, HeadTailProperties DEF HandleEvent
    <3>2. Head(queue).name \in Scripts
      BY <3>1 DEF Notifications
    <3>3. events' \in [Scripts -> {"none", "fresh", "due"}]
      BY <2>2, <3>2 DEF HandleEvent
    <3> QED
      BY <2>2, <3>1, <3>3 DEF HandleEvent, Waiting
  <2>3. CASE ProcessEvents
    BY <2>3 DEF ProcessEvents, Waiting
  <2>4. ASSUME NEW s \in Scripts, SkipRemoved(s) \/ ReloadScript(s) PROVE TypeOK'
    BY <2>4 DEF SkipRemoved, ReloadScript, Deleted
  <2>5. ASSUME NEW s \in Scripts, Load(s) PROVE TypeOK'
    <3>1. CASE LoadScript(s)
      BY <3>1 DEF LoadScript, Called, EndLoad, FirstRead, Deleted
    <3>2. CASE Register(s)
      BY <3>2 DEF Register, EndLoad
    <3>3. CASE RegisterLeftover(s)
      BY <3>3 DEF RegisterLeftover, EndLoad
    <3>4. CASE SecondRunFails(s)
      BY <3>4 DEF SecondRunFails, EndLoad
    <3> QED
      BY <2>5, <3>1, <3>2, <3>3, <3>4 DEF Load
  <2>6. ASSUME NEW s \in Scripts, Settle(s) PROVE TypeOK'
    BY <2>6 DEF Settle
  <2>7. ASSUME NEW s \in Scripts, Edit(s) PROVE TypeOK'
    <3>1. PICK c \in Contents, op \in {"create", "write", "remove", "rename"} : Change(s, c, op)
      BY <2>7 DEF Edit, Write, Create, Remove
    <3>2. Append(queue, [name |-> s, op |-> op]) \in Seq(Notifications)
      BY AppendProperties DEF Notifications
    <3> QED
      BY <3>1, <3>2 DEF Change
  <2>8. ASSUME NEW g \in Checkers, Check(g) PROVE TypeOK'
    BY <2>8 DEF Check, BeginCheck, EndCheck
  <2>9. CASE UNCHANGED vars
    BY <2>9 DEF vars
  <2> QED
    BY <2>1, <2>2, <2>3, <2>4, <2>5, <2>6, <2>7, <2>8, <2>9 DEF Next, WatchLoop
<1> QED
  BY <1>1, <1>2, PTL DEF Spec

----------------------------------------------------------------------------
\* No load runs a script in the shared VM while a check is in it, because LoadScript waits
\* for the readers of the lock and holds it until the second run is over.
THEOREM Exclusive == Spec => []LoadExclusive
<1>1. Init => LoadExclusive
  BY DEF Init, LoadExclusive, Idle
<1>2. LoadExclusive /\ [Next]_vars => LoadExclusive'
  <2> SUFFICES ASSUME LoadExclusive, [Next]_vars PROVE LoadExclusive'
    OBVIOUS
  <2> USE DEF LoadExclusive, NoReader, Idle
  <2>1. CASE WithLuaEngine
    BY <2>1 DEF WithLuaEngine, LoadDirectory, TakeChecks, StartWatcher
  <2>2. CASE WatchLoop
    BY <2>2 DEF WatchLoop, HandleEvent, ProcessEvents, SkipRemoved, ReloadScript, Deleted
  <2>3. ASSUME NEW s \in Scripts, Load(s) PROVE LoadExclusive'
    BY <2>3 DEF Load, LoadScript, Register, RegisterLeftover, SecondRunFails, EndLoad
  <2>4. ASSUME NEW s \in Scripts, Settle(s) \/ Edit(s) PROVE LoadExclusive'
    BY <2>4 DEF Settle, Edit, Write, Create, Remove, Change
  <2>5. ASSUME NEW g \in Checkers, Check(g) PROVE LoadExclusive'
    BY <2>5 DEF Check, BeginCheck, EndCheck, NoWriter
  <2>6. CASE UNCHANGED vars
    BY <2>6 DEF vars
  <2> QED
    BY <2>1, <2>2, <2>3, <2>4, <2>5, <2>6 DEF Next
<1> QED
  BY <1>1, <1>2, PTL DEF Spec

----------------------------------------------------------------------------
(* No change is lost.  A notification stands for a script until it is      *)
(* taken, then an event until the load it causes is over.  During that     *)
(* load no notification is taken, so one that comes in between is still    *)
(* in the queue when the event is forgotten.                               *)

\* A notification sent does not displace those waiting.
LEMMA AppendNotified ==
  ASSUME TypeOK, NEW n \in Notifications, queue' = Append(queue, n)
  PROVE  /\ n.op # "rename" => Notified(n.name)'
         /\ \A s \in Scripts : Notified(s) => Notified(s)'
<1>1. queue \in Seq(Notifications) /\ queue' \in Seq(Notifications)
  BY AppendProperties DEF TypeOK
<1>2. /\ Len(queue') = Len(queue) + 1 /\ queue'[Len(queue) + 1] = n
      /\ \A i \in 1 .. Len(queue) : queue'[i] = queue[i]
  BY <1>1, AppendProperties
<1>3. DOMAIN queue = 1 .. Len(queue) /\ DOMAIN queue' = 1 .. Len(queue') /\ Len(queue) \in Nat
  BY <1>1
<1>4. DOMAIN queue \subseteq DOMAIN queue' /\ Len(queue) + 1 \in DOMAIN queue'
  BY <1>2, <1>3
<1> QED
  BY <1>2, <1>3, <1>4 DEF Notified

\* The only notification that is gone is the one taken.
LEMMA TailNotified ==
  ASSUME TypeOK, queue # <<>>, queue' = Tail(queue), NEW s \in Scripts, Notified(s)
  PROVE  Notified(s)' \/ (Head(queue).name = s /\ Head(queue).op # "rename")
<1>1. queue \in Seq(Notifications) /\ queue' \in Seq(Notifications)
  BY HeadTailProperties DEF TypeOK
<1>2. Len(queue') = Len(queue) - 1 /\ \A i \in 1 .. Len(queue') : queue'[i] = queue[i + 1]
  BY <1>1, HeadTailProperties
<1>3. DOMAIN queue = 1 .. Len(queue) /\ DOMAIN queue' = 1 .. Len(queue') /\ Len(queue) \in Nat
  BY <1>1
<1>4. PICK i \in 1 .. Len(queue) : queue[i].name = s /\ queue[i].op # "rename"
  BY <1>3 DEF Notified
<1>5. CASE i = 1
  BY <1>1, <1>4, <1>5
<1>6. CASE i # 1
  <2>1. i - 1 \in 1 .. Len(queue')
    BY <1>2, <1>3, <1>6
  <2>2. queue'[i - 1] = queue[i]
    BY <1>2, <2>1
  <2>3. PICK j \in DOMAIN queue' : queue'[j] = queue[i]
    BY <1>3, <2>1, <2>2
  <2> QED
    BY <1>4, <2>3 DEF Notified
<1> QED
  BY <1>5, <1>6

LEMMA QuietStep ==
  ASSUME TypeOK, QuietInv, [Next]_vars
  PROVE  QuietInv'
<1> USE DEF TypeOK, QuietInv, StartInv, WatchInv, Current, Registered, Defined, Idle
<1>1. CASE WithLuaEngine
  <2>1. CASE LoadDirectory
    BY <2>1 DEF LoadDirectory
  <2>2. CASE TakeChecks
    BY <2>2 DEF TakeChecks
  <2>3. CASE StartWatcher
    BY <2>3 DEF StartWatcher
  <2> QED
    BY <1>1, <2>1, <2>2, <2>3 DEF WithLuaEngine
<1>2. CASE HandleEvent
  <2>1. \A s \in Scripts : Notified(s) => Notified(s)' \/ events'[s] # "none"
    <3> SUFFICES ASSUME NEW s \in Scripts, Notified(s), ~Notified(s)' PROVE events'[s] # "none"
      OBVIOUS
    <3>1. Head(queue) \in Notifications
      BY <1>2, HeadTailProperties DEF HandleEvent
    <3>2. Head(queue).name = s /\ Head(queue).op # "rename"
      BY <1>2, TailNotified DEF HandleEvent
    <3> QED
      BY <1>2, <3>1, <3>2 DEF HandleEvent, Notifications
  <2>2. \A s \in Scripts : events[s] # "none" => events'[s] # "none"
    BY <1>2 DEF HandleEvent
  <2> QED
    BY <1>2, <2>1, <2>2 DEF HandleEvent, Waiting
<1>3. CASE ProcessEvents
  BY <1>3 DEF ProcessEvents, Waiting, Notified
<1>4. ASSUME NEW s \in Scripts, SkipRemoved(s) PROVE QuietInv'
  BY <1>4 DEF SkipRemoved, Notified
<1>5. ASSUME NEW s \in Scripts, ReloadScript(s) PROVE QuietInv'
  BY <1>5 DEF ReloadScript, Deleted, Notified
<1>6. ASSUME NEW s \in Scripts, LoadScript(s) PROVE QuietInv'
  BY <1>6 DEF LoadScript, Called, EndLoad, FirstRead, Deleted, Notified
<1>7. ASSUME NEW s \in Scripts, Register(s) PROVE QuietInv'
  BY <1>7 DEF Register, EndLoad, FirstRead, Notified
<1>8. ASSUME NEW s \in Scripts, RegisterLeftover(s) PROVE QuietInv'
  BY <1>8, PluginsConstants DEF RegisterLeftover, EndLoad, FirstRead, Notified
<1>9. ASSUME NEW s \in Scripts, SecondRunFails(s) PROVE QuietInv'
  BY <1>9, PluginsConstants DEF SecondRunFails, EndLoad, FirstRead, Notified
<1>10. ASSUME NEW s \in Scripts, Settle(s) PROVE QuietInv'
  BY <1>10 DEF Settle, Notified
<1>11. ASSUME NEW s \in Scripts, Edit(s) PROVE QuietInv'
  <2>1. PICK c \in Contents, op \in {"create", "write", "remove", "rename"} :
           Change(s, c, op) /\ (op \in {"remove", "rename"} => c = "absent")
    BY <1>11 DEF Edit, Write, Create, Remove, Contents
  <2>2. CASE start = "started"
    <3> DEFINE n == [name |-> s, op |-> op]
    <3>1. n \in Notifications /\ queue' = Append(queue, n)
      BY <2>1, <2>2 DEF Change, Notifications
    <3>2. \A t \in Scripts : Notified(t) => Notified(t)'
      BY <3>1, AppendNotified
    <3>3. c # "absent" => Notified(s)'
      BY <2>1, <3>1, AppendNotified
    <3> QED
      BY <2>1, <2>2, <3>2, <3>3 DEF Change
  <2>3. CASE start # "started"
    BY <2>1, <2>3 DEF Change
  <2> QED
    BY <2>2, <2>3
<1>12. ASSUME NEW g \in Checkers, Check(g) PROVE QuietInv'
  BY <1>12 DEF Check, BeginCheck, EndCheck, Notified
<1>13. CASE UNCHANGED vars
  BY <1>13 DEF vars, Notified
<1> QED
  BY <1>1, <1>2, <1>3, <1>4, <1>5, <1>6, <1>7, <1>8, <1>9, <1>10, <1>11, <1>12, <1>13
  DEF Next, WatchLoop, Load

\* When the watcher has nothing left to do the registry is that of the directory, for any
\* number of scripts, edits and checking goroutines.
THEOREM NothingLost == Spec => []QuietCurrent
<1>1. Init => QuietInv
  BY DEF Init, QuietInv, StartInv, WatchInv
<1>2. TypeOK /\ QuietInv /\ [Next]_vars => QuietInv'
  BY QuietStep
<1>3. TypeOK /\ QuietInv => QuietCurrent
  <2> SUFFICES ASSUME TypeOK, QuietInv, Quiet, NEW s \in Scripts \ unnoticed, files[s] # "absent"
               PROVE  checkers[s] = Defined(s)
    BY DEF QuietCurrent, Current
  <2>1. ~Notified(s)
    BY DEF Quiet, Notified
  <2> QED
    BY <2>1 DEF Quiet, Waiting, QuietInv, WatchInv, Registered
<1> QED
  BY <1>1, <1>2, <1>3, TypeCorrect, PTL DEF Spec
=============================================================================
