------------------------------ MODULE Approval ------------------------------
(***************************************************************************)
(* The approved users of the spam detector: the in-memory map              *)
(* Detector.approvedUsers, guarded by Detector.lock, and the table         *)
(* approved_users that keeps a row per user over restarts.                 *)
(*                                                                         *)
(* Check counts the clean messages of a user and stops analysing content   *)
(* once the count reaches FirstMessagesCount.  AddApprovedUser and         *)
(* RemoveApprovedUser are called by the admin chat, by user reports and    *)
(* by the web API.  The Telegram listener is one goroutine; every web      *)
(* request is another, and all of them share one Detector.                 *)
(*                                                                         *)
(* Each call is split where another goroutine can observe it: at the       *)
(* acquisition of the lock, at the accesses of the map made under the READ *)
(* lock (other readers run at the same time) and at the storage call.      *)
(***************************************************************************)
EXTENDS Integers

CONSTANTS
    Users,               \* user ids, as the detector sees them
    Actors,              \* goroutines that call the detector
    Approvers,           \* the actors whose Check may leave CheckOnly unset
    FirstMessagesCount,  \* Config.FirstMessagesCount after NewDetector; 0 is paranoid mode
    MaxClean             \* bound: no clean message is admitted for a user who has this many

ASSUME ApprovalConstants ==
    /\ Approvers \subseteq Actors
    /\ FirstMessagesCount \in Nat
    /\ MaxClean \in Nat

VARIABLES
    approvedUsers,  \* approvedUsers[u]: Count of u in the map, 0 when u has no entry
    approvedRows,   \* users with a row in table approved_users
    pc,             \* pc[a]: where actor a is inside its call
    user,           \* user[a]: the user that call is about
    count,          \* count[a]: Count as read by Check, before it is written back
    clean,          \* history: clean messages of u counted since its last removal or restart
    granted,        \* history: AddApprovedUser was called for u since then
    restored,       \* history: u was loaded from its row at the last start
    deleteFailed    \* history: a Delete of u's row reported an error and left the row

held == <<pc, user, count>>
history == <<clean, granted, restored, deleteFailed>>
vars == <<approvedUsers, approvedRows, held, history>>

----------------------------------------------------------------------------
(* Detector.lock: who holds it follows from where the actors are.          *)

\* Check returns with the read lock released, by defer.
CheckSteps == {"entered", "analysing", "counting", "assigning", "persisting"}

\* AddApprovedUser holds the write lock over the storage call.
WriteSteps == {"adding"}

\* RemoveApprovedUser releases the lock before the storage call.
Steps == {"idle", "removing"} \union CheckSteps \union WriteSteps

NoWriter == \A a \in Actors : pc[a] \notin WriteSteps
NoReader == \A a \in Actors : pc[a] \notin CheckSteps

----------------------------------------------------------------------------
(* Reading the map.                                                        *)

\* NewDetector turns FirstMessageOnly on exactly when there is a count.
FirstMessageOnly == FirstMessagesCount > 0

\* Check skips the content checks of this user.
PreApproved(u) == FirstMessageOnly /\ approvedUsers[u] >= FirstMessagesCount

\* The answer of IsApprovedUser, on which user reports rely.
IsApprovedUser(u) == approvedUsers[u] > 0 /\ approvedUsers[u] > FirstMessagesCount

----------------------------------------------------------------------------
(* Check.                                                                  *)

Become(a, step) == pc' = [pc EXCEPT ![a] = step]

\* The read lock is taken; the duplicate check may follow, the map is next.
CheckEnter(a, u) ==
    /\ pc[a] = "idle"
    /\ NoWriter
    /\ Become(a, "entered")
    /\ user' = [user EXCEPT ![a] = u]
    /\ UNCHANGED <<approvedUsers, approvedRows, count, history>>

\* A pre-approved user without a duplicate hit leaves here with no change.
CheckPreApproved(a) ==
    /\ pc[a] = "entered"
    /\ PreApproved(user[a])
    /\ Become(a, "idle")
    /\ UNCHANGED <<approvedUsers, approvedRows, user, count, history>>

\* Everybody else is analysed; so is a pre-approved user the duplicate check flagged.
CheckAnalyse(a) ==
    /\ pc[a] = "entered"
    /\ Become(a, "analysing")
    /\ UNCHANGED <<approvedUsers, approvedRows, user, count, history>>

\* Spam, a short message, paranoid mode or CheckOnly: nothing is counted.
CheckNotCounted(a) ==
    /\ pc[a] = "analysing"
    /\ Become(a, "idle")
    /\ UNCHANGED <<approvedUsers, approvedRows, user, count, history>>

\* A clean message that counts: from here on Check updates the user's entry.
CheckClean(a) ==
    /\ a \in Approvers
    /\ pc[a] = "analysing"
    /\ FirstMessageOnly
    /\ clean[user[a]] < MaxClean
    /\ Become(a, "counting")
    /\ UNCHANGED <<approvedUsers, approvedRows, user, count, history>>

\* The count before this message is taken to be none.
CheckReadNothing(a) ==
    /\ pc[a] = "counting"
    /\ Become(a, "assigning")
    /\ UNCHANGED <<approvedUsers, approvedRows, user, count, history>>

\* d.approvedUsers[req.UserID].Count is read ...
CheckReadCount(a) ==
    /\ pc[a] = "counting"
    /\ Become(a, "assigning")
    /\ count' = [count EXCEPT ![a] = approvedUsers[user[a]]]
    /\ UNCHANGED <<approvedUsers, approvedRows, user, history>>

\* ... and the entry written back with one more, still under the read lock.
CheckAssign(a) ==
    /\ pc[a] = "assigning"
    /\ Become(a, "persisting")
    /\ approvedUsers' = [approvedUsers EXCEPT ![user[a]] = count[a] + 1]
    /\ count' = [count EXCEPT ![a] = 0]
    /\ clean' = [clean EXCEPT ![user[a]] = @ + 1]
    /\ UNCHANGED <<approvedRows, user, granted, restored, deleteFailed>>

\* userStorage.Write: its error is ignored, the count in memory stays.
CheckPersist(a) ==
    /\ pc[a] = "persisting"
    /\ Become(a, "idle")
    /\ approvedRows' \in {approvedRows, approvedRows \union {user[a]}}
    /\ UNCHANGED <<approvedUsers, user, count, history>>

----------------------------------------------------------------------------
(* AddApprovedUser and RemoveApprovedUser.                                 *)

\* The write lock is taken and the entry made, one above the threshold.
AddInMemory(a, u) ==
    /\ pc[a] = "idle"
    /\ NoWriter /\ NoReader
    /\ Become(a, "adding")
    /\ user' = [user EXCEPT ![a] = u]
    /\ approvedUsers' = [approvedUsers EXCEPT ![u] = FirstMessagesCount + 1]
    /\ granted' = [granted EXCEPT ![u] = TRUE]
    /\ UNCHANGED <<approvedRows, count, clean, restored, deleteFailed>>

\* The row is written, or the error goes to the caller and the entry stays.
AddInStorage(a) ==
    /\ pc[a] = "adding"
    /\ Become(a, "idle")
    /\ approvedRows' \in {approvedRows, approvedRows \union {user[a]}}
    /\ UNCHANGED <<approvedUsers, user, count, history>>

\* A removal that takes one from the count instead of the entry from the map.
RemoveInMemoryDemote(a, u) ==
    /\ NoWriter /\ NoReader
    /\ pc[a] = "idle"
    /\ Become(a, "removing")
    /\ user' = [user EXCEPT ![a] = u]
    /\ approvedUsers' = [approvedUsers EXCEPT ![u] = @ - 1]
    /\ UNCHANGED <<approvedRows, count, history>>

\* The same removal with the lock forgotten: readers are not waited for.
RemoveInMemoryUnlocked(a, u) ==
    /\ pc[a] = "idle"
    /\ Become(a, "removing")
    /\ user' = [user EXCEPT ![a] = u]
    /\ approvedUsers' = [approvedUsers EXCEPT ![u] = 0]
    /\ clean' = [clean EXCEPT ![u] = 0]
    /\ granted' = [granted EXCEPT ![u] = FALSE]
    /\ restored' = [restored EXCEPT ![u] = FALSE]
    /\ UNCHANGED <<approvedRows, count, deleteFailed>>

\* Lock, delete from the map, unlock: one step, since nothing is done in between.
RemoveInMemory(a, u) ==
    /\ NoWriter /\ NoReader
    /\ pc[a] = "idle"
    /\ Become(a, "removing")
    /\ user' = [user EXCEPT ![a] = u]
    /\ approvedUsers' = [approvedUsers EXCEPT ![u] = 0]
    /\ clean' = [clean EXCEPT ![u] = 0]
    /\ granted' = [granted EXCEPT ![u] = FALSE]
    /\ restored' = [restored EXCEPT ![u] = FALSE]
    /\ UNCHANGED <<approvedRows, count, deleteFailed>>

\* userStorage.Delete, with no lock of the detector: an absent row is an error too.
RemoveInStorage(a) ==
    /\ pc[a] = "removing"
    /\ Become(a, "idle")
    /\ \/ /\ approvedRows' = approvedRows \ {user[a]}
          /\ deleteFailed' = [deleteFailed EXCEPT ![user[a]] = FALSE]
       \/ /\ user[a] \in approvedRows
          /\ approvedRows' = approvedRows
          /\ deleteFailed' = [deleteFailed EXCEPT ![user[a]] = TRUE]
    /\ UNCHANGED <<approvedUsers, user, count, clean, granted, restored>>

----------------------------------------------------------------------------
(* WithUserStorage at start, before the listener and the web server run.   *)
(* The process may die at any point: calls in flight are gone.             *)

Restart ==
    /\ approvedUsers' = [u \in Users |-> IF u \in approvedRows THEN FirstMessagesCount + 1 ELSE 0]
    /\ pc' = [a \in Actors |-> "idle"]
    /\ clean' = [u \in Users |-> 0]
    /\ granted' = [u \in Users |-> FALSE]
    /\ restored' = [u \in Users |-> u \in approvedRows]
    /\ count' = [a \in Actors |-> 0]
    /\ UNCHANGED <<approvedRows, user, deleteFailed>>

----------------------------------------------------------------------------
Init ==
    /\ approvedUsers = [u \in Users |-> 0]
    /\ approvedRows = {}
    /\ pc = [a \in Actors |-> "idle"]
    /\ user \in [Actors -> Users]
    /\ count = [a \in Actors |-> 0]
    /\ clean = [u \in Users |-> 0]
    /\ granted = [u \in Users |-> FALSE]
    /\ restored = [u \in Users |-> FALSE]
    /\ deleteFailed = [u \in Users |-> FALSE]

Check(a) ==
    \/ \E u \in Users : CheckEnter(a, u)
    \/ CheckPreApproved(a) \/ CheckAnalyse(a) \/ CheckNotCounted(a)
    \/ CheckClean(a) \/ CheckReadCount(a) \/ CheckAssign(a) \/ CheckPersist(a)

AddApprovedUser(a) == AddInStorage(a) \/ \E u \in Users : AddInMemory(a, u)

RemoveApprovedUser(a) == RemoveInStorage(a) \/ \E u \in Users : RemoveInMemory(a, u)

Next ==
    \/ \E a \in Actors : Check(a) \/ AddApprovedUser(a) \/ RemoveApprovedUser(a)
    \/ Restart

Spec == Init /\ [][Next]_vars

----------------------------------------------------------------------------
(* Properties.                                                             *)

\* Every variable holds a value of its type.
TypeOK ==
    /\ approvedUsers \in [Users -> Nat]
    /\ approvedRows \in SUBSET Users
    /\ pc \in [Actors -> Steps]
    /\ user \in [Actors -> Users]
    /\ count \in [Actors -> Nat]
    /\ clean \in [Users -> Nat]
    /\ granted \in [Users -> BOOLEAN]
    /\ restored \in [Users -> BOOLEAN]
    /\ deleteFailed \in [Users -> BOOLEAN]

Removing(u) == \E a \in Actors : pc[a] = "removing" /\ user[a] = u

\* A row survives its user's removal from memory only while the deletion is still
\* to come, or when the deletion told its caller that it failed.  No interleaving of
\* RemoveApprovedUser (whose storage call runs without the lock) with Check or
\* AddApprovedUser leaves behind a row that would approve a removed user at the
\* next start.
NoResurrection ==
    \A u \in Users :
        u \in approvedRows /\ approvedUsers[u] = 0 => Removing(u) \/ deleteFailed[u]

\* Content checks are skipped only for a user who sent FirstMessagesCount clean
\* messages since the last removal, was added by hand, or had a row at the last
\* start, even though Check updates the count under the read lock only.
EarnedTrust ==
    \A u \in Users :
        PreApproved(u) =>
            granted[u] \/ restored[u] \/ clean[u] >= FirstMessagesCount

\* The inductive form of NoResurrection: a call about to write a row has its
\* user in memory, where no removal can take it while the lock is held.
DurableInv ==
    /\ NoResurrection
    /\ \A a \in Actors : pc[a] \in {"persisting", "adding"} => approvedUsers[user[a]] > 0
    /\ \A a, b \in Actors : a # b /\ pc[a] = "adding" => pc[b] \notin CheckSteps \union WriteSteps

\* The inductive form of EarnedTrust: neither the map nor a count read from it
\* is ahead of the clean messages seen.
TrustInv ==
    /\ \A u \in Users : granted[u] \/ restored[u] \/ approvedUsers[u] <= clean[u]
    /\ \A a \in Actors :
        pc[a] = "assigning" =>
            granted[user[a]] \/ restored[user[a]] \/ count[a] <= clean[user[a]]

\* What the mapping to the registry rests on: with one approver, the count read is
\* still the count in the map when it is written back.
CountFresh ==
    \A a \in Actors :
        /\ pc[a] \in {"counting", "assigning", "persisting"} => a \in Approvers
        /\ pc[a] = "assigning" => count[a] = approvedUsers[user[a]]

Trusted == {u \in Users : approvedUsers[u] > 0 /\ approvedUsers[u] >= FirstMessagesCount}

Known == {u \in Users : approvedUsers[u] > 0}

Doomed == {u \in Users : Removing(u) \/ deleteFailed[u]}

\* Where only one goroutine counts clean messages (the listener: the web API keeps
\* CheckOnly set unless the request clears it), a user Check would skip stays so
\* until a removal of that user or a restart.
TrustKept ==
    [][\A u \in Trusted \ Trusted' :
          \/ \E a \in Actors : pc[a] = "idle" /\ pc'[a] = "removing" /\ user'[a] = u
          \/ u \notin approvedRows /\ \A a \in Actors : pc'[a] = "idle"]_vars

\* "Users are automatically approved after successfully sending a few non-spam
\* messages" and only approved users may report (README): whoever has sent that
\* many clean messages and is no longer checked is approved for IsApprovedUser.
CleanUsersMayReport ==
    \A u \in Users :
        PreApproved(u) /\ clean[u] >= FirstMessagesCount => IsApprovedUser(u)

----------------------------------------------------------------------------
(* The registry this module implements.                                    *)

Registry ==
    INSTANCE ApprovalRegistry WITH
        known   <- Known,
        trusted <- Trusted,
        rows    <- approvedRows,
        doomed  <- Doomed

\* Every behaviour of the detector and its storage, seen through the mapping
\* above, is one of the registry: trust comes from clean messages, grants or a row
\* at start, and leaves by a removal or a restart only.
RegistrySpec == Registry!RegSpec
=============================================================================
