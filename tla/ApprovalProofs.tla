--------------------------- MODULE ApprovalProofs ---------------------------
(***************************************************************************)
(* Proofs about Approval, for any users, goroutines and thresholds.        *)
(***************************************************************************)
EXTENDS Approval, TLAPS

USE DEF held, history

\* Every reachable state is well typed, whatever the storage calls return.
THEOREM TypeCorrect == Spec => []TypeOK
<1> USE ApprovalConstants
<1>1. Init => TypeOK
  BY DEF Init, TypeOK, Steps
<1>2. TypeOK /\ [Next]_vars => TypeOK'
  <2> SUFFICES ASSUME TypeOK, [Next]_vars PROVE TypeOK'
    OBVIOUS
  <2> USE DEF TypeOK, Steps, CheckSteps, WriteSteps, Become
  <2>1. ASSUME NEW a \in Actors, Check(a) PROVE TypeOK'
    <3>1. ASSUME NEW u \in Users, CheckEnter(a, u) PROVE TypeOK'
      BY <3>1 DEF CheckEnter
    <3>2. CASE CheckPreApproved(a) \/ CheckAnalyse(a) \/ CheckNotCounted(a) \/ CheckClean(a)
      BY <3>2 DEF CheckPreApproved, CheckAnalyse, CheckNotCounted, CheckClean
    <3>3. CASE CheckReadCount(a)
      BY <3>3 DEF CheckReadCount
    <3>4. CASE CheckAssign(a)
      BY <3>4 DEF CheckAssign
    <3>5. CASE CheckPersist(a)
      BY <3>5 DEF CheckPersist
    <3> QED
      BY <2>1, <3>1, <3>2, <3>3, <3>4, <3>5 DEF Check
  <2>2. ASSUME NEW a \in Actors, AddApprovedUser(a) PROVE TypeOK'
    <3>1. ASSUME NEW u \in Users, AddInMemory(a, u) PROVE TypeOK'
      BY <3>1 DEF AddInMemory
    <3>2. CASE AddInStorage(a)
      BY <3>2 DEF AddInStorage
    <3> QED
      BY <2>2, <3>1, <3>2 DEF AddApprovedUser
  <2>3. ASSUME NEW a \in Actors, RemoveApprovedUser(a) PROVE TypeOK'
    <3>1. ASSUME NEW u \in Users, RemoveInMemory(a, u) PROVE TypeOK'
      BY <3>1 DEF RemoveInMemory
    <3>2. CASE RemoveInStorage(a)
      BY <3>2 DEF RemoveInStorage
    <3> QED
      BY <2>3, <3>1, <3>2 DEF RemoveApprovedUser
  <2>4. CASE Restart
    BY <2>4 DEF Restart
  <2>5. CASE UNCHANGED vars
    BY <2>5 DEF vars
  <2> QED
    BY <2>1, <2>2, <2>3, <2>4, <2>5 DEF Next
<1> QED
  BY <1>1, <1>2, PTL DEF Spec

----------------------------------------------------------------------------
(* RemoveApprovedUser deletes the row without the lock.  DurableInv says   *)
(* why this is harmless: the removal from memory waits for every Check     *)
(* and AddApprovedUser under way, so a row written later belongs to a user *)
(* who is in memory again.                                                 *)

LEMMA DurableStep ==
  ASSUME TypeOK, DurableInv, [Next]_vars
  PROVE  DurableInv'
<1> USE ApprovalConstants DEF TypeOK, DurableInv, NoResurrection, Removing, Steps,
                              CheckSteps, WriteSteps, Become, NoReader, NoWriter
<1>1. ASSUME NEW a \in Actors, Check(a) PROVE DurableInv'
  <2>1. ASSUME NEW u \in Users, CheckEnter(a, u) PROVE DurableInv'
    BY <2>1 DEF CheckEnter
  <2>2. CASE CheckPreApproved(a) \/ CheckAnalyse(a) \/ CheckNotCounted(a) \/ CheckClean(a)
    BY <2>2 DEF CheckPreApproved, CheckAnalyse, CheckNotCounted, CheckClean
  <2>3. CASE CheckReadCount(a)
    BY <2>3 DEF CheckReadCount
  <2>4. CASE CheckAssign(a)
    BY <2>4 DEF CheckAssign
  <2>5. CASE CheckPersist(a)
    BY <2>5 DEF CheckPersist
  <2> QED
    BY <1>1, <2>1, <2>2, <2>3, <2>4, <2>5 DEF Check
<1>2. ASSUME NEW a \in Actors, AddApprovedUser(a) PROVE DurableInv'
  <2>1. ASSUME NEW u \in Users, AddInMemory(a, u) PROVE DurableInv'
    BY <2>1 DEF AddInMemory
  <2>2. CASE AddInStorage(a)
    BY <2>2 DEF AddInStorage
  <2> QED
    BY <1>2, <2>1, <2>2 DEF AddApprovedUser
<1>3. ASSUME NEW a \in Actors, RemoveApprovedUser(a) PROVE DurableInv'
  <2>1. ASSUME NEW u \in Users, RemoveInMemory(a, u) PROVE DurableInv'
    BY <2>1 DEF RemoveInMemory
  <2>2. CASE RemoveInStorage(a)
    BY <2>2 DEF RemoveInStorage
  <2> QED
    BY <1>3, <2>1, <2>2 DEF RemoveApprovedUser
<1>4. CASE Restart
  BY <1>4 DEF Restart
<1>5. CASE UNCHANGED vars
  BY <1>5 DEF vars
<1> QED
  BY <1>1, <1>2, <1>3, <1>4, <1>5 DEF Next

\* A row outlives its user's removal from memory only while the deletion is pending
\* or known to have failed.
THEOREM Durable == Spec => []NoResurrection
<1>1. Init => DurableInv
  BY DEF Init, DurableInv, NoResurrection, CheckSteps, WriteSteps
<1>2. TypeOK /\ DurableInv /\ [Next]_vars => DurableInv'
  BY DurableStep
<1>3. DurableInv => NoResurrection
  BY DEF DurableInv
<1> QED
  BY <1>1, <1>2, <1>3, TypeCorrect, PTL DEF Spec

----------------------------------------------------------------------------
(* Trust is earned: a count read under the read lock is never ahead of the *)
(* clean messages, because a removal, which resets both, cannot run while  *)
(* a Check holds it.                                                       *)

LEMMA TrustStep ==
  ASSUME TypeOK, TrustInv, [Next]_vars
  PROVE  TrustInv'
<1> USE ApprovalConstants DEF TypeOK, TrustInv, Steps, CheckSteps, WriteSteps, Become,
                              NoReader, NoWriter
<1>1. ASSUME NEW a \in Actors, Check(a) PROVE TrustInv'
  <2>1. ASSUME NEW u \in Users, CheckEnter(a, u) PROVE TrustInv'
    BY <2>1 DEF CheckEnter
  <2>2. CASE CheckPreApproved(a) \/ CheckAnalyse(a) \/ CheckNotCounted(a) \/ CheckClean(a)
    BY <2>2 DEF CheckPreApproved, CheckAnalyse, CheckNotCounted, CheckClean
  <2>3. CASE CheckReadCount(a)
    BY <2>3 DEF CheckReadCount
  <2>4. CASE CheckAssign(a)
    BY <2>4 DEF CheckAssign
  <2>5. CASE CheckPersist(a)
    BY <2>5 DEF CheckPersist
  <2> QED
    BY <1>1, <2>1, <2>2, <2>3, <2>4, <2>5 DEF Check
<1>2. ASSUME NEW a \in Actors, AddApprovedUser(a) PROVE TrustInv'
  <2>1. ASSUME NEW u \in Users, AddInMemory(a, u) PROVE TrustInv'
    BY <2>1 DEF AddInMemory
  <2>2. CASE AddInStorage(a)
    BY <2>2 DEF AddInStorage
  <2> QED
    BY <1>2, <2>1, <2>2 DEF AddApprovedUser
<1>3. ASSUME NEW a \in Actors, RemoveApprovedUser(a) PROVE TrustInv'
  <2>1. ASSUME NEW u \in Users, RemoveInMemory(a, u) PROVE TrustInv'
    BY <2>1 DEF RemoveInMemory
  <2>2. CASE RemoveInStorage(a)
    BY <2>2 DEF RemoveInStorage
  <2> QED
    BY <1>3, <2>1, <2>2 DEF RemoveApprovedUser
<1>4. CASE Restart
  <2>1. ASSUME NEW u \in Users
        PROVE  granted'[u] \/ restored'[u] \/ approvedUsers'[u] <= clean'[u]
    <3>1. CASE u \in approvedRows
      <4>1. restored'[u] = (u \in approvedRows)
        BY <1>4 DEF Restart
      <4> QED
        BY <3>1, <4>1
    <3>2. CASE u \notin approvedRows
      BY <1>4, <3>2 DEF Restart
    <3> QED
      BY <3>1, <3>2
  <2>2. \A a \in Actors : pc'[a] # "assigning"
    BY <1>4 DEF Restart
  <2> QED
    BY <2>1, <2>2
<1>5. CASE UNCHANGED vars
  BY <1>5 DEF vars
<1> QED
  BY <1>1, <1>2, <1>3, <1>4, <1>5 DEF Next

\* Whoever is skipped by the content checks has FirstMessagesCount clean messages, a
\* grant or a row at the last start behind it.
THEOREM Earned == Spec => []EarnedTrust
<1> USE ApprovalConstants
<1>1. Init => TrustInv
  BY DEF Init, TrustInv
<1>2. TypeOK /\ TrustInv /\ [Next]_vars => TrustInv'
  BY TrustStep
<1>3. TypeOK /\ TrustInv => EarnedTrust
  BY DEF TypeOK, TrustInv, EarnedTrust, PreApproved
<1> QED
  BY <1>1, <1>2, <1>3, TypeCorrect, PTL DEF Spec

----------------------------------------------------------------------------
(* Refinement.  With a single approver no count is lost, and every step of *)
(* the goroutines is a step of the registry or leaves it unchanged.        *)

SingleApprover == \A a, b \in Approvers : a = b

LEMMA CountFreshStep ==
  ASSUME SingleApprover, TypeOK, DurableInv, CountFresh, [Next]_vars
  PROVE  CountFresh'
<1> USE ApprovalConstants DEF SingleApprover, TypeOK, DurableInv, CountFresh, Steps, CheckSteps,
                              WriteSteps, Become, NoReader, NoWriter
<1>1. ASSUME NEW a \in Actors, Check(a) PROVE CountFresh'
  <2>1. ASSUME NEW u \in Users, CheckEnter(a, u) PROVE CountFresh'
    BY <2>1 DEF CheckEnter
  <2>2. CASE CheckPreApproved(a) \/ CheckAnalyse(a) \/ CheckNotCounted(a) \/ CheckClean(a)
    BY <2>2 DEF CheckPreApproved, CheckAnalyse, CheckNotCounted, CheckClean
  <2>3. CASE CheckReadCount(a)
    BY <2>3 DEF CheckReadCount
  <2>4. CASE CheckAssign(a)
    BY <2>4 DEF CheckAssign
  <2>5. CASE CheckPersist(a)
    BY <2>5 DEF CheckPersist
  <2> QED
    BY <1>1, <2>1, <2>2, <2>3, <2>4, <2>5 DEF Check
<1>2. ASSUME NEW a \in Actors, AddApprovedUser(a) PROVE CountFresh'
  <2>1. ASSUME NEW u \in Users, AddInMemory(a, u) PROVE CountFresh'
    BY <2>1 DEF AddInMemory
  <2>2. CASE AddInStorage(a)
    BY <2>2 DEF AddInStorage
  <2> QED
    BY <1>2, <2>1, <2>2 DEF AddApprovedUser
<1>3. ASSUME NEW a \in Actors, RemoveApprovedUser(a) PROVE CountFresh'
  <2>1. ASSUME NEW u \in Users, RemoveInMemory(a, u) PROVE CountFresh'
    BY <2>1 DEF RemoveInMemory
  <2>2. CASE RemoveInStorage(a)
    BY <2>2 DEF RemoveInStorage
  <2> QED
    BY <1>3, <2>1, <2>2 DEF RemoveApprovedUser
<1>4. CASE Restart
  BY <1>4 DEF Restart
<1>5. CASE UNCHANGED vars
  BY <1>5 DEF vars
<1> QED
  BY <1>1, <1>2, <1>3, <1>4, <1>5 DEF Next

\* A step that changes neither the map, the table nor the removals under way
\* is a stutter of the registry.
LEMMA RegistryStutter ==
  ASSUME approvedUsers' = approvedUsers, approvedRows' = approvedRows,
         deleteFailed' = deleteFailed, \A u \in Users : Removing(u)' <=> Removing(u)
  PROVE  UNCHANGED <<Known, Trusted, approvedRows, Doomed>>
BY DEF Known, Trusted, Doomed

LEMMA RegistryStep ==
  ASSUME TypeOK, DurableInv, CountFresh, [Next]_vars
  PROVE  [Registry!RegNext]_<<Known, Trusted, approvedRows, Doomed>>
<1> USE ApprovalConstants DEF TypeOK, Steps, CheckSteps, WriteSteps, Become
<1> DEFINE Stutter == UNCHANGED <<Known, Trusted, approvedRows, Doomed>>
<1>1. ASSUME NEW a \in Actors, Check(a) PROVE Stutter \/ Registry!RegNext
  <2>1. ASSUME NEW u \in Users, CheckEnter(a, u) PROVE Stutter
    BY <2>1, RegistryStutter DEF CheckEnter, Removing
  <2>2. CASE CheckPreApproved(a) \/ CheckAnalyse(a) \/ CheckNotCounted(a) \/ CheckClean(a)
    BY <2>2, RegistryStutter DEF CheckPreApproved, CheckAnalyse, CheckNotCounted, CheckClean, Removing
  <2>3. CASE CheckReadCount(a)
    BY <2>3, RegistryStutter DEF CheckReadCount, Removing
  <2>4. CASE CheckAssign(a)
    <3>1. approvedUsers' = [approvedUsers EXCEPT ![user[a]] = @ + 1]
      BY <2>4 DEF CheckAssign, CountFresh
    <3>2. Known' = Known \union {user[a]}
      BY <3>1 DEF Known
    <3>3. Trusted' \in {Trusted, Trusted \union {user[a]}}
      BY <3>1 DEF Trusted
    <3>4. UNCHANGED <<approvedRows, Doomed>>
      BY <2>4 DEF CheckAssign, Doomed, Removing
    <3>5. Registry!CleanMessage(user[a])
      BY <3>2, <3>3, <3>4 DEF Registry!CleanMessage
    <3> QED
      BY <3>5 DEF Registry!RegNext
  <2>5. CASE CheckPersist(a)
    <3>1. user[a] \in Known
      BY <2>5 DEF CheckPersist, DurableInv, Known
    <3>2. UNCHANGED <<Known, Trusted, Doomed>>
      BY <2>5 DEF CheckPersist, Known, Trusted, Doomed, Removing
    <3>3. CASE approvedRows' = approvedRows
      BY <3>2, <3>3
    <3>4. CASE approvedRows' = approvedRows \union {user[a]}
      BY <3>1, <3>2, <3>4 DEF Registry!RegNext, Registry!Save
    <3> QED
      BY <2>5, <3>3, <3>4 DEF CheckPersist
  <2> QED
    BY <1>1, <2>1, <2>2, <2>3, <2>4, <2>5 DEF Check
<1>2. ASSUME NEW a \in Actors, AddApprovedUser(a) PROVE Stutter \/ Registry!RegNext
  <2>1. ASSUME NEW u \in Users, AddInMemory(a, u) PROVE Registry!RegNext
    <3>1. Known' = Known \union {u} /\ Trusted' = Trusted \union {u}
      BY <2>1 DEF AddInMemory, Known, Trusted
    <3>2. UNCHANGED <<approvedRows, Doomed>>
      BY <2>1 DEF AddInMemory, Doomed, Removing
    <3> QED
      BY <3>1, <3>2 DEF Registry!RegNext, Registry!Grant
  <2>2. CASE AddInStorage(a)
    <3>1. user[a] \in Known
      BY <2>2 DEF AddInStorage, DurableInv, Known
    <3>2. UNCHANGED <<Known, Trusted, Doomed>>
      BY <2>2 DEF AddInStorage, Known, Trusted, Doomed, Removing
    <3>3. CASE approvedRows' = approvedRows
      BY <3>2, <3>3
    <3>4. CASE approvedRows' = approvedRows \union {user[a]}
      BY <3>1, <3>2, <3>4 DEF Registry!RegNext, Registry!Save
    <3> QED
      BY <2>2, <3>3, <3>4 DEF AddInStorage
  <2> QED
    BY <1>2, <2>1, <2>2 DEF AddApprovedUser
<1>3. ASSUME NEW a \in Actors, RemoveApprovedUser(a) PROVE Stutter \/ Registry!RegNext
  <2>1. ASSUME NEW u \in Users, RemoveInMemory(a, u) PROVE Registry!RegNext
    <3>1. Known' = Known \ {u} /\ Trusted' = Trusted \ {u}
      BY <2>1 DEF RemoveInMemory, Known, Trusted
    <3>2. Doomed' = Doomed \union {u}
      BY <2>1 DEF RemoveInMemory, Doomed, Removing
    <3>3. UNCHANGED approvedRows
      BY <2>1 DEF RemoveInMemory
    <3> QED
      BY <3>1, <3>2, <3>3 DEF Registry!RegNext, Registry!Revoke
  <2>2. CASE RemoveInStorage(a)
    <3>1. user[a] \in Doomed
      BY <2>2 DEF RemoveInStorage, Doomed, Removing
    <3>2. UNCHANGED <<Known, Trusted>>
      BY <2>2 DEF RemoveInStorage, Known, Trusted
    <3>3. /\ approvedRows' \in {approvedRows, approvedRows \ {user[a]}}
          /\ \/ Doomed' = Doomed
             \/ user[a] \notin approvedRows' /\ Doomed' = Doomed \ {user[a]}
      BY <2>2 DEF RemoveInStorage, Doomed, Removing
    <3>4. Registry!Erase(user[a])
      BY <3>1, <3>2, <3>3 DEF Registry!Erase
    <3> QED
      BY <3>4 DEF Registry!RegNext
  <2> QED
    BY <1>3, <2>1, <2>2 DEF RemoveApprovedUser
<1>4. CASE Restart
  <2>1. Known' = approvedRows /\ Trusted' = approvedRows
    BY <1>4 DEF Restart, Known, Trusted
  <2>2. Doomed' \subseteq Doomed /\ UNCHANGED approvedRows
    BY <1>4 DEF Restart, Doomed, Removing
  <2> QED
    BY <2>1, <2>2 DEF Registry!RegNext, Registry!Reload
<1>5. CASE UNCHANGED vars
  BY <1>5, RegistryStutter DEF vars, Removing
<1> QED
  BY <1>1, <1>2, <1>3, <1>4, <1>5 DEF Next

\* With one approver the detector and its storage implement the registry.
THEOREM ImplementsRegistry ==
  ASSUME SingleApprover
  PROVE  Spec => RegistrySpec
<1>1. Init => DurableInv /\ CountFresh /\ Registry!RegInit
  BY DEF Init, DurableInv, NoResurrection, CheckSteps, WriteSteps, CountFresh, Registry!RegInit,
         Known, Trusted, Doomed, Removing
<1>2. TypeOK /\ DurableInv /\ CountFresh /\ [Next]_vars => DurableInv' /\ CountFresh'
  BY DurableStep, CountFreshStep
<1>3. TypeOK /\ DurableInv /\ CountFresh /\ [Next]_vars
        => [Registry!RegNext]_<<Known, Trusted, approvedRows, Doomed>>
  BY RegistryStep
<1> QED
  BY <1>1, <1>2, <1>3, TypeCorrect, PTL DEF Spec, RegistrySpec, Registry!RegSpec, Registry!regVars

----------------------------------------------------------------------------
(* Trust is kept: with one approver the count in the map only grows until  *)
(* a removal or a restart.                                                 *)

LEMMA KeptStep ==
  ASSUME TypeOK, TypeOK', CountFresh, [Next]_vars, NEW u \in Trusted \ Trusted'
  PROVE  \/ \E a \in Actors : pc[a] = "idle" /\ pc'[a] = "removing" /\ user'[a] = u
         \/ u \notin approvedRows /\ \A a \in Actors : pc'[a] = "idle"
<1> USE ApprovalConstants DEF TypeOK, Trusted
<1>1. u \in Users /\ ~(approvedUsers'[u] >= approvedUsers[u])
  BY DEF Steps, CheckSteps, WriteSteps
<1>2. CASE UNCHANGED approvedUsers
  BY <1>1, <1>2
<1>3. ASSUME NEW a \in Actors, CheckAssign(a) PROVE FALSE
  <2>1. approvedUsers' = [approvedUsers EXCEPT ![user[a]] = @ + 1]
    BY <1>3 DEF CheckAssign, CountFresh
  <2> QED
    BY <1>1, <2>1
<1>4. ASSUME NEW a \in Actors, NEW v \in Users, AddInMemory(a, v) PROVE FALSE
  <2>1. approvedUsers' = [approvedUsers EXCEPT ![v] = FirstMessagesCount + 1]
    BY <1>4 DEF AddInMemory
  <2>2. u # v
    BY <2>1
  <2> QED
    BY <1>1, <2>1, <2>2
<1>5. ASSUME NEW a \in Actors, NEW v \in Users, RemoveInMemory(a, v)
      PROVE  pc[a] = "idle" /\ pc'[a] = "removing" /\ user'[a] = u
  <2>1. u = v
    BY <1>1, <1>5 DEF RemoveInMemory
  <2> QED
    BY <1>5, <2>1 DEF RemoveInMemory, Become
<1>6. CASE Restart
  <2>1. u \notin approvedRows
    BY <1>1, <1>6 DEF Restart
  <2> QED
    BY <1>6, <2>1 DEF Restart
<1>7. ASSUME NEW a \in Actors, Check(a), ~CheckAssign(a) PROVE UNCHANGED approvedUsers
  BY <1>7 DEF Check, CheckEnter, CheckPreApproved, CheckAnalyse, CheckNotCounted, CheckClean,
              CheckReadCount, CheckPersist
<1>8. ASSUME NEW a \in Actors, AddInStorage(a) \/ RemoveInStorage(a) PROVE UNCHANGED approvedUsers
  BY <1>8 DEF AddInStorage, RemoveInStorage
<1>9. CASE UNCHANGED vars
  BY <1>2, <1>9 DEF vars
<1> QED
  BY <1>2, <1>3, <1>4, <1>5, <1>6, <1>7, <1>8, <1>9 DEF Next, AddApprovedUser, RemoveApprovedUser

\* With one approver a trusted user stays trusted until removed, or until a restart that
\* finds no row of theirs.
THEOREM Kept ==
  ASSUME SingleApprover
  PROVE  Spec => TrustKept
<1>1. Init => DurableInv /\ CountFresh
  BY DEF Init, DurableInv, NoResurrection, CheckSteps, WriteSteps, CountFresh
<1>2. TypeOK /\ DurableInv /\ CountFresh /\ [Next]_vars => DurableInv' /\ CountFresh'
  BY DurableStep, CountFreshStep
<1>3. TypeOK /\ TypeOK' /\ CountFresh /\ [Next]_vars
        => [\A u \in Trusted \ Trusted' :
              \/ \E a \in Actors : pc[a] = "idle" /\ pc'[a] = "removing" /\ user'[a] = u
              \/ u \notin approvedRows /\ \A a \in Actors : pc'[a] = "idle"]_vars
  BY KeptStep
<1> QED
  BY <1>1, <1>2, <1>3, TypeCorrect, PTL DEF Spec, TrustKept
=============================================================================
