-------------------------- MODULE ApprovalRegistry --------------------------
(***************************************************************************)
(* What the detector promises about approved users, with no goroutines, no *)
(* lock and no counters: who is known, who is trusted, whose row is in the *)
(* table, and whose removal was accepted with the row not confirmed gone.  *)
(***************************************************************************)
CONSTANT Users

VARIABLES
    known,    \* users with an entry in memory
    trusted,  \* users whose content is no longer checked
    rows,     \* users with a persistent row
    doomed    \* users removed from memory whose row is not confirmed deleted

regVars == <<known, trusted, rows, doomed>>

RegInit == known = {} /\ trusted = {} /\ rows = {} /\ doomed = {}

\* A clean message makes its sender known, may bring trust and takes none away.
CleanMessage(u) ==
    /\ known' = known \union {u}
    /\ trusted' \in {trusted, trusted \union {u}}
    /\ UNCHANGED <<rows, doomed>>

\* An admin vouches for a user.
Grant(u) ==
    /\ known' = known \union {u}
    /\ trusted' = trusted \union {u}
    /\ UNCHANGED <<rows, doomed>>

\* Only a user somebody vouched for, or who wrote a clean message, gets a row.
Save(u) ==
    /\ u \in known
    /\ rows' = rows \union {u}
    /\ UNCHANGED <<known, trusted, doomed>>

\* A removal takes effect at once in memory.
Revoke(u) ==
    /\ known' = known \ {u}
    /\ trusted' = trusted \ {u}
    /\ doomed' = doomed \union {u}
    /\ UNCHANGED rows

\* The row of a removed user goes, or the deletion fails and it stays doomed.
Erase(u) ==
    /\ u \in doomed
    /\ rows' \in {rows, rows \ {u}}
    /\ doomed' \in {doomed} \union (IF u \in rows' THEN {} ELSE {doomed \ {u}})
    /\ UNCHANGED <<known, trusted>>

\* A start trusts exactly the users with a row.
Reload ==
    /\ known' = rows /\ trusted' = rows
    /\ doomed' \subseteq doomed
    /\ UNCHANGED rows

RegNext ==
    \/ \E u \in Users : CleanMessage(u) \/ Grant(u) \/ Save(u) \/ Revoke(u) \/ Erase(u)
    \/ Reload

RegSpec == RegInit /\ [][RegNext]_regVars
=============================================================================
