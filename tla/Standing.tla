------------------------------ MODULE Standing ------------------------------
(***************************************************************************)
(* What the bot promises about a user's standing in the chat: who is       *)
(* banned, who is trusted, and by whose decision.  No messages, buttons,   *)
(* modes or queues: a decision may be carried out or not, but nothing      *)
(* happens to a user without a decision about that very user, and the      *)
(* latest one is all that counts.  Trust is kept in memory and recorded    *)
(* for the next start; a record may fail to be made or deleted, and then   *)
(* a restart changes who is trusted.  Moderation implements it.            *)
(***************************************************************************)
CONSTANTS Users

VARIABLES
    standing,  \* standing[u]: free, restricted or banned
    trusted,   \* users whose clean messages count
    recorded,  \* users who will be trusted after a restart
    decided    \* decided[u]: what was last decided about u

vars == <<standing, trusted, recorded, decided>>

Standings == {"free", "restricted", "banned"}
Decisions == {"none", "auto", "ban", "keep", "unban"}

Init ==
    /\ standing = [u \in Users |-> "free"]
    /\ trusted = {}
    /\ recorded = {}
    /\ decided = [u \in Users |-> "none"]

\* The bot finds a message of u clean and counts it, whoever decided what about u before.
Clear(u) ==
    /\ trusted' = trusted \union {u}
    /\ recorded' \in {recorded, recorded \union {u}}
    /\ UNCHANGED <<standing, decided>>

\* The bot takes u for a spammer, perhaps by a message that waited while an admin decided.
Suspect(u) ==
    /\ decided' = [decided EXCEPT ![u] = "auto"]
    /\ UNCHANGED <<standing, trusted, recorded>>

\* An admin reports a user, confirms a ban, or takes one back.
AdminDecides(u) ==
    /\ \E what \in {"ban", "keep", "unban"} : decided' = [decided EXCEPT ![u] = what]
    /\ UNCHANGED <<standing, trusted, recorded>>

\* Only a report by an admin takes trust away, and only a pardon gives it back unearned.
Distrust(u) ==
    /\ decided[u] = "ban"
    /\ trusted' = trusted \ {u}
    /\ recorded' \in {recorded, recorded \ {u}}
    /\ UNCHANGED <<standing, decided>>

Trust(u) ==
    /\ decided[u] = "unban"
    /\ trusted' = trusted \union {u}
    /\ recorded' \in {recorded, recorded \union {u}}
    /\ UNCHANGED <<standing, decided>>

\* The bot by itself restricts or bans, also who is banned already; an admin's ban is a real
\* one.
Sanction(u) ==
    /\ \/ decided[u] = "auto"
          /\ \E s \in {"restricted", "banned"} : standing' = [standing EXCEPT ![u] = s]
       \/ decided[u] \in {"ban", "keep"} /\ standing' = [standing EXCEPT ![u] = "banned"]
    /\ UNCHANGED <<trusted, recorded, decided>>

Release(u) ==
    /\ decided[u] = "unban"
    /\ standing' = [standing EXCEPT ![u] = "free"]
    /\ UNCHANGED <<trusted, recorded, decided>>

\* The bot is started again.
Restart ==
    /\ trusted' = recorded
    /\ UNCHANGED <<standing, recorded, decided>>

Next ==
    \/ \E u \in Users :
        \/ Clear(u) \/ Suspect(u) \/ AdminDecides(u) \/ Distrust(u) \/ Trust(u)
        \/ Sanction(u) \/ Release(u)
    \/ Restart

Spec == Init /\ [][Next]_vars
=============================================================================
