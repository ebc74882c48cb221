----------------------------- MODULE MCDecision -----------------------------
(***************************************************************************)
(* Decision with the command lines that matter: OpenAI in both modes, with *)
(* and without short messages and context, a ring that goes around, and    *)
(* paranoid mode together with a number of first messages.                 *)
(***************************************************************************)
EXTENDS Decision, TLC

CONSTANTS c1, c2, u1

Plain == [paranoid |-> FALSE, firstMessagesCount |-> 1, historySize |-> 2,
          openAI |-> TRUE, veto |-> FALSE, shortToo |-> FALSE, openAIHistorySize |-> 2]

CommandLines ==
    {Plain,
     [Plain EXCEPT !.veto = TRUE, !.shortToo = TRUE, !.openAIHistorySize = 1],
     [Plain EXCEPT !.shortToo = TRUE, !.firstMessagesCount = 0, !.historySize = 0],
     [Plain EXCEPT !.paranoid = TRUE, !.shortToo = TRUE],
     [Plain EXCEPT !.openAI = FALSE, !.firstMessagesCount = 2]}

WithContext == {[Plain EXCEPT !.openAIHistorySize = 1]}

Goroutines == {c1, c2}

TheUsers == {u1}

GoroutineSymmetry == Permutations(Goroutines)
=============================================================================
