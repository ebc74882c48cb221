------------------------------ MODULE MCSamples ------------------------------
(* Samples on small instances: see the comments of the .cfg files.         *)
EXTENDS Samples

CONSTANTS ps, ph, m1, a, b

\* The user's text shares a token with each preset.
SharedTokens == [m \in Messages |-> CASE m = ps -> {a} [] m = ph -> {b} [] OTHER -> {a, b}]

\* The presets, and files of an older version that name one text, or word, twice.
Files ==
    [f \in {"spam-samples", "ham-samples", "spam-dynamic", "ham-dynamic", "stop-words", "exclude-tokens"} |->
        CASE f = "spam-samples" -> {ps}
          [] f = "ham-samples" -> {ph}
          [] f \in {"spam-dynamic", "ham-dynamic"} -> {m1}
          [] OTHER -> {a}]

\* No file, two that were put back, the files of an older version.
Starts == {{}, {"spam-samples", "stop-words"}, {"spam-dynamic", "ham-dynamic", "stop-words", "exclude-tokens"}}
=============================================================================
