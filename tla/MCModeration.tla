---------------------------- MODULE MCModeration ----------------------------
(* Moderation on small instances: see the comments of the .cfg files.      *)
EXTENDS Moderation

CONSTANTS member, channel

Mode(on, supers, anonymous, mayFail) ==
    [soft |-> on = "soft", training |-> on = "training", dry |-> on = "dry",
     cleanup |-> on = "cleanup", supers |-> supers, anonymous |-> anonymous, mayFail |-> mayFail]

\* A user and the group itself, where calls to Telegram fail, or goroutines delete messages.
WithGroup ==
    {Mode(on, {}, {channel}, {"telegram"}) : on \in {"soft", "training"}}
    \union {Mode("cleanup", {}, {channel}, {})}

\* A channel and a super user, where the store fails and the process dies, or in dry mode.
WithSuper == {Mode("soft", {member}, {}, {"storage", "crash"}), Mode("dry", {member}, {}, {"storage"})}

\* And a user and a channel in soft mode, where nothing fails.
AllModes == {Mode("soft", {}, {}, {})} \union WithGroup \union WithSuper

TrainingOnly == {Mode("training", {member}, {}, {})}
=============================================================================
