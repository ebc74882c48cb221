\* A user and a channel post one text; an expired row goes when there are two.  Soft mode without
\* failures; the channel is the group, and Telegram fails in soft mode and in training, or there
\* is a cleanup; the user is super, and the store fails and the process dies in soft mode, or
\* the store fails in dry mode.
CONSTANTS
    member = member
    channel = channel
    Users = {member, channel}
    Channels = {channel}
    Named = {member}
    Texts = {t1}
    Modes <- AllModes
    CleanupLimit = 2
    MaxFailures = 1
    MinSize = 1
    MaxMessages = 2
    MaxNotices = 1
    MaxClicks = 1
SPECIFICATION FairSpec
INVARIANTS TypeOK LocatorConsistent DecisionsHold BanAppealable
PROPERTIES StandingSpec CleanupEnds UnbanHappens
