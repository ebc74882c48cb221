\* A super user, member, and another post the same text, in training mode and without failures.
CONSTANTS
    member = member
    channel = channel
    Users = {member, other}
    Channels = {}
    Named = {member, other}
    Texts = {t1}
    Modes <- TrainingOnly
    CleanupLimit = 2
    MaxFailures = 1
    MinSize = 1
    MaxMessages = 2
    MaxNotices = 2
    MaxClicks = 1
SPECIFICATION Spec
INVARIANTS SupersSafe
