\* One message, two reporters, two admins clicking at the same time; everything may fail.
CONSTANTS
    spammer = spammer
    u1 = u1
    u2 = u2
    Users = {spammer, u1, u2}
    ApprovedAtStart = {u1, u2}
    SuperUsers = {}
    Msgs = {"m"}
    AuthorOf <- Authors
    Threshold = 1
    AutoBanThreshold = 2
    RateLimit = 1
    Effects = {"delete", "ban"}
    MayFail = {"storage", "telegram", "crash"}
    MaxNotifications = 2
    MaxClicks = 2
SYMMETRY ReporterSymmetry
SPECIFICATION Spec
INVARIANTS TypeOK Escalated ReportsKept
PROPERTY RejectSticks
