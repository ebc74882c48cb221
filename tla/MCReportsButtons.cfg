\* Nothing fails; an auto-ban while an admin has the dialog of the reporters open.
CONSTANTS
    spammer = spammer
    u1 = u1
    u2 = u2
    Users = {spammer, u1, u2}
    ApprovedAtStart = {u1, u2}
    SuperUsers = {}
    Msgs = {"m"}
    AuthorOf <- Authors
    Threshold = 1
    AutoBanThreshold = 2
    RateLimit = 1
    Effects = {"delete", "ban"}
    MayFail = {}
    MaxNotifications = 2
    MaxClicks = 2
SYMMETRY ReporterSymmetry
SPECIFICATION Spec
INVARIANT AutoBanLeavesNoButtons
