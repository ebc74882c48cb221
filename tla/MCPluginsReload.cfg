\* One change of one enabled plugin while nothing fails: what the detector runs.
CONSTANTS
    Scripts = {"s1", "s2"}
    Versions = {"v1", "v2"}
    Enabled <- First
    Checkers = {"listener"}
    MaxEdits = 1
SPECIFICATION Spec
INVARIANT ReloadTakesEffect
CHECK_DEADLOCK FALSE
