\* Two scripts, two contents each, one goroutine that checks, three changes of files.
CONSTANTS
    Scripts = {"s1", "s2"}
    Versions = {"v1", "v2"}
    Enabled <- First
    Checkers = {"listener"}
    MaxEdits = 3
SPECIFICATION Spec
INVARIANTS TypeOK QuietCurrent LoadExclusive
PROPERTY Reloaded
CHECK_DEADLOCK FALSE
