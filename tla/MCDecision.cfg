\* Two goroutines check four messages of one user and of nobody.
SPECIFICATION Spec
CONSTANTS
    c1 = c1
    c2 = c2
    u1 = u1
    Checkers <- Goroutines
    Users <- TheUsers
    NoUser = NoUser
    Options <- CommandLines
    RetryCount = 2
    MaxMessages = 4
SYMMETRY GoroutineSymmetry
\* The bound on messages ends every behaviour.
CHECK_DEADLOCK FALSE
INVARIANTS
    TypeOK
    VerdictByTheBook
    AskedByTheBook
    HistoryLatest
