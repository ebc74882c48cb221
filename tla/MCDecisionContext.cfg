\* One goroutine checks the messages of one user and of nobody; OpenAI is asked about the ham,
\* with one message of a history of two.
SPECIFICATION Spec
CONSTANTS
    c1 = c1
    c2 = c2
    u1 = u1
    Checkers = {c1}
    Users <- TheUsers
    NoUser = NoUser
    Options <- WithContext
    RetryCount = 1
    MaxMessages = 4
\* The bound on messages ends every behaviour.
CHECK_DEADLOCK FALSE
PROPERTIES
    ContextLatest
