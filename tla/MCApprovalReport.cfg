\* One listener, one user: who is no longer checked, and who may report.
CONSTANTS
    u1 = u1
    listener = listener
    Users = {u1}
    Actors = {listener}
    Approvers = {listener}
    FirstMessagesCount = 2
    MaxClean = 4
SPECIFICATION Spec
INVARIANT CleanUsersMayReport
