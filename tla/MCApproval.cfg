\* Two users; the listener counts clean messages while two web requests check,
\* approve and remove users.
CONSTANTS
    u1 = u1
    u2 = u2
    listener = listener
    web1 = web1
    web2 = web2
    Users = {u1, u2}
    Actors = {listener, web1, web2}
    Approvers = {listener}
    FirstMessagesCount = 2
    MaxClean = 2
SPECIFICATION Spec
INVARIANTS TypeOK NoResurrection EarnedTrust
PROPERTIES RegistrySpec TrustKept
