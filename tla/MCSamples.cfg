\* SQLite, two reloads at a time; admins submit one text and the spam preset; the ham preset stays (PresetsKept).
CONSTANTS
    ps = ps
    ph = ph
    m1 = m1
    a = a
    b = b
    Tokens = {a, b}
    Messages = {ps, ph, m1}
    Submitted = {m1, ps}
    TokensOf <- SharedTokens
    Words = {a}
    Content <- Files
    Migrations <- Starts
    Reloaders = {"r1", "r2"}
    ReadersBlockWriters = TRUE
    MaxLearned = 1
SPECIFICATION Spec
INVARIANTS TypeOK StoreLearned SpamSimilar ClassifierExact IgnoredApplied
