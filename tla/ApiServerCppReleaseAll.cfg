\* rm-cli release-all with the token of another client.
SPECIFICATION Spec
CONSTANTS
    r1 = r1  r2 = r2  r3 = r3  a = a  b = b  o = o  ta = ta  tb = tb  to = to
    term1 = term1  term2 = term2
    Resource = {r1, r2, r3}
    Configured = {r1, r2}
    Principal = {a, b, o}
    Who = {}
    None = None
    Anonymous = o
    TokenEntries <- Entries
    AuthDisabled = FALSE
    Command = {term1, term2}
    Jobs <- CppReleaseAll
    MaxPrograms = 2
    MaxDemos = 0
    SaveMayFail = FALSE
    Unreliable = TRUE
INVARIANTS
    ZeroMeansDone
CHECK_DEADLOCK FALSE
