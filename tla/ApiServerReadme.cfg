\* The C++ example of the README against a server without authentication, every
\* request answered.
SPECIFICATION Spec
CONSTANTS
    r1 = r1  r2 = r2  r3 = r3  a = a  b = b  o = o  ta = ta  tb = tb  to = to
    term1 = term1  term2 = term2
    Resource = {r1, r2, r3}
    Configured = {r1, r2}
    Principal = {a, b, o}
    Who = {}
    None = None
    Anonymous = o
    TokenEntries <- Entries
    AuthDisabled = TRUE
    Command = {term1}
    Jobs <- ReadmeExample
    MaxPrograms = 2
    MaxDemos = 0
    SaveMayFail = FALSE
    Unreliable = FALSE
INVARIANTS
    ReleaseAllEndsUse
CHECK_DEADLOCK FALSE
