\* Two terminals, three commands among seven, with tokens.
SPECIFICATION Spec
CONSTANTS
    r1 = r1  r2 = r2  r3 = r3  a = a  b = b  o = o  ta = ta  tb = tb  to = to
    term1 = term1  term2 = term2
    Resource = {r1, r2, r3}
    Configured = {r1, r2}
    Principal = {a, b, o}
    Who = {}
    None = None
    Anonymous = o
    TokenEntries <- Entries
    AuthDisabled = FALSE
    Command = {term1, term2}
    Jobs <- MixedJobs
    MaxPrograms = 3
    MaxDemos = 1
    SaveMayFail = TRUE
    Unreliable = TRUE
SYMMETRY Symmetric
INVARIANTS
    TypeOK
    ZeroMeansDone
    RefusedMeansUntouched
    DemoCleansUp
    TableIsHistory
PROPERTIES
    OwnersMoveByToken
    ImplementsArbiter
CHECK_DEADLOCK FALSE
