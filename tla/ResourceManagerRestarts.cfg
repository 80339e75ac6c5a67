\* The same clients and resources, and annotations on the reservations; the
\* process may die at any step and restarts on the same configuration.
SPECIFICATION FairSpec
CONSTANTS
    Resource = {r1, r2}
    Principal = {a, b, o}
    Operator = {o}
    Who = {w}
    None = None
    Configs <- OneConfig
    SaveMayFail = FALSE
INVARIANTS
    AnsweredIsOnDisk
    ReleasedAllStaysReleased
PROPERTIES
    CallAnswered
    ImplementsArbiter
