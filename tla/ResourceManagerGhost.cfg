\* One resource and one client: a save fails, the client asks again.
SPECIFICATION Spec
CONSTANTS
    Resource = {r1}
    Principal = {a}
    Operator = {}
    Who = {}
    None = None
    Configs <- OneConfig
    SaveMayFail = TRUE
INVARIANT
    ReleasedAllStaysReleased
