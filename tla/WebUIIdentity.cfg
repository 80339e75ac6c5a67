\* Two tokens typed one after the other.
SPECIFICATION Spec
CONSTANTS
    a = a  o = o  ta = ta  to = to  bad = bad
    Resource = {r1}
    Principal = {a, o}
    Who = {}
    None = None
    Anonymous = o
    TokenEntries <- Entries
    AuthDisabled = FALSE
    Token = {ta, to}
    Filter = {"all"}
    Slot = {1, 2}
    MaxMoves = 2
INVARIANTS
    IdentityIsOfToken
CHECK_DEADLOCK FALSE
