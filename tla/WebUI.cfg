\* A client's and an operator's token, a filter, two slots for each kind of request.
SPECIFICATION Spec
CONSTANTS
    a = a  o = o  ta = ta  to = to  bad = bad
    Resource = {r1}
    Principal = {a, o}
    Who = {}
    None = None
    Anonymous = o
    TokenEntries <- Entries
    AuthDisabled = FALSE
    Token = {ta, to}
    Filter = {"all", "available"}
    Slot = {1, 2}
    MaxMoves = 3
INVARIANTS
    TypeOK
    ButtonsMatchIdentity
PROPERTIES
    TableConverges
CHECK_DEADLOCK FALSE
