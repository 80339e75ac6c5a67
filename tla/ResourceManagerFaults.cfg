\* Two clients and an operator on two resources; any save may fail, any start
\* may find another configuration.
SPECIFICATION Spec
CONSTANTS
    Resource = {r1, r2}
    Principal = {a, b, o}
    Operator = {o}
    Who = {}
    None = None
    Configs <- AnyConfig
    SaveMayFail = TRUE
SYMMETRY Symmetric
INVARIANTS
    TypeOK
    EntriesConsistent
    NoDoubleGrant
    HeldIsDurable
    StateFileNeverTorn
PROPERTIES
    OwnersYield
    ImplementsDurableArbiter
