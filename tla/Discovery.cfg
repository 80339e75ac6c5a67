\* Three servers, two of them after one port; a Python and a C++ tool that search.
SPECIFICATION Spec
CONSTANTS
    m1 = m1  m2 = m2
    Machine = {m1, m2}
    None = None
    Server <- Servers
    Tool <- Tools
    Port = {8080, 8081}
    ForeignKind = {"no object", "other service", "nothing"}
    MaxForeign = 1
INVARIANTS
    TypeOK
    AnsweredIsReachable
PROPERTIES
    NeverAnother
