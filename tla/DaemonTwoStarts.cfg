\* Two terminals that start a daemon at the same time.
SPECIFICATION Spec
CONSTANTS
    Resource = {r1}
    Principal = {a, b}
    Who = {}
    None = None
    Pid = {p1, p2, p3}
    Port = {8080}
    DaemonPort = 8080
    Script = {t1, t2}
    Foreground = FALSE
    PidReuse = FALSE
    WriteMayFail = FALSE
    Absent = Absent
    Empty = Empty
INVARIANTS
    PidfileNamesServer
