\* One terminal; foreground servers, a full disk, numbers that go to other programs.
SPECIFICATION Spec
CONSTANTS
    Resource = {r1}
    Principal = {a}
    Who = {}
    None = None
    Pid = {p1, p2, p3}
    Port = {8080, 8081}
    DaemonPort = 8080
    Script = {t1}
    Foreground = TRUE
    PidReuse = TRUE
    WriteMayFail = TRUE
    Absent = Absent
    Empty = Empty
INVARIANTS
    TypeOK
    AtMostOneDaemon
    PidfileNamesServer
    StoppedMeansGone
    MemoryIsFresh
PROPERTIES
    StopEnds
    CallsGoOn
