CONSTANTS
    Names = {n1}
    CNs = {}
    Absent = Absent
    ClientRecs = {}
    InstanceRecs <- MCInstanceRecs
    Requests = {r1, r2}
    Pids = {p1, p2}
    Hosts <- MCHosts
    AnyHost = AnyHost
    OneHost = OneHost
    Listeners <- MCOneListener
    Others = {o1, bad}
    Unrenderable = {bad}
    Keep = Keep
    None = None
    NoFile = NoFile
    Torn = Torn
    NoConfig = NoConfig
    Discipline = "none"
    MayFail = TRUE
    MayDie = TRUE
    MayCrash = TRUE
SPECIFICATION Spec
INVARIANTS TypeOK NoStray
SYMMETRY Symmetry
