CONSTANTS
    Names = {n1}
    CNs = {}
    Absent = Absent
    ClientRecs = {}
    InstanceRecs <- MCInstanceRecs
    Requests = {r1}
    Pids = {p1, p2}
    Hosts <- MCHosts
    AnyHost = AnyHost
    OneHost = OneHost
    Listeners <- MCListeners
    Others = {o1, o2}
    Unrenderable = {}
    Keep = Keep
    None = None
    NoFile = NoFile
    Torn = Torn
    NoConfig = NoConfig
    Discipline = "instance"
    MayFail = FALSE
    MayDie = TRUE
    MayCrash = TRUE
SPECIFICATION FairSpec
INVARIANTS ConfFollowsStore UnwantedTold ServesTheRecord
PROPERTIES UnwantedGoesDown EveryRequestReturns
