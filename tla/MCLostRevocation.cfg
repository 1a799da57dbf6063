CONSTANTS
    Names = {n1}
    CNs = {alice, bob}
    Absent = Absent
    Serials = {s1, s2}
    Torn = Torn
    Garbled = Garbled
    Requests = {r1, r2}
    Modes = {"cert", "both"}
    IPs = {ip1}
    BadIPs = {}
    UnsafeCNs = {}
    NoIP = NoIP
    TornPin = TornPin
    None = None
    ClientRecs <- MCClientRecs
    InstanceRecs <- MCInstanceRecs
    Discipline = "client"
    MayFail = FALSE
    MayCrash = FALSE
SYMMETRY Symmetry
SPECIFICATION Spec
INVARIANTS DeletedStaysRevoked
