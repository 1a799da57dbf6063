CONSTANTS
    Names = {n1}
    CNs = {alice, bob}
    Absent = Absent
    Serials = {s1, s2, s3}
    Torn = Torn
    Garbled = Garbled
    Requests = {r1}
    Modes = {"cert", "both"}
    IPs = {ip1}
    BadIPs = {}
    UnsafeCNs = {}
    NoIP = NoIP
    TornPin = TornPin
    None = None
    ClientRecs <- MCClientRecs
    InstanceRecs <- MCInstanceRecs
    Discipline = "instance"
    MayFail = TRUE
    MayCrash = FALSE
SYMMETRY Symmetry
SPECIFICATION Spec
INVARIANTS DeletedStaysRevoked
