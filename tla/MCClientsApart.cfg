CONSTANTS
    Names = {n1}
    CNs = {alice, bob}
    Absent = Absent
    Serials = {s1, s2}
    Torn = Torn
    Garbled = Garbled
    Requests = {r1, r2}
    Modes = {"cert"}
    IPs = {ip1}
    BadIPs = {}
    UnsafeCNs = {}
    NoIP = NoIP
    TornPin = TornPin
    None = None
    ClientRecs <- MCClientRecs
    InstanceRecs <- MCInstanceRecs
    Discipline = "pin"
    MayFail = TRUE
    MayCrash = FALSE
SYMMETRY NameSymmetry
SPECIFICATION Spec
INVARIANTS PinFollowsRecord
PROPERTIES SerialStable
