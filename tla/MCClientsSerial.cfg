CONSTANTS
    Names = {n1}
    CNs = {alice, bob}
    Absent = Absent
    Serials = {s1, s2}
    Torn = Torn
    Garbled = Garbled
    Requests = {r1}
    Modes = {"cert", "password", "both"}
    IPs = {ip1}
    BadIPs = {}
    UnsafeCNs = {}
    NoIP = NoIP
    TornPin = TornPin
    None = None
    ClientRecs <- MCClientRecs
    InstanceRecs <- MixedRecs
    Discipline = "instance"
    MayFail = FALSE
    MayCrash = FALSE

SPECIFICATION FairSpec
INVARIANTS TypeOK DeletedStaysRevoked PasswordKept
PROPERTIES RevocationEnforced EveryRequestReturns
