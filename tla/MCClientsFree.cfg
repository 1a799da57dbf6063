CONSTANTS
    Names = {n1}
    CNs = {alice, bob}
    Absent = Absent
    Serials = {s1, s2}
    Torn = Torn
    Garbled = Garbled
    Requests = {r1, r2}
    Modes = {"both"}
    IPs = {bad}
    BadIPs = {bad}
    UnsafeCNs = {bob}
    NoIP = NoIP
    TornPin = TornPin
    None = None
    ClientRecs <- MCClientRecs
    InstanceRecs <- DisabledRecs
    Discipline = "none"
    MayFail = TRUE
    MayCrash = TRUE
SYMMETRY Symmetry
SPECIFICATION Spec
INVARIANTS ClientsHaveInstance BundleOnDisk RecordsPinnable
PROPERTIES StoreUsedAsPromised
