\* Two threads, one instance with two clients.
CONSTANTS
    Names = {n1}
    CNs = {alice, bob}
    InstanceRecs = {i1}
    ClientRecs = {c1}
    Absent = Absent
    Threads = {t1, t2}
    NoThread = NoThread
    NoFile = NoFile
    Torn = Torn
    Unknown = Unknown
SPECIFICATION FairSpec
INVARIANTS TypeOK DiskWhole AcknowledgedSurvives ClientsHaveInstance
PROPERTIES AtomicStoreSpec LockReleased
