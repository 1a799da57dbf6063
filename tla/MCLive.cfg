CONSTANTS
    Names = {n1, n2}
    CNs = {c1}
    Ids = {1}
    IPs = {a1}
    Requests = {r1}
    None = None
SPECIFICATION FairSpec
INVARIANTS TypeOK SessionsFaithful BansFaithful UnbanTruth
PROPERTIES EveryRequestReturns
