\* Creates in turn, everything else at will; writes fail, the daemon crashes.
CONSTANTS
    Requests = {r1, r2, r3}
    Pairs = {k1, k2, k3, k4, k5}
    Missing = Missing
    Torn = Torn
    None = None
    InTurn = TRUE
    MayFail = TRUE
SPECIFICATION Spec
INVARIANTS TypeOK RecordedHasCA IssuedVerify CRLUnlessHurt RecordedHasServerCert
SYMMETRY Symmetry
