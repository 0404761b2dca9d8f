CONSTANTS
    p1 = p1
    p2 = p2
    None = None
    Abandoned = Abandoned
    Procs = {p1, p2}
    MaxToken = 4
    Suspendable = {p1}
SPECIFICATION FairSpec
INVARIANTS
    TypeOK
    SingleFlight
    InvalidGrantMeansLoss
PROPERTIES
    RotatesAtomically
    CallsEnd
