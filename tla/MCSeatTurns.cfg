CONSTANTS
    anthropic = anthropic
    codex = codex
    k1 = k1
    k2 = k2
    Other = Other
    Sentinel = Sentinel
    None = None
    Providers = {anthropic, codex}
    Order <- MCOrder
    Keys = {k1, k2}
    MaxPoison = 1
SPECIFICATION Spec
SYMMETRY Symmetry
INVARIANTS
    TypeOK
    CallsRideTheLastSync
    OnlyItsOwnFailureAborts
