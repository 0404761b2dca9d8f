CONSTANTS
    work = work
    home = home
    g1 = g1
    g2 = g2
    Order <- MCOrder
    Grants = {g1, g2}
    Logins <- MCLogins
    Builtin = Builtin
    PiGrant = g1
    Pin = None
    None = None
    MaxQueued = 2
    MaxEvents = 2
SPECIFICATION Spec
INVARIANTS
    TypeOK
    SpendsWhatWasConfirmed
    OutcomeIsTrue
    HeadersMatchTheWalk
PROPERTIES
    NothingLateIsHeard
    KeyboardReturns
CHECK_DEADLOCK FALSE
