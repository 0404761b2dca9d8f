CONSTANTS
    work = work
    home = home
    acc1 = acc1
    acc2 = acc2
    r1 = r1
    Turn = Turn
    Check = Check
    Sentinel = Sentinel
    Builtin = Builtin
    None = None
    Labels = {work, home}
    Accounts = {acc1, acc2}
    Requests = {r1}
    MaxGrant = 2
    Faults = {"reject", "forget", "check"}
    ReadBack = TRUE
SPECIFICATION Spec
SYMMETRY Symmetry
INVARIANTS
    TypeOK
    LiveTurnRidesItsOwn
    CalmSocketsFollow
    HeadMakesProgress
PROPERTIES
    RefusalRemembered
