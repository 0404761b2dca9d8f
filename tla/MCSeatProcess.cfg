CONSTANTS
    r1 = r1
    Requests = {r1}
    Session = Session
    Load = Load
    MaxInstance = 2
    Foreign = Foreign
    ForeignConfig = ForeignConfig
    None = None
SPECIFICATION Spec
INVARIANTS
    TypeOK
    OneScheduleNeverFreezes
PROPERTIES
    OwnershipDecides
    NoSkippedTokenSent
    WrapsOneKeepsOthers
    RequestsEnd
