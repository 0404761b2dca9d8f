CONSTANTS
    work = work
    home = home
    team = team
    bad = bad
    default = default
    s1 = s1
    s2 = s2
    t1 = t1
    t2 = t2
    t3 = t3
    t4 = t4
    None = None
    Names = {work, home, team, bad, default}
    ValidLabels = {work, home, team, default}
    DefaultKeyword = default
    Tokens = {t1, t2, t3, t4}
    Actors = {s1, s2}
    Clis = {s2}
    RmAttempts = 2
    MaxAliases = 1
SPECIFICATION Spec
SYMMETRY Symmetry
INVARIANTS
    TypeOK
    StoreParses
    EachGrantOnce
PROPERTIES
    GrantLeavesByConsent
    NamesKeepTheirGrant
    DefaultFollowsItsGrant
