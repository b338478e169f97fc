SPECIFICATION Spec
CONSTANTS
    f1 = f1
    F1 = F1
    u1 = u1
    u2 = u2
    l1 = l1
    l2 = l2
    Worker = {w1}
    User = {u1, u2}
    Local = {l1, l2}
    CatchAll = CatchAll
    Home = d1
    OtherDomain = {d2}
    IdnDomain = {d1}
    Forward = {f1, F1, u2}
    NameLocal <- Qualified
    Folded <- Spelling
    FreeAddress = TRUE
    MaxId = 5
    ForwardUser = {u1, u2}
    MaxFaults = 1
INVARIANTS
    TypeOK
    TwinsTogether
    AliasUnique
    OneForwardRow
PROPERTIES
    LastAddressKept
    ForwardsImplemented
CHECK_DEADLOCK FALSE
