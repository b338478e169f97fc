SPECIFICATION RetrySpec
CONSTANTS
    Worker = {w1}
    User = {u1, u2}
    Local = {l1, l2}
    CatchAll = CatchAll
    Domain = {d1}
    IdnDomain = {d1}
    CreateMode = "CreateBySkaffari"
    MaxId = 2
    MaxFaults = 2
INVARIANTS
    AccountCountExact
    OneFaultNoStray
    AliasUnique
PROPERTIES
    RetriesRemoveAccounts
CHECK_DEADLOCK FALSE
