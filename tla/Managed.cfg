SPECIFICATION Spec
CONSTANTS
    Worker = {w1, w2}
    User = {u1, u2}
    Local = {l1}
    CatchAll = CatchAll
    Domain = {d1, d2}
    IdnDomain = {d1}
    CreateMode = "CreateBySkaffari"
    MaxId = 2
    MaxFaults = 0
SYMMETRY Symmetry
INVARIANTS
    IInv
    AccountCountExact
    AddressHasAccount
    MailboxHasAccount
    AccountComplete
PROPERTIES
    AddressesKept
CHECK_DEADLOCK FALSE
