SPECIFICATION FairSpec
CONSTANTS
    w1 = w1  w2 = w2  server = server
    enabled = enabled  id = id  abuse = abuse
    Worker = {w1, w2}
    Process = {server}
    ProcessOf <- OneProcess
    Option = {enabled, id}
    Role = {abuse}
    Enabled = enabled
    DefaultsOrder <- Defaults
    ServiceOrder <- Service
    ProviderOrder <- Provider
    Default <- CodeDefault
    Value <- Values
    Account = {1}
    Host = {1, 2}
    MaxServer = 1
    MaxChanges = 2
    MaxFaults = 1
INVARIANTS
    OptionCacheFresh
PROPERTIES
    CachesCatchUp
CHECK_DEADLOCK FALSE
