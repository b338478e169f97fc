SPECIFICATION Spec
CONSTANTS
    Worker = {w1}
    Requests = {"create", "remove", "update", "check", "domain"}
    Quota = {0, 1, 2}
    DefaultQuota = 1
    UseMemcached = TRUE
    Wrap = 16
    MaxId = 2
    MaxFaults = 2
INVARIANTS
    TypeOK
    UsedIsSum
    QuotasAgreeWhenIdle
PROPERTIES
    LimitKept
    RequestsAlign
CHECK_DEADLOCK FALSE
