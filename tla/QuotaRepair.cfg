SPECIFICATION FairSpec
CONSTANTS
    Worker = {w1, w2}
    Requests = {"create", "update", "check"}
    Quota = {0, 1, 2}
    DefaultQuota = 1
    UseMemcached = TRUE
    Wrap = 16
    MaxId = 1
    MaxFaults = 1
INVARIANTS
    UsedNotTooLow
PROPERTIES
    ChecksAlign
CHECK_DEADLOCK FALSE
