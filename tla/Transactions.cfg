SPECIFICATION Spec
CONSTANTS
    Worker = {w1}
    Name = {d1, d2, x1}
    IdnName = {x1}
    Use = {sent}
    Other = Other
    MaxId = 4
    MaxFaults = 2
SYMMETRY Symmetry
INVARIANTS
    TypeOK
    WholeDomains
    ParentsAreTop
CHECK_DEADLOCK FALSE
