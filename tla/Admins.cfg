SPECIFICATION Spec
CONSTANTS
    Session = {s1, s2}
    Name = {n1}
    Password = {p1, p2}
    Domain = {d1}
    Roots = 2
    MaxId = 3
SYMMETRY Symmetry
INVARIANTS
    IInv
    SuperUsersFixed
    DomainAdminsConsistent
    AdminsKeyed
PROPERTIES
    SuperUserPasswordOwn
CHECK_DEADLOCK FALSE
