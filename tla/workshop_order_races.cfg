\* One order from check-in to delivery and past it, two overlapping requests,
\* any call may fail.
CONSTANTS
    Orders = {o1}
    Technicians = {t1, t2}
    Workers = {w1, w2}
    Admin = admin
    None = none
    Overlap = TRUE
    Faults = TRUE
    Ops = {"advance", "record", "register", "assign", "enable", "disable"}
    MaxHistory = 4
SPECIFICATION Spec
SYMMETRY Symmetry
INVARIANTS
    TypeOK
    SingleWorkload
    StatusMatchesHistory
    WorkBackedByHistory
    MovedOnlyAfterAssigned
PROPERTIES
    ReleasedOnlyAfterDelivery
    AssignedOnlyWhileActive
    ImplementsHolding
