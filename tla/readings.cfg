\* One order checked in, worked on, delivered and given away again while the
\* screens are read; access withdrawn meanwhile; two seconds.
CONSTANTS
    Orders = {o1}
    Technicians = {t1, t2}
    Workers = {w1, w2}
    Admin = admin
    None = none
    Overlap = FALSE
    Faults = TRUE
    Ops = {"advance", "assign", "disable"}
    MaxHistory = 5
    MaxClock = 1
SPECIFICATION ReadSpec
SYMMETRY ReadSymmetry
INVARIANTS
    BusyWereCounted
    InProgressIsNamed
    DetailIsOfOneTechnician
    ListedAsItHappened
PROPERTIES
    AssignedOnlyTheEligible
