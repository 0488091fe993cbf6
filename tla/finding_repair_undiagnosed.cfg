\* One request at a time and no failure.
CONSTANTS
    Orders = {o1}
    Technicians = {t1}
    Workers = {w1}
    Admin = admin
    None = none
    Overlap = FALSE
    Faults = FALSE
    Ops = {"advance", "record", "register", "assign", "enable", "disable"}
    MaxHistory = 4
SPECIFICATION Spec
INVARIANT
    RepairIsDiagnosed
