\* One request at a time, any call may fail.
CONSTANTS
    Orders = {o1}
    Technicians = {t1}
    Workers = {w1}
    Admin = admin
    None = none
    Overlap = FALSE
    Faults = TRUE
    Ops = {"advance", "record", "register", "assign", "enable", "disable"}
    MaxHistory = 4
SPECIFICATION Spec
INVARIANT
    DeliveredHoldsNobody
