\* Two overlapping requests and no failure.
CONSTANTS
    Orders = {o1}
    Technicians = {t1}
    Workers = {w1, w2}
    Admin = admin
    None = none
    Overlap = TRUE
    Faults = FALSE
    Ops = {"advance", "record", "register", "assign", "enable", "disable"}
    MaxHistory = 4
SPECIFICATION Spec
INVARIANT
    HistoryIsLifecycle
