\* Requests on one order one at a time, two at once on different orders, any
\* call may fail.  MaxHistory never binds: a lifecycle walk has four moves.
CONSTANTS
    Orders = {o1, o2}
    Technicians = {t1, t2}
    Workers = {w1, w2}
    Admin = admin
    None = none
    Overlap = FALSE
    Faults = TRUE
    Ops = {"advance", "record", "register", "assign"}
    MaxHistory = 5
SPECIFICATION Spec
SYMMETRY Symmetry
INVARIANTS
    HistoryIsLifecycle
    NoWorkAfterDelivery
    WorkByHolder
PROPERTIES
    ImplementsAtomicOrders
