\* Two overlapping requests on one order, its technician switched off and on
\* meanwhile; no call fails but for the victims of deadlocks.
CONSTANTS
    Orders = {o1}
    Technicians = {t1}
    Workers = {w1, w2}
    Admin = admin
    None = none
    Overlap = TRUE
    Faults = TRUE
    Ops = {"advance", "record", "assign", "enable", "disable"}
    MaxHistory = 4
SPECIFICATION LockFairSpec
INVARIANTS
    DeadlockIsStale
PROPERTIES
    RequestsFinish
    DeliveryFreesTechnician
    ImplementsWorkshop
