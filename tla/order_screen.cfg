\* The page of an order seen by either of two users: three loads, two presses,
\* four writes by other users.
CONSTANTS
    Technicians = {t1}
    Admin = admin
    None = none
    MaxLoads = 3
    MaxPresses = 2
    MaxWrites = 4
SPECIFICATION FairSpec
\* The page of a delivered order has nothing left to offer, and the bounds end the
\* revisits: the system really stops.
CHECK_DEADLOCK FALSE
INVARIANTS
    ConfirmedIsShown
    HonestButtons
PROPERTIES
    LoadingEnds
    AdvanceIsSeen
