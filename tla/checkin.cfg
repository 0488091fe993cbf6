\* Two requests at once, check-ins and registrations, three orders, one failed
\* call, a clock of three readings.
CONSTANTS
    Customers = {c1}
    Owner <- MCOwner
    Usernames = {admin, u1}
    Administrators = {admin}
    SeededTechnicians = {}
    Vehicles = {v1, v2}
    Plate <- MCPlate
    Vin <- MCVin
    Workers = {w1, w2}
    None = none
    MaxOrders = 3
    MaxClock = 2
    MaxFaults = 1
SPECIFICATION FairSpec
INVARIANTS
    NumbersAreConsecutive
    NumbersFollowArrival
    AnswersAreTrue
PROPERTIES
    CheckInAdvances
