------------------------------- MODULE Holding -------------------------------
(***************************************************************************)
(* What the backend promises about who holds which order, whatever         *)
(* requests overlap and whatever fails: an order is held by at most one    *)
(* technician, a technician holds at most one order, and an order is let   *)
(* go only after it was delivered.                                         *)
(***************************************************************************)
CONSTANTS Orders, Technicians, None

VARIABLES
    holder,    \* the technician who holds each order, or None
    delivered  \* the orders that have been delivered at least once

vars == <<holder, delivered>>

Init ==
    /\ holder = [o \in Orders |-> None]
    /\ delivered = {}

\* A free technician takes a free order.
Take(o, t) ==
    /\ holder[o] = None
    /\ \A p \in Orders : holder[p] # t
    /\ holder' = [holder EXCEPT ![o] = t]
    /\ UNCHANGED delivered

\* The vehicle of the order leaves the workshop.
Deliver(o) ==
    /\ delivered' = delivered \cup {o}
    /\ UNCHANGED holder

\* The technician of a delivered order is free again.
LetGo(o) ==
    /\ o \in delivered
    /\ holder' = [holder EXCEPT ![o] = None]
    /\ UNCHANGED delivered

Next == \E o \in Orders : Deliver(o) \/ LetGo(o) \/ \E t \in Technicians : Take(o, t)

Spec == Init /\ [][Next]_vars
=============================================================================
