---------------------------- MODULE AtomicOrders -----------------------------
(***************************************************************************)
(* The workshop as its users see it when requests on one order do not      *)
(* overlap: every operation is one atomic step on the order, and a         *)
(* delivery frees the technician in that same step.                        *)
(***************************************************************************)
EXTENDS Lifecycle

CONSTANTS Orders, Technicians, None

VARIABLES
    status,  \* the status of each order
    holder   \* the technician who holds each order, or None

vars == <<status, holder>>

Init ==
    /\ status = [o \in Orders |-> "RECEIVED"]
    /\ holder = [o \in Orders |-> None]

\* A free technician takes a free order, in whatever status it is.
Assign(o, t) ==
    /\ holder[o] = None
    /\ \A p \in Orders : holder[p] # t
    /\ holder' = [holder EXCEPT ![o] = t]
    /\ UNCHANGED status

\* One move of the lifecycle: work starts on a held order only, and delivery
\* leaves nobody on it.
Move(o) ==
    \E next \in Status :
        /\ CanMoveTo(status[o], next)
        /\ IsOperational(next) => holder[o] # None
        /\ status' = [status EXCEPT ![o] = next]
        /\ holder' = IF next = "DELIVERED" THEN [holder EXCEPT ![o] = None] ELSE holder

Next == \E o \in Orders : Move(o) \/ \E t \in Technicians : Assign(o, t)

Spec == Init /\ [][Next]_vars
=============================================================================
