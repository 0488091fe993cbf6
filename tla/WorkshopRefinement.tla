-------------------------- MODULE WorkshopRefinement --------------------------
(***************************************************************************)
(* Workshop implements two abstract specifications: Holding under every    *)
(* interleaving and failure, AtomicOrders when requests on one order do    *)
(* not overlap.                                                            *)
(***************************************************************************)
EXTENDS Workshop

\* The technician on the active assignment row of an order.
HolderOf(o) ==
    IF IsAssigned(o) THEN CHOOSE t \in Technicians : Holds(o, t) ELSE None

\* A technician given the order before its delivery: the release is on its way
\* or has failed.  For AtomicOrders the order is free since it was delivered;
\* that the tables still refuse its technician only means fewer steps here.
Unreleased(o) ==
    /\ status[o] = "DELIVERED"
    /\ \E a \in assignment : a.isActive /\ a.order = o /\ a.at # "DELIVERED"

Holding == INSTANCE Holding WITH
    holder <- [o \in Orders |-> HolderOf(o)],
    delivered <- {o \in Orders : HasEntered(o, "DELIVERED")}

AtomicOrders == INSTANCE AtomicOrders WITH
    holder <- [o \in Orders |-> IF Unreleased(o) THEN None ELSE HolderOf(o)]

\* The tables and the five use cases keep what Holding promises about who holds
\* an order, under any overlap of requests and any failure.
ImplementsHolding == Holding!Spec

\* The chains of separate database calls look like the atomic operations of
\* AtomicOrders when requests on one order come one at a time, failures included.
ImplementsAtomicOrders == AtomicOrders!Spec
=============================================================================
