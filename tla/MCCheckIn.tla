------------------------------ MODULE MCCheckIn ------------------------------
(***************************************************************************)
(* A small instance of CheckIn for TLC.                                    *)
(***************************************************************************)
EXTENDS CheckIn

\* Every vehicle belongs to the one customer.
MCOwner == [v \in Vehicles |-> CHOOSE c \in Customers : TRUE]

\* The plate of every form is the same; only the VINs tell vehicles apart.
MCPlate == [v \in Vehicles |-> "plate"]
MCVin == [v \in Vehicles |-> v]
=============================================================================
