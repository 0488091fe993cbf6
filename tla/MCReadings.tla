------------------------------ MODULE MCReadings -----------------------------
(***************************************************************************)
(* A small instance of Readings for TLC.                                   *)
(***************************************************************************)
EXTENDS Readings, TLC

\* No reading tells orders, technicians or workers apart.
ReadSymmetry ==
    Permutations(Orders) \cup Permutations(Technicians) \cup Permutations(Workers)
=============================================================================
