----------------------------- MODULE MCWorkshop ------------------------------
(***************************************************************************)
(* Small instances of Workshop for TLC.                                    *)
(***************************************************************************)
EXTENDS WorkshopRefinement, TLC

\* Safety does not tell orders, technicians or workers apart.
Symmetry ==
    Permutations(Orders) \cup Permutations(Technicians) \cup Permutations(Workers)
=============================================================================
