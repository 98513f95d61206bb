------------------------------ MODULE MCTrailStore ------------------------------
(* TrailStore with two loads in flight, a window shorter than the memory of a    *)
(* vessel, and a clock that outlasts both.                                       *)
EXTENDS TrailStore, TLC
Symmetry == Permutations(Places) \cup Permutations(Slots)
===============================================================================
