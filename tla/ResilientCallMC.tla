--------------------------- MODULE ResilientCallMC ---------------------------
(***************************************************************************)
(* Instances of ResilientCall for TLC.                                     *)
(***************************************************************************)
EXTENDS ResilientCall, TLC

Symmetry == Permutations(Call)
=============================================================================
