------------------------------ MODULE MfaLoginMC ------------------------------
(***************************************************************************)
(* Instances of MfaLogin for TLC.                                          *)
(***************************************************************************)
EXTENDS MfaLogin, TLC

Symmetry == Permutations(Login) \cup Permutations(Secret)
=============================================================================
