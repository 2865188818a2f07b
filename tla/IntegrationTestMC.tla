-------------------------- MODULE IntegrationTestMC --------------------------
(***************************************************************************)
(* The instance of IntegrationTest for TLC.  It checks liveness, where     *)
(* symmetry is not sound: none is declared.                                *)
(***************************************************************************)
EXTENDS IntegrationTest, TLC
=============================================================================
