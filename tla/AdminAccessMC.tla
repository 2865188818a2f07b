--------------------------- MODULE AdminAccessMC ---------------------------
(* Finite instances of AdminAccess for TLC. *)
EXTENDS AdminAccess, TLC

\* The five role keys fall in two classes here: SUPER_ADMIN and the others.
TwoRoles == {"SUPER_ADMIN", "REPORT_VIEWER"}
OneRole == {"SUPER_ADMIN"}

\* Accounts, tokens, passwords and requests are interchangeable.
Symmetry ==
    Permutations(Admin) \cup Permutations(Token)
        \cup Permutations(Password) \cup Permutations(Request)
=============================================================================
