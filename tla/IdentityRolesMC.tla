--------------------------- MODULE IdentityRolesMC ---------------------------
(***************************************************************************)
(* Instances of IdentityRoles for TLC.                                     *)
(***************************************************************************)
EXTENDS IdentityRoles, TLC

\* SUPER_ADMIN and one role of another application.
Roles == {Super, <<"pasunestam-admin", "editor">>}

\* Either two requests race and only SUPER_ADMIN is in use ...
OneRole ==
    /\ \A p \in Person : granted[p] \cup stored[p] \subseteq {Super}
    /\ \A l \in Login : login[l].keys \subseteq {Super}
    /\ \A r \in Request : req[r].apps \subseteq {Central} /\ req[r].wanted \subseteq {Super}

\* ... or one request goes through both applications, and whoever it is not
\* about is a SUPER_ADMIN to whom nothing happens.
Untouched(p) ==
    /\ user[p] = "ENABLED" /\ granted[p] = {Super} /\ stored[p] = {} /\ p \notin group
    /\ \A l \in Login : login[l].person # p
    /\ \A r \in Request : req[r].person # p

TwoApps ==
    /\ ~overlapped
    /\ \E r \in Request : \A q \in Request \ {r} : At(q, "idle")
    /\ \E p \in Person : \A q \in Person \ {p} : Untouched(q)

Focus == OneRole \/ TwoApps

Symmetry ==
    Permutations(Person) \cup Permutations(Request) \cup Permutations(Login)
        \cup Permutations(Token)
=============================================================================
