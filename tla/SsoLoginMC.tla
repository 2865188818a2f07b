----------------------------- MODULE SsoLoginMC -----------------------------
(***************************************************************************)
(* An instance of SsoLogin for TLC.  Whole, it is too large; TLC keeps to  *)
(* the parts with two people and two sessions, or two accounts, or two     *)
(* roles, and one of everything else.                                      *)
(***************************************************************************)
EXTENDS SsoLogin, Naturals, FiniteSets, TLC

\* One role each, so that two replacements can both differ and merge.
Singles == {{k} : k \in RoleKey}

Symmetry ==
    Permutations(Admin) \cup Permutations(Subject) \cup Permutations(Email)
        \cup Permutations(RoleKey) \cup Permutations(Visit)
        \cup Permutations(Login) \cup Permutations(Token)

AtMostOne(set) == Cardinality(set) <= 1

RolesInUse == UNION ({login[l].keys : l \in Login} \cup {roles[a] : a \in Admin})

SubjectsInUse ==
    {sid[1] : sid \in ended \cup ({login[l].sid : l \in Login} \ {None})}
        \cup ({account[a].subject : a \in Admin} \ {None})
        \cup {session[t].sid[1] : t \in Live} \cup {taken[2] : taken \in lost}

EmailsInUse ==
    ({login[l].email : l \in Login} \cup {account[a].email : a \in Admin}) \ {None}

AccountsInUse == {a \in Admin : account[a].status # "ABSENT"}

Focus ==
    \/ AtMostOne(AccountsInUse) /\ AtMostOne(RolesInUse) /\ AtMostOne(EmailsInUse)
    \/ /\ AtMostOne(Live) /\ AtMostOne(SubjectsInUse)
       /\ AtMostOne(AccountsInUse) \/ AtMostOne(RolesInUse)
=============================================================================
