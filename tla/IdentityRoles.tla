---------------------------- MODULE IdentityRoles ----------------------------
(***************************************************************************)
(* Central management of the people held in the identity provider          *)
(* (modules/identity/identity.service.ts): the roles they are granted in   *)
(* each application, whether they may sign in, and the Central Admin       *)
(* sessions that a removal of access has to end.  A request is a process;  *)
(* one action is one call of the provider's admin interface or of the      *)
(* database.  The provider's rows are changed by nobody else.              *)
(*                                                                         *)
(* Sign-in is taken from SsoLogin as two steps: the token is issued, and   *)
(* later its roles are stored and a session is opened.                     *)
(*                                                                         *)
(* The actor is not modelled.  ROLE_PERMISSIONS gives admin_users.manage   *)
(* only together with system.manage, so requireSystemManage refuses nobody *)
(* who passed the route's guard; and a break-glass administrator has no    *)
(* subject, so that SELF_DISABLE cannot be counted on.                     *)
(***************************************************************************)

CONSTANTS
    Person,     \* users of the identity provider
    Role,       \* client roles <<app, name>> of the managed applications
    Request,    \* requests that may be in progress at the same time
    Login,      \* sign-ins that may be in progress at the same time
    Token,      \* session tokens (the bound on live sessions)
    None        \* nobody, no session

Central == "central-admin"

Super == <<Central, "SUPER_ADMIN">>

ASSUME SuperAssumption == Super \in Role

ASSUME NoneAssumption == None \notin Person

VARIABLES
    user,       \* user[p]: no account at the provider yet, enabled or disabled
    group,      \* the people who are SUPER_ADMIN through a group
    granted,    \* granted[p]: the roles mapped to p directly
    stored,     \* stored[p]: the roles Central Admin keeps since p's last sign-in
    session,    \* session[t]: whose session has token t, or None
    login,      \* login[l]: whose sign-in l is, and the roles in its token
    req,        \* req[r]: where request r stands
    overlapped, \* history: two requests that may take SUPER_ADMIN away met
    missed      \* missed[p]: history, a removal has not reached p's sessions

vars == <<user, group, granted, stored, session, login, req, overlapped, missed>>

App == {role[1] : role \in Role}

RolesOf(apps) == {role \in Role : role[1] \in apps}

(***************************************************************************)
(* What a request holds: the person, the applications it still has to go   *)
(* through and the roles asked for there, the roles it is about to add and *)
(* to drop in the present one; direct is what getUser said of SUPER_ADMIN; *)
(* invites, that it is an invitation; removed, that it took access away.   *)
(***************************************************************************)
RequestState ==
    [pc: {"idle", "guard", "apply", "add", "drop", "disable", "logout", "sweep"},
     person: Person \cup {None}, apps: SUBSET App, wanted: SUBSET Role,
     add: SUBSET Role, drop: SUBSET Role,
     direct: BOOLEAN, invites: BOOLEAN, removed: BOOLEAN]

Started(pc, p, apps, wanted, direct, invites) ==
    [pc |-> pc, person |-> p, apps |-> apps, wanted |-> wanted,
     add |-> {}, drop |-> {}, direct |-> direct, invites |-> invites,
     removed |-> FALSE]

Idle == Started("idle", None, {}, {}, FALSE, FALSE)

NoLogin == [person |-> None, keys |-> {}]

TypeOK ==
    /\ user \in [Person -> {"ABSENT", "ENABLED", "DISABLED"}]
    /\ \A p \in Person : user[p] = "ABSENT" => granted[p] = {}
    /\ group \in SUBSET Person
    /\ granted \in [Person -> SUBSET Role]
    /\ stored \in [Person -> SUBSET Role]
    /\ session \in [Token -> Person \cup {None}]
    /\ login \in [Login -> [person: Person \cup {None}, keys: SUBSET Role]]
    /\ req \in [Request -> RequestState]
    /\ overlapped \in BOOLEAN
    /\ missed \in [Person -> BOOLEAN]

-----------------------------------------------------------------------------
At(r, pc) == req[r].pc = pc

Put(r, q) == req' = [req EXCEPT ![r] = q]

Goto(r, pc) == Put(r, [req[r] EXCEPT !.pc = pc])

Done(r) == Put(r, Idle)

\* What a token issued now says: direct roles, and the group's.
Effective(p) ==
    IF user[p] # "ENABLED" THEN {}
    ELSE granted[p] \cup (IF p \in group THEN {Super} ELSE {})

\* superAdminIds: enabled, directly or through a group.
Supers == {p \in Person : Super \in Effective(p)}

\* setUserAppRoles with these arguments may demote.
Demotes(apps, wanted) == Central \in apps /\ Super \notin wanted

\* Request r may still take SUPER_ADMIN away from its person.
Removing(r) ==
    \/ At(r, "disable")
    \/ Super \in req[r].drop
    \/ Demotes(req[r].apps, req[r].wanted)

Meets(r) == overlapped' = (overlapped \/ \E x \in Request \ {r} : Removing(x))

-----------------------------------------------------------------------------
(* setUserAppRoles, applyAppRoles *)

(* getUser. *)
SetRoles(r, p, apps, wanted) ==
    /\ At(r, "idle")
    /\ user[p] # "ABSENT"
    /\ apps # {}
    /\ wanted \subseteq RolesOf(apps)
    /\ Put(r, Started("guard", p, apps, wanted, Super \in granted[p], FALSE))
    /\ IF Demotes(apps, wanted) THEN Meets(r) ELSE UNCHANGED overlapped
    /\ UNCHANGED <<user, group, granted, stored, session, login, missed>>

\* Mutant: the person is not taken out of the set that is counted.
GuardRolesCountsAll(r) ==
    /\ At(r, "guard")
    /\ IF /\ req[r].direct
          /\ Demotes(req[r].apps, req[r].wanted)
          /\ Supers = {}
         THEN Done(r)
         ELSE Put(r, [req[r] EXCEPT !.pc = "apply", !.direct = FALSE])
    /\ UNCHANGED <<user, group, granted, stored, session, login, overlapped, missed>>

(* superAdminIds: 409 LAST_SUPER_ADMIN for a direct holder if there is no  *)
(* other.  The roles asked for are then looked up, which changes nothing.  *)
GuardRoles(r) ==
    /\ At(r, "guard")
    /\ IF /\ req[r].direct
          /\ Demotes(req[r].apps, req[r].wanted)
          /\ Supers \subseteq {req[r].person}
         THEN Done(r)
         ELSE Put(r, [req[r] EXCEPT !.pc = "apply", !.direct = FALSE])
    /\ UNCHANGED <<user, group, granted, stored, session, login, overlapped, missed>>

\* The next call of a request that has come to the end of an application.
Onward(q) ==
    CASE q.drop # {} -> [q EXCEPT !.pc = "drop"]
      [] q.drop = {} /\ q.apps # {} -> [q EXCEPT !.pc = "apply"]
      [] q.drop = {} /\ q.apps = {} /\ q.removed -> [q EXCEPT !.pc = "sweep"]
      [] OTHER -> Idle

(* The roles that the person has in the next application. *)
ReadRoles(r, app) ==
    /\ At(r, "apply")
    /\ app \in req[r].apps
    /\ LET now == granted[req[r].person] \cap RolesOf({app})
           then == req[r].wanted \cap RolesOf({app})
           q == [req[r] EXCEPT !.apps = @ \ {app}, !.wanted = @ \ then,
                               !.add = then \ now, !.drop = now \ then]
       IN  Put(r, IF then \ now # {} THEN [q EXCEPT !.pc = "add"] ELSE Onward(q))
    /\ UNCHANGED <<user, group, granted, stored, session, login, overlapped, missed>>

AddRoles(r) ==
    /\ At(r, "add")
    /\ granted' = [granted EXCEPT ![req[r].person] = @ \cup req[r].add]
    /\ Put(r, Onward([req[r] EXCEPT !.add = {}]))
    /\ UNCHANGED <<user, group, stored, session, login, overlapped, missed>>

\* Mutant: what is removed is not reported to the caller.
DropRolesSilently(r) ==
    /\ At(r, "drop")
    /\ granted' = [granted EXCEPT ![req[r].person] = @ \ req[r].drop]
    /\ Put(r, Onward([req[r] EXCEPT !.drop = {}]))
    /\ UNCHANGED <<user, group, stored, session, login, overlapped, missed>>

(* An invitation may find roles that were granted to the new account since *)
(* it was created; it drops them, and ends no session.                     *)
DropRoles(r) ==
    /\ At(r, "drop")
    /\ granted' = [granted EXCEPT ![req[r].person] = @ \ req[r].drop]
    /\ Put(r, Onward([req[r] EXCEPT !.drop = {}, !.removed = ~req[r].invites]))
    /\ missed' = [missed EXCEPT ![req[r].person] = @ \/ req[r].invites]
    /\ UNCHANGED <<user, group, stored, session, login, overlapped>>

(* inviteUser: a new, enabled account; then applyAppRoles. *)
Invite(r, p, apps, wanted) ==
    /\ At(r, "idle")
    /\ user[p] = "ABSENT"
    /\ apps # {}
    /\ wanted \subseteq RolesOf(apps)
    /\ user' = [user EXCEPT ![p] = "ENABLED"]
    /\ Put(r, Started("apply", p, apps, wanted, FALSE, TRUE))
    /\ IF Demotes(apps, wanted) THEN Meets(r) ELSE UNCHANGED overlapped
    /\ UNCHANGED <<group, granted, stored, session, login, missed>>

-----------------------------------------------------------------------------
(* setUserEnabled, signOutUserEverywhere, endAllSessions *)

(* The guard of a disable: superAdminIds, after reads that decide nothing. *)
GuardDisable(r, p) ==
    /\ At(r, "idle")
    /\ user[p] # "ABSENT"
    /\ Supers # {p}
    /\ Put(r, Started("disable", p, {}, {}, FALSE, FALSE))
    /\ Meets(r)
    /\ UNCHANGED <<user, group, granted, stored, session, login, missed>>

Disable(r) ==
    /\ At(r, "disable")
    /\ user' = [user EXCEPT ![req[r].person] = "DISABLED"]
    /\ Put(r, [req[r] EXCEPT !.pc = "logout", !.removed = TRUE])
    /\ UNCHANGED <<group, granted, stored, session, login, overlapped, missed>>

Enable(r, p) ==
    /\ At(r, "idle")
    /\ user[p] # "ABSENT"
    /\ user' = [user EXCEPT ![p] = "ENABLED"]
    /\ UNCHANGED <<group, granted, stored, session, login, req, overlapped, missed>>

SignOut(r, p) ==
    /\ At(r, "idle")
    /\ user[p] # "ABSENT"
    /\ Put(r, Started("logout", p, {}, {}, FALSE, FALSE))
    /\ UNCHANGED <<user, group, granted, stored, session, login, overlapped, missed>>

(* The sessions at the provider and at the bridged projects, which are     *)
(* outside; the former may reject, and the request then ends (Fail).       *)
LogoutElsewhere(r) ==
    /\ At(r, "logout")
    /\ Goto(r, "sweep")
    /\ UNCHANGED <<user, group, granted, stored, session, login, overlapped, missed>>

\* Sign-ins of p whose token grants more than p still has.
Outdated(p) == {l \in Login : login[l].person = p /\ ~(login[l].keys \subseteq Effective(p))}

(* The account is found by its subject, and its sessions are revoked. *)
Sweep(r) ==
    /\ At(r, "sweep")
    /\ LET p == req[r].person IN
        /\ session' = [t \in Token |-> IF session[t] = p THEN None ELSE session[t]]
        /\ missed' = [missed EXCEPT ![p] = Outdated(p) # {}]
    /\ Done(r)
    /\ UNCHANGED <<user, group, granted, stored, login, overlapped>>

(* A call rejects, or the process restarts.  What the provider has done    *)
(* stays done, and the sessions are not ended.                             *)
Fail(r) ==
    /\ ~At(r, "idle")
    /\ Done(r)
    /\ missed' = IF req[r].removed THEN [missed EXCEPT ![req[r].person] = TRUE]
                                   ELSE missed
    /\ UNCHANGED <<user, group, granted, stored, session, login, overlapped>>

-----------------------------------------------------------------------------
(* completeSsoLogin, in brief *)

(* A token without a role in Central Admin would be refused. *)
IssueToken(l, p) ==
    /\ login[l] = NoLogin
    /\ Effective(p) \cap RolesOf({Central}) # {}
    /\ login' = [login EXCEPT ![l] = [person |-> p, keys |-> Effective(p)]]
    /\ UNCHANGED <<user, group, granted, stored, session, req, overlapped, missed>>

SignIn(l, t) ==
    /\ login[l] # NoLogin
    /\ session[t] = None
    /\ stored' = [stored EXCEPT ![login[l].person] = login[l].keys]
    /\ session' = [session EXCEPT ![t] = login[l].person]
    /\ login' = [login EXCEPT ![l] = NoLogin]
    /\ UNCHANGED <<user, group, granted, req, overlapped, missed>>

Abandon(l) ==
    /\ login[l] # NoLogin
    /\ login' = [login EXCEPT ![l] = NoLogin]
    /\ UNCHANGED <<user, group, granted, stored, session, req, overlapped, missed>>

(* Logout or expiry. *)
EndSession(t) ==
    /\ session[t] # None
    /\ session' = [session EXCEPT ![t] = None]
    /\ UNCHANGED <<user, group, granted, stored, login, req, overlapped, missed>>

-----------------------------------------------------------------------------
(* Any people with any roles, one of them an enabled SUPER_ADMIN. *)
Init ==
    /\ user \in [Person -> {"ABSENT", "ENABLED", "DISABLED"}]
    /\ group \in SUBSET Person
    /\ granted \in [Person -> SUBSET Role]
    /\ \A p \in Person : user[p] = "ABSENT" => granted[p] = {} /\ p \notin group
    /\ Supers # {}
    /\ stored = [p \in Person |-> {}]
    /\ session = [t \in Token |-> None]
    /\ login = [l \in Login |-> NoLogin]
    /\ req = [r \in Request |-> Idle]
    /\ overlapped = FALSE
    /\ missed = [p \in Person |-> FALSE]

Step(r) ==
    \/ \E p \in Person, apps \in SUBSET App, wanted \in SUBSET Role :
          SetRoles(r, p, apps, wanted) \/ Invite(r, p, apps, wanted)
    \/ GuardRoles(r)
    \/ \E app \in App : ReadRoles(r, app)
    \/ AddRoles(r)
    \/ DropRoles(r)
    \/ \E p \in Person : GuardDisable(r, p) \/ Enable(r, p) \/ SignOut(r, p)
    \/ Disable(r)
    \/ LogoutElsewhere(r)
    \/ Sweep(r)
    \/ Fail(r)

Next ==
    \/ \E r \in Request : Step(r)
    \/ \E l \in Login :
        \/ \E p \in Person : IssueToken(l, p)
        \/ \E t \in Token : SignIn(l, t)
        \/ Abandon(l)
    \/ \E t \in Token : EndSession(t)

Spec == Init /\ [][Next]_vars
-----------------------------------------------------------------------------
(* Properties *)

(***************************************************************************)
(* docs/SLC-CENTRAL-SSO.md: "the last enabled Super Admin (direct or via   *)
(* group) cannot be demoted or disabled", unless two requests that may do  *)
(* so were in progress together: the guard counts in one call and the role *)
(* goes in a later one, and what it saw stays true in between, whatever    *)
(* else is granted, invited, enabled or fails.                             *)
(***************************************************************************)
SuperAdminRemains == Supers # {} \/ overlapped

\* A request has taken access away from p and has yet to end its sessions.
Pending(p) == \E r \in Request : req[r].removed /\ req[r].person = p

(***************************************************************************)
(* Removing access ends sessions: whoever has a session is enabled and     *)
(* holds, in the roles that Central Admin keeps, no more than the provider *)
(* still grants, unless a request is about to end the session, or one      *)
(* failed before that, or it ran while an older token was being used.      *)
(***************************************************************************)
AccessIsCurrent ==
    \A t \in Token :
        LET p == session[t] IN
        p # None => stored[p] \subseteq Effective(p) \/ Pending(p) \/ missed[p]
=============================================================================
