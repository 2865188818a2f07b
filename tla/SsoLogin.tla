------------------------------- MODULE SsoLogin -------------------------------
(***************************************************************************)
(* Sign-in through the central identity provider (modules/auth/oidc): the  *)
(* account that a subject is linked to, the role rows that every sign-in   *)
(* replaces, and the sessions that a back-channel logout or a disable has  *)
(* to end.  A sign-in is a process; one action is one database call.       *)
(*                                                                         *)
(* The provider is outside: the claims of a token are any that it may      *)
(* issue.  Tables obey their unique columns, and the two statements of the *)
(* role transaction see what READ COMMITTED, the default of the database,  *)
(* lets them see.                                                          *)
(***************************************************************************)

CONSTANTS
    Admin,      \* ids of AdminUser rows
    Subject,    \* people, as the provider knows them
    Email,      \* normalised e-mail addresses
    RoleKey,    \* Central Admin role keys
    Grant,      \* the sets of roles that the provider or a creator may grant
    Visit,      \* bound on the sessions one person has at the provider
    Login,      \* sign-ins that may be in progress at the same time
    Token,      \* session tokens (the bound on live sessions)
    None        \* no subject, no session, ...

VARIABLES
    account,    \* account[a]: the AdminUser row a
    roles,      \* roles[a]: its AdminUserRole rows
    session,    \* session[t]: the AdminSession row of token t, or None
    login,      \* login[l]: where sign-in l stands, its claims, what it read
    logout,     \* the account that a logout by subject is about to sign out
    revoking,   \* accounts disabled by a request that has yet to revoke
    ended,      \* history: the provider sessions that were logged out
    lost        \* history: <<a, s>>, account a was s's and another took it over

vars == <<account, roles, session, login, logout, revoking, ended, lost>>

\* The `sid` claim: a session of a person at the provider.
Sid == Subject \X Visit

Account ==
    [status: {"ABSENT", "ACTIVE", "DISABLED"}, email: Email \cup {None},
     subject: Subject \cup {None}]

\* outlived is history: a revocation that concerned the row missed it.
Session == [owner: Admin, sid: Sid, outlived: BOOLEAN]

ASSUME GrantAssumption == Grant \subseteq SUBSET RoleKey

ASSUME NoneAssumption == None \notin Subject \cup Email \cup Session \cup Admin

\* Between reading the account's status and creating the session.
SyncPC == {"roles", "replace", "insert", "clash", "profile", "session"}

(***************************************************************************)
(* Claims: sid, email (None once it needs no writing), keys.  Read since:  *)
(* admin, and the role rows that the transaction has deleted (doomed).     *)
(* History: met says that another writer worked on the same link or the    *)
(* same roles meanwhile, late that a revocation ran.                       *)
(***************************************************************************)
LoginState ==
    [pc: SyncPC \cup {"idle", "subject", "email", "link", "create"},
     sid: Sid \cup {None}, email: Email \cup {None}, keys: SUBSET RoleKey,
     admin: Admin \cup {None}, doomed: SUBSET RoleKey, met: BOOLEAN, late: BOOLEAN]

Fresh(pc, sid, email, keys) ==
    [pc |-> pc, sid |-> sid, email |-> email, keys |-> keys, admin |-> None,
     doomed |-> {}, met |-> FALSE, late |-> FALSE]

Idle == Fresh("idle", None, None, {})

TypeOK ==
    /\ account \in [Admin -> Account]
    /\ roles \in [Admin -> SUBSET RoleKey]
    /\ session \in [Token -> Session \cup {None}]
    /\ login \in [Login -> LoginState]
    /\ logout \in Admin \cup {None}
    /\ revoking \in SUBSET Admin
    /\ ended \in SUBSET Sid
    /\ lost \in SUBSET (Admin \X Subject)

-----------------------------------------------------------------------------
At(l, pc) == login[l].pc = pc

Become(l, q) == login' = [login EXCEPT ![l] = q]

Goto(l, pc) == Become(l, [login[l] EXCEPT !.pc = pc])

Leave(l) == Become(l, Idle)

SubjectOf(l) == login[l].sid[1]

Linked(s) == {a \in Admin : account[a].subject = s}

Owning(e) == {a \in Admin : account[a].email = e}

Live == {t \in Token : session[t] # None}

\* Sign-ins that have read account a's status and not opened a session yet.
Syncing(a) == {l \in Login : login[l].pc \in SyncPC /\ login[l].admin = a}

Linking(a) == {l \in Login : At(l, "link") /\ login[l].admin = a}

\* The sign-ins of sid, or of all of a person's provider sessions.
SigningIn(sids) == {l \in Login : ~At(l, "idle") /\ login[l].sid \in sids}

\* Sign-in l becomes q; it and those in peers learn that they met.
Meet(l, q, peers) ==
    login' = [x \in Login |->
                CASE x = l -> [q EXCEPT !.met = peers # {}]
                  [] x # l /\ x \in peers -> [login[x] EXCEPT !.met = TRUE]
                  [] OTHER -> login[x]]

\* The sign-ins in ls go on although a revocation has run.
Overtake(ls) ==
    login' = [x \in Login |-> IF x \in ls THEN [login[x] EXCEPT !.late = TRUE]
                                         ELSE login[x]]

\* The session table without the rows of the tokens in ts.
Without(ts) == [t \in Token |-> IF t \in ts THEN None ELSE session[t]]

\* The session table in which the rows of ts have outlived a revocation.
Outliving(ts) ==
    [t \in Token |-> IF t \in ts THEN [session[t] EXCEPT !.outlived = TRUE]
                                 ELSE session[t]]

SessionsOf(a) == {t \in Live : session[t].owner = a}

-----------------------------------------------------------------------------
(* completeSsoLogin *)

(* The code is exchanged for a token of a provider session that has not    *)
(* ended.  A token without a Central Admin role or e-mail changes nothing. *)
Exchange(l, sid, email, keys) ==
    /\ At(l, "idle")
    /\ sid \notin ended
    /\ keys # {}
    /\ Become(l, Fresh("subject", sid, email, keys))
    /\ UNCHANGED <<account, roles, session, logout, revoking, ended, lost>>

(* The row of account a was returned to l: stop if it is disabled ... *)
Refuse(l, row) ==
    /\ row.status = "DISABLED"
    /\ Leave(l)

(* ... else go on to syncRoles. *)
Admit(l, a, row) ==
    /\ row.status = "ACTIVE"
    /\ Meet(l,
            [login[l] EXCEPT !.pc = "roles", !.admin = a,
                             !.email = IF login[l].email = row.email THEN None
                                       ELSE login[l].email],
            Syncing(a))

Reached(l, a, row) == Refuse(l, row) \/ Admit(l, a, row)

FindBySubject(l) ==
    /\ At(l, "subject")
    /\ \/ \E a \in Linked(SubjectOf(l)) : Reached(l, a, account[a])
       \/ Linked(SubjectOf(l)) = {} /\ Goto(l, "email")
    /\ UNCHANGED <<account, roles, session, logout, revoking, ended, lost>>

\* Mutant: the account may be linked to somebody else.
MayLinkAnybody(l, row, verified) == verified

MayLink(l, row, verified) ==
    /\ verified
    /\ row.subject \in {None, SubjectOf(l)}

(* Whether the provider has verified the e-mail matters only here. *)
FindByEmail(l, verified) ==
    /\ At(l, "email")
    /\ \/ Owning(login[l].email) = {} /\ Goto(l, "create")
       \/ \E a \in Owning(login[l].email) :
            \/ /\ MayLink(l, account[a], verified)
               /\ Meet(l, [login[l] EXCEPT !.pc = "link", !.admin = a], Linking(a))
            \/ ~MayLink(l, account[a], verified) /\ Leave(l)
    /\ UNCHANGED <<account, roles, session, logout, revoking, ended, lost>>

(* The subject is written over whatever the row links to by now; a subject *)
(* that another row has (unique column) makes the call fail.               *)
Link(l) ==
    /\ At(l, "link")
    /\ LET a == login[l].admin
           row == [account[a] EXCEPT !.subject = SubjectOf(l)]
       IN  /\ Linked(SubjectOf(l)) \subseteq {a}
           /\ account' = [account EXCEPT ![a] = row]
           /\ lost' = IF account[a].subject \in {None, SubjectOf(l)} THEN lost
                      ELSE lost \cup {<<a, account[a].subject>>}
           /\ Reached(l, a, row)
    /\ UNCHANGED <<roles, session, logout, revoking, ended>>

(* A new account without roles; its e-mail and subject must not be taken. *)
Create(l, a) ==
    /\ At(l, "create")
    /\ LET row == [status |-> "ACTIVE", email |-> login[l].email,
                   subject |-> SubjectOf(l)]
       IN  /\ account[a].status = "ABSENT"
           /\ Owning(row.email) \cup Linked(row.subject) = {}
           /\ account' = [account EXCEPT ![a] = row]
           /\ Admit(l, a, row)
    /\ UNCHANGED <<roles, session, logout, revoking, ended, lost>>

-----------------------------------------------------------------------------
(* syncRoles, and the rest of completeSsoLogin *)

\* The call after syncRoles: is the new e-mail free, or the profile update.
AfterSync(l) == IF login[l].email # None THEN "clash" ELSE "profile"

ReadRoles(l) ==
    /\ At(l, "roles")
    /\ IF roles[login[l].admin] = login[l].keys THEN Goto(l, AfterSync(l))
                                                ELSE Goto(l, "replace")
    /\ UNCHANGED <<account, roles, session, logout, revoking, ended, lost>>

(* deleteMany, first statement of the transaction: the rows it sees. *)
DeleteRoles(l) ==
    /\ At(l, "replace")
    /\ Become(l, [login[l] EXCEPT !.pc = "insert",
                                  !.doomed = roles[login[l].admin]])
    /\ UNCHANGED <<account, roles, session, logout, revoking, ended, lost>>

\* Mutant: the old rows stay.
InsertOnly(l) ==
    /\ At(l, "insert")
    /\ roles' = [roles EXCEPT ![login[l].admin] = @ \cup login[l].keys]
    /\ Goto(l, AfterSync(l))
    /\ UNCHANGED <<account, session, logout, revoking, ended, lost>>

(* createMany and commit.  Rows that another transaction has inserted      *)
(* since are not deleted; one of them may be a row that is to be inserted, *)
(* and then the transaction fails.  The rows deleted are nobody else's to  *)
(* delete.                                                                 *)
InsertRoles(l) ==
    /\ At(l, "insert")
    /\ LET a == login[l].admin
           kept == roles[a] \ login[l].doomed
       IN  /\ kept \cap login[l].keys = {}
           /\ roles' = [roles EXCEPT ![a] = kept \cup login[l].keys]
           /\ login' = [x \in Login |->
                IF x = l THEN [login[l] EXCEPT !.pc = AfterSync(l), !.doomed = {}]
                ELSE IF login[x].admin = a
                     THEN [login[x] EXCEPT !.doomed = login[x].doomed \ login[l].doomed]
                     ELSE login[x]]
    /\ UNCHANGED <<account, session, logout, revoking, ended, lost>>

(* Whether the e-mail of the token is free. *)
FindClash(l) ==
    /\ At(l, "clash")
    /\ Become(l, [login[l] EXCEPT !.pc = "profile",
                                  !.email = IF Owning(login[l].email) = {}
                                            THEN login[l].email ELSE None])
    /\ UNCHANGED <<account, roles, session, logout, revoking, ended, lost>>

(* The update fails if the e-mail was taken in the meantime. *)
UpdateProfile(l) ==
    /\ At(l, "profile")
    /\ \/ login[l].email = None /\ UNCHANGED account
       \/ /\ login[l].email # None
          /\ Owning(login[l].email) \subseteq {login[l].admin}
          /\ account' = [account EXCEPT ![login[l].admin] =
                 [account[login[l].admin] EXCEPT !.email = login[l].email]]
    /\ Goto(l, "session")
    /\ UNCHANGED <<roles, session, logout, revoking, ended, lost>>

CreateSession(l, t) ==
    /\ At(l, "session")
    /\ session[t] = None
    /\ session' = [session EXCEPT ![t] =
                     [owner |-> login[l].admin, sid |-> login[l].sid,
                      outlived |-> login[l].late]]
    /\ Leave(l)
    /\ UNCHANGED <<account, roles, logout, revoking, ended, lost>>

(* A call rejects: unique column, roles not seeded, lost database; or a    *)
(* restart.  What was written stays.                                       *)
Fail(l) ==
    /\ ~At(l, "idle")
    /\ Leave(l)
    /\ UNCHANGED <<account, roles, session, logout, revoking, ended, lost>>

-----------------------------------------------------------------------------
(* applyBackchannelLogout *)

\* Mutant: a token with a sid signs nobody out.
LogoutNobody(sid) ==
    /\ ended' = ended \cup {sid}
    /\ Overtake(SigningIn({sid}))
    /\ UNCHANGED <<account, roles, session, logout, revoking, lost>>

(* The token names one provider session. *)
LogoutSid(sid) ==
    /\ ended' = ended \cup {sid}
    /\ session' = Without({t \in Live : session[t].sid = sid})
    /\ Overtake(SigningIn({sid}))
    /\ UNCHANGED <<account, roles, logout, revoking, lost>>

(* The token names the person: the account is read ... *)
LogoutSubject(s) ==
    /\ logout = None
    /\ ended' = ended \cup ({s} \X Visit)
    /\ IF Linked(s) = {} THEN UNCHANGED logout
                         ELSE \E a \in Linked(s) : logout' = a
    /\ Overtake(SigningIn({s} \X Visit))
    /\ UNCHANGED <<account, roles, session, revoking, lost>>

(* ... and then all its sessions are revoked ... *)
LogoutAll ==
    /\ logout # None
    /\ session' = Without(SessionsOf(logout))
    /\ logout' = None
    /\ Overtake(Syncing(logout))
    /\ UNCHANGED <<account, roles, revoking, ended, lost>>

(* ... or the call rejects and the provider is told so. *)
LogoutFails ==
    /\ logout # None
    /\ session' = Outliving(SessionsOf(logout))
    /\ logout' = None
    /\ UNCHANGED <<account, roles, login, revoking, ended, lost>>

-----------------------------------------------------------------------------
(* Other writers of the same tables: modules/admin-users, session.service *)

CreateLocal(a, email, keys) ==
    /\ account[a].status = "ABSENT"
    /\ Owning(email) = {}
    /\ account' = [account EXCEPT ![a] = [status |-> "ACTIVE", email |-> email,
                                          subject |-> None]]
    /\ roles' = [roles EXCEPT ![a] = keys]
    /\ UNCHANGED <<session, login, logout, revoking, ended, lost>>

(* setAdminUserRoles: its transaction deletes the rows there are, which    *)
(* then are no transaction's to delete any more.                           *)
AssignRoles(a, keys) ==
    /\ account[a].status # "ABSENT"
    /\ roles' = [roles EXCEPT ![a] = keys]
    /\ login' = [l \in Login |->
                    IF l \in Syncing(a)
                      THEN [login[l] EXCEPT !.met = TRUE, !.doomed = {}]
                      ELSE login[l]]
    /\ UNCHANGED <<account, session, logout, revoking, ended, lost>>

(* setAdminUserStatus, before its revokeAllSessions. *)
Disable(a) ==
    /\ account[a].status = "ACTIVE"
    /\ account' = [account EXCEPT ![a] = [account[a] EXCEPT !.status = "DISABLED"]]
    /\ revoking' = revoking \cup {a}
    /\ UNCHANGED <<roles, session, login, logout, ended, lost>>

RevokeAll(a) ==
    /\ a \in revoking
    /\ session' = Without(SessionsOf(a))
    /\ revoking' = revoking \ {a}
    /\ Overtake(Syncing(a))
    /\ UNCHANGED <<account, roles, logout, ended, lost>>

RevokeFails(a) ==
    /\ a \in revoking
    /\ session' = Outliving(SessionsOf(a))
    /\ revoking' = revoking \ {a}
    /\ Overtake(Syncing(a))
    /\ UNCHANGED <<account, roles, logout, ended, lost>>

Enable(a) ==
    /\ account[a].status = "DISABLED"
    /\ account' = [account EXCEPT ![a] = [account[a] EXCEPT !.status = "ACTIVE"]]
    /\ UNCHANGED <<roles, session, login, logout, revoking, ended, lost>>

(* Logout at Central Admin, or expiry. *)
EndSession(t) ==
    /\ session[t] # None
    /\ session' = [session EXCEPT ![t] = None]
    /\ UNCHANGED <<account, roles, login, logout, revoking, ended, lost>>

-----------------------------------------------------------------------------
Init ==
    /\ account = [a \in Admin |->
                    [status |-> "ABSENT", email |-> None, subject |-> None]]
    /\ roles = [a \in Admin |-> {}]
    /\ session = [t \in Token |-> None]
    /\ login = [l \in Login |-> Idle]
    /\ logout = None
    /\ revoking = {}
    /\ ended = {}
    /\ lost = {}

SignIn(l) ==
    \/ \E sid \in Sid, email \in Email, keys \in Grant :
          Exchange(l, sid, email, keys)
    \/ FindBySubject(l)
    \/ \E verified \in BOOLEAN : FindByEmail(l, verified)
    \/ Link(l)
    \/ \E a \in Admin : Create(l, a)
    \/ ReadRoles(l)
    \/ DeleteRoles(l)
    \/ InsertRoles(l)
    \/ FindClash(l)
    \/ UpdateProfile(l)
    \/ \E t \in Token : CreateSession(l, t)
    \/ Fail(l)

BackchannelLogout ==
    \/ \E sid \in Sid : LogoutSid(sid)
    \/ \E s \in Subject : LogoutSubject(s)
    \/ LogoutAll
    \/ LogoutFails

Administration ==
    \/ \E a \in Admin :
        \/ \E email \in Email, keys \in Grant :
              CreateLocal(a, email, keys)
        \/ \E keys \in Grant : AssignRoles(a, keys)
        \/ Disable(a)
        \/ RevokeAll(a)
        \/ RevokeFails(a)
        \/ Enable(a)
    \/ \E t \in Token : EndSession(t)

Next ==
    \/ \E l \in Login : SignIn(l)
    \/ BackchannelLogout
    \/ Administration

Spec == Init /\ [][Next]_vars
-----------------------------------------------------------------------------
(* Properties *)

(***************************************************************************)
(* What the session is opened with is what the token says: when syncRoles  *)
(* has returned, the account holds exactly the roles of the token, unless  *)
(* another sign-in, or an administrator, was changing its roles meanwhile. *)
(***************************************************************************)
RolesFollowToken ==
    \A l \in Login :
        login[l].pc \in {"clash", "profile", "session"} =>
            roles[login[l].admin] = login[l].keys \/ login[l].met

(***************************************************************************)
(* Once linked, an account stays linked to the same person, whatever the   *)
(* e-mails of later tokens say, unless two people with the same verified   *)
(* e-mail were being linked to it at once.                                 *)
(***************************************************************************)
LinkIsForLife ==
    [][\A a \in Admin :
          account[a].subject \notin {None, account'[a].subject} =>
              \E l \in Linking(a) : login[l].met]_vars

(***************************************************************************)
(* What ends sessions ends them all.  The kill switch: a disabled account  *)
(* has no session, but for one that is about to be revoked and one that a  *)
(* failed or overtaken revocation left.  A logout at the provider ends the *)
(* sessions it names, one or all of the person, but for one that is about  *)
(* to be revoked, one whose sign-in was under way, and one on an account   *)
(* that another person took over (the first may have got it back since).   *)
(***************************************************************************)
DisabledIsSignedOut ==
    \A t \in Live :
        \/ account[session[t].owner].status = "ACTIVE"
        \/ session[t].owner \in revoking
        \/ session[t].outlived

LogoutIsComplete ==
    \A t \in Live :
        session[t].sid \in ended =>
            \/ session[t].owner = logout
            \/ session[t].outlived
            \/ <<session[t].owner, session[t].sid[1]>> \in lost

SessionsAreEnded == DisabledIsSignedOut /\ LogoutIsComplete
=============================================================================
