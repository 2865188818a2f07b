---------------------------- MODULE AdminAccess ----------------------------
(***************************************************************************)
(* Local administrators of the SLC Central Admin API: their accounts,      *)
(* their roles, their server-side sessions, and the requests that change   *)
(* them.  Every request is a process; one action is one database call, the *)
(* only points at which the Node.js event loop lets another request in.    *)
(* What a handler computes between two awaits belongs to the action of the *)
(* call that precedes it.                                                  *)
(*                                                                         *)
(* Sources: modules/auth/{auth.service,session.service,permissions}.ts,    *)
(* middleware/{requireAuth,requirePermission}.ts,                          *)
(* modules/admin-users/adminUsers.service.ts, scripts/bootstrap-admin.ts.  *)
(***************************************************************************)

CONSTANTS
    Admin,      \* e-mail addresses an administrator row may exist for
    RoleKey,    \* the role keys, "SUPER_ADMIN" among them
    Password,   \* passwords that satisfy the policy
    Token,      \* opaque session tokens (the bound on live sessions)
    Request,    \* requests that may be in progress at the same time
    None        \* "no session", "no token", ...

VARIABLES
    status,     \* status[a]: "ABSENT" (no row), "ACTIVE" or "DISABLED"
    roles,      \* roles[a]: the AdminUserRole rows of a
    password,   \* password[a]: what AdminUser.passwordHash verifies
    session,    \* session[t]: the AdminSession row of token t, or None
    req,        \* req[r]: where request r stands and what it has read
    overlapped  \* history: two guarded removals were in progress together

vars == <<status, roles, password, session, req, overlapped>>

(***************************************************************************)
(* A session row carries its owner.  The other two fields are history: the *)
(* password the login had verified, and whether the row outlived a         *)
(* revocation that should have ended it.                                   *)
(***************************************************************************)
Session == [owner: Admin, verified: Password, outlived: BOOLEAN]

ASSUME RolesAssumption == "SUPER_ADMIN" \in RoleKey

ASSUME NoneAssumption == None \notin Session

PC == {"idle", "login", "resolve", "kick", "logout", "pwRead", "pwWrite",
       "pwRevoke", "target", "count", "write", "revoke", "create", "bootstrap"}

(***************************************************************************)
(* What a request in progress holds: the account its next call concerns,   *)
(* the cookie's token, and the status, role keys or password it will write *)
(* (keys = {} when the request is not about roles).                        *)
(***************************************************************************)
RequestState ==
    [pc: PC, admin: Admin \cup {None}, token: Token \cup {None},
     status: {"ACTIVE", "DISABLED"}, keys: SUBSET RoleKey,
     password: Password \cup {None}]

Holding(pc, a, t, st, keys, p) ==
    [pc |-> pc, admin |-> a, token |-> t, status |-> st, keys |-> keys,
     password |-> p]

Idle == Holding("idle", None, None, "ACTIVE", {}, None)

TypeOK ==
    /\ status \in [Admin -> {"ABSENT", "ACTIVE", "DISABLED"}]
    /\ roles \in [Admin -> SUBSET RoleKey]
    /\ password \in [Admin -> Password]
    /\ session \in [Token -> Session \cup {None}]
    /\ req \in [Request -> RequestState]
    /\ overlapped \in BOOLEAN

-----------------------------------------------------------------------------
(* Reading the tables *)

\* The part of ROLE_PERMISSIONS that this component asks about.
RolePermissions ==
    [k \in RoleKey |->
        IF k = "SUPER_ADMIN" THEN {"admin_users.manage", "system.manage"} ELSE {}]

HasPermission(ks, p) == \E k \in ks : p \in RolePermissions[k]

ActiveSupers ==
    {a \in Admin : status[a] = "ACTIVE" /\ "SUPER_ADMIN" \in roles[a]}

SuperHolders == {a \in Admin : "SUPER_ADMIN" \in roles[a]}

Live == {t \in Token : session[t] # None}

SessionsOf(a) == {t \in Live : session[t].owner = a}

\* The session table without the rows of the tokens in T.
Without(T) == [t \in Token |-> IF t \in T THEN None ELSE session[t]]

\* The session table in which the rows of the tokens in T survived a revocation.
Outliving(T) ==
    [t \in Token |-> IF t \in T THEN [session[t] EXCEPT !.outlived = TRUE]
                                ELSE session[t]]

-----------------------------------------------------------------------------
(* Requests *)

At(r, pc) == req[r].pc = pc

Goto(r, pc) == req' = [req EXCEPT ![r].pc = pc]

Put(r, q) == req' = [req EXCEPT ![r] = q]

Done(r) == Put(r, Idle)

UnusedToken(t) == session[t] = None /\ \A r \in Request : req[r].token # t

(* auth.service login: the row is read once, then the password verified. *)
LoginVerify(r, a) ==
    /\ At(r, "idle")
    /\ status[a] = "ACTIVE"
    /\ Put(r, Holding("login", a, None, "ACTIVE", {}, password[a]))
    /\ UNCHANGED <<status, roles, password, session, overlapped>>

(* ... and createSession runs later, on what was read. *)
LoginCreateSession(r, t) ==
    /\ At(r, "login")
    /\ UnusedToken(t)
    /\ LET a == req[r].admin IN
       session' = [session EXCEPT ![t] =
            [owner |-> a, verified |-> req[r].password,
             outlived |-> status[a] # "ACTIVE" \/ password[a] # req[r].password]]
    /\ Done(r)
    /\ UNCHANGED <<status, roles, password, overlapped>>

(* Past expiresAt, resolveSession deletes the row on sight. *)
SessionExpires(t) ==
    /\ session[t] # None
    /\ session' = Without({t})
    /\ UNCHANGED <<status, roles, password, req, overlapped>>

(* requireAuth: resolveSession finds the row of the cookie's token. *)
ResolveSession(r, t) ==
    /\ At(r, "idle")
    /\ session[t] # None
    /\ Put(r, Holding("resolve", session[t].owner, t, "ACTIVE", {}, None))
    /\ UNCHANGED <<status, roles, password, session, overlapped>>

(* requireAuth: resolveAdmin finds the account disabled; it will revoke. *)
AuthDisabled(r) ==
    /\ At(r, "resolve")
    /\ status[req[r].admin] = "DISABLED"
    /\ Goto(r, "kick")
    /\ UNCHANGED <<status, roles, password, session, overlapped>>

Kick(r) ==
    /\ At(r, "kick")
    /\ session' = Without(SessionsOf(req[r].admin))
    /\ Done(r)
    /\ UNCHANGED <<status, roles, password, overlapped>>

(* requireAuth succeeds: the request holds an ACTIVE account's snapshot. *)
Authenticated(r) == At(r, "resolve") /\ status[req[r].admin] = "ACTIVE"

(* requirePermission('admin_users.manage') on that snapshot. *)
MayManage(r) ==
    Authenticated(r) /\ HasPermission(roles[req[r].admin], "admin_users.manage")

(* assertMayAssignSuperAdmin, before the handler's first call. *)
MayAssign(r, keys) ==
    "SUPER_ADMIN" \in keys => HasPermission(roles[req[r].admin], "system.manage")

(* Any other endpoint, or a 403: nothing here changes. *)
AuthOther(r) ==
    /\ Authenticated(r)
    /\ Done(r)
    /\ UNCHANGED <<status, roles, password, session, overlapped>>

AuthLogout(r) ==
    /\ Authenticated(r)
    /\ Goto(r, "logout")
    /\ UNCHANGED <<status, roles, password, session, overlapped>>

Logout(r) ==
    /\ At(r, "logout")
    /\ session' = Without({req[r].token})
    /\ Done(r)
    /\ UNCHANGED <<status, roles, password, overlapped>>

-----------------------------------------------------------------------------
(* changePassword *)

AuthChangePassword(r, new) ==
    /\ Authenticated(r)
    /\ Put(r, Holding("pwRead", req[r].admin, None, "ACTIVE", {}, new))
    /\ UNCHANGED <<status, roles, password, session, overlapped>>

(* The current password is right: any other outcome ends the request. *)
PasswordVerify(r) ==
    /\ At(r, "pwRead")
    /\ Goto(r, "pwWrite")
    /\ UNCHANGED <<status, roles, password, session, overlapped>>

PasswordWrite(r) ==
    /\ At(r, "pwWrite")
    /\ password' = [password EXCEPT ![req[r].admin] = req[r].password]
    /\ Goto(r, "pwRevoke")
    /\ UNCHANGED <<status, roles, session, overlapped>>

PasswordRevoke(r) ==
    /\ At(r, "pwRevoke")
    /\ session' = Without(SessionsOf(req[r].admin))
    /\ Done(r)
    /\ UNCHANGED <<status, roles, password, overlapped>>

-----------------------------------------------------------------------------
(* adminUsers.service: setAdminUserStatus, setAdminUserRoles, createAdminUser *)

\* The write would take SUPER_ADMIN or ACTIVE away from its target.
Removes(st, keys) == IF keys = {} THEN st = "DISABLED"
                                  ELSE "SUPER_ADMIN" \notin keys

\* Past the first read of assertNotLastSuperAdmin and not yet written.
Guarded(r) ==
    At(r, "count") \/ (At(r, "write") /\ Removes(req[r].status, req[r].keys))

(* The handler starts: guarded when it removes, otherwise straight to write. *)
StartChange(r, a, st, keys) ==
    Put(r, Holding(IF Removes(st, keys) THEN "target" ELSE "write",
                   a, None, st, keys, None))

AuthSetStatus(r, a, st) ==
    /\ MayManage(r)
    /\ StartChange(r, a, st, {})
    /\ UNCHANGED <<status, roles, password, session, overlapped>>

AuthSetRoles(r, a, keys) ==
    /\ MayManage(r)
    /\ MayAssign(r, keys)
    /\ StartChange(r, a, "ACTIVE", keys)
    /\ UNCHANGED <<status, roles, password, session, overlapped>>

(* assertNotLastSuperAdmin reads the target; the guard ends here when the  *)
(* target is not an active SUPER_ADMIN.                                    *)
GuardReadTarget(r) ==
    /\ At(r, "target")
    /\ Goto(r, IF req[r].admin \in ActiveSupers THEN "count" ELSE "write")
    /\ overlapped' = (overlapped \/ \E x \in Request \ {r} : Guarded(x))
    /\ UNCHANGED <<status, roles, password, session>>

\* Mutant: the count does not exclude the target.
GuardCountAll(r) ==
    /\ At(r, "count")
    /\ IF ActiveSupers # {} THEN Goto(r, "write") ELSE Done(r)
    /\ UNCHANGED <<status, roles, password, session, overlapped>>

(* activeSuperAdminCount(target): with nobody else left, 409 LAST_SUPER_ADMIN. *)
GuardCountOthers(r) ==
    /\ At(r, "count")
    /\ IF ActiveSupers \ {req[r].admin} # {} THEN Goto(r, "write") ELSE Done(r)
    /\ UNCHANGED <<status, roles, password, session, overlapped>>

\* Mutant: the sessions of a disabled account are left to requireAuth.
WriteStatusOnly(r) ==
    /\ At(r, "write")
    /\ req[r].keys = {}
    /\ IF status[req[r].admin] = "ABSENT"
         THEN UNCHANGED status
         ELSE status' = [status EXCEPT ![req[r].admin] = req[r].status]
    /\ Done(r)
    /\ UNCHANGED <<roles, password, session, overlapped>>

(* The update; without a row it throws and the request ends. *)
WriteStatus(r) ==
    /\ At(r, "write")
    /\ req[r].keys = {}
    /\ LET a == req[r].admin IN
       IF status[a] = "ABSENT"
         THEN Done(r) /\ UNCHANGED status
         ELSE /\ status' = [status EXCEPT ![a] = req[r].status]
              /\ IF req[r].status = "DISABLED" THEN Goto(r, "revoke") ELSE Done(r)
    /\ UNCHANGED <<roles, password, session, overlapped>>

DisableRevoke(r) ==
    /\ At(r, "revoke")
    /\ session' = Without(SessionsOf(req[r].admin))
    /\ Done(r)
    /\ UNCHANGED <<status, roles, password, overlapped>>

(* The delete-and-create transaction; without a row its inserts violate *)
(* the foreign key and it rolls back.                                   *)
WriteRoles(r) ==
    /\ At(r, "write")
    /\ req[r].keys # {}
    /\ LET a == req[r].admin IN
       IF status[a] = "ABSENT"
         THEN UNCHANGED roles
         ELSE roles' = [roles EXCEPT ![a] = req[r].keys]
    /\ Done(r)
    /\ UNCHANGED <<status, password, session, overlapped>>

(* createAdminUser: the e-mail is free ... *)
AuthCreate(r, a, keys, p) ==
    /\ MayManage(r)
    /\ MayAssign(r, keys)
    /\ Put(r, Holding("create", a, None, "ACTIVE", keys, p))
    /\ UNCHANGED <<status, roles, password, session, overlapped>>

(* ... or the insert is refused: by the check, or by the unique index when *)
(* another request created the row after the check.                        *)
InsertAdmin(r) ==
    LET a == req[r].admin IN
    IF status[a] = "ABSENT"
      THEN /\ status' = [status EXCEPT ![a] = "ACTIVE"]
           /\ roles' = [roles EXCEPT ![a] = req[r].keys]
           /\ password' = [password EXCEPT ![a] = req[r].password]
      ELSE UNCHANGED <<status, roles, password>>

CreateInsert(r) ==
    /\ At(r, "create")
    /\ InsertAdmin(r)
    /\ Done(r)
    /\ UNCHANGED <<session, overlapped>>

\* Mutant: only active holders count.
BootstrapCountActive(r, a, p) ==
    /\ At(r, "idle")
    /\ ActiveSupers = {}
    /\ Put(r, Holding("bootstrap", a, None, "ACTIVE", {"SUPER_ADMIN"}, p))
    /\ UNCHANGED <<status, roles, password, session, overlapped>>

(* scripts/bootstrap-admin.ts refuses while any account, whatever its      *)
(* status, holds SUPER_ADMIN.                                              *)
BootstrapCount(r, a, p) ==
    /\ At(r, "idle")
    /\ SuperHolders = {}
    /\ Put(r, Holding("bootstrap", a, None, "ACTIVE", {"SUPER_ADMIN"}, p))
    /\ UNCHANGED <<status, roles, password, session, overlapped>>

BootstrapInsert(r) ==
    /\ At(r, "bootstrap")
    /\ InsertAdmin(r)
    /\ Done(r)
    /\ UNCHANGED <<session, overlapped>>

-----------------------------------------------------------------------------
(* A database call rejects, or the process restarts: the request ends where *)
(* it stood.  A revocation that never ran leaves its sessions alive.        *)
Fail(r) ==
    /\ ~At(r, "idle")
    /\ Done(r)
    /\ session' = IF req[r].pc \in {"revoke", "pwRevoke"}
                    THEN Outliving(SessionsOf(req[r].admin))
                    ELSE session
    /\ UNCHANGED <<status, roles, password, overlapped>>

(***************************************************************************)
(* A database whose administrators were created, disabled and enabled by   *)
(* earlier requests; no session is left.                                   *)
(***************************************************************************)
Init ==
    /\ status \in [Admin -> {"ABSENT", "ACTIVE", "DISABLED"}]
    /\ roles \in [Admin -> SUBSET RoleKey]
    /\ \A a \in Admin : roles[a] = {} <=> status[a] = "ABSENT"
    /\ ActiveSupers # {}
    /\ \E p \in Password : password = [a \in Admin |-> p]
    /\ session = [t \in Token |-> None]
    /\ req = [r \in Request |-> Idle]
    /\ overlapped = FALSE

Step(r) ==
    \/ \E a \in Admin : LoginVerify(r, a)
    \/ \E t \in Token : LoginCreateSession(r, t)
    \/ \E t \in Token : ResolveSession(r, t)
    \/ AuthDisabled(r)
    \/ Kick(r)
    \/ AuthOther(r)
    \/ AuthLogout(r)
    \/ Logout(r)
    \/ \E p \in Password : AuthChangePassword(r, p)
    \/ PasswordVerify(r)
    \/ PasswordWrite(r)
    \/ PasswordRevoke(r)
    \/ \E a \in Admin, st \in {"ACTIVE", "DISABLED"} : AuthSetStatus(r, a, st)
    \/ \E a \in Admin, keys \in SUBSET RoleKey \ {{}} : AuthSetRoles(r, a, keys)
    \/ GuardReadTarget(r)
    \/ GuardCountOthers(r)
    \/ WriteStatus(r)
    \/ DisableRevoke(r)
    \/ WriteRoles(r)
    \/ \E a \in Admin, keys \in SUBSET RoleKey \ {{}}, p \in Password :
          AuthCreate(r, a, keys, p)
    \/ CreateInsert(r)
    \/ \E a \in Admin, p \in Password : BootstrapCount(r, a, p)
    \/ BootstrapInsert(r)
    \/ Fail(r)

Next == (\E r \in Request : Step(r)) \/ (\E t \in Token : SessionExpires(t))

Spec == Init /\ [][Next]_vars
-----------------------------------------------------------------------------
(* Properties *)

(***************************************************************************)
(* Somebody can always administer the system, unless two guarded removals  *)
(* overlapped: assertNotLastSuperAdmin followed by its write is enough as  *)
(* long as no other removal runs between the guard's first read and the    *)
(* write, whatever else (logins, grants, creations, failures) interleaves. *)
(***************************************************************************)
LastSuperAdminSurvives == ActiveSupers # {} \/ overlapped

(***************************************************************************)
(* The claim of docs/SLC-PHASE-2-AUTH-RBAC.md section 9, without that      *)
(* exception: the last active SUPER_ADMIN is never disabled or demoted.    *)
(***************************************************************************)
LastSuperAdminNeverLost == ActiveSupers # {}

RevokePending(a, pc) == \E r \in Request : At(r, pc) /\ req[r].admin = a

\* The row is legitimate, about to be deleted, or outlived its revocation.
Accounted(s) ==
    \/ s.outlived
    \/ /\ status[s.owner] = "ACTIVE" \/ RevokePending(s.owner, "revoke")
       /\ password[s.owner] = s.verified \/ RevokePending(s.owner, "pwRevoke")

(***************************************************************************)
(* Disabling an account and changing its password end every session: a row *)
(* whose owner is disabled, or whose login verified another password, is   *)
(* about to be deleted by the request that made the change, unless it      *)
(* outlived that revocation (its login was between verifying and           *)
(* createSession, or the revoking call failed).                            *)
(***************************************************************************)
RevocationIsComplete == \A t \in Live : Accounted(session[t])

LockedOut ==
    /\ ActiveSupers = {}
    /\ SuperHolders # {}
    /\ \A r \in Request :
          req[r].pc \notin {"target", "count", "write", "create", "bootstrap"}

(***************************************************************************)
(* Why the guard matters: once every SUPER_ADMIN is disabled and no        *)
(* request of a former one is in progress, no request of this component    *)
(* ever restores access, and bootstrap-admin refuses because a (disabled)  *)
(* holder exists.                                                          *)
(***************************************************************************)
LockoutIsPermanent == [][LockedOut => LockedOut']_vars
=============================================================================
