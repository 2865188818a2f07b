------------------------------- MODULE LiveCheck -------------------------------
(***************************************************************************)
(* scripts/keycloak-live-check.ts: a list of checks against a running      *)
(* Keycloak, most of them about one throw-away admin, who is invited on    *)
(* the way and deleted at the end.  A check that throws is recorded and    *)
(* the script goes on; the two calls between the checks, which stand in    *)
(* for the person, are not in a check, and end the script when they throw. *)
(* Any call may fail, before or after Keycloak has done what it says.      *)
(***************************************************************************)
EXTENDS Naturals, Sequences

VARIABLES
    at,          \* the next step
    user,        \* the throw-away admin, in Keycloak
    known,       \* what the script has: the user's id, a sid, a token
    anyFailed,   \* some check has failed
    ending,      \* "running", or how the script ended
    lapse        \* history: what kept the script from deleting the user

liveVars == <<at, user, known, anyFailed, ending, lapse>>

Script ==
    <<"realm", "apps", "privilege", "list", "refused invite", "invite", "add role",
      "set up", "central sign-in", "pasumithra sign-in", "bridge", "bridge refuses",
      "stock sign-in", "sessions", "last super admin", "disable", "delete", "report">>

\* Checks that leave the throw-away admin alone.
Aside ==
    {"realm", "apps", "privilege", "list", "refused invite", "bridge refuses",
     "last super admin"}

User ==
    [exists: BOOLEAN, ready: BOOLEAN, enabled: BOOLEAN, signedIn: BOOLEAN,
     roles: SUBSET {"support", "moderator", "viewer", "manager"}]

LiveInit ==
    /\ at = 1
    /\ user = [exists |-> FALSE, ready |-> FALSE, enabled |-> FALSE, signedIn |-> FALSE,
               roles |-> {}]
    /\ known = {} /\ anyFailed = FALSE /\ ending = "running" /\ lapse = {}

-----------------------------------------------------------------------------
Reaches(step) == ending = "running" /\ Script[at] = step

\* check(): whatever is thrown is the check's result; a Skip is none.
Checked(ok) ==
    /\ anyFailed' = (anyFailed \/ ~ok)
    /\ at' = at + 1
    /\ UNCHANGED <<ending, lapse>>

LookAside ==
    /\ \E step \in Aside : Reaches(step)
    /\ \E ok \in BOOLEAN : Checked(ok)
    /\ UNCHANGED <<user, known>>

Invited(roles) ==
    user' = [exists |-> TRUE, ready |-> FALSE, enabled |-> TRUE, signedIn |-> FALSE,
             roles |-> roles]

InviteFails ==
    /\ Reaches("invite")
    /\ Checked(FALSE)
    /\ UNCHANGED <<user, known>>

\* The user is there, with some of the roles, but inviteUser threw.
InviteUnanswered ==
    /\ Reaches("invite")
    /\ \E roles \in SUBSET {"support", "moderator"} : Invited(roles)
    /\ anyFailed' = TRUE /\ at' = at + 1
    /\ lapse' = lapse \cup {"unanswered"}
    /\ UNCHANGED <<known, ending>>

\* The id is kept; the user's required actions are read and looked at.
InviteAnswered ==
    /\ Reaches("invite")
    /\ Invited({"support", "moderator"})
    /\ known' = {"id"}
    /\ \E ok \in BOOLEAN : Checked(ok)

(* Without the id, the calls about the user are to an address that does    *)
(* not exist.                                                              *)
AddRole ==
    /\ Reaches("add role")
    /\ \/ Checked(FALSE) /\ UNCHANGED user
       \/ /\ "id" \in known
          /\ user' = [user EXCEPT !.roles = @ \cup {"viewer"}]
          /\ \E ok \in BOOLEAN : Checked(ok)
    /\ UNCHANGED known

\* reset-password and no more required actions.
SetUp ==
    /\ Reaches("set up")
    /\ "id" \in known
    /\ user' = [user EXCEPT !.ready = TRUE]
    /\ at' = at + 1
    /\ UNCHANGED <<known, anyFailed, ending, lapse>>

\* main rejects: no clean-up, and no report of the checks so far.
SetUpThrows ==
    /\ Reaches("set up")
    /\ ending' = "threw"
    /\ lapse' = IF "id" \in known THEN lapse \cup {"threw"} ELSE lapse
    /\ UNCHANGED <<at, user, known, anyFailed>>

\* The login form, which the user must be able to pass.
FormLogin == user.ready /\ user.enabled /\ user' = [user EXCEPT !.signedIn = TRUE]

\* The sid is kept when the roles of the token were the expected ones.
CentralSignIn ==
    /\ Reaches("central sign-in")
    /\ \/ Checked(FALSE) /\ UNCHANGED <<user, known>>
       \/ /\ FormLogin
          /\ \E ok \in BOOLEAN :
                /\ ok => user.roles = {"support", "moderator", "viewer"}
                /\ known' = IF ok THEN known \cup {"sid"} ELSE known
                /\ Checked(ok)

PasumithraSignIn ==
    /\ Reaches("pasumithra sign-in")
    /\ \/ Checked(FALSE) /\ UNCHANGED <<user, known>>
       \/ /\ FormLogin
          /\ known' = known \cup {"token"}
          /\ \E ok \in BOOLEAN : Checked(ok)

Bridge ==
    /\ Reaches("bridge")
    /\ \E ok \in BOOLEAN : (ok => "token" \in known) /\ Checked(ok)
    /\ UNCHANGED <<user, known>>

\* setUserAppRoles, then a sign-in; the bridge has to refuse its token.
StockSignIn ==
    /\ Reaches("stock sign-in")
    /\ \/ Checked(FALSE) /\ UNCHANGED user
       \/ \E ok \in BOOLEAN :
             /\ ok => user.ready /\ user.enabled
             /\ user' = [user EXCEPT !.roles = (@ \ {"viewer"}) \cup {"manager"},
                                     !.signedIn = @ \/ ok]
             /\ Checked(ok)
    /\ UNCHANGED known

Sessions ==
    /\ Reaches("sessions")
    /\ \E ok \in BOOLEAN : (ok => user.signedIn /\ "sid" \in known) /\ Checked(ok)
    /\ UNCHANGED <<user, known>>

(* setUserEnabled, with its logout, then no session may be left.  A login   *)
(* that fails, for whatever reason, passes the check.                      *)
Disable ==
    /\ Reaches("disable")
    /\ \/ Checked(FALSE) /\ UNCHANGED user
       \/ Checked(FALSE) /\ user' = [user EXCEPT !.enabled = FALSE]
       \/ /\ user' = [user EXCEPT !.enabled = FALSE, !.signedIn = FALSE]
          /\ \E ok \in BOOLEAN : Checked(ok)
    /\ UNCHANGED known

\* Mutant: the user of a failed run is kept for a look at it.
DeleteIfPassed ==
    /\ Reaches("delete")
    /\ user' = [user EXCEPT !.exists = anyFailed]
    /\ at' = at + 1
    /\ UNCHANGED <<known, anyFailed, ending, lapse>>

\* What it throws is caught.
Delete ==
    /\ Reaches("delete")
    /\ IF "id" \in known
         THEN \/ user' = [user EXCEPT !.exists = FALSE] /\ UNCHANGED lapse
              \/ lapse' = lapse \cup {"undeleted"} /\ UNCHANGED user
         ELSE UNCHANGED <<user, lapse>>
    /\ at' = at + 1
    /\ UNCHANGED <<known, anyFailed, ending>>

Report ==
    /\ Reaches("report")
    /\ ending' = IF ~anyFailed THEN "passed" ELSE "failed"
    /\ UNCHANGED <<at, user, known, anyFailed, lapse>>

LiveNext ==
    \/ LookAside \/ InviteFails \/ InviteUnanswered \/ InviteAnswered \/ AddRole
    \/ SetUp \/ SetUpThrows \/ CentralSignIn \/ PasumithraSignIn \/ Bridge
    \/ StockSignIn \/ Sessions \/ Disable \/ Delete \/ Report

LiveSpec == LiveInit /\ [][LiveNext]_liveVars

-----------------------------------------------------------------------------
(* Properties *)

(***************************************************************************)
(* Every variable has its type, and a report says of which user: without   *)
(* an invitation that was answered there is none.                          *)
(***************************************************************************)
LiveTypeOK ==
    /\ at \in DOMAIN Script /\ user \in User
    /\ known \subseteq {"id", "sid", "token"}
    /\ anyFailed \in BOOLEAN
    /\ ending \in {"running", "passed", "failed", "threw"}
    /\ lapse \subseteq {"unanswered", "threw", "undeleted"}
    /\ ending \in {"passed", "failed"} => "id" \in known

(***************************************************************************)
(* The script deletes the admin that it created, whatever checks failed,   *)
(* unless it never learned the id, its own calls ended it, or the deletion *)
(* failed.  "Every check passed" (exit code 0) is said only if the admin   *)
(* was given the roles, had signed in, and was disabled and signed out at  *)
(* the end.                                                                *)
(***************************************************************************)
EndingIsTrue ==
    /\ ending # "running" /\ user.exists => lapse # {}
    /\ ending = "passed" =>
          /\ user.roles = {"support", "moderator", "manager"}
          /\ known = {"id", "sid", "token"}
          /\ ~user.enabled /\ ~user.signedIn
=============================================================================
