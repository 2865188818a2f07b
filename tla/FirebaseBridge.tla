---------------------------- MODULE FirebaseBridge ----------------------------
(***************************************************************************)
(* The Firebase bridge (apps/api/src/modules/bridge): an administrator's   *)
(* access token for an application is exchanged for a Firebase custom      *)
(* token, and a sign-out, of one application or of all, revokes the        *)
(* Firebase sessions.  All the state is of one person.                     *)
(*                                                                         *)
(* Firebase is outside: a custom token opens a session with the roles it   *)
(* was minted with, however long after; revoking ends the open sessions,   *)
(* knows no custom token, and may fail.                                    *)
(***************************************************************************)
EXTENDS Naturals, FiniteSets

CONSTANTS
    BridgeApp,     \* the bridged applications
    SignInApp      \* those of them with browser origins

ASSUME OriginsAssumption == SignInApp \subseteq BridgeApp

VARIABLES
    issued,        \* access tokens that the person holds and that are in time
    minting,       \* minting[a]: roles of the exchange under way at a, or {}
    custom,        \* custom[a]: the roles of the custom token held at a, or {}
    firebase,      \* firebase[a]: the person's Firebase user and session at a
    sweep,         \* revokeFirebaseSessions: applications to go, those failed
    answered       \* answered[a]: what the last back-channel logout was answered

bridgeVars == <<issued, minting, custom, firebase, sweep, answered>>

\* The `roles` claim names the roles of the application a token was issued to.
RolesAt(apps) == SUBSET {<<a, "admin">> : a \in apps}

IdpToken == [azp : BridgeApp, aud : SUBSET BridgeApp, roles : RolesAt(BridgeApp)]

\* due is history: the sign-outs that began while the session was open.
FirebaseUser ==
    [known : BOOLEAN, roles : RolesAt(BridgeApp), due : SUBSET {"sweep", "logout"}]

SignedOut(user) == [user EXCEPT !.roles = {}, !.due = {}]

Due(user, signOut) ==
    [user EXCEPT !.due = user.due \cup (IF user.roles # {} THEN {signOut} ELSE {})]

NoSweep == [running |-> FALSE, todo |-> {}, failed |-> {}]

BridgeInit ==
    /\ issued = {}
    /\ minting = [a \in BridgeApp |-> {}]
    /\ custom = [a \in BridgeApp |-> {}]
    /\ firebase = [a \in BridgeApp |-> [known |-> FALSE, roles |-> {}, due |-> {}]]
    /\ sweep = NoSweep
    /\ answered = [a \in BridgeApp |-> "none"]

(* The provider issues a token to azp; its audience may list others. *)
Issue(azp, aud, roles) ==
    /\ issued = {}
    /\ issued' = {[azp |-> azp, aud |-> aud, roles |-> roles]}
    /\ UNCHANGED <<minting, custom, firebase, sweep, answered>>

TokenLapses ==
    /\ issued' = {}
    /\ UNCHANGED <<minting, custom, firebase, sweep, answered>>

\* Issued to this application, not merely listing it.
VerifyIdpToken(a, token) == a \in token.aud /\ token.azp = a

(* exchangeForFirebaseToken up to the first await that matters. *)
Exchange(a, token) ==
    /\ a \in SignInApp
    /\ VerifyIdpToken(a, token) /\ token.roles # {}
    /\ minting' = [minting EXCEPT ![a] = token.roles]
    /\ UNCHANGED <<issued, custom, firebase, sweep, answered>>

(* The token is signed, the log written, and the answer sent. *)
Mint(a) ==
    /\ minting[a] # {}
    /\ custom' = [custom EXCEPT ![a] = minting[a]]
    /\ minting' = [minting EXCEPT ![a] = {}]
    /\ UNCHANGED <<issued, firebase, sweep, answered>>

(* signInWithCustomToken, in the application. *)
SignInWithCustomToken(a) ==
    /\ custom[a] # {}
    /\ firebase' = [firebase EXCEPT ![a] = [known |-> TRUE, roles |-> custom[a], due |-> {}]]
    /\ custom' = [custom EXCEPT ![a] = {}]
    /\ UNCHANGED <<issued, minting, sweep, answered>>

(* revokeFirebaseSessions begins: every bridged application, in turn. *)
SweepBegin ==
    /\ ~sweep.running
    /\ sweep' = [running |-> TRUE, todo |-> BridgeApp, failed |-> {}]
    /\ firebase' = [a \in BridgeApp |-> Due(firebase[a], "sweep")]
    /\ UNCHANGED <<issued, minting, custom, answered>>

\* Mutant: what is thrown ends the loop.
SweepAppStops(a, works) ==
    /\ sweep.running /\ a \in sweep.todo
    /\ IF works /\ firebase[a].known
         THEN /\ firebase' = [firebase EXCEPT ![a] = SignedOut(firebase[a])]
              /\ sweep' = [sweep EXCEPT !.todo = sweep.todo \ {a}]
         ELSE /\ sweep' = [sweep EXCEPT !.todo = {},
                              !.failed = sweep.failed \cup (IF works THEN {} ELSE {a})]
              /\ UNCHANGED firebase
    /\ UNCHANGED <<issued, minting, custom, answered>>

(* One application: revoked, never signed in to, or an error to log. *)
SweepApp(a, works) ==
    /\ sweep.running /\ a \in sweep.todo
    /\ IF works
         THEN /\ firebase' = [firebase EXCEPT ![a] = SignedOut(firebase[a])]
              /\ sweep' = [sweep EXCEPT !.todo = sweep.todo \ {a}]
         ELSE /\ sweep' = [sweep EXCEPT !.todo = sweep.todo \ {a}, !.failed = sweep.failed \cup {a}]
              /\ UNCHANGED firebase
    /\ UNCHANGED <<issued, minting, custom, answered>>

SweepEnd ==
    /\ sweep.running /\ sweep.todo = {}
    /\ sweep' = [sweep EXCEPT !.running = FALSE]
    /\ UNCHANGED <<issued, minting, custom, firebase, answered>>

(* handleBridgeBackchannelLogout of a valid logout token with a subject. *)
BackchannelLogout(a, works) ==
    /\ answered' = [answered EXCEPT ![a] = IF works THEN "200" ELSE "400"]
    /\ firebase' = [firebase EXCEPT ![a] =
                       IF works THEN SignedOut(firebase[a]) ELSE Due(firebase[a], "logout")]
    /\ UNCHANGED <<issued, minting, custom, sweep>>

BridgeNext ==
    \/ \E token \in IdpToken :
        /\ token.azp \in token.aud /\ token.roles \in RolesAt({token.azp})
        /\ Issue(token.azp, token.aud, token.roles)
    \/ TokenLapses
    \/ \E a \in BridgeApp :
        \/ \E token \in issued : Exchange(a, token)
        \/ Mint(a)
        \/ SignInWithCustomToken(a)
        \/ \E works \in BOOLEAN : SweepApp(a, works) \/ BackchannelLogout(a, works)
    \/ SweepBegin
    \/ SweepEnd

BridgeSpec == BridgeInit /\ [][BridgeNext]_bridgeVars
-----------------------------------------------------------------------------
(* Properties *)

\* Every variable has its type, and a session has roles of its own application
\* only, although a token may list several audiences
\* (firebaseBridge.service.ts:79-82); server-side applications have none.
BridgeTypeOK ==
    /\ issued \subseteq IdpToken
    /\ minting \in [BridgeApp -> RolesAt(BridgeApp)]
    /\ custom \in [BridgeApp -> RolesAt(BridgeApp)]
    /\ firebase \in [BridgeApp -> FirebaseUser]
    /\ sweep \in [running : BOOLEAN, todo : SUBSET BridgeApp, failed : SUBSET BridgeApp]
    /\ answered \in [BridgeApp -> {"none", "200", "400"}]
    /\ sweep.todo # {} => sweep.running
    /\ \A a \in BridgeApp :
          firebase[a].roles \in RolesAt({a}) /\ (a \notin SignInApp => firebase[a].roles = {})

(***************************************************************************)
(* A sign-out everywhere ends, in every application, the session that was  *)
(* open when it began: neither another application's failure nor one the   *)
(* person never used is in the way.  (Who was signing in meanwhile stays.) *)
(* To its back-channel logout the provider is answered 200 only if the     *)
(* session that it logged out is gone.                                     *)
(***************************************************************************)
SignOutIsTrue ==
    \A a \in BridgeApp :
        /\ "sweep" \in firebase[a].due => a \in sweep.todo \cup sweep.failed
        /\ answered[a] = "200" => "logout" \notin firebase[a].due
=============================================================================
