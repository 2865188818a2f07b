------------------------------- MODULE MfaLogin -------------------------------
(***************************************************************************)
(* The authenticator code of one break-glass account: the second half of   *)
(* login (modules/auth/auth.service.ts), verifyTotp (lib/totp.ts) and the  *)
(* enrolment script (scripts/mfa-enroll.ts).  A login reads the row, waits *)
(* for the password hash, checks the code against what it read, and only   *)
(* then writes the code's time step back.  A code is a secret together     *)
(* with a time step; equal codes of different steps are not considered.    *)
(***************************************************************************)
EXTENDS Integers

CONSTANTS
    Login,      \* password logins of this account that may run together
    Secret,     \* authenticator secrets that enrolments may generate
    MaxStep,    \* bound on the clock, in time steps of 30 seconds
    None        \* no authenticator

ASSUME StepAssumption == MaxStep \in Nat \ {0}

ASSUME SecretAssumption == None \notin Secret

VARIABLES
    now,        \* the current time step
    secret,     \* AdminUser.mfaSecret (mfaEnabled says it is there)
    lastUsed,   \* AdminUser.mfaLastUsedStep
    login,      \* login[l]: where login l stands, what it read, its step
    issued,     \* the secrets generated so far
    accepted,   \* history: the codes that enrolled or opened a session
    reused,     \* history: an accepted code opened (another) session
    overlapped  \* history: a login met another writer of mfaLastUsedStep

vars == <<now, secret, lastUsed, login, issued, accepted, reused, overlapped>>

\* mfaLastUsedStep is null.
Never == -1

\* verifyTotp: the current step and one either side.
Window == {now - 1, now, now + 1}

Step == 0..(MaxStep + 1)

LoginState ==
    [pc: {"idle", "read", "mark", "open"}, secret: Secret \cup {None},
     lastUsed: Step \cup {Never}, step: Step \cup {Never}]

Holding(pc, s, last, k) ==
    [pc |-> pc, secret |-> s, lastUsed |-> last, step |-> k]

Idle == Holding("idle", None, Never, Never)

TypeOK ==
    /\ now \in 1..MaxStep
    /\ secret \in issued \cup {None}
    /\ lastUsed \in Step \cup {Never}
    /\ login \in [Login -> LoginState]
    /\ issued \in SUBSET Secret
    /\ accepted \in SUBSET (issued \X Step)
    /\ reused \in BOOLEAN
    /\ overlapped \in BOOLEAN

At(l, pc) == login[l].pc = pc

\* Past reading mfaLastUsedStep and before writing it.
Checking(l) == At(l, "read") \/ At(l, "mark")

Become(l, new) == login' = [login EXCEPT ![l] = new]

(* findUnique; argon2 verifies the password while others run. *)
Read(l) ==
    /\ At(l, "idle")
    /\ secret # None
    /\ Become(l, Holding("read", secret, lastUsed, Never))
    /\ overlapped' = (overlapped \/ \E x \in Login : Checking(x))
    /\ UNCHANGED <<now, secret, lastUsed, issued, accepted, reused>>

\* Mutant: the last used step itself is accepted again.
VerifyAgain(l, k) ==
    /\ At(l, "read")
    /\ k \in Window
    /\ k >= login[l].lastUsed
    /\ Become(l, Holding("mark", login[l].secret, login[l].lastUsed, k))
    /\ UNCHANGED <<now, secret, lastUsed, issued, accepted, reused, overlapped>>

(* verifyTotp accepts the code of step k, by the clock of this moment and *)
(* the secret and last step of the row as it was read.                    *)
Verify(l, k) ==
    /\ At(l, "read")
    /\ k \in Window
    /\ k > login[l].lastUsed
    /\ Become(l, Holding("mark", login[l].secret, login[l].lastUsed, k))
    /\ UNCHANGED <<now, secret, lastUsed, issued, accepted, reused, overlapped>>

(* The update of mfaLastUsedStep, whatever the row says by now. *)
Mark(l) ==
    /\ At(l, "mark")
    /\ lastUsed' = login[l].step
    /\ Become(l, [login[l] EXCEPT !.pc = "open"])
    /\ UNCHANGED <<now, secret, issued, accepted, reused, overlapped>>

(* createSession. *)
Open(l) ==
    /\ At(l, "open")
    /\ LET code == <<login[l].secret, login[l].step>> IN
        /\ reused' = (reused \/ code \in accepted)
        /\ accepted' = accepted \cup {code}
    /\ Become(l, Idle)
    /\ UNCHANGED <<now, secret, lastUsed, issued, overlapped>>

(* A wrong code or password, a database call that rejects, a restart. *)
Fail(l) ==
    /\ ~At(l, "idle")
    /\ Become(l, Idle)
    /\ UNCHANGED <<now, secret, lastUsed, issued, accepted, reused, overlapped>>

(* mfa-enroll: a new secret, confirmed by its code of step k. *)
Enroll(s, k) ==
    /\ s \in Secret \ issued
    /\ k \in Window
    /\ secret' = s
    /\ lastUsed' = k
    /\ issued' = issued \cup {s}
    /\ accepted' = accepted \cup {<<s, k>>}
    /\ overlapped' = (overlapped \/ \E x \in Login : Checking(x))
    /\ UNCHANGED <<now, login, reused>>

Tick ==
    /\ now < MaxStep
    /\ now' = now + 1
    /\ UNCHANGED <<secret, lastUsed, login, issued, accepted, reused, overlapped>>

Init ==
    /\ now = 1
    /\ secret = None
    /\ lastUsed = Never
    /\ login = [l \in Login |-> Idle]
    /\ issued = {}
    /\ accepted = {}
    /\ reused = FALSE
    /\ overlapped = FALSE

Next ==
    \/ \E l \in Login :
        \/ Read(l)
        \/ \E k \in Step : Verify(l, k)
        \/ Mark(l)
        \/ Open(l)
        \/ Fail(l)
    \/ \E s \in Secret, k \in Step : Enroll(s, k)
    \/ Tick

Spec == Init /\ [][Next]_vars
-----------------------------------------------------------------------------
(* Properties *)

(***************************************************************************)
(* No code opens a session after it has enrolled the authenticator or      *)
(* opened another one, with any clock drift, failure between the two       *)
(* writes, or reset of the authenticator, unless a login met another       *)
(* writer of mfaLastUsedStep between its read and its write.               *)
(***************************************************************************)
CodeWorksOnceAlone == reused => overlapped

(***************************************************************************)
(* docs/SLC-CENTRAL-SSO.md, on break-glass sign-in: "A code works only     *)
(* once."                                                                  *)
(***************************************************************************)
CodeWorksOnce == ~reused
=============================================================================
