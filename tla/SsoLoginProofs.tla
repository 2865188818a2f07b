---------------------------- MODULE SsoLoginProofs ----------------------------
(***************************************************************************)
(* What holds of the sign-ins through the central identity provider for    *)
(* any number of people, accounts, sign-ins in progress and sessions.      *)
(***************************************************************************)
EXTENDS SsoLogin, TLAPS

(***************************************************************************)
(* The invariant of the tables: what a sign-in in progress holds, and the  *)
(* unique column of the subject.                                           *)
(***************************************************************************)
Located ==
    \A l \in Login :
        /\ ~At(l, "idle") => login[l].sid \in Sid
        /\ login[l].pc \in {"subject", "email"} => login[l].email \in Email
        /\ login[l].pc \in SyncPC \cup {"link"} =>
             login[l].admin \in Admin /\ account[login[l].admin].status # "ABSENT"

Blank ==
    \A a \in Admin :
        account[a].status = "ABSENT" => account[a].subject = None /\ account[a].email = None

UniqueSubject ==
    \A a, b \in Admin :
        account[a].subject = account[b].subject => a = b \/ account[a].subject = None

Owned == \A t \in Live : account[session[t].owner].status # "ABSENT"

TypeInv == TypeOK /\ Located /\ Blank /\ UniqueSubject /\ Owned

\* Sign-ins that work on the same roles have met; an undisturbed one has
\* deleted all the rows there are.
SyncsMeet ==
    \A l, d \in Login :
        /\ l # d
        /\ login[l].pc \in SyncPC
        /\ login[d].pc \in SyncPC
        /\ login[l].admin = login[d].admin
        => login[l].met

Doomed ==
    \A l \in Login :
        At(l, "insert") => login[l].met \/ login[l].doomed = roles[login[l].admin]

RolesInv == SyncsMeet /\ Doomed /\ RolesFollowToken

\* The same of two that link one account: an undisturbed one takes it from
\* nobody.
LinksMeet ==
    \A l, d \in Login :
        /\ l # d
        /\ At(l, "link")
        /\ At(d, "link")
        /\ login[l].admin = login[d].admin
        => login[l].met

Vacant ==
    \A l \in Login :
        At(l, "link") =>
            login[l].met \/ account[login[l].admin].subject \in {None, SubjectOf(l)}

LinkInv == LinksMeet /\ Vacant

\* What a sign-in will open its session with.
Warned ==
    \A l \in Login :
        /\ login[l].pc \in SyncPC =>
             \/ account[login[l].admin].status = "ACTIVE"
             \/ login[l].admin \in revoking
             \/ login[l].late
        /\ ~At(l, "idle") /\ login[l].sid \in ended => login[l].late

\* The account that s signs in to, or is signed in to, is its own.
BelongsTo(a, s) == account[a].subject = s \/ <<a, s>> \in lost

OwnAccount ==
    /\ \A l \in Login : login[l].pc \in SyncPC => BelongsTo(login[l].admin, SubjectOf(l))
    /\ \A t \in Live : BelongsTo(session[t].owner, session[t].sid[1])

EndInv == Warned /\ OwnAccount /\ SessionsAreEnded
-----------------------------------------------------------------------------
LoginPC == SyncPC \cup {"idle", "subject", "email", "link", "create"}

(***************************************************************************)
(* The writes of a sign-in's state: its own, and what others learn of it.  *)
(***************************************************************************)
LEMMA FreshState ==
    ASSUME NEW sid \in Sid, NEW email \in Email, NEW keys \in SUBSET RoleKey
    PROVE  /\ Fresh("subject", sid, email, keys) \in LoginState
           /\ Fresh("subject", sid, email, keys).pc = "subject"
           /\ Fresh("subject", sid, email, keys).sid = sid
           /\ Fresh("subject", sid, email, keys).email = email
           /\ ~Fresh("subject", sid, email, keys).late
BY DEF Fresh, LoginState

\* A sign-in that has ended has its type.
LEMMA IdleState == Idle \in LoginState /\ Idle.pc = "idle"
BY DEF Idle, Fresh, LoginState

\* A sign-in that moves leaves the others as they are.
LEMMA BecomeSound ==
    ASSUME TypeOK, NEW l \in Login, NEW q \in LoginState, Become(l, q)
    PROVE  /\ login' \in [Login -> LoginState]
           /\ login'[l] = q
           /\ \A x \in Login : x # l => login'[x] = login[x]
BY DEF TypeOK, Become

\* What a sign-in that another meets, or a revocation overtakes, keeps.
SameButNotes(p, q) ==
    /\ q \in LoginState
    /\ q.pc = p.pc /\ q.sid = p.sid /\ q.email = p.email /\ q.keys = p.keys
    /\ q.admin = p.admin /\ q.doomed = p.doomed

\* One that meets others is noted with them, and changes nothing else of theirs.
LEMMA MeetSound ==
    ASSUME TypeOK, NEW l \in Login, NEW q \in LoginState, NEW peers, l \notin peers,
           Meet(l, q, peers)
    PROVE  /\ login' \in [Login -> LoginState]
           /\ SameButNotes(q, login'[l])
           /\ login'[l].met = (peers # {})
           /\ login'[l].late = q.late
           /\ \A x \in Login : x # l =>
                /\ SameButNotes(login[x], login'[x])
                /\ login'[x].late = login[x].late
                /\ login'[x].met = (login[x].met \/ x \in peers)
<1> DEFINE own == [q EXCEPT !.met = peers # {}]
<1>1. \A x \in Login :
        login'[x] = IF x = l THEN own
                    ELSE IF x \in peers THEN [login[x] EXCEPT !.met = TRUE] ELSE login[x]
  BY DEF Meet
<1>2. \A p \in LoginState :
        /\ SameButNotes(p, [p EXCEPT !.met = TRUE])
        /\ [p EXCEPT !.met = TRUE].met = TRUE
        /\ [p EXCEPT !.met = TRUE].late = p.late
        /\ SameButNotes(p, p)
  BY DEF LoginState, SameButNotes
<1>3. SameButNotes(q, own) /\ own.met = (peers # {}) /\ own.late = q.late
  BY DEF LoginState, SameButNotes
<1>4. \A x \in Login : login[x] \in LoginState /\ login[x].met \in BOOLEAN
  BY DEF TypeOK, LoginState
<1> HIDE DEF own
<1>5. ASSUME NEW x \in Login, x # l
      PROVE  /\ SameButNotes(login[x], login'[x])
             /\ login'[x].late = login[x].late
             /\ login'[x].met = (login[x].met \/ x \in peers)
  <2>1. CASE x \in peers
    <3>1. login'[x] = [login[x] EXCEPT !.met = TRUE]
      BY <1>1, <1>5, <2>1
    <3> QED
      BY <1>2, <1>4, <2>1, <3>1
  <2>2. CASE x \notin peers
    BY <1>1, <1>2, <1>4, <1>5, <2>2
  <2> QED
    BY <2>1, <2>2
<1>6. login' = [x \in Login |-> login'[x]]
  BY DEF Meet
<1>7. \A x \in Login : login'[x] \in LoginState
  BY <1>1, <1>3, <1>5 DEF SameButNotes
<1>8. login' \in [Login -> LoginState]
  BY <1>6, <1>7
<1> QED
  BY <1>1, <1>3, <1>5, <1>8

\* A sign-in that is overtaken is noted as late and stays where it is.
LEMMA OvertakeSound ==
    ASSUME TypeOK, NEW ls, Overtake(ls)
    PROVE  /\ login' \in [Login -> LoginState]
           /\ \A x \in Login :
                /\ SameButNotes(login[x], login'[x])
                /\ login'[x].met = login[x].met
                /\ login'[x].late = (login[x].late \/ x \in ls)
<1>1. \A x \in Login :
        login'[x] = IF x \in ls THEN [login[x] EXCEPT !.late = TRUE] ELSE login[x]
  BY DEF Overtake
<1>2. \A p \in LoginState :
        /\ SameButNotes(p, [p EXCEPT !.late = TRUE])
        /\ [p EXCEPT !.late = TRUE].late
        /\ [p EXCEPT !.late = TRUE].met = p.met
        /\ SameButNotes(p, p)
  BY DEF LoginState, SameButNotes
<1>3. \A x \in Login : login[x] \in LoginState /\ login[x].late \in BOOLEAN
  BY DEF TypeOK, LoginState
<1>4. ASSUME NEW x \in Login
      PROVE  /\ SameButNotes(login[x], login'[x])
             /\ login'[x].met = login[x].met
             /\ login'[x].late = (login[x].late \/ x \in ls)
  <2>1. CASE x \in ls
    BY <1>1, <1>2, <1>3, <2>1
  <2>2. CASE x \notin ls
    BY <1>1, <1>2, <1>3, <2>2
  <2> QED
    BY <2>1, <2>2
<1>5. login' = [x \in Login |-> login'[x]] /\ \A x \in Login : login'[x] \in LoginState
  BY <1>4 DEF Overtake, SameButNotes
<1> QED
  BY <1>4, <1>5
\* A sign-in that goes on keeps what it has read.
LEMMA GotoSound ==
    ASSUME TypeOK, NEW l \in Login, NEW pc \in LoginPC, Goto(l, pc)
    PROVE  /\ login' \in [Login -> LoginState]
           /\ login'[l].pc = pc
           /\ login'[l].sid = login[l].sid /\ login'[l].email = login[l].email
           /\ login'[l].keys = login[l].keys /\ login'[l].admin = login[l].admin
           /\ login'[l].doomed = login[l].doomed /\ login'[l].met = login[l].met
           /\ login'[l].late = login[l].late
           /\ \A x \in Login : x # l => login'[x] = login[x]
<1> DEFINE q == [login[l] EXCEPT !.pc = pc]
<1>1. q \in LoginState /\ q.pc = pc /\ q.sid = login[l].sid /\ q.email = login[l].email
      /\ q.keys = login[l].keys /\ q.admin = login[l].admin
      /\ q.doomed = login[l].doomed /\ q.met = login[l].met /\ q.late = login[l].late
  BY DEF TypeOK, LoginState, LoginPC
<1>2. Become(l, q)
  BY DEF Goto
<1> QED
  BY <1>1, <1>2, BecomeSound

\* One that ends leaves the others as they are.
LEMMA LeaveSound ==
    ASSUME TypeOK, NEW l \in Login, Leave(l)
    PROVE  /\ login' \in [Login -> LoginState]
           /\ login'[l].pc = "idle"
           /\ \A x \in Login : x # l => login'[x] = login[x]
BY IdleState, BecomeSound DEF Leave

\* A sign-in that has found its account meets those that are syncing it.
LEMMA AdmitSound ==
    ASSUME TypeOK, NEW l \in Login, login[l].pc \notin SyncPC, NEW a \in Admin, NEW row,
           Admit(l, a, row)
    PROVE  /\ login' \in [Login -> LoginState]
           /\ login'[l].pc = "roles" /\ login'[l].admin = a
           /\ login'[l].sid = login[l].sid
           /\ login'[l].met = (Syncing(a) # {}) /\ login'[l].late = login[l].late
           /\ \A x \in Login : x # l =>
                /\ SameButNotes(login[x], login'[x])
                /\ login'[x].late = login[x].late
                /\ login'[x].met = (login[x].met \/ x \in Syncing(a))
<1> DEFINE email == IF login[l].email = row.email THEN None ELSE login[l].email
           q == [login[l] EXCEPT !.pc = "roles", !.admin = a, !.email = email]
<1>1. email \in Email \cup {None}
  BY DEF TypeOK, LoginState
<1> HIDE DEF email
<1>2. q \in LoginState /\ q.pc = "roles" /\ q.admin = a /\ q.sid = login[l].sid
      /\ q.late = login[l].late
  BY <1>1 DEF TypeOK, LoginState, SyncPC
<1>3. Meet(l, q, Syncing(a)) /\ l \notin Syncing(a)
  BY DEF Admit, Syncing, email
<1> HIDE DEF q
<1> QED
  BY <1>2, <1>3, MeetSound DEF SameButNotes

\* A sign-in that is about to link meets those that are linking the account.
LEMMA JoinSound ==
    ASSUME TypeOK, NEW l \in Login, ~At(l, "link"), NEW a \in Admin,
           Meet(l, [login[l] EXCEPT !.pc = "link", !.admin = a], Linking(a))
    PROVE  /\ login' \in [Login -> LoginState]
           /\ login'[l].pc = "link" /\ login'[l].admin = a
           /\ login'[l].sid = login[l].sid
           /\ login'[l].met = (Linking(a) # {}) /\ login'[l].late = login[l].late
           /\ \A x \in Login : x # l =>
                /\ SameButNotes(login[x], login'[x])
                /\ login'[x].late = login[x].late
                /\ login'[x].met = (login[x].met \/ x \in Linking(a))
<1> DEFINE q == [login[l] EXCEPT !.pc = "link", !.admin = a]
<1>1. q \in LoginState /\ q.pc = "link" /\ q.admin = a /\ q.sid = login[l].sid
      /\ q.late = login[l].late
  BY DEF TypeOK, LoginState
<1>2. Meet(l, q, Linking(a)) /\ l \notin Linking(a)
  BY DEF Linking
<1> HIDE DEF q
<1> QED
  BY <1>1, <1>2, MeetSound DEF SameButNotes

\* The deletion keeps in mind which roles it saw.
LEMMA DeletedSound ==
    ASSUME TypeOK, NEW l \in Login, login[l].admin \in Admin, DeleteRoles(l)
    PROVE  /\ login' \in [Login -> LoginState]
           /\ login'[l].pc = "insert" /\ login'[l].doomed = roles[login[l].admin]
           /\ login'[l].sid = login[l].sid /\ login'[l].keys = login[l].keys
           /\ login'[l].admin = login[l].admin
           /\ login'[l].met = login[l].met /\ login'[l].late = login[l].late
           /\ \A x \in Login : x # l => login'[x] = login[x]
<1> DEFINE q == [login[l] EXCEPT !.pc = "insert", !.doomed = roles[login[l].admin]]
<1>1. roles[login[l].admin] \in SUBSET RoleKey
  BY DEF TypeOK
<1>2. q \in LoginState /\ q.pc = "insert" /\ q.doomed = roles[login[l].admin]
      /\ q.sid = login[l].sid /\ q.keys = login[l].keys
      /\ q.admin = login[l].admin /\ q.met = login[l].met /\ q.late = login[l].late
  BY <1>1 DEF TypeOK, LoginState, SyncPC
<1>3. Become(l, q)
  BY DEF DeleteRoles
<1> HIDE DEF q
<1> QED
  BY <1>2, <1>3, BecomeSound

\* The look for a clash of e-mails changes nothing.
LEMMA ClashSound ==
    ASSUME TypeOK, NEW l \in Login, FindClash(l)
    PROVE  /\ login' \in [Login -> LoginState]
           /\ login'[l].pc = "profile" /\ login'[l].sid = login[l].sid
           /\ login'[l].keys = login[l].keys /\ login'[l].admin = login[l].admin
           /\ login'[l].met = login[l].met /\ login'[l].late = login[l].late
           /\ \A x \in Login : x # l => login'[x] = login[x]
<1> DEFINE email == IF Owning(login[l].email) = {} THEN login[l].email ELSE None
           q == [login[l] EXCEPT !.pc = "profile", !.email = email]
<1>1. email \in Email \cup {None}
  BY DEF TypeOK, LoginState
<1>2. Become(l, q)
  BY DEF FindClash
<1> HIDE DEF email
<1>3. q \in LoginState /\ q.pc = "profile"
      /\ q.sid = login[l].sid /\ q.keys = login[l].keys
      /\ q.admin = login[l].admin /\ q.met = login[l].met /\ q.late = login[l].late
  BY <1>1 DEF TypeOK, LoginState, SyncPC
<1> HIDE DEF q
<1> QED
  BY <1>2, <1>3, BecomeSound

\* What a sign-in keeps when another one inserts roles: all but what is left
\* to delete.
LEMMA InsertedSound ==
    ASSUME TypeOK, NEW l \in Login, InsertRoles(l)
    PROVE  /\ login' \in [Login -> LoginState]
           /\ login'[l].pc = AfterSync(l)
           /\ \A x \in Login :
                /\ x # l => login'[x].pc = login[x].pc
                /\ login'[x].sid = login[x].sid
                /\ login'[x].keys = login[x].keys /\ login'[x].admin = login[x].admin
                /\ login'[x].met = login[x].met /\ login'[x].late = login[x].late
                /\ login[x].admin # login[l].admin => login'[x].doomed = login[x].doomed
<1>1. \A x \in Login : login'[x] =
        IF x = l THEN [login[l] EXCEPT !.pc = AfterSync(l), !.doomed = {}]
        ELSE IF login[x].admin = login[l].admin
             THEN [login[x] EXCEPT !.doomed = login[x].doomed \ login[l].doomed]
             ELSE login[x]
  BY DEF InsertRoles
<1>2. AfterSync(l) \in SyncPC /\ \A x \in Login : login[x] \in LoginState
  BY DEF TypeOK, AfterSync, SyncPC
<1>3. ASSUME NEW x \in Login
      PROVE  /\ login'[x] \in LoginState
             /\ x # l => login'[x].pc = login[x].pc
             /\ x = l => login'[x].pc = AfterSync(l)
             /\ login'[x].sid = login[x].sid
             /\ login'[x].keys = login[x].keys /\ login'[x].admin = login[x].admin
             /\ login'[x].met = login[x].met /\ login'[x].late = login[x].late
             /\ login[x].admin # login[l].admin => login'[x].doomed = login[x].doomed
  <2>1. CASE x = l
    <3>1. login'[x] = [login[l] EXCEPT !.pc = AfterSync(l), !.doomed = {}]
      BY <1>1, <2>1
    <3> QED
      BY <1>2, <2>1, <3>1 DEF LoginState
  <2>2. CASE x # l /\ login[x].admin = login[l].admin
    <3>1. login'[x] = [login[x] EXCEPT !.doomed = login[x].doomed \ login[l].doomed]
      BY <1>1, <2>2
    <3> QED
      BY <1>2, <2>2, <3>1 DEF LoginState
  <2>3. CASE x # l /\ login[x].admin # login[l].admin
    BY <1>1, <1>2, <2>3
  <2> QED
    BY <2>1, <2>2, <2>3
<1>4. login' = [x \in Login |-> login'[x]]
  BY DEF InsertRoles
<1>5. login' \in [Login -> LoginState]
  BY <1>3, <1>4
<1> QED
  BY <1>3, <1>5

\* An administrator's assignment meets the sign-ins that are syncing the account.
LEMMA AssignedSound ==
    ASSUME TypeOK, NEW a \in Admin, NEW keys, AssignRoles(a, keys)
    PROVE  /\ login' \in [Login -> LoginState]
           /\ \A x \in Login :
                /\ login'[x].pc = login[x].pc /\ login'[x].sid = login[x].sid
                /\ login'[x].keys = login[x].keys /\ login'[x].admin = login[x].admin
                /\ login'[x].late = login[x].late
                /\ x \in Syncing(a) => login'[x].met
                /\ x \notin Syncing(a) => login'[x] = login[x]
<1>1. \A x \in Login : login'[x] =
        IF x \in Syncing(a) THEN [login[x] EXCEPT !.met = TRUE, !.doomed = {}]
        ELSE login[x]
  BY DEF AssignRoles
<1>2. \A x \in Login : login[x] \in LoginState
  BY DEF TypeOK
<1>3. ASSUME NEW x \in Login
      PROVE  /\ login'[x] \in LoginState
             /\ login'[x].pc = login[x].pc /\ login'[x].sid = login[x].sid
             /\ login'[x].keys = login[x].keys /\ login'[x].admin = login[x].admin
             /\ login'[x].late = login[x].late
             /\ x \in Syncing(a) => login'[x].met
             /\ x \notin Syncing(a) => login'[x] = login[x]
  <2>1. CASE x \in Syncing(a)
    <3>1. login'[x] = [login[x] EXCEPT !.met = TRUE, !.doomed = {}]
      BY <1>1, <2>1
    <3> QED
      BY <1>2, <2>1, <3>1 DEF LoginState
  <2>2. CASE x \notin Syncing(a)
    BY <1>1, <1>2, <2>2
  <2> QED
    BY <2>1, <2>2
<1>4. login' = [x \in Login |-> login'[x]]
  BY DEF AssignRoles
<1>5. login' \in [Login -> LoginState]
  BY <1>3, <1>4
<1> QED
  BY <1>3, <1>5

(***************************************************************************)
(* The writes of the session table.                                        *)
(***************************************************************************)
LEMMA WithoutSound ==
    ASSUME TypeOK, NEW ts
    PROVE  /\ Without(ts) \in [Token -> Session \cup {None}]
           /\ \A t \in Token : Without(ts)[t] # None =>
                t \in Live /\ t \notin ts /\ Without(ts)[t] = session[t]
BY DEF TypeOK, Without, Live

\* Sessions that outlive a revocation are marked and keep the rest.
LEMMA OutlivingSound ==
    ASSUME TypeOK, NEW ts \in SUBSET Live
    PROVE  /\ Outliving(ts) \in [Token -> Session \cup {None}]
           /\ \A t \in Token : Outliving(ts)[t] # None =>
                /\ t \in Live
                /\ Outliving(ts)[t].owner = session[t].owner
                /\ Outliving(ts)[t].sid = session[t].sid
                /\ t \in ts => Outliving(ts)[t].outlived
                /\ t \notin ts => Outliving(ts)[t] = session[t]
<1>1. \A t \in Live : session[t] \in Session
  BY DEF TypeOK, Live
<1>2. \A s \in Session :
        /\ [s EXCEPT !.outlived = TRUE] \in Session
        /\ [s EXCEPT !.outlived = TRUE].owner = s.owner
        /\ [s EXCEPT !.outlived = TRUE].sid = s.sid
        /\ [s EXCEPT !.outlived = TRUE].outlived
  BY DEF Session
<1>3. ASSUME NEW t \in Token
      PROVE  Outliving(ts)[t] = IF t \in ts THEN [session[t] EXCEPT !.outlived = TRUE]
                                ELSE session[t]
  BY DEF Outliving
<1>4. \A t \in Token : Outliving(ts)[t] \in Session \cup {None}
  BY <1>1, <1>2, <1>3 DEF TypeOK
<1>5. Outliving(ts) \in [Token -> Session \cup {None}]
  BY <1>4 DEF Outliving
<1> QED
  BY <1>1, <1>2, <1>3, <1>5 DEF Live
-----------------------------------------------------------------------------
(***************************************************************************)
(* Every step keeps the tables and the sign-ins well formed.  Accounts     *)
(* never go away, so a step of sign-in l has to look after l alone.        *)
(***************************************************************************)
Remaining == \A a \in Admin : account[a].status # "ABSENT" => account'[a].status # "ABSENT"

\* When one sign-in moves, its account has to be there, and the others' stay.
LEMMA LocatedStep ==
    ASSUME TypeInv, Remaining, NEW l \in Login, login' \in [Login -> LoginState],
           \A x \in Login : x # l => login'[x] = login[x] \/ SameButNotes(login[x], login'[x]),
           login'[l].pc # "idle" => login'[l].sid \in Sid,
           login'[l].pc \in {"subject", "email"} => login'[l].email \in Email,
           login'[l].pc \in SyncPC \cup {"link"} =>
               login'[l].admin \in Admin /\ account'[login'[l].admin].status # "ABSENT"
    PROVE  Located'
BY DEF TypeInv, Located, Remaining, SameButNotes, At

\* When none moves, all accounts stay.
LEMMA LocatedStays ==
    ASSUME TypeInv, Remaining,
           \A x \in Login : /\ login'[x].pc = login[x].pc /\ login'[x].sid = login[x].sid
                            /\ login'[x].admin = login[x].admin
                            /\ login'[x].email = login[x].email
    PROVE  Located'
BY DEF TypeInv, Located, Remaining, At

\* The parts of the type invariant that a sign-in's own steps leave alone.
LEMMA SignInTyped ==
    ASSUME TypeInv, NEW l \in Login, login' \in [Login -> LoginState], Located',
           UNCHANGED <<account, session, logout, revoking, ended, lost>>,
           roles' \in [Admin -> SUBSET RoleKey]
    PROVE  TypeInv'
BY DEF TypeInv, TypeOK, Blank, UniqueSubject, Owned, Live

\* An admitted sign-in works on an account there is.
LEMMA AdmitTyped ==
    ASSUME TypeInv, NEW l \in Login, login[l].pc \notin SyncPC, ~At(l, "idle"),
           NEW a \in Admin, NEW row, Reached(l, a, row), row = account'[a], Remaining
    PROVE  login' \in [Login -> LoginState] /\ Located'
<1>0. TypeOK /\ login[l].sid \in Sid
  BY DEF TypeInv, Located
<1>1. CASE Leave(l)
  BY <1>0, <1>1, LeaveSound, LocatedStep, Zenon DEF SyncPC
<1>2. CASE Admit(l, a, row)
  <2>1. account'[a].status # "ABSENT"
    BY <1>2 DEF Admit
  <2>2. /\ login' \in [Login -> LoginState]
        /\ login'[l].pc = "roles" /\ login'[l].admin = a /\ login'[l].sid \in Sid
        /\ \A x \in Login : x # l => SameButNotes(login[x], login'[x])
    BY <1>0, <1>2, AdmitSound
  <2> QED
    BY <2>1, <2>2, LocatedStep
<1> QED
  BY <1>1, <1>2 DEF Reached, Refuse

\* Every step of a sign-in keeps the types.
LEMMA SignInStep == ASSUME TypeInv, NEW l \in Login, SignIn(l) PROVE TypeInv'
<1>0. TypeOK /\ Located /\ login[l] \in LoginState
  BY DEF TypeInv, TypeOK
<1>1. ASSUME NEW sid \in Sid, NEW email \in Email, NEW keys \in Grant,
             Exchange(l, sid, email, keys)
      PROVE  TypeInv'
  <2>1. keys \in SUBSET RoleKey
    BY GrantAssumption
  <2> DEFINE q == Fresh("subject", sid, email, keys)
  <2>2. q \in LoginState /\ q.pc = "subject" /\ q.sid = sid /\ q.email = email
    BY <2>1, FreshState
  <2>3. Become(l, q)
    BY <1>1 DEF Exchange
  <2> HIDE DEF q
  <2>4. /\ login' \in [Login -> LoginState] /\ login'[l] = q
        /\ \A x \in Login : x # l => login'[x] = login[x]
    BY <1>0, <2>2, <2>3, BecomeSound
  <2>5. Remaining
    BY <1>1 DEF Exchange, Remaining
  <2>6. Located'
    BY <2>2, <2>4, <2>5, LocatedStep DEF SyncPC
  <2> QED
    BY <1>0, <1>1, <2>4, <2>6, SignInTyped DEF Exchange, TypeOK
<1>2. CASE FindBySubject(l)
  <2>1. Remaining /\ ~At(l, "idle") /\ login[l].pc \notin SyncPC
    BY <1>2 DEF FindBySubject, Remaining, At, SyncPC
  <2>2. ASSUME NEW a \in Linked(SubjectOf(l)), Reached(l, a, account[a])
        PROVE  login' \in [Login -> LoginState] /\ Located'
    <3>1. a \in Admin /\ account' = account
      BY <1>2 DEF Linked, FindBySubject
    <3> QED
      BY <2>1, <2>2, <3>1, AdmitTyped
  <2>3. ASSUME Goto(l, "email") PROVE login' \in [Login -> LoginState] /\ Located'
    <3>1. /\ login' \in [Login -> LoginState] /\ login'[l].pc = "email"
          /\ login'[l].sid = login[l].sid /\ login'[l].email = login[l].email
          /\ \A x \in Login : x # l => login'[x] = login[x]
      BY <1>0, <2>3, GotoSound DEF LoginPC
    <3> QED
      BY <1>0, <1>2, <2>1, <3>1, LocatedStep DEF FindBySubject, Located, At, SyncPC
  <2>4. login' \in [Login -> LoginState] /\ Located'
    BY <1>2, <2>2, <2>3 DEF FindBySubject
  <2> QED
    BY <1>0, <1>2, <2>4, SignInTyped DEF FindBySubject, TypeOK
<1>3. ASSUME NEW verified, FindByEmail(l, verified) PROVE TypeInv'
  <2>1. Remaining /\ ~At(l, "idle") /\ At(l, "email")
        /\ login[l].sid \in Sid /\ login[l].email \in Email
    BY <1>0, <1>3 DEF FindByEmail, Remaining, At, Located
  <2>2. ASSUME Goto(l, "create") PROVE login' \in [Login -> LoginState] /\ Located'
    <3>1. /\ login' \in [Login -> LoginState] /\ login'[l].pc = "create"
          /\ login'[l].sid = login[l].sid
          /\ \A x \in Login : x # l => login'[x] = login[x]
      BY <1>0, <2>2, GotoSound DEF LoginPC
    <3> QED
      BY <2>1, <3>1, LocatedStep DEF SyncPC
  <2>3. ASSUME Leave(l) PROVE login' \in [Login -> LoginState] /\ Located'
    BY <1>0, <2>1, <2>3, LeaveSound, LocatedStep DEF SyncPC
  <2>4. ASSUME NEW a \in Owning(login[l].email),
               Meet(l, [login[l] EXCEPT !.pc = "link", !.admin = a], Linking(a))
        PROVE  login' \in [Login -> LoginState] /\ Located'
    <3>1. a \in Admin /\ account[a].email = login[l].email
      BY DEF Owning
    <3>2. /\ login' \in [Login -> LoginState]
          /\ login'[l].pc = "link" /\ login'[l].admin = a /\ login'[l].sid = login[l].sid
          /\ \A x \in Login : x # l => SameButNotes(login[x], login'[x])
      BY <1>0, <2>1, <2>4, <3>1, JoinSound DEF At
    <3>3. account'[a].status # "ABSENT"
      BY <2>1, <3>1, <1>3, NoneAssumption DEF TypeInv, Blank, FindByEmail
    <3> QED
      BY <2>1, <3>1, <3>2, <3>3, LocatedStep
  <2>5. login' \in [Login -> LoginState] /\ Located'
    BY <1>3, <2>2, <2>3, <2>4 DEF FindByEmail
  <2> QED
    BY <1>0, <1>3, <2>5, SignInTyped DEF FindByEmail, TypeOK
<1>4. CASE Link(l)
  <2> DEFINE a == login[l].admin
             row == [account[a] EXCEPT !.subject = SubjectOf(l)]
  <2>1. /\ a \in Admin /\ account[a].status # "ABSENT" /\ account[a] \in Account
        /\ SubjectOf(l) \in Subject /\ ~At(l, "idle") /\ login[l].pc \notin SyncPC
    BY <1>0, <1>4 DEF Link, Located, At, SyncPC, Sid, SubjectOf, TypeOK
  <2>2. /\ row \in Account /\ row.subject = SubjectOf(l)
        /\ row.status = account[a].status /\ row.email = account[a].email
    BY <2>1 DEF Account
  <2>3. /\ account' = [account EXCEPT ![a] = row] /\ Reached(l, a, row)
        /\ Linked(SubjectOf(l)) \subseteq {a}
    BY <1>4 DEF Link
  <2> HIDE DEF row
  <2>4. /\ account' \in [Admin -> Account] /\ account'[a] = row
        /\ \A b \in Admin : b # a => account'[b] = account[b]
    BY <1>0, <2>1, <2>2, <2>3 DEF TypeOK
  <2>5. Remaining
    BY <2>1, <2>2, <2>4 DEF Remaining
  <2> HIDE DEF a
  <2>6. login' \in [Login -> LoginState] /\ Located'
    BY <2>1, <2>3, <2>4, <2>5, AdmitTyped
  <2>7. lost' \in SUBSET (Admin \X Subject)
    BY <1>0, <1>4, <2>1 DEF Link, TypeOK, Account, a
  <2>8. TypeOK'
    BY <1>0, <1>4, <2>4, <2>6, <2>7 DEF Link, TypeOK
  <2>9. Blank' /\ Owned'
    BY <1>4, <2>1, <2>2, <2>4, <2>5
       DEF TypeInv, TypeOK, Blank, Owned, Live, Link, Remaining, Session
  <2>10. UniqueSubject'
    BY <2>1, <2>2, <2>3, <2>4 DEF TypeInv, UniqueSubject, Linked
  <2> QED
    BY <2>6, <2>8, <2>9, <2>10 DEF TypeInv
<1>5. ASSUME NEW a \in Admin, Create(l, a) PROVE TypeInv'
  <2> DEFINE row == [status |-> "ACTIVE", email |-> login[l].email, subject |-> SubjectOf(l)]
  <2>1. /\ SubjectOf(l) \in Subject /\ ~At(l, "idle") /\ login[l].pc \notin SyncPC
    BY <1>0, <1>5 DEF Create, Located, At, SyncPC, Sid, SubjectOf
  <2>2. /\ row \in Account /\ row.subject = SubjectOf(l) /\ row.status = "ACTIVE"
    BY <1>0, <2>1 DEF Account, LoginState
  <2>3. /\ account' = [account EXCEPT ![a] = row] /\ Admit(l, a, row)
        /\ Linked(SubjectOf(l)) = {}
    BY <1>5 DEF Create
  <2> HIDE DEF row
  <2>4. /\ account' \in [Admin -> Account] /\ account'[a] = row
        /\ \A b \in Admin : b # a => account'[b] = account[b]
    BY <1>0, <2>2, <2>3 DEF TypeOK
  <2>5. Remaining
    BY <2>2, <2>4 DEF Remaining
  <2>6. login' \in [Login -> LoginState] /\ Located'
    BY <2>1, <2>3, <2>4, <2>5, AdmitTyped DEF Reached
  <2>7. TypeOK'
    BY <1>0, <1>5, <2>4, <2>6 DEF Create, TypeOK
  <2>8. Blank' /\ Owned'
    BY <1>5, <2>2, <2>4, <2>5
       DEF TypeInv, TypeOK, Blank, Owned, Live, Create, Remaining, Session
  <2>9. UniqueSubject'
    BY <2>1, <2>2, <2>3, <2>4 DEF TypeInv, UniqueSubject, Linked
  <2> QED
    BY <2>6, <2>7, <2>8, <2>9 DEF TypeInv
<1>6. ASSUME NEW pc \in SyncPC, Goto(l, pc), login[l].pc \in SyncPC,
             UNCHANGED <<account, session, roles, logout, revoking, ended, lost>>
      PROVE  TypeInv'
  <2>1. /\ login' \in [Login -> LoginState] /\ login'[l].pc = pc
        /\ login'[l].sid = login[l].sid /\ login'[l].admin = login[l].admin
        /\ \A x \in Login : x # l => login'[x] = login[x]
    BY <1>0, <1>6, GotoSound DEF LoginPC
  <2>2. Located'
    BY <1>0, <1>6, <2>1, LocatedStep DEF Located, Remaining, At, SyncPC
  <2> QED
    BY <1>0, <1>6, <2>1, <2>2, SignInTyped DEF TypeOK
<1>7. CASE ReadRoles(l)
  BY <1>6, <1>7 DEF ReadRoles, AfterSync, At, SyncPC
<1>8. CASE DeleteRoles(l)
  <2>1. login[l].admin \in Admin /\ Remaining
    BY <1>0, <1>8 DEF DeleteRoles, Located, At, SyncPC, Remaining
  <2>2. login' \in [Login -> LoginState] /\ Located'
    BY <1>0, <1>8, <2>1, DeletedSound, LocatedStep DEF DeleteRoles, Located, At, SyncPC
  <2> QED
    BY <1>0, <1>8, <2>2, SignInTyped DEF DeleteRoles, TypeOK
<1>9. CASE InsertRoles(l)
  <2>1. /\ login' \in [Login -> LoginState] /\ AfterSync(l) \in SyncPC \ {"insert"}
        /\ At(l, "insert") /\ login'[l].pc = AfterSync(l)
        /\ \A x \in Login : /\ x # l => login'[x].pc = login[x].pc
                            /\ login'[x].sid = login[x].sid
                            /\ login'[x].admin = login[x].admin
    BY <1>0, <1>9, InsertedSound DEF InsertRoles, AfterSync, SyncPC
  <2>2. \A x \in Login : login[x].pc \in {"subject", "email"} => login'[x].email = login[x].email
    BY <1>0, <1>9 DEF InsertRoles, TypeOK, LoginState, At
  <2>3. Located'
    BY <1>0, <1>9, <2>1, <2>2 DEF Located, At, InsertRoles, SyncPC, AfterSync
  <2>4. roles' \in [Admin -> SUBSET RoleKey]
    <3>1. login[l].admin \in Admin /\ login[l].keys \in SUBSET RoleKey
      BY <1>0, <2>1 DEF Located, At, SyncPC, LoginState
    <3> QED
      BY <1>0, <1>9, <3>1 DEF InsertRoles, TypeOK
  <2> QED
    BY <1>0, <1>9, <2>1, <2>3, <2>4, SignInTyped DEF InsertRoles
<1>10. CASE FindClash(l)
  <2>1. Remaining
    BY <1>10 DEF FindClash, Remaining
  <2>2. login' \in [Login -> LoginState] /\ Located'
    BY <1>0, <1>10, <2>1, ClashSound, LocatedStep DEF FindClash, Located, At, SyncPC
  <2> QED
    BY <1>0, <1>10, <2>2, SignInTyped DEF FindClash, TypeOK
<1>11. CASE UpdateProfile(l)
  <2> DEFINE a == login[l].admin
  <2>1. a \in Admin /\ account[a].status # "ABSENT" /\ account[a] \in Account
    BY <1>0, <1>11 DEF UpdateProfile, Located, At, SyncPC, TypeOK
  <2>2. /\ account' \in [Admin -> Account]
        /\ \A b \in Admin : /\ account'[b].status = account[b].status
                            /\ account'[b].subject = account[b].subject
                            /\ b # a => account'[b] = account[b]
    <3>1. CASE UNCHANGED account
      BY <1>0, <3>1 DEF TypeOK
    <3>2. ASSUME login[l].email \in Email,
                 account' = [account EXCEPT ![a] = [account[a] EXCEPT !.email = login[l].email]]
          PROVE  /\ account' \in [Admin -> Account]
                 /\ \A b \in Admin : /\ account'[b].status = account[b].status
                                     /\ account'[b].subject = account[b].subject
                                     /\ b # a => account'[b] = account[b]
      BY <1>0, <2>1, <3>2 DEF TypeOK, Account
    <3>3. login[l].email # None => login[l].email \in Email
      BY <1>0 DEF LoginState
    <3> QED
      BY <1>11, <3>1, <3>2, <3>3 DEF UpdateProfile
  <2>3. Remaining
    BY <2>2 DEF Remaining
  <2>4. /\ login' \in [Login -> LoginState] /\ login'[l].pc = "session"
        /\ login'[l].sid = login[l].sid /\ login'[l].admin = login[l].admin
        /\ \A x \in Login : x # l => login'[x] = login[x]
    BY <1>0, <1>11, GotoSound DEF UpdateProfile, LoginPC, SyncPC
  <2>5. Located'
    BY <1>0, <1>11, <2>1, <2>2, <2>3, <2>4, LocatedStep DEF UpdateProfile, Located, At, SyncPC
  <2>6. TypeOK'
    BY <1>0, <1>11, <2>2, <2>4 DEF UpdateProfile, TypeOK
  <2>7. Blank'
    BY <2>1, <2>2 DEF TypeInv, Blank
  <2>8. UniqueSubject' /\ Owned'
    BY <1>11, <2>2 DEF TypeInv, TypeOK, Session, UniqueSubject, Owned, Live, UpdateProfile
  <2> QED
    BY <2>5, <2>6, <2>7, <2>8 DEF TypeInv
<1>12. ASSUME NEW t \in Token, CreateSession(l, t) PROVE TypeInv'
  <2>1. login[l].admin \in Admin /\ login[l].sid \in Sid /\ ~At(l, "idle")
        /\ account[login[l].admin].status # "ABSENT" /\ login[l].late \in BOOLEAN
    BY <1>0, <1>12 DEF CreateSession, Located, At, SyncPC, LoginState
  <2> DEFINE s == [owner |-> login[l].admin, sid |-> login[l].sid, outlived |-> login[l].late]
  <2>2. s \in Session /\ s.owner = login[l].admin
    BY <2>1 DEF Session
  <2>3. session' = [session EXCEPT ![t] = s] /\ Leave(l)
    BY <1>12 DEF CreateSession
  <2> HIDE DEF s
  <2>4. /\ session' \in [Token -> Session \cup {None}] /\ session'[t] = s
        /\ \A u \in Token : u # t => session'[u] = session[u]
    BY <1>0, <2>2, <2>3 DEF TypeOK
  <2>5. Remaining
    BY <1>12 DEF CreateSession, Remaining
  <2>6. login' \in [Login -> LoginState] /\ Located'
    BY <1>0, <2>1, <2>3, <2>5, LeaveSound, LocatedStep DEF SyncPC
  <2>7. Owned'
    BY <1>12, <2>1, <2>2, <2>4 DEF TypeInv, Owned, Live, CreateSession
  <2> QED
    BY <1>0, <1>12, <2>4, <2>6, <2>7
       DEF CreateSession, TypeInv, TypeOK, Blank, UniqueSubject
<1>13. CASE Fail(l)
  <2>1. login' \in [Login -> LoginState] /\ Located'
    BY <1>0, <1>13, LeaveSound, LocatedStep DEF Fail, Remaining, SyncPC
  <2> QED
    BY <1>0, <1>13, <2>1, SignInTyped DEF Fail, TypeOK
<1> QED
  BY <1>1, <1>2, <1>3, <1>4, <1>5, <1>7, <1>8, <1>9, <1>10, <1>11, <1>12, <1>13 DEF SignIn
\* A revocation deletes session rows, or notes that it missed them, and the
\* sign-ins it overtakes keep where they are.
LEMMA RevocationTyped ==
    ASSUME TypeInv,
           \/ UNCHANGED session
           \/ \E ts : session' = Without(ts)
           \/ \E ts \in SUBSET Live : session' = Outliving(ts),
           login' = login \/ \E ls : Overtake(ls),
           UNCHANGED <<account, roles, lost>>,
           logout' \in Admin \cup {None}, revoking' \in SUBSET Admin, ended' \in SUBSET Sid
    PROVE  TypeInv'
<1>0. TypeOK
  BY DEF TypeInv
<1>1. /\ session' \in [Token -> Session \cup {None}]
      /\ \A t \in Token : session'[t] # None =>
           session[t] # None /\ session'[t].owner = session[t].owner
  BY <1>0, WithoutSound, OutlivingSound DEF TypeOK, Live
<1>2. /\ login' \in [Login -> LoginState]
      /\ \A x \in Login : SameButNotes(login[x], login'[x])
  <2>1. \A x \in Login : login[x] \in LoginState /\ SameButNotes(login[x], login[x])
    BY <1>0 DEF TypeOK, SameButNotes
  <2> QED
    BY <1>0, <2>1, OvertakeSound DEF TypeOK
<1>3. Located'
  BY <1>2, LocatedStays DEF Remaining, SameButNotes
<1>4. Owned'
  BY <1>1 DEF TypeInv, Owned, Live
<1> QED
  BY <1>0, <1>1, <1>2, <1>3, <1>4 DEF TypeInv, TypeOK, Blank, UniqueSubject

\* The sessions of an account are live.
LEMMA SessionsOfLive == \A a : SessionsOf(a) \in SUBSET Live
BY DEF SessionsOf

\* Every step of a back-channel logout keeps the types.
LEMMA LogoutStep == ASSUME TypeInv, BackchannelLogout PROVE TypeInv'
<1>0. TypeOK
  BY DEF TypeInv
<1>1. ASSUME NEW sid \in Sid, LogoutSid(sid) PROVE TypeInv'
  BY <1>0, <1>1, RevocationTyped DEF LogoutSid, TypeOK
<1>2. ASSUME NEW s \in Subject, LogoutSubject(s) PROVE TypeInv'
  <2>1. ended' \in SUBSET Sid
    BY <1>0, <1>2 DEF LogoutSubject, TypeOK, Sid
  <2>2. logout' \in Admin \cup {None}
    BY <1>0, <1>2 DEF LogoutSubject, TypeOK, Linked
  <2> QED
    BY <1>0, <1>2, <2>1, <2>2, RevocationTyped DEF LogoutSubject, TypeOK
<1>3. CASE LogoutAll
  BY <1>0, <1>3, RevocationTyped DEF LogoutAll, TypeOK
<1>4. CASE LogoutFails
  BY <1>0, <1>4, RevocationTyped, SessionsOfLive DEF LogoutFails, TypeOK
<1> QED
  BY <1>1, <1>2, <1>3, <1>4 DEF BackchannelLogout

\* A step of the administration that writes one row of the accounts.
LEMMA AccountTyped ==
    ASSUME TypeInv, NEW a \in Admin, NEW row \in Account,
           account' = [account EXCEPT ![a] = row],
           row.status # "ABSENT", row.subject = account[a].subject,
           roles' \in [Admin -> SUBSET RoleKey], revoking' \in SUBSET Admin,
           UNCHANGED <<session, login, logout, ended, lost>>
    PROVE  TypeInv'
<1>0. TypeOK
  BY DEF TypeInv
<1>1. /\ account' \in [Admin -> Account] /\ account'[a] = row
      /\ \A b \in Admin : b # a => account'[b] = account[b]
  BY <1>0 DEF TypeOK
<1>2. Remaining
  BY <1>1 DEF Remaining
<1>3. Located'
  BY <1>2, LocatedStays
<1>4. Owned' /\ Blank' /\ UniqueSubject'
  BY <1>0, <1>1, <1>2 DEF TypeInv, TypeOK, Session, Owned, Live, Blank, UniqueSubject, Remaining
<1> QED
  BY <1>0, <1>1, <1>3, <1>4 DEF TypeInv, TypeOK

\* So does every step of administration.
LEMMA AdministrationStep == ASSUME TypeInv, Administration PROVE TypeInv'
<1>0. TypeOK
  BY DEF TypeInv
<1>1. ASSUME NEW a \in Admin, NEW email \in Email, NEW keys \in Grant,
             CreateLocal(a, email, keys)
      PROVE  TypeInv'
  <2> DEFINE row == [status |-> "ACTIVE", email |-> email, subject |-> None]
  <2>1. row \in Account /\ row.status # "ABSENT" /\ row.subject = account[a].subject
    BY <1>1 DEF Account, CreateLocal, TypeInv, Blank
  <2>2. account' = [account EXCEPT ![a] = row]
    BY <1>1 DEF CreateLocal
  <2>3. roles' \in [Admin -> SUBSET RoleKey]
    BY <1>0, <1>1, GrantAssumption DEF CreateLocal, TypeOK
  <2> HIDE DEF row
  <2> QED
    BY <1>0, <1>1, <2>1, <2>2, <2>3, AccountTyped DEF CreateLocal, TypeOK
<1>2. ASSUME NEW a \in Admin, NEW keys \in Grant, AssignRoles(a, keys) PROVE TypeInv'
  <2>1. /\ login' \in [Login -> LoginState]
        /\ \A x \in Login : /\ login'[x].pc = login[x].pc /\ login'[x].sid = login[x].sid
                            /\ login'[x].admin = login[x].admin
    BY <1>0, <1>2, AssignedSound
  <2>2. \A x \in Login : login'[x].email = login[x].email
    BY <1>0, <1>2 DEF AssignRoles, TypeOK, LoginState
  <2>3. roles' \in [Admin -> SUBSET RoleKey]
    BY <1>0, <1>2, GrantAssumption DEF AssignRoles, TypeOK
  <2>4. Remaining
    BY <1>2 DEF AssignRoles, Remaining
  <2>5. Located'
    BY <2>1, <2>2, <2>4, LocatedStays
  <2> QED
    BY <1>0, <1>2, <2>1, <2>3, <2>5
       DEF AssignRoles, TypeInv, TypeOK, Blank, UniqueSubject, Owned, Live
<1>3. ASSUME NEW a \in Admin, Disable(a) \/ Enable(a) PROVE TypeInv'
  <2>1. PICK status \in {"ACTIVE", "DISABLED"} :
          account' = [account EXCEPT ![a] = [account[a] EXCEPT !.status = status]]
    BY <1>3 DEF Disable, Enable
  <2> DEFINE row == [account[a] EXCEPT !.status = status]
  <2>2. row \in Account /\ row.status # "ABSENT" /\ row.subject = account[a].subject
    BY <1>0, <2>1 DEF TypeOK, Account
  <2>3. account' = [account EXCEPT ![a] = row]
    BY <2>1
  <2>4. revoking' \in SUBSET Admin
    BY <1>0, <1>3 DEF Disable, Enable, TypeOK
  <2> HIDE DEF row
  <2> QED
    BY <1>0, <1>3, <2>2, <2>3, <2>4, AccountTyped DEF Disable, Enable, TypeOK
<1>4. ASSUME NEW a \in Admin, RevokeAll(a) \/ RevokeFails(a) PROVE TypeInv'
  <2>1. revoking' \in SUBSET Admin
    BY <1>0, <1>4 DEF RevokeAll, RevokeFails, TypeOK
  <2> QED
    BY <1>0, <1>4, <2>1, RevocationTyped, SessionsOfLive DEF RevokeAll, RevokeFails, TypeOK
<1>5. ASSUME NEW t \in Token, EndSession(t) PROVE TypeInv'
  <2>1. session' = Without({t})
    BY <1>0, <1>5 DEF EndSession, Without, TypeOK
  <2> QED
    BY <1>0, <1>5, <2>1, RevocationTyped DEF EndSession, TypeOK
<1> QED
  BY <1>1, <1>2, <1>3, <1>4, <1>5 DEF Administration

\* So does every step.
LEMMA TypeStep == TypeInv /\ [Next]_vars => TypeInv'
<1> SUFFICES ASSUME TypeInv, [Next]_vars PROVE TypeInv'
  OBVIOUS
<1>1. CASE UNCHANGED vars
  BY <1>1 DEF vars, TypeInv, TypeOK, Located, At, Blank, UniqueSubject, Owned, Live
<1> QED
  BY <1>1, SignInStep, LogoutStep, AdministrationStep DEF Next

\* The empty database has its types.
LEMMA TypeInit == Init => TypeInv
<1> SUFFICES ASSUME Init PROVE TypeInv
  OBVIOUS
<1>1. \A l \in Login : login[l] \in LoginState /\ login[l].pc = "idle"
  BY IdleState DEF Init
<1>2. TypeOK
  BY <1>1 DEF Init, TypeOK, Account
<1> QED
  BY <1>1, <1>2
     DEF Init, TypeInv, Located, Blank, UniqueSubject, Owned, Live, At, SyncPC

(***************************************************************************)
(* The tables, the sign-ins in progress and the history stay well formed:  *)
(* no two accounts are linked to one person, no session is without its     *)
(* account, and a sign-in past the look-up works on an account there is.   *)
(***************************************************************************)
THEOREM TypeCorrect == Spec => []TypeInv
BY TypeInit, TypeStep, PTL DEF Spec
-----------------------------------------------------------------------------
(***************************************************************************)
(* Roles.  A step after which every sign-in is out of syncRoles or where   *)
(* it was, and the roles of the accounts there are the same.               *)
(***************************************************************************)
LEMMA RolesStay ==
    ASSUME TypeInv, RolesInv,
           \A a \in Admin : account[a].status # "ABSENT" => roles'[a] = roles[a],
           \A x \in Login :
               \/ login'[x].pc \notin SyncPC
               \/ /\ login'[x].pc = login[x].pc /\ login'[x].admin = login[x].admin
                  /\ login'[x].keys = login[x].keys /\ login'[x].doomed = login[x].doomed
                  /\ login[x].met => login'[x].met
    PROVE  RolesInv'
<1>1. SyncsMeet'
  BY DEF RolesInv, SyncsMeet
<1>2. \A x \in Login : login'[x].pc \in SyncPC =>
        roles'[login[x].admin] = roles[login[x].admin]
  BY DEF TypeInv, Located
<1>3. Doomed'
  BY <1>2 DEF RolesInv, Doomed, At, SyncPC
<1>4. RolesFollowToken'
  BY <1>2 DEF RolesInv, RolesFollowToken, SyncPC
<1> QED
  BY <1>1, <1>3, <1>4 DEF RolesInv

\* One sign-in moves on within syncRoles and completeSsoLogin.
LEMMA RolesMove ==
    ASSUME TypeInv, RolesInv, NEW l \in Login, login[l].pc \in SyncPC, UNCHANGED roles,
           login'[l].admin = login[l].admin, login'[l].keys = login[l].keys,
           login'[l].met = login[l].met,
           \A x \in Login : x # l => login'[x] = login[x],
           login'[l].pc = "insert" =>
               login[l].met \/ login'[l].doomed = roles[login[l].admin],
           login'[l].pc \in {"clash", "profile", "session"} =>
               roles[login[l].admin] = login[l].keys \/ login[l].met
    PROVE  RolesInv'
<1>1. SyncsMeet'
  BY DEF RolesInv, SyncsMeet
<1>2. Doomed'
  BY DEF RolesInv, Doomed, At
<1>3. RolesFollowToken'
  BY DEF RolesInv, RolesFollowToken
<1> QED
  BY <1>1, <1>2, <1>3 DEF RolesInv

\* Who is admitted meets everybody between deleteMany and createMany.
LEMMA RolesAdmit ==
    ASSUME TypeInv, RolesInv, NEW l \in Login, login[l].pc \notin SyncPC, NEW a \in Admin,
           NEW row, Reached(l, a, row), UNCHANGED roles
    PROVE  RolesInv'
<1>0. TypeOK
  BY DEF TypeInv
<1>1. CASE Leave(l)
  BY <1>0, <1>1, LeaveSound, RolesStay DEF SyncPC
<1>2. CASE Admit(l, a, row)
  <2>1. /\ login'[l].pc = "roles" /\ login'[l].admin = a
        /\ login'[l].met = (Syncing(a) # {})
        /\ \A x \in Login : x # l =>
             /\ SameButNotes(login[x], login'[x])
             /\ login'[x].met = (login[x].met \/ x \in Syncing(a))
    BY <1>0, <1>2, AdmitSound
  <2>2. SyncsMeet'
    <3> SUFFICES ASSUME NEW x \in Login, NEW d \in Login, x # d,
                        login'[x].pc \in SyncPC, login'[d].pc \in SyncPC,
                        login'[x].admin = login'[d].admin
                 PROVE  login'[x].met
      BY DEF SyncsMeet
    <3>1. CASE x = l
      BY <2>1, <3>1 DEF SameButNotes, Syncing
    <3>2. CASE d = l
      BY <2>1, <3>2 DEF SameButNotes, Syncing
    <3>3. CASE x # l /\ d # l
      BY <2>1, <3>3 DEF SameButNotes, RolesInv, SyncsMeet
    <3> QED
      BY <3>1, <3>2, <3>3
  <2>3. Doomed'
    BY <2>1 DEF RolesInv, Doomed, At, SameButNotes
  <2>4. RolesFollowToken'
    BY <2>1 DEF RolesInv, RolesFollowToken, SameButNotes
  <2> QED
    BY <2>2, <2>3, <2>4 DEF RolesInv
<1> QED
  BY <1>1, <1>2 DEF Reached, Refuse

\* The transaction commits: the rows of a sign-in that nobody disturbed are
\* all that is left, and those that it may have disturbed have met it.
LEMMA RolesInserted ==
    ASSUME TypeInv, RolesInv, NEW l \in Login, InsertRoles(l) PROVE RolesInv'
<1>0. TypeOK /\ At(l, "insert") /\ login[l].admin \in Admin
  BY DEF TypeInv, InsertRoles, Located, At, SyncPC
<1> DEFINE a == login[l].admin
<1>1. /\ login'[l].pc \in {"clash", "profile"}
      /\ \A x \in Login :
           /\ x # l => login'[x].pc = login[x].pc
           /\ login'[x].keys = login[x].keys /\ login'[x].admin = login[x].admin
           /\ login'[x].met = login[x].met
           /\ login[x].admin # a => login'[x].doomed = login[x].doomed
  BY <1>0, InsertedSound DEF AfterSync
<1>2. /\ roles'[a] = (roles[a] \ login[l].doomed) \cup login[l].keys
      /\ \A b \in Admin : b # a => roles'[b] = roles[b]
  BY <1>0 DEF InsertRoles, TypeOK
<1>3. \A x \in Login : x # l /\ login[x].pc \in SyncPC /\ login[x].admin = a => login[x].met
  BY <1>0 DEF RolesInv, SyncsMeet, At, SyncPC
<1>4. login[l].met \/ roles'[a] = login[l].keys
  BY <1>0, <1>2 DEF RolesInv, Doomed
<1>5. \A x \in Login : login[x].pc \in SyncPC => login[x].admin \in Admin
  BY DEF TypeInv, Located
<1> HIDE DEF a
<1>6. SyncsMeet'
  BY <1>0, <1>1 DEF RolesInv, SyncsMeet, At, SyncPC
<1>7. Doomed'
  <2> SUFFICES ASSUME NEW x \in Login, login'[x].pc = "insert"
               PROVE  login'[x].met \/ login'[x].doomed = roles'[login'[x].admin]
    BY DEF Doomed, At
  <2>1. x # l /\ login[x].pc = "insert"
    BY <1>1
  <2>2. CASE login[x].admin = a
    BY <1>1, <1>3, <2>1, <2>2 DEF SyncPC
  <2>3. CASE login[x].admin # a
    BY <1>1, <1>2, <1>5, <2>1, <2>3 DEF RolesInv, Doomed, At, SyncPC
  <2> QED
    BY <2>2, <2>3
<1>8. RolesFollowToken'
  <2> SUFFICES ASSUME NEW x \in Login, login'[x].pc \in {"clash", "profile", "session"}
               PROVE  roles'[login'[x].admin] = login'[x].keys \/ login'[x].met
    BY DEF RolesFollowToken
  <2>1. CASE x = l
    BY <1>1, <1>4, <2>1 DEF a
  <2>2. CASE x # l /\ login[x].admin = a
    BY <1>1, <1>3, <2>2 DEF SyncPC
  <2>3. CASE x # l /\ login[x].admin # a
    BY <1>1, <1>2, <1>5, <2>3 DEF RolesInv, RolesFollowToken, SyncPC
  <2> QED
    BY <2>1, <2>2, <2>3
<1> QED
  BY <1>6, <1>7, <1>8 DEF RolesInv

\* An assignment between the two is noted.
LEMMA RolesAssigned ==
    ASSUME TypeInv, RolesInv, NEW a \in Admin, NEW keys, AssignRoles(a, keys)
    PROVE  RolesInv'
<1>0. TypeOK
  BY DEF TypeInv
<1>1. \A x \in Login :
        /\ login'[x].pc = login[x].pc
        /\ login'[x].keys = login[x].keys /\ login'[x].admin = login[x].admin
        /\ x \in Syncing(a) => login'[x].met
        /\ x \notin Syncing(a) => login'[x] = login[x]
  BY <1>0, AssignedSound
<1>2. \A b \in Admin : b # a => roles'[b] = roles[b]
  BY <1>0 DEF AssignRoles, TypeOK
<1>3. \A x \in Login : login[x].pc \in SyncPC => login[x].admin \in Admin
  BY DEF TypeInv, Located
<1>4. SyncsMeet'
  BY <1>1 DEF RolesInv, SyncsMeet
<1>5. Doomed'
  BY <1>1, <1>2, <1>3 DEF RolesInv, Doomed, At, Syncing, SyncPC
<1>6. RolesFollowToken'
  BY <1>1, <1>2, <1>3 DEF RolesInv, RolesFollowToken, Syncing, SyncPC
<1> QED
  BY <1>4, <1>5, <1>6 DEF RolesInv

\* Every step of a sign-in keeps RolesInv.
LEMMA RolesSignIn == ASSUME TypeInv, RolesInv, NEW l \in Login, SignIn(l) PROVE RolesInv'
<1>0. TypeOK /\ Located
  BY DEF TypeInv
<1>1. ASSUME login'[l].pc \notin SyncPC, UNCHANGED roles,
             \A x \in Login : x # l =>
                 login'[x] = login[x] \/ (SameButNotes(login[x], login'[x])
                                           /\ (login[x].met => login'[x].met))
      PROVE  RolesInv'
  BY <1>1, RolesStay DEF SameButNotes
<1>2. ASSUME NEW pc \in LoginPC \ SyncPC, Goto(l, pc), UNCHANGED roles PROVE RolesInv'
  BY <1>0, <1>1, <1>2, GotoSound
<1>3. ASSUME Leave(l), UNCHANGED roles PROVE RolesInv'
  BY <1>0, <1>1, <1>3, LeaveSound DEF SyncPC
<1>4. ASSUME NEW sid \in Sid, NEW email \in Email, NEW keys \in Grant,
             Exchange(l, sid, email, keys)
      PROVE  RolesInv'
  <2> DEFINE q == Fresh("subject", sid, email, keys)
  <2>1. q \in LoginState /\ q.pc = "subject"
    BY FreshState, GrantAssumption
  <2>2. Become(l, q) /\ UNCHANGED roles
    BY <1>4 DEF Exchange
  <2> HIDE DEF q
  <2> QED
    BY <1>0, <1>1, <2>1, <2>2, BecomeSound DEF SyncPC
<1>5. CASE FindBySubject(l)
  <2>1. ASSUME NEW a \in Linked(SubjectOf(l)), Reached(l, a, account[a]) PROVE RolesInv'
    BY <1>5, <2>1, RolesAdmit DEF FindBySubject, Linked, At, SyncPC
  <2> QED
    BY <1>2, <1>5, <2>1 DEF FindBySubject, LoginPC, SyncPC
<1>6. ASSUME NEW verified, FindByEmail(l, verified) PROVE RolesInv'
  <2>1. ASSUME NEW a \in Owning(login[l].email),
               Meet(l, [login[l] EXCEPT !.pc = "link", !.admin = a], Linking(a))
        PROVE  RolesInv'
    <3>1. a \in Admin /\ ~At(l, "link") /\ UNCHANGED roles
      BY <1>6 DEF Owning, FindByEmail, At
    <3>2. login'[l].pc = "link"
      BY <1>0, <2>1, <3>1, JoinSound
    <3>3. \A x \in Login : x # l =>
             /\ SameButNotes(login[x], login'[x])
             /\ login[x].met => login'[x].met
      BY <1>0, <2>1, <3>1, JoinSound
    <3> QED
      BY <1>1, <3>1, <3>2, <3>3 DEF SyncPC
  <2> QED
    BY <1>2, <1>3, <1>6, <2>1 DEF FindByEmail, LoginPC, SyncPC
<1>7. CASE Link(l)
  BY <1>0, <1>7, RolesAdmit DEF Link, Located, At, SyncPC
<1>8. ASSUME NEW a \in Admin, Create(l, a) PROVE RolesInv'
  BY <1>8, RolesAdmit DEF Create, Reached, At, SyncPC
<1>9. CASE ReadRoles(l)
  <2>1. PICK pc \in SyncPC : /\ Goto(l, pc) /\ pc # "insert"
                             /\ pc # "replace" => roles[login[l].admin] = login[l].keys
    BY <1>9 DEF ReadRoles, AfterSync, SyncPC
  <2>2. login[l].pc \in SyncPC /\ UNCHANGED roles /\ pc \in LoginPC
    BY <1>9 DEF ReadRoles, At, SyncPC, LoginPC
  <2> QED
    BY <1>0, <2>1, <2>2, GotoSound, RolesMove
<1>10. CASE DeleteRoles(l)
  BY <1>0, <1>10, DeletedSound, RolesMove DEF DeleteRoles, Located, At, SyncPC
<1>11. CASE InsertRoles(l)
  BY <1>11, RolesInserted
<1>12. CASE FindClash(l)
  <2>1. login[l].pc \in SyncPC /\ UNCHANGED roles
        /\ (roles[login[l].admin] = login[l].keys \/ login[l].met)
    BY <1>12 DEF FindClash, At, SyncPC, RolesInv, RolesFollowToken
  <2> QED
    BY <1>0, <1>12, <2>1, ClashSound, RolesMove
<1>13. CASE UpdateProfile(l)
  <2>1. login[l].pc \in SyncPC /\ UNCHANGED roles /\ Goto(l, "session")
        /\ (roles[login[l].admin] = login[l].keys \/ login[l].met)
    BY <1>13 DEF UpdateProfile, At, SyncPC, RolesInv, RolesFollowToken
  <2>2. "session" \in LoginPC
    BY DEF LoginPC, SyncPC
  <2> QED
    BY <1>0, <2>1, <2>2, GotoSound, RolesMove
<1>14. ASSUME NEW t \in Token, CreateSession(l, t) PROVE RolesInv'
  BY <1>3, <1>14 DEF CreateSession
<1>15. CASE Fail(l)
  BY <1>3, <1>15 DEF Fail
<1> QED
  BY <1>4, <1>5, <1>6, <1>7, <1>8, <1>9, <1>10, <1>11, <1>12, <1>13, <1>14, <1>15 DEF SignIn

\* So does every step.
LEMMA RolesStep == TypeInv /\ RolesInv /\ [Next]_vars => RolesInv'
<1> SUFFICES ASSUME TypeInv, RolesInv, [Next]_vars PROVE RolesInv'
  OBVIOUS
<1>0. TypeOK
  BY DEF TypeInv
<1>1. ASSUME UNCHANGED roles, login' = login \/ \E ls : Overtake(ls) PROVE RolesInv'
  <2>1. \A x \in Login : \/ login'[x] = login[x]
                         \/ SameButNotes(login[x], login'[x]) /\ login'[x].met = login[x].met
    BY <1>0, <1>1, OvertakeSound
  <2> QED
    BY <1>1, <2>1, RolesStay DEF SameButNotes
<1>2. CASE UNCHANGED vars
  BY <1>1, <1>2 DEF vars
<1>3. CASE BackchannelLogout
  BY <1>1, <1>3 DEF BackchannelLogout, LogoutSid, LogoutSubject, LogoutAll, LogoutFails
<1>4. ASSUME NEW a \in Admin, NEW email \in Email, NEW keys \in Grant,
             CreateLocal(a, email, keys)
      PROVE  RolesInv'
  BY <1>0, <1>4, RolesStay DEF CreateLocal, TypeOK
<1>5. ASSUME NEW a \in Admin, Disable(a) \/ RevokeAll(a) \/ RevokeFails(a) \/ Enable(a)
      PROVE  RolesInv'
  BY <1>1, <1>5 DEF Disable, RevokeAll, RevokeFails, Enable
<1>6. ASSUME NEW t \in Token, EndSession(t) PROVE RolesInv'
  BY <1>1, <1>6 DEF EndSession
<1> QED
  BY <1>2, <1>3, <1>4, <1>5, <1>6, RolesSignIn, RolesAssigned DEF Next, Administration

(***************************************************************************)
(* syncRoles leaves the account with exactly the roles of the token, for   *)
(* any number of sign-ins, unless another writer of the same roles was at  *)
(* work meanwhile (oidc.service.ts, syncRoles).                            *)
(***************************************************************************)
THEOREM RolesCorrect == Spec => []RolesFollowToken
<1>1. Init => RolesInv
  BY IdleState DEF Init, RolesInv, SyncsMeet, Doomed, RolesFollowToken, At, SyncPC
<1>2. RolesInv => RolesFollowToken
  BY DEF RolesInv
<1> QED
  BY <1>1, <1>2, RolesStep, TypeCorrect, PTL DEF Spec
-----------------------------------------------------------------------------
(***************************************************************************)
(* Links.  A step after which every sign-in has left the linking or is     *)
(* where it was, and the accounts there are have the links they had.       *)
(***************************************************************************)
LinksStay ==
    \A a \in Admin : account[a].status # "ABSENT" => account'[a].subject = account[a].subject

\* A step that changes no link and forgets no meeting keeps LinkInv.
LEMMA LinkStays ==
    ASSUME TypeInv, LinkInv, LinksStay,
           \A x \in Login :
               \/ login'[x].pc # "link"
               \/ /\ login'[x].pc = login[x].pc /\ login'[x].admin = login[x].admin
                  /\ login'[x].sid = login[x].sid
                  /\ login[x].met => login'[x].met
    PROVE  LinkInv'
<1>1. LinksMeet'
  BY DEF LinkInv, LinksMeet, At
<1>2. Vacant'
  BY DEF LinkInv, Vacant, At, SubjectOf, LinksStay, TypeInv, Located
<1> QED
  BY <1>1, <1>2 DEF LinkInv

\* A sign-in that has reached its account is not about to link one.
LEMMA LinkReached ==
    ASSUME TypeInv, NEW l \in Login, login[l].pc \notin SyncPC, NEW a \in Admin,
           NEW row, Reached(l, a, row)
    PROVE  /\ login'[l].pc # "link"
           /\ \A x \in Login : x # l =>
                /\ login'[x].pc = login[x].pc /\ login'[x].admin = login[x].admin
                /\ login'[x].sid = login[x].sid
                /\ login[x].met => login'[x].met
<1>0. TypeOK
  BY DEF TypeInv
<1>1. ASSUME Leave(l) PROVE login'[l].pc # "link" /\ \A x \in Login : x # l => login'[x] = login[x]
  BY <1>0, <1>1, LeaveSound
<1>2. ASSUME Admit(l, a, row)
      PROVE  /\ login'[l].pc # "link"
             /\ \A x \in Login : x # l =>
                  SameButNotes(login[x], login'[x]) /\ (login[x].met => login'[x].met)
  BY <1>0, <1>2, AdmitSound
<1> QED
  BY <1>1, <1>2 DEF Reached, Refuse, SameButNotes

\* The link is written: who may still write over it has met this sign-in.
LEMMA LinkWritten == ASSUME TypeInv, LinkInv, NEW l \in Login, Link(l) PROVE LinkInv'
<1> DEFINE a == login[l].admin
<1>1. TypeOK /\ At(l, "link") /\ a \in Admin /\ login[l].pc \notin SyncPC
  BY DEF TypeInv, Link, Located, At, SyncPC
<1>2. /\ login'[l].pc # "link"
      /\ \A x \in Login : x # l =>
           /\ login'[x].pc = login[x].pc /\ login'[x].admin = login[x].admin
           /\ login'[x].sid = login[x].sid
           /\ login[x].met => login'[x].met
  BY <1>1, LinkReached DEF Link
<1>3. \A b \in Admin : b # a => account'[b] = account[b]
  BY <1>1 DEF Link, TypeOK
<1>4. \A x \in Login : At(x, "link") => login[x].admin \in Admin
  BY DEF TypeInv, Located, At
<1>5. \A x \in Login : x # l /\ At(x, "link") /\ login[x].admin = a => login[x].met
  BY <1>1 DEF LinkInv, LinksMeet
<1> HIDE DEF a
<1>6. LinksMeet'
  BY <1>2 DEF LinkInv, LinksMeet, At
<1>7. Vacant'
  BY <1>2, <1>3, <1>4, <1>5 DEF LinkInv, Vacant, At, SubjectOf
<1> QED
  BY <1>6, <1>7 DEF LinkInv

\* Finding an account by its e-mail, with the meetings it notes, keeps LinkInv.
LEMMA LinkJoined ==
    ASSUME TypeInv, LinkInv, NEW l \in Login, NEW verified, FindByEmail(l, verified)
    PROVE  LinkInv'
<1>0. TypeOK /\ ~At(l, "link") /\ LinksStay
  BY DEF TypeInv, FindByEmail, At, LinksStay
<1>1. ASSUME NEW a \in Owning(login[l].email), MayLink(l, account[a], verified),
             Meet(l, [login[l] EXCEPT !.pc = "link", !.admin = a], Linking(a))
      PROVE  LinkInv'
  <2>1. a \in Admin /\ account' = account
    BY DEF Owning, FindByEmail
  <2>2. /\ login'[l].pc = "link" /\ login'[l].admin = a /\ login'[l].sid = login[l].sid
        /\ login'[l].met = (Linking(a) # {})
        /\ \A x \in Login : x # l =>
             /\ login'[x].pc = login[x].pc /\ login'[x].admin = login[x].admin
             /\ login'[x].sid = login[x].sid
             /\ login'[x].met = (login[x].met \/ x \in Linking(a))
    BY <1>0, <1>1, <2>1, JoinSound DEF SameButNotes
  <2>3. LinksMeet'
    <3> SUFFICES ASSUME NEW x \in Login, NEW d \in Login, x # d,
                        login'[x].pc = "link", login'[d].pc = "link",
                        login'[x].admin = login'[d].admin
                 PROVE  login'[x].met
      BY DEF LinksMeet, At
    <3>1. CASE x = l
      BY <2>2, <3>1 DEF Linking, At
    <3>2. CASE d = l
      BY <2>2, <3>2 DEF Linking, At
    <3>3. CASE x # l /\ d # l
      BY <2>2, <3>3 DEF LinkInv, LinksMeet, At
    <3> QED
      BY <3>1, <3>2, <3>3
  <2>4. Vacant'
    <3> SUFFICES ASSUME NEW x \in Login, login'[x].pc = "link"
                 PROVE  \/ login'[x].met
                        \/ account[login'[x].admin].subject \in {None, login'[x].sid[1]}
      BY <2>1 DEF Vacant, At, SubjectOf
    <3>1. CASE x = l
      BY <1>1, <2>2, <3>1 DEF MayLink, SubjectOf
    <3>2. CASE x # l
      BY <2>2, <3>2 DEF LinkInv, Vacant, At, SubjectOf
    <3> QED
      BY <3>1, <3>2
  <2> QED
    BY <2>3, <2>4 DEF LinkInv
<1>2. ASSUME Goto(l, "create") \/ Leave(l) PROVE LinkInv'
  <2>1. login'[l].pc # "link" /\ \A x \in Login : x # l => login'[x] = login[x]
    BY <1>0, <1>2, GotoSound, LeaveSound DEF LoginPC
  <2> QED
    BY <1>0, <2>1, LinkStays
<1> QED
  BY <1>1, <1>2 DEF FindByEmail

\* Every step of a sign-in keeps LinkInv.
LEMMA LinkSignIn == ASSUME TypeInv, LinkInv, NEW l \in Login, SignIn(l) PROVE LinkInv'
<1>0. TypeOK /\ Located
  BY DEF TypeInv
<1>1. ASSUME login'[l].pc # "link", LinksStay,
             \A x \in Login : x # l =>
                 /\ login'[x].pc = login[x].pc /\ login'[x].admin = login[x].admin
                 /\ login'[x].sid = login[x].sid
                 /\ login[x].met => login'[x].met
      PROVE  LinkInv'
  BY <1>1, LinkStays
<1>2. ASSUME NEW pc \in LoginPC \ {"link"}, Goto(l, pc), LinksStay PROVE LinkInv'
  <2>1. login'[l].pc = pc /\ \A x \in Login : x # l => login'[x] = login[x]
    BY <1>0, <1>2, GotoSound
  <2> QED
    BY <1>1, <1>2, <2>1
<1>3. ASSUME Leave(l), LinksStay PROVE LinkInv'
  <2>1. login'[l].pc = "idle" /\ \A x \in Login : x # l => login'[x] = login[x]
    BY <1>0, <1>3, LeaveSound
  <2> QED
    BY <1>1, <1>3, <2>1
<1>4. ASSUME NEW sid \in Sid, NEW email \in Email, NEW keys \in Grant,
             Exchange(l, sid, email, keys)
      PROVE  LinkInv'
  <2> DEFINE q == Fresh("subject", sid, email, keys)
  <2>1. q \in LoginState /\ q.pc = "subject"
    BY FreshState, GrantAssumption
  <2>2. Become(l, q) /\ LinksStay
    BY <1>4 DEF Exchange, LinksStay
  <2> HIDE DEF q
  <2>3. login'[l] = q /\ \A x \in Login : x # l => login'[x] = login[x]
    BY <1>0, <2>1, <2>2, BecomeSound
  <2> QED
    BY <1>1, <2>1, <2>2, <2>3
<1>5. CASE FindBySubject(l)
  <2>1. LinksStay /\ login[l].pc \notin SyncPC
    BY <1>5 DEF FindBySubject, LinksStay, At, SyncPC
  <2>2. ASSUME NEW a \in Linked(SubjectOf(l)), Reached(l, a, account[a]) PROVE LinkInv'
    <3>1. a \in Admin
      BY DEF Linked
    <3> QED
      BY <1>1, <2>1, <2>2, <3>1, LinkReached
  <2> QED
    BY <1>2, <1>5, <2>1, <2>2 DEF FindBySubject, LoginPC, SyncPC
<1>6. ASSUME NEW a \in Admin, Create(l, a) PROVE LinkInv'
  <2>1. LinksStay /\ login[l].pc \notin SyncPC
    BY <1>0, <1>6 DEF Create, LinksStay, At, SyncPC, TypeOK
  <2> QED
    BY <1>1, <1>6, <2>1, LinkReached DEF Create, Reached
<1>7. CASE ReadRoles(l)
  BY <1>2, <1>7 DEF ReadRoles, AfterSync, LoginPC, SyncPC, LinksStay
<1>8. CASE DeleteRoles(l)
  <2>1. LinksStay /\ login[l].admin \in Admin
    BY <1>0, <1>8 DEF DeleteRoles, LinksStay, Located, At, SyncPC
  <2>2. login'[l].pc = "insert" /\ \A x \in Login : x # l => login'[x] = login[x]
    BY <1>0, <1>8, <2>1, DeletedSound
  <2> QED
    BY <1>1, <2>1, <2>2
<1>9. CASE InsertRoles(l)
  <2>1. LinksStay
    BY <1>9 DEF InsertRoles, LinksStay
  <2> QED
    BY <1>0, <1>1, <1>9, <2>1, InsertedSound DEF AfterSync
<1>10. CASE FindClash(l)
  <2>1. LinksStay
    BY <1>10 DEF FindClash, LinksStay
  <2>2. login'[l].pc = "profile" /\ \A x \in Login : x # l => login'[x] = login[x]
    BY <1>0, <1>10, ClashSound
  <2> QED
    BY <1>1, <2>1, <2>2
<1>11. CASE UpdateProfile(l)
  <2>1. login[l].admin \in Admin
    BY <1>0, <1>11 DEF UpdateProfile, Located, At, SyncPC
  <2>2. LinksStay
    BY <1>0, <1>11, <2>1 DEF UpdateProfile, LinksStay, TypeOK, Account
  <2> QED
    BY <1>2, <1>11, <2>2 DEF UpdateProfile, LoginPC, SyncPC
<1>12. ASSUME NEW t \in Token, CreateSession(l, t) PROVE LinkInv'
  BY <1>3, <1>12 DEF CreateSession, LinksStay
<1>13. CASE Fail(l)
  BY <1>3, <1>13 DEF Fail, LinksStay
<1> QED
  BY <1>4, <1>5, <1>6, <1>7, <1>8, <1>9, <1>10, <1>11, <1>12, <1>13, LinkJoined, LinkWritten
     DEF SignIn

\* So does every step.
LEMMA LinkStep == TypeInv /\ LinkInv /\ [Next]_vars => LinkInv'
<1> SUFFICES ASSUME TypeInv, LinkInv, [Next]_vars PROVE LinkInv'
  OBVIOUS
<1>0. TypeOK
  BY DEF TypeInv
<1>1. ASSUME LinksStay, login' = login \/ \E ls : Overtake(ls) PROVE LinkInv'
  <2>1. \A x \in Login : \/ login'[x] = login[x]
                         \/ SameButNotes(login[x], login'[x]) /\ login'[x].met = login[x].met
    BY <1>0, <1>1, OvertakeSound
  <2> QED
    BY <1>1, <2>1, LinkStays DEF SameButNotes
<1>2. CASE UNCHANGED vars
  BY <1>1, <1>2 DEF vars, LinksStay
<1>3. CASE BackchannelLogout
  <2>1. UNCHANGED account /\ (login' = login \/ \E ls : Overtake(ls))
    BY <1>3 DEF BackchannelLogout, LogoutSid, LogoutSubject, LogoutAll, LogoutFails
  <2> QED
    BY <1>1, <2>1 DEF LinksStay
<1>4. ASSUME NEW a \in Admin, NEW email \in Email, NEW keys \in Grant,
             CreateLocal(a, email, keys)
      PROVE  LinkInv'
  BY <1>0, <1>1, <1>4 DEF CreateLocal, TypeOK, LinksStay
<1>5. ASSUME NEW a \in Admin, NEW keys \in Grant, AssignRoles(a, keys) PROVE LinkInv'
  <2>1. LinksStay
    BY <1>5 DEF AssignRoles, LinksStay
  <2>2. \A x \in Login :
          /\ login'[x].pc = login[x].pc /\ login'[x].admin = login[x].admin
          /\ login'[x].sid = login[x].sid
          /\ login[x].met => login'[x].met
    BY <1>0, <1>5, AssignedSound
  <2> QED
    BY <2>1, <2>2, LinkStays
<1>6. ASSUME NEW a \in Admin, Disable(a) \/ Enable(a) PROVE LinkInv'
  <2>1. LinksStay
    BY <1>0, <1>6 DEF Disable, Enable, TypeOK, Account, LinksStay
  <2> QED
    BY <1>1, <1>6, <2>1 DEF Disable, Enable
<1>7. ASSUME NEW a \in Admin, RevokeAll(a) \/ RevokeFails(a) PROVE LinkInv'
  BY <1>1, <1>7 DEF RevokeAll, RevokeFails, LinksStay
<1>8. ASSUME NEW t \in Token, EndSession(t) PROVE LinkInv'
  BY <1>1, <1>8 DEF EndSession, LinksStay
<1> QED
  BY <1>2, <1>3, <1>4, <1>5, <1>6, <1>7, <1>8, LinkSignIn DEF Next, Administration

(***************************************************************************)
(* Only Link writes over a link.                                           *)
(***************************************************************************)
LEMMA LinkGuarded ==
    ASSUME TypeInv, LinkInv, [Next]_vars, NEW a \in Admin,
           account[a].subject \notin {None, account'[a].subject}
    PROVE  \E l \in Linking(a) : login[l].met
<1>0. TypeOK /\ account[a].status # "ABSENT"
  BY DEF TypeInv, Blank
<1>1. ASSUME NEW l \in Login, Link(l) PROVE \E d \in Linking(a) : login[d].met
  <2>1. At(l, "link") /\ login[l].admin \in Admin
    BY <1>1 DEF Link, TypeInv, Located, At
  <2>2. login[l].admin = a
    BY <1>0, <1>1, <2>1 DEF Link, TypeOK
  <2>3. account'[a].subject = SubjectOf(l)
    BY <1>0, <1>1, <2>1, <2>2 DEF Link, TypeOK, Account
  <2>4. login[l].met
    BY <2>1, <2>2, <2>3 DEF LinkInv, Vacant
  <2> QED
    BY <2>1, <2>2, <2>4 DEF Linking
<1>2. ASSUME NEW l \in Login, SignIn(l), ~Link(l) PROVE account'[a].subject = account[a].subject
  <2>1. CASE UNCHANGED account
    BY <2>1
  <2>2. ASSUME NEW b \in Admin, Create(l, b) PROVE account'[a].subject = account[a].subject
    BY <1>0, <2>2 DEF Create, TypeOK
  <2>3. CASE UpdateProfile(l)
    <3>1. login[l].admin \in Admin
      BY <2>3 DEF UpdateProfile, TypeInv, Located, At, SyncPC
    <3> QED
      BY <1>0, <2>3, <3>1 DEF UpdateProfile, TypeOK, Account
  <2> QED
    BY <1>2, <2>1, <2>2, <2>3
       DEF SignIn, Exchange, FindBySubject, FindByEmail, ReadRoles, DeleteRoles, InsertRoles,
           FindClash, CreateSession, Fail
<1>3. ASSUME Administration PROVE account'[a].subject = account[a].subject
  <2>1. ASSUME NEW b \in Admin, NEW email, NEW keys, CreateLocal(b, email, keys)
        PROVE  account'[a].subject = account[a].subject
    BY <1>0, <2>1 DEF CreateLocal, TypeOK
  <2>2. ASSUME NEW b \in Admin, Disable(b) \/ Enable(b)
        PROVE  account'[a].subject = account[a].subject
    BY <1>0, <2>2 DEF Disable, Enable, TypeOK, Account
  <2>3. ASSUME UNCHANGED account PROVE account'[a].subject = account[a].subject
    BY <2>3
  <2> QED
    BY <1>3, <2>1, <2>2, <2>3
       DEF Administration, AssignRoles, RevokeAll, RevokeFails, EndSession
<1>4. ASSUME BackchannelLogout \/ UNCHANGED vars PROVE account'[a].subject = account[a].subject
  BY <1>4 DEF BackchannelLogout, LogoutSid, LogoutSubject, LogoutAll, LogoutFails, vars
<1> QED
  BY <1>1, <1>2, <1>3, <1>4 DEF Next

(***************************************************************************)
(* A link is for life, for any number of people, accounts and sign-ins:    *)
(* only sign-ins that were linking one account at the same time can take   *)
(* it from each other (oidc.service.ts, findOrLinkAdmin).                  *)
(***************************************************************************)
THEOREM LinksHold == Spec => LinkIsForLife
<1>1. Init => LinkInv
  BY IdleState DEF Init, LinkInv, LinksMeet, Vacant, At
<1>2. TypeInv /\ LinkInv /\ [Next]_vars =>
        [\A a \in Admin :
          account[a].subject \notin {None, account'[a].subject} =>
              \E l \in Linking(a) : login[l].met]_vars
  BY LinkGuarded
<1> QED
  BY <1>1, <1>2, LinkStep, TypeCorrect, PTL DEF Spec, LinkIsForLife
-----------------------------------------------------------------------------
(***************************************************************************)
(* Ends of sessions.  Where a step of a sign-in takes it, and any other:   *)
(* out, on with what it knew, in with a provider session that goes on, or  *)
(* past the look-up with an active account of its own.                     *)
(***************************************************************************)
GoesOn(x) ==
    /\ login[x].pc # "idle" /\ login'[x].sid = login[x].sid
    /\ login[x].late => login'[x].late
    /\ login'[x].pc \in SyncPC => login[x].pc \in SyncPC /\ login'[x].admin = login[x].admin

ComesIn(x) == login'[x].pc = "subject" /\ login'[x].sid \notin ended

Passes(x) ==
    /\ login[x].pc # "idle" /\ login'[x].sid = login[x].sid
    /\ login[x].late => login'[x].late
    /\ login'[x].admin \in Admin
    /\ account'[login'[x].admin].status = "ACTIVE"
    /\ account'[login'[x].admin].subject = SubjectOf(x)

Shape ==
    \A x \in Login : login'[x].pc = "idle" \/ GoesOn(x) \/ ComesIn(x) \/ Passes(x)

\* How the sign-ins move when one reaches its account.
LEMMA ReachedShape ==
    ASSUME TypeInv, NEW l \in Login, login[l].pc \notin SyncPC \cup {"idle"}, NEW a \in Admin,
           NEW row, Reached(l, a, row), row = account'[a], row.subject = SubjectOf(l)
    PROVE  Shape
<1>0. TypeOK
  BY DEF TypeInv
<1>1. CASE Leave(l)
  BY <1>0, <1>1, LeaveSound DEF Shape, GoesOn
<1>2. CASE Admit(l, a, row)
  <2>1. account'[a].status = "ACTIVE"
    BY <1>2 DEF Admit
  <2>2. /\ login'[l].admin = a /\ login'[l].sid = login[l].sid
        /\ login'[l].late = login[l].late
        /\ \A x \in Login : x # l =>
             SameButNotes(login[x], login'[x]) /\ login'[x].late = login[x].late
    BY <1>0, <1>2, AdmitSound
  <2>3. Passes(l)
    BY <2>1, <2>2 DEF Passes
  <2>4. \A x \in Login : x # l => login'[x].pc = "idle" \/ GoesOn(x)
    BY <2>2 DEF SameButNotes, GoesOn
  <2> QED
    BY <2>3, <2>4 DEF Shape
<1> QED
  BY <1>1, <1>2 DEF Reached, Refuse

\* How they move at any step of one.
LEMMA SignInShape == ASSUME TypeInv, NEW l \in Login, SignIn(l) PROVE Shape
<1>0. TypeOK /\ Located
  BY DEF TypeInv
<1>1. ASSUME \A x \in Login : x # l =>
                 /\ login'[x].pc = login[x].pc /\ login'[x].admin = login[x].admin
                 /\ login'[x].sid = login[x].sid /\ login'[x].late = login[x].late,
             login'[l].pc = "idle" \/ GoesOn(l) \/ ComesIn(l) \/ Passes(l)
      PROVE  Shape
  BY <1>1 DEF Shape, GoesOn
<1>2. ASSUME Leave(l) PROVE Shape
  <2>1. login'[l].pc = "idle" /\ \A x \in Login : x # l => login'[x] = login[x]
    BY <1>0, <1>2, LeaveSound
  <2> QED
    BY <1>1, <2>1
<1>3. ASSUME NEW pc \in LoginPC, Goto(l, pc), ~At(l, "idle"),
             pc \in SyncPC => login[l].pc \in SyncPC
      PROVE  Shape
  <2>1. /\ login'[l].pc = pc /\ login'[l].admin = login[l].admin
        /\ login'[l].sid = login[l].sid /\ login'[l].late = login[l].late
        /\ \A x \in Login : x # l => login'[x] = login[x]
    BY <1>0, <1>3, GotoSound
  <2> QED
    BY <1>1, <1>3, <2>1 DEF GoesOn, At
<1>4. ASSUME NEW sid \in Sid, NEW email \in Email, NEW keys \in Grant,
             Exchange(l, sid, email, keys)
      PROVE  Shape
  <2> DEFINE q == Fresh("subject", sid, email, keys)
  <2>1. q \in LoginState /\ q.pc = "subject" /\ q.sid = sid
    BY FreshState, GrantAssumption
  <2>2. Become(l, q) /\ sid \notin ended
    BY <1>4 DEF Exchange
  <2> HIDE DEF q
  <2>3. login'[l] = q /\ \A x \in Login : x # l => login'[x] = login[x]
    BY <1>0, <2>1, <2>2, BecomeSound
  <2> QED
    BY <1>1, <2>1, <2>2, <2>3 DEF ComesIn
<1>5. CASE FindBySubject(l)
  <2>1. ASSUME NEW a \in Linked(SubjectOf(l)), Reached(l, a, account[a]) PROVE Shape
    <3>1. a \in Admin /\ account[a].subject = SubjectOf(l) /\ account' = account
      BY <1>5 DEF Linked, FindBySubject
    <3>2. login[l].pc \notin SyncPC \cup {"idle"}
      BY <1>5 DEF FindBySubject, At, SyncPC
    <3> QED
      BY <2>1, <3>1, <3>2, ReachedShape
  <2> QED
    BY <1>3, <1>5, <2>1 DEF FindBySubject, At, LoginPC, SyncPC
<1>6. ASSUME NEW verified, FindByEmail(l, verified) PROVE Shape
  <2>1. ASSUME NEW a \in Owning(login[l].email),
               Meet(l, [login[l] EXCEPT !.pc = "link", !.admin = a], Linking(a))
        PROVE  Shape
    <3>1. a \in Admin /\ ~At(l, "link") /\ login[l].pc # "idle"
      BY <1>6 DEF Owning, FindByEmail, At
    <3>2. /\ login'[l].pc = "link" /\ login'[l].sid = login[l].sid
          /\ login'[l].late = login[l].late
          /\ \A x \in Login : x # l =>
               SameButNotes(login[x], login'[x]) /\ login'[x].late = login[x].late
      BY <1>0, <2>1, <3>1, JoinSound
    <3>3. GoesOn(l)
      BY <3>1, <3>2 DEF GoesOn, SyncPC
    <3> QED
      BY <1>1, <3>2, <3>3 DEF SameButNotes
  <2> QED
    BY <1>2, <1>3, <1>6, <2>1 DEF FindByEmail, At, LoginPC, SyncPC
<1>7. CASE Link(l)
  <2> DEFINE a == login[l].admin
             row == [account[a] EXCEPT !.subject = SubjectOf(l)]
  <2>1. a \in Admin /\ login[l].pc \notin SyncPC \cup {"idle"} /\ account[a] \in Account
    BY <1>0, <1>7 DEF Link, Located, At, SyncPC, TypeOK
  <2>2. Reached(l, a, row) /\ account' = [account EXCEPT ![a] = row]
    BY <1>7 DEF Link
  <2>3. row.subject = SubjectOf(l)
    BY <2>1 DEF Account
  <2> HIDE DEF a, row
  <2>4. row = account'[a]
    BY <1>0, <2>1, <2>2 DEF TypeOK
  <2> QED
    BY <2>1, <2>2, <2>3, <2>4, ReachedShape
<1>8. ASSUME NEW a \in Admin, Create(l, a) PROVE Shape
  <2> DEFINE row == [status |-> "ACTIVE", email |-> login[l].email, subject |-> SubjectOf(l)]
  <2>1. login[l].pc \notin SyncPC \cup {"idle"} /\ row.subject = SubjectOf(l)
    BY <1>8 DEF Create, At, SyncPC
  <2>2. Reached(l, a, row) /\ account' = [account EXCEPT ![a] = row]
    BY <1>8 DEF Create, Reached
  <2> HIDE DEF row
  <2>3. row = account'[a]
    BY <1>0, <2>2 DEF TypeOK
  <2> QED
    BY <2>1, <2>2, <2>3, ReachedShape
<1>9. CASE ReadRoles(l)
  BY <1>3, <1>9 DEF ReadRoles, AfterSync, At, LoginPC, SyncPC
<1>10. CASE DeleteRoles(l)
  <2>1. login[l].admin \in Admin /\ login[l].pc \in SyncPC /\ login[l].pc # "idle"
    BY <1>0, <1>10 DEF DeleteRoles, Located, At, SyncPC
  <2> QED
    BY <1>0, <1>1, <1>10, <2>1, DeletedSound DEF GoesOn
<1>11. CASE InsertRoles(l)
  <2>1. login[l].pc \in SyncPC /\ login[l].pc # "idle"
    BY <1>11 DEF InsertRoles, At, SyncPC
  <2> QED
    BY <1>0, <1>1, <1>11, <2>1, InsertedSound DEF GoesOn
<1>12. CASE FindClash(l)
  <2>1. login[l].pc \in SyncPC /\ login[l].pc # "idle"
    BY <1>12 DEF FindClash, At, SyncPC
  <2> QED
    BY <1>0, <1>1, <1>12, <2>1, ClashSound DEF GoesOn
<1>13. CASE UpdateProfile(l)
  BY <1>3, <1>13 DEF UpdateProfile, At, LoginPC, SyncPC
<1>14. ASSUME NEW t \in Token, CreateSession(l, t) PROVE Shape
  BY <1>2, <1>14 DEF CreateSession
<1>15. CASE Fail(l)
  BY <1>2, <1>15 DEF Fail
<1> QED
  BY <1>4, <1>5, <1>6, <1>7, <1>8, <1>9, <1>10, <1>11, <1>12, <1>13, <1>14, <1>15 DEF SignIn

(***************************************************************************)
(* The account of a sign-in, and of a session, is the person's, unless     *)
(* another person took it over.                                            *)
(***************************************************************************)
BelongingStays ==
    \A a \in Admin, s \in Subject :
        account[a].status # "ABSENT" =>
            /\ account[a].subject = s => account'[a].subject = s \/ <<a, s>> \in lost'
            /\ <<a, s>> \in lost => <<a, s>> \in lost'

\* A session row of the step before, or one that a sign-in opens.
SessionsShrink ==
    \A t \in Token : session'[t] # None =>
        /\ t \in Live
        /\ session'[t].owner = session[t].owner /\ session'[t].sid = session[t].sid
        /\ session[t].outlived => session'[t].outlived

Opens(t, l) ==
    /\ login[l].pc = "session"
    /\ session'[t].owner = login[l].admin /\ session'[t].sid = login[l].sid
    /\ session'[t].outlived = login[l].late

SessionsGrow ==
    \A t \in Token : session'[t] # None =>
        (t \in Live /\ session'[t] = session[t]) \/ \E l \in Login : Opens(t, l)

\* A session stays on an account that belongs, or belonged, to its person.
LEMMA OwnStep ==
    ASSUME TypeInv, OwnAccount, Shape, BelongingStays, SessionsShrink \/ SessionsGrow
    PROVE  OwnAccount'
<1>1. \A x \in Login : login[x].pc # "idle" => SubjectOf(x) \in Subject
  BY DEF TypeInv, Located, At, Sid, SubjectOf
<1>2. \A x \in Login : login[x].pc \in SyncPC =>
        /\ login[x].admin \in Admin /\ account[login[x].admin].status # "ABSENT"
        /\ BelongsTo(login[x].admin, SubjectOf(x)) /\ SubjectOf(x) \in Subject
  BY <1>1 DEF TypeInv, Located, OwnAccount, SyncPC
<1>3. \A t \in Live :
        /\ session[t].owner \in Admin /\ session[t].sid[1] \in Subject
        /\ account[session[t].owner].status # "ABSENT"
        /\ BelongsTo(session[t].owner, session[t].sid[1])
  BY DEF TypeInv, TypeOK, Live, Session, Sid, Owned, OwnAccount
<1> DEFINE New(a, s) == account'[a].subject = s \/ <<a, s>> \in lost'
<1>4. \A a \in Admin, s \in Subject :
        account[a].status # "ABSENT" /\ BelongsTo(a, s) => New(a, s)
  BY DEF BelongingStays, BelongsTo
<1> HIDE DEF New
<1>5. ASSUME NEW x \in Login, login'[x].pc \in SyncPC
      PROVE  New(login'[x].admin, login'[x].sid[1])
  <2>1. GoesOn(x) \/ Passes(x)
    BY <1>5 DEF Shape, ComesIn, SyncPC
  <2>2. CASE GoesOn(x)
    BY <1>2, <1>4, <1>5, <2>2 DEF GoesOn, SubjectOf
  <2>3. CASE Passes(x)
    BY <2>3 DEF Passes, SubjectOf, New
  <2> QED
    BY <2>1, <2>2, <2>3
<1>6. ASSUME NEW t \in Token, session'[t] # None
      PROVE  New(session'[t].owner, session'[t].sid[1])
  <2>1. CASE t \in Live /\ session'[t].owner = session[t].owner /\ session'[t].sid = session[t].sid
    BY <1>3, <1>4, <2>1
  <2>2. ASSUME NEW l \in Login, Opens(t, l) PROVE New(session'[t].owner, session'[t].sid[1])
    BY <1>2, <1>4, <2>2 DEF Opens, SubjectOf, SyncPC
  <2> QED
    BY <1>6, <2>1, <2>2 DEF SessionsShrink, SessionsGrow
<1> QED
  BY <1>5, <1>6 DEF OwnAccount, BelongsTo, New, SubjectOf, Live
(***************************************************************************)
(* Second half: a revocation ends the sessions, or notes that it did not.  *)
(* A step that only adds to what is known, and revokes nothing.            *)
(***************************************************************************)
StatusStays ==
    /\ revoking \subseteq revoking'
    /\ \A a \in Admin :
         account[a].status = "ACTIVE" => account'[a].status = "ACTIVE" \/ a \in revoking'

\* A sign-in past the look-up knows when it was overtaken.
LEMMA SyncWarned ==
    ASSUME TypeInv, Warned, NEW l \in Login, login[l].pc \in SyncPC
    PROVE  /\ login[l].admin \in Admin
           /\ \/ account[login[l].admin].status = "ACTIVE"
              \/ login[l].admin \in revoking
              \/ login[l].late
           /\ login[l].sid \in ended => login[l].late
BY DEF TypeInv, Located, Warned, At, SyncPC

\* A step that ends nothing and disables nobody keeps EndInv.
LEMMA EndStays ==
    ASSUME TypeInv, EndInv, Shape, BelongingStays, SessionsGrow, StatusStays,
           UNCHANGED <<ended, logout>>, lost \subseteq lost'
    PROVE  EndInv'
<1>1. OwnAccount'
  BY OwnStep DEF EndInv
<1>2. \A x \in Login :
        /\ login[x].pc \in SyncPC =>
             /\ login[x].admin \in Admin
             /\ \/ account'[login[x].admin].status = "ACTIVE"
                \/ login[x].admin \in revoking'
                \/ login[x].late
        /\ login[x].pc # "idle" /\ login[x].sid \in ended => login[x].late
  BY SyncWarned DEF EndInv, StatusStays, Warned, At
<1>3. Warned'
  <2> SUFFICES ASSUME NEW x \in Login
               PROVE  /\ login'[x].pc \in SyncPC =>
                           \/ account'[login'[x].admin].status = "ACTIVE"
                           \/ login'[x].admin \in revoking'
                           \/ login'[x].late
                      /\ login'[x].pc # "idle" /\ login'[x].sid \in ended => login'[x].late
    BY DEF Warned, At
  <2>1. CASE GoesOn(x)
    BY <1>2, <2>1 DEF GoesOn
  <2>2. CASE ComesIn(x) \/ login'[x].pc = "idle"
    BY <2>2 DEF ComesIn, SyncPC
  <2>3. CASE Passes(x)
    BY <1>2, <2>3 DEF Passes
  <2> QED
    BY <2>1, <2>2, <2>3 DEF Shape
<1>4. SessionsAreEnded'
  <2> SUFFICES ASSUME NEW t \in Token, session'[t] # None
               PROVE  /\ \/ account'[session'[t].owner].status = "ACTIVE"
                         \/ session'[t].owner \in revoking'
                         \/ session'[t].outlived
                      /\ session'[t].sid \in ended =>
                           \/ session'[t].owner = logout
                           \/ session'[t].outlived
                           \/ <<session'[t].owner, session'[t].sid[1]>> \in lost'
    BY DEF SessionsAreEnded, DisabledIsSignedOut, LogoutIsComplete, Live
  <2>1. CASE t \in Live /\ session'[t] = session[t]
    <3>1. session[t].owner \in Admin
      BY <2>1 DEF TypeInv, TypeOK, Session, Live
    <3> QED
      BY <2>1, <3>1
         DEF EndInv, SessionsAreEnded, DisabledIsSignedOut, LogoutIsComplete, StatusStays
  <2>2. ASSUME NEW l \in Login, Opens(t, l)
        PROVE  /\ \/ account'[session'[t].owner].status = "ACTIVE"
                  \/ session'[t].owner \in revoking'
                  \/ session'[t].outlived
               /\ session'[t].sid \in ended => session'[t].outlived
    BY <1>2, <2>2 DEF Opens, SyncPC
  <2> QED
    BY <2>1, <2>2 DEF SessionsGrow
<1> QED
  BY <1>1, <1>3, <1>4 DEF EndInv

\* A revocation: the sign-ins in ls are overtaken, sessions end or are noted.
LEMMA EndRevoked ==
    ASSUME TypeInv, EndInv, NEW ls, Overtake(ls) \/ (UNCHANGED login /\ ls = {}),
           UNCHANGED <<account, lost>>, SessionsShrink,
           ended \subseteq ended', ended' \in SUBSET Sid,
           \A x \in Login : login[x].pc # "idle" /\ login[x].sid \in ended' \ ended => x \in ls,
           \A x \in Login : login[x].pc \in SyncPC /\ login[x].admin \in revoking \ revoking'
                => x \in ls,
           \A t \in Token : session'[t] # None =>
               /\ session[t].owner \in revoking \ revoking' => session'[t].outlived
               /\ session[t].sid \in ended /\ session[t].owner = logout =>
                    session[t].owner = logout' \/ session'[t].outlived
               /\ session[t].sid \in ended' \ ended =>
                    \/ session[t].owner = logout'
                    \/ <<session[t].owner, session[t].sid[1]>> \in lost
    PROVE  EndInv'
<1>0. TypeOK
  BY DEF TypeInv
<1>1. \A x \in Login :
        /\ login'[x].pc = login[x].pc /\ login'[x].sid = login[x].sid
        /\ login'[x].admin = login[x].admin
        /\ login[x].late => login'[x].late
        /\ x \in ls => login'[x].late
  BY <1>0, OvertakeSound DEF SameButNotes
<1>2. Shape
  BY <1>1 DEF Shape, GoesOn
<1>3. OwnAccount'
  BY <1>2, OwnStep DEF EndInv, BelongingStays
<1>4. Warned'
  BY <1>1, SyncWarned DEF EndInv, Warned, At
<1>5. SessionsAreEnded'
  BY DEF EndInv, SessionsAreEnded, DisabledIsSignedOut, LogoutIsComplete, SessionsShrink, Live
<1> QED
  BY <1>3, <1>4, <1>5 DEF EndInv

\* Every step of a sign-in keeps EndInv.
LEMMA EndSignIn == ASSUME TypeInv, EndInv, NEW l \in Login, SignIn(l) PROVE EndInv'
<1>0. TypeOK /\ Located
  BY DEF TypeInv
<1>1. Shape /\ UNCHANGED <<ended, logout, revoking>> /\ lost \subseteq lost'
  BY SignInShape
     DEF SignIn, Exchange, FindBySubject, FindByEmail, Link, Create, ReadRoles, DeleteRoles,
         InsertRoles, FindClash, UpdateProfile, CreateSession, Fail
<1>2. SessionsGrow
  <2>1. ASSUME NEW t \in Token, CreateSession(l, t) PROVE SessionsGrow
    <3>1. \A u \in Token : u # t => session'[u] = session[u]
      BY <1>0, <2>1 DEF CreateSession, TypeOK
    <3>2. Opens(t, l)
      BY <1>0, <2>1 DEF CreateSession, TypeOK, Opens, At
    <3> QED
      BY <3>1, <3>2 DEF SessionsGrow, Live
  <2>2. ASSUME UNCHANGED session PROVE SessionsGrow
    BY <2>2 DEF SessionsGrow, Live
  <2> QED
    BY <2>1, <2>2
       DEF SignIn, Exchange, FindBySubject, FindByEmail, Link, Create, ReadRoles, DeleteRoles,
           InsertRoles, FindClash, UpdateProfile, Fail
<1>3. BelongingStays /\ StatusStays
  <2>1. CASE Link(l)
    <3> DEFINE a == login[l].admin
    <3>1. a \in Admin /\ account[a] \in Account
      BY <1>0, <2>1 DEF Link, Located, At, TypeOK
    <3>2. account' = [account EXCEPT ![a] = [account[a] EXCEPT !.subject = SubjectOf(l)]]
      BY <2>1 DEF Link
    <3>3. /\ account'[a].subject = SubjectOf(l) /\ account'[a].status = account[a].status
          /\ \A b \in Admin : b # a => account'[b] = account[b]
      BY <1>0, <3>1, <3>2 DEF TypeOK, Account
    <3>4. account[a].subject \notin {None, SubjectOf(l)} => <<a, account[a].subject>> \in lost'
      BY <2>1 DEF Link
    <3> HIDE DEF a
    <3> QED
      BY <1>1, <3>3, <3>4, NoneAssumption DEF BelongingStays, StatusStays
  <2>2. ASSUME NEW a \in Admin, Create(l, a) PROVE BelongingStays /\ StatusStays
    <3>1. \A b \in Admin : b # a => account'[b] = account[b]
      BY <1>0, <2>2 DEF Create, TypeOK
    <3> QED
      BY <1>1, <2>2, <3>1 DEF Create, BelongingStays, StatusStays
  <2>3. CASE UpdateProfile(l)
    <3>1. login[l].admin \in Admin
      BY <1>0, <2>3 DEF UpdateProfile, Located, At, SyncPC
    <3>2. \A b \in Admin : /\ account'[b].subject = account[b].subject
                           /\ account'[b].status = account[b].status
      BY <1>0, <2>3, <3>1 DEF UpdateProfile, TypeOK, Account
    <3> QED
      BY <1>1, <3>2 DEF BelongingStays, StatusStays
  <2>4. ASSUME UNCHANGED account PROVE BelongingStays /\ StatusStays
    BY <1>1, <2>4 DEF BelongingStays, StatusStays
  <2> QED
    BY <2>1, <2>2, <2>3, <2>4
       DEF SignIn, Exchange, FindBySubject, FindByEmail, ReadRoles, DeleteRoles,
           InsertRoles, FindClash, CreateSession, Fail
<1> QED
  BY <1>1, <1>2, <1>3, EndStays

\* So does every step of a back-channel logout.
LEMMA EndLogout == ASSUME TypeInv, EndInv, BackchannelLogout PROVE EndInv'
<1>0. TypeOK
  BY DEF TypeInv
<1>1. \A ts : session' = Without(ts) =>
        /\ SessionsShrink
        /\ \A t \in Token : session'[t] # None => t \in Live /\ t \notin ts
  BY <1>0, WithoutSound DEF SessionsShrink
<1>2. ASSUME NEW sid \in Sid, LogoutSid(sid) PROVE EndInv'
  <2>1. SessionsShrink /\ \A t \in Token : session'[t] # None => t \in Live /\ session[t].sid # sid
    BY <1>1, <1>2 DEF LogoutSid
  <2>2. ended' \in SUBSET Sid /\ ended \subseteq ended'
    BY <1>0, <1>2 DEF LogoutSid, TypeOK
  <2>3. Overtake(SigningIn({sid})) /\ UNCHANGED <<account, lost, logout, revoking>>
        /\ ended' \ ended \subseteq {sid}
    BY <1>2 DEF LogoutSid
  <2>4. \A x \in Login : login[x].pc # "idle" /\ login[x].sid \in ended' \ ended =>
          x \in SigningIn({sid})
    BY <2>3 DEF SigningIn, At
  <2> QED
    BY <2>1, <2>2, <2>3, <2>4, EndRevoked
<1>3. ASSUME NEW s \in Subject, LogoutSubject(s) PROVE EndInv'
  <2>1. /\ ended' \in SUBSET Sid /\ ended \subseteq ended'
        /\ \A sid \in ended' \ ended : sid \in {s} \X Visit /\ sid[1] = s
    BY <1>0, <1>3 DEF LogoutSubject, TypeOK, Sid
  <2>2. /\ Overtake(SigningIn({s} \X Visit)) /\ UNCHANGED <<account, lost, session, revoking>>
        /\ logout = None
    BY <1>3 DEF LogoutSubject
  <2>3. \A x \in Login : login[x].pc # "idle" /\ login[x].sid \in ended' \ ended =>
          x \in SigningIn({s} \X Visit)
    BY <2>1 DEF SigningIn, At
  <2>4. SessionsShrink
    BY <2>2 DEF SessionsShrink, Live
  <2>5. \A t \in Live : /\ session[t].owner \in Admin
                        /\ BelongsTo(session[t].owner, session[t].sid[1])
    BY <1>0 DEF TypeOK, Live, Session, EndInv, OwnAccount
  <2>6. \A a \in Linked(s) : logout' = a
    BY <1>3, NoneAssumption DEF LogoutSubject, Linked, TypeInv, UniqueSubject
  <2>7. ASSUME NEW t \in Live, session[t].sid \in ended' \ ended
        PROVE  \/ session[t].owner = logout'
               \/ <<session[t].owner, session[t].sid[1]>> \in lost
    BY <2>1, <2>5, <2>6, <2>7 DEF BelongsTo, Linked
  <2>8. \A t \in Live : session[t].owner # logout
    BY <2>2, <2>5, NoneAssumption
  <2> QED
    BY <2>1, <2>2, <2>3, <2>4, <2>7, <2>8, EndRevoked DEF Live
<1>4. CASE LogoutAll
  <2>1. SessionsShrink /\ \A t \in Token : session'[t] # None => session[t].owner # logout
    BY <1>1, <1>4 DEF LogoutAll, SessionsOf
  <2>2. /\ Overtake(Syncing(logout)) /\ UNCHANGED <<account, lost, ended, revoking>>
        /\ ended' \in SUBSET Sid
    BY <1>0, <1>4 DEF LogoutAll, TypeOK
  <2> QED
    BY <2>1, <2>2, EndRevoked
<1>5. CASE LogoutFails
  <2>1. \A t \in Token : session'[t] # None =>
          /\ t \in Live
          /\ session'[t].owner = session[t].owner /\ session'[t].sid = session[t].sid
          /\ t \in SessionsOf(logout) => session'[t].outlived
          /\ t \notin SessionsOf(logout) => session'[t] = session[t]
    BY <1>0, <1>5, OutlivingSound, SessionsOfLive DEF LogoutFails
  <2>2. UNCHANGED <<login, account, lost, ended, revoking>> /\ ended' \in SUBSET Sid
    BY <1>0, <1>5 DEF LogoutFails, TypeOK
  <2>3. SessionsShrink
    BY <2>1 DEF SessionsShrink
  <2>4. \A t \in Token : session'[t] # None /\ session[t].owner = logout => session'[t].outlived
    BY <2>1 DEF SessionsOf
  <2> QED
    BY <2>2, <2>3, <2>4, EndRevoked
<1> QED
  BY <1>2, <1>3, <1>4, <1>5 DEF BackchannelLogout

\* So does every step of administration.
LEMMA EndAdministration == ASSUME TypeInv, EndInv, Administration PROVE EndInv'
<1>0. TypeOK
  BY DEF TypeInv
<1>1. ASSUME UNCHANGED login PROVE Shape
  BY <1>1 DEF Shape, GoesOn
<1>2. ASSUME UNCHANGED session PROVE SessionsGrow
  BY <1>2 DEF SessionsGrow, Live
<1>3. ASSUME NEW a \in Admin, NEW email \in Email, NEW keys \in Grant,
             CreateLocal(a, email, keys)
      PROVE  EndInv'
  <2>1. \A b \in Admin : b # a => account'[b] = account[b]
    BY <1>0, <1>3 DEF CreateLocal, TypeOK
  <2>2. BelongingStays /\ StatusStays
    BY <1>3, <2>1 DEF CreateLocal, BelongingStays, StatusStays
  <2> QED
    BY <1>1, <1>2, <1>3, <2>2, EndStays DEF CreateLocal
<1>4. ASSUME NEW a \in Admin, NEW keys \in Grant, AssignRoles(a, keys) PROVE EndInv'
  <2>1. Shape
    BY <1>0, <1>4, AssignedSound DEF Shape, GoesOn
  <2>2. BelongingStays /\ StatusStays
    BY <1>4 DEF AssignRoles, BelongingStays, StatusStays
  <2> QED
    BY <1>2, <1>4, <2>1, <2>2, EndStays DEF AssignRoles
<1>5. ASSUME NEW a \in Admin, Disable(a) \/ Enable(a) PROVE EndInv'
  <2>1. \A b \in Admin : /\ account'[b].subject = account[b].subject
                         /\ b # a => account'[b] = account[b]
    BY <1>0, <1>5 DEF Disable, Enable, TypeOK, Account
  <2>2. BelongingStays
    BY <1>5, <2>1 DEF Disable, Enable, BelongingStays
  <2>3. StatusStays
    BY <1>5, <2>1 DEF Disable, Enable, StatusStays
  <2> QED
    BY <1>1, <1>2, <1>5, <2>2, <2>3, EndStays DEF Disable, Enable
<1>6. ASSUME NEW a \in Admin, RevokeAll(a) \/ RevokeFails(a) PROVE EndInv'
  <2>1. /\ SessionsShrink
        /\ \A t \in Token : session'[t] # None /\ session[t].owner = a => session'[t].outlived
    <3>1. CASE session' = Without(SessionsOf(a))
      BY <1>0, <3>1, WithoutSound DEF SessionsShrink, SessionsOf
    <3>2. CASE session' = Outliving(SessionsOf(a))
      <4>1. \A t \in Token : session'[t] # None =>
              /\ t \in Live
              /\ session'[t].owner = session[t].owner /\ session'[t].sid = session[t].sid
              /\ t \in SessionsOf(a) => session'[t].outlived
              /\ t \notin SessionsOf(a) => session'[t] = session[t]
        BY <1>0, <3>2, OutlivingSound, SessionsOfLive
      <4> QED
        BY <4>1 DEF SessionsShrink, SessionsOf
    <3> QED
      BY <1>6, <3>1, <3>2 DEF RevokeAll, RevokeFails
  <2>2. /\ Overtake(Syncing(a)) /\ UNCHANGED <<account, lost, ended, logout>>
        /\ revoking' = revoking \ {a} /\ ended' \in SUBSET Sid
    BY <1>0, <1>6 DEF RevokeAll, RevokeFails, TypeOK
  <2>3. \A x \in Login : login[x].pc \in SyncPC /\ login[x].admin \in revoking \ revoking' =>
          x \in Syncing(a)
    BY <2>2 DEF Syncing
  <2> QED
    BY <2>1, <2>2, <2>3, EndRevoked
<1>7. ASSUME NEW t \in Token, EndSession(t) PROVE EndInv'
  <2>1. SessionsGrow
    BY <1>0, <1>7 DEF EndSession, TypeOK, SessionsGrow, Live
  <2>2. BelongingStays /\ StatusStays
    BY <1>7 DEF EndSession, BelongingStays, StatusStays
  <2> QED
    BY <1>1, <1>7, <2>1, <2>2, EndStays DEF EndSession
<1> QED
  BY <1>3, <1>4, <1>5, <1>6, <1>7 DEF Administration

\* So does every step.
LEMMA EndStep == TypeInv /\ EndInv /\ [Next]_vars => EndInv'
<1> SUFFICES ASSUME TypeInv, EndInv, [Next]_vars PROVE EndInv'
  OBVIOUS
<1>1. CASE UNCHANGED vars
  BY <1>1 DEF vars, EndInv, Warned, OwnAccount, SessionsAreEnded, DisabledIsSignedOut,
              LogoutIsComplete, BelongsTo, At, SubjectOf, Live
<1> QED
  BY <1>1, EndSignIn, EndLogout, EndAdministration DEF Next

(***************************************************************************)
(* What ends sessions ends them all, for any number of people, accounts,   *)
(* sign-ins and sessions: the kill switch of admin-users.service.ts and    *)
(* the back-channel logout of oidc.service.ts leave no session behind, but *)
(* those that SessionsAreEnded names.                                      *)
(***************************************************************************)
THEOREM SessionsEnd == Spec => []SessionsAreEnded
<1>1. Init => EndInv
  BY IdleState DEF Init, EndInv, Warned, OwnAccount, SessionsAreEnded, DisabledIsSignedOut,
                   LogoutIsComplete, At, SyncPC, Live
<1>2. EndInv => SessionsAreEnded
  BY DEF EndInv
<1> QED
  BY <1>1, <1>2, EndStep, TypeCorrect, PTL DEF Spec
=============================================================================
