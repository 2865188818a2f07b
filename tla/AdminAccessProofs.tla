------------------------- MODULE AdminAccessProofs -------------------------
(***************************************************************************)
(* Theorems about AdminAccess, for any accounts, roles, passwords, tokens  *)
(* and number of concurrent requests.                                      *)
(***************************************************************************)
EXTENDS AdminAccess, TLAPS

\* The points at which a request is about to use a password it holds.
PasswordPC == {"login", "pwRead", "pwWrite", "create", "bootstrap"}

\* What a request that has left "idle" is known to hold.
Sound(q) ==
    /\ q.pc # "idle" => q.admin \in Admin
    /\ q.pc \in PasswordPC => q.password \in Password

RequestOK ==
    /\ req \in [Request -> RequestState]
    /\ \A r \in Request : Sound(req[r])

TablesOK ==
    /\ status \in [Admin -> {"ABSENT", "ACTIVE", "DISABLED"}]
    /\ roles \in [Admin -> SUBSET RoleKey]
    /\ password \in [Admin -> Password]
    /\ session \in [Token -> Session \cup {None}]
    /\ overlapped \in BOOLEAN

TypeInv == TablesOK /\ RequestOK

-----------------------------------------------------------------------------
(* How a step moves the state of a request *)

(* A new state of a request that is sound keeps the request table typed. *)
LEMMA PutSound ==
    ASSUME RequestOK, NEW r \in Request, NEW q \in RequestState,
           Sound(q), Put(r, q)
    PROVE  RequestOK'
BY DEF RequestOK, Put, Sound

(* Idle holds nothing and is always sound. *)
LEMMA IdleSound == Idle \in RequestState /\ Sound(Idle)
BY DEF Idle, Holding, RequestState, Sound, PC, PasswordPC

(* A request that ends leaves only the idle record, which is sound. *)
LEMMA DoneSound ==
    ASSUME RequestOK, NEW r \in Request, Done(r)
    PROVE  RequestOK'
BY IdleSound, PutSound DEF Done

(* Moving on to the next call keeps what the request holds. *)
LEMMA GotoSound ==
    ASSUME RequestOK, NEW r \in Request, ~At(r, "idle"), NEW pc \in PC,
           pc \in PasswordPC => req[r].password \in Password,
           Goto(r, pc)
    PROVE  RequestOK'
<1>1. req[r] \in RequestState /\ req[r].admin \in Admin
  BY DEF RequestOK, Sound, At
<1>2. req'[r] = [req[r] EXCEPT !.pc = pc]
  BY DEF Goto, RequestOK
<1>3. req'[r] \in RequestState /\ Sound(req'[r])
  BY <1>1, <1>2 DEF RequestState, Sound
<1>4. QED
  BY <1>3 DEF RequestOK, Goto

(* A request that starts to hold something new. *)
LEMMA HoldingSound ==
    ASSUME NEW pc \in PC, NEW a \in Admin, NEW t \in Token \cup {None},
           NEW st \in {"ACTIVE", "DISABLED"}, NEW keys \in SUBSET RoleKey,
           NEW p \in Password \cup {None},
           pc \in PasswordPC => p \in Password
    PROVE  /\ Holding(pc, a, t, st, keys, p) \in RequestState
           /\ Sound(Holding(pc, a, t, st, keys, p))
BY DEF Holding, RequestState, Sound

-----------------------------------------------------------------------------

(* No handler writes a value outside its column, and no step uses an        *)
(* account or a password that its request does not hold.                    *)
THEOREM TypeInvariant == Spec => []TypeInv
<1>1. Init => TypeInv
  <2>1. ASSUME Init PROVE RequestOK
    BY <2>1, IdleSound DEF Init, RequestOK
  <2>2. ASSUME Init PROVE TablesOK
    BY <2>2 DEF Init, TablesOK
  <2>3. QED
    BY <2>1, <2>2 DEF TypeInv
<1>2. TypeInv /\ [Next]_vars => TypeInv'
  <2> SUFFICES ASSUME TypeInv, [Next]_vars PROVE TypeInv'
    OBVIOUS
  <2> USE DEF TypeInv
  <2>1. ASSUME NEW r \in Request,
                NEW a \in Admin,
                LoginVerify(r, a)
         PROVE  TypeInv'
    <3>1. password[a] \in Password
      BY DEF TablesOK
    <3>2. RequestOK'
      BY <2>1, <3>1, HoldingSound, PutSound DEF LoginVerify, PC
    <3>3. QED
      BY <2>1, <3>2 DEF LoginVerify, TablesOK
  <2>2. ASSUME NEW r \in Request,
                NEW t \in Token,
                LoginCreateSession(r, t)
         PROVE  TypeInv'
    <3>1. RequestOK'
      BY <2>2, DoneSound DEF LoginCreateSession
    <3>2. req[r].admin \in Admin /\ req[r].password \in Password
      BY <2>2 DEF LoginCreateSession, At, RequestOK, Sound, PasswordPC
    <3>3. QED
      BY <2>2, <3>1, <3>2 DEF LoginCreateSession, TablesOK, Session
  <2>3. ASSUME NEW r \in Request,
                NEW t \in Token,
                ResolveSession(r, t)
         PROVE  TypeInv'
    <3>1. session[t].owner \in Admin
      BY <2>3 DEF ResolveSession, TablesOK, Session
    <3>2. RequestOK'
      BY <2>3, <3>1, HoldingSound, PutSound
      DEF ResolveSession, PC, PasswordPC
    <3>3. QED
      BY <2>3, <3>2 DEF ResolveSession, TablesOK
  <2>4. ASSUME NEW r \in Request, AuthDisabled(r) PROVE TypeInv'
    <3>1. RequestOK'
      BY <2>4, GotoSound DEF AuthDisabled, At, PC, PasswordPC, RequestOK, Sound
    <3>2. QED
      BY <2>4, <3>1 DEF AuthDisabled, TablesOK
  <2>5. ASSUME NEW r \in Request, Kick(r) PROVE TypeInv'
    <3>1. RequestOK'
      BY <2>5, DoneSound DEF Kick
    <3>2. QED
      BY <2>5, <3>1 DEF Kick, Without, TablesOK
  <2>6. ASSUME NEW r \in Request, AuthOther(r) PROVE TypeInv'
    <3>1. RequestOK'
      BY <2>6, DoneSound DEF AuthOther
    <3>2. QED
      BY <2>6, <3>1 DEF AuthOther, TablesOK
  <2>7. ASSUME NEW r \in Request, AuthLogout(r) PROVE TypeInv'
    <3>1. RequestOK'
      BY <2>7, GotoSound DEF AuthLogout, Authenticated, At, PC, PasswordPC
    <3>2. QED
      BY <2>7, <3>1 DEF AuthLogout, TablesOK
  <2>8. ASSUME NEW r \in Request, Logout(r) PROVE TypeInv'
    <3>1. RequestOK'
      BY <2>8, DoneSound DEF Logout
    <3>2. QED
      BY <2>8, <3>1 DEF Logout, Without, TablesOK
  <2>9. ASSUME NEW r \in Request,
                NEW p \in Password,
                AuthChangePassword(r, p)
         PROVE  TypeInv'
    <3>1. req[r].admin \in Admin
      BY <2>9 DEF AuthChangePassword, Authenticated, At, RequestOK, Sound
    <3>2. RequestOK'
      BY <2>9, <3>1, HoldingSound, PutSound DEF AuthChangePassword, PC
    <3>3. QED
      BY <2>9, <3>2 DEF AuthChangePassword, TablesOK
  <2>10. ASSUME NEW r \in Request, PasswordVerify(r) PROVE TypeInv'
    <3>1. RequestOK'
      BY <2>10, GotoSound DEF PasswordVerify, At, PC, PasswordPC, RequestOK, Sound
    <3>2. QED
      BY <2>10, <3>1 DEF PasswordVerify, TablesOK
  <2>11. ASSUME NEW r \in Request, PasswordWrite(r) PROVE TypeInv'
    <3>1. RequestOK'
      BY <2>11, GotoSound DEF PasswordWrite, At, PC, PasswordPC
    <3>2. req[r].password \in Password
      BY <2>11 DEF PasswordWrite, At, RequestOK, Sound, PasswordPC
    <3>3. QED
      BY <2>11, <3>1, <3>2 DEF PasswordWrite, TablesOK
  <2>12. ASSUME NEW r \in Request, PasswordRevoke(r) PROVE TypeInv'
    <3>1. RequestOK'
      BY <2>12, DoneSound DEF PasswordRevoke
    <3>2. QED
      BY <2>12, <3>1 DEF PasswordRevoke, Without, TablesOK
  <2>13. ASSUME NEW r \in Request,
                NEW a \in Admin,
                NEW st \in {"ACTIVE", "DISABLED"},
                AuthSetStatus(r, a, st)
         PROVE  TypeInv'
    <3>1. RequestOK'
      BY <2>13, HoldingSound, PutSound
      DEF AuthSetStatus, StartChange, PC, PasswordPC
    <3>2. QED
      BY <2>13, <3>1 DEF AuthSetStatus, TablesOK
  <2>14. ASSUME NEW r \in Request,
                NEW a \in Admin,
                NEW keys \in SUBSET RoleKey \ {{}},
                AuthSetRoles(r, a, keys)
         PROVE  TypeInv'
    <3>1. RequestOK'
      BY <2>14, HoldingSound, PutSound
      DEF AuthSetRoles, StartChange, PC, PasswordPC
    <3>2. QED
      BY <2>14, <3>1 DEF AuthSetRoles, TablesOK
  <2>15. ASSUME NEW r \in Request, GuardReadTarget(r) PROVE TypeInv'
    <3>1. RequestOK'
      BY <2>15, GotoSound DEF GuardReadTarget, At, PC, PasswordPC, RequestOK, Sound
    <3>2. QED
      BY <2>15, <3>1 DEF GuardReadTarget, TablesOK
  <2>16. ASSUME NEW r \in Request, GuardCountOthers(r) PROVE TypeInv'
    <3>1. RequestOK'
      BY <2>16, GotoSound, DoneSound DEF GuardCountOthers, At, PC, PasswordPC
    <3>2. QED
      BY <2>16, <3>1 DEF GuardCountOthers, TablesOK
  <2>17. ASSUME NEW r \in Request, WriteStatus(r) PROVE TypeInv'
    <3>1. RequestOK'
      BY <2>17, GotoSound, DoneSound DEF WriteStatus, At, PC, PasswordPC
    <3>2. req[r].status \in {"ACTIVE", "DISABLED"}
      BY DEF RequestOK, RequestState
    <3>3. QED
      BY <2>17, <3>1, <3>2 DEF WriteStatus, TablesOK
  <2>18. ASSUME NEW r \in Request, DisableRevoke(r) PROVE TypeInv'
    <3>1. RequestOK'
      BY <2>18, DoneSound DEF DisableRevoke
    <3>2. QED
      BY <2>18, <3>1 DEF DisableRevoke, Without, TablesOK
  <2>19. ASSUME NEW r \in Request, WriteRoles(r) PROVE TypeInv'
    <3>1. RequestOK'
      BY <2>19, DoneSound DEF WriteRoles
    <3>2. req[r].keys \in SUBSET RoleKey
      BY DEF RequestOK, RequestState
    <3>3. QED
      BY <2>19, <3>1, <3>2 DEF WriteRoles, TablesOK
  <2>20. ASSUME NEW r \in Request,
                NEW a \in Admin,
                NEW keys \in SUBSET RoleKey \ {{}},
                NEW p \in Password,
                AuthCreate(r, a, keys, p)
         PROVE  TypeInv'
    <3>1. RequestOK'
      BY <2>20, HoldingSound, PutSound DEF AuthCreate, PC
    <3>2. QED
      BY <2>20, <3>1 DEF AuthCreate, TablesOK
  <2>21. ASSUME NEW r \in Request, CreateInsert(r) PROVE TypeInv'
    <3>1. RequestOK'
      BY <2>21, DoneSound DEF CreateInsert
    <3>2. req[r].keys \in SUBSET RoleKey /\ req[r].password \in Password
      BY <2>21 DEF CreateInsert, At, RequestOK, RequestState, Sound, PasswordPC
    <3>3. QED
      BY <2>21, <3>1, <3>2 DEF CreateInsert, InsertAdmin, TablesOK
  <2>22. ASSUME NEW r \in Request,
                NEW a \in Admin,
                NEW p \in Password,
                BootstrapCount(r, a, p)
         PROVE  TypeInv'
    <3>1. RequestOK'
      BY <2>22, RolesAssumption, HoldingSound, PutSound
      DEF BootstrapCount, PC
    <3>2. QED
      BY <2>22, <3>1 DEF BootstrapCount, TablesOK
  <2>23. ASSUME NEW r \in Request, BootstrapInsert(r) PROVE TypeInv'
    <3>1. RequestOK'
      BY <2>23, DoneSound DEF BootstrapInsert
    <3>2. req[r].keys \in SUBSET RoleKey /\ req[r].password \in Password
      BY <2>23 DEF BootstrapInsert, At, RequestOK, RequestState, Sound, PasswordPC
    <3>3. QED
      BY <2>23, <3>1, <3>2 DEF BootstrapInsert, InsertAdmin, TablesOK
  <2>24. ASSUME NEW r \in Request, Fail(r) PROVE TypeInv'
    <3>1. RequestOK'
      BY <2>24, DoneSound DEF Fail
    <3>2. \A t \in SessionsOf(req[r].admin) :
             [session[t] EXCEPT !.outlived = TRUE] \in Session
      BY DEF TablesOK, Session, SessionsOf, Live
    <3>3. QED
      BY <2>24, <3>1, <3>2 DEF Fail, Outliving, TablesOK
  <2>25. ASSUME NEW t \in Token, SessionExpires(t) PROVE TypeInv'
    BY <2>25 DEF SessionExpires, Without, TablesOK, RequestOK
  <2>26. CASE UNCHANGED vars
    BY <2>26 DEF vars, TablesOK, RequestOK
  <2>27. QED
    BY <2>1, <2>2, <2>3, <2>4, <2>5, <2>6, <2>7, <2>8, <2>9, <2>10, <2>11,
       <2>12, <2>13, <2>14, <2>15, <2>16, <2>17, <2>18, <2>19, <2>20, <2>21,
       <2>22, <2>23, <2>24, <2>25, <2>26 DEF Next, Step
<1>3. QED
  BY <1>1, <1>2, PTL DEF Spec

(* Every column and every request only ever holds values of its type. *)
THEOREM TypeCorrect == Spec => []TypeOK
<1>1. TypeInv => TypeOK
  BY DEF TypeInv, TablesOK, RequestOK, TypeOK
<1>2. QED
  BY <1>1, TypeInvariant, PTL

-----------------------------------------------------------------------------
(***************************************************************************)
(* LastSuperAdminSurvives.  The invariant says what the guard is worth     *)
(* while it has not been overlapped: at most one removal is between its    *)
(* first read and its write, and when it is about to write, somebody else  *)
(* is an active SUPER_ADMIN and will stay one.                             *)
(***************************************************************************)
GuardInv ==
    ~overlapped =>
        /\ ActiveSupers # {}
        /\ \A r, s \in Request : Guarded(r) /\ Guarded(s) => r = s
        /\ \A r \in Request :
              At(r, "write") /\ Guarded(r) => ActiveSupers \ {req[r].admin} # {}

(* Only the two tables that ActiveSupers reads can change it. *)
LEMMA SupersStable ==
    ASSUME status' = status, roles' = roles
    PROVE  ActiveSupers' = ActiveSupers
BY DEF ActiveSupers

(* A step of a request that is not in its guard afterwards, and takes no   *)
(* active SUPER_ADMIN away, keeps the invariant.                           *)
LEMMA UnguardedStep ==
    ASSUME GuardInv, RequestOK, NEW r \in Request,
           overlapped' = overlapped,
           \A s \in Request \ {r} : req'[s] = req[s],
           ~Guarded(r)',
           ActiveSupers \subseteq ActiveSupers'
    PROVE  GuardInv'
BY DEF GuardInv, Guarded, At

(* The write of a request that removes: the others are not in their guard, *)
(* and somebody else is left.                                              *)
LEMMA RemovalStep ==
    ASSUME GuardInv, RequestOK, NEW r \in Request,
           At(r, "write"), Guarded(r),
           overlapped' = overlapped,
           \A s \in Request \ {r} : req'[s] = req[s],
           ~Guarded(r)',
           ActiveSupers \ {req[r].admin} \subseteq ActiveSupers'
    PROVE  GuardInv'
<1> SUFFICES ASSUME ~overlapped PROVE GuardInv'
  BY DEF GuardInv
<1>1. ActiveSupers' # {}
  BY DEF GuardInv
<1>2. \A s \in Request : ~Guarded(s)'
  BY DEF GuardInv, Guarded, At
<1>3. QED
  BY <1>1, <1>2 DEF GuardInv

(* The guard as coded in adminUsers.service keeps an active SUPER_ADMIN in *)
(* every behaviour in which no two guarded removals overlap.               *)
THEOREM LastSuperAdmin == Spec => []LastSuperAdminSurvives
<1>1. Init => GuardInv
  BY DEF Init, GuardInv, Guarded, At, Idle, Holding
<1>2. TypeInv /\ GuardInv /\ [Next]_vars => GuardInv'
  <2> SUFFICES ASSUME TypeInv, GuardInv, [Next]_vars PROVE GuardInv'
    OBVIOUS
  <2> USE DEF TypeInv
  <2>1. ASSUME NEW r \in Request,
                NEW a \in Admin,
                LoginVerify(r, a)
         PROVE  GuardInv'
    <3>1. ~Guarded(r)'
      BY <2>1 DEF LoginVerify, Goto, Put, Done, Guarded, At, Idle, Holding, RequestOK
    <3>2. QED
      BY <2>1, <3>1, SupersStable, UnguardedStep
      DEF LoginVerify, Goto, Put, Done, RequestOK
  <2>2. ASSUME NEW r \in Request,
                NEW t \in Token,
                LoginCreateSession(r, t)
         PROVE  GuardInv'
    <3>1. ~Guarded(r)'
      BY <2>2 DEF LoginCreateSession, Goto, Put, Done, Guarded, At, Idle, Holding, RequestOK
    <3>2. QED
      BY <2>2, <3>1, SupersStable, UnguardedStep
      DEF LoginCreateSession, Goto, Put, Done, RequestOK
  <2>3. ASSUME NEW r \in Request,
                NEW t \in Token,
                ResolveSession(r, t)
         PROVE  GuardInv'
    <3>1. ~Guarded(r)'
      BY <2>3 DEF ResolveSession, Goto, Put, Done, Guarded, At, Idle, Holding, RequestOK
    <3>2. QED
      BY <2>3, <3>1, SupersStable, UnguardedStep
      DEF ResolveSession, Goto, Put, Done, RequestOK
  <2>4. ASSUME NEW r \in Request, AuthDisabled(r) PROVE GuardInv'
    <3>1. ~Guarded(r)'
      BY <2>4 DEF AuthDisabled, Goto, Put, Done, Guarded, At, Idle, Holding, RequestOK
    <3>2. QED
      BY <2>4, <3>1, SupersStable, UnguardedStep
      DEF AuthDisabled, Goto, Put, Done, RequestOK
  <2>5. ASSUME NEW r \in Request, Kick(r) PROVE GuardInv'
    <3>1. ~Guarded(r)'
      BY <2>5 DEF Kick, Goto, Put, Done, Guarded, At, Idle, Holding, RequestOK
    <3>2. QED
      BY <2>5, <3>1, SupersStable, UnguardedStep
      DEF Kick, Goto, Put, Done, RequestOK
  <2>6. ASSUME NEW r \in Request, AuthOther(r) PROVE GuardInv'
    <3>1. ~Guarded(r)'
      BY <2>6 DEF AuthOther, Goto, Put, Done, Guarded, At, Idle, Holding, RequestOK
    <3>2. QED
      BY <2>6, <3>1, SupersStable, UnguardedStep
      DEF AuthOther, Goto, Put, Done, RequestOK
  <2>7. ASSUME NEW r \in Request, AuthLogout(r) PROVE GuardInv'
    <3>1. ~Guarded(r)'
      BY <2>7 DEF AuthLogout, Goto, Put, Done, Guarded, At, Idle, Holding, RequestOK
    <3>2. QED
      BY <2>7, <3>1, SupersStable, UnguardedStep
      DEF AuthLogout, Goto, Put, Done, RequestOK
  <2>8. ASSUME NEW r \in Request, Logout(r) PROVE GuardInv'
    <3>1. ~Guarded(r)'
      BY <2>8 DEF Logout, Goto, Put, Done, Guarded, At, Idle, Holding, RequestOK
    <3>2. QED
      BY <2>8, <3>1, SupersStable, UnguardedStep
      DEF Logout, Goto, Put, Done, RequestOK
  <2>9. ASSUME NEW r \in Request,
                NEW p \in Password,
                AuthChangePassword(r, p)
         PROVE  GuardInv'
    <3>1. ~Guarded(r)'
      BY <2>9 DEF AuthChangePassword, Goto, Put, Done, Guarded, At, Idle, Holding, RequestOK
    <3>2. QED
      BY <2>9, <3>1, SupersStable, UnguardedStep
      DEF AuthChangePassword, Goto, Put, Done, RequestOK
  <2>10. ASSUME NEW r \in Request, PasswordVerify(r) PROVE GuardInv'
    <3>1. ~Guarded(r)'
      BY <2>10 DEF PasswordVerify, Goto, Put, Done, Guarded, At, Idle, Holding, RequestOK
    <3>2. QED
      BY <2>10, <3>1, SupersStable, UnguardedStep
      DEF PasswordVerify, Goto, Put, Done, RequestOK
  <2>11. ASSUME NEW r \in Request, PasswordWrite(r) PROVE GuardInv'
    <3>1. ~Guarded(r)'
      BY <2>11 DEF PasswordWrite, Goto, Put, Done, Guarded, At, Idle, Holding, RequestOK
    <3>2. QED
      BY <2>11, <3>1, SupersStable, UnguardedStep
      DEF PasswordWrite, Goto, Put, Done, RequestOK
  <2>12. ASSUME NEW r \in Request, PasswordRevoke(r) PROVE GuardInv'
    <3>1. ~Guarded(r)'
      BY <2>12 DEF PasswordRevoke, Goto, Put, Done, Guarded, At, Idle, Holding, RequestOK
    <3>2. QED
      BY <2>12, <3>1, SupersStable, UnguardedStep
      DEF PasswordRevoke, Goto, Put, Done, RequestOK
  <2>13. ASSUME NEW r \in Request,
                NEW a \in Admin,
                NEW st \in {"ACTIVE", "DISABLED"},
                AuthSetStatus(r, a, st)
         PROVE  GuardInv'
    <3>1. ~Guarded(r)'
      BY <2>13 DEF AuthSetStatus, StartChange, Put, Guarded, At, Holding, Removes,
          RequestOK
    <3>2. QED
      BY <2>13, <3>1, SupersStable, UnguardedStep
      DEF AuthSetStatus, StartChange, Put, RequestOK
  <2>14. ASSUME NEW r \in Request,
                NEW a \in Admin,
                NEW keys \in SUBSET RoleKey \ {{}},
                AuthSetRoles(r, a, keys)
         PROVE  GuardInv'
    <3>1. ~Guarded(r)'
      BY <2>14 DEF AuthSetRoles, StartChange, Put, Guarded, At, Holding, Removes,
          RequestOK
    <3>2. QED
      BY <2>14, <3>1, SupersStable, UnguardedStep
      DEF AuthSetRoles, StartChange, Put, RequestOK
  <2>15. ASSUME NEW r \in Request, GuardReadTarget(r) PROVE GuardInv'
    <3> SUFFICES ASSUME ~overlapped' PROVE GuardInv'
      BY DEF GuardInv
    <3>1. ~overlapped /\ \A s \in Request \ {r} : ~Guarded(s)
      BY <2>15 DEF GuardReadTarget
    <3>2. \A s \in Request \ {r} : ~Guarded(s)'
      BY <2>15, <3>1 DEF GuardReadTarget, Goto, Guarded, At, RequestOK
    <3>3. ActiveSupers' = ActiveSupers /\ ActiveSupers # {}
      BY <2>15, <3>1, SupersStable DEF GuardReadTarget, GuardInv
    <3>4. At(r, "write")' => ActiveSupers \ {req'[r].admin} # {}
      BY <2>15, <3>3 DEF GuardReadTarget, Goto, At, RequestOK, RequestState
    <3>5. QED
      BY <3>2, <3>3, <3>4 DEF GuardInv
  <2>16. ASSUME NEW r \in Request, GuardCountOthers(r) PROVE GuardInv'
    <3> SUFFICES ASSUME ~overlapped' PROVE GuardInv'
      BY DEF GuardInv
    <3>1. ~overlapped /\ Guarded(r)
      BY <2>16 DEF GuardCountOthers, Guarded
    <3>2. \A s \in Request \ {r} : ~Guarded(s)'
      BY <2>16, <3>1 DEF GuardInv, GuardCountOthers, Goto, Done, Put, Guarded,
                        At, RequestOK
    <3>3. ActiveSupers' = ActiveSupers /\ ActiveSupers # {}
      BY <2>16, <3>1, SupersStable DEF GuardCountOthers, GuardInv
    <3>4. At(r, "write")' => ActiveSupers \ {req'[r].admin} # {}
      BY <2>16, <3>3 DEF GuardCountOthers, Goto, Done, Put, Idle, Holding, At,
                        RequestOK, RequestState
    <3>5. QED
      BY <3>2, <3>3, <3>4 DEF GuardInv
  <2>17. ASSUME NEW r \in Request, WriteStatus(r) PROVE GuardInv'
    <3>1. ~Guarded(r)'
      BY <2>17 DEF WriteStatus, Goto, Done, Put, Guarded, At, Idle, Holding,
                  RequestOK, RequestState
    <3>2. overlapped' = overlapped /\ \A s \in Request \ {r} : req'[s] = req[s]
      BY <2>17 DEF WriteStatus, Goto, Done, Put, RequestOK
    <3>3. ActiveSupers \ {req[r].admin} \subseteq ActiveSupers'
      BY <2>17 DEF WriteStatus, ActiveSupers, TablesOK
    <3>4. CASE Guarded(r)
      BY <2>17, <3>1, <3>2, <3>3, <3>4, RemovalStep DEF WriteStatus
    <3>5. CASE ~Guarded(r)
      <4>1. req[r].status = "ACTIVE"
        BY <2>17, <3>5 DEF WriteStatus, Guarded, At, Removes, RequestOK,
                          RequestState
      <4>2. ActiveSupers \subseteq ActiveSupers'
        BY <2>17, <4>1 DEF WriteStatus, ActiveSupers, TablesOK
      <4>3. QED
        BY <3>1, <3>2, <4>2, UnguardedStep
    <3>6. QED
      BY <3>4, <3>5
  <2>18. ASSUME NEW r \in Request, DisableRevoke(r) PROVE GuardInv'
    <3>1. ~Guarded(r)'
      BY <2>18 DEF DisableRevoke, Goto, Put, Done, Guarded, At, Idle, Holding, RequestOK
    <3>2. QED
      BY <2>18, <3>1, SupersStable, UnguardedStep
      DEF DisableRevoke, Goto, Put, Done, RequestOK
  <2>19. ASSUME NEW r \in Request, WriteRoles(r) PROVE GuardInv'
    <3>1. ~Guarded(r)'
      BY <2>19 DEF WriteRoles, Done, Put, Guarded, At, Idle, Holding, RequestOK
    <3>2. overlapped' = overlapped /\ \A s \in Request \ {r} : req'[s] = req[s]
      BY <2>19 DEF WriteRoles, Done, Put, RequestOK
    <3>3. ActiveSupers \ {req[r].admin} \subseteq ActiveSupers'
      BY <2>19 DEF WriteRoles, ActiveSupers, TablesOK
    <3>4. CASE Guarded(r)
      BY <2>19, <3>1, <3>2, <3>3, <3>4, RemovalStep DEF WriteRoles
    <3>5. CASE ~Guarded(r)
      <4>1. "SUPER_ADMIN" \in req[r].keys
        BY <2>19, <3>5 DEF WriteRoles, Guarded, At, Removes
      <4>2. ActiveSupers \subseteq ActiveSupers'
        BY <2>19, <4>1 DEF WriteRoles, ActiveSupers, TablesOK
      <4>3. QED
        BY <3>1, <3>2, <4>2, UnguardedStep
    <3>6. QED
      BY <3>4, <3>5
  <2>20. ASSUME NEW r \in Request,
                NEW a \in Admin,
                NEW keys \in SUBSET RoleKey \ {{}},
                NEW p \in Password,
                AuthCreate(r, a, keys, p)
         PROVE  GuardInv'
    <3>1. ~Guarded(r)'
      BY <2>20 DEF AuthCreate, Goto, Put, Done, Guarded, At, Idle, Holding, RequestOK
    <3>2. QED
      BY <2>20, <3>1, SupersStable, UnguardedStep
      DEF AuthCreate, Goto, Put, Done, RequestOK
  <2>21. ASSUME NEW r \in Request, CreateInsert(r) PROVE GuardInv'
    <3>1. ~Guarded(r)'
      BY <2>21 DEF CreateInsert, Put, Done, Guarded, At, Idle, Holding, RequestOK
    <3>2. ActiveSupers \subseteq ActiveSupers'
      BY <2>21 DEF CreateInsert, InsertAdmin, ActiveSupers, TablesOK
    <3>3. QED
      BY <2>21, <3>1, <3>2, UnguardedStep DEF CreateInsert, Put, Done, RequestOK
  <2>22. ASSUME NEW r \in Request,
                NEW a \in Admin,
                NEW p \in Password,
                BootstrapCount(r, a, p)
         PROVE  GuardInv'
    <3>1. ~Guarded(r)'
      BY <2>22 DEF BootstrapCount, Goto, Put, Done, Guarded, At, Idle, Holding, RequestOK
    <3>2. QED
      BY <2>22, <3>1, SupersStable, UnguardedStep
      DEF BootstrapCount, Goto, Put, Done, RequestOK
  <2>23. ASSUME NEW r \in Request, BootstrapInsert(r) PROVE GuardInv'
    <3>1. ~Guarded(r)'
      BY <2>23 DEF BootstrapInsert, Put, Done, Guarded, At, Idle, Holding, RequestOK
    <3>2. ActiveSupers \subseteq ActiveSupers'
      BY <2>23 DEF BootstrapInsert, InsertAdmin, ActiveSupers, TablesOK
    <3>3. QED
      BY <2>23, <3>1, <3>2, UnguardedStep DEF BootstrapInsert, Put, Done, RequestOK
  <2>24. ASSUME NEW r \in Request, Fail(r) PROVE GuardInv'
    <3>1. ~Guarded(r)'
      BY <2>24 DEF Fail, Goto, Put, Done, Guarded, At, Idle, Holding, RequestOK
    <3>2. QED
      BY <2>24, <3>1, SupersStable, UnguardedStep
      DEF Fail, Goto, Put, Done, RequestOK
  <2>25. ASSUME NEW t \in Token, SessionExpires(t) PROVE GuardInv'
    BY <2>25, SupersStable DEF SessionExpires, GuardInv, Guarded, At
  <2>26. CASE UNCHANGED vars
    BY <2>26, SupersStable DEF vars, GuardInv, Guarded, At
  <2>27. QED
    BY <2>1, <2>2, <2>3, <2>4, <2>5, <2>6, <2>7, <2>8, <2>9, <2>10, <2>11,
       <2>12, <2>13, <2>14, <2>15, <2>16, <2>17, <2>18, <2>19, <2>20, <2>21,
       <2>22, <2>23, <2>24, <2>25, <2>26 DEF Next, Step
<1>3. GuardInv => LastSuperAdminSurvives
  BY DEF GuardInv, LastSuperAdminSurvives
<1>4. QED
  BY <1>1, <1>2, <1>3, TypeInvariant, PTL DEF Spec

-----------------------------------------------------------------------------
(***************************************************************************)
(* RevocationIsComplete.  The two extra conjuncts: neither a session nor a *)
(* login in progress belongs to an account without a row, so creating a    *)
(* row (with its password) concerns no session.                            *)
(***************************************************************************)
RowsInv ==
    /\ \A t \in Token :
          session[t] # None => status[session[t].owner] # "ABSENT"
    /\ \A r \in Request : At(r, "login") => status[req[r].admin] # "ABSENT"

RevokeInv == RowsInv /\ RevocationIsComplete

OnlyMoves(r) == \A s \in Request \ {r} : req'[s] = req[s]

(* A revocation that another request is about to run is still about to run. *)
LEMMA PendingKept ==
    ASSUME NEW r \in Request, OnlyMoves(r), NEW a, NEW pc,
           RevokePending(a, pc),
           req[r].pc # pc \/ req[r].admin # a
    PROVE  RevokePending(a, pc)'
BY DEF RevokePending, At, OnlyMoves

(* Deleting rows, with the accounts untouched and no revocation cancelled *)
(* for a row that is left.                                                *)
LEMMA DeletingStep ==
    ASSUME RevokeInv, NEW r \in Request, OnlyMoves(r), ~At(r, "login")',
           status' = status, password' = password,
           NEW T \in SUBSET Token, session' = Without(T),
           \A t \in Live \ T : req[r].admin = session[t].owner =>
                req[r].pc # "revoke" /\ req[r].pc # "pwRevoke"
    PROVE  RevokeInv'
<1>1. RowsInv'
  BY DEF RevokeInv, RowsInv, At, OnlyMoves, Without
<1>2. ASSUME NEW t \in Live'
      PROVE  t \in Live \ T /\ session'[t] = session[t]
  BY DEF Live, Without
<1>3. RevocationIsComplete'
  BY <1>2, PendingKept DEF RevokeInv, RevocationIsComplete, Accounted, Live, At
<1>4. QED
  BY <1>1, <1>3 DEF RevokeInv

(* A step that touches neither the accounts nor the sessions. *)
LEMMA QuietStep ==
    ASSUME RevokeInv, NEW r \in Request, OnlyMoves(r), ~At(r, "login")',
           status' = status, password' = password, session' = session,
           ~At(r, "revoke"), ~At(r, "pwRevoke")
    PROVE  RevokeInv'
<1>1. RowsInv'
  BY DEF RevokeInv, RowsInv, At, OnlyMoves
<1>2. RevocationIsComplete'
  BY PendingKept DEF RevokeInv, RevocationIsComplete, Accounted, Live, At
<1>3. QED
  BY <1>1, <1>2 DEF RevokeInv

(* Creating a row: no session and no login concerns it yet. *)
LEMMA InsertStep ==
    ASSUME RevokeInv, TablesOK, RequestOK, NEW r \in Request, OnlyMoves(r),
           ~At(r, "login")', ~At(r, "revoke"), ~At(r, "pwRevoke"),
           InsertAdmin(r), session' = session
    PROVE  RevokeInv'
<1>1. ASSUME NEW a \in Admin, status[a] # "ABSENT"
      PROVE  status'[a] = status[a] /\ password'[a] = password[a]
  BY <1>1 DEF InsertAdmin, TablesOK
<1>2. ASSUME NEW a \in Admin, status[a] # "ABSENT"
      PROVE  status'[a] # "ABSENT"
  BY <1>1, <1>2
<1>3. \A t \in Live : session[t].owner \in Admin
  BY DEF Live, TablesOK, Session
<1>4. CASE status' = status /\ password' = password
  BY <1>4, QuietStep
<1>5. CASE status[req[r].admin] = "ABSENT"
  <2>1. \A b \in Admin \ {req[r].admin} :
            status'[b] = status[b] /\ password'[b] = password[b]
    BY <1>5 DEF InsertAdmin, TablesOK
  <2>2. RowsInv'
    BY <1>2, <1>3
    DEF RevokeInv, RowsInv, At, OnlyMoves, Live, RequestOK, Sound
  <2>3. RevocationIsComplete'
    <3> SUFFICES ASSUME NEW t \in Live' PROVE Accounted(session[t])'
      BY DEF RevocationIsComplete
    <3>1. /\ t \in Live /\ session'[t] = session[t]
          /\ Accounted(session[t]) /\ status[session[t].owner] # "ABSENT"
      BY DEF Live, RevokeInv, RowsInv, RevocationIsComplete
    <3>2. /\ status'[session[t].owner] = status[session[t].owner]
          /\ password'[session[t].owner] = password[session[t].owner]
      BY <1>1, <1>3, <3>1
    <3>3. QED
      BY <3>1, <3>2, PendingKept DEF Accounted, At
  <2>4. QED
    BY <2>2, <2>3 DEF RevokeInv
<1>6. QED
  BY <1>4, <1>5 DEF InsertAdmin

(* setAdminUserStatus and changePassword leave no session behind: what      *)
(* survives them is about to be revoked, or outlived the revocation in one *)
(* of the two ways the history field records.                              *)
THEOREM RevocationComplete == Spec => []RevocationIsComplete
<1>1. Init => RevokeInv
  BY DEF Init, RevokeInv, RowsInv, RevocationIsComplete, Accounted, Live, At, Idle,
         Holding
<1>2. TypeInv /\ RevokeInv /\ [Next]_vars => RevokeInv'
  <2> SUFFICES ASSUME TypeInv, RevokeInv, [Next]_vars PROVE RevokeInv'
    OBVIOUS
  <2> USE DEF TypeInv
  <2>1. ASSUME NEW r \in Request,
                NEW a \in Admin,
                LoginVerify(r, a)
         PROVE  RevokeInv'
    <3>1. OnlyMoves(r) /\ req'[r].admin = a
      BY <2>1 DEF LoginVerify, Put, OnlyMoves, Holding, RequestOK
    <3>2. RowsInv'
      BY <2>1, <3>1 DEF LoginVerify, RevokeInv, RowsInv, At, OnlyMoves
    <3>3. RevocationIsComplete'
      BY <2>1, <3>1, PendingKept
      DEF LoginVerify, RevokeInv, RevocationIsComplete, Accounted, Live, At
    <3>4. QED
      BY <3>2, <3>3 DEF RevokeInv
  <2>2. ASSUME NEW r \in Request,
                NEW t \in Token,
                LoginCreateSession(r, t)
         PROVE  RevokeInv'
    <3>1. OnlyMoves(r) /\ ~At(r, "login")'
      BY <2>2 DEF LoginCreateSession, Put, Done, OnlyMoves, At, Idle, Holding,
               RequestOK
    <3> DEFINE a == req[r].admin
    <3>2. session'[t] = [owner |-> a, verified |-> req[r].password,
             outlived |-> status[a] # "ACTIVE" \/ password[a] # req[r].password]
      BY <2>2 DEF LoginCreateSession, TablesOK
    <3>3. \A u \in Token \ {t} : session'[u] = session[u]
      BY <2>2 DEF LoginCreateSession, TablesOK
    <3>4. RowsInv'
      BY <2>2, <3>1, <3>2, <3>3
      DEF LoginCreateSession, RevokeInv, RowsInv, At, OnlyMoves
    <3>5. \A b, pc : pc \in {"revoke", "pwRevoke"} /\ RevokePending(b, pc)
                        => RevokePending(b, pc)'
      BY <2>2, <3>1, PendingKept DEF LoginCreateSession, At
    <3>6. RevocationIsComplete'
      <4> SUFFICES ASSUME NEW u \in Live' PROVE Accounted(session[u])'
        BY DEF RevocationIsComplete
      <4>1. CASE u = t
        <5>1. /\ session'[u].owner = a
              /\ session'[u].verified = req[r].password
              /\ session'[u].outlived =
                    (status[a] # "ACTIVE" \/ password[a] # req[r].password)
          BY <4>1, <3>2
        <5>2. status' = status /\ password' = password
          BY <2>2 DEF LoginCreateSession
        <5>3. QED
          BY <5>1, <5>2 DEF Accounted
      <4>2. CASE u # t
        <5>1. session'[u] = session[u] /\ Accounted(session[u])
          BY <2>2, <4>2, <3>3 DEF RevokeInv, RevocationIsComplete, Live
        <5>2. QED
          BY <2>2, <5>1, <3>5 DEF LoginCreateSession, Accounted
      <4>3. QED
        BY <4>1, <4>2
    <3>7. QED
      BY <3>4, <3>6 DEF RevokeInv
  <2>3. ASSUME NEW r \in Request,
                NEW t \in Token,
                ResolveSession(r, t)
         PROVE  RevokeInv'
    <3>1. OnlyMoves(r) /\ ~At(r, "login")'
      BY <2>3 DEF ResolveSession, Goto, Put, Done, OnlyMoves, At, Idle, Holding, RequestOK
    <3>2. QED
      BY <2>3, <3>1, QuietStep DEF ResolveSession, Authenticated, At
  <2>4. ASSUME NEW r \in Request, AuthDisabled(r) PROVE RevokeInv'
    <3>1. OnlyMoves(r) /\ ~At(r, "login")'
      BY <2>4 DEF AuthDisabled, Goto, Put, Done, OnlyMoves, At, Idle, Holding, RequestOK
    <3>2. QED
      BY <2>4, <3>1, QuietStep DEF AuthDisabled, Authenticated, At
  <2>5. ASSUME NEW r \in Request, Kick(r) PROVE RevokeInv'
    <3>1. OnlyMoves(r) /\ ~At(r, "login")'
      BY <2>5 DEF Kick, Goto, Put, Done, OnlyMoves, At, Idle, Holding, RequestOK
    <3>2. QED
      BY <2>5, <3>1, DeletingStep DEF Kick, SessionsOf, Live, At
  <2>6. ASSUME NEW r \in Request, AuthOther(r) PROVE RevokeInv'
    <3>1. OnlyMoves(r) /\ ~At(r, "login")'
      BY <2>6 DEF AuthOther, Goto, Put, Done, OnlyMoves, At, Idle, Holding, RequestOK
    <3>2. QED
      BY <2>6, <3>1, QuietStep DEF AuthOther, Authenticated, At
  <2>7. ASSUME NEW r \in Request, AuthLogout(r) PROVE RevokeInv'
    <3>1. OnlyMoves(r) /\ ~At(r, "login")'
      BY <2>7 DEF AuthLogout, Goto, Put, Done, OnlyMoves, At, Idle, Holding, RequestOK
    <3>2. QED
      BY <2>7, <3>1, QuietStep DEF AuthLogout, Authenticated, At
  <2>8. ASSUME NEW r \in Request, Logout(r) PROVE RevokeInv'
    <3>1. OnlyMoves(r) /\ ~At(r, "login")'
      BY <2>8 DEF Logout, Goto, Put, Done, OnlyMoves, At, Idle, Holding, RequestOK
    <3>2. req[r].pc = "logout"
      BY <2>8 DEF Logout, At
    <3>3. session' = Without({req[r].token} \cap Token)
      BY <2>8 DEF Logout, Without
    <3>4. QED
      BY <2>8, <3>1, <3>2, <3>3, DeletingStep DEF Logout
  <2>9. ASSUME NEW r \in Request,
                NEW p \in Password,
                AuthChangePassword(r, p)
         PROVE  RevokeInv'
    <3>1. OnlyMoves(r) /\ ~At(r, "login")'
      BY <2>9 DEF AuthChangePassword, Goto, Put, Done, OnlyMoves, At, Idle, Holding, RequestOK
    <3>2. QED
      BY <2>9, <3>1, QuietStep DEF AuthChangePassword, Authenticated, At
  <2>10. ASSUME NEW r \in Request, PasswordVerify(r) PROVE RevokeInv'
    <3>1. OnlyMoves(r) /\ ~At(r, "login")'
      BY <2>10 DEF PasswordVerify, Goto, Put, Done, OnlyMoves, At, Idle, Holding, RequestOK
    <3>2. QED
      BY <2>10, <3>1, QuietStep DEF PasswordVerify, Authenticated, At
  <2>11. ASSUME NEW r \in Request, PasswordWrite(r) PROVE RevokeInv'
    <3>1. OnlyMoves(r) /\ ~At(r, "login")'
      BY <2>11 DEF PasswordWrite, Goto, Put, Done, OnlyMoves, At, Idle, Holding, RequestOK
    <3>2. RowsInv'
      BY <2>11, <3>1 DEF PasswordWrite, RevokeInv, RowsInv, At, OnlyMoves
    <3>3. \A b : b = req[r].admin => RevokePending(b, "pwRevoke")'
      BY <2>11 DEF PasswordWrite, Goto, RevokePending, At, RequestOK, RequestState
    <3>4. \A b \in Admin \ {req[r].admin} : password'[b] = password[b]
      BY <2>11 DEF PasswordWrite, TablesOK
    <3>5. \A t \in Live : session[t].owner \in Admin
      BY DEF Live, TablesOK, Session
    <3>6. RevocationIsComplete'
      <4> SUFFICES ASSUME NEW t \in Live' PROVE Accounted(session[t])'
        BY DEF RevocationIsComplete
      <4>1. /\ session' = session /\ status' = status
            /\ session[t].owner \in Admin /\ Accounted(session[t])
        BY <2>11, <3>5 DEF PasswordWrite, RevokeInv, RevocationIsComplete, Live
      <4>2. At(r, "pwWrite")
        BY <2>11 DEF PasswordWrite
      <4>3. CASE session[t].owner = req[r].admin
        <5>1. \A b, pc : pc \in {"revoke", "pwRevoke"} /\ RevokePending(b, pc)
                            => RevokePending(b, pc)'
          BY <3>1, <4>2, PendingKept DEF At
        <5>2. QED
          BY <3>3, <4>1, <4>3, <5>1 DEF Accounted
      <4>4. CASE session[t].owner # req[r].admin
        BY <3>1, <3>4, <4>1, <4>2, <4>4, PendingKept DEF Accounted, At
      <4>5. QED
        BY <4>3, <4>4
    <3>7. QED
      BY <3>2, <3>6 DEF RevokeInv
  <2>12. ASSUME NEW r \in Request, PasswordRevoke(r) PROVE RevokeInv'
    <3>1. OnlyMoves(r) /\ ~At(r, "login")'
      BY <2>12 DEF PasswordRevoke, Goto, Put, Done, OnlyMoves, At, Idle, Holding, RequestOK
    <3>2. QED
      BY <2>12, <3>1, DeletingStep DEF PasswordRevoke, SessionsOf, Live, At
  <2>13. ASSUME NEW r \in Request,
                NEW a \in Admin,
                NEW st \in {"ACTIVE", "DISABLED"},
                AuthSetStatus(r, a, st)
         PROVE  RevokeInv'
    <3>1. OnlyMoves(r) /\ ~At(r, "login")'
      BY <2>13 DEF AuthSetStatus, StartChange, Put, OnlyMoves, At, Holding, RequestOK
    <3>2. QED
      BY <2>13, <3>1, QuietStep DEF AuthSetStatus, MayManage, Authenticated, At
  <2>14. ASSUME NEW r \in Request,
                NEW a \in Admin,
                NEW keys \in SUBSET RoleKey \ {{}},
                AuthSetRoles(r, a, keys)
         PROVE  RevokeInv'
    <3>1. OnlyMoves(r) /\ ~At(r, "login")'
      BY <2>14 DEF AuthSetRoles, StartChange, Put, OnlyMoves, At, Holding, RequestOK
    <3>2. QED
      BY <2>14, <3>1, QuietStep DEF AuthSetRoles, MayManage, Authenticated, At
  <2>15. ASSUME NEW r \in Request, GuardReadTarget(r) PROVE RevokeInv'
    <3>1. OnlyMoves(r) /\ ~At(r, "login")'
      BY <2>15 DEF GuardReadTarget, Goto, Put, Done, OnlyMoves, At, Idle, Holding, RequestOK
    <3>2. QED
      BY <2>15, <3>1, QuietStep DEF GuardReadTarget, Authenticated, At
  <2>16. ASSUME NEW r \in Request, GuardCountOthers(r) PROVE RevokeInv'
    <3>1. req'[r] = Idle \/ req'[r] = [req[r] EXCEPT !.pc = "write"]
      BY <2>16 DEF GuardCountOthers, Goto, Put, Done, RequestOK
    <3>2. ~At(r, "login")'
      BY <3>1 DEF At, Idle, Holding, RequestOK, RequestState
    <3>3. OnlyMoves(r)
      BY <2>16 DEF GuardCountOthers, Goto, Put, Done, OnlyMoves, RequestOK
    <3>4. QED
      BY <2>16, <3>2, <3>3, QuietStep DEF GuardCountOthers, At
  <2>17. ASSUME NEW r \in Request, WriteStatus(r) PROVE RevokeInv'
    <3>1. OnlyMoves(r) /\ ~At(r, "login")'
      BY <2>17 DEF WriteStatus, Goto, Put, Done, OnlyMoves, At, Idle, Holding, RequestOK,
             RequestState
    <3>2. req[r].status \in {"ACTIVE", "DISABLED"}
      BY DEF RequestOK, RequestState
    <3>3. \A b \in Admin : status[b] # "ABSENT" => status'[b] # "ABSENT"
      BY <2>17, <3>2 DEF WriteStatus, TablesOK
    <3>9. RowsInv'
      BY <2>17, <3>1, <3>3 DEF WriteStatus, RevokeInv, RowsInv, At, OnlyMoves,
              TablesOK, Session, RequestOK, Sound
    <3>4. \A b \in Admin \ {req[r].admin} : status'[b] = status[b]
      BY <2>17 DEF WriteStatus, TablesOK
    <3>5. \/ status'[req[r].admin] = status[req[r].admin]
          \/ status'[req[r].admin] = "ACTIVE"
          \/ \A b : b = req[r].admin => RevokePending(b, "revoke")'
      BY <2>17, <3>2 DEF WriteStatus, Goto, RevokePending, At, TablesOK, RequestOK,
                        RequestState, Sound
    <3>6. \A t \in Live : session[t].owner \in Admin
      BY DEF Live, TablesOK, Session
    <3>7. RevocationIsComplete'
      <4> SUFFICES ASSUME NEW t \in Live' PROVE Accounted(session[t])'
        BY DEF RevocationIsComplete
      <4>1. /\ session' = session /\ password' = password
            /\ session[t].owner \in Admin /\ Accounted(session[t])
        BY <2>17, <3>6 DEF WriteStatus, RevokeInv, RevocationIsComplete, Live
      <4>2. At(r, "write")
        BY <2>17 DEF WriteStatus
      <4>3. CASE session[t].owner = req[r].admin
        <5>1. \A b, pc : pc \in {"revoke", "pwRevoke"} /\ RevokePending(b, pc)
                            => RevokePending(b, pc)'
          BY <3>1, <4>2, PendingKept DEF At
        <5>2. QED
          BY <3>5, <4>1, <4>3, <5>1 DEF Accounted
      <4>4. CASE session[t].owner # req[r].admin
        BY <3>1, <3>4, <4>1, <4>2, <4>4, PendingKept DEF Accounted, At
      <4>5. QED
        BY <4>3, <4>4
    <3>8. QED
      BY <3>9, <3>7 DEF RevokeInv
  <2>18. ASSUME NEW r \in Request, DisableRevoke(r) PROVE RevokeInv'
    <3>1. OnlyMoves(r) /\ ~At(r, "login")'
      BY <2>18 DEF DisableRevoke, Goto, Put, Done, OnlyMoves, At, Idle, Holding, RequestOK
    <3>2. QED
      BY <2>18, <3>1, DeletingStep DEF DisableRevoke, SessionsOf, Live, At
  <2>19. ASSUME NEW r \in Request, WriteRoles(r) PROVE RevokeInv'
    <3>1. OnlyMoves(r) /\ ~At(r, "login")'
      BY <2>19 DEF WriteRoles, Goto, Put, Done, OnlyMoves, At, Idle, Holding, RequestOK
    <3>2. QED
      BY <2>19, <3>1, QuietStep DEF WriteRoles, Authenticated, At
  <2>20. ASSUME NEW r \in Request,
                NEW a \in Admin,
                NEW keys \in SUBSET RoleKey \ {{}},
                NEW p \in Password,
                AuthCreate(r, a, keys, p)
         PROVE  RevokeInv'
    <3>1. OnlyMoves(r) /\ ~At(r, "login")'
      BY <2>20 DEF AuthCreate, Goto, Put, Done, OnlyMoves, At, Idle, Holding, RequestOK
    <3>2. QED
      BY <2>20, <3>1, QuietStep DEF AuthCreate, MayManage, Authenticated, At
  <2>21. ASSUME NEW r \in Request, CreateInsert(r) PROVE RevokeInv'
    <3>1. OnlyMoves(r) /\ ~At(r, "login")'
      BY <2>21 DEF CreateInsert, Goto, Put, Done, OnlyMoves, At, Idle, Holding, RequestOK
    <3>2. QED
      BY <2>21, <3>1, InsertStep DEF CreateInsert, At
  <2>22. ASSUME NEW r \in Request,
                NEW a \in Admin,
                NEW p \in Password,
                BootstrapCount(r, a, p)
         PROVE  RevokeInv'
    <3>1. OnlyMoves(r) /\ ~At(r, "login")'
      BY <2>22 DEF BootstrapCount, Goto, Put, Done, OnlyMoves, At, Idle, Holding, RequestOK
    <3>2. QED
      BY <2>22, <3>1, QuietStep DEF BootstrapCount, Authenticated, At
  <2>23. ASSUME NEW r \in Request, BootstrapInsert(r) PROVE RevokeInv'
    <3>1. OnlyMoves(r) /\ ~At(r, "login")'
      BY <2>23 DEF BootstrapInsert, Goto, Put, Done, OnlyMoves, At, Idle, Holding, RequestOK
    <3>2. QED
      BY <2>23, <3>1, InsertStep DEF BootstrapInsert, At
  <2>24. ASSUME NEW r \in Request, Fail(r) PROVE RevokeInv'
    <3>1. OnlyMoves(r) /\ ~At(r, "login")'
      BY <2>24 DEF Fail, Goto, Put, Done, OnlyMoves, At, Idle, Holding, RequestOK
    <3>2. CASE req[r].pc \notin {"revoke", "pwRevoke"}
      BY <2>24, <3>1, <3>2, QuietStep DEF Fail, At
    <3>3. CASE req[r].pc \in {"revoke", "pwRevoke"}
      <4> DEFINE S == SessionsOf(req[r].admin)
      <4>1. \A t \in S : /\ session'[t].owner = session[t].owner
                         /\ session'[t].outlived
        BY <2>24, <3>3 DEF Fail, Outliving, SessionsOf, Live, TablesOK, Session
      <4>2. \A t \in Token \ S : session'[t] = session[t]
        BY <2>24, <3>3 DEF Fail, Outliving
      <4>3. RowsInv'
        BY <2>24, <3>1, <4>1, <4>2
        DEF Fail, RevokeInv, RowsInv, At, OnlyMoves, SessionsOf, Live
      <4>4. ASSUME NEW t \in Live', ~session'[t].outlived
            PROVE  /\ t \in Live /\ session'[t] = session[t]
                   /\ session[t].owner # req[r].admin
        BY <4>1, <4>2, <4>4 DEF Live, SessionsOf
      <4>5. RevocationIsComplete'
        BY <2>24, <3>1, <4>4, PendingKept
        DEF Fail, RevokeInv, RevocationIsComplete, Accounted
      <4>6. QED
        BY <4>3, <4>5 DEF RevokeInv
    <3>4. QED
      BY <3>2, <3>3
  <2>25. ASSUME NEW t \in Token, SessionExpires(t) PROVE RevokeInv'
    <3>1. RowsInv'
      BY <2>25 DEF SessionExpires, Without, RevokeInv, RowsInv, At
    <3>2. RevocationIsComplete'
      BY <2>25 DEF SessionExpires, Without, RevokeInv, RevocationIsComplete, Accounted, Live,
               RevokePending, At
    <3>3. QED
      BY <3>1, <3>2 DEF RevokeInv
  <2>26. CASE UNCHANGED vars
    BY <2>26 DEF vars, RevokeInv, RowsInv, RevocationIsComplete, Accounted, Live,
             RevokePending, At
  <2>27. QED
    BY <2>1, <2>2, <2>3, <2>4, <2>5, <2>6, <2>7, <2>8, <2>9, <2>10, <2>11,
       <2>12, <2>13, <2>14, <2>15, <2>16, <2>17, <2>18, <2>19, <2>20, <2>21,
       <2>22, <2>23, <2>24, <2>25, <2>26 DEF Next, Step
<1>3. RevokeInv => RevocationIsComplete
  BY DEF RevokeInv
<1>4. QED
  BY <1>1, <1>2, <1>3, TypeInvariant, PTL DEF Spec

-----------------------------------------------------------------------------
(* LockoutIsPermanent *)

(* In a locked-out system nobody passes requirePermission. *)
LEMMA NobodyManages ==
    ASSUME LockedOut, TablesOK, RequestOK, NEW r \in Request
    PROVE  ~MayManage(r)
<1>1. ASSUME MayManage(r) PROVE req[r].admin \in ActiveSupers
  <2>1. /\ req[r].admin \in Admin /\ status[req[r].admin] = "ACTIVE"
        /\ HasPermission(roles[req[r].admin], "admin_users.manage")
    BY <1>1 DEF MayManage, Authenticated, RequestOK, Sound, At
  <2>2. PICK k \in roles[req[r].admin] :
           "admin_users.manage" \in RolePermissions[k]
    BY <2>1 DEF HasPermission
  <2>3. k \in RoleKey
    BY <2>1 DEF TablesOK
  <2>4. k = "SUPER_ADMIN"
    BY <2>2, <2>3 DEF RolePermissions
  <2>5. QED
    BY <2>1, <2>2, <2>4 DEF ActiveSupers
<1>2. QED
  BY <1>1 DEF LockedOut

(* A request that ends or goes on to a harmless call, accounts untouched. *)
LEMMA LockedStep ==
    ASSUME LockedOut, NEW r \in Request, OnlyMoves(r),
           req'[r].pc \notin {"target", "count", "write", "create", "bootstrap"},
           status' = status, roles' = roles
    PROVE  LockedOut'
BY DEF LockedOut, ActiveSupers, SuperHolders, OnlyMoves

(* Losing the last active SUPER_ADMIN while a disabled one remains cannot   *)
(* be undone by the API or by the bootstrap script.                         *)
THEOREM PermanentLockout == Spec => LockoutIsPermanent
<1>1. TypeInv /\ [Next]_vars => (LockedOut => LockedOut')
  <2> SUFFICES ASSUME TypeInv, [Next]_vars, LockedOut PROVE LockedOut'
    OBVIOUS
  <2> USE DEF TypeInv
  <2>1. ASSUME NEW r \in Request,
                NEW a \in Admin,
                LoginVerify(r, a)
         PROVE  LockedOut'
    <3>1. OnlyMoves(r) /\ req'[r].pc \notin
             {"target", "count", "write", "create", "bootstrap"}
      BY <2>1 DEF LoginVerify, Goto, Put, Done, OnlyMoves, Idle, Holding, RequestOK,
              RequestState
    <3>2. QED
      BY <2>1, <3>1, LockedStep DEF LoginVerify
  <2>2. ASSUME NEW r \in Request,
                NEW t \in Token,
                LoginCreateSession(r, t)
         PROVE  LockedOut'
    <3>1. OnlyMoves(r) /\ req'[r].pc \notin
             {"target", "count", "write", "create", "bootstrap"}
      BY <2>2 DEF LoginCreateSession, Goto, Put, Done, OnlyMoves, Idle, Holding, RequestOK,
              RequestState
    <3>2. QED
      BY <2>2, <3>1, LockedStep DEF LoginCreateSession
  <2>3. ASSUME NEW r \in Request,
                NEW t \in Token,
                ResolveSession(r, t)
         PROVE  LockedOut'
    <3>1. OnlyMoves(r) /\ req'[r].pc \notin
             {"target", "count", "write", "create", "bootstrap"}
      BY <2>3 DEF ResolveSession, Goto, Put, Done, OnlyMoves, Idle, Holding, RequestOK,
              RequestState
    <3>2. QED
      BY <2>3, <3>1, LockedStep DEF ResolveSession
  <2>4. ASSUME NEW r \in Request, AuthDisabled(r) PROVE LockedOut'
    <3>1. OnlyMoves(r) /\ req'[r].pc \notin
             {"target", "count", "write", "create", "bootstrap"}
      BY <2>4 DEF AuthDisabled, Goto, Put, Done, OnlyMoves, Idle, Holding, RequestOK,
              RequestState
    <3>2. QED
      BY <2>4, <3>1, LockedStep DEF AuthDisabled
  <2>5. ASSUME NEW r \in Request, Kick(r) PROVE LockedOut'
    <3>1. OnlyMoves(r) /\ req'[r].pc \notin
             {"target", "count", "write", "create", "bootstrap"}
      BY <2>5 DEF Kick, Goto, Put, Done, OnlyMoves, Idle, Holding, RequestOK,
              RequestState
    <3>2. QED
      BY <2>5, <3>1, LockedStep DEF Kick
  <2>6. ASSUME NEW r \in Request, AuthOther(r) PROVE LockedOut'
    <3>1. OnlyMoves(r) /\ req'[r].pc \notin
             {"target", "count", "write", "create", "bootstrap"}
      BY <2>6 DEF AuthOther, Goto, Put, Done, OnlyMoves, Idle, Holding, RequestOK,
              RequestState
    <3>2. QED
      BY <2>6, <3>1, LockedStep DEF AuthOther
  <2>7. ASSUME NEW r \in Request, AuthLogout(r) PROVE LockedOut'
    <3>1. OnlyMoves(r) /\ req'[r].pc \notin
             {"target", "count", "write", "create", "bootstrap"}
      BY <2>7 DEF AuthLogout, Goto, Put, Done, OnlyMoves, Idle, Holding, RequestOK,
              RequestState
    <3>2. QED
      BY <2>7, <3>1, LockedStep DEF AuthLogout
  <2>8. ASSUME NEW r \in Request, Logout(r) PROVE LockedOut'
    <3>1. OnlyMoves(r) /\ req'[r].pc \notin
             {"target", "count", "write", "create", "bootstrap"}
      BY <2>8 DEF Logout, Goto, Put, Done, OnlyMoves, Idle, Holding, RequestOK,
              RequestState
    <3>2. QED
      BY <2>8, <3>1, LockedStep DEF Logout
  <2>9. ASSUME NEW r \in Request,
                NEW p \in Password,
                AuthChangePassword(r, p)
         PROVE  LockedOut'
    <3>1. OnlyMoves(r) /\ req'[r].pc \notin
             {"target", "count", "write", "create", "bootstrap"}
      BY <2>9 DEF AuthChangePassword, Goto, Put, Done, OnlyMoves, Idle, Holding, RequestOK,
              RequestState
    <3>2. QED
      BY <2>9, <3>1, LockedStep DEF AuthChangePassword
  <2>10. ASSUME NEW r \in Request, PasswordVerify(r) PROVE LockedOut'
    <3>1. OnlyMoves(r) /\ req'[r].pc \notin
             {"target", "count", "write", "create", "bootstrap"}
      BY <2>10 DEF PasswordVerify, Goto, Put, Done, OnlyMoves, Idle, Holding, RequestOK,
              RequestState
    <3>2. QED
      BY <2>10, <3>1, LockedStep DEF PasswordVerify
  <2>11. ASSUME NEW r \in Request, PasswordWrite(r) PROVE LockedOut'
    <3>1. OnlyMoves(r) /\ req'[r].pc \notin
             {"target", "count", "write", "create", "bootstrap"}
      BY <2>11 DEF PasswordWrite, Goto, Put, Done, OnlyMoves, Idle, Holding, RequestOK,
              RequestState
    <3>2. QED
      BY <2>11, <3>1, LockedStep DEF PasswordWrite
  <2>12. ASSUME NEW r \in Request, PasswordRevoke(r) PROVE LockedOut'
    <3>1. OnlyMoves(r) /\ req'[r].pc \notin
             {"target", "count", "write", "create", "bootstrap"}
      BY <2>12 DEF PasswordRevoke, Goto, Put, Done, OnlyMoves, Idle, Holding, RequestOK,
              RequestState
    <3>2. QED
      BY <2>12, <3>1, LockedStep DEF PasswordRevoke
  <2>13. ASSUME NEW r \in Request,
                NEW a \in Admin,
                NEW st \in {"ACTIVE", "DISABLED"},
                AuthSetStatus(r, a, st)
         PROVE  LockedOut'
    BY <2>13, NobodyManages DEF AuthSetStatus
  <2>14. ASSUME NEW r \in Request,
                NEW a \in Admin,
                NEW keys \in SUBSET RoleKey \ {{}},
                AuthSetRoles(r, a, keys)
         PROVE  LockedOut'
    BY <2>14, NobodyManages DEF AuthSetRoles
  <2>15. ASSUME NEW r \in Request, GuardReadTarget(r) PROVE LockedOut'
    BY <2>15 DEF GuardReadTarget, LockedOut, At
  <2>16. ASSUME NEW r \in Request, GuardCountOthers(r) PROVE LockedOut'
    BY <2>16 DEF GuardCountOthers, LockedOut, At
  <2>17. ASSUME NEW r \in Request, WriteStatus(r) PROVE LockedOut'
    BY <2>17 DEF WriteStatus, LockedOut, At
  <2>18. ASSUME NEW r \in Request, DisableRevoke(r) PROVE LockedOut'
    <3>1. OnlyMoves(r) /\ req'[r].pc \notin
             {"target", "count", "write", "create", "bootstrap"}
      BY <2>18 DEF DisableRevoke, Goto, Put, Done, OnlyMoves, Idle, Holding, RequestOK,
              RequestState
    <3>2. QED
      BY <2>18, <3>1, LockedStep DEF DisableRevoke
  <2>19. ASSUME NEW r \in Request, WriteRoles(r) PROVE LockedOut'
    BY <2>19 DEF WriteRoles, LockedOut, At
  <2>20. ASSUME NEW r \in Request,
                NEW a \in Admin,
                NEW keys \in SUBSET RoleKey \ {{}},
                NEW p \in Password,
                AuthCreate(r, a, keys, p)
         PROVE  LockedOut'
    BY <2>20, NobodyManages DEF AuthCreate
  <2>21. ASSUME NEW r \in Request, CreateInsert(r) PROVE LockedOut'
    BY <2>21 DEF CreateInsert, LockedOut, At
  <2>22. ASSUME NEW r \in Request,
                NEW a \in Admin,
                NEW p \in Password,
                BootstrapCount(r, a, p)
         PROVE  LockedOut'
    BY <2>22 DEF BootstrapCount, LockedOut
  <2>23. ASSUME NEW r \in Request, BootstrapInsert(r) PROVE LockedOut'
    BY <2>23 DEF BootstrapInsert, LockedOut, At
  <2>24. ASSUME NEW r \in Request, Fail(r) PROVE LockedOut'
    <3>1. OnlyMoves(r) /\ req'[r].pc \notin
             {"target", "count", "write", "create", "bootstrap"}
      BY <2>24 DEF Fail, Goto, Put, Done, OnlyMoves, Idle, Holding, RequestOK,
              RequestState
    <3>2. QED
      BY <2>24, <3>1, LockedStep DEF Fail
  <2>25. ASSUME NEW t \in Token, SessionExpires(t) PROVE LockedOut'
    BY <2>25 DEF SessionExpires, LockedOut, ActiveSupers, SuperHolders
  <2>26. CASE UNCHANGED vars
    BY <2>26 DEF vars, LockedOut, ActiveSupers, SuperHolders
  <2>27. QED
    BY <2>1, <2>2, <2>3, <2>4, <2>5, <2>6, <2>7, <2>8, <2>9, <2>10, <2>11,
       <2>12, <2>13, <2>14, <2>15, <2>16, <2>17, <2>18, <2>19, <2>20, <2>21,
       <2>22, <2>23, <2>24, <2>25, <2>26 DEF Next, Step
<1>2. QED
  BY <1>1, TypeInvariant, PTL DEF Spec, LockoutIsPermanent
=============================================================================
