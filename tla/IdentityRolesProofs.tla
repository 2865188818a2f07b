------------------------- MODULE IdentityRolesProofs -------------------------
(***************************************************************************)
(* An enabled SUPER_ADMIN remains, and removals of access reach the        *)
(* sessions, for any people, roles, requests, sign-ins and sessions.       *)
(***************************************************************************)
EXTENDS IdentityRoles, TLAPS

(***************************************************************************)
(* What a request holds in each place where it may stand.                  *)
(***************************************************************************)
Sound(q) ==
    /\ q \in RequestState
    /\ q.pc # "idle" => q.person \in Person
    /\ q.pc = "idle" => q = Idle
    /\ q.pc = "guard" => q.drop = {} /\ ~q.removed

\* A request in progress is about a person who has an account.
HasAccount == \A r \in Request : ~At(r, "idle") => user[req[r].person] # "ABSENT"

TypeInv ==
    /\ TypeOK
    /\ \A r \in Request : Sound(req[r])
    /\ HasAccount
    /\ \A l \in Login : login[l].person = None => login[l] = NoLogin

-----------------------------------------------------------------------------
(***************************************************************************)
(* The idle request removes nothing.                                       *)
(***************************************************************************)
LEMMA IdleSound ==
    /\ Sound(Idle) /\ Idle \in RequestState
    /\ Idle.pc = "idle" /\ ~Idle.removed /\ Idle.apps = {} /\ Idle.drop = {}
BY DEF Started, Idle, Sound, RequestState

(***************************************************************************)
(* At the end of an application a request goes on with what it holds, or   *)
(* is over; it is never over when it took access away.                     *)
(***************************************************************************)
LEMMA OnwardCases ==
    ASSUME NEW q \in RequestState
    PROVE  \/ Onward(q) = Idle /\ ~q.removed
           \/ \E pc \in {"drop", "apply", "sweep"} : Onward(q) = [q EXCEPT !.pc = pc]
BY DEF Onward, RequestState

(***************************************************************************)
(* ... and stays sound.                                                    *)
(***************************************************************************)
LEMMA OnwardSound ==
    ASSUME NEW q \in RequestState, q.person \in Person
    PROVE  /\ Sound(Onward(q))
           /\ Onward(q).pc # "idle" => Onward(q).person = q.person
           /\ q.removed => Onward(q).removed /\ Onward(q).person = q.person
           /\ Onward(q).removed => q.removed
           /\ Onward(q).drop \subseteq q.drop
           /\ Onward(q).pc \notin {"guard", "disable"}
           /\ \/ Onward(q).apps = {}
              \/ Onward(q).apps = q.apps /\ Onward(q).wanted = q.wanted
<1>1. CASE Onward(q) = Idle /\ ~q.removed
  <2>1. Sound(Onward(q)) /\ Onward(q).pc = "idle" /\ Onward(q).apps = {} /\ Onward(q).drop = {}
    BY <1>1, IdleSound
  <2>2. ~Onward(q).removed
    BY <1>1, IdleSound
  <2> QED
    BY <1>1, <2>1, <2>2
<1>2. ASSUME NEW pc \in {"drop", "apply", "sweep"}, Onward(q) = [q EXCEPT !.pc = pc]
      PROVE  /\ Sound(Onward(q))
             /\ Onward(q).person = q.person /\ Onward(q).removed = q.removed
             /\ Onward(q).drop = q.drop /\ Onward(q).pc = pc
             /\ Onward(q).apps = q.apps /\ Onward(q).wanted = q.wanted
  BY <1>2 DEF Sound, RequestState
<1> QED
  BY <1>1, <1>2, OnwardCases

(***************************************************************************)
(* A request takes a sound state about a person with an account.           *)
(***************************************************************************)
LEMMA PutSound ==
    ASSUME TypeInv, NEW r \in Request, NEW q, Sound(q), Put(r, q),
           \A p \in Person : user[p] # "ABSENT" => user'[p] # "ABSENT",
           q.pc # "idle" => user'[q.person] # "ABSENT"
    PROVE  /\ req' \in [Request -> RequestState]
           /\ \A x \in Request : Sound(req'[x])
           /\ HasAccount'
           /\ req'[r] = q
           /\ \A x \in Request \ {r} : req'[x] = req[x]
<1>1. req \in [Request -> RequestState] /\ q \in RequestState
  BY DEF TypeInv, TypeOK, Sound
<1>2. req'[r] = q /\ \A x \in Request \ {r} : req'[x] = req[x]
  BY <1>1 DEF Put
<1>3. req' \in [Request -> RequestState]
  BY <1>1 DEF Put
<1>4. \A x \in Request : Sound(req'[x])
  BY <1>2 DEF TypeInv
<1>5. ASSUME NEW x \in Request, req'[x].pc # "idle" PROVE user'[req'[x].person] # "ABSENT"
  BY <1>2, <1>5 DEF TypeInv, HasAccount, At, Sound
<1> QED
  BY <1>2, <1>3, <1>4, <1>5 DEF HasAccount, At

(***************************************************************************)
(* What a request that is not idle holds.                                  *)
(***************************************************************************)
LEMMA InProgress ==
    ASSUME TypeInv, NEW r \in Request, ~At(r, "idle")
    PROVE  req[r] \in RequestState /\ req[r].person \in Person
              /\ user[req[r].person] # "ABSENT"
BY DEF TypeInv, HasAccount, Sound, At

(***************************************************************************)
(* ReadRoles puts a sound state, with the application done, which drops    *)
(* only what the person has and is not to have.                            *)
(***************************************************************************)
LEMMA ReadRolesPuts ==
    ASSUME TypeInv, NEW r \in Request, NEW app \in App, ReadRoles(r, app)
    PROVE  \E q \in RequestState :
              /\ Sound(q) /\ Put(r, q)
              /\ q.pc # "idle" => q.person = req[r].person
              /\ req[r].removed => q.removed /\ q.person = req[r].person
              /\ q.pc \notin {"guard", "disable"}
              /\ q.drop \subseteq (granted[req[r].person] \cap RolesOf({app}))
                                     \ (req[r].wanted \cap RolesOf({app}))
              /\ \/ q.apps = {}
                 \/ q.apps = req[r].apps \ {app} /\ q.wanted = req[r].wanted \ RolesOf({app})
<1> DEFINE old == req[r]
           now == granted[old.person] \cap RolesOf({app})
           then == old.wanted \cap RolesOf({app})
           s == [old EXCEPT !.apps = old.apps \ {app}, !.wanted = old.wanted \ then,
                            !.add = then \ now, !.drop = now \ then]
<1>1. old \in RequestState /\ old.person \in Person
  BY InProgress DEF ReadRoles, At
<1>2. /\ granted[old.person] \in SUBSET Role /\ old.wanted \in SUBSET Role
      /\ old.apps \in SUBSET App
  BY <1>1 DEF TypeInv, TypeOK, RequestState
<1>3. /\ s \in RequestState
      /\ s.person = old.person /\ s.removed = old.removed
      /\ s.apps = old.apps \ {app}
      /\ s.wanted = old.wanted \ then
      /\ s.drop = now \ then
  <2>1. /\ now \ then \in SUBSET Role /\ then \ now \in SUBSET Role
        /\ old.wanted \ then \in SUBSET Role /\ old.apps \ {app} \in SUBSET App
    BY <1>2
  <2> HIDE DEF now, then, old
  <2> QED
    BY <1>1, <2>1 DEF RequestState
<1>4. Put(r, [s EXCEPT !.pc = "add"]) \/ Put(r, Onward(s))
  BY DEF ReadRoles
<1>0. old.wanted \ then = old.wanted \ RolesOf({app})
  OBVIOUS
<1> HIDE DEF s, now, then, old
<1>5. CASE Put(r, [s EXCEPT !.pc = "add"])
  <2> DEFINE q == [s EXCEPT !.pc = "add"]
  <2>1. /\ q \in RequestState /\ q.pc = "add" /\ q.person = s.person
        /\ q.removed = s.removed /\ q.drop = s.drop
        /\ q.apps = s.apps /\ q.wanted = s.wanted
    BY <1>3 DEF RequestState
  <2> HIDE DEF q
  <2>2. Sound(q) /\ Put(r, q)
    BY <2>1, <1>1, <1>3, <1>5 DEF Sound, q
  <2> QED
    BY <2>1, <2>2, <1>0, <1>3 DEF old, now, then
<1>6. CASE Put(r, Onward(s))
  <2>1. Sound(Onward(s)) /\ Onward(s) \in RequestState
    BY <1>1, <1>3, OnwardSound DEF Sound
  <2> QED
    BY <2>1, <1>0, <1>1, <1>3, <1>6, OnwardSound DEF old, now, then
<1> QED
  BY <1>4, <1>5, <1>6

(***************************************************************************)
(* GuardRoles ends the request, or lets it go on without a change, which   *)
(* for a demotion of a direct holder means that it saw another holder.     *)
(***************************************************************************)
LEMMA GuardRolesPuts ==
    ASSUME TypeInv, NEW r \in Request, GuardRoles(r)
    PROVE  \E q \in RequestState :
              /\ Sound(q) /\ Put(r, q)
              /\ q.pc # "idle" => q.person = req[r].person
              /\ q.pc \in {"idle", "apply"} /\ ~q.removed /\ ~req[r].removed
              /\ q.drop = {} /\ req[r].drop = {}
              /\ \/ q = Idle
                 \/ /\ q.apps = req[r].apps /\ q.wanted = req[r].wanted
                    /\ \/ ~req[r].direct
                       \/ ~Demotes(req[r].apps, req[r].wanted)
                       \/ ~(Supers \subseteq {req[r].person})
<1> DEFINE s == [req[r] EXCEPT !.pc = "apply", !.direct = FALSE]
<1>1. /\ req[r] \in RequestState /\ req[r].person \in Person
      /\ req[r].drop = {} /\ ~req[r].removed
  BY InProgress DEF GuardRoles, At, TypeInv, Sound
<1>2. \/ Put(r, Idle)
      \/ /\ Put(r, s)
         /\ \/ ~req[r].direct
            \/ ~Demotes(req[r].apps, req[r].wanted)
            \/ ~(Supers \subseteq {req[r].person})
  BY DEF GuardRoles, Done
<1>3. /\ s \in RequestState /\ s.pc = "apply" /\ s.person = req[r].person
      /\ s.drop = req[r].drop /\ s.removed = req[r].removed
      /\ s.apps = req[r].apps /\ s.wanted = req[r].wanted
  BY <1>1 DEF RequestState
<1> HIDE DEF s
<1>4. Sound(s)
  BY <1>1, <1>3 DEF Sound
<1> QED
  BY <1>1, <1>2, <1>3, <1>4, IdleSound

(***************************************************************************)
(* AddRoles goes on, with nothing more to drop than before.                *)
(***************************************************************************)
LEMMA AddRolesPuts ==
    ASSUME TypeInv, NEW r \in Request, AddRoles(r)
    PROVE  \E q \in RequestState :
              /\ Sound(q) /\ Put(r, q)
              /\ q.pc # "idle" => q.person = req[r].person
              /\ req[r].removed => q.removed /\ q.person = req[r].person
              /\ q.pc \notin {"guard", "disable"}
              /\ q.drop \subseteq req[r].drop
              /\ \/ q.apps = {}
                 \/ q.apps = req[r].apps /\ q.wanted = req[r].wanted
<1> DEFINE s == [req[r] EXCEPT !.add = {}]
<1>1. req[r] \in RequestState /\ req[r].person \in Person
  BY InProgress DEF AddRoles, At
<1>2. Put(r, Onward(s))
  BY DEF AddRoles
<1>3. /\ s \in RequestState /\ s.person = req[r].person
      /\ s.drop = req[r].drop /\ s.removed = req[r].removed
      /\ s.apps = req[r].apps /\ s.wanted = req[r].wanted
  BY <1>1 DEF RequestState
<1> HIDE DEF s
<1>4. Sound(Onward(s)) /\ Onward(s) \in RequestState
  BY <1>1, <1>3, OnwardSound DEF Sound
<1> QED
  BY <1>1, <1>2, <1>3, <1>4, OnwardSound

(***************************************************************************)
(* DropRoles goes on, with nothing left to drop; it has removed access,    *)
(* unless it is an invitation.                                             *)
(***************************************************************************)
LEMMA DropRolesPuts ==
    ASSUME TypeInv, NEW r \in Request, DropRoles(r)
    PROVE  \E q \in RequestState :
              /\ Sound(q) /\ Put(r, q)
              /\ q.pc # "idle" => q.person = req[r].person
              /\ ~req[r].invites => q.removed /\ q.person = req[r].person
              /\ q.pc \notin {"guard", "disable"}
              /\ q.drop = {}
              /\ \/ q.apps = {}
                 \/ q.apps = req[r].apps /\ q.wanted = req[r].wanted
<1> DEFINE s == [req[r] EXCEPT !.drop = {}, !.removed = ~req[r].invites]
<1>1. req[r] \in RequestState /\ req[r].person \in Person
  BY InProgress DEF DropRoles, At
<1>2. Put(r, Onward(s))
  BY DEF DropRoles
<1>3. /\ s \in RequestState /\ s.person = req[r].person
      /\ s.drop = {} /\ s.removed = ~req[r].invites
      /\ s.apps = req[r].apps /\ s.wanted = req[r].wanted
  BY <1>1 DEF RequestState
<1> HIDE DEF s
<1>4. Sound(Onward(s)) /\ Onward(s) \in RequestState
  BY <1>1, <1>3, OnwardSound DEF Sound
<1>5. Onward(s).drop = {}
  BY <1>1, <1>3, OnwardSound
<1>6. ASSUME ~req[r].invites PROVE Onward(s).removed /\ Onward(s).person = req[r].person
  <2>1. s.removed
    BY <1>3, <1>6
  <2> QED
    BY <1>1, <1>3, <2>1, OnwardSound
<1>7. /\ Onward(s).pc # "idle" => Onward(s).person = req[r].person
      /\ Onward(s).pc \notin {"guard", "disable"}
      /\ \/ Onward(s).apps = {}
         \/ Onward(s).apps = req[r].apps /\ Onward(s).wanted = req[r].wanted
  BY <1>1, <1>3, OnwardSound
<1> HIDE DEF s
<1> QED
  BY <1>2, <1>4, <1>5, <1>6, <1>7

(***************************************************************************)
(* Disable and LogoutElsewhere go on to end the sessions.                  *)
(***************************************************************************)
LEMMA DisablePuts ==
    ASSUME TypeInv, NEW r \in Request,
           Disable(r) \/ LogoutElsewhere(r)
    PROVE  \E q \in RequestState :
              /\ Sound(q) /\ Put(r, q) /\ q.person = req[r].person
              /\ q.pc \in {"logout", "sweep"}
              /\ req[r].removed \/ Disable(r) => q.removed
              /\ q.drop = req[r].drop
              /\ q.apps = req[r].apps /\ q.wanted = req[r].wanted
<1>1. req[r] \in RequestState /\ req[r].person \in Person
  BY InProgress DEF Disable, LogoutElsewhere, At
<1>2. CASE Disable(r)
  <2> DEFINE s == [req[r] EXCEPT !.pc = "logout", !.removed = TRUE]
  <2>1. /\ s \in RequestState /\ s.person = req[r].person /\ s.pc = "logout"
        /\ s.drop = req[r].drop /\ s.removed
        /\ s.apps = req[r].apps /\ s.wanted = req[r].wanted
    BY <1>1 DEF RequestState
  <2>2. Put(r, s)
    BY <1>2 DEF Disable
  <2> HIDE DEF s
  <2>3. Sound(s)
    BY <1>1, <2>1 DEF Sound
  <2> QED
    BY <2>1, <2>2, <2>3
<1>3. CASE LogoutElsewhere(r)
  <2> DEFINE s == [req[r] EXCEPT !.pc = "sweep"]
  <2>1. /\ s \in RequestState /\ s.person = req[r].person /\ s.pc = "sweep"
        /\ s.drop = req[r].drop /\ s.removed = req[r].removed
        /\ s.apps = req[r].apps /\ s.wanted = req[r].wanted
    BY <1>1 DEF RequestState
  <2>2. Put(r, s) /\ req[r].pc = "logout"
    BY <1>3 DEF LogoutElsewhere, Goto, At
  <2>4. ~Disable(r)
    BY <2>2 DEF Disable, At
  <2> HIDE DEF s
  <2>3. Sound(s)
    BY <1>1, <2>1 DEF Sound
  <2> QED
    BY <2>1, <2>2, <2>3, <2>4
<1> QED
  BY <1>2, <1>3

-----------------------------------------------------------------------------
(***************************************************************************)
(* Types                                                                   *)
(***************************************************************************)

(***************************************************************************)
(* A request's step that changes nothing but the request, and the history. *)
(***************************************************************************)
LEMMA TypeOfMove ==
    ASSUME TypeInv, NEW r \in Request, NEW q \in RequestState, Sound(q), Put(r, q),
           q.pc # "idle" => q.person = req[r].person, ~At(r, "idle"),
           UNCHANGED <<user, group, login>>,
           \A p \in Person : granted'[p] # granted[p] => p = req[r].person,
           granted' \in [Person -> SUBSET Role],
           stored' \in [Person -> SUBSET Role],
           session' \in [Token -> Person \cup {None}],
           overlapped' \in BOOLEAN, missed' \in [Person -> BOOLEAN]
    PROVE  TypeInv'
<1>1. user[req[r].person] # "ABSENT"
  BY InProgress
<1>2. /\ req' \in [Request -> RequestState]
      /\ \A x \in Request : Sound(req'[x])
      /\ HasAccount'
  BY <1>1, PutSound
<1>3. \A p \in Person : user'[p] = "ABSENT" => granted'[p] = {}
  BY <1>1 DEF TypeInv, TypeOK
<1>4. TypeOK'
  BY <1>2, <1>3 DEF TypeInv, TypeOK
<1> QED
  BY <1>2, <1>4 DEF TypeInv, Sound, At

(***************************************************************************)
(* Every step keeps the types.                                             *)
(***************************************************************************)
LEMMA TypeStep == TypeInv /\ [Next]_vars => TypeInv'
<1> SUFFICES ASSUME TypeInv, [Next]_vars PROVE TypeInv'
  OBVIOUS
<1> USE SuperAssumption, NoneAssumption
<1>0. TypeOK
  BY DEF TypeInv
<1>1. ASSUME NEW r \in Request, NEW p \in Person, NEW apps \in SUBSET App,
             NEW wanted \in SUBSET Role, SetRoles(r, p, apps, wanted) PROVE TypeInv'
  <2> DEFINE q == Started("guard", p, apps, wanted, Super \in granted[p], FALSE)
  <2>1. Sound(q) /\ q.person = p
    BY DEF Started, Sound, RequestState
  <2>2. Put(r, q) /\ user' = user /\ user[p] # "ABSENT" /\ overlapped' \in BOOLEAN
    BY <1>0, <1>1 DEF SetRoles, Meets, TypeOK
  <2> HIDE DEF q
  <2>3. req' \in [Request -> RequestState] /\ (\A x \in Request : Sound(req'[x])) /\ HasAccount'
    BY <2>1, <2>2, PutSound
  <2> QED
    BY <1>0, <1>1, <2>2, <2>3 DEF SetRoles, TypeInv, TypeOK
<1>2. ASSUME NEW r \in Request, NEW p \in Person, NEW apps \in SUBSET App,
             NEW wanted \in SUBSET Role, Invite(r, p, apps, wanted) PROVE TypeInv'
  <2> DEFINE q == Started("apply", p, apps, wanted, FALSE, TRUE)
  <2>1. Sound(q) /\ q.person = p
    BY DEF Started, Sound, RequestState
  <2>2. /\ Put(r, q) /\ overlapped' \in BOOLEAN
        /\ user' = [user EXCEPT ![p] = "ENABLED"]
    BY <1>0, <1>2 DEF Invite, Meets, TypeOK
  <2> HIDE DEF q
  <2>3. /\ user' \in [Person -> {"ABSENT", "ENABLED", "DISABLED"}]
        /\ user'[p] # "ABSENT"
        /\ \A x \in Person : user[x] # "ABSENT" => user'[x] # "ABSENT"
    BY <1>0, <2>2 DEF TypeOK
  <2>4. req' \in [Request -> RequestState] /\ (\A x \in Request : Sound(req'[x])) /\ HasAccount'
    BY <2>1, <2>2, <2>3, PutSound
  <2>5. granted' = granted /\ \A x \in Person : user'[x] = "ABSENT" => granted[x] = {}
    BY <1>0, <1>2, <2>3 DEF Invite, TypeOK
  <2> QED
    BY <1>0, <1>2, <2>2, <2>3, <2>4, <2>5 DEF Invite, TypeInv, TypeOK
<1>3. ASSUME NEW r \in Request, GuardRoles(r) PROVE TypeInv'
  <2>1. ~At(r, "idle") /\ UNCHANGED <<user, group, granted, stored, session, login, overlapped, missed>>
    BY <1>3 DEF GuardRoles, At
  <2> QED
    BY <1>0, <1>3, <2>1, GuardRolesPuts, TypeOfMove DEF TypeOK
<1>4. ASSUME NEW r \in Request, NEW app \in App, ReadRoles(r, app) PROVE TypeInv'
  <2>1. ~At(r, "idle") /\ UNCHANGED <<user, group, granted, stored, session, login, overlapped, missed>>
    BY <1>4 DEF ReadRoles, At
  <2> QED
    BY <1>0, <1>4, <2>1, ReadRolesPuts, TypeOfMove DEF TypeOK
<1>5. ASSUME NEW r \in Request, AddRoles(r) PROVE TypeInv'
  <2>1. ~At(r, "idle") /\ UNCHANGED <<user, group, stored, session, login, overlapped, missed>>
    BY <1>5 DEF AddRoles, At
  <2>2. req[r].person \in Person /\ req[r].add \in SUBSET Role
    BY <2>1, InProgress DEF RequestState
  <2>3. granted' = [granted EXCEPT ![req[r].person] = granted[req[r].person] \cup req[r].add]
    BY <1>5 DEF AddRoles
  <2>4. /\ granted' \in [Person -> SUBSET Role]
        /\ \A p \in Person : granted'[p] # granted[p] => p = req[r].person
    BY <1>0, <2>2, <2>3 DEF TypeOK
  <2> QED
    BY <1>0, <1>5, <2>1, <2>4, AddRolesPuts, TypeOfMove DEF TypeOK
<1>6. ASSUME NEW r \in Request, DropRoles(r) PROVE TypeInv'
  <2>1. ~At(r, "idle") /\ UNCHANGED <<user, group, stored, session, login, overlapped>>
    BY <1>6 DEF DropRoles, At
  <2>2. req[r].person \in Person /\ req[r].invites \in BOOLEAN
    BY <2>1, InProgress DEF RequestState
  <2>3. granted' = [granted EXCEPT ![req[r].person] = granted[req[r].person] \ req[r].drop]
    BY <1>6 DEF DropRoles
  <2>4. /\ granted' \in [Person -> SUBSET Role]
        /\ \A p \in Person : granted'[p] # granted[p] => p = req[r].person
    BY <1>0, <2>2, <2>3 DEF TypeOK
  <2>5. missed' \in [Person -> BOOLEAN]
    BY <1>0, <1>6, <2>2 DEF DropRoles, TypeOK
  <2> QED
    BY <1>0, <1>6, <2>1, <2>4, <2>5, DropRolesPuts, TypeOfMove DEF TypeOK
<1>7. ASSUME NEW r \in Request, NEW p \in Person, GuardDisable(r, p) PROVE TypeInv'
  <2> DEFINE q == Started("disable", p, {}, {}, FALSE, FALSE)
  <2>1. Sound(q) /\ q.person = p
    BY DEF Started, Sound, RequestState
  <2>2. Put(r, q) /\ user' = user /\ user[p] # "ABSENT" /\ overlapped' \in BOOLEAN
    BY <1>0, <1>7 DEF GuardDisable, Meets, TypeOK
  <2> HIDE DEF q
  <2>3. req' \in [Request -> RequestState] /\ (\A x \in Request : Sound(req'[x])) /\ HasAccount'
    BY <2>1, <2>2, PutSound
  <2> QED
    BY <1>0, <1>7, <2>2, <2>3 DEF GuardDisable, TypeInv, TypeOK
<1>8. ASSUME NEW r \in Request, Disable(r) PROVE TypeInv'
  <2>1. /\ ~At(r, "idle")
        /\ UNCHANGED <<group, granted, stored, session, login, overlapped, missed>>
        /\ user' = [user EXCEPT ![req[r].person] = "DISABLED"]
    BY <1>8 DEF Disable, At
  <2>2. req[r].person \in Person
    BY <2>1, InProgress
  <2>3. /\ user' \in [Person -> {"ABSENT", "ENABLED", "DISABLED"}]
        /\ user'[req[r].person] # "ABSENT"
        /\ \A x \in Person : user[x] # "ABSENT" => user'[x] # "ABSENT"
    BY <1>0, <2>1, <2>2 DEF TypeOK
  <2>4. req' \in [Request -> RequestState] /\ (\A x \in Request : Sound(req'[x])) /\ HasAccount'
    BY <1>8, <2>3, DisablePuts, PutSound
  <2>5. \A x \in Person : user'[x] = "ABSENT" => granted[x] = {}
    BY <1>0, <2>3 DEF TypeOK
  <2> QED
    BY <1>0, <2>1, <2>3, <2>4, <2>5 DEF TypeInv, TypeOK
<1>9. ASSUME NEW r \in Request, NEW p \in Person, Enable(r, p) PROVE TypeInv'
  <2>1. /\ user' = [user EXCEPT ![p] = "ENABLED"] /\ user[p] # "ABSENT"
        /\ UNCHANGED <<group, granted, stored, session, login, req, overlapped, missed>>
    BY <1>9 DEF Enable
  <2>2. /\ user' \in [Person -> {"ABSENT", "ENABLED", "DISABLED"}]
        /\ \A x \in Person : user[x] # "ABSENT" => user'[x] # "ABSENT"
    BY <1>0, <2>1 DEF TypeOK
  <2>3. \A x \in Person : user'[x] = "ABSENT" => granted[x] = {}
    BY <1>0, <2>2 DEF TypeOK
  <2>4. HasAccount'
    BY <2>1, <2>2, InProgress DEF HasAccount, At
  <2> QED
    BY <1>0, <2>1, <2>2, <2>3, <2>4 DEF TypeInv, TypeOK
<1>10. ASSUME NEW r \in Request, NEW p \in Person, SignOut(r, p) PROVE TypeInv'
  <2> DEFINE q == Started("logout", p, {}, {}, FALSE, FALSE)
  <2>1. Sound(q) /\ q.person = p
    BY DEF Started, Sound, RequestState
  <2>2. Put(r, q) /\ user' = user /\ user[p] # "ABSENT"
    BY <1>10 DEF SignOut
  <2> HIDE DEF q
  <2>3. req' \in [Request -> RequestState] /\ (\A x \in Request : Sound(req'[x])) /\ HasAccount'
    BY <2>1, <2>2, PutSound
  <2> QED
    BY <1>0, <1>10, <2>2, <2>3 DEF SignOut, TypeInv, TypeOK
<1>11. ASSUME NEW r \in Request, LogoutElsewhere(r) PROVE TypeInv'
  <2>1. ~At(r, "idle") /\ UNCHANGED <<user, group, granted, stored, session, login, overlapped, missed>>
    BY <1>11 DEF LogoutElsewhere, At
  <2> QED
    BY <1>0, <1>11, <2>1, DisablePuts, TypeOfMove DEF TypeOK
<1>12. ASSUME NEW r \in Request, Sweep(r) PROVE TypeInv'
  <2>1. ~At(r, "idle") /\ UNCHANGED <<user, group, granted, stored, login, overlapped>>
    BY <1>12 DEF Sweep, At
  <2>2. /\ session' \in [Token -> Person \cup {None}]
        /\ missed' \in [Person -> BOOLEAN]
    BY <1>0, <1>12 DEF Sweep, TypeOK
  <2> QED
    BY <1>0, <1>12, <2>1, <2>2, IdleSound, TypeOfMove DEF Sweep, Done, TypeOK
<1>13. ASSUME NEW r \in Request, Fail(r) PROVE TypeInv'
  <2>1. ~At(r, "idle") /\ UNCHANGED <<user, group, granted, stored, session, login, overlapped>>
    BY <1>13 DEF Fail
  <2>2. missed' \in [Person -> BOOLEAN]
    BY <1>0, <1>13 DEF Fail, TypeOK
  <2> QED
    BY <1>0, <1>13, <2>1, <2>2, IdleSound, TypeOfMove DEF Fail, Done, TypeOK
<1>14. ASSUME NEW l \in Login, NEW p \in Person, IssueToken(l, p) PROVE TypeInv'
  <2>1. Effective(p) \in SUBSET Role
    BY <1>0 DEF Effective, TypeOK
  <2>2. /\ login' \in [Login -> [person: Person \cup {None}, keys: SUBSET Role]]
        /\ \A x \in Login : login'[x].person = None => login'[x] = NoLogin
    BY <1>0, <1>14, <2>1 DEF IssueToken, TypeOK, TypeInv
  <2> QED
    BY <1>0, <1>14, <2>2 DEF IssueToken, TypeInv, TypeOK, HasAccount, At
<1>15. ASSUME NEW l \in Login, Abandon(l) \/ \E t \in Token : SignIn(l, t) PROVE TypeInv'
  <2>1. login' = [login EXCEPT ![l] = NoLogin]
    BY <1>15 DEF SignIn, Abandon
  <2>2. login[l].person \in Person /\ login[l].keys \in SUBSET Role
    BY <1>0, <1>15 DEF SignIn, Abandon, TypeInv, TypeOK
  <2>3. NoLogin \in [person: Person \cup {None}, keys: SUBSET Role]
    BY DEF NoLogin
  <2>4. /\ login' \in [Login -> [person: Person \cup {None}, keys: SUBSET Role]]
        /\ \A x \in Login : login'[x].person = None => login'[x] = NoLogin
    BY <1>0, <2>1, <2>3 DEF TypeOK, TypeInv
  <2>5. stored' \in [Person -> SUBSET Role] /\ session' \in [Token -> Person \cup {None}]
    BY <1>0, <1>15, <2>2 DEF SignIn, Abandon, TypeOK
  <2>6. UNCHANGED <<user, group, granted, req, overlapped, missed>>
    BY <1>15 DEF SignIn, Abandon
  <2> QED
    BY <1>0, <2>4, <2>5, <2>6 DEF TypeInv, TypeOK, HasAccount, At
<1>16. ASSUME NEW t \in Token, EndSession(t) PROVE TypeInv'
  BY <1>0, <1>16 DEF EndSession, TypeInv, TypeOK, HasAccount, At
<1>17. CASE UNCHANGED vars
  BY <1>0, <1>17 DEF vars, TypeInv, TypeOK, HasAccount, At
<1>18. ASSUME NEW r \in Request, Step(r) PROVE TypeInv'
  BY <1>1, <1>2, <1>3, <1>4, <1>5, <1>6, <1>7, <1>8, <1>9, <1>10, <1>11, <1>12,
     <1>13, <1>18 DEF Step
<1> QED
  <2>1. CASE \E r \in Request : Step(r)
    BY <1>18, <2>1
  <2>2. CASE \E l \in Login :
               \/ \E p \in Person : IssueToken(l, p)
               \/ \E t \in Token : SignIn(l, t)
               \/ Abandon(l)
    BY <1>14, <1>15, <2>2
  <2> QED
    BY <1>16, <1>17, <2>1, <2>2 DEF Next

(***************************************************************************)
(* The initial states have them.                                           *)
(***************************************************************************)
LEMMA TypeInit == ASSUME Init PROVE TypeInv
<1>1. /\ req = [r \in Request |-> Idle]
      /\ login = [l \in Login |-> NoLogin]
      /\ session = [t \in Token |-> None]
      /\ stored = [p \in Person |-> {}] /\ missed = [p \in Person |-> FALSE]
      /\ overlapped = FALSE
  BY DEF Init
<1>2. /\ req \in [Request -> RequestState]
      /\ \A r \in Request : Sound(req[r])
      /\ HasAccount
  BY <1>1, IdleSound DEF HasAccount, At
<1>3. /\ login \in [Login -> [person: Person \cup {None}, keys: SUBSET Role]]
      /\ \A l \in Login : login[l] = NoLogin
  BY <1>1 DEF NoLogin
<1>4. /\ session \in [Token -> Person \cup {None}]
      /\ stored \in [Person -> SUBSET Role] /\ missed \in [Person -> BOOLEAN]
      /\ overlapped \in BOOLEAN
  BY <1>1
<1> QED
  BY <1>2, <1>3, <1>4 DEF Init, TypeInv, TypeOK

(***************************************************************************)
(* The people at the provider, the requests and the sessions always have   *)
(* their types, and nobody holds a role without an account.                *)
(***************************************************************************)
THEOREM TypeCorrect == Spec => []TypeOK
<1>1. TypeInv => TypeOK
  BY DEF TypeInv
<1> QED
  BY <1>1, TypeInit, TypeStep, PTL DEF Spec

-----------------------------------------------------------------------------
(***************************************************************************)
(* Removals of access reach the sessions                                   *)
(***************************************************************************)

\* No sign-in of p, and no session of p, has more than p still has.
Clean(p) ==
    /\ \A l \in Login : login[l].person = p => login[l].keys \subseteq Effective(p)
    /\ \A t \in Token : session[t] = p => stored[p] \subseteq Effective(p)

AccessInv == \A p \in Person : Clean(p) \/ Pending(p) \/ missed[p]

(***************************************************************************)
(* A removal stays pending while its request goes on.                      *)
(***************************************************************************)
LEMMA PendingKept ==
    ASSUME TypeInv, NEW r \in Request, NEW q, Put(r, q), NEW p \in Person,
           Pending(p),
           req[r].removed /\ req[r].person = p => q.removed /\ q.person = p
    PROVE  Pending(p)'
<1>1. req'[r] = q /\ \A x \in Request \ {r} : req'[x] = req[x]
  BY DEF Put, TypeInv, TypeOK
<1>2. PICK x \in Request : req[x].removed /\ req[x].person = p
  BY DEF Pending
<1>3. req'[x].removed /\ req'[x].person = p
  BY <1>1, <1>2
<1> QED
  BY <1>3 DEF Pending

(***************************************************************************)
(* Who keeps what was granted stays clean.                                 *)
(***************************************************************************)
LEMMA CleanKept ==
    ASSUME NEW p \in Person, Clean(p), UNCHANGED <<stored, session, login>>,
           Effective(p) \subseteq Effective(p)'
    PROVE  Clean(p)'
BY DEF Clean

(***************************************************************************)
(* A request's step that takes nothing away.                               *)
(***************************************************************************)
LEMMA AccessOfMove ==
    ASSUME TypeInv, AccessInv, NEW r \in Request, NEW q, Put(r, q),
           req[r].removed => q.removed /\ q.person = req[r].person,
           UNCHANGED <<stored, session, login, missed>>,
           \A p \in Person : Effective(p) \subseteq Effective(p)'
    PROVE  AccessInv'
<1> SUFFICES ASSUME NEW p \in Person PROVE (Clean(p) \/ Pending(p) \/ missed[p])'
  BY DEF AccessInv
<1>1. CASE Clean(p)
  BY <1>1, CleanKept
<1>2. CASE Pending(p)
  BY <1>2, PendingKept
<1>3. CASE missed[p]
  BY <1>3
<1> QED
  BY <1>1, <1>2, <1>3 DEF AccessInv

(***************************************************************************)
(* What a person has depends on the account and on the mappings.           *)
(***************************************************************************)
LEMMA EffectiveSame ==
    ASSUME NEW p \in Person, user'[p] = user[p], granted'[p] = granted[p], group' = group
    PROVE  Effective(p)' = Effective(p)
BY DEF Effective

(***************************************************************************)
(* Every step keeps AccessInv.                                             *)
(***************************************************************************)
LEMMA AccessStep == TypeInv /\ AccessInv /\ [Next]_vars => AccessInv'
<1> SUFFICES ASSUME TypeInv, AccessInv, [Next]_vars PROVE AccessInv'
  OBVIOUS
<1> USE SuperAssumption, NoneAssumption
<1>0. TypeOK
  BY DEF TypeInv
<1>a. ASSUME NEW r \in Request, At(r, "idle") PROVE ~req[r].removed
  BY <1>a, IdleSound DEF TypeInv, Sound, At
<1>1. ASSUME NEW r \in Request, NEW p \in Person, NEW apps \in SUBSET App,
             NEW wanted \in SUBSET Role, SetRoles(r, p, apps, wanted) PROVE AccessInv'
  <2>1. /\ Put(r, Started("guard", p, apps, wanted, Super \in granted[p], FALSE))
        /\ ~req[r].removed
        /\ UNCHANGED <<user, group, granted, stored, session, login, missed>>
    BY <1>a, <1>1 DEF SetRoles
  <2>2. \A x \in Person : Effective(x) \subseteq Effective(x)'
    BY <2>1, EffectiveSame
  <2> QED
    BY <2>1, <2>2, AccessOfMove
<1>2. ASSUME NEW r \in Request, NEW p \in Person, NEW apps \in SUBSET App,
             NEW wanted \in SUBSET Role, Invite(r, p, apps, wanted) PROVE AccessInv'
  <2>1. /\ Put(r, Started("apply", p, apps, wanted, FALSE, TRUE))
        /\ ~req[r].removed
        /\ UNCHANGED <<group, granted, stored, session, login, missed>>
        /\ user' = [user EXCEPT ![p] = "ENABLED"]
    BY <1>a, <1>2 DEF Invite
  <2>2. \A x \in Person : Effective(x) \subseteq Effective(x)'
    BY <1>0, <2>1 DEF Effective, TypeOK
  <2> QED
    BY <2>1, <2>2, AccessOfMove
<1>3. ASSUME NEW r \in Request, GuardRoles(r) PROVE AccessInv'
  <2>1. UNCHANGED <<user, group, granted, stored, session, login, missed>>
    BY <1>3 DEF GuardRoles
  <2>2. \A x \in Person : Effective(x) \subseteq Effective(x)'
    BY <2>1, EffectiveSame
  <2> QED
    BY <1>3, <2>1, <2>2, GuardRolesPuts, AccessOfMove
<1>4. ASSUME NEW r \in Request, NEW app \in App, ReadRoles(r, app) PROVE AccessInv'
  <2>1. UNCHANGED <<user, group, granted, stored, session, login, missed>>
    BY <1>4 DEF ReadRoles
  <2>2. \A x \in Person : Effective(x) \subseteq Effective(x)'
    BY <2>1, EffectiveSame
  <2> QED
    BY <1>4, <2>1, <2>2, ReadRolesPuts, AccessOfMove
<1>5. ASSUME NEW r \in Request, AddRoles(r) PROVE AccessInv'
  <2>1. UNCHANGED <<user, group, stored, session, login, missed>>
    BY <1>5 DEF AddRoles
  <2>2. granted' = [granted EXCEPT ![req[r].person] = granted[req[r].person] \cup req[r].add]
    BY <1>5 DEF AddRoles
  <2>3. \A x \in Person : Effective(x) \subseteq Effective(x)'
    BY <1>0, <2>1, <2>2 DEF Effective, TypeOK
  <2> QED
    BY <1>5, <2>1, <2>3, AddRolesPuts, AccessOfMove
<1>6. ASSUME NEW r \in Request, DropRoles(r) PROVE AccessInv'
  <2>0. PICK p \in Person : p = req[r].person
    BY <1>6, InProgress DEF DropRoles, At
  <2>1. /\ UNCHANGED <<user, group, stored, session, login>>
        /\ granted' = [granted EXCEPT ![p] = granted[p] \ req[r].drop]
        /\ missed' = [missed EXCEPT ![p] = missed[p] \/ req[r].invites]
    BY <1>6, <2>0 DEF DropRoles
  <2>2. req[r].invites \in BOOLEAN
    BY <1>6, InProgress DEF DropRoles, At, RequestState
  <2>3. PICK q \in RequestState :
              /\ Put(r, q)
              /\ ~req[r].invites => q.removed /\ q.person = p
    BY <1>6, <2>0, DropRolesPuts
  <2>4. (Pending(p) \/ missed[p])'
    <3>1. CASE req[r].invites
      BY <1>0, <2>1, <2>2, <3>1 DEF TypeOK
    <3>2. CASE ~req[r].invites
      BY <1>0, <2>3, <3>2 DEF Put, Pending, TypeOK
    <3> QED
      BY <3>1, <3>2
  <2>5. ASSUME NEW x \in Person, x # p PROVE (Clean(x) \/ Pending(x) \/ missed[x])'
    <3>1. missed'[x] = missed[x] /\ Effective(x)' = Effective(x)
      BY <1>0, <2>1, <2>5, EffectiveSame DEF TypeOK
    <3>2. CASE Pending(x)
      BY <2>3, <2>5, <3>2, <2>0, PendingKept
    <3>3. CASE Clean(x)
      BY <2>1, <3>1, <3>3, CleanKept
    <3> QED
      BY <3>1, <3>2, <3>3 DEF AccessInv
  <2> QED
    BY <2>4, <2>5 DEF AccessInv
<1>7. ASSUME NEW r \in Request, NEW p \in Person, GuardDisable(r, p) PROVE AccessInv'
  <2>1. /\ Put(r, Started("disable", p, {}, {}, FALSE, FALSE))
        /\ ~req[r].removed
        /\ UNCHANGED <<user, group, granted, stored, session, login, missed>>
    BY <1>a, <1>7 DEF GuardDisable
  <2>2. \A x \in Person : Effective(x) \subseteq Effective(x)'
    BY <2>1, EffectiveSame
  <2> QED
    BY <2>1, <2>2, AccessOfMove
<1>8. ASSUME NEW r \in Request, Disable(r) PROVE AccessInv'
  <2>0. PICK p \in Person : p = req[r].person
    BY <1>8, InProgress DEF Disable, At
  <2>1. /\ UNCHANGED <<group, granted, stored, session, login, missed>>
        /\ user' = [user EXCEPT ![p] = "DISABLED"]
    BY <1>8, <2>0 DEF Disable
  <2>2. PICK q \in RequestState : Put(r, q) /\ q.person = p /\ q.removed
    BY <1>8, <2>0, DisablePuts
  <2>3. Pending(p)'
    BY <1>0, <2>2 DEF Put, Pending, TypeOK
  <2>4. ASSUME NEW x \in Person, x # p PROVE (Clean(x) \/ Pending(x) \/ missed[x])'
    <3>1. missed'[x] = missed[x] /\ Effective(x)' = Effective(x)
      BY <1>0, <2>1, <2>4, EffectiveSame DEF TypeOK
    <3>2. CASE Pending(x)
      BY <2>2, <2>4, <3>2, <2>0, PendingKept
    <3>3. CASE Clean(x)
      BY <2>1, <3>1, <3>3, CleanKept
    <3> QED
      BY <3>1, <3>2, <3>3 DEF AccessInv
  <2> QED
    BY <2>3, <2>4 DEF AccessInv
<1>9. ASSUME NEW r \in Request, NEW p \in Person, Enable(r, p) PROVE AccessInv'
  <2>1. /\ UNCHANGED <<group, granted, stored, session, login, req, missed>>
        /\ user' = [user EXCEPT ![p] = "ENABLED"]
    BY <1>9 DEF Enable
  <2>2. \A x \in Person : Effective(x) \subseteq Effective(x)'
    BY <1>0, <2>1 DEF Effective, TypeOK
  <2>3. \A x \in Person : Pending(x)' = Pending(x)
    BY <2>1 DEF Pending
  <2> QED
    BY <2>1, <2>2, <2>3, CleanKept DEF AccessInv
<1>10. ASSUME NEW r \in Request, NEW p \in Person, SignOut(r, p) PROVE AccessInv'
  <2>1. /\ Put(r, Started("logout", p, {}, {}, FALSE, FALSE))
        /\ ~req[r].removed
        /\ UNCHANGED <<user, group, granted, stored, session, login, missed>>
    BY <1>a, <1>10 DEF SignOut
  <2>2. \A x \in Person : Effective(x) \subseteq Effective(x)'
    BY <2>1, EffectiveSame
  <2> QED
    BY <2>1, <2>2, AccessOfMove
<1>11. ASSUME NEW r \in Request, LogoutElsewhere(r) PROVE AccessInv'
  <2>1. UNCHANGED <<user, group, granted, stored, session, login, missed>>
    BY <1>11 DEF LogoutElsewhere
  <2>2. \A x \in Person : Effective(x) \subseteq Effective(x)'
    BY <2>1, EffectiveSame
  <2> QED
    BY <1>11, <2>1, <2>2, DisablePuts, AccessOfMove
<1>12. ASSUME NEW r \in Request, Sweep(r) PROVE AccessInv'
  <2>0. PICK p \in Person : p = req[r].person
    BY <1>12, InProgress DEF Sweep, At
  <2>1. /\ UNCHANGED <<user, group, granted, stored, login>>
        /\ session' = [t \in Token |-> IF session[t] = p THEN None ELSE session[t]]
        /\ missed' = [missed EXCEPT ![p] = Outdated(p) # {}]
        /\ Put(r, Idle)
    BY <1>12, <2>0 DEF Sweep, Done
  <2>3. \A x \in Person : Effective(x)' = Effective(x)
    BY <2>1, EffectiveSame
  <2>4. \A t \in Token : session'[t] # p
    BY <2>1
  <2>5. (Clean(p) \/ missed[p])'
    <3>1. CASE Outdated(p) = {}
      <4>1. \A l \in Login : login[l].person = p => login[l].keys \subseteq Effective(p)
        BY <3>1 DEF Outdated
      <4> QED
        BY <2>1, <2>3, <2>4, <4>1 DEF Clean
    <3>2. CASE Outdated(p) # {}
      BY <1>0, <2>1, <3>2 DEF TypeOK
    <3> QED
      BY <3>1, <3>2
  <2>6. ASSUME NEW x \in Person, x # p PROVE (Clean(x) \/ Pending(x) \/ missed[x])'
    <3>1. missed'[x] = missed[x]
      BY <1>0, <2>1, <2>6 DEF TypeOK
    <3>2. CASE Pending(x)
      BY <2>1, <2>6, <3>2, <2>0, PendingKept
    <3>3. CASE Clean(x)
      BY <2>1, <2>3, <3>3 DEF Clean
    <3> QED
      BY <3>1, <3>2, <3>3 DEF AccessInv
  <2> QED
    BY <2>5, <2>6 DEF AccessInv
<1>13. ASSUME NEW r \in Request, Fail(r) PROVE AccessInv'
  <2>0. PICK p \in Person : p = req[r].person
    BY <1>13, InProgress DEF Fail
  <2>1. /\ UNCHANGED <<user, group, granted, stored, session, login>>
        /\ missed' = IF req[r].removed THEN [missed EXCEPT ![p] = TRUE] ELSE missed
        /\ Put(r, Idle)
    BY <1>13, <2>0 DEF Fail, Done
  <2>3. ASSUME NEW x \in Person PROVE (Clean(x) \/ Pending(x) \/ missed[x])'
    <3>1. (missed[x] => missed'[x]) /\ (req[r].removed /\ p = x => missed'[x])
      BY <1>0, <2>1 DEF TypeOK
    <3>2. Effective(x)' = Effective(x)
      BY <2>1, EffectiveSame
    <3>3. CASE Pending(x)
      BY <2>1, <3>1, <3>3, <2>0, PendingKept
    <3>4. CASE Clean(x)
      BY <2>1, <3>2, <3>4, CleanKept
    <3> QED
      BY <3>1, <3>3, <3>4 DEF AccessInv
  <2> QED
    BY <2>3 DEF AccessInv
<1>14. ASSUME NEW l \in Login, NEW p \in Person, IssueToken(l, p) PROVE AccessInv'
  <2>1. /\ UNCHANGED <<user, group, granted, stored, session, req, missed>>
        /\ login' = [login EXCEPT ![l] = [person |-> p, keys |-> Effective(p)]]
    BY <1>14 DEF IssueToken
  <2>2. ASSUME NEW x \in Person, Clean(x) PROVE Clean(x)'
    <3>1. Effective(x)' = Effective(x)
      BY <2>1, EffectiveSame
    <3>2. ASSUME NEW k \in Login, login'[k].person = x PROVE login'[k].keys \subseteq Effective(x)
      <4>1. CASE k = l
        <5>1. login'[k] = [person |-> p, keys |-> Effective(p)]
          BY <1>0, <2>1, <4>1 DEF TypeOK
        <5> QED
          BY <3>2, <5>1
      <4>2. CASE k # l
        BY <1>0, <2>1, <2>2, <3>2, <4>2 DEF TypeOK, Clean
      <4> QED
        BY <4>1, <4>2
    <3> QED
      BY <2>1, <2>2, <3>1, <3>2 DEF Clean
  <2>3. \A x \in Person : Pending(x)' = Pending(x)
    BY <2>1 DEF Pending
  <2> QED
    BY <2>1, <2>2, <2>3 DEF AccessInv
<1>15. ASSUME NEW l \in Login, NEW t \in Token, SignIn(l, t) PROVE AccessInv'
  <2>0. PICK p \in Person : p = login[l].person
    BY <1>0, <1>15 DEF SignIn, TypeInv, TypeOK
  <2>1. /\ UNCHANGED <<user, group, granted, req, missed>>
        /\ stored' = [stored EXCEPT ![p] = login[l].keys]
        /\ session' = [session EXCEPT ![t] = p]
        /\ login' = [login EXCEPT ![l] = NoLogin]
    BY <1>15, <2>0 DEF SignIn
  <2>3. ASSUME NEW x \in Person, Clean(x) PROVE Clean(x)'
    <3>1. Effective(x)' = Effective(x)
      BY <2>1, EffectiveSame
    <3>2. ASSUME NEW k \in Login, login'[k].person = x PROVE login'[k].keys \subseteq Effective(x)
      <4>1. k # l
        BY <1>0, <2>1, <3>2 DEF TypeOK, NoLogin
      <4> QED
        BY <1>0, <2>1, <2>3, <3>2, <4>1 DEF TypeOK, Clean
    <3>3. ASSUME NEW k \in Token, session'[k] = x PROVE stored'[x] \subseteq Effective(x)
      <4>1. CASE x = p
        BY <1>0, <2>0, <2>1, <2>3, <4>1 DEF TypeOK, Clean
      <4>2. CASE x # p
        <5>1. session[k] = x /\ stored'[x] = stored[x]
          BY <1>0, <2>1, <3>3, <4>2 DEF TypeOK
        <5> QED
          BY <2>3, <5>1 DEF Clean
      <4> QED
        BY <4>1, <4>2
    <3> QED
      BY <3>1, <3>2, <3>3 DEF Clean
  <2>4. \A x \in Person : Pending(x)' = Pending(x)
    BY <2>1 DEF Pending
  <2> QED
    BY <2>1, <2>3, <2>4 DEF AccessInv
<1>16. ASSUME NEW l \in Login, Abandon(l) PROVE AccessInv'
  <2>1. /\ UNCHANGED <<user, group, granted, stored, session, req, missed>>
        /\ login' = [login EXCEPT ![l] = NoLogin]
    BY <1>16 DEF Abandon
  <2>2. ASSUME NEW x \in Person, Clean(x) PROVE Clean(x)'
    <3>1. Effective(x)' = Effective(x)
      BY <2>1, EffectiveSame
    <3>2. ASSUME NEW k \in Login, login'[k].person = x PROVE login'[k] = login[k]
      BY <1>0, <2>1, <3>2 DEF TypeOK, NoLogin
    <3> QED
      BY <2>1, <2>2, <3>1, <3>2 DEF Clean
  <2>3. \A x \in Person : Pending(x)' = Pending(x)
    BY <2>1 DEF Pending
  <2> QED
    BY <2>1, <2>2, <2>3 DEF AccessInv
<1>17. ASSUME NEW t \in Token, EndSession(t) PROVE AccessInv'
  <2>1. /\ UNCHANGED <<user, group, granted, stored, login, req, missed>>
        /\ session' = [session EXCEPT ![t] = None]
    BY <1>17 DEF EndSession
  <2>2. ASSUME NEW x \in Person, Clean(x) PROVE Clean(x)'
    <3>1. Effective(x)' = Effective(x)
      BY <2>1, EffectiveSame
    <3>2. ASSUME NEW k \in Token, session'[k] = x PROVE session[k] = x
      BY <1>0, <2>1, <3>2 DEF TypeOK
    <3> QED
      BY <2>1, <2>2, <3>1, <3>2 DEF Clean
  <2>3. \A x \in Person : Pending(x)' = Pending(x)
    BY <2>1 DEF Pending
  <2> QED
    BY <2>1, <2>2, <2>3 DEF AccessInv
<1>18. CASE UNCHANGED vars
  BY <1>18 DEF vars, AccessInv, Clean, Pending, Effective
<1>19. ASSUME NEW r \in Request, Step(r) PROVE AccessInv'
  BY <1>1, <1>2, <1>3, <1>4, <1>5, <1>6, <1>7, <1>8, <1>9, <1>10, <1>11, <1>12,
     <1>13, <1>19 DEF Step
<1> QED
  <2>1. CASE \E r \in Request : Step(r)
    BY <1>19, <2>1
  <2>2. CASE \E l \in Login :
               \/ \E p \in Person : IssueToken(l, p)
               \/ \E t \in Token : SignIn(l, t)
               \/ Abandon(l)
    BY <1>14, <1>15, <1>16, <2>2
  <2> QED
    BY <1>17, <1>18, <2>1, <2>2 DEF Next

(***************************************************************************)
(* Whoever has a session has no more than the provider still grants, but   *)
(* for a removal that is pending, failed, or ran beside an older token.    *)
(***************************************************************************)
THEOREM RemovalReachesSessions == Spec => []AccessIsCurrent
<1>1. ASSUME Init PROVE TypeInv /\ AccessInv
  <2>1. ASSUME NEW p \in Person PROVE Clean(p)
    BY <1>1, NoneAssumption DEF Init, Clean, NoLogin
  <2> QED
    BY <1>1, <2>1, TypeInit DEF AccessInv
<1>2. TypeInv /\ AccessInv => AccessIsCurrent
  BY DEF TypeInv, TypeOK, AccessInv, Clean, AccessIsCurrent
<1> QED
  BY <1>1, <1>2, TypeStep, AccessStep, PTL DEF Spec

-----------------------------------------------------------------------------
(***************************************************************************)
(* A SUPER_ADMIN remains                                                   *)
(***************************************************************************)

\* A request in state q may still take SUPER_ADMIN away.
RemovingState(q) ==
    q.pc = "disable" \/ Super \in q.drop \/ Demotes(q.apps, q.wanted)

\* Somebody else is an enabled SUPER_ADMIN.
Another(p) == \E s \in Supers : s # p

\* Somebody is, whatever roles p loses.
Left(p) == Another(p) \/ (p \in group /\ user[p] = "ENABLED")

(***************************************************************************)
(* What the guard saw, carried to the call that relies on it: a disable    *)
(* needs another SUPER_ADMIN; the removal of the role also does with the   *)
(* person's group, where no guard was needed.                              *)
(***************************************************************************)
Safe(q) ==
    /\ q.pc = "disable" => Another(q.person)
    /\ Left(q.person) \/ (q.pc = "guard" /\ q.direct)

SuperInv ==
    ~overlapped =>
        /\ Supers # {}
        /\ \A r, x \in Request : Removing(r) /\ Removing(x) => r = x
        /\ \A r \in Request : Removing(r) => Safe(req[r])

(***************************************************************************)
(* The two ways to say that a request may remove agree; an idle one, and   *)
(* one with nothing to do, does not.                                       *)
(***************************************************************************)
LEMMA RemovingIsState ==
    /\ \A r \in Request : Removing(r) <=> RemovingState(req[r])
    /\ ~RemovingState(Idle)
    /\ \A q : q.pc # "disable" /\ q.drop = {} /\ q.apps = {} => ~RemovingState(q)
BY IdleSound DEF Removing, RemovingState, Demotes, At

(***************************************************************************)
(* More SUPER_ADMINs, and nobody disabled, is as safe as before.           *)
(***************************************************************************)
LEMMA SafeKept ==
    ASSUME NEW q, Safe(q), Supers \subseteq Supers', group' = group,
           user[q.person] = "ENABLED" => user'[q.person] = "ENABLED"
    PROVE  Safe(q)'
BY DEF Safe, Left, Another

(***************************************************************************)
(* A request's step after which it may remove only if it might before.     *)
(***************************************************************************)
LEMMA SuperOfMove ==
    ASSUME TypeInv, SuperInv, NEW r \in Request, NEW q, Put(r, q),
           overlapped' = overlapped, group' = group, Supers \subseteq Supers',
           \A p \in Person : user[p] = "ENABLED" => user'[p] = "ENABLED",
           RemovingState(q) => Removing(r),
           RemovingState(q) /\ ~overlapped => Safe(q) /\ q.person \in Person
    PROVE  SuperInv'
<1> SUFFICES ASSUME ~overlapped
    PROVE  /\ Supers' # {}
           /\ \A a, x \in Request : Removing(a)' /\ Removing(x)' => a = x
           /\ \A a \in Request : Removing(a)' => Safe(req[a])'
  BY DEF SuperInv
<1>1. req'[r] = q /\ \A x \in Request \ {r} : req'[x] = req[x]
  BY DEF Put, TypeInv, TypeOK
<1>2. \A x \in Request : Removing(x)' <=> RemovingState(req'[x])
  BY DEF Removing, RemovingState, At
<1>3. \A x \in Request : Removing(x)' => Removing(x)
  BY <1>1, <1>2, RemovingIsState
<1>4. ASSUME NEW a \in Request, Removing(a)' PROVE Safe(req[a])'
  <2>1. PICK s : s = req'[a]
    OBVIOUS
  <2>2. Safe(s) /\ s.person \in Person
    <3>1. CASE a = r
      BY <1>1, <1>2, <1>4, <2>1, <3>1
    <3>2. CASE a # r
      <4>1. s = req[a] /\ Removing(a)
        BY <1>1, <1>3, <1>4, <2>1, <3>2
      <4>2. ~At(a, "idle")
        BY <4>1, RemovingIsState DEF TypeInv, Sound, At
      <4> QED
        BY <4>1, <4>2, InProgress DEF SuperInv
    <3> QED
      BY <3>1, <3>2
  <2>3. Safe(s)'
    BY <2>2, SafeKept
  <2> QED
    BY <2>1, <2>3 DEF Safe, Left, Another
<1> QED
  BY <1>3, <1>4 DEF SuperInv

(***************************************************************************)
(* A request that starts; one that may remove meets no other that may.     *)
(***************************************************************************)
LEMMA SuperOfStart ==
    ASSUME TypeInv, SuperInv, NEW r \in Request, NEW q, Put(r, q),
           IF RemovingState(q) THEN Meets(r) ELSE overlapped' = overlapped,
           group' = group, Supers \subseteq Supers',
           \A p \in Person : user[p] = "ENABLED" => user'[p] = "ENABLED",
           Supers # {} /\ RemovingState(q) => Safe(q), q.person \in Person
    PROVE  SuperInv'
<1> SUFFICES ASSUME ~overlapped'
    PROVE  /\ Supers' # {}
           /\ \A a, x \in Request : Removing(a)' /\ Removing(x)' => a = x
           /\ \A a \in Request : Removing(a)' => Safe(req[a])'
  BY DEF SuperInv
<1>0. ~overlapped /\ (RemovingState(q) => \A x \in Request \ {r} : ~Removing(x))
  BY DEF Meets, TypeInv, TypeOK
<1>1. req'[r] = q /\ \A x \in Request \ {r} : req'[x] = req[x]
  BY DEF Put, TypeInv, TypeOK
<1>2. \A x \in Request : Removing(x)' <=> RemovingState(req'[x])
  BY DEF Removing, RemovingState, At
<1>3. \A x \in Request \ {r} : Removing(x)' => Removing(x)
  BY <1>1, <1>2, RemovingIsState
<1>4. ASSUME NEW a \in Request, Removing(a)' PROVE Safe(req[a])'
  <2>1. PICK s : s = req'[a]
    OBVIOUS
  <2>2. Safe(s) /\ s.person \in Person
    <3>1. CASE a = r
      BY <1>0, <1>1, <1>2, <1>4, <2>1, <3>1 DEF SuperInv
    <3>2. CASE a # r
      <4>1. s = req[a] /\ Removing(a)
        BY <1>1, <1>3, <1>4, <2>1, <3>2
      <4>2. ~At(a, "idle")
        BY <4>1, RemovingIsState DEF TypeInv, Sound, At
      <4> QED
        BY <1>0, <4>1, <4>2, InProgress DEF SuperInv
    <3> QED
      BY <3>1, <3>2
  <2>3. Safe(s)'
    BY <2>2, SafeKept
  <2> QED
    BY <2>1, <2>3 DEF Safe, Left, Another
<1>5. ASSUME NEW a \in Request, NEW x \in Request, Removing(a)', Removing(x)' PROVE a = x
  BY <1>0, <1>1, <1>2, <1>3, <1>5 DEF SuperInv
<1> QED
  BY <1>0, <1>4, <1>5 DEF SuperInv

(***************************************************************************)
(* The step that takes the role, or the account, of p away.                *)
(***************************************************************************)
LEMMA SuperOfRemoval ==
    ASSUME TypeInv, SuperInv, NEW r \in Request, NEW q, Put(r, q),
           overlapped' = overlapped, Removing(r), NEW p \in Person,
           RemovingState(q) => q.person = p /\ q.pc \notin {"disable", "guard"},
           \A s \in Supers : s # p => s \in Supers',
           ~overlapped => Another(p) \/ (Left(p)' /\ p \in Supers')
    PROVE  SuperInv'
<1> SUFFICES ASSUME ~overlapped
    PROVE  /\ Supers' # {}
           /\ \A a, x \in Request : Removing(a)' /\ Removing(x)' => a = x
           /\ \A a \in Request : Removing(a)' => Safe(req[a])'
  BY DEF SuperInv
<1>1. req'[r] = q /\ \A x \in Request \ {r} : req'[x] = req[x]
  BY DEF Put, TypeInv, TypeOK
<1>2. \A x \in Request : Removing(x)' <=> RemovingState(req'[x])
  BY DEF Removing, RemovingState, At
<1>3. \A x \in Request : Removing(x)' => x = r
  BY <1>1, <1>2, RemovingIsState DEF SuperInv
<1>4. Supers' # {} /\ Left(p)'
  BY DEF Another, Left
<1>5. ASSUME Removing(r)' PROVE Safe(req[r])'
  <2>1. req'[r].person = p /\ req'[r].pc \notin {"disable", "guard"}
    BY <1>1, <1>2, <1>5
  <2> QED
    BY <1>4, <2>1 DEF Safe, Left, Another
<1> QED
  BY <1>3, <1>4, <1>5

(***************************************************************************)
(* Every step keeps SuperInv.                                              *)
(***************************************************************************)
LEMMA SuperStep == TypeInv /\ SuperInv /\ [Next]_vars => SuperInv'
<1> SUFFICES ASSUME TypeInv, SuperInv, [Next]_vars PROVE SuperInv'
  OBVIOUS
<1> USE SuperAssumption, NoneAssumption
<1>0. TypeOK
  BY DEF TypeInv
<1>a. ASSUME UNCHANGED <<user, granted, group>> PROVE Supers' = Supers
  BY <1>a DEF Supers, Effective
<1>b. ASSUME UNCHANGED <<user, granted, group, req, overlapped>> PROVE SuperInv'
  BY <1>b DEF SuperInv, Supers, Effective, Removing, At, Safe, Left, Another
<1>1. ASSUME NEW r \in Request, NEW p \in Person, NEW apps \in SUBSET App,
             NEW wanted \in SUBSET Role, SetRoles(r, p, apps, wanted) PROVE SuperInv'
  <2>1. PICK q : q = Started("guard", p, apps, wanted, Super \in granted[p], FALSE)
    OBVIOUS
  <2>2. /\ q.pc = "guard" /\ q.person = p /\ q.drop = {} /\ q.apps = apps
        /\ q.wanted = wanted /\ (q.direct <=> Super \in granted[p])
    BY <2>1 DEF Started
  <2>3. /\ Put(r, q) /\ UNCHANGED <<user, granted, group>>
        /\ IF Demotes(apps, wanted) THEN Meets(r) ELSE overlapped' = overlapped
    BY <1>1, <2>1 DEF SetRoles
  <2>4. RemovingState(q) <=> Demotes(apps, wanted)
    BY <2>2 DEF RemovingState
  <2>5. ASSUME Supers # {}, Super \notin granted[p] PROVE Left(p)
    BY <2>5 DEF Left, Another, Supers, Effective
  <2>6. Supers # {} => Safe(q)
    BY <2>2, <2>5 DEF Safe
  <2> QED
    BY <1>a, <2>2, <2>3, <2>4, <2>6, SuperOfStart
<1>2. ASSUME NEW r \in Request, NEW p \in Person, NEW apps \in SUBSET App,
             NEW wanted \in SUBSET Role, Invite(r, p, apps, wanted) PROVE SuperInv'
  <2>1. PICK q : q = Started("apply", p, apps, wanted, FALSE, TRUE)
    OBVIOUS
  <2>2. /\ q.pc = "apply" /\ q.person = p /\ q.drop = {} /\ q.apps = apps
        /\ q.wanted = wanted
    BY <2>1 DEF Started
  <2>3. /\ Put(r, q) /\ UNCHANGED <<granted, group>>
        /\ user' = [user EXCEPT ![p] = "ENABLED"] /\ user[p] = "ABSENT"
        /\ IF Demotes(apps, wanted) THEN Meets(r) ELSE overlapped' = overlapped
    BY <1>2, <2>1 DEF Invite
  <2>4. RemovingState(q) <=> Demotes(apps, wanted)
    BY <2>2 DEF RemovingState
  <2>5. ASSUME Supers # {} PROVE Another(p)
    BY <2>3, <2>5 DEF Another, Supers, Effective
  <2>6. Supers # {} => Safe(q)
    BY <2>2, <2>5 DEF Safe, Left
  <2>7. \A x \in Person : user[x] = "ENABLED" => user'[x] = "ENABLED"
    BY <1>0, <2>3 DEF TypeOK
  <2>8. Supers \subseteq Supers'
    BY <2>3, <2>7 DEF Supers, Effective
  <2> QED
    BY <2>2, <2>3, <2>4, <2>6, <2>7, <2>8, SuperOfStart
<1>3. ASSUME NEW r \in Request, GuardRoles(r) PROVE SuperInv'
  <2>1. At(r, "guard") /\ UNCHANGED <<user, group, granted, overlapped>>
    BY <1>3 DEF GuardRoles
  <2>2. PICK q \in RequestState :
              /\ Put(r, q)
              /\ q.pc # "idle" => q.person = req[r].person
              /\ q.pc \in {"idle", "apply"} /\ q.drop = {} /\ Sound(q)
              /\ \/ q = Idle
                 \/ /\ q.apps = req[r].apps /\ q.wanted = req[r].wanted
                    /\ \/ ~req[r].direct
                       \/ ~Demotes(req[r].apps, req[r].wanted)
                       \/ ~(Supers \subseteq {req[r].person})
    BY <1>3, GuardRolesPuts
  <2>3. ASSUME RemovingState(q)
        PROVE  /\ Removing(r) /\ q.person = req[r].person /\ q.pc = "apply"
               /\ ~req[r].direct \/ Another(req[r].person)
    <3>1. q # Idle /\ q.pc = "apply" /\ Demotes(q.apps, q.wanted)
      <4>1. q # Idle
        BY <2>3, RemovingIsState
      <4> QED
        BY <2>2, <2>3, <4>1 DEF Sound, RemovingState
    <3> QED
      BY <2>2, <3>1 DEF Removing, Another
  <2>4. ASSUME RemovingState(q), ~overlapped PROVE Safe(q) /\ q.person \in Person
    <3>1. Safe(req[r]) /\ req[r].person \in Person
      BY <2>1, <2>3, <2>4, InProgress DEF SuperInv, At
    <3> QED
      BY <2>3, <2>4, <3>1 DEF Safe, Left
  <2> QED
    BY <1>a, <2>1, <2>2, <2>3, <2>4, SuperOfMove
<1>4. ASSUME NEW r \in Request, NEW app \in App, ReadRoles(r, app) PROVE SuperInv'
  <2>1. At(r, "apply") /\ UNCHANGED <<user, group, granted, overlapped>>
    BY <1>4 DEF ReadRoles
  <2>2. PICK q \in RequestState :
              /\ Put(r, q)
              /\ q.pc # "idle" => q.person = req[r].person
              /\ q.pc \notin {"guard", "disable"}
              /\ Sound(q)
              /\ q.drop \subseteq (granted[req[r].person] \cap RolesOf({app}))
                                     \ (req[r].wanted \cap RolesOf({app}))
              /\ \/ q.apps = {}
                 \/ q.apps = req[r].apps \ {app} /\ q.wanted = req[r].wanted \ RolesOf({app})
    BY <1>4, ReadRolesPuts
  <2>3. app \in req[r].apps
    BY <1>4 DEF ReadRoles
  <2>4. ASSUME RemovingState(q) PROVE Removing(r) /\ q.person = req[r].person
    <3>1. q.pc # "idle"
      BY <2>2, <2>4, RemovingIsState DEF Sound
    <3>2. CASE Super \in q.drop
      <4>1. Super \in RolesOf({app}) /\ Super \notin req[r].wanted
        BY <2>2, <3>2
      <4>2. app = Central
        BY <4>1 DEF RolesOf, Super
      <4> QED
        BY <2>2, <2>3, <3>1, <4>1, <4>2 DEF Removing, Demotes
    <3>3. CASE Demotes(q.apps, q.wanted)
      <4>1. /\ q.apps = req[r].apps \ {app} /\ q.wanted = req[r].wanted \ RolesOf({app})
            /\ Central \in q.apps /\ Super \notin q.wanted
        BY <2>2, <3>3 DEF Demotes
      <4>2. Central # app
        BY <4>1
      <4>3. Super \notin RolesOf({app})
        BY <4>2 DEF RolesOf, Super
      <4> QED
        BY <2>2, <3>1, <4>1, <4>3 DEF Removing, Demotes
    <3> QED
      BY <2>2, <2>4, <3>2, <3>3 DEF RemovingState
  <2>5. ASSUME RemovingState(q), ~overlapped PROVE Safe(q) /\ q.person \in Person
    <3>1. Safe(req[r]) /\ req[r].person \in Person
      BY <2>1, <2>4, <2>5, InProgress DEF SuperInv, At
    <3> QED
      BY <2>1, <2>2, <2>4, <2>5, <3>1 DEF Safe, At
  <2> QED
    BY <1>a, <2>1, <2>2, <2>4, <2>5, SuperOfMove
<1>5. ASSUME NEW r \in Request, AddRoles(r) PROVE SuperInv'
  <2>1. /\ At(r, "add") /\ UNCHANGED <<user, group, overlapped>>
        /\ granted' = [granted EXCEPT ![req[r].person] = granted[req[r].person] \cup req[r].add]
    BY <1>5 DEF AddRoles
  <2>2. PICK q \in RequestState :
              /\ Put(r, q)
              /\ q.pc # "idle" => q.person = req[r].person
              /\ q.pc \notin {"guard", "disable"}
              /\ Sound(q)
              /\ q.drop \subseteq req[r].drop
              /\ \/ q.apps = {}
                 \/ q.apps = req[r].apps /\ q.wanted = req[r].wanted
    BY <1>5, AddRolesPuts
  <2>3. Supers \subseteq Supers'
    BY <1>0, <2>1 DEF Supers, Effective, TypeOK
  <2>4. ASSUME RemovingState(q) PROVE Removing(r) /\ q.person = req[r].person
    <3>1. q.pc # "idle"
      BY <2>2, <2>4, RemovingIsState DEF Sound
    <3> QED
      BY <2>2, <2>4, <3>1 DEF Removing, RemovingState, Demotes
  <2>5. ASSUME RemovingState(q), ~overlapped PROVE Safe(q) /\ q.person \in Person
    <3>1. Safe(req[r]) /\ req[r].person \in Person
      BY <2>1, <2>4, <2>5, InProgress DEF SuperInv, At
    <3> QED
      BY <2>1, <2>2, <2>4, <2>5, <3>1 DEF Safe, At
  <2> QED
    BY <2>1, <2>2, <2>3, <2>4, <2>5, SuperOfMove
<1>6. ASSUME NEW r \in Request, DropRoles(r) PROVE SuperInv'
  <2>0. PICK p \in Person : p = req[r].person
    BY <1>6, InProgress DEF DropRoles, At
  <2>1. /\ At(r, "drop") /\ UNCHANGED <<user, group, overlapped>>
        /\ granted' = [granted EXCEPT ![p] = granted[p] \ req[r].drop]
    BY <1>6, <2>0 DEF DropRoles
  <2>2. PICK q \in RequestState :
              /\ Put(r, q)
              /\ q.pc # "idle" => q.person = p
              /\ q.pc \notin {"guard", "disable"}
              /\ Sound(q)
              /\ q.drop = {}
              /\ \/ q.apps = {}
                 \/ q.apps = req[r].apps /\ q.wanted = req[r].wanted
    BY <1>6, <2>0, DropRolesPuts
  <2>3. ASSUME RemovingState(q) PROVE Removing(r) /\ q.person = p
    <3>1. q.pc # "idle"
      BY <2>2, <2>3, RemovingIsState DEF Sound
    <3> QED
      BY <2>2, <2>3, <3>1 DEF Removing, RemovingState, Demotes
  <2>4. ASSUME Removing(r), ~overlapped PROVE Left(p)
    BY <2>0, <2>1, <2>4 DEF SuperInv, Safe, At
  <2>5. CASE Super \notin req[r].drop
    <3>1. Supers \subseteq Supers'
      BY <1>0, <2>1, <2>5 DEF Supers, Effective, TypeOK
    <3>2. RemovingState(q) /\ ~overlapped => Safe(q) /\ q.person \in Person
      BY <2>2, <2>3, <2>4 DEF Safe
    <3> QED
      BY <2>1, <2>2, <2>3, <3>1, <3>2, SuperOfMove
  <2>6. CASE Super \in req[r].drop
    <3>1. Removing(r)
      BY <2>6 DEF Removing
    <3>2. \A s \in Supers : s # p => s \in Supers'
      BY <1>0, <2>1 DEF Supers, Effective, TypeOK
    <3>3. p \in group /\ user[p] = "ENABLED" => Left(p)' /\ p \in Supers'
      BY <2>1 DEF Left, Supers, Effective
    <3>4. ~overlapped => Another(p) \/ (Left(p)' /\ p \in Supers')
      BY <2>4, <3>1, <3>3 DEF Left
    <3> QED
      BY <2>1, <2>2, <2>3, <3>1, <3>2, <3>4, SuperOfRemoval
  <2> QED
    BY <2>5, <2>6
<1>7. ASSUME NEW r \in Request, NEW p \in Person, GuardDisable(r, p) PROVE SuperInv'
  <2>1. PICK q : q = Started("disable", p, {}, {}, FALSE, FALSE)
    OBVIOUS
  <2>2. q.pc = "disable" /\ q.person = p
    BY <2>1 DEF Started
  <2>3. Put(r, q) /\ UNCHANGED <<user, granted, group>> /\ Meets(r) /\ Supers # {p}
    BY <1>7, <2>1 DEF GuardDisable
  <2>4. Supers # {} => Another(p)
    BY <2>3 DEF Another
  <2>5. RemovingState(q) /\ (Supers # {} => Safe(q))
    BY <2>2, <2>4 DEF RemovingState, Safe, Left
  <2> QED
    BY <1>a, <2>2, <2>3, <2>5, SuperOfStart
<1>8. ASSUME NEW r \in Request, Disable(r) PROVE SuperInv'
  <2>0. PICK p \in Person : p = req[r].person
    BY <1>8, InProgress DEF Disable, At
  <2>1. /\ At(r, "disable") /\ UNCHANGED <<group, granted, overlapped>>
        /\ user' = [user EXCEPT ![p] = "DISABLED"]
    BY <1>8, <2>0 DEF Disable
  <2>2. PICK q \in RequestState : Put(r, q) /\ q.person = p /\ q.pc \in {"logout", "sweep"}
    BY <1>8, <2>0, DisablePuts
  <2>3. Removing(r)
    BY <2>1 DEF Removing
  <2>4. ~overlapped => Another(p)
    BY <2>0, <2>1, <2>3 DEF SuperInv, Safe, At
  <2>5. \A s \in Supers : s # p => s \in Supers'
    BY <1>0, <2>1 DEF Supers, Effective, TypeOK
  <2> QED
    BY <2>1, <2>2, <2>3, <2>4, <2>5, SuperOfRemoval
<1>9. ASSUME NEW r \in Request, NEW p \in Person, Enable(r, p) PROVE SuperInv'
  <2>1. /\ UNCHANGED <<granted, group, req, overlapped>>
        /\ user' = [user EXCEPT ![p] = "ENABLED"]
    BY <1>9 DEF Enable
  <2>2. \A x \in Person : user[x] = "ENABLED" => user'[x] = "ENABLED"
    BY <1>0, <2>1 DEF TypeOK
  <2>3. Supers \subseteq Supers'
    BY <2>1, <2>2 DEF Supers, Effective
  <2>4. Put(r, req[r])
    BY <1>0, <2>1 DEF Put, TypeOK
  <2>5. RemovingState(req[r]) => Removing(r) /\ req[r].person \in Person
    BY RemovingIsState, InProgress DEF TypeInv, Sound, At
  <2>6. PICK q : q = req[r]
    OBVIOUS
  <2> QED
    BY <2>1, <2>2, <2>3, <2>4, <2>5, <2>6, SuperOfMove DEF SuperInv
<1>10. ASSUME NEW r \in Request, NEW p \in Person, SignOut(r, p) PROVE SuperInv'
  <2>1. PICK q : q = Started("logout", p, {}, {}, FALSE, FALSE)
    OBVIOUS
  <2>2. q.pc = "logout" /\ q.person = p /\ q.drop = {} /\ q.apps = {}
    BY <2>1 DEF Started
  <2>3. Put(r, q) /\ UNCHANGED <<user, granted, group, overlapped>>
    BY <1>10, <2>1 DEF SignOut
  <2>4. ~RemovingState(q)
    BY <2>2, RemovingIsState
  <2> QED
    BY <1>a, <2>2, <2>3, <2>4, SuperOfMove
<1>11. ASSUME NEW r \in Request, LogoutElsewhere(r) PROVE SuperInv'
  <2>1. At(r, "logout") /\ UNCHANGED <<user, granted, group, overlapped>>
    BY <1>11 DEF LogoutElsewhere
  <2>2. PICK q \in RequestState :
              /\ Put(r, q) /\ q.person = req[r].person
              /\ q.pc \in {"logout", "sweep"} /\ q.drop = req[r].drop
              /\ q.apps = req[r].apps /\ q.wanted = req[r].wanted
    BY <1>11, DisablePuts
  <2>3. RemovingState(q) => Removing(r)
    BY <2>2 DEF Removing, RemovingState
  <2>4. ASSUME RemovingState(q), ~overlapped PROVE Safe(q) /\ q.person \in Person
    <3>1. Safe(req[r]) /\ req[r].person \in Person
      BY <2>1, <2>3, <2>4, InProgress DEF SuperInv, At
    <3> QED
      BY <2>1, <2>2, <3>1 DEF Safe, At
  <2> QED
    BY <1>a, <2>1, <2>2, <2>3, <2>4, SuperOfMove
<1>12. ASSUME NEW r \in Request, Sweep(r) \/ Fail(r) PROVE SuperInv'
  <2>1. Put(r, Idle) /\ UNCHANGED <<user, granted, group, overlapped>>
    BY <1>12 DEF Sweep, Fail, Done
  <2> QED
    BY <1>a, <2>1, RemovingIsState, SuperOfMove
<1>13. ASSUME NEW l \in Login,
              \/ \E p \in Person : IssueToken(l, p)
              \/ \E t \in Token : SignIn(l, t)
              \/ Abandon(l)
       PROVE  SuperInv'
  BY <1>b, <1>13 DEF IssueToken, SignIn, Abandon
<1>14. ASSUME NEW t \in Token, EndSession(t) PROVE SuperInv'
  BY <1>b, <1>14 DEF EndSession
<1>15. CASE UNCHANGED vars
  BY <1>b, <1>15 DEF vars
<1>16. ASSUME NEW r \in Request, Step(r) PROVE SuperInv'
  BY <1>1, <1>2, <1>3, <1>4, <1>5, <1>6, <1>7, <1>8, <1>9, <1>10, <1>11, <1>12, <1>16
     DEF Step
<1> QED
  BY <1>13, <1>14, <1>15, <1>16 DEF Next

(***************************************************************************)
(* An enabled SUPER_ADMIN remains in every behaviour in which no two       *)
(* requests that may take the role away are in progress together.          *)
(***************************************************************************)
THEOREM LastSuperAdmin == Spec => []SuperAdminRemains
<1>1. ASSUME Init PROVE SuperInv
  <2>1. \A r \in Request : ~Removing(r)
    BY <1>1, RemovingIsState DEF Init
  <2> QED
    BY <1>1, <2>1 DEF Init, SuperInv
<1>2. SuperInv => SuperAdminRemains
  BY DEF SuperInv, SuperAdminRemains
<1> QED
  BY <1>1, <1>2, TypeInit, TypeStep, SuperStep, PTL DEF Spec
=============================================================================
