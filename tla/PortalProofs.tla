----------------------------- MODULE PortalProofs -----------------------------
(***************************************************************************)
(* What holds of the web client, for any number of tabs, sessions, roles,  *)
(* filters, requests in progress and actions: a page that lists things     *)
(* shows what was asked for, a panel saves what was clicked, no session is *)
(* left behind that nobody can log out any more, and whoever turns all     *)
(* pages of a list, however long, has seen what was there.                 *)
(***************************************************************************)
EXTENDS PortalMC, FiniteSetTheorems, SequenceTheorems, WellFoundedInduction, TLAPS

-----------------------------------------------------------------------------
(* A page that lists things *)

(***************************************************************************)
(* While nothing went amiss the page waits for one thing at a time: a load *)
(* of what its controls say, or an action that was begun on complete rows. *)
(***************************************************************************)
OneAtATime ==
    /\ \A l, m \in ListLoad : load[l].pc # "idle" /\ load[m].pc # "idle" => l = m
    /\ \A l \in ListLoad :
          /\ load[l].pc # "idle" => load[l].of = filter /\ act.pc = "idle" /\ loading
          /\ load[l].pc = "served" => load[l].acts = acts
    /\ ListIdle /\ act.pc = "idle" => shown = [of |-> filter, acts |-> acts]

ListInv ==
    /\ ListTypeOK
    /\ act.pc = "sent" => acts < MaxAct
    /\ ~mishap => OneAtATime

\* Type correctness of a load that is sent.
LEMMA LoadsSound ==
    ASSUME ListInv, NEW f \in Filter, NEW l \in ListLoad, Loads(f, l)
    PROVE  /\ load' \in [ListLoad -> ListLoadState] /\ loading' = TRUE
           /\ load'[l] = [pc |-> "sent", of |-> f, acts |-> 0]
           /\ \A m \in ListLoad \ {l} : load'[m] = load[m]
           /\ ~ListIdle'
<1>1. 0 \in 0..MaxAct
    BY ActAssumption
<1>2. [pc |-> "sent", of |-> f, acts |-> 0] \in ListLoadState
    BY <1>1 DEF ListLoadState
<1>3. load \in [ListLoad -> ListLoadState]
    BY DEF ListInv, ListTypeOK
<1>4. /\ load' \in [ListLoad -> ListLoadState] /\ loading' = TRUE
      /\ load'[l] = [pc |-> "sent", of |-> f, acts |-> 0]
      /\ \A m \in ListLoad \ {l} : load'[m] = load[m]
    BY <1>2, <1>3 DEF Loads
<1> QED
    BY <1>4 DEF ListIdle

\* The first load after a pause is the only one.
LEMMA FirstLoad ==
    ASSUME ListInv, NEW f \in Filter, NEW l \in ListLoad, Loads(f, l), ListIdle,
           filter' = f, act'.pc = "idle"
    PROVE  OneAtATime'
<1>1. /\ load'[l] = [pc |-> "sent", of |-> f, acts |-> 0] /\ loading' = TRUE
      /\ \A m \in ListLoad \ {l} : load'[m] = load[m]
      /\ ~ListIdle'
    BY LoadsSound
<1>2. \A m \in ListLoad : load'[m].pc # "idle" => m = l
    BY <1>1 DEF ListIdle
<1> QED
    BY <1>1, <1>2 DEF OneAtATime

\* The end of a load leaves the other loads as they are.
LEMMA ListEndsSound ==
    ASSUME ListInv, NEW l \in ListLoad, ListEnds(l)
    PROVE  /\ load' \in [ListLoad -> ListLoadState] /\ loading' = FALSE
           /\ load'[l].pc = "idle"
           /\ \A m \in ListLoad \ {l} : load'[m] = load[m]
<1>1. load \in [ListLoad -> ListLoadState] /\ load[l] \in ListLoadState
    BY DEF ListInv, ListTypeOK
<1>2. load' = [load EXCEPT ![l] = [load[l] EXCEPT !.pc = "idle"]] /\ loading' = FALSE
    BY DEF ListEnds
<1>3. [load[l] EXCEPT !.pc = "idle"] \in ListLoadState /\ [load[l] EXCEPT !.pc = "idle"].pc = "idle"
    BY <1>1 DEF ListLoadState
<1> QED
    BY <1>1, <1>2, <1>3

\* Every step of a list page keeps ListInv.
LEMMA ListStep == ListInv /\ [ListNext]_listVars => ListInv'
<1> SUFFICES ASSUME ListInv, [ListNext]_listVars PROVE ListInv'
    OBVIOUS
<1>0. /\ filter \in Filter /\ shown \in [of: Filter, acts: 0..MaxAct] /\ acts \in 0..MaxAct
      /\ load \in [ListLoad -> ListLoadState] /\ act \in ActState
      /\ mishap \in BOOLEAN /\ loading \in BOOLEAN
      /\ ListIdle => ~loading
      /\ act.pc = "sent" => acts < MaxAct
      /\ ~mishap => OneAtATime
    BY DEF ListInv, ListTypeOK
<1>1. ASSUME NEW f \in Filter, NEW l \in ListLoad, Choose(f, l)
      PROVE  ListInv'
  <2>1. /\ filter' = f /\ Loads(f, l) /\ UNCHANGED <<shown, act, acts>>
        /\ mishap' = (~ListIdle \/ act.pc # "idle")
    BY <1>1 DEF Choose
  <2>2. ListTypeOK'
    BY <1>0, <2>1, LoadsSound DEF ListTypeOK
  <2>3. ~mishap' => OneAtATime'
    BY <2>1, FirstLoad
  <2> QED
    BY <1>0, <2>1, <2>2, <2>3 DEF ListInv
<1>2. ASSUME NEW l \in ListLoad, ListServed(l)
      PROVE  ListInv'
  <2>1. /\ load[l].pc = "sent" /\ load' = [load EXCEPT ![l].pc = "served", ![l].acts = acts]
        /\ UNCHANGED <<filter, shown, loading, act, acts, mishap>>
    BY <1>2 DEF ListServed
  <2>2. load[l] \in ListLoadState
    BY <1>0
  <2>3. /\ load'[l].pc = "served" /\ load'[l].acts = acts /\ load'[l].of = load[l].of
        /\ load'[l] \in ListLoadState
    BY <1>0, <2>1, <2>2 DEF ListLoadState
  <2>4. \A m \in ListLoad \ {l} : load'[m] = load[m]
    BY <1>0, <2>1
  <2>5. load' \in [ListLoad -> ListLoadState]
    BY <1>0, <2>1, <2>3, <2>4
  <2>6. ~ListIdle /\ ~ListIdle'
    BY <2>1, <2>3 DEF ListIdle
  <2>7. ListTypeOK'
    BY <1>0, <2>1, <2>5, <2>6 DEF ListTypeOK
  <2>8. OneAtATime => OneAtATime'
    BY <2>1, <2>3, <2>4, <2>6 DEF OneAtATime
  <2> QED
    BY <1>0, <2>1, <2>7, <2>8 DEF ListInv
<1>3. ASSUME NEW l \in ListLoad, ListAnswered(l)
      PROVE  ListInv'
  <2>1. /\ load[l].pc = "served" /\ shown' = [of |-> load[l].of, acts |-> load[l].acts]
        /\ ListEnds(l) /\ UNCHANGED <<filter, act, acts, mishap>>
    BY <1>3 DEF ListAnswered
  <2>2. /\ load' \in [ListLoad -> ListLoadState] /\ loading' = FALSE
        /\ load'[l].pc = "idle"
        /\ \A m \in ListLoad \ {l} : load'[m] = load[m]
    BY <2>1, ListEndsSound
  <2>3. load[l] \in ListLoadState
    BY <1>0
  <2>4. ListTypeOK'
    BY <1>0, <2>1, <2>2, <2>3 DEF ListTypeOK, ListLoadState
  <2>5. OneAtATime => OneAtATime'
    <3>1. SUFFICES ASSUME OneAtATime PROVE OneAtATime'
      OBVIOUS
    <3>2. \A m \in ListLoad : load'[m].pc = "idle"
      BY <2>1, <2>2, <3>1 DEF OneAtATime
    <3>3. shown' = [of |-> filter, acts |-> acts]
      BY <2>1, <3>1 DEF OneAtATime
    <3> QED
      BY <2>1, <3>2, <3>3 DEF OneAtATime
  <2> QED
    BY <1>0, <2>1, <2>4, <2>5 DEF ListInv
<1>4. ASSUME NEW l \in ListLoad, ListFails(l)
      PROVE  ListInv'
  <2>1. ListEnds(l) /\ mishap' = TRUE /\ UNCHANGED <<filter, shown, act, acts>>
    BY <1>4 DEF ListFails
  <2>2. load' \in [ListLoad -> ListLoadState] /\ loading' = FALSE
    BY <2>1, ListEndsSound
  <2>3. ListTypeOK'
    BY <1>0, <2>1, <2>2 DEF ListTypeOK
  <2> QED
    BY <1>0, <2>1, <2>3 DEF ListInv
<1>5. ASSUME NEW l \in ListLoad, ActAnswered(l)
      PROVE  ListInv'
  <2>1. /\ act' = [act EXCEPT !.pc = "idle"] /\ Loads(act.of, l)
        /\ mishap' = (mishap \/ ~ListIdle \/ act.of # filter)
        /\ UNCHANGED <<filter, shown, acts>>
    BY <1>5 DEF ActAnswered
  <2>2. act' \in ActState /\ act'.pc = "idle" /\ act.of \in Filter
    BY <1>0, <2>1 DEF ActState
  <2>3. ListTypeOK'
    BY <1>0, <2>1, <2>2, LoadsSound DEF ListTypeOK
  <2>4. ~mishap' => OneAtATime'
    BY <2>1, <2>2, FirstLoad
  <2> QED
    BY <2>2, <2>3, <2>4 DEF ListInv
<1>6. CASE PressAct
  <2>1. /\ acts < MaxAct /\ act' = [pc |-> "sent", of |-> filter]
        /\ mishap' = (mishap \/ ~ListIdle)
        /\ UNCHANGED <<filter, shown, loading, load, acts>>
    BY <1>6 DEF PressAct
  <2>2. ListTypeOK'
    BY <1>0, <2>1 DEF ListTypeOK, ActState, ListIdle
  <2>3. OneAtATime /\ ListIdle => OneAtATime'
    BY <2>1 DEF OneAtATime, ListIdle
  <2> QED
    BY <1>0, <2>1, <2>2, <2>3 DEF ListInv
<1>7. CASE ActServed
  <2>1. /\ act.pc = "sent" /\ act' = [act EXCEPT !.pc = "done"] /\ acts' = acts + 1
        /\ UNCHANGED <<filter, shown, loading, load, mishap>>
    BY <1>7 DEF ActServed
  <2>2. act' \in ActState /\ act'.pc = "done"
    BY <1>0, <2>1 DEF ActState
  <2>3. acts' \in 0..MaxAct
    BY <1>0, <2>1, ActAssumption
  <2>4. ListTypeOK'
    BY <1>0, <2>1, <2>2, <2>3 DEF ListTypeOK, ListIdle
  <2>5. OneAtATime => OneAtATime'
    BY <2>1, <2>2 DEF OneAtATime, ListIdle
  <2> QED
    BY <1>0, <2>1, <2>2, <2>4, <2>5 DEF ListInv
<1>8. CASE ActFails
  <2>1. /\ act' = [act EXCEPT !.pc = "idle"] /\ mishap' = TRUE
        /\ UNCHANGED <<filter, shown, loading, load, acts>>
    BY <1>8 DEF ActFails
  <2>2. act' \in ActState /\ act'.pc = "idle"
    BY <1>0, <2>1 DEF ActState
  <2>3. ListTypeOK'
    BY <1>0, <2>1, <2>2 DEF ListTypeOK, ListIdle
  <2> QED
    BY <2>1, <2>2, <2>3 DEF ListInv
<1>9. CASE UNCHANGED listVars
    BY <1>9 DEF listVars, ListInv, ListTypeOK, OneAtATime, ListIdle
<1> QED
    BY <1>1, <1>2, <1>3, <1>4, <1>5, <1>6, <1>7, <1>8, <1>9 DEF ListNext

\* A list page starts with one load of the filter it has.
LEMMA ListStart == ListInit => ListInv
<1> SUFFICES ASSUME ListInit PROVE ListInv
    OBVIOUS
<1>1. PICK first \in ListLoad :
          load = [l \in ListLoad |-> [pc |-> IF l = first THEN "sent" ELSE "idle",
                                      of |-> filter, acts |-> 0]]
    BY DEF ListInit
<1>2. /\ filter \in Filter /\ shown = [of |-> filter, acts |-> 0]
      /\ acts = 0 /\ act = [pc |-> "idle", of |-> filter] /\ mishap = FALSE
      /\ loading = TRUE /\ 0 \in 0..MaxAct
    BY ActAssumption DEF ListInit
<1>3. ~ListIdle
    BY <1>1 DEF ListIdle
<1>4. ListTypeOK
    BY <1>1, <1>2, <1>3 DEF ListTypeOK, ListLoadState, ActState
<1>5. OneAtATime
    BY <1>1, <1>2, <1>3 DEF OneAtATime
<1> QED
    BY <1>2, <1>4, <1>5 DEF ListInv

\* ListInv holds with any number of loads in progress.
THEOREM ListInvariant == ListSpec => []ListInv
    BY ListStart, ListStep, PTL DEF ListSpec

(***************************************************************************)
(* For any number of loads in progress, a page at rest shows the rows of   *)
(* what its controls say, unless loads crossed, one failed, or an action   *)
(* was in progress since the filter was last set (web/src/pages).          *)
(***************************************************************************)
THEOREM ShownAsked == ListSpec => []ShownIsAsked
<1>1. ListInv => ShownIsAsked
    BY DEF ListInv, ListTypeOK, ShownIsAsked, OneAtATime
<1> QED
    BY <1>1, ListInvariant, PTL
-----------------------------------------------------------------------------
(* The panel of the access page *)

\* A panel that started from the roles that are granted, and to which nothing
\* was done by others since, differs from them where boxes were clicked.
Tracks ==
    panel.for = "person" /\ ~since.stale =>
        /\ Differ(granted, panel.draft) \subseteq since.toggled
        /\ Differ(granted, panel.ticks) \subseteq since.toggled

\* So does the save that it sent.
SaveTracks ==
    fetch["save"].pc = "sent" /\ ~since.outdated =>
        Differ(granted, fetch["save"].roles) \subseteq since.meant

\* While nothing crossed, the one request in progress has the roles that are
\* granted, or leaves the row alone, which shows them.
OneByOne ==
    /\ \A f, g \in FetchName : Quiet(f) \/ Quiet(g) \/ f = g
    /\ AllQuiet \/ ~Quiet("account") \/ ~Quiet("invite") => row = granted
    /\ \A f \in FetchName \ {"invite"} : fetch[f].pc = "served" => fetch[f].roles = granted

PanelInv ==
    /\ PanelTypeOK
    /\ since.reopened \/ panel.draft = panel.ticks
    /\ Tracks /\ SaveTracks
    /\ ~since.crossed => OneByOne

\* The roles on which two sets of ticks differ are roles.
LEMMA DifferTyped ==
    ASSUME NEW a \in Ticks, NEW b \in Ticks
    PROVE  Differ(a, b) \in Ticks
    BY DEF Differ, Ticks

\* The access page starts with its first load.
LEMMA PanelStart == PanelInit => PanelInv
<1> SUFFICES ASSUME PanelInit PROVE PanelInv
    OBVIOUS
<1>0. PICK first \in Loading :
          fetch = [f \in FetchName |->
                       IF f = first THEN [NoFetch EXCEPT !.pc = "sent"] ELSE NoFetch]
    BY DEF PanelInit
<1>1. /\ granted \in Ticks /\ row = {} /\ view = "loading" /\ panel = Closed
      /\ fetch = [f \in FetchName |-> IF f = first THEN [pc |-> "sent", roles |-> {}] ELSE NoFetch]
      /\ since = [toggled |-> {}, reopened |-> FALSE, stale |-> FALSE, meant |-> {},
                  outdated |-> FALSE, crossed |-> FALSE]
    BY <1>0 DEF PanelInit, NoFetch
<1>2. {} \in Ticks
    BY DEF Ticks
<1>3. /\ \A f \in FetchName : fetch[f].pc = IF f = first THEN "sent" ELSE "idle"
      /\ first \in FetchName \ (Saving \cup {"account"})
    BY <1>1, LoadingAssumption DEF NoFetch, FetchName
<1>4. fetch \in [FetchName -> Fetch]
    BY <1>1, <1>2 DEF Fetch, NoFetch
<1>5. PanelTypeOK
    BY <1>1, <1>2, <1>3, <1>4
       DEF PanelTypeOK, View, Saving, FetchName, Quiet, Panel, Closed, Since
<1>6. Tracks /\ SaveTracks
    BY <1>1, <1>3 DEF Tracks, SaveTracks, Closed, FetchName, Saving
<1>7. OneByOne
    BY <1>3 DEF OneByOne, AllQuiet, Quiet, FetchName, Saving
<1> QED
    BY <1>1, <1>5, <1>6, <1>7 DEF PanelInv, Closed

\* A request that moves leaves the other requests as they are.
LEMMA SetsSound ==
    ASSUME PanelInv, NEW f \in FetchName, NEW pc \in {"idle", "sent", "served"},
           NEW roles \in Ticks, Sets(f, pc, roles)
    PROVE  /\ fetch' \in [FetchName -> Fetch]
           /\ fetch'[f] = [pc |-> pc, roles |-> roles]
           /\ \A g \in FetchName \ {f} : fetch'[g] = fetch[g] /\ (Quiet(g)' <=> Quiet(g))
           /\ Quiet(f)' <=> pc = "idle"
<1>1. fetch \in [FetchName -> Fetch]
    BY DEF PanelInv, PanelTypeOK
<1>2. [pc |-> pc, roles |-> roles] \in Fetch
    BY DEF Fetch
<1>3. fetch' = [fetch EXCEPT ![f] = [pc |-> pc, roles |-> roles]]
    BY DEF Sets
<1> QED
    BY <1>1, <1>2, <1>3 DEF Quiet
\* The parts of the invariant that a panel's own steps leave alone.
LEMMA FetchSame ==
    ASSUME PanelInv, UNCHANGED <<granted, row, view, fetch>>,
           since'.meant = since.meant, since'.outdated = since.outdated,
           since'.crossed = since.crossed
    PROVE  SaveTracks' /\ (~since'.crossed => OneByOne')
    BY DEF PanelInv, SaveTracks, OneByOne, AllQuiet, Quiet

\* A panel opens with the roles of the list, and its draft with the ticks.
LEMMA OpensStep ==
    ASSUME PanelInv, NEW for \in {"person", "other"}, NEW roles \in Ticks, Opens(for, roles),
           for = "person" => roles = row
    PROVE  PanelInv'
<1> DEFINE again == panel.for = for
<1>0. panel \in Panel /\ since \in Since /\ granted \in Ticks /\ row \in Ticks
    BY DEF PanelInv, PanelTypeOK
<1>1. /\ panel' = [for |-> for, draft |-> roles, ticks |-> IF again THEN panel.ticks ELSE roles]
      /\ since' = [since EXCEPT
             !.toggled = IF again THEN since.toggled ELSE {},
             !.reopened = again,
             !.stale = for = "person" /\ ((again /\ since.stale) \/ row # granted)]
      /\ UNCHANGED <<granted, row, view, fetch>>
    BY DEF Opens
<1>2. /\ since'.toggled = IF again THEN since.toggled ELSE {}
      /\ since'.reopened = again
      /\ since'.stale = (for = "person" /\ ((again /\ since.stale) \/ row # granted))
      /\ since'.meant = since.meant /\ since'.outdated = since.outdated
      /\ since'.crossed = since.crossed /\ since' \in Since
    BY <1>0, <1>1 DEF Since, Ticks
<1>3. panel' \in Panel
    BY <1>0, <1>1 DEF Panel
<1>4. PanelTypeOK'
    BY <1>1, <1>2, <1>3 DEF PanelInv, PanelTypeOK, Quiet
<1>5. Tracks'
  <2>1. SUFFICES ASSUME panel'.for = "person", ~since'.stale
                 PROVE  /\ Differ(granted, panel'.draft) \subseteq since'.toggled
                        /\ Differ(granted, panel'.ticks) \subseteq since'.toggled
    BY <1>1 DEF Tracks
  <2>2. for = "person" /\ row = granted /\ roles = granted /\ panel'.draft = granted
    BY <1>1, <1>2, <2>1
  <2>3. Differ(granted, granted) = {}
    BY DEF Differ
  <2>4. CASE again
    BY <1>1, <1>2, <2>1, <2>2, <2>3, <2>4 DEF PanelInv, Tracks
  <2>5. CASE ~again
    BY <1>1, <1>2, <2>2, <2>3, <2>5
  <2> QED
    BY <2>4, <2>5
<1>6. since'.reopened \/ panel'.draft = panel'.ticks
    BY <1>1, <1>2
<1> QED
    BY <1>1, <1>2, <1>4, <1>5, <1>6, FetchSame DEF PanelInv

\* A click changes one role of draft and ticks.
LEMMA ToggleStep ==
    ASSUME PanelInv, NEW r \in PanelRole, Toggle(r)
    PROVE  PanelInv'
<1> DEFINE new == Differ(panel.ticks, {r})
<1>0. panel \in Panel /\ since \in Since /\ granted \in Ticks /\ row \in Ticks
    BY DEF PanelInv, PanelTypeOK
<1>1. /\ panel.for # "nobody"
      /\ panel' = [panel EXCEPT !.ticks = new, !.draft = new]
      /\ since' = [since EXCEPT
             !.toggled = IF panel.for = "person" THEN since.toggled \cup {r} ELSE {},
             !.reopened = FALSE]
      /\ UNCHANGED <<granted, row, view, fetch>>
    BY DEF Toggle, Click
<1>2. new \in Ticks
    BY <1>0 DEF Differ, Ticks, Panel
<1>3. /\ panel' \in Panel /\ panel'.for = panel.for /\ panel'.draft = new /\ panel'.ticks = new
    BY <1>0, <1>1, <1>2 DEF Panel
<1>4. /\ since' \in Since
      /\ since'.toggled = IF panel.for = "person" THEN since.toggled \cup {r} ELSE {}
      /\ since'.meant = since.meant /\ since'.outdated = since.outdated
      /\ since'.crossed = since.crossed /\ since'.stale = since.stale
    BY <1>0, <1>1 DEF Since, Ticks
<1>5. PanelTypeOK'
    BY <1>1, <1>3, <1>4 DEF PanelInv, PanelTypeOK, Quiet
<1>6. Tracks'
  <2>1. SUFFICES ASSUME panel.for = "person", ~since.stale
                 PROVE  Differ(granted, new) \subseteq since.toggled \cup {r}
    BY <1>1, <1>3, <1>4 DEF Tracks
  <2>2. Differ(granted, panel.ticks) \subseteq since.toggled
    BY <2>1 DEF PanelInv, Tracks
  <2> QED
    BY <2>2 DEF Differ
<1> QED
    BY <1>1, <1>3, <1>4, <1>5, <1>6, FetchSame DEF PanelInv

\* What closing the panel leaves.
LEMMA Closing ==
    ASSUME PanelInv, panel' = Closed, since' = SinceClosed
    PROVE  /\ panel' \in Panel /\ since' \in Since /\ panel'.draft = panel'.ticks
           /\ since'.meant = since.meant /\ since'.outdated = since.outdated
           /\ since'.crossed = since.crossed
           /\ Tracks'
<1>1. since \in Since
    BY DEF PanelInv, PanelTypeOK
<1>2. {} \in Ticks
    BY DEF Ticks
<1> QED
    BY <1>1, <1>2 DEF Closed, Panel, SinceClosed, Since, Tracks

\* The panel closes.
LEMMA CancelStep ==
    ASSUME PanelInv, Cancel
    PROVE  PanelInv'
<1>1. panel' = Closed /\ since' = SinceClosed /\ UNCHANGED <<granted, row, view, fetch>>
    BY DEF Cancel
<1>2. PanelTypeOK'
    BY <1>1, Closing DEF PanelInv, PanelTypeOK, Quiet
<1> QED
    BY <1>1, <1>2, Closing, FetchSame DEF PanelInv
\* The parts of the invariant that a request alone leaves alone.
LEMMA TracksSame ==
    ASSUME PanelInv, UNCHANGED <<granted, panel>>, since'.toggled = since.toggled,
           since'.stale = since.stale, since'.reopened = since.reopened
    PROVE  Tracks' /\ (since'.reopened \/ panel'.draft = panel'.ticks)
    BY DEF PanelInv, Tracks

\* A request that leaves alone is the only one.
LEMMA SentAlone ==
    ASSUME PanelInv, NEW f \in FetchName, NEW roles \in Ticks, Sets(f, "sent", roles),
           AllQuiet, UNCHANGED <<granted, row>>, f \notin Loading => row = granted
    PROVE  OneByOne'
<1>1. /\ fetch'[f] = [pc |-> "sent", roles |-> roles]
      /\ \A g \in FetchName \ {f} : Quiet(g)'
      /\ ~Quiet(f)'
    BY SetsSound DEF AllQuiet
<1>2. \A g \in FetchName : fetch'[g].pc # "served"
    BY <1>1 DEF Quiet
<1>3. \A g \in FetchName : ~Quiet(g)' => g = f
    BY <1>1
<1>4. AllQuiet' \/ ~Quiet("account")' \/ ~Quiet("invite")' => f \notin Loading
    BY <1>1, LoadingAssumption DEF AllQuiet, FetchName, Saving
<1> QED
    BY <1>2, <1>3, <1>4 DEF OneByOne

\* A save sends the draft; no second one is sent meanwhile.
LEMMA SaveStep ==
    ASSUME PanelInv, Save
    PROVE  PanelInv'
<1> DEFINE f == SaveName
           roles == IF f = "save" THEN panel.draft ELSE {}
<1>0. /\ panel \in Panel /\ since \in Since /\ granted \in Ticks /\ row \in Ticks
      /\ f \in Saving /\ f \in FetchName /\ roles \in Ticks
      /\ f = "save" <=> panel.for = "person"
    BY DEF PanelInv, PanelTypeOK, SaveName, FetchName, Saving, Panel, Ticks
<1>1. /\ \A g \in Saving : Quiet(g)
      /\ Sets(f, "sent", roles) /\ UNCHANGED <<granted, row, view, panel>>
      /\ since' = [since EXCEPT !.meant = IF f = "save" THEN since.toggled ELSE {},
                                !.outdated = f = "save" /\ since.stale,
                                !.crossed = since.crossed \/ ~AllQuiet]
    BY DEF Save, PanelSends
<1>2. /\ since' \in Since
      /\ since'.toggled = since.toggled /\ since'.stale = since.stale
      /\ since'.reopened = since.reopened
      /\ since'.meant = IF f = "save" THEN since.toggled ELSE {}
      /\ since'.outdated = (f = "save" /\ since.stale)
      /\ since'.crossed = (since.crossed \/ ~AllQuiet)
    BY <1>0, <1>1 DEF Since, Ticks
<1>3. /\ fetch' \in [FetchName -> Fetch] /\ fetch'[f] = [pc |-> "sent", roles |-> roles]
      /\ \A g \in FetchName \ {f} : fetch'[g] = fetch[g] /\ (Quiet(g)' <=> Quiet(g))
    BY <1>0, <1>1, SetsSound
<1>4. \E g \in Saving : Quiet(g)'
    BY <1>0, <1>1, <1>3 DEF Saving, FetchName
<1>5. PanelTypeOK'
    BY <1>1, <1>2, <1>3, <1>4 DEF PanelInv, PanelTypeOK
<1>6. SaveTracks'
  <2>1. CASE f = "save"
    <3>1. /\ fetch'["save"].roles = panel.draft /\ since'.meant = since.toggled
          /\ since'.outdated = since.stale /\ granted' = granted
      <4>1. fetch'["save"].roles = panel.draft
        BY <1>3, <2>1
      <4>2. since.stale \in BOOLEAN
        BY <1>0 DEF Since
      <4> QED
        BY <1>1, <1>2, <2>1, <4>1, <4>2
    <3>2. ~since.stale => Differ(granted, panel.draft) \subseteq since.toggled
      BY <1>0, <2>1 DEF PanelInv, Tracks
    <3> QED
      BY <3>1, <3>2 DEF SaveTracks
  <2>2. CASE f # "save"
    BY <1>1, <1>3, <2>2 DEF SaveTracks, Quiet, Saving, FetchName
  <2> QED
    BY <2>1, <2>2
<1>7. ASSUME ~since'.crossed PROVE OneByOne'
  <2>1. AllQuiet /\ row = granted
    BY <1>2, <1>7 DEF PanelInv, OneByOne
  <2> QED
    BY <1>0, <1>1, <2>1, SentAlone
<1> QED
    BY <1>1, <1>2, <1>5, <1>6, <1>7, TracksSame DEF PanelInv

\* A load is sent.
LEMMA AskStep ==
    ASSUME PanelInv, NEW f \in FetchName, Ask(f)
    PROVE  PanelInv'
<1>0. /\ panel \in Panel /\ since \in Since /\ granted \in Ticks /\ row \in Ticks
      /\ view \in View /\ {} \in Ticks
    BY DEF PanelInv, PanelTypeOK, Ticks
<1>1. /\ f \notin Saving /\ Quiet(f) /\ Sets(f, "sent", {})
      /\ view' = IF f \in Loading THEN "loading" ELSE view
      /\ UNCHANGED <<granted, row, panel>>
      /\ since' = [since EXCEPT !.crossed = ~AllQuiet \/ (f \notin Loading /\ since.crossed)]
    BY DEF Ask
<1>2. /\ since' \in Since
      /\ since'.toggled = since.toggled /\ since'.stale = since.stale
      /\ since'.reopened = since.reopened
      /\ since'.meant = since.meant /\ since'.outdated = since.outdated
      /\ since'.crossed = (~AllQuiet \/ (f \notin Loading /\ since.crossed))
    BY <1>0, <1>1 DEF Since
<1>3. /\ fetch' \in [FetchName -> Fetch]
      /\ \A g \in FetchName \ {f} : fetch'[g] = fetch[g] /\ (Quiet(g)' <=> Quiet(g))
    BY <1>0, <1>1, SetsSound
<1>4. PanelTypeOK'
    BY <1>0, <1>1, <1>2, <1>3 DEF PanelInv, PanelTypeOK, View, Saving, FetchName
<1>5. SaveTracks'
    BY <1>1, <1>2, <1>3 DEF PanelInv, SaveTracks, Saving, FetchName
<1>6. ASSUME ~since'.crossed PROVE OneByOne'
  <2>1. AllQuiet /\ (f \notin Loading => row = granted)
    BY <1>2, <1>6 DEF PanelInv, OneByOne
  <2> QED
    BY <1>0, <1>1, <2>1, SentAlone
<1> QED
    BY <1>1, <1>2, <1>4, <1>5, <1>6, TracksSame DEF PanelInv

\* What is remembered when a request settles.
LEMMA SettledSound ==
    ASSUME PanelInv, NEW f \in FetchName
    PROVE  /\ Settled(f) \in Since /\ since \in Since
           /\ Settled(f).toggled = since.toggled /\ Settled(f).stale = since.stale
           /\ Settled(f).reopened = since.reopened /\ Settled(f).crossed = since.crossed
           /\ f # "save" => /\ Settled(f).meant = since.meant
                            /\ Settled(f).outdated = since.outdated
<1>1. since \in Since
    BY DEF PanelInv, PanelTypeOK
<1> QED
    BY <1>1 DEF Settled, Since, Ticks

\* The API reads or replaces the roles.
LEMMA ServedStep ==
    ASSUME PanelInv, NEW f \in FetchName, Served(f)
    PROVE  PanelInv'
<1>0. /\ panel \in Panel /\ since \in Since /\ granted \in Ticks /\ row \in Ticks
      /\ fetch[f] \in Fetch
    BY DEF PanelInv, PanelTypeOK
<1>1. /\ fetch[f].pc = "sent"
      /\ granted' = IF f = "save" THEN fetch[f].roles ELSE granted
      /\ Sets(f, "served", IF f = "invite" THEN {} ELSE granted')
      /\ since' = [Settled(f) EXCEPT
             !.stale = panel.for = "person" /\ (since.stale \/ granted' # granted)]
      /\ UNCHANGED <<row, view, panel>>
    BY DEF Served
<1>2. granted' \in Ticks /\ (IF f = "invite" THEN {} ELSE granted') \in Ticks
    BY <1>0, <1>1 DEF Fetch, Ticks
<1>3. /\ fetch' \in [FetchName -> Fetch]
      /\ fetch'[f] = [pc |-> "served", roles |-> IF f = "invite" THEN {} ELSE granted']
      /\ \A g \in FetchName \ {f} : fetch'[g] = fetch[g] /\ (Quiet(g)' <=> Quiet(g))
      /\ ~Quiet(f) /\ ~Quiet(f)'
    BY <1>1, <1>2, SetsSound DEF Quiet
<1>4. /\ since' \in Since
      /\ since'.toggled = since.toggled /\ since'.reopened = since.reopened
      /\ since'.crossed = since.crossed
      /\ since'.stale = (panel.for = "person" /\ (since.stale \/ granted' # granted))
      /\ f # "save" => since'.meant = since.meant /\ since'.outdated = since.outdated
  <2>1. /\ Settled(f) \in Since
        /\ Settled(f).toggled = since.toggled
        /\ Settled(f).reopened = since.reopened /\ Settled(f).crossed = since.crossed
        /\ f # "save" => /\ Settled(f).meant = since.meant
                         /\ Settled(f).outdated = since.outdated
    BY SettledSound
  <2>2. (panel.for = "person" /\ (since.stale \/ granted' # granted)) \in BOOLEAN
    OBVIOUS
  <2> QED
    BY <1>1, <2>1, <2>2 DEF Since
<1>5. PanelTypeOK'
    BY <1>1, <1>2, <1>3, <1>4 DEF PanelInv, PanelTypeOK, Saving, FetchName
<1>6. Tracks'
    BY <1>1, <1>4 DEF PanelInv, Tracks
<1>7. SaveTracks'
  <2>1. CASE f = "save"
    BY <1>3, <2>1 DEF SaveTracks
  <2>2. CASE f # "save"
    BY <1>1, <1>3, <1>4, <2>2 DEF PanelInv, SaveTracks, FetchName, Saving
  <2> QED
    BY <2>1, <2>2
<1>8. ASSUME ~since'.crossed PROVE OneByOne'
  <2>1. OneByOne
    BY <1>4, <1>8 DEF PanelInv
  <2>2. \A g \in FetchName : ~Quiet(g)' => g = f
    BY <1>3, <2>1 DEF OneByOne
  <2>3. ~AllQuiet /\ ~AllQuiet'
    BY <1>3 DEF AllQuiet
  <2>4. ~Quiet("account")' \/ ~Quiet("invite")' => row' = granted'
    <3>1. SUFFICES ASSUME f \in {"account", "invite"} PROVE row' = granted'
      BY <2>2 DEF FetchName, Saving
    <3> QED
      BY <1>1, <1>3, <2>1, <3>1 DEF OneByOne
  <2>5. \A g \in FetchName \ {"invite"} : fetch'[g].pc = "served" => fetch'[g].roles = granted'
    BY <1>3, <2>2 DEF Quiet
  <2> QED
    BY <2>2, <2>3, <2>4, <2>5 DEF OneByOne
<1>9. since'.reopened \/ panel'.draft = panel'.ticks
    BY <1>1, <1>4 DEF PanelInv
<1> QED
    BY <1>5, <1>6, <1>7, <1>8, <1>9 DEF PanelInv

\* An answer sets the row of the list.
LEMMA AnsweredStep ==
    ASSUME PanelInv, NEW f \in FetchName, Answered(f)
    PROVE  PanelInv'
<1>0. /\ panel \in Panel /\ since \in Since /\ granted \in Ticks /\ row \in Ticks
      /\ fetch[f] \in Fetch /\ view \in View /\ {} \in Ticks
    BY DEF PanelInv, PanelTypeOK, Ticks
<1>1. /\ fetch[f].pc = "served"
      /\ \/ f # "invite" /\ row' = fetch[f].roles
         \/ f \in {"invite", "account"} /\ row' = row
      /\ panel' = IF f \in Saving THEN Closed ELSE panel
      /\ view' = IF f \in Loading /\ view = "loading" THEN "shown" ELSE view
      /\ Sets(f, "idle", {})
      /\ since' = IF f \in Saving THEN SinceClosed ELSE since
      /\ granted' = granted
    BY DEF Answered
<1>2. /\ fetch' \in [FetchName -> Fetch]
      /\ fetch'[f] = [pc |-> "idle", roles |-> {}]
      /\ \A g \in FetchName \ {f} : fetch'[g] = fetch[g] /\ (Quiet(g)' <=> Quiet(g))
      /\ ~Quiet(f) /\ Quiet(f)'
    BY <1>0, <1>1, SetsSound DEF Quiet
<1>3. /\ panel' \in Panel /\ since' \in Since
      /\ since'.reopened \/ panel'.draft = panel'.ticks
      /\ since'.meant = since.meant /\ since'.outdated = since.outdated
      /\ since'.crossed = since.crossed
      /\ Tracks'
  <2>1. CASE f \in Saving
    BY <1>1, <2>1, Closing
  <2>2. CASE f \notin Saving
    BY <1>0, <1>1, <2>2, TracksSame DEF PanelInv
  <2> QED
    BY <2>1, <2>2
<1>4. row' \in Ticks
    BY <1>0, <1>1 DEF Fetch
<1>5. PanelTypeOK'
    BY <1>0, <1>1, <1>2, <1>3, <1>4 DEF PanelInv, PanelTypeOK, View, Saving, FetchName
<1>6. SaveTracks'
    BY <1>1, <1>2, <1>3 DEF PanelInv, SaveTracks, FetchName, Saving
<1>7. ASSUME ~since'.crossed PROVE OneByOne'
  <2>1. OneByOne
    BY <1>3, <1>7 DEF PanelInv
  <2>2. \A g \in FetchName : Quiet(g)'
    BY <1>2, <2>1 DEF OneByOne
  <2>3. row' = granted'
    BY <1>1, <1>2, <2>1 DEF OneByOne
  <2> QED
    BY <2>2, <2>3 DEF OneByOne, Quiet
<1> QED
    BY <1>3, <1>5, <1>6, <1>7 DEF PanelInv

\* An answer that is lost leaves the list as it was.
LEMMA FailsStep ==
    ASSUME PanelInv, NEW f \in FetchName, Fails(f)
    PROVE  PanelInv'
<1>1. /\ Sets(f, "idle", {}) /\ since' = [Settled(f) EXCEPT !.crossed = TRUE]
      /\ view' = IF f \in Loading THEN "error" ELSE view
      /\ UNCHANGED <<granted, row, panel>> /\ {} \in Ticks
    BY DEF Fails, Ticks
<1>2. /\ fetch' \in [FetchName -> Fetch]
      /\ fetch'[f] = [pc |-> "idle", roles |-> {}]
      /\ \A g \in FetchName \ {f} : fetch'[g] = fetch[g] /\ (Quiet(g)' <=> Quiet(g))
      /\ Quiet(f)'
    BY <1>1, SetsSound
<1>3. /\ Settled(f) \in Since
      /\ Settled(f).toggled = since.toggled /\ Settled(f).stale = since.stale
      /\ Settled(f).reopened = since.reopened
      /\ f # "save" => /\ Settled(f).meant = since.meant
                       /\ Settled(f).outdated = since.outdated
    BY SettledSound
<1>4. /\ since' \in Since /\ since'.crossed
      /\ since'.toggled = since.toggled /\ since'.stale = since.stale
      /\ since'.reopened = since.reopened
      /\ f # "save" => since'.meant = since.meant /\ since'.outdated = since.outdated
    BY <1>1, <1>3 DEF Since
<1>5. PanelTypeOK'
    BY <1>1, <1>2, <1>4 DEF PanelInv, PanelTypeOK, View, Saving, FetchName
<1>6. SaveTracks'
    BY <1>1, <1>2, <1>4 DEF PanelInv, SaveTracks, FetchName, Saving
<1> QED
    BY <1>1, <1>4, <1>5, <1>6, TracksSame DEF PanelInv

\* Another administrator's save makes the list and the panel out of date.
LEMMA OtherSavesStep ==
    ASSUME PanelInv, NEW roles \in Ticks, OtherSaves(roles)
    PROVE  PanelInv'
<1>0. since \in Since
    BY DEF PanelInv, PanelTypeOK
<1>1. /\ granted' = roles /\ UNCHANGED <<row, view, panel, fetch>>
      /\ since' = [since EXCEPT !.stale = panel.for = "person", !.outdated = ~Quiet("save"),
                                !.crossed = TRUE]
    BY DEF OtherSaves
<1>2. /\ since' \in Since /\ since'.crossed
      /\ since'.stale = (panel.for = "person") /\ since'.outdated = ~Quiet("save")
      /\ since'.reopened = since.reopened
    BY <1>0, <1>1 DEF Since, Quiet
<1>3. PanelTypeOK'
    BY <1>1, <1>2 DEF PanelInv, PanelTypeOK, Quiet
<1>4. Tracks' /\ SaveTracks'
    BY <1>1, <1>2 DEF Tracks, SaveTracks, Quiet
<1> QED
    BY <1>1, <1>2, <1>3, <1>4 DEF PanelInv

\* Every step of the access page keeps PanelInv.
LEMMA PanelStep == PanelInv /\ [PanelNext]_panelVars => PanelInv'
<1> SUFFICES ASSUME PanelInv, [PanelNext]_panelVars PROVE PanelInv'
    OBVIOUS
<1>1. CASE OpenOther
    BY <1>1, OpensStep DEF OpenOther, Ticks
<1>2. CASE OpenEdit
    BY <1>2, OpensStep DEF OpenEdit, PanelInv, PanelTypeOK
<1>3. CASE UNCHANGED panelVars
    BY <1>3 DEF panelVars, PanelInv, PanelTypeOK, Tracks, SaveTracks, OneByOne, AllQuiet, Quiet
<1> QED
    BY <1>1, <1>2, <1>3, CancelStep, SaveStep, ToggleStep, AskStep, ServedStep, AnsweredStep,
       FailsStep, OtherSavesStep DEF PanelNext

\* PanelInv holds of any roles and any number of requests in progress.
THEOREM PanelInvariant == PanelSpec => []PanelInv
    BY PanelStart, PanelStep, PTL DEF PanelSpec

(***************************************************************************)
(* For any roles and any number of requests in progress, what Save would   *)
(* send is what the boxes say, unless the panel's button was pressed again *)
(* meanwhile, and a page at rest shows the roles that are granted, unless  *)
(* answers crossed or got lost or somebody else saved (AdminAccess.tsx).   *)
(***************************************************************************)
THEOREM PanelTrue == PanelSpec => []PanelIsTrue
<1>1. PanelInv => PanelIsTrue
    BY DEF PanelInv, PanelIsTrue, OneByOne
<1> QED
    BY <1>1, PanelInvariant, PTL

(***************************************************************************)
(* A save changes no role whose box was not clicked, although it replaces  *)
(* all of the person's roles, unless they were changed behind the panel's  *)
(* back (onSave in AdminAccess.tsx, setRoles of the API).                  *)
(***************************************************************************)
THEOREM UntouchedStay == PanelSpec => UntouchedRolesStay
<1>1. PanelInv /\ [PanelNext]_panelVars =>
          [Served("save") =>
               since.outdated \/ Differ(granted, granted') \subseteq since.meant]_panelVars
    BY DEF PanelInv, SaveTracks, Served, FetchName, Saving
<1> QED
    BY <1>1, PanelInvariant, PTL DEF PanelSpec, UntouchedRolesStay
-----------------------------------------------------------------------------
(* The session of a browser with several tabs *)

\* What can be told from a request, whatever happened since it was sent: among
\* others, a cookie is cleared only for a session that has ended, and a log-out
\* that succeeded has ended its own, or failed to and counts as a mishap.
CallIsSound(s, c, active, lost) ==
    /\ c.kind # "none" => (c.kind = "me" <=> s = "me")
    /\ c.kind = "none" => c = NoCall
    /\ c.sent # NoCookie => c.csrf
    /\ c.token # NoCookie <=> c.kind = "login" /\ c.answer = "ok"
    /\ c.answer = "cleared" => c.sent \notin active
    /\ c.kind = "logout" /\ c.answer = "ok" => c.sent \notin active \ lost
    /\ c.answer = "denied" /\ c.kind \in {"me", "logout"} => c.sent = NoCookie

\* What holds of a tab's requests c and its status while nothing happened behind
\* its back: they went with the cookie that is still there, and what will be
\* made of their answers is true.
TabIsTrue(c, status, session, active) ==
    /\ \A s \in Slot :
          /\ c[s].kind # "none" => c[s].sent = session
          /\ c[s].token # NoCookie => c[s].token \in active
    /\ c["me"].kind # "none" =>
          /\ status = "initializing" /\ c["pressed"].kind # "page"
          /\ c["me"].answer = "ok" /\ c["pressed"].kind = "none" => session \in active
    /\ c["me"].kind = "none" /\ c["pressed"].kind # "logout" =>
          status = IF session \in active THEN "authenticated" ELSE "unauthenticated"
    /\ c["pressed"].kind = "page" => status = "authenticated"

WebInv ==
    /\ WebTypeOK
    /\ SessionIsHeld
    /\ \A t \in Tab, s \in Slot : CallIsSound(s, call[t][s], live, adrift)
    /\ \A t \in Tab \ doubt : TabIsTrue(call[t], ui[t], jar.session, live)
    /\ \A t \in left : ui[t] = "unauthenticated"

\* The types, as the lemmas below use them.
LEMMA WebTyped ==
    ASSUME WebInv
    PROVE  /\ jar.session \in Cookie \cup {NoCookie} /\ jar.csrf \in BOOLEAN
           /\ live \subseteq Cookie /\ adrift \subseteq live /\ NoCookie \notin live
           /\ call \in [Tab -> [Slot -> Call]]
           /\ \A t \in Tab, s \in Slot : call[t][s] \in Call
           /\ ui \in [Tab -> {"initializing", "authenticated", "unauthenticated"}]
           /\ doubt \subseteq Tab /\ left \subseteq Tab
           /\ jar.session # NoCookie => jar.csrf
    BY CookieAssumption DEF WebInv, WebTypeOK, SessionIsHeld

\* A slot without a request is sound whatever is remembered.
LEMMA NoCallSound ==
    ASSUME NEW s \in Slot, NEW active, NEW lost
    PROVE  /\ NoCall \in Call /\ NoCall.kind = "none" /\ NoCall.token = NoCookie
           /\ CallIsSound(s, NoCall, active, lost)
    BY DEF NoCall, Call, CallIsSound

\* A request carries the cookie that the browser has when it is sent.
LEMMA SendsSound ==
    ASSUME jar.session \in Cookie \cup {NoCookie}, jar.csrf \in BOOLEAN,
           jar.session # NoCookie => jar.csrf,
           NEW kind \in {"me", "login", "logout", "page"}
    PROVE  /\ Sends(kind) \in Call /\ Sends(kind).kind = kind
           /\ Sends(kind).sent = jar.session /\ Sends(kind).token = NoCookie
           /\ Sends(kind).answer = "due"
           /\ \A s \in Slot : (kind = "me" <=> s = "me") =>
                 \A active, lost : CallIsSound(s, Sends(kind), active, lost)
<1>1. /\ Sends(kind) \in Call /\ Sends(kind).kind = kind
      /\ Sends(kind).sent = jar.session /\ Sends(kind).token = NoCookie
      /\ Sends(kind).answer = "due" /\ Sends(kind).csrf = jar.csrf
    BY DEF Sends, NoCall, Call
<1> QED
    BY <1>1 DEF CallIsSound

\* A request stays sound while its session is not made anew.
LEMMA SoundLater ==
    ASSUME NEW s, NEW c, NEW active, NEW lost, CallIsSound(s, c, active, lost),
           NEW later, NEW gone,
           c.sent \in later => c.sent \in active,
           c.sent \in later \ gone => c.sent \in active \ lost
    PROVE  CallIsSound(s, c, later, gone)
    BY DEF CallIsSound

\* A tab of which nothing changed, when sessions of others begin.
LEMMA TabStays ==
    ASSUME NEW c, NEW status, NEW session, NEW active, TabIsTrue(c, status, session, active),
           NEW later, active \subseteq later, session \in later => session \in active
    PROVE  TabIsTrue(c, status, session, later)
    BY DEF TabIsTrue

\* One request of one tab is replaced by c.
Becomes(t, s, c) ==
    /\ call' \in [Tab -> [Slot -> Call]] /\ call'[t][s] = c
    /\ \A r \in Slot \ {s} : call'[t][r] = call[t][r]
    /\ \A u \in Tab \ {t} : call'[u] = call[u]

\* Replacing one request leaves those of the other slots and tabs.
LEMMA CallReplaced ==
    ASSUME WebInv, NEW t \in Tab, NEW s \in Slot, NEW c \in Call,
           call' = [call EXCEPT ![t][s] = c]
    PROVE  Becomes(t, s, c)
<1>1. call \in [Tab -> [Slot -> Call]] /\ call[t] \in [Slot -> Call]
    BY WebTyped
<1>2. call' = [call EXCEPT ![t] = [call[t] EXCEPT ![s] = c]]
    OBVIOUS
<1>3. [call[t] EXCEPT ![s] = c] \in [Slot -> Call]
    BY <1>1
<1> QED
    BY <1>1, <1>2, <1>3 DEF Becomes

\* So does answering one.
LEMMA CallAnswered ==
    ASSUME WebInv, NEW t \in Tab, NEW s \in Slot, NEW a \in {"ok", "denied", "cleared"},
           Answers(t, s, a)
    PROVE  /\ [call[t][s] EXCEPT !.answer = a] \in Call
           /\ Becomes(t, s, [call[t][s] EXCEPT !.answer = a])
<1>1. call[t][s] \in Call
    BY WebTyped
<1>2. [call[t][s] EXCEPT !.answer = a] \in Call
    BY <1>1 DEF Call
<1>3. call' = [call EXCEPT ![t][s] = [call[t][s] EXCEPT !.answer = a]]
    BY DEF Answers
<1> QED
    BY <1>2, <1>3, CallReplaced

\* The page of a tab is loaded anew.
LEMMA TabReplaced ==
    ASSUME WebInv, NEW t \in Tab, NEW m \in Call,
           call' = [call EXCEPT ![t] = [me |-> m, pressed |-> NoCall]]
    PROVE  /\ call' \in [Tab -> [Slot -> Call]]
           /\ call'[t]["me"] = m /\ call'[t]["pressed"] = NoCall
           /\ \A u \in Tab \ {t} : call'[u] = call[u]
<1>1. call \in [Tab -> [Slot -> Call]]
    BY WebTyped
<1>2. [me |-> m, pressed |-> NoCall] \in [Slot -> Call]
    BY NoCallSound DEF Slot
<1> QED
    BY <1>1, <1>2
\* The browser starts without sessions, each tab asking who it is.
LEMMA WebStart == WebInit => WebInv
<1> SUFFICES ASSUME WebInit PROVE WebInv
    OBVIOUS
<1>1. /\ jar = [session |-> NoCookie, csrf |-> FALSE]
      /\ live = {} /\ adrift = {} /\ doubt = {} /\ left = {}
      /\ ui = [t \in Tab |-> "initializing"]
      /\ call = [t \in Tab |-> [me |-> Sends("me"), pressed |-> NoCall]]
    BY DEF WebInit
<1>2. /\ Sends("me") \in Call /\ Sends("me").kind = "me"
      /\ Sends("me").sent = jar.session /\ Sends("me").token = NoCookie
      /\ Sends("me").answer = "due"
      /\ CallIsSound("me", Sends("me"), live, adrift)
    BY <1>1, SendsSound DEF Slot
<1>3. /\ NoCall \in Call /\ NoCall.kind = "none" /\ NoCall.token = NoCookie
      /\ CallIsSound("pressed", NoCall, live, adrift)
    BY NoCallSound DEF Slot
<1>4. [me |-> Sends("me"), pressed |-> NoCall] \in [Slot -> Call]
    BY <1>2, <1>3 DEF Slot
<1>5. /\ call \in [Tab -> [Slot -> Call]]
      /\ \A t \in Tab : call[t]["me"] = Sends("me") /\ call[t]["pressed"] = NoCall
    BY <1>1, <1>4
<1>6. WebTypeOK
    BY <1>1, <1>5 DEF WebTypeOK
<1>7. \A t \in Tab, s \in Slot : CallIsSound(s, call[t][s], live, adrift)
    BY <1>2, <1>3, <1>5 DEF Slot
<1>8. \A t \in Tab : TabIsTrue(call[t], ui[t], jar.session, live)
  <2> SUFFICES ASSUME NEW t \in Tab PROVE TabIsTrue(call[t], ui[t], jar.session, live)
    OBVIOUS
  <2>1. ui[t] = "initializing"
    BY <1>1
  <2> QED
    BY <1>2, <1>3, <1>5, <2>1 DEF TabIsTrue, Slot
<1> QED
    BY <1>1, <1>6, <1>7, <1>8 DEF WebInv, SessionIsHeld

\* A tab that is loaded asks who it is.
LEMMA LoadStep ==
    ASSUME WebInv, NEW t \in Tab, Load(t)
    PROVE  WebInv'
<1>0. /\ jar.session \in Cookie \cup {NoCookie} /\ jar.csrf \in BOOLEAN
      /\ live \subseteq Cookie /\ adrift \subseteq live /\ NoCookie \notin live
      /\ ui \in [Tab -> {"initializing", "authenticated", "unauthenticated"}]
      /\ doubt \subseteq Tab /\ left \subseteq Tab
    BY WebTyped
<1>1. /\ ui' = [ui EXCEPT ![t] = "initializing"]
      /\ call' = [call EXCEPT ![t] = [me |-> Sends("me"), pressed |-> NoCall]]
      /\ adrift' = adrift \cup (live \cap {call[t][s].token : s \in Slot})
      /\ doubt' = doubt \ {t} /\ left' = left \ {t} /\ UNCHANGED <<jar, live>>
    BY DEF Load
<1>2. /\ Sends("me") \in Call /\ Sends("me").kind = "me"
      /\ Sends("me").sent = jar.session /\ Sends("me").token = NoCookie
      /\ Sends("me").answer = "due"
      /\ CallIsSound("me", Sends("me"), live, adrift')
      /\ NoCall.kind = "none" /\ NoCall.token = NoCookie
      /\ CallIsSound("pressed", NoCall, live, adrift')
    BY SendsSound, WebTyped, NoCallSound DEF Slot
<1>3. /\ call' \in [Tab -> [Slot -> Call]]
      /\ call'[t]["me"] = Sends("me") /\ call'[t]["pressed"] = NoCall
      /\ \A u \in Tab \ {t} : call'[u] = call[u]
    BY <1>1, <1>2, TabReplaced
<1>4. WebTypeOK'
    BY <1>0, <1>1, <1>3 DEF WebInv, WebTypeOK
<1>5. SessionIsHeld'
  <2>1. SUFFICES ASSUME NEW k \in live \ adrift', jar.session # k
                 PROVE  \E u \in Tab, s \in Slot : call'[u][s].token = k
    BY <1>1 DEF WebInv, SessionIsHeld
  <2>2. PICK u \in Tab, s \in Slot : call[u][s].token = k
    BY <1>1, <2>1 DEF WebInv, SessionIsHeld
  <2>3. u # t
    BY <1>1, <2>1, <2>2
  <2> QED
    BY <1>3, <2>2, <2>3
<1>6. \A u \in Tab, s \in Slot : CallIsSound(s, call'[u][s], live', adrift')
  <2> SUFFICES ASSUME NEW u \in Tab, NEW s \in Slot
               PROVE  CallIsSound(s, call'[u][s], live', adrift')
    OBVIOUS
  <2>1. CASE u = t
    BY <1>1, <1>2, <1>3, <2>1 DEF Slot
  <2>2. CASE u # t
    <3>1. CallIsSound(s, call[u][s], live, adrift) /\ call'[u][s] = call[u][s]
      BY <1>3, <2>2 DEF WebInv
    <3> QED
      BY <1>1, <3>1, SoundLater
  <2> QED
    BY <2>1, <2>2
<1>7. \A u \in Tab \ doubt' : TabIsTrue(call'[u], ui'[u], jar'.session, live')
  <2> SUFFICES ASSUME NEW u \in Tab \ doubt'
               PROVE  TabIsTrue(call'[u], ui'[u], jar'.session, live')
    OBVIOUS
  <2>1. CASE u = t
    BY <1>0, <1>1, <1>2, <1>3, <2>1 DEF TabIsTrue, Slot
  <2>2. CASE u # t
    BY <1>0, <1>1, <1>3, <2>2 DEF WebInv
  <2> QED
    BY <2>1, <2>2
<1>8. \A u \in left' : ui'[u] = "unauthenticated"
    BY <1>0, <1>1 DEF WebInv
<1> QED
    BY <1>4, <1>5, <1>6, <1>7, <1>8 DEF WebInv

\* The return from the provider sets the cookies and loads the tab again.
LEMMA SsoReturnStep ==
    ASSUME WebInv, NEW t \in Tab, SsoReturn(t)
    PROVE  WebInv'
<1>0. /\ jar.session \in Cookie \cup {NoCookie} /\ jar.csrf \in BOOLEAN
      /\ live \subseteq Cookie /\ adrift \subseteq live /\ NoCookie \notin live
      /\ ui \in [Tab -> {"initializing", "authenticated", "unauthenticated"}]
      /\ doubt \subseteq Tab /\ left \subseteq Tab
    BY WebTyped
<1>a. PICK k \in Spare :
      /\ live' = live \cup {k} /\ jar' = [session |-> k, csrf |-> TRUE]
      /\ ui' = [ui EXCEPT ![t] = "initializing"]
      /\ call' = [call EXCEPT ![t] =
             [me |-> [NoCall EXCEPT !.kind = "me", !.sent = k, !.csrf = TRUE], pressed |-> NoCall]]
      /\ adrift' = adrift \cup (live \cap ({jar.session} \cup {call[t][s].token : s \in Slot}))
      /\ doubt' = Tab \ {t} /\ left' = left \ {t}
    BY DEF SsoReturn
<1>b. PICK m : m = [NoCall EXCEPT !.kind = "me", !.sent = k, !.csrf = TRUE]
    OBVIOUS
<1>c. k \in Cookie /\ k # NoCookie
    BY CookieAssumption DEF Spare
<1>2. /\ m \in Call /\ m.kind = "me" /\ m.sent = k /\ m.token = NoCookie /\ m.answer = "due"
      /\ m.csrf
    BY <1>b, <1>c DEF NoCall, Call
<1>d. CallIsSound("me", m, live', adrift')
    BY <1>2 DEF CallIsSound
<1>e. /\ NoCall.kind = "none" /\ NoCall.token = NoCookie
      /\ CallIsSound("pressed", NoCall, live', adrift')
    BY NoCallSound DEF Slot
<1>3. /\ call' \in [Tab -> [Slot -> Call]]
      /\ call'[t]["me"] = m /\ call'[t]["pressed"] = NoCall
      /\ \A u \in Tab \ {t} : call'[u] = call[u]
    BY <1>a, <1>b, <1>2, TabReplaced
<1>4. WebTypeOK'
    BY <1>0, <1>a, <1>c, <1>3 DEF WebInv, WebTypeOK
<1>5. SessionIsHeld'
  <2>1. SUFFICES ASSUME NEW j \in live' \ adrift', j # k
                 PROVE  \E u \in Tab, s \in Slot : call'[u][s].token = j
    BY <1>a DEF SessionIsHeld
  <2>2. PICK u \in Tab, s \in Slot : call[u][s].token = j
    BY <1>a, <2>1 DEF WebInv, SessionIsHeld
  <2>3. u # t
    BY <1>a, <2>1, <2>2
  <2> QED
    BY <1>3, <2>2, <2>3
<1>6. \A u \in Tab, s \in Slot : CallIsSound(s, call'[u][s], live', adrift')
  <2> SUFFICES ASSUME NEW u \in Tab, NEW s \in Slot
               PROVE  CallIsSound(s, call'[u][s], live', adrift')
    OBVIOUS
  <2>1. CASE u = t
    BY <1>d, <1>e, <1>3, <2>1 DEF Slot
  <2>2. CASE u # t
    <3>1. CallIsSound(s, call[u][s], live, adrift) /\ call'[u][s] = call[u][s]
      BY <1>3, <2>2 DEF WebInv
    <3>2. call[u][s].sent # k
      BY DEF Spare, InPlay
    <3> QED
      BY <1>a, <3>1, <3>2, SoundLater
  <2> QED
    BY <2>1, <2>2
<1>7. TabIsTrue(call'[t], ui'[t], jar'.session, live')
    BY <1>0, <1>a, <1>2, <1>e, <1>3 DEF TabIsTrue, Slot
<1>8. \A u \in left' : ui'[u] = "unauthenticated"
    BY <1>0, <1>a DEF WebInv
<1>9. Tab \ doubt' = {t}
    BY <1>a
<1> QED
    BY <1>4, <1>5, <1>6, <1>7, <1>8, <1>9 DEF WebInv
\* A tab that signs in, signs out or loads a page sends a request with the cookie of now.
LEMMA PressStep ==
    ASSUME WebInv, NEW t \in Tab, NEW kind \in {"login", "logout", "page"}, Press(t, kind)
    PROVE  WebInv'
<1>0. /\ jar.session \in Cookie \cup {NoCookie} /\ jar.csrf \in BOOLEAN
      /\ live \subseteq Cookie /\ adrift \subseteq live /\ NoCookie \notin live
      /\ doubt \subseteq Tab /\ left \subseteq Tab
    BY WebTyped
<1> DEFINE c == Sends(kind)
<1>1. /\ call[t]["pressed"].kind = "none"
      /\ kind = "login" <=> ui[t] # "authenticated"
      /\ call' = [call EXCEPT ![t].pressed = c]
      /\ doubt' = IF Silent(t, "me") /\ kind = "logout" THEN doubt \ {t} ELSE doubt
      /\ left' = IF kind = "login" THEN left \ {t} ELSE left
      /\ UNCHANGED <<jar, live, ui, adrift>>
    BY DEF Press, Silent
<1>2. /\ c \in Call /\ c.kind = kind /\ c.sent = jar.session /\ c.token = NoCookie
      /\ c.answer = "due" /\ CallIsSound("pressed", c, live, adrift)
  <2>1. \A s \in Slot : (kind = "me" <=> s = "me") =>
           \A active, lost : CallIsSound(s, Sends(kind), active, lost)
    BY <1>0, WebTyped, SendsSound
  <2>2. CallIsSound("pressed", Sends(kind), live, adrift)
    BY <2>1 DEF Slot
  <2> QED
    BY <1>0, <2>2, WebTyped, SendsSound
<1>3. Becomes(t, "pressed", c)
  <2>1. call' = [call EXCEPT ![t]["pressed"] = c]
    BY <1>1
  <2> QED
    BY <1>2, <2>1, CallReplaced DEF Slot
<1> HIDE DEF c
<1>4. call[t]["pressed"] = NoCall /\ call[t]["pressed"].token = NoCookie
  <2>1. CallIsSound("pressed", call[t]["pressed"], live, adrift)
    BY DEF WebInv, Slot
  <2> QED
    BY <1>1, <2>1, NoCallSound DEF CallIsSound, Slot
<1>5. WebTypeOK'
    BY <1>0, <1>1, <1>3 DEF WebInv, WebTypeOK, Becomes
<1>6. SessionIsHeld'
  <2>1. SUFFICES ASSUME NEW k \in live \ adrift, jar.session # k
                 PROVE  \E u \in Tab, s \in Slot : call'[u][s].token = k
    BY <1>1 DEF WebInv, SessionIsHeld
  <2>2. PICK u \in Tab, s \in Slot : call[u][s].token = k
    BY <2>1 DEF WebInv, SessionIsHeld
  <2>3. u # t \/ s # "pressed"
    BY <1>0, <1>4, <2>2
  <2> QED
    BY <1>3, <2>2, <2>3 DEF Becomes
<1>7. \A u \in Tab, s \in Slot : CallIsSound(s, call'[u][s], live', adrift')
    BY <1>1, <1>2, <1>3 DEF WebInv, Becomes
<1>8. \A u \in Tab \ doubt' : TabIsTrue(call'[u], ui'[u], jar'.session, live')
  <2> SUFFICES ASSUME NEW u \in Tab \ doubt'
               PROVE  TabIsTrue(call'[u], ui'[u], jar'.session, live')
    OBVIOUS
  <2>1. CASE u # t
    <3>1. TabIsTrue(call[u], ui[u], jar.session, live)
      BY <1>1, <2>1 DEF WebInv
    <3> QED
      BY <1>1, <1>3, <2>1, <3>1 DEF Becomes
  <2>2. CASE u = t
    <3>1. /\ call'[t]["pressed"] = c /\ call'[t]["me"] = call[t]["me"]
          /\ CallIsSound("me", call[t]["me"], live, adrift)
      BY <1>3 DEF WebInv, Becomes, Slot
    <3>2. CASE t \in doubt
      <4>1. call[t]["me"].kind = "none" /\ kind = "logout"
        BY <1>1, <2>2, <3>2 DEF Silent
      <4>2. call[t]["me"].token = NoCookie
        BY <3>1, <4>1 DEF CallIsSound, NoCall
      <4> QED
        BY <1>1, <1>2, <2>2, <3>1, <4>1, <4>2 DEF TabIsTrue, Slot
    <3>3. CASE t \notin doubt
      <4>1. TabIsTrue(call[t], ui[t], jar.session, live)
        BY <3>3 DEF WebInv
      <4>2. \A s \in Slot :
               /\ call'[t][s].kind # "none" => call'[t][s].sent = jar.session
               /\ call'[t][s].token # NoCookie => call'[t][s].token \in live
        BY <1>2, <3>1, <4>1 DEF TabIsTrue, Slot
      <4>3. call[t]["me"].kind # "none" => ui[t] = "initializing" /\ kind # "page"
        BY <1>1, <4>1 DEF TabIsTrue
      <4>4. call[t]["me"].kind = "none" =>
                ui[t] = IF jar.session \in live THEN "authenticated" ELSE "unauthenticated"
        BY <1>1, <4>1 DEF TabIsTrue
      <4> QED
        BY <1>1, <1>2, <2>2, <3>1, <4>2, <4>3, <4>4 DEF TabIsTrue
    <3> QED
      BY <3>2, <3>3
  <2> QED
    BY <2>1, <2>2
<1>9. \A u \in left' : ui'[u] = "unauthenticated"
    BY <1>1 DEF WebInv
<1> QED
    BY <1>5, <1>6, <1>7, <1>8, <1>9 DEF WebInv

\* The cookies after an answer.
LEMMA CookiesSound ==
    ASSUME WebInv, NEW s \in Slot, NEW c \in Call, CallIsSound(s, c, live, adrift)
    PROVE  /\ Cookies(c) \in [session: Cookie \cup {NoCookie}, csrf: BOOLEAN]
           /\ Cookies(c).session # NoCookie => Cookies(c).csrf
           /\ c.kind = "login" /\ c.answer = "ok" => Cookies(c).session = c.token
           /\ c.kind = "logout" /\ c.answer = "ok" => Cookies(c).session = NoCookie
           /\ c.answer = "cleared" => Cookies(c).session = NoCookie
           /\ c.answer # "cleared" /\ ~(c.kind \in {"login", "logout"} /\ c.answer = "ok") =>
                  Cookies(c) = jar
<1>1. /\ jar \in [session: Cookie \cup {NoCookie}, csrf: BOOLEAN]
      /\ jar.session # NoCookie => jar.csrf
      /\ c.token \in Cookie \cup {NoCookie}
    BY DEF WebInv, WebTypeOK, SessionIsHeld, Call
<1>2. CASE c.kind = "login" /\ c.answer = "ok"
    BY <1>1, <1>2 DEF Cookies
<1>3. CASE c.kind = "logout" /\ c.answer = "ok"
    BY <1>1, <1>3 DEF Cookies
<1>4. CASE c.answer = "cleared"
    BY <1>1, <1>4 DEF Cookies
<1>5. CASE c.answer # "cleared" /\ ~(c.kind \in {"login", "logout"} /\ c.answer = "ok")
    BY <1>1, <1>5 DEF Cookies
<1> QED
    BY <1>2, <1>3, <1>4, <1>5

\* An answer finds its tab, to which nothing happened, as AuthContext reads it.
LEMMA StatusSound ==
    ASSUME WebInv, NEW t \in Tab, NEW s \in Slot, Arrive(t, s),
           \A r \in Slot \ {s} : Silent(t, r),
           t \notin doubt \/ (call[t][s].kind = "login" /\ call[t][s].token \in live)
    PROVE  Status(t, call[t][s]) =
               IF Cookies(call[t][s]).session \in live THEN "authenticated" ELSE "unauthenticated"
<1>1. PICK c : c = call[t][s]
    OBVIOUS
<1>2. /\ c \in Call /\ c.kind # "none" /\ c.answer # "due" /\ NoCookie \notin live
      /\ CallIsSound(s, c, live, adrift)
    BY <1>1, WebTyped DEF Arrive, WebInv
<1>3. /\ c.kind = "login" /\ c.answer = "ok" => Cookies(c).session = c.token
      /\ c.kind = "logout" /\ c.answer = "ok" => Cookies(c).session = NoCookie
      /\ c.answer = "cleared" => Cookies(c).session = NoCookie
      /\ c.answer # "cleared" /\ ~(c.kind \in {"login", "logout"} /\ c.answer = "ok") =>
             Cookies(c) = jar
    BY <1>2, CookiesSound
<1>4. /\ c.kind \in {"me", "login", "logout", "page"}
      /\ c.answer \in {"ok", "denied", "cleared"}
    BY <1>2 DEF Call
<1>5. CASE c.kind = "login" /\ c.token \in live
    BY <1>1, <1>2, <1>3, <1>5 DEF Status, CallIsSound
<1>6. CASE t \notin doubt
  <2>1. TabIsTrue(call[t], ui[t], jar.session, live)
    BY <1>6 DEF WebInv
  <2>2. c.sent = jar.session /\ (c.token # NoCookie => c.token \in live)
    BY <1>1, <1>2, <2>1 DEF TabIsTrue
  <2>3. CASE c.kind = "me"
    <3>1. s = "me"
      BY <1>2, <2>3 DEF CallIsSound
    <3>2. c.answer = "ok" => jar.session \in live
      BY <1>1, <1>2, <2>1, <3>1 DEF TabIsTrue, Silent, Slot
    <3>3. c.answer = "denied" => jar.session = NoCookie
      BY <1>2, <2>2, <2>3 DEF CallIsSound
    <3> QED
      BY <1>1, <1>2, <1>3, <1>4, <2>3, <3>2, <3>3 DEF Status
  <2>4. CASE c.kind # "me"
    <3>1. s = "pressed" /\ call[t]["me"].kind = "none"
      BY <1>2, <2>4 DEF CallIsSound, Silent, Slot
    <3>2. c.kind # "logout" =>
              ui[t] = IF jar.session \in live THEN "authenticated" ELSE "unauthenticated"
      BY <1>1, <2>1, <3>1 DEF TabIsTrue
    <3>3. CASE c.kind = "logout"
      <4>1. c.answer = "denied" => jar.session = NoCookie
        BY <1>2, <2>2, <3>3 DEF CallIsSound
      <4> QED
        BY <1>1, <1>2, <1>3, <1>4, <3>3, <4>1 DEF Status
    <3>4. CASE c.kind = "login"
      <4>1. c.answer = "ok" => c.token \in live
        BY <1>2, <2>2, <3>4 DEF CallIsSound
      <4>2. c.answer = "cleared" => jar.session \notin live
        BY <1>2, <2>2 DEF CallIsSound
      <4> QED
        BY <1>1, <1>2, <1>3, <1>4, <3>2, <3>4, <4>1, <4>2 DEF Status
    <3>5. CASE c.kind = "page"
      <4>1. ui[t] = "authenticated" /\ jar.session \in live
        BY <1>1, <2>1, <3>1, <3>2, <3>5 DEF TabIsTrue
      <4>2. c.answer # "cleared"
        BY <1>2, <2>2, <4>1 DEF CallIsSound
      <4> QED
        BY <1>1, <1>3, <3>5, <4>1, <4>2 DEF Status
    <3> QED
      BY <1>4, <2>4, <3>3, <3>4, <3>5
  <2> QED
    BY <2>3, <2>4
<1> QED
    BY <1>1, <1>5, <1>6
\* An answer sets cookies and status as it says, whatever has changed since it was sent.
LEMMA ArriveStep ==
    ASSUME WebInv, NEW t \in Tab, NEW s \in Slot, Arrive(t, s)
    PROVE  WebInv'
<1>0. /\ live \subseteq Cookie /\ adrift \subseteq live /\ NoCookie \notin live
      /\ ui \in [Tab -> {"initializing", "authenticated", "unauthenticated"}]
      /\ doubt \subseteq Tab /\ left \subseteq Tab
    BY WebTyped
<1>a. PICK c : c = call[t][s]
    OBVIOUS
<1>1. /\ c.kind # "none" /\ c.answer # "due" /\ jar' = Cookies(c)
      /\ ui' = [ui EXCEPT ![t] = Status(t, c)]
      /\ call' = [call EXCEPT ![t][s] = NoCall]
      /\ adrift' = IF c.sent # jar.session \/ c.kind = "login"
                   THEN adrift \cup (live \cap ({jar.session} \ {Cookies(c).session}))
                   ELSE adrift
      /\ doubt' = (IF c.kind = "login" /\ c.token \in live THEN doubt \ {t} ELSE doubt)
                      \cup OthersDoubt(t, jar, Cookies(c))
                      \cup IF \A r \in Slot \ {s} : Silent(t, r) THEN {} ELSE {t}
      /\ left' = IF c.kind = "logout" THEN left \cup {t}
                 ELSE IF c.kind = "me" \/ c.kind = "login" THEN left \ {t} ELSE left
      /\ live' = live
    BY <1>a DEF Arrive
<1>2. c \in Call /\ CallIsSound(s, c, live, adrift)
    BY <1>a, WebTyped DEF WebInv
<1>3. /\ jar' \in [session: Cookie \cup {NoCookie}, csrf: BOOLEAN]
      /\ jar'.session # NoCookie => jar'.csrf
      /\ c.kind = "login" /\ c.answer = "ok" => jar'.session = c.token
      /\ c.kind = "logout" /\ c.answer = "ok" => jar'.session = NoCookie
      /\ c.answer = "cleared" => jar'.session = NoCookie
      /\ c.answer # "cleared" /\ ~(c.kind \in {"login", "logout"} /\ c.answer = "ok") =>
             jar' = jar
    BY <1>1, <1>2, CookiesSound
<1>4. Becomes(t, s, NoCall)
    BY <1>1, CallReplaced, NoCallSound
<1>5. Status(t, c) \in {"initializing", "authenticated", "unauthenticated"}
    BY <1>0 DEF Status
<1>6. doubt' \subseteq Tab
    BY <1>0, <1>1 DEF OthersDoubt
<1>7. WebTypeOK'
    BY <1>0, <1>1, <1>3, <1>4, <1>5, <1>6 DEF WebInv, WebTypeOK, Becomes
<1>8. SessionIsHeld'
  <2>1. SUFFICES ASSUME NEW k \in live \ adrift', jar'.session # k
                 PROVE  \E u \in Tab, r \in Slot : call'[u][r].token = k
    BY <1>1, <1>3 DEF SessionIsHeld
  <2>2. k \in live \ adrift /\ k # NoCookie
    BY <1>0, <1>1, <2>1
  <2>3. CASE jar.session = k
    <3>1. c.sent = k /\ c.kind # "login"
      BY <1>1, <2>1, <2>3
    <3>2. c.answer # "cleared" /\ ~(c.kind = "logout" /\ c.answer = "ok")
      BY <1>2, <2>2, <3>1 DEF CallIsSound
    <3> QED
      BY <1>3, <2>1, <2>3, <3>1, <3>2
  <2>4. CASE jar.session # k
    <3>1. PICK u \in Tab, r \in Slot : call[u][r].token = k
      BY <2>2, <2>4 DEF WebInv, SessionIsHeld
    <3>2. c.token # k
      BY <1>2, <1>3, <2>1, <2>2 DEF CallIsSound
    <3>3. u # t \/ r # s
      BY <1>a, <3>1, <3>2
    <3> QED
      BY <1>4, <3>1, <3>3 DEF Becomes
  <2> QED
    BY <2>3, <2>4
<1>9. \A u \in Tab, r \in Slot : CallIsSound(r, call'[u][r], live', adrift')
  <2> SUFFICES ASSUME NEW u \in Tab, NEW r \in Slot
               PROVE  CallIsSound(r, call'[u][r], live', adrift')
    OBVIOUS
  <2>1. CASE u = t /\ r = s
    BY <1>4, <2>1, NoCallSound DEF Becomes
  <2>2. CASE u # t \/ r # s
    <3>1. CallIsSound(r, call[u][r], live, adrift) /\ call'[u][r] = call[u][r]
      BY <1>4, <2>2 DEF WebInv, Becomes
    <3> QED
      BY <1>1, <3>1, SoundLater
  <2> QED
    BY <2>1, <2>2
<1>10. \A u \in Tab \ doubt' : TabIsTrue(call'[u], ui'[u], jar'.session, live')
  <2> SUFFICES ASSUME NEW u \in Tab \ doubt'
               PROVE  TabIsTrue(call'[u], ui'[u], jar'.session, live')
    OBVIOUS
  <2>1. CASE u # t
    <3>1. u \notin doubt /\ jar = jar'
      BY <1>1, <2>1 DEF OthersDoubt
    <3>2. TabIsTrue(call[u], ui[u], jar.session, live)
      BY <3>1 DEF WebInv
    <3> QED
      BY <1>0, <1>1, <1>4, <2>1, <3>1, <3>2 DEF Becomes
  <2>2. CASE u = t
    <3>1. /\ \A r \in Slot \ {s} : Silent(t, r)
          /\ t \notin doubt \/ (c.kind = "login" /\ c.token \in live)
      BY <1>1, <2>2
    <3>2. ui'[t] = IF jar'.session \in live THEN "authenticated" ELSE "unauthenticated"
      BY <1>0, <1>1, <1>a, <3>1, StatusSound
    <3>3. \A r \in Slot : call'[t][r].kind = "none" /\ call'[t][r].token = NoCookie
      <4> SUFFICES ASSUME NEW r \in Slot
                   PROVE  call'[t][r].kind = "none" /\ call'[t][r].token = NoCookie
        OBVIOUS
      <4>1. CASE r = s
        BY <1>4, <4>1, NoCallSound DEF Becomes
      <4>2. CASE r # s
        <5>1. call'[t][r] = call[t][r] /\ call[t][r].kind = "none"
          BY <1>4, <3>1, <4>2 DEF Becomes, Silent
        <5>2. CallIsSound(r, call[t][r], live, adrift)
          BY DEF WebInv
        <5> QED
          BY <5>1, <5>2, NoCallSound DEF CallIsSound
      <4> QED
        BY <4>1, <4>2
    <3> QED
      BY <1>1, <2>2, <3>2, <3>3 DEF TabIsTrue, Slot
  <2> QED
    BY <2>1, <2>2
<1>11. \A u \in left' : ui'[u] = "unauthenticated"
  <2> SUFFICES ASSUME NEW u \in left' PROVE ui'[u] = "unauthenticated"
    OBVIOUS
  <2>1. CASE u # t
    BY <1>0, <1>1, <2>1 DEF WebInv
  <2>2. CASE u = t
    BY <1>0, <1>1, <2>2 DEF WebInv, Status
  <2> QED
    BY <2>1, <2>2
<1> QED
    BY <1>7, <1>8, <1>9, <1>10, <1>11 DEF WebInv

\* An answer that is lost may have been a new session.
LEMMA LoseStep ==
    ASSUME WebInv, NEW t \in Tab, NEW s \in Slot, Lose(t, s)
    PROVE  WebInv'
<1>0. /\ live \subseteq Cookie /\ adrift \subseteq live /\ NoCookie \notin live
      /\ ui \in [Tab -> {"initializing", "authenticated", "unauthenticated"}]
      /\ doubt \subseteq Tab /\ left \subseteq Tab
    BY WebTyped
<1>a. PICK c : c = call[t][s]
    OBVIOUS
<1>b. PICK d : d = [c EXCEPT !.answer = "denied"]
    OBVIOUS
<1>1. /\ c.kind # "none"
      /\ ui' = [ui EXCEPT ![t] = Status(t, d)]
      /\ call' = [call EXCEPT ![t][s] = NoCall]
      /\ adrift' = adrift \cup (live \cap {c.token})
      /\ doubt' = doubt \cup {t}
      /\ left' = IF c.kind = "logout" THEN left \cup {t} ELSE left
      /\ UNCHANGED <<jar, live>>
    BY <1>a, <1>b DEF Lose
<1>2. c \in Call
    BY <1>a, WebTyped
<1>3. d.kind = c.kind /\ d.answer = "denied"
    BY <1>b, <1>2 DEF Call
<1>4. Becomes(t, s, NoCall)
    BY <1>1, CallReplaced, NoCallSound
<1>5. /\ Status(t, d) \in {"initializing", "authenticated", "unauthenticated"}
      /\ Status(t, d) \in {ui[t], "unauthenticated"}
      /\ c.kind = "logout" => Status(t, d) = "unauthenticated"
    BY <1>0, <1>3 DEF Status
<1>6. WebTypeOK'
    BY <1>0, <1>1, <1>4, <1>5 DEF WebInv, WebTypeOK, Becomes
<1>7. SessionIsHeld'
  <2>1. SUFFICES ASSUME NEW k \in live \ adrift', jar.session # k
                 PROVE  \E u \in Tab, r \in Slot : call'[u][r].token = k
    BY <1>1 DEF WebInv, SessionIsHeld
  <2>2. PICK u \in Tab, r \in Slot : call[u][r].token = k
    BY <1>1, <2>1 DEF WebInv, SessionIsHeld
  <2>3. u # t \/ r # s
    BY <1>a, <1>1, <2>1, <2>2
  <2> QED
    BY <1>4, <2>2, <2>3 DEF Becomes
<1>8. \A u \in Tab, r \in Slot : CallIsSound(r, call'[u][r], live', adrift')
  <2> SUFFICES ASSUME NEW u \in Tab, NEW r \in Slot
               PROVE  CallIsSound(r, call'[u][r], live', adrift')
    OBVIOUS
  <2>1. CASE u = t /\ r = s
    BY <1>4, <2>1, NoCallSound DEF Becomes
  <2>2. CASE u # t \/ r # s
    <3>1. CallIsSound(r, call[u][r], live, adrift) /\ call'[u][r] = call[u][r]
      BY <1>4, <2>2 DEF WebInv, Becomes
    <3> QED
      BY <1>1, <3>1, SoundLater
  <2> QED
    BY <2>1, <2>2
<1>9. \A u \in Tab \ doubt' : TabIsTrue(call'[u], ui'[u], jar'.session, live')
    BY <1>0, <1>1, <1>4 DEF WebInv, Becomes
<1>10. \A u \in left' : ui'[u] = "unauthenticated"
    BY <1>0, <1>1, <1>5 DEF WebInv
<1> QED
    BY <1>6, <1>7, <1>8, <1>9, <1>10 DEF WebInv
\* The API's answer, when no session begins or ends.
LEMMA AnswerStep ==
    ASSUME WebInv, NEW t \in Tab, NEW s \in Slot, NEW a \in {"ok", "denied", "cleared"},
           Answers(t, s, a), UNCHANGED <<jar, live, ui, left, doubt>>,
           adrift \subseteq adrift', adrift' \subseteq live,
           call[t][s].kind # "none", call[t][s].answer = "due",
           CallIsSound(s, [call[t][s] EXCEPT !.answer = a], live, adrift'),
           call[t][s].kind = "me" /\ a = "ok" => call[t][s].sent \in live
    PROVE  WebInv'
<1>1. PICK c : c = [call[t][s] EXCEPT !.answer = a]
    OBVIOUS
<1>2. call[t][s] \in Call
    BY WebTyped
<1>3. /\ c.kind = call[t][s].kind /\ c.sent = call[t][s].sent /\ c.answer = a
      /\ c.token = call[t][s].token
    BY <1>1, <1>2 DEF Call
<1>4. Becomes(t, s, c) /\ CallIsSound(s, c, live, adrift')
    BY <1>1, CallAnswered
<1>5. WebTypeOK'
    BY <1>4 DEF WebInv, WebTypeOK, Becomes
<1>6. SessionIsHeld'
  <2>1. \A u \in Tab, r \in Slot : call'[u][r].token = call[u][r].token
    BY <1>3, <1>4 DEF Becomes
  <2> QED
    BY <2>1 DEF WebInv, SessionIsHeld
<1>7. \A u \in Tab, r \in Slot : CallIsSound(r, call'[u][r], live', adrift')
  <2> SUFFICES ASSUME NEW u \in Tab, NEW r \in Slot
               PROVE  CallIsSound(r, call'[u][r], live, adrift')
    OBVIOUS
  <2>1. CASE u = t /\ r = s
    BY <1>4, <2>1 DEF Becomes
  <2>2. CASE u # t \/ r # s
    <3>1. CallIsSound(r, call[u][r], live, adrift) /\ call'[u][r] = call[u][r]
      BY <1>4, <2>2 DEF WebInv, Becomes
    <3> QED
      BY <3>1, SoundLater
  <2> QED
    BY <2>1, <2>2
<1>8. \A u \in Tab \ doubt : TabIsTrue(call'[u], ui[u], jar.session, live)
  <2> SUFFICES ASSUME NEW u \in Tab \ doubt
               PROVE  TabIsTrue(call'[u], ui[u], jar.session, live)
    OBVIOUS
  <2>1. TabIsTrue(call[u], ui[u], jar.session, live)
    BY DEF WebInv
  <2>2. CASE u # t
    BY <1>4, <2>1, <2>2 DEF Becomes
  <2>3. CASE u = t
    <3>1. \A r \in Slot : /\ call'[t][r].kind = call[t][r].kind
                          /\ call'[t][r].sent = call[t][r].sent
                          /\ call'[t][r].token = call[t][r].token
                          /\ r # s => call'[t][r] = call[t][r]
      BY <1>3, <1>4 DEF Becomes
    <3>a. TabIsTrue(call[t], ui[t], jar.session, live)
      BY <2>1, <2>3
    <3>b. "me" \in Slot /\ "pressed" \in Slot /\ s \in {"me", "pressed"}
      BY DEF Slot
    <3>2. ASSUME call'[t]["me"].kind # "none", call'[t]["me"].answer = "ok",
                 call'[t]["pressed"].kind = "none"
          PROVE  jar.session \in live
      <4>1. call[t]["me"].kind # "none" /\ call[t]["pressed"].kind = "none"
        BY <3>1, <3>2, <3>b
      <4>2. s = "me"
        BY <3>b, <4>1
      <4>3. call[t]["me"].kind = "me"
        BY <3>b, <4>1 DEF WebInv, CallIsSound
      <4>4. call[t]["me"].sent \in live
        BY <1>3, <1>4, <3>2, <4>2, <4>3 DEF Becomes
      <4>5. call[t]["me"].sent = jar.session
        BY <3>a, <3>b, <4>1 DEF TabIsTrue
      <4> QED
        BY <4>4, <4>5
    <3> QED
      BY <2>3, <3>1, <3>2, <3>a, <3>b DEF TabIsTrue
  <2> QED
    BY <2>2, <2>3
<1> QED
    BY <1>5, <1>6, <1>7, <1>8 DEF WebInv

\* The API grants the session k.
LEMMA GrantStep ==
    ASSUME WebInv, NEW t \in Tab, NEW s \in Slot, NEW k \in Spare,
           call[t][s].kind = "login", call[t][s].answer = "due",
           live' = live \cup {k},
           call' = [call EXCEPT ![t][s].answer = "ok", ![t][s].token = k],
           UNCHANGED <<jar, ui, left, doubt, adrift>>
    PROVE  WebInv'
<1>0. /\ live \subseteq Cookie /\ adrift \subseteq live /\ NoCookie \notin live
      /\ k \in Cookie /\ k # NoCookie /\ jar.session # k
      /\ \A u \in Tab, r \in Slot : call[u][r].sent # k
    BY WebTyped, CookieAssumption DEF Spare, InPlay
<1>1. PICK c : c = [[call[t][s] EXCEPT !.answer = "ok"] EXCEPT !.token = k]
    OBVIOUS
<1>2. call[t][s] \in Call
    BY WebTyped
<1>3. /\ c \in Call /\ c.kind = "login" /\ c.sent = call[t][s].sent /\ c.answer = "ok"
      /\ c.token = k /\ c.csrf = call[t][s].csrf
    BY <1>0, <1>1, <1>2 DEF Call
<1>4. Becomes(t, s, c)
  <2>1. call' = [call EXCEPT ![t][s] = c]
    BY <1>1, WebTyped
  <2> QED
    BY <1>3, <2>1, CallReplaced
<1>5. CallIsSound(s, c, live', adrift') /\ s = "pressed" /\ call[t][s].token = NoCookie
  <2>1. CallIsSound(s, call[t][s], live, adrift)
    BY DEF WebInv
  <2> QED
    BY <1>0, <1>3, <2>1 DEF CallIsSound, Slot
<1>6. WebTypeOK'
    BY <1>0, <1>4 DEF WebInv, WebTypeOK, Becomes
<1>7. SessionIsHeld'
  <2>1. SUFFICES ASSUME NEW j \in live' \ adrift, jar.session # j
                 PROVE  \E u \in Tab, r \in Slot : call'[u][r].token = j
    BY DEF WebInv, SessionIsHeld
  <2>2. CASE j = k
    BY <1>3, <1>4, <2>2 DEF Becomes
  <2>3. CASE j # k
    <3>1. j \in live \ adrift
      BY <2>1, <2>3
    <3>2. PICK u \in Tab, r \in Slot : call[u][r].token = j
      BY <2>1, <3>1 DEF WebInv, SessionIsHeld
    <3>3. u # t \/ r # s
      BY <1>0, <1>5, <3>1, <3>2
    <3> QED
      BY <1>4, <3>2, <3>3 DEF Becomes
  <2> QED
    BY <2>2, <2>3
<1>8. \A u \in Tab, r \in Slot : CallIsSound(r, call'[u][r], live', adrift')
  <2> SUFFICES ASSUME NEW u \in Tab, NEW r \in Slot
               PROVE  CallIsSound(r, call'[u][r], live', adrift')
    OBVIOUS
  <2>1. CASE u = t /\ r = s
    BY <1>4, <1>5, <2>1 DEF Becomes
  <2>2. CASE u # t \/ r # s
    <3>1. CallIsSound(r, call[u][r], live, adrift) /\ call'[u][r] = call[u][r]
      BY <1>4, <2>2 DEF WebInv, Becomes
    <3> QED
      BY <1>0, <3>1, SoundLater
  <2> QED
    BY <2>1, <2>2
<1>9. \A u \in Tab \ doubt : TabIsTrue(call'[u], ui[u], jar.session, live')
  <2> SUFFICES ASSUME NEW u \in Tab \ doubt
               PROVE  TabIsTrue(call'[u], ui[u], jar.session, live')
    OBVIOUS
  <2>1. TabIsTrue(call[u], ui[u], jar.session, live')
    <3>1. TabIsTrue(call[u], ui[u], jar.session, live)
      BY DEF WebInv
    <3> QED
      BY <1>0, <3>1, TabStays
  <2>2. CASE u # t
    BY <1>4, <2>1, <2>2 DEF Becomes
  <2>3. CASE u = t
    <3>1. call'[t]["me"] = call[t]["me"] /\ call'[t]["pressed"] = c
      BY <1>4, <1>5 DEF Becomes, Slot
    <3>2. TabIsTrue(call[t], ui[t], jar.session, live')
      BY <2>1, <2>3
    <3>3. call[t]["pressed"].kind = "login" /\ c.sent = call[t]["pressed"].sent
      BY <1>3, <1>5
    <3>4. \A r \in Slot : /\ call'[t][r].kind = call[t][r].kind
                          /\ call'[t][r].sent = call[t][r].sent
      BY <1>3, <3>1, <3>3 DEF Slot
    <3>5. \A r \in Slot : call'[t][r].token # NoCookie => call'[t][r].token \in live'
      <4>1. c.token \in live'
        BY <1>3
      <4>2. call[t]["me"].token # NoCookie => call[t]["me"].token \in live'
        BY <3>2 DEF TabIsTrue, Slot
      <4> QED
        BY <3>1, <4>1, <4>2 DEF Slot
    <3>6. "me" \in Slot /\ "pressed" \in Slot
      BY DEF Slot
    <3> QED
      BY <2>3, <3>1, <3>2, <3>3, <3>4, <3>5, <3>6 DEF TabIsTrue
  <2> QED
    BY <2>2, <2>3
<1> QED
    BY <1>6, <1>8, <1>9, <1>7 DEF WebInv

\* The API ends the session of a log-out.
LEMMA RevokeStep ==
    ASSUME WebInv, NEW t \in Tab, NEW s \in Slot,
           call[t][s].kind = "logout", call[t][s].sent \in live,
           live' = live \ {call[t][s].sent}, adrift' = adrift \ {call[t][s].sent},
           Answers(t, s, "ok"), UNCHANGED <<jar, ui, left>>,
           doubt' = doubt \cup (Tab \ {t})
    PROVE  WebInv'
<1>0. live \subseteq Cookie /\ adrift \subseteq live /\ NoCookie \notin live /\ doubt \subseteq Tab
    BY WebTyped
<1>1. PICK c : c = [call[t][s] EXCEPT !.answer = "ok"]
    OBVIOUS
<1>2. call[t][s] \in Call /\ CallIsSound(s, call[t][s], live, adrift)
    BY WebTyped DEF WebInv
<1>3. /\ c.kind = "logout" /\ c.sent = call[t][s].sent /\ c.answer = "ok"
      /\ c.token = call[t][s].token /\ c.csrf = call[t][s].csrf
    BY <1>1, <1>2 DEF Call
<1>4. Becomes(t, s, c)
    BY <1>1, CallAnswered
<1>5. CallIsSound(s, c, live', adrift') /\ s = "pressed" /\ c.token = NoCookie
    BY <1>2, <1>3 DEF CallIsSound, Slot
<1>6. WebTypeOK'
    BY <1>0, <1>4 DEF WebInv, WebTypeOK, Becomes
<1>7. SessionIsHeld'
  <2>1. \A u \in Tab, r \in Slot : call'[u][r].token = call[u][r].token
    BY <1>3, <1>4 DEF Becomes
  <2> QED
    BY <2>1 DEF WebInv, SessionIsHeld
<1>8. \A u \in Tab, r \in Slot : CallIsSound(r, call'[u][r], live', adrift')
  <2> SUFFICES ASSUME NEW u \in Tab, NEW r \in Slot
               PROVE  CallIsSound(r, call'[u][r], live', adrift')
    OBVIOUS
  <2>1. CASE u = t /\ r = s
    BY <1>4, <1>5, <2>1 DEF Becomes
  <2>2. CASE u # t \/ r # s
    <3>1. CallIsSound(r, call[u][r], live, adrift) /\ call'[u][r] = call[u][r]
      BY <1>4, <2>2 DEF WebInv, Becomes
    <3> QED
      BY <3>1, SoundLater
  <2> QED
    BY <2>1, <2>2
<1>9. t \notin doubt' => TabIsTrue(call'[t], ui[t], jar.session, live')
  <2> SUFFICES ASSUME t \notin doubt PROVE TabIsTrue(call'[t], ui[t], jar.session, live')
    OBVIOUS
  <2>1. TabIsTrue(call[t], ui[t], jar.session, live)
    BY DEF WebInv
  <2>2. call'[t]["me"] = call[t]["me"] /\ call'[t]["pressed"] = c
    BY <1>4, <1>5 DEF Becomes, Slot
  <2>3. call[t]["me"].token = NoCookie
    <3>1. CallIsSound("me", call[t]["me"], live, adrift)
      BY DEF WebInv, Slot
    <3> QED
      BY <3>1 DEF CallIsSound
  <2> QED
    BY <1>3, <1>5, <2>1, <2>2, <2>3 DEF TabIsTrue, Slot
<1>10. Tab \ doubt' \subseteq {t}
    OBVIOUS
<1> QED
    BY <1>6, <1>7, <1>8, <1>9, <1>10 DEF WebInv
\* A request is answered as requireAuth and the handler say.
LEMMA SessionServedStep ==
    ASSUME WebInv, NEW t \in Tab, NEW s \in Slot, SessionServed(t, s),
           call[t][s].kind \notin {"none", "login"}, call[t][s].answer = "due",
           doubt' = doubt \cup OthersDoubt(t, live, live \cap live'),
           UNCHANGED <<jar, ui, left>>
    PROVE  WebInv'
<1>0. /\ live \subseteq Cookie /\ adrift \subseteq live /\ NoCookie \notin live
      /\ doubt \subseteq Tab
      /\ call[t][s] \in Call /\ CallIsSound(s, call[t][s], live, adrift)
    BY WebTyped DEF WebInv
<1>1. ASSUME UNCHANGED live PROVE doubt' = doubt
    BY <1>1 DEF OthersDoubt
<1>2. ASSUME NEW a \in {"ok", "denied", "cleared"}
      PROVE  LET c == [call[t][s] EXCEPT !.answer = a] IN
             /\ c.kind = call[t][s].kind /\ c.sent = call[t][s].sent
             /\ c.answer = a /\ c.token = call[t][s].token /\ c.csrf = call[t][s].csrf
    BY <1>0 DEF Call
<1>3. CASE call[t][s].sent \notin live /\ UNCHANGED <<live, adrift>>
           /\ Answers(t, s, IF call[t][s].sent = NoCookie THEN "denied" ELSE "cleared")
  <2>1. PICK a : a = IF call[t][s].sent = NoCookie THEN "denied" ELSE "cleared"
    OBVIOUS
  <2>2. /\ a \in {"ok", "denied", "cleared"} /\ Answers(t, s, a) /\ a # "ok"
        /\ a = "denied" => call[t][s].sent = NoCookie
    BY <1>3, <2>1
  <2>3. CallIsSound(s, [call[t][s] EXCEPT !.answer = a], live, adrift)
    BY <1>0, <1>2, <1>3, <2>2 DEF CallIsSound
  <2> QED
    BY <1>0, <1>1, <1>3, <2>2, <2>3, AnswerStep
<1>4. CASE call[t][s].sent \in live /\ call[t][s].kind = "logout" /\ LogoutServed(t, s)
  <2>1. CASE /\ live' = live \ {call[t][s].sent} /\ adrift' = adrift \ {call[t][s].sent}
             /\ Answers(t, s, "ok")
    <3>1. doubt' = doubt \cup (Tab \ {t})
      <4>1. live # live \cap live'
        BY <1>4, <2>1
      <4> QED
        BY <4>1 DEF OthersDoubt
    <3> QED
      BY <1>4, <2>1, <3>1, RevokeStep
  <2>2. CASE adrift' = adrift \cup {call[t][s].sent} /\ Answers(t, s, "ok") /\ UNCHANGED live
    <3>1. CallIsSound(s, [call[t][s] EXCEPT !.answer = "ok"], live, adrift')
      BY <1>0, <1>2, <1>4, <2>2 DEF CallIsSound
    <3> QED
      BY <1>0, <1>1, <1>4, <2>2, <3>1, AnswerStep
  <2> QED
    BY <1>4, <2>1, <2>2 DEF LogoutServed
<1>5. CASE /\ call[t][s].sent \in live /\ call[t][s].kind # "logout"
           /\ Answers(t, s, "ok") /\ UNCHANGED <<live, adrift>>
  <2>1. CallIsSound(s, [call[t][s] EXCEPT !.answer = "ok"], live, adrift)
    BY <1>0, <1>2, <1>5 DEF CallIsSound
  <2> QED
    BY <1>0, <1>1, <1>5, <2>1, AnswerStep
<1> QED
    BY <1>3, <1>4, <1>5 DEF SessionServed

\* The API acts on the session that the request carried.
LEMMA ServeStep ==
    ASSUME WebInv, NEW t \in Tab, NEW s \in Slot, Serve(t, s)
    PROVE  WebInv'
<1>0. /\ live \subseteq Cookie /\ adrift \subseteq live
      /\ call[t][s] \in Call /\ CallIsSound(s, call[t][s], live, adrift)
    BY WebTyped DEF WebInv
<1>1. /\ call[t][s].kind # "none" /\ call[t][s].answer = "due"
      /\ doubt' = doubt \cup OthersDoubt(t, live, live \cap live')
      /\ UNCHANGED <<jar, ui, left>>
    BY DEF Serve
<1>2. ~Forged(call[t][s])
    BY <1>0 DEF Forged, CallIsSound
<1>3. CASE call[t][s].kind = "login" /\ LoginServed(t, s) /\ UNCHANGED adrift
  <2>1. live \subseteq live'
    BY <1>3 DEF LoginServed
  <2>2. doubt' = doubt
    BY <1>1, <2>1 DEF OthersDoubt
  <2>3. CASE Answers(t, s, "denied") /\ UNCHANGED live
    <3>1. PICK c : c = [call[t][s] EXCEPT !.answer = "denied"]
      OBVIOUS
    <3>2. /\ c.kind = call[t][s].kind /\ c.sent = call[t][s].sent /\ c.csrf = call[t][s].csrf
          /\ c.answer = "denied" /\ c.token = call[t][s].token
      BY <1>0, <3>1 DEF Call
    <3>3. CallIsSound(s, c, live, adrift)
      BY <1>0, <1>1, <1>3, <3>2 DEF CallIsSound
    <3> QED
      BY <1>0, <1>1, <1>3, <2>2, <2>3, <3>1, <3>3, AnswerStep
  <2>4. CASE \E k \in Spare :
                 /\ live' = live \cup {k}
                 /\ call' = [call EXCEPT ![t][s].answer = "ok", ![t][s].token = k]
    BY <1>1, <1>3, <2>2, <2>4, GrantStep
  <2> QED
    BY <1>3, <2>3, <2>4 DEF LoginServed
<1>4. CASE call[t][s].kind # "login" /\ SessionServed(t, s)
    BY <1>1, <1>4, SessionServedStep
<1> QED
    BY <1>2, <1>3, <1>4 DEF Serve

\* A session that ends by itself leaves every tab in doubt.
LEMMA SessionEndsStep ==
    ASSUME WebInv, NEW k \in Cookie, SessionEnds(k)
    PROVE  WebInv'
<1>1. /\ live' = live \ {k} /\ adrift' = adrift \ {k} /\ doubt' = Tab
      /\ UNCHANGED <<jar, ui, call, left>>
    BY DEF SessionEnds
<1>2. WebTypeOK' /\ SessionIsHeld'
    BY <1>1 DEF WebInv, WebTypeOK, SessionIsHeld
<1>3. \A t \in Tab, s \in Slot : CallIsSound(s, call'[t][s], live', adrift')
  <2> SUFFICES ASSUME NEW t \in Tab, NEW s \in Slot
               PROVE  CallIsSound(s, call[t][s], live', adrift')
    BY <1>1
  <2>1. CallIsSound(s, call[t][s], live, adrift)
    BY DEF WebInv
  <2> QED
    BY <1>1, <2>1, SoundLater
<1> QED
    BY <1>1, <1>2, <1>3 DEF WebInv

\* Every step of browser and API keeps WebInv.
LEMMA WebStep == WebInv /\ [WebNext]_webVars => WebInv'
<1> SUFFICES ASSUME WebInv, [WebNext]_webVars PROVE WebInv'
    OBVIOUS
<1>1. CASE UNCHANGED webVars
    BY <1>1 DEF webVars, WebInv, WebTypeOK, SessionIsHeld
<1> QED
    BY <1>1, LoadStep, SsoReturnStep, PressStep, ServeStep, ArriveStep, LoseStep,
       SessionEndsStep DEF WebNext

\* WebInv holds of any number of tabs and sessions.
THEOREM WebInvariant == WebSpec => []WebInv
    BY WebStart, WebStep, PTL DEF WebSpec

(***************************************************************************)
(* For any number of tabs and sessions, every live session is the one of   *)
(* the browser's cookie, or on its way to it, or was lost by one of the    *)
(* listed mishaps, and a browser with a session cookie has the other one,  *)
(* too: csrf.ts never takes a sign-in or a log-out for a forgery.          *)
(***************************************************************************)
THEOREM SessionHeld == WebSpec => []SessionIsHeld
<1>1. WebInv => SessionIsHeld
    BY DEF WebInv
<1> QED
    BY <1>1, WebInvariant, PTL

(***************************************************************************)
(* A tab with nothing outstanding shows the pages when the browser has a   *)
(* live session and the login form when not, unless something happened     *)
(* behind its back; after a log-out it does not show them in any case      *)
(* (AuthContext.tsx).                                                      *)
(***************************************************************************)
THEOREM StatusTrue == WebSpec => []StatusIsTrue
<1>1. ASSUME WebInv, NEW t \in Tab \ doubt, \A s \in Slot : Silent(t, s)
      PROVE  ui[t] = IF jar.session \in live THEN "authenticated" ELSE "unauthenticated"
  <2>1. TabIsTrue(call[t], ui[t], jar.session, live)
    BY <1>1 DEF WebInv
  <2> QED
    BY <1>1, <2>1 DEF TabIsTrue, Silent, Slot
<1>2. WebInv => StatusIsTrue
    BY <1>1 DEF WebInv, StatusIsTrue
<1> QED
    BY <1>2, WebInvariant, PTL

-----------------------------------------------------------------------------
(* The pages of a list *)

(***************************************************************************)
(* The rows before row i.  As long as nothing forbids it, what was not     *)
(* read has at least as many rows before it as were skipped and taken, and *)
(* what was read has fewer.                                                *)
(***************************************************************************)
Before(i) == {j \in rows : key[j] < key[i]}

Rank(i) == Cardinality(Before(i))

Taken == (IF "rows" \in reader.due THEN reader.page - 1 ELSE reader.page) * PageSize

Unseen == through \ seen

Complete ==
    /\ \A i \in Unseen : Rank(i) >= Taken
    /\ reader.due = {"rows"} => reader.total = Cardinality(rows)
    /\ reader.due = {} => \A i \in Unseen : reader.page * PageSize < reader.total

Apart ==
    /\ twice = {}
    /\ \A i \in rows \cap seen : Rank(i) < Taken

ByOffset == reader.by = "offset" => (MayMiss \/ Complete) /\ (MayRepeat \/ Apart)

\* By cursor everything up to the cursor was read, and nothing else.
ByCursor ==
    reader.by = "cursor" =>
        /\ twice = {} /\ reader.due \in {{}, {"rows"}}
        /\ reader.due = {"rows"} => reader.more /\ reader.page <= reader.after + 1
        /\ reader.more =>
              /\ \A i \in through : i <= reader.after => i \in seen
              /\ \A i \in seen : i <= reader.after
              /\ reader.due = {} => reader.page <= reader.after
        /\ ~reader.more => through \subseteq seen

PagingInv == PagingTypeOK /\ ByOffset /\ ByCursor

\* A set of rows is finite, and a subset of it has no more of them.
LEMMA ItemsFinite ==
    ASSUME NEW S \in SUBSET Item
    PROVE  /\ IsFiniteSet(S) /\ Cardinality(S) \in 0..MaxItem
           /\ \A T \in SUBSET S : Cardinality(T) <= Cardinality(S)
           /\ \A T \in SUBSET S : T # S => Cardinality(T) < Cardinality(S)
<1>1. IsFiniteSet(Item) /\ Cardinality(Item) = MaxItem
    BY FS_Interval, PagingAssumption DEF Item
<1>2. IsFiniteSet(S) /\ Cardinality(S) <= Cardinality(Item)
    BY <1>1, FS_Subset
<1>3. Cardinality(S) \in Nat
    BY <1>2, FS_CardinalityType
<1>4. ASSUME NEW T \in SUBSET S
      PROVE  /\ Cardinality(T) <= Cardinality(S)
             /\ T # S => Cardinality(T) < Cardinality(S)
  <2>1. IsFiniteSet(T) /\ Cardinality(T) <= Cardinality(S)
        /\ (Cardinality(S) = Cardinality(T) => S = T)
    BY <1>2, FS_Subset
  <2>2. Cardinality(T) \in Nat
    BY <2>1, FS_CardinalityType
  <2> QED
    BY <1>3, <2>1, <2>2
<1> QED
    BY <1>1, <1>2, <1>3, <1>4, PagingAssumption

\* Among sets of rows, one has no other inside it.
LEMMA SmallestSet ==
    ASSUME NEW S, S # {}, NEW F \in [S -> SUBSET Item]
    PROVE  \E i \in S : \A h \in S : ~(F[h] \subseteq F[i] /\ F[h] # F[i])
<1> DEFINE T == {F[i] : i \in S}
<1>1. T \subseteq FiniteSubsetsOf(Item) /\ T # {}
    BY ItemsFinite DEF FiniteSubsetsOf
<1>2. IsWellFoundedOn(StrictSubsetOrdering(Item), FiniteSubsetsOf(Item))
    BY FS_StrictSubsetOrderingWellFounded
<1> HIDE DEF T
<1>3. PICK x \in T : \A y \in T : <<y, x>> \notin StrictSubsetOrdering(Item)
    BY <1>1, <1>2, WFMin
<1>4. PICK i \in S : x = F[i]
    BY DEF T
<1>5. ASSUME NEW h \in S PROVE ~(F[h] \subseteq F[i] /\ F[h] # F[i])
  <2>1. F[h] \in T
    BY DEF T
  <2>2. <<F[h], F[i]>> \notin StrictSubsetOrdering(Item)
    BY <1>3, <1>4, <2>1
  <2>3. F[h] \in SUBSET Item /\ F[i] \in SUBSET Item
    OBVIOUS
  <2> QED
    BY <2>2, <2>3 DEF StrictSubsetOrdering
<1> QED
    BY <1>5

\* A set of rows that is not empty has a first and a last one.
LEMMA FirstAndLast ==
    ASSUME NEW S \in SUBSET Item, S # {}
    PROVE  /\ \E i \in S : \A j \in S : i <= j
           /\ \E i \in S : \A j \in S : j <= i
<1>0. \A i \in S : i \in Item /\ i \in Nat
    BY PagingAssumption DEF Item
<1>1. \E i \in S : \A j \in S : i <= j
  <2> DEFINE F == [i \in S |-> {j \in Item : j < i}]
  <2>1. F \in [S -> SUBSET Item]
    OBVIOUS
  <2>2. \A i \in S : F[i] = {j \in Item : j < i}
    OBVIOUS
  <2> HIDE DEF F
  <2>3. PICK i \in S : \A h \in S : ~(F[h] \subseteq F[i] /\ F[h] # F[i])
    BY <2>1, SmallestSet
  <2>4. ASSUME NEW h \in S, h < i PROVE FALSE
    <3>1. h \in F[i] /\ h \notin F[h]
      BY <1>0, <2>2, <2>4
    <3>2. \A j \in Item : j < h => j < i
      BY <1>0, <2>4, PagingAssumption DEF Item
    <3>3. F[h] \subseteq F[i]
      BY <2>2, <3>2
    <3> QED
      BY <2>3, <3>1, <3>3
  <2> QED
    BY <1>0, <2>4
<1>2. \E i \in S : \A j \in S : j <= i
  <2> DEFINE F == [i \in S |-> {j \in Item : j > i}]
  <2>1. F \in [S -> SUBSET Item]
    OBVIOUS
  <2>2. \A i \in S : F[i] = {j \in Item : j > i}
    OBVIOUS
  <2> HIDE DEF F
  <2>3. PICK i \in S : \A h \in S : ~(F[h] \subseteq F[i] /\ F[h] # F[i])
    BY <2>1, SmallestSet
  <2>4. ASSUME NEW h \in S, h > i PROVE FALSE
    <3>1. h \in F[i] /\ h \notin F[h]
      BY <1>0, <2>2, <2>4
    <3>2. \A j \in Item : j > h => j > i
      BY <1>0, <2>4, PagingAssumption DEF Item
    <3>3. F[h] \subseteq F[i]
      BY <2>2, <3>2
    <3> QED
      BY <2>3, <3>1, <3>3
  <2> QED
    BY <1>0, <2>4
<1> QED
    BY <1>1, <1>2

\* Without ties, a row stands where the rows before it say.
LEMMA PlaceIsRank ==
    ASSUME rows \in SUBSET Item, key \in [Item -> Item], ~Tied, NEW s \in Sorted
    PROVE  /\ Len(s) = Cardinality(rows)
           /\ \A n \in 1..Len(s) : s[n] \in rows /\ Rank(s[n]) = n - 1
           /\ \A i \in rows : \E n \in 1..Len(s) : s[n] = i
<1> DEFINE D == 1..Cardinality(rows)
<1>1. /\ IsFiniteSet(rows) /\ Cardinality(rows) \in Nat
    BY ItemsFinite
<1>2. /\ s \in [D -> rows]
      /\ \A m, n \in D : m # n => s[m] # s[n]
      /\ \A m, n \in 1..Len(s) : m < n => key[s[m]] <= key[s[n]]
    BY DEF Sorted, SetToSeqs
<1>0. \A i \in rows : key[i] \in Nat
  <2>1. \A i \in rows : key[i] \in Item
    OBVIOUS
  <2> QED
    BY <2>1, PagingAssumption DEF Item
<1>3. Len(s) = Cardinality(rows)
  <2>1. s \in Seq(rows)
    BY <1>1, <1>2, SeqDef
  <2>2. Len(s) \in Nat /\ DOMAIN s = 1..Len(s)
    BY <2>1, LenProperties
  <2> QED
    BY <1>1, <1>2, <2>2
<1>4. ASSUME NEW i \in rows PROVE \E n \in D : s[n] = i
  <2>1. s \in Injection(D, rows)
    BY <1>2 DEF Injection, IsInjective
  <2>2. IsFiniteSet(D) /\ Cardinality(D) = Cardinality(rows)
    BY <1>1, FS_Interval
  <2>3. s \in Surjection(D, rows)
    BY <1>1, <2>1, <2>2, FS_Injection
  <2> QED
    BY <2>3 DEF Surjection
<1>5. \A m, n \in D : m < n => key[s[m]] < key[s[n]]
  <2> SUFFICES ASSUME NEW m \in D, NEW n \in D, m < n PROVE key[s[m]] < key[s[n]]
    OBVIOUS
  <2>1. s[m] \in rows /\ s[n] \in rows /\ s[m] # s[n]
    BY <1>2
  <2>2. key[s[m]] # key[s[n]] /\ key[s[m]] \in Nat /\ key[s[n]] \in Nat
    BY <1>0, <2>1 DEF Tied
  <2>3. key[s[m]] <= key[s[n]]
    BY <1>2, <1>3
  <2> QED
    BY <2>2, <2>3
<1>6. ASSUME NEW n \in D PROVE Rank(s[n]) = n - 1
  <2> DEFINE f == [m \in 1..(n - 1) |-> s[m]]
  <2>0. s[n] \in rows /\ n \in Nat /\ 1..(n - 1) \subseteq D
    BY <1>1, <1>2
  <2>1. ASSUME NEW m \in 1..(n - 1) PROVE f[m] \in Before(s[n])
    <3>1. m \in D /\ m < n
      BY <1>1
    <3>2. s[m] \in rows /\ key[s[m]] < key[s[n]]
      BY <1>2, <1>5, <3>1
    <3> QED
      BY <3>2 DEF Before
  <2>2. ASSUME NEW i \in Before(s[n]) PROVE \E m \in 1..(n - 1) : f[m] = i
    <3>1. i \in rows /\ key[i] < key[s[n]]
      BY DEF Before
    <3>2. PICK m \in D : s[m] = i
      BY <1>4, <3>1
    <3>3. key[i] \in Nat /\ key[s[n]] \in Nat
      BY <1>0, <2>0, <3>1
    <3>4. m # n /\ ~(n < m)
      BY <1>5, <3>1, <3>2, <3>3
    <3>5. m \in 1..(n - 1)
      BY <1>1, <3>4
    <3> QED
      BY <3>2, <3>5
  <2>3. \A m1, m2 \in 1..(n - 1) : m1 # m2 => f[m1] # f[m2]
    BY <1>2, <2>0
  <2>4. f \in Bijection(1..(n - 1), Before(s[n]))
    BY <2>1, <2>2, <2>3 DEF Bijection, Injection, Surjection, IsInjective
  <2>5. IsFiniteSet(1..(n - 1)) /\ Cardinality(1..(n - 1)) = n - 1
    BY <2>0, FS_Interval
  <2>6. ExistsBijection(1..(n - 1), Before(s[n]))
    BY <2>4 DEF ExistsBijection
  <2> QED
    BY <2>5, <2>6, FS_Bijection DEF Rank
<1> QED
    BY <1>2, <1>3, <1>4, <1>6

\* What was taken after a page is a page more than before it.
LEMMA PageOfRows ==
    ASSUME NEW p \in Nat \ {0}
    PROVE  /\ p * PageSize \in Nat /\ (p - 1) * PageSize \in Nat
           /\ p * PageSize = (p - 1) * PageSize + PageSize
           /\ p <= p * PageSize
<1>1. PageSize \in Nat \ {0}
    BY PagingAssumption
<1>2. \A a, b \in Nat : a * b \in Nat
    OBVIOUS
<1>3. p - 1 \in Nat /\ PageSize - 1 \in Nat
    BY <1>1
<1>4. p * (PageSize - 1) \in Nat /\ (p - 1) * PageSize \in Nat /\ p * PageSize \in Nat
    BY <1>1, <1>2, <1>3
<1>5. p * PageSize = p * (PageSize - 1) + p
    BY <1>1
<1>6. p * PageSize = (p - 1) * PageSize + PageSize
    BY <1>1
<1> QED
    BY <1>4, <1>5, <1>6

\* The number of rows before a row, and of the rows taken.
LEMMA RankType ==
    ASSUME PagingTypeOK
    PROVE  /\ \A i \in rows : Rank(i) \in Nat /\ Rank(i) < Cardinality(rows)
           /\ Cardinality(rows) \in 0..MaxItem
           /\ Taken \in Nat /\ reader.page * PageSize \in Nat
           /\ \A i \in Item : key[i] \in Nat
<1>1. rows \in SUBSET Item /\ key \in [Item -> Item] /\ reader.page \in 1..(MaxItem + 1)
    BY DEF PagingTypeOK, Reader
<1>2. \A i \in Item : key[i] \in Nat
  <2>1. \A i \in Item : key[i] \in Item
    BY <1>1
  <2> QED
    BY <2>1, PagingAssumption DEF Item
<1>3. ASSUME NEW i \in rows PROVE Rank(i) \in Nat /\ Rank(i) < Cardinality(rows)
  <2>1. i \notin Before(i)
    BY <1>1, <1>2 DEF Before
  <2>2. Before(i) \in SUBSET rows /\ Before(i) # rows
    BY <2>1 DEF Before
  <2>3. Rank(i) \in 0..MaxItem
    BY <1>1, <2>2, ItemsFinite DEF Rank
  <2> QED
    BY <1>1, <2>2, <2>3, ItemsFinite, PagingAssumption DEF Rank
<1>4. Taken \in Nat /\ reader.page * PageSize \in Nat
  <2>1. reader.page \in Nat \ {0}
    BY <1>1, PagingAssumption
  <2> QED
    BY <2>1, PageOfRows DEF Taken
<1>5. Cardinality(rows) \in 0..MaxItem
    BY <1>1, ItemsFinite
<1> QED
    BY <1>2, <1>3, <1>4, <1>5

\* Types and counts of the start.
LEMMA PagingStart == PagingInit => PagingInv
<1> SUFFICES ASSUME PagingInit PROVE PagingInv
    OBVIOUS
<1>1. \A by \in {"offset", "cursor"} : Starts(by) \in Reader
    BY PagingAssumption DEF Starts, Reader
<1>2. PagingTypeOK
    BY <1>1 DEF PagingInit, PagingTypeOK
<1>3. ByCursor
  <2> SUFFICES ASSUME reader.by = "cursor" PROVE ByCursor
    BY DEF ByCursor
  <2>1. reader = Starts("cursor")
    BY DEF PagingInit, Starts
  <2>2. reader.due = {"rows"} /\ reader.more /\ reader.page = 1 /\ reader.after = 0
    BY <2>1 DEF Starts
  <2>3. \A i \in through : ~(i <= 0)
    BY PagingAssumption DEF PagingInit, Item
  <2> QED
    BY <2>2, <2>3 DEF PagingInit, ByCursor
<1>4. CASE reader = Starts("offset")
  <2>1. Taken = 0
    <3>1. reader.page = 1 /\ reader.due = {"count", "rows"}
      BY <1>4 DEF Starts
    <3> QED
      BY <3>1, PagingAssumption DEF Taken
  <2>2. Complete
    <3>1. reader.due = {"count", "rows"}
      BY <1>4 DEF Starts
    <3>2. \A i \in Unseen : Rank(i) \in Nat
      BY <1>2, RankType DEF PagingInit, Unseen
    <3>3. \A i \in Unseen : Rank(i) >= Taken
      BY <2>1, <3>2
    <3> QED
      BY <3>1, <3>3 DEF Complete
  <2>3. Apart
    BY DEF PagingInit, Apart
  <2> QED
    BY <1>2, <1>3, <2>2, <2>3 DEF PagingInv, ByOffset
<1>5. CASE reader = Starts("cursor")
    BY <1>2, <1>3, <1>5 DEF PagingInv, ByOffset, Starts
<1> QED
    BY <1>4, <1>5 DEF PagingInit

\* A step that leaves the rows and what they are sorted by leaves the ranks.
LEMMA SameRanks ==
    ASSUME UNCHANGED <<rows, key>>
    PROVE  \A i : Rank(i)' = Rank(i)
    BY DEF Rank, Before

\* A count tells how many rows there are, and that the unseen are past it.
LEMMA CountPageStep == PagingInv /\ CountPage => PagingInv'
<1> SUFFICES ASSUME PagingInv, CountPage PROVE PagingInv'
    OBVIOUS
<1>0. PagingTypeOK /\ reader \in Reader
    BY DEF PagingInv, PagingTypeOK
<1>1. /\ reader'.due = reader.due \ {"count"} /\ reader'.total = Cardinality(rows)
      /\ reader'.page = reader.page /\ reader'.by = reader.by
      /\ UNCHANGED <<rows, key, seen, twice, through, odd>>
    BY <1>0 DEF CountPage, Reader
<1>2. PagingTypeOK'
  <2>1. Cardinality(rows) \in 0..MaxItem
    BY <1>0, RankType
  <2>2. reader' \in Reader
    BY <1>0, <2>1 DEF CountPage, Reader
  <2> QED
    BY <1>0, <1>1, <2>2 DEF PagingTypeOK
<1>3. ByCursor'
    BY <1>1 DEF PagingInv, ByCursor, CountPage
<1>4. Taken' = Taken /\ Unseen' = Unseen /\ \A i : Rank(i)' = Rank(i)
    BY <1>1, SameRanks DEF Taken, Unseen
<1>5. Complete => Complete'
  <2> SUFFICES ASSUME Complete PROVE Complete'
    OBVIOUS
  <2>1. \A i \in Unseen : Rank(i) >= Taken /\ Rank(i) \in Nat /\ Rank(i) < Cardinality(rows)
    BY <1>0, RankType DEF Complete, Unseen, PagingTypeOK
  <2>2. ASSUME reader'.due = {}, NEW i \in Unseen
        PROVE  reader'.page * PageSize < reader'.total
    <3>1. Taken = reader.page * PageSize /\ Taken \in Nat /\ Cardinality(rows) \in Nat
      BY <1>0, <1>1, <2>2, RankType DEF Taken
    <3> QED
      BY <1>1, <2>1, <3>1
  <2> QED
    BY <1>1, <1>4, <2>1, <2>2 DEF Complete
<1>6. Apart => Apart'
    BY <1>1, <1>4 DEF Apart
<1> QED
    BY <1>1, <1>2, <1>3, <1>5, <1>6 DEF PagingInv, ByOffset, MayMiss, MayRepeat

\* A page by offset: of the rows in order those after the ones taken before.
LEMMA OffsetPageStep == PagingInv /\ OffsetPage => PagingInv'
<1> SUFFICES ASSUME PagingInv, OffsetPage PROVE PagingInv'
    OBVIOUS
<1>0. PagingTypeOK /\ reader \in Reader
    BY DEF PagingInv, PagingTypeOK
<1>1. /\ reader'.due = reader.due \ {"rows"} /\ reader'.total = reader.total
      /\ reader'.page = reader.page /\ reader'.by = reader.by /\ reader.by = "offset"
      /\ "rows" \in reader.due
      /\ odd' = (IF Tied THEN odd \cup {"tied"} ELSE odd)
      /\ UNCHANGED <<rows, key, through>>
    BY <1>0 DEF OffsetPage, Reader
<1>2. PICK s \in Sorted : Reads(Skip(s))
    BY DEF OffsetPage
<1> DEFINE first == (reader.page - 1) * PageSize + 1
           items == Skip(s)
<1>3. rows \in SUBSET Item /\ key \in [Item -> Item]
    BY <1>0 DEF PagingTypeOK
<1>4. items = {s[n] : n \in {n \in 1..Len(s) : first <= n /\ n < first + PageSize}}
    BY DEF Skip, Slice
<1>5. items \in SUBSET rows
  <2>1. s \in [1..Cardinality(rows) -> rows]
    BY DEF Sorted, SetToSeqs
  <2>2. Len(s) = Cardinality(rows)
    <3>1. s \in Seq(rows) /\ Cardinality(rows) \in Nat
      BY <1>3, <2>1, ItemsFinite, SeqDef
    <3>2. Len(s) \in Nat /\ DOMAIN s = 1..Len(s)
      BY <3>1, LenProperties
    <3> QED
      BY <2>1, <3>1, <3>2
  <2> QED
    BY <1>4, <2>1, <2>2
<1> HIDE DEF items
<1>6. seen' = seen \cup items /\ twice' = twice \cup (seen \cap items)
    BY <1>2 DEF Reads, items
<1>7. PagingTypeOK'
  <2>1. reader' \in Reader
    BY <1>0 DEF OffsetPage, Reader
  <2> QED
    BY <1>0, <1>1, <1>5, <1>6, <2>1 DEF PagingTypeOK
<1>8. ByCursor'
    BY <1>1 DEF ByCursor
<1>9. CASE Tied
    BY <1>1, <1>7, <1>8, <1>9 DEF PagingInv, ByOffset, MayMiss, MayRepeat
<1>10. CASE ~Tied
  <2>0. /\ reader.page \in Nat \ {0} /\ PageSize \in Nat \ {0}
        /\ \A i : Rank(i)' = Rank(i)
        /\ \A i \in rows : Rank(i) \in Nat /\ Rank(i) < Cardinality(rows)
        /\ Cardinality(rows) \in Nat
    BY <1>0, <1>1, PagingAssumption, RankType, SameRanks DEF Reader
  <2>1. /\ Taken = (reader.page - 1) * PageSize /\ Taken \in Nat
        /\ Taken' = Taken + PageSize /\ Taken' = reader.page * PageSize
    BY <1>1, <2>0, PageOfRows DEF Taken
  <2>2. \A i \in rows : i \in items <=> Taken <= Rank(i) /\ Rank(i) < Taken'
    <3> SUFFICES ASSUME NEW i \in rows
                 PROVE  i \in items <=> Taken <= Rank(i) /\ Rank(i) < Taken'
      OBVIOUS
    <3>1. /\ Len(s) = Cardinality(rows)
          /\ \A n \in 1..Len(s) : Rank(s[n]) = n - 1
      BY <1>3, <1>10, PlaceIsRank
    <3>2. PICK n \in 1..Len(s) : s[n] = i
      BY <1>3, <1>10, PlaceIsRank
    <3>3. Rank(i) = n - 1 /\ n \in Nat
      BY <2>0, <3>1, <3>2
    <3>4. i \in items <=> first <= n /\ n < first + PageSize
      <4>1. ASSUME NEW m \in 1..Len(s), s[m] = i PROVE m = n
        BY <2>0, <3>1, <3>3, <4>1
      <4> QED
        BY <1>4, <3>2, <4>1
    <3>5. first = Taken + 1
      BY <2>1
    <3> HIDE DEF first
    <3>6. Taken \in Nat /\ Taken' \in Nat /\ first + PageSize = Taken' + 1
      <4>1. Taken \in Nat /\ Taken' = Taken + PageSize /\ PageSize \in Nat
        BY <2>0, <2>1
      <4> QED
        BY <3>5, <4>1
    <3> QED
      BY <3>3, <3>4, <3>5, <3>6
  <2>3. Complete => Complete'
    <3> SUFFICES ASSUME Complete PROVE Complete'
      OBVIOUS
    <3>1. ASSUME NEW i \in through \ seen' PROVE Rank(i) >= Taken'
      <4>1. i \in Unseen /\ i \in rows /\ i \notin items
        BY <1>0, <1>6 DEF Unseen, PagingTypeOK
      <4>2. Rank(i) >= Taken
        BY <4>1 DEF Complete
      <4> QED
        BY <2>0, <2>1, <2>2, <4>1, <4>2
    <3>2. ASSUME reader'.due = {}, NEW i \in through \ seen'
          PROVE  reader'.page * PageSize < reader'.total
      <4>1. reader.due = {"rows"} /\ i \in rows
        BY <1>0, <1>1, <3>2 DEF PagingTypeOK
      <4>2. reader.total = Cardinality(rows)
        BY <4>1 DEF Complete
      <4> QED
        BY <1>1, <2>0, <2>1, <3>1, <3>2, <4>1, <4>2
    <3>3. reader'.due # {"rows"}
      BY <1>1
    <3> QED
      BY <1>1, <2>0, <3>1, <3>2, <3>3 DEF Complete, Unseen
  <2>4. Apart => Apart'
    <3> SUFFICES ASSUME Apart PROVE Apart'
      OBVIOUS
    <3>1. seen \cap items = {}
      BY <1>5, <2>0, <2>1, <2>2 DEF Apart
    <3>2. \A i \in rows \cap (seen \cup items) : Rank(i) < Taken'
      BY <2>0, <2>1, <2>2 DEF Apart
    <3> QED
      BY <1>1, <1>6, <2>0, <3>1, <3>2 DEF Apart
  <2> QED
    BY <1>1, <1>7, <1>8, <1>10, <2>3, <2>4 DEF PagingInv, ByOffset, MayMiss, MayRepeat
<1> QED
    BY <1>9, <1>10

\* A page by cursor: the next rows, and whether there are any after them.
LEMMA CursorPageStep == PagingInv /\ CursorPage => PagingInv'
<1> SUFFICES ASSUME PagingInv, CursorPage PROVE PagingInv'
    OBVIOUS
<1> DEFINE rest == {i \in rows : After(i)}
           items == {i \in rest : Cardinality({j \in rest : j < i}) < PageSize}
<1>0. /\ PagingTypeOK /\ reader \in Reader /\ reader.by = "cursor" /\ "rows" \in reader.due
      /\ rest \in SUBSET Item /\ items \subseteq rest /\ rest \subseteq rows
    BY DEF PagingInv, PagingTypeOK, CursorPage
<1>1. /\ Reads(items)
      /\ reader'.due = {} /\ reader'.more = (rest # items)
      /\ reader'.after =
            (IF items = {} THEN 0 ELSE CHOOSE i \in items : \A j \in items : j <= i)
      /\ reader'.page = reader.page /\ reader'.by = "cursor"
      /\ UNCHANGED <<rows, key, through, odd>>
    BY <1>0 DEF CursorPage, Reader
<1>2. /\ twice = {} /\ reader.more /\ reader.page <= reader.after + 1
      /\ \A i \in through : i <= reader.after => i \in seen
      /\ \A i \in seen : i <= reader.after
    BY <1>0 DEF PagingInv, ByCursor
<1>3. /\ \A i \in Item : i \in Nat
      /\ reader.page \in Nat \ {0} /\ reader.after \in Nat /\ PageSize \in Nat \ {0}
    BY <1>0, PagingAssumption DEF Item, Reader
<1>4. \A i \in rows : i \in rest <=> i > reader.after
    BY DEF After
<1>5. rest # {} => items # {}
  <2> SUFFICES ASSUME rest # {} PROVE items # {}
    OBVIOUS
  <2>1. PICK i \in rest : \A j \in rest : i <= j
    BY <1>0, FirstAndLast
  <2>2. {j \in rest : j < i} = {}
    BY <1>0, <1>3, <2>1
  <2>3. Cardinality({j \in rest : j < i}) = 0
    BY <2>2, FS_EmptySet
  <2> QED
    BY <1>3, <2>1, <2>3
<1>6. ASSUME NEW i \in rest, NEW m \in items, i <= m PROVE i \in items
  <2>1. {j \in rest : j < i} \in SUBSET {j \in rest : j < m}
    BY <1>0, <1>3, <1>6
  <2>2. {j \in rest : j < m} \in SUBSET Item /\ {j \in rest : j < i} \in SUBSET Item
    BY <1>0
  <2>3. Cardinality({j \in rest : j < i}) <= Cardinality({j \in rest : j < m})
    BY <2>1, <2>2, ItemsFinite
  <2>4. Cardinality({j \in rest : j < i}) \in Nat /\ Cardinality({j \in rest : j < m}) \in Nat
    <3>1. \A S \in SUBSET Item : Cardinality(S) \in Nat
      BY ItemsFinite, PagingAssumption
    <3> QED
      BY <2>2, <3>1
  <2> QED
    BY <1>3, <2>3, <2>4
<1> HIDE DEF rest, items
<1>7. items # {} => /\ reader'.after \in items
                    /\ \A j \in items : j <= reader'.after
    BY <1>0, <1>1, FirstAndLast
<1>8. seen' = seen \cup items /\ twice' = {}
  <2>1. seen \cap items = {}
    BY <1>0, <1>2, <1>3, <1>4 DEF PagingTypeOK
  <2> QED
    BY <1>1, <1>2, <2>1 DEF Reads
<1>9. PagingTypeOK'
  <2>1. reader'.after \in 0..MaxItem
    <3>1. CASE items = {}
      BY <1>1, <3>1, PagingAssumption
    <3>2. CASE items # {}
      <4>1. reader'.after \in Item
        BY <1>0, <1>7, <3>2
      <4> QED
        BY <4>1, PagingAssumption DEF Item
    <3> QED
      BY <3>1, <3>2
  <2>2. reader' = [reader EXCEPT !.due = {}, !.more = reader'.more, !.after = reader'.after]
    BY <1>0 DEF CursorPage, Reader
  <2>3. reader' \in Reader
    BY <1>0, <1>1, <2>1, <2>2 DEF Reader
  <2> QED
    BY <1>0, <1>1, <1>8, <2>3 DEF PagingTypeOK
<1>10. ASSUME reader'.more
       PROVE  /\ \A i \in through' : i <= reader'.after => i \in seen'
              /\ \A i \in seen' : i <= reader'.after
              /\ reader'.page <= reader'.after
  <2>1. items # {}
    BY <1>0, <1>1, <1>5, <1>10
  <2>2. reader'.after \in Nat /\ reader'.after > reader.after
    BY <1>0, <1>3, <1>4, <1>7, <2>1
  <2>3. ASSUME NEW i \in through, i <= reader'.after PROVE i \in seen \cup items
    <3>1. i \in rows /\ i \in Nat
      BY <1>0, <1>3 DEF PagingTypeOK
    <3>2. i <= reader.after \/ i \in rest
      BY <1>3, <1>4, <3>1
    <3> QED
      BY <1>2, <1>6, <1>7, <2>1, <2>3, <3>2
  <2>4. ASSUME NEW i \in seen \cup items PROVE i <= reader'.after
    <3>1. i \in Nat
      BY <1>0, <1>3 DEF PagingTypeOK
    <3> QED
      BY <1>2, <1>3, <1>7, <2>1, <2>2, <3>1
  <2> QED
    BY <1>1, <1>2, <1>3, <1>8, <2>2, <2>3, <2>4
<1>11. ~reader'.more => through' \subseteq seen'
  <2> SUFFICES ASSUME ~reader'.more, NEW i \in through PROVE i \in seen \cup items
    BY <1>1, <1>8
  <2>1. i \in rows /\ i \in Nat /\ rest = items
    BY <1>0, <1>1, <1>3 DEF PagingTypeOK
  <2> QED
    BY <1>2, <1>3, <1>4, <2>1
<1>12. ByCursor'
    BY <1>1, <1>8, <1>10, <1>11 DEF ByCursor
<1> QED
    BY <1>1, <1>9, <1>12 DEF PagingInv, ByOffset

\* Turning the page, as long as there is one.
LEMMA NextPageStep == PagingInv /\ NextPage => PagingInv'
<1> SUFFICES ASSUME PagingInv, NextPage PROVE PagingInv'
    OBVIOUS
<1>0. PagingTypeOK /\ reader \in Reader /\ reader.due = {} /\ ~LastPage
    BY DEF PagingInv, PagingTypeOK, NextPage
<1>1. /\ reader'.due = Starts(reader.by).due /\ reader'.page = reader.page + 1
      /\ reader'.by = reader.by /\ reader'.more = reader.more
      /\ reader'.after = reader.after /\ reader'.total = reader.total
      /\ UNCHANGED <<rows, key, seen, twice, through, odd>>
    BY <1>0 DEF NextPage, Reader
<1>2. /\ reader.page \in Nat \ {0} /\ PageSize \in Nat \ {0} /\ MaxItem \in Nat
      /\ reader.after \in 0..MaxItem /\ reader.total \in 0..MaxItem
      /\ reader.by \in {"offset", "cursor"}
    BY <1>0, PagingAssumption DEF Reader
<1>3. reader.page <= MaxItem
  <2>1. CASE reader.by = "offset"
    <3>1. reader.page * PageSize < reader.total
      BY <1>0, <1>2, <2>1, PageOfRows DEF LastPage
    <3> QED
      BY <1>2, <3>1, PageOfRows
  <2>2. CASE reader.by = "cursor"
    BY <1>0, <1>2, <2>2 DEF PagingInv, ByCursor, LastPage
  <2> QED
    BY <1>2, <2>1, <2>2
<1>4. PagingTypeOK'
  <2>1. Starts(reader.by).due \in SUBSET {"count", "rows"}
    BY DEF Starts
  <2>2. reader.page + 1 \in 1..(MaxItem + 1)
    BY <1>2, <1>3
  <2>3. reader' \in Reader
    BY <1>0, <2>1, <2>2 DEF NextPage, Reader
  <2> QED
    BY <1>0, <1>1, <2>3 DEF PagingTypeOK
<1>5. ByCursor'
  <2> SUFFICES ASSUME reader.by = "cursor" PROVE ByCursor'
    BY <1>1 DEF ByCursor
  <2>1. reader.more /\ reader'.due = {"rows"}
    BY <1>0, <1>1 DEF LastPage, Starts
  <2>2. /\ twice = {} /\ reader.page <= reader.after
        /\ \A i \in through : i <= reader.after => i \in seen
        /\ \A i \in seen : i <= reader.after
    BY <1>0, <2>1 DEF PagingInv, ByCursor
  <2>3. reader'.page <= reader'.after + 1
    BY <1>1, <1>2, <2>2
  <2> QED
    BY <1>1, <2>1, <2>2, <2>3 DEF ByCursor
<1>6. ASSUME reader.by = "offset"
      PROVE  /\ reader'.due = {"count", "rows"} /\ Taken' = Taken
             /\ \A i : Rank(i)' = Rank(i)
  <2>1. reader'.due = {"count", "rows"}
    BY <1>1, <1>6 DEF Starts
  <2>2. reader'.page - 1 = reader.page
    BY <1>1, <1>2
  <2> QED
    BY <1>0, <1>1, <2>1, <2>2, SameRanks DEF Taken
<1>7. reader.by = "offset" => (Complete => Complete') /\ (Apart => Apart')
    BY <1>1, <1>6 DEF Complete, Apart, Unseen
<1> QED
    BY <1>1, <1>4, <1>5, <1>7 DEF PagingInv, ByOffset, MayMiss, MayRepeat

\* Beginning again at the first page.
LEMMA ReadAgainStep == PagingInv /\ ReadAgain => PagingInv'
<1> SUFFICES ASSUME PagingInv, ReadAgain PROVE PagingInv'
    OBVIOUS
<1>0. PagingTypeOK /\ reader.by \in {"offset", "cursor"}
    BY DEF PagingInv, PagingTypeOK, Reader
<1>1. /\ reader' = Starts(reader.by) /\ seen' = {} /\ twice' = {} /\ through' = rows
      /\ odd' = {} /\ UNCHANGED <<rows, key>>
    BY DEF ReadAgain
<1>2. reader'.by = reader.by /\ reader'.page = 1 /\ reader'.after = 0 /\ reader'.more
    BY <1>1 DEF Starts
<1>3. PagingTypeOK'
  <2>1. Starts(reader.by) \in Reader
    BY <1>0, PagingAssumption DEF Starts, Reader
  <2> QED
    BY <1>0, <1>1, <2>1 DEF PagingTypeOK
<1>4. ByCursor'
  <2> SUFFICES ASSUME reader.by = "cursor" PROVE ByCursor'
    BY <1>2 DEF ByCursor
  <2>1. reader'.due = {"rows"}
    BY <1>1 DEF Starts
  <2>2. \A i \in rows : ~(i <= 0)
    BY <1>0, PagingAssumption DEF PagingTypeOK, Item
  <2> QED
    BY <1>1, <1>2, <2>1, <2>2 DEF ByCursor
<1>5. reader.by = "offset" => Complete' /\ Apart'
  <2> SUFFICES ASSUME reader.by = "offset" PROVE Complete' /\ Apart'
    OBVIOUS
  <2>1. reader'.due = {"count", "rows"}
    BY <1>1 DEF Starts
  <2>2. Taken' = 0
    BY <1>2, <2>1, PagingAssumption DEF Taken
  <2>3. \A i \in rows : Rank(i)' \in Nat
    BY <1>0, <1>1, RankType, SameRanks
  <2> QED
    BY <1>1, <2>1, <2>2, <2>3 DEF Complete, Apart, Unseen
<1> QED
    BY <1>2, <1>3, <1>4, <1>5 DEF PagingInv, ByOffset

\* A row that is added only moves rows back.
LEMMA InsertStep ==
    ASSUME PagingInv, NEW i \in Item, NEW k \in Item, Insert(i, k)
    PROVE  PagingInv'
<1>0. PagingTypeOK
    BY DEF PagingInv
<1>1. /\ i \notin rows /\ rows' = rows \cup {i} /\ key' = [key EXCEPT ![i] = k]
      /\ odd' = odd \cup {"inserted"} \cup Split
      /\ UNCHANGED <<reader, seen, twice, through>>
    BY DEF Insert
<1>2. PagingTypeOK'
  <2>1. Split \in SUBSET {"split"}
    BY DEF Split
  <2> QED
    BY <1>0, <1>1, <2>1 DEF PagingTypeOK
<1>3. ByCursor'
    BY <1>1 DEF PagingInv, ByCursor
<1>4. ASSUME reader.by = "offset", ~MayMiss' PROVE Complete'
  <2>1. Complete /\ reader.due \notin {{"count"}, {"rows"}}
    BY <1>1, <1>4 DEF PagingInv, ByOffset, MayMiss, Split
  <2>2. Taken' = Taken
    BY <1>1 DEF Taken
  <2>3. ASSUME NEW j \in Unseen PROVE Rank(j)' >= Taken
    <3>1. j \in rows /\ j # i /\ rows \in SUBSET Item /\ key \in [Item -> Item]
      BY <1>0, <1>1 DEF Unseen, PagingTypeOK
    <3>2. \A h \in rows : h \in rows' /\ key'[h] = key[h]
      BY <1>1, <3>1
    <3>3. Before(j) \in SUBSET Before(j)' /\ Before(j)' \in SUBSET Item
      BY <1>2, <3>1, <3>2 DEF Before, PagingTypeOK
    <3>4. Rank(j) <= Rank(j)' /\ Rank(j) \in Nat /\ Rank(j)' \in Nat
      <4>1. Rank(j) \in Nat
        BY <1>0, <3>1, RankType
      <4>2. Cardinality(Before(j)) <= Cardinality(Before(j)')
            /\ Cardinality(Before(j)') \in 0..MaxItem
        BY <3>3, ItemsFinite
      <4> QED
        BY <4>1, <4>2, PagingAssumption DEF Rank
    <3>5. Rank(j) >= Taken /\ Taken \in Nat
      BY <1>0, <2>1, RankType DEF Complete
    <3> QED
      BY <3>4, <3>5
  <2> QED
    BY <1>1, <2>1, <2>2, <2>3 DEF Complete, Unseen
<1>5. reader.by = "offset" => MayRepeat'
    BY <1>1 DEF MayRepeat
<1> QED
    BY <1>1, <1>2, <1>3, <1>4, <1>5 DEF PagingInv, ByOffset

\* A row that is deleted only moves rows forward.
LEMMA DeleteStep ==
    ASSUME PagingInv, NEW i \in Item, Delete(i)
    PROVE  PagingInv'
<1>0. PagingTypeOK
    BY DEF PagingInv
<1>1. /\ rows' = rows \ {i} /\ through' = through \ {i} /\ key' = [key EXCEPT ![i] = i]
      /\ odd' = odd \cup {"deleted"} \cup Split
      /\ UNCHANGED <<reader, seen, twice>>
    BY DEF Delete
<1>2. PagingTypeOK'
  <2>1. Split \in SUBSET {"split"}
    BY DEF Split
  <2> QED
    BY <1>0, <1>1, <2>1 DEF PagingTypeOK
<1>3. ByCursor'
    BY <1>1 DEF PagingInv, ByCursor
<1>4. reader.by = "offset" => MayMiss'
    BY <1>1 DEF MayMiss
<1>5. ASSUME reader.by = "offset", ~MayRepeat' PROVE Apart'
  <2>1. Apart
    BY <1>1, <1>5 DEF PagingInv, ByOffset, MayRepeat
  <2>2. Taken' = Taken
    BY <1>1 DEF Taken
  <2>3. ASSUME NEW j \in rows' \cap seen PROVE Rank(j)' < Taken
    <3>1. j \in rows /\ j # i /\ rows \in SUBSET Item /\ key \in [Item -> Item]
      BY <1>0, <1>1 DEF PagingTypeOK
    <3>2. \A h \in rows' : h \in rows /\ key'[h] = key[h]
      BY <1>1, <3>1
    <3>3. Before(j)' \in SUBSET Before(j) /\ Before(j) \in SUBSET Item
      BY <3>1, <3>2 DEF Before
    <3>4. Rank(j)' <= Rank(j) /\ Rank(j) \in Nat /\ Rank(j)' \in Nat
      <4>1. Rank(j) \in Nat
        BY <1>0, <3>1, RankType
      <4>2. Rank(j)' \in Nat
        <5>1. Cardinality(Before(j)') \in 0..MaxItem
          BY <3>3, ItemsFinite
        <5> QED
          BY <5>1, PagingAssumption DEF Rank
      <4>3. Cardinality(Before(j)') <= Cardinality(Before(j))
        BY <3>3, ItemsFinite
      <4> QED
        BY <4>1, <4>2, <4>3 DEF Rank
    <3>5. Rank(j) < Taken /\ Taken \in Nat
      BY <1>0, <2>1, <2>3, <3>1, RankType DEF Apart
    <3> QED
      BY <3>4, <3>5
  <2> QED
    BY <1>1, <2>1, <2>2, <2>3 DEF Apart
<1> QED
    BY <1>1, <1>2, <1>3, <1>4, <1>5 DEF PagingInv, ByOffset

\* A row that changes its place leaves nothing to say, by offset.
LEMMA RekeyStep ==
    ASSUME PagingInv, NEW i \in Item, NEW k \in Item, Rekey(i, k)
    PROVE  PagingInv'
<1>1. /\ reader.by = "offset" /\ key' = [key EXCEPT ![i] = k] /\ odd' = odd \cup {"moved"}
      /\ UNCHANGED <<rows, reader, seen, twice, through>>
    BY DEF Rekey
<1>2. PagingTypeOK'
    BY <1>1 DEF PagingInv, PagingTypeOK
<1>3. MayMiss' /\ MayRepeat'
    BY <1>1 DEF MayMiss, MayRepeat
<1> QED
    BY <1>1, <1>2, <1>3 DEF PagingInv, ByOffset, ByCursor

\* Every step of reader and table keeps PagingInv.
LEMMA PagingStep == PagingInv /\ [PagingNext]_pagingVars => PagingInv'
<1> SUFFICES ASSUME PagingInv, [PagingNext]_pagingVars PROVE PagingInv'
    OBVIOUS
<1>1. CASE UNCHANGED pagingVars
  <2>1. UNCHANGED <<rows, key, reader, seen, twice, through, odd>>
    BY <1>1 DEF pagingVars
  <2>2. /\ Taken' = Taken /\ Unseen' = Unseen /\ \A i : Rank(i)' = Rank(i)
        /\ MayMiss' = MayMiss /\ MayRepeat' = MayRepeat
    BY <2>1, SameRanks DEF Taken, Unseen, MayMiss, MayRepeat
  <2>3. Complete' = Complete /\ Apart' = Apart
    BY <2>1, <2>2 DEF Complete, Apart
  <2> QED
    BY <2>1, <2>2, <2>3 DEF PagingInv, PagingTypeOK, ByOffset, ByCursor
<1> QED
    BY <1>1, CountPageStep, OffsetPageStep, CursorPageStep, NextPageStep, ReadAgainStep,
       InsertStep, DeleteStep, RekeyStep DEF PagingNext

\* PagingInv holds of any number of rows and any size of a page.
THEOREM PagingInvariant == PagingSpec => []PagingInv
    BY PagingStart, PagingStep, PTL DEF PagingSpec

(***************************************************************************)
(* For any number of rows and any size of a page, whoever turns all pages  *)
(* of a list has seen every row that was there all the time, and none      *)
(* twice, with the exceptions that paging by offset has                    *)
(* (applications.service.ts, auditLog.service.ts, the stores of the apps). *)
(***************************************************************************)
THEOREM PagesExact == PagingSpec => []PagesAreExact
<1>1. PagingInv => PagesAreExact
  <2> SUFFICES ASSUME PagingInv PROVE PagesAreExact
    OBVIOUS
  <2>0. PagingTypeOK /\ reader.by \in {"offset", "cursor"}
    BY DEF PagingInv, PagingTypeOK, Reader
  <2>1. CASE reader.by = "offset"
    <3>1. ASSUME AllRead, Complete PROVE through \subseteq seen
      <4>1. /\ reader.due = {} /\ reader.page * PageSize >= reader.total
            /\ reader.page * PageSize \in Nat /\ reader.total \in Nat
        BY <2>0, <2>1, <3>1, RankType, PagingAssumption
           DEF AllRead, LastPage, PagingTypeOK, Reader
      <4>2. \A i \in Unseen : reader.page * PageSize < reader.total
        BY <3>1, <4>1 DEF Complete
      <4>3. Unseen = {}
        BY <4>1, <4>2
      <4> QED
        BY <4>3 DEF Unseen
    <3> QED
      BY <2>1, <3>1 DEF PagingInv, ByOffset, Apart, PagesAreExact
  <2>2. CASE reader.by = "cursor"
    BY <2>2 DEF PagingInv, ByCursor, PagesAreExact, AllRead, LastPage
  <2> QED
    BY <2>0, <2>1, <2>2
<1> QED
    BY <1>1, PagingInvariant, PTL
-----------------------------------------------------------------------------
(***************************************************************************)
(* What is put together in one instance does what each part does alone:    *)
(* the four start as they do and one of them moves at a time, so that what *)
(* is proved of a part holds beside the others (AuthContext.tsx, the       *)
(* access page and each list page keep a state of their own).              *)
(***************************************************************************)
THEOREM PortalComponents ==
    PortalSpec => WebSpec /\ PanelSpec /\ ListSpec /\ PagingSpec
<1>1. PortalInit => WebInit /\ PanelInit /\ ListInit /\ PagingInit
    BY DEF PortalInit
<1>2. [PortalNext]_<<webVars, panelVars, listVars, pagingVars, focus>> =>
          /\ [WebNext]_webVars /\ [PanelNext]_panelVars
          /\ [ListNext]_listVars /\ [PagingNext]_pagingVars
    BY DEF PortalNext, Frame
<1> QED
    BY <1>1, <1>2, PTL DEF PortalSpec, WebSpec, PanelSpec, ListSpec, PagingSpec

(***************************************************************************)
(* The types of the web client's state, which none of its handlers leaves: *)
(* of every call in progress, every draft, every load and every row read.  *)
(***************************************************************************)
THEOREM PortalTypes == PortalSpec => []PortalTypeOK
<1>1. WebInv /\ PanelInv /\ ListInv /\ PagingInv => PortalTypeOK
    BY DEF WebInv, PanelInv, ListInv, PagingInv, PortalTypeOK
<1> QED
    BY <1>1, PortalComponents, WebInvariant, PanelInvariant, ListInvariant,
       PagingInvariant, PTL

(***************************************************************************)
(* All that is claimed of the web client holds of it together: it shows    *)
(* the session that there is, its panel what is saved, its lists what was  *)
(* asked for, and its pages every row once; and no save takes a role that  *)
(* nobody has touched from anyone.                                         *)
(***************************************************************************)
THEOREM PortalKeeps ==
    PortalSpec =>
        /\ [](/\ StatusIsTrue /\ SessionIsHeld /\ PanelIsTrue
              /\ ShownIsAsked /\ PagesAreExact)
        /\ UntouchedRolesStay
    BY PortalComponents, StatusTrue, SessionHeld, PanelTrue, ShownAsked, PagesExact,
       UntouchedStay, PTL
=============================================================================
