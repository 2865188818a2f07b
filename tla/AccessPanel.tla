----------------------------- MODULE AccessPanel -----------------------------
(***************************************************************************)
(* The page that sets a person's roles (web/src/pages/admin-access/        *)
(* AdminAccess.tsx), for one person of its list.  A panel holds a draft;   *)
(* its editor is a component of its own with its own copy of the ticks,    *)
(* which it keeps as long as its key, the person, is the same.  Saving     *)
(* sends the draft as the person's roles in every application; what the    *)
(* API then does with it is in IdentityRoles.                              *)
(***************************************************************************)
EXTENDS Naturals, FiniteSets

CONSTANTS
    PanelRole,     \* roles of one application
    Loading,       \* loads of the list that may be in progress together
    MaxFetch       \* bound on the requests in progress together

ASSUME FetchAssumption == MaxFetch \in Nat \ {0}

VARIABLES
    granted,       \* the person's roles
    row,           \* the roles that the list shows
    view,          \* the list, or "Loading..." or an error in its place
    panel,         \* what the panel is open for, its draft, the editor's ticks
    fetch,         \* fetch[f]: the page's requests
    since          \* history, see Since

panelVars == <<granted, row, view, panel, fetch, since>>

Ticks == SUBSET PanelRole

\* "other": to invite somebody, or for another person.
Panel == [for: {"nobody", "person", "other"}, draft: Ticks, ticks: Ticks]

Closed == [for |-> "nobody", draft |-> {}, ticks |-> {}]

View == {"loading", "error", "shown"}

\* A save, of the person's roles or of the other panel.
Saving == {"save", "invite"}

\* "account": one of disable, enable, sign out, resend.
FetchName == Saving \cup Loading \cup {"account"}

ASSUME LoadingAssumption == Loading \cap (Saving \cup {"account"}) = {}

Fetch == [pc: {"idle", "sent", "served"}, roles: Ticks]

NoFetch == [pc |-> "idle", roles |-> {}]

\* toggled: roles whose box was clicked since the panel opened; reopened: its
\* button was pressed again, and nothing clicked since; stale: the panel started
\* from roles that are not, or no longer, granted.  meant, outdated: toggled and
\* stale, for the save that was sent last.  crossed: since the last load that
\* had no company two requests met, an answer was lost, or another saved.
Since ==
    [toggled: Ticks, reopened: BOOLEAN, stale: BOOLEAN, meant: Ticks,
     outdated: BOOLEAN, crossed: BOOLEAN]

PanelInit ==
    /\ granted \in Ticks /\ row = {} /\ view = "loading"
    /\ panel = Closed
    /\ \E first \in Loading :
           fetch = [f \in FetchName |->
                        IF f = first THEN [NoFetch EXCEPT !.pc = "sent"] ELSE NoFetch]
    /\ since = [toggled |-> {}, reopened |-> FALSE, stale |-> FALSE, meant |-> {},
                outdated |-> FALSE, crossed |-> FALSE]

Differ(a, b) == (a \ b) \cup (b \ a)

Quiet(f) == fetch[f].pc = "idle"

AllQuiet == \A f \in FetchName : Quiet(f)

Room == Cardinality({f \in FetchName : ~Quiet(f)}) < MaxFetch

Sets(f, pc, roles) == fetch' = [fetch EXCEPT ![f] = [pc |-> pc, roles |-> roles]]

-----------------------------------------------------------------------------
(* The panel *)

(***************************************************************************)
(* openEdit, openInvite: the draft starts anew.  The ticks do so only when *)
(* the editor is mounted anew; the list is still there below the panel,    *)
(* and so are its buttons.                                                 *)
(***************************************************************************)
Opens(for, roles) ==
    LET again == panel.for = for IN
    /\ panel' = [for |-> for, draft |-> roles, ticks |-> IF again THEN panel.ticks ELSE roles]
    /\ since' = [since EXCEPT
           !.toggled = IF again THEN since.toggled ELSE {},
           !.reopened = again,
           !.stale = for = "person" /\ ((again /\ since.stale) \/ row # granted)]
    /\ UNCHANGED <<granted, row, view, fetch>>

OpenOther == Opens("other", {})

\* Mutant: the boxes start unticked.
OpenEditBlank == Quiet("account") /\ view = "shown" /\ Opens("person", {})

\* A request about the person disables her buttons.
OpenEdit == Quiet("account") /\ view = "shown" /\ Opens("person", row)

\* The editor's ticks, all of them, become the draft.
Click(r, draft) ==
    /\ panel.for # "nobody"
    /\ panel' = [panel EXCEPT !.ticks = Differ(panel.ticks, {r}), !.draft = draft]
    /\ since' = [since EXCEPT
           !.toggled = IF panel.for = "person" THEN since.toggled \cup {r} ELSE {},
           !.reopened = FALSE]
    /\ UNCHANGED <<granted, row, view, fetch>>

\* Mutant: the panel adds the click to its own draft.
ToggleDraft(r) == Click(r, Differ(panel.draft, {r}))

Toggle(r) == Click(r, Differ(panel.ticks, {r}))

\* since, of the panel, when it has closed.
SinceClosed == [since EXCEPT !.toggled = {}, !.reopened = FALSE, !.stale = FALSE]

Cancel ==
    /\ panel.for # "nobody" /\ \A f \in Saving : Quiet(f)
    /\ panel' = Closed
    /\ since' = SinceClosed
    /\ UNCHANGED <<granted, row, view, fetch>>

-----------------------------------------------------------------------------
(* Requests *)

PanelSends(f) ==
    /\ panel.for # "nobody" /\ Quiet(f) /\ Room
    /\ Sets(f, "sent", IF f = "save" THEN panel.draft ELSE {})
    /\ since' = [since EXCEPT !.meant = IF f = "save" THEN since.toggled ELSE {},
                              !.outdated = f = "save" /\ since.stale,
                              !.crossed = since.crossed \/ ~AllQuiet]
    /\ UNCHANGED <<granted, row, view, panel>>

SaveName == IF panel.for = "person" THEN "save" ELSE "invite"

\* onSave: its button is disabled while one is saving.
Save == PanelSends(SaveName) /\ \A f \in Saving : Quiet(f)

\* load, which the search form starts beside an earlier one, too, and runAction.
Ask(f) ==
    /\ f \notin Saving /\ Quiet(f) /\ Room /\ (f = "account" => view = "shown")
    /\ Sets(f, "sent", {})
    /\ view' = IF f \in Loading THEN "loading" ELSE view
    /\ since' = [since EXCEPT !.crossed = ~AllQuiet \/ (f \notin Loading /\ since.crossed)]
    /\ UNCHANGED <<granted, row, panel>>

\* since, when nothing is on its way to the API for f any more.
Settled(f) ==
    [since EXCEPT !.meant = IF f = "save" THEN {} ELSE since.meant,
                  !.outdated = f # "save" /\ since.outdated]

(* Of the API's requests only setRoles changes the roles: those that were  *)
(* not sent are taken away.                                                *)
Served(f) ==
    /\ fetch[f].pc = "sent"
    /\ granted' = IF f = "save" THEN fetch[f].roles ELSE granted
    /\ Sets(f, "served", IF f = "invite" THEN {} ELSE granted')
    /\ since' = [Settled(f) EXCEPT
           !.stale = panel.for = "person" /\ (since.stale \/ granted' # granted)]
    /\ UNCHANGED <<row, view, panel>>

(* replaceUser, setUsers: the row is the answer's, whenever it comes (that *)
(* of sign out or resend has none); a save closes the panel, whomever it   *)
(* is open for by then.  The first load to end ends "Loading...", and does *)
(* not take away the error of another one.                                 *)
Answered(f) ==
    /\ fetch[f].pc = "served"
    /\ \/ f # "invite" /\ row' = fetch[f].roles
       \/ f \in {"invite", "account"} /\ row' = row
    /\ panel' = IF f \in Saving THEN Closed ELSE panel
    /\ view' = IF f \in Loading /\ view = "loading" THEN "shown" ELSE view
    /\ Sets(f, "idle", {})
    /\ since' = IF f \in Saving THEN SinceClosed ELSE since
    /\ UNCHANGED granted

(* It fails, or its answer is lost: a message; the panel stays. *)
Fails(f) ==
    /\ ~Quiet(f)
    /\ Sets(f, "idle", {})
    /\ view' = IF f \in Loading THEN "error" ELSE view
    /\ since' = [Settled(f) EXCEPT !.crossed = TRUE]
    /\ UNCHANGED <<granted, row, panel>>

(* Another administrator. *)
OtherSaves(roles) ==
    /\ granted # roles /\ granted' = roles
    /\ since' = [since EXCEPT !.stale = panel.for = "person", !.outdated = ~Quiet("save"),
                              !.crossed = TRUE]
    /\ UNCHANGED <<row, view, panel, fetch>>

PanelNext ==
    \/ OpenOther \/ OpenEdit \/ Cancel \/ Save
    \/ \E r \in PanelRole : Toggle(r)
    \/ \E f \in FetchName : Ask(f) \/ Served(f) \/ Answered(f) \/ Fails(f)
    \/ \E roles \in Ticks : OtherSaves(roles)

PanelSpec == PanelInit /\ [][PanelNext]_panelVars
-----------------------------------------------------------------------------
(* Properties *)

\* Every variable has its type, and one save is sent at a time.
PanelTypeOK ==
    /\ \E f \in Saving : Quiet(f)
    /\ granted \in Ticks /\ row \in Ticks /\ view \in View
    /\ panel \in Panel /\ fetch \in [FetchName -> Fetch] /\ since \in Since

(***************************************************************************)
(* A save changes no role whose box was not clicked, although it replaces  *)
(* them all, unless the roles were changed by somebody else, or by an      *)
(* earlier save, after the panel took them from the list, or the list was  *)
(* out of date then.                                                       *)
(***************************************************************************)
UntouchedRolesStay ==
    [][Served("save") =>
           since.outdated \/ Differ(granted, granted') \subseteq since.meant]_panelVars

(***************************************************************************)
(* What the page shows can be trusted.  What Save would send is what the   *)
(* boxes say, unless the panel's button was pressed again and no box       *)
(* clicked since: that exception is a defect, the boxes keep the ticks and *)
(* the draft is what the list shows.  And a page at rest shows the roles   *)
(* that are granted, unless answers crossed or got lost, or another        *)
(* administrator saved, since it was loaded.                               *)
(***************************************************************************)
PanelIsTrue ==
    /\ since.reopened \/ panel.draft = panel.ticks
    /\ AllQuiet => since.crossed \/ row = granted
=============================================================================
