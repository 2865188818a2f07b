------------------------------- MODULE ListPage -------------------------------
(***************************************************************************)
(* A page that lists things: applications, the audit log, and the records  *)
(* of Pasunestam, JeevaMitra and NearSip (web/src/pages).  Its list is     *)
(* loaded anew when the filter, tab or page number changes, and after      *)
(* every action.  A load is not cancelled by the next one, and an action   *)
(* ends with the load of the page as it was when its button was pressed.   *)
(***************************************************************************)
EXTENDS Naturals

CONSTANTS
    Filter,        \* what may be asked for: filter, tab, page number
    ListLoad,      \* loads that may be in progress together
    MaxAct         \* bound on the actions

ASSUME ActAssumption == MaxAct \in Nat

VARIABLES
    filter,        \* what the controls say
    shown,         \* what the rows are of, and how many actions they show
    loading,       \* "Loading...": the rows are hidden
    load,          \* load[l]: where it stands, what it asked for, what it has got
    act,           \* where the action stands, and the filter that it remembers
    acts,          \* actions done
    mishap         \* history: loads crossed, met an action, failed; the filter moved

listVars == <<filter, shown, loading, load, act, acts, mishap>>

ListLoadState == [pc: {"idle", "sent", "served"}, of: Filter, acts: 0..MaxAct]

ActState == [pc: {"idle", "sent", "done"}, of: Filter]

ListIdle == \A l \in ListLoad : load[l].pc = "idle"

(* A load of f in a free slot; the page says that it is loading.  After a  *)
(* load that had no company, what was before it no longer matters.         *)
Loads(f, l) ==
    /\ load[l].pc = "idle"
    /\ load' = [load EXCEPT ![l] = [pc |-> "sent", of |-> f, acts |-> 0]]
    /\ loading' = TRUE

ListInit ==
    /\ filter \in Filter
    /\ shown = [of |-> filter, acts |-> 0]
    /\ acts = 0 /\ act = [pc |-> "idle", of |-> filter] /\ mishap = FALSE
    /\ loading = TRUE
    /\ \E first \in ListLoad :
           load = [l \in ListLoad |-> [pc |-> IF l = first THEN "sent" ELSE "idle",
                                       of |-> filter, acts |-> 0]]

\* Mutant: the load that was made for the last filter is used once more.
ChooseStale(f, l) ==
    /\ f # filter /\ filter' = f
    /\ Loads(filter, l)
    /\ mishap' = (~ListIdle \/ act.pc # "idle")
    /\ UNCHANGED <<shown, act, acts>>

(* The controls; the effect of load, which depends on them.  They can be   *)
(* used while the page loads and while an action is in progress.           *)
Choose(f, l) ==
    /\ f # filter /\ filter' = f
    /\ Loads(f, l)
    /\ mishap' = (~ListIdle \/ act.pc # "idle")
    /\ UNCHANGED <<shown, act, acts>>

ListServed(l) ==
    /\ load[l].pc = "sent"
    /\ load' = [load EXCEPT ![l].pc = "served", ![l].acts = acts]
    /\ UNCHANGED <<filter, shown, loading, act, acts, mishap>>

ListEnds(l) == loading' = FALSE /\ load' = [load EXCEPT ![l].pc = "idle"]

\* The rows are those of the answer that came last.
ListAnswered(l) ==
    /\ load[l].pc = "served"
    /\ shown' = [of |-> load[l].of, acts |-> load[l].acts]
    /\ ListEnds(l)
    /\ UNCHANGED <<filter, act, acts, mishap>>

\* Mutant: then, not finally.
ListFailsForGood(l) ==
    /\ load[l].pc # "idle"
    /\ load' = [load EXCEPT ![l].pc = "idle"]
    /\ mishap' = TRUE
    /\ UNCHANGED <<filter, shown, loading, act, acts>>

ListFails(l) ==
    /\ load[l].pc # "idle"
    /\ ListEnds(l)
    /\ mishap' = TRUE
    /\ UNCHANGED <<filter, shown, act, acts>>

(* A button of a row, or the form of a place, which stays usable while the *)
(* page loads; act and run keep the load of this rendering.                *)
PressAct ==
    /\ act.pc = "idle" /\ acts < MaxAct
    /\ act' = [pc |-> "sent", of |-> filter]
    /\ mishap' = (mishap \/ ~ListIdle)
    /\ UNCHANGED <<filter, shown, loading, load, acts>>

ActServed ==
    /\ act.pc = "sent"
    /\ act' = [act EXCEPT !.pc = "done"]
    /\ acts' = acts + 1
    /\ UNCHANGED <<filter, shown, loading, load, mishap>>

ActAnswered(l) ==
    /\ act.pc = "done"
    /\ act' = [act EXCEPT !.pc = "idle"]
    /\ Loads(act.of, l)
    /\ mishap' = (mishap \/ ~ListIdle \/ act.of # filter)
    /\ UNCHANGED <<filter, shown, acts>>

\* An error is shown, and the page is not loaded anew.
ActFails ==
    /\ act.pc # "idle"
    /\ act' = [act EXCEPT !.pc = "idle"]
    /\ mishap' = TRUE
    /\ UNCHANGED <<filter, shown, loading, load, acts>>

ListNext ==
    \/ \E f \in Filter, l \in ListLoad : Choose(f, l)
    \/ \E l \in ListLoad : ListServed(l) \/ ListAnswered(l) \/ ListFails(l) \/ ActAnswered(l)
    \/ PressAct \/ ActServed \/ ActFails

ListSpec == ListInit /\ [][ListNext]_listVars
-----------------------------------------------------------------------------
(* Properties *)

(***************************************************************************)
(* Every variable has its type, and a page at rest does not say that it    *)
(* loads, which would hide its rows and buttons.                           *)
(***************************************************************************)
ListTypeOK ==
    /\ filter \in Filter /\ shown \in [of: Filter, acts: 0..MaxAct] /\ acts \in 0..MaxAct
    /\ load \in [ListLoad -> ListLoadState] /\ act \in ActState
    /\ mishap \in BOOLEAN /\ loading \in BOOLEAN
    /\ ListIdle => ~loading

(***************************************************************************)
(* A page at rest shows the rows of what its controls say, the effects of  *)
(* its own actions included, unless since the filter was last set two      *)
(* loads crossed, one failed, or one met an action.                        *)
(***************************************************************************)
ShownIsAsked ==
    ListIdle /\ act.pc = "idle" /\ ~mishap => shown = [of |-> filter, acts |-> acts]
=============================================================================
