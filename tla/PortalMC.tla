------------------------------- MODULE PortalMC -------------------------------
(***************************************************************************)
(* One instance for the web client: its session, the panel of the access   *)
(* page, the lists, and the pages of a list.  They share no state here, so *)
(* only the one in focus moves: the graph is the sum of theirs.            *)
(***************************************************************************)
EXTENDS WebSession, AccessPanel, ListPage, Paging, TLC

VARIABLE focus

PortalInit ==
    /\ WebInit /\ PanelInit /\ ListInit /\ PagingInit
    /\ focus \in {"session", "panel", "list", "paging"}
    \* What is not in focus need not start in each of its states.
    /\ focus # "panel" => granted = {}
    /\ focus # "paging" => rows = {} /\ reader = Starts("offset")
    /\ focus # "list" => /\ filter = CHOOSE f \in Filter : TRUE
                         /\ load[CHOOSE l \in ListLoad : TRUE].pc = "sent"

Frame(f, rest) == focus = f /\ UNCHANGED <<focus, rest>>

PortalNext ==
    \/ Frame("session", <<panelVars, listVars, pagingVars>>) /\ WebNext
    \/ Frame("panel", <<webVars, listVars, pagingVars>>) /\ PanelNext
    \/ Frame("list", <<webVars, panelVars, pagingVars>>) /\ ListNext
    \/ Frame("paging", <<webVars, panelVars, listVars>>) /\ PagingNext

PortalSpec ==
    PortalInit /\ [][PortalNext]_<<webVars, panelVars, listVars, pagingVars, focus>>

\* A reading of which nothing is claimed any more is not followed: the next one
\* starts from a state that is initial, too.
PortalBound == ~(focus = "paging" /\ MayMiss /\ MayRepeat)

Symmetry == Permutations(Tab) \cup Permutations(Cookie) \cup Permutations(PanelRole)
            \cup Permutations(Loading)
-----------------------------------------------------------------------------
\* Every variable of each component has its type.
PortalTypeOK == WebTypeOK /\ PanelTypeOK /\ ListTypeOK /\ PagingTypeOK
=============================================================================
