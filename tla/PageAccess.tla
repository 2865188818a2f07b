------------------------------ MODULE PageAccess ------------------------------
(***************************************************************************)
(* What an admin may do is decided three times: by the routes of the API   *)
(* (requirePermission, requireAppRole), by the guards of the pages         *)
(* (RequirePermission, RequireAppRole) and by the links and buttons that   *)
(* the pages show.  The API decides from the roles held now; the client    *)
(* from those that me() answered when it started.  One admin, one browser. *)
(***************************************************************************)

VARIABLES
    held,        \* the admin's grants in the database
    told,        \* the grants that the browser was told of
    page, tab,   \* where the browser is
    outcome      \* of what it did there last

accessVars == <<held, told, page, tab, outcome>>

\* A grant is a permission of Central Admin, or a role in an application.
Central(keys) == {<<"central", k>> : k \in keys}
InApp(client, roles) == {<<client, r>> : r \in roles}

PERMISSIONS ==
    {"applications.view", "applications.manage", "users.view", "users.manage",
     "content.view", "content.manage", "notifications.view", "notifications.send",
     "reports.view", "reports.export", "monitoring.view", "audit_logs.view",
     "admin_users.view", "admin_users.manage", "system.manage",
     "integrations.view", "integrations.manage", "integrations.test"}

ROLE_PERMISSIONS ==
    [SUPER_ADMIN |-> PERMISSIONS,
     APP_ADMIN |-> {"applications.view", "applications.manage", "monitoring.view",
                    "reports.view", "integrations.view", "integrations.manage",
                    "integrations.test"},
     CONTENT_ADMIN |-> {"content.view", "content.manage", "notifications.view",
                        "notifications.send"},
     SUPPORT_ADMIN |-> {"users.view", "users.manage", "applications.view",
                        "monitoring.view", "notifications.view"},
     REPORT_VIEWER |-> {"reports.view", "reports.export"}]

Standard == {"viewer", "manager", "super_admin"}
AppRoles == [jeevamitra |-> Standard, nearsip |-> Standard, pasunestam |-> {"editor", "manager"}]

\* resolveAdmin: the union over the roles.  An admin has roles of Central
\* Admin or of one application here: no check looks at both.
Profile ==
    {Central(UNION {ROLE_PERMISSIONS[r] : r \in roles}) :
        roles \in SUBSET DOMAIN ROLE_PERMISSIONS}
    \cup UNION {{InApp(app, roles) : roles \in SUBSET AppRoles[app]} : app \in DOMAIN AppRoles}

Allows(needs, grants) == \A need \in needs : need \cap grants # {}
Permission(key) == {Central({key})}

-----------------------------------------------------------------------------
(* The API: what each kind of request needs; a set for each middleware.    *)
READ(app) == InApp(app, AppRoles[app])
MANAGE(app) ==
    InApp(app, {"manager"} \cup (IF app = "pasunestam" THEN {} ELSE {"super_admin"}))
ACCOUNTS(app) == InApp(app, {"super_admin"})

\* One table for each router.
ApplicationsRoutes ==
    [applicationStats |-> Permission("applications.view"),
     listApplications |-> Permission("applications.view"),
     getApplication |-> Permission("applications.view"),
     createApplication |-> Permission("applications.manage"),
     updateApplication |-> Permission("applications.manage")]

IdentityRoutes ==
    [identityApps |-> Permission("admin_users.view"),
     identityUsers |-> Permission("admin_users.view"),
     invite |-> Permission("admin_users.manage"),
     setRoles |-> Permission("admin_users.manage"),
     setEnabled |-> Permission("admin_users.manage"),
     signOut |-> Permission("admin_users.manage"),
     resendInvite |-> Permission("admin_users.manage")]

AuditRoutes ==
    [auditLogs |-> Permission("audit_logs.view"), auditActions |-> Permission("audit_logs.view")]

JeevaMitraRoutes ==
    LET base == READ("jeevamitra")
    IN  [jmRead |-> {base},
         setVerified |-> {base, MANAGE("jeevamitra")},
         setAlertActive |-> {base, MANAGE("jeevamitra")},
         jmSetDisabled |-> {base, ACCOUNTS("jeevamitra")}]

NearSipRoutes ==
    LET base == READ("nearsip")
    IN  [nsRead |-> {base},
         savePlace |-> {base, MANAGE("nearsip")},
         deletePlace |-> {base, MANAGE("nearsip")},
         deleteReview |-> {base, MANAGE("nearsip")},
         nsSetDisabled |-> {base, ACCOUNTS("nearsip")}]

PasunestamRoutes ==
    LET base == READ("pasunestam")
        manager == {base, MANAGE("pasunestam")}
    IN  [pnRead |-> {base}, reviewCase |-> {base}, cancelCertificate |-> {base},
         setTemplatePublished |-> manager, deleteScheme |-> manager,
         schemeApplications |-> manager, listVets |-> manager, setVetDisabled |-> manager]

Route(op) ==
    CASE op = "health" -> {}
      [] op \in DOMAIN ApplicationsRoutes -> ApplicationsRoutes[op]
      [] op \in DOMAIN IdentityRoutes -> IdentityRoutes[op]
      [] op \in DOMAIN AuditRoutes -> AuditRoutes[op]
      [] op \in DOMAIN JeevaMitraRoutes -> JeevaMitraRoutes[op]
      [] op \in DOMAIN NearSipRoutes -> NearSipRoutes[op]
      [] op \in DOMAIN PasunestamRoutes -> PasunestamRoutes[op]

-----------------------------------------------------------------------------
(* The client: App.tsx, Sidebar.tsx and the pages.                         *)
Guard ==
    [dashboard |-> {},
     applications |-> Permission("applications.view"),
     newApplication |-> Permission("applications.manage"),
     application |-> Permission("applications.view"),
     editApplication |-> Permission("applications.manage"),
     users |-> Permission("admin_users.view"),
     auditLogs |-> Permission("audit_logs.view"),
     content |-> Permission("content.view"),
     notifications |-> Permission("notifications.view"),
     reports |-> Permission("reports.view"),
     monitoring |-> Permission("monitoring.view"),
     settings |-> Permission("system.manage"),
     jeevamitra |-> {InApp("jeevamitra", Standard)},
     nearsip |-> {InApp("nearsip", Standard)},
     pasunestam |-> {InApp("pasunestam", {"editor", "manager"})}]

Page == DOMAIN Guard

\* NAV_MODULES and MANAGED_APP_PAGES: what shows the link.
NAV_MODULES ==
    [dashboard |-> {}, applications |-> Permission("applications.view"),
     users |-> Permission("admin_users.view"), content |-> Permission("content.view"),
     notifications |-> Permission("notifications.view"),
     reports |-> Permission("reports.view"), monitoring |-> Permission("monitoring.view"),
     auditLogs |-> Permission("audit_logs.view"), settings |-> Permission("system.manage")]

MANAGED_APP_PAGES ==
    [jeevamitra |-> {InApp("jeevamitra", Standard)}, nearsip |-> {InApp("nearsip", Standard)},
     pasunestam |-> {InApp("pasunestam", {"editor", "manager"})}]

Sidebar(grants) ==
    {p \in DOMAIN NAV_MODULES : Allows(NAV_MODULES[p], grants)}
    \cup {p \in DOMAIN MANAGED_APP_PAGES : Allows(MANAGED_APP_PAGES[p], grants)}

\* The links of a page; the saved form goes to its application.
Links(p, grants) ==
    LET manages == Allows(Permission("applications.manage"), grants)
    IN  CASE p = "applications" ->
                 {"application"} \cup (IF manages THEN {"newApplication"} ELSE {})
          [] p = "application" ->
                 {"applications"} \cup (IF manages THEN {"editApplication"} ELSE {})
          [] p \in {"newApplication", "editApplication"} -> {"applications", "application"}
          [] OTHER -> {}

Tabs(p, grants) ==
    CASE p = "jeevamitra" -> {"vets", "users", "alerts"}
      [] p = "nearsip" -> {"places", "reviews", "users"}
      [] p = "pasunestam" ->
             {"cases", "certificates", "templates", "schemes"}
             \cup (IF <<"pasunestam", "manager">> \in grants
                   THEN {"vets", "applications"} ELSE {})
      [] OTHER -> {"main"}

FirstTab(p) ==
    CASE p = "jeevamitra" -> "vets"
      [] p = "nearsip" -> "places"
      [] p = "pasunestam" -> "cases"
      [] OTHER -> "main"

\* What a page asks for when it opens; an error there hides its content.
PasunestamLoads(t) ==
    {"pnRead"} \cup (IF t = "vets" THEN {"listVets"} ELSE {})
               \cup (IF t = "applications" THEN {"schemeApplications"} ELSE {})

PageLoads(p, t) ==
    CASE p = "dashboard" -> {"health", "applicationStats"}
      [] p = "applications" -> {"listApplications"}
      [] p \in {"application", "editApplication"} -> {"getApplication"}
      [] p = "users" -> {"identityApps", "identityUsers"}
      [] p = "auditLogs" -> {"auditLogs", "auditActions"}
      [] p = "jeevamitra" -> {"jmRead"}
      [] p = "nearsip" -> {"nsRead"}
      [] p = "pasunestam" -> PasunestamLoads(t)
      [] OTHER -> {}

(* The buttons, and the submissions of forms, that a page shows.           *)
When(condition, buttons) == IF condition THEN buttons ELSE {}

AdminAccessButtons(grants) ==
    When(Allows(Permission("admin_users.manage"), grants),
         {"invite", "setRoles", "setEnabled", "signOut", "resendInvite"})

JeevaMitraButtons(t, grants) ==
    LET canManage == InApp("jeevamitra", {"manager", "super_admin"}) \cap grants # {}
        canAccounts == <<"jeevamitra", "super_admin">> \in grants
    IN  When(t # "alerts" /\ canManage, {"setVerified"})
        \cup When(t # "alerts" /\ canAccounts, {"jmSetDisabled"})
        \cup When(t = "alerts" /\ canManage, {"setAlertActive"})

NearSipButtons(t, grants) ==
    LET canManage == InApp("nearsip", {"manager", "super_admin"}) \cap grants # {}
        canAccounts == <<"nearsip", "super_admin">> \in grants
    IN  When(t = "places" /\ canManage, {"savePlace", "deletePlace"})
        \cup When(t = "reviews" /\ canManage, {"deleteReview"})
        \cup When(t = "users" /\ canAccounts, {"nsSetDisabled"})

\* Mutant: the button is shown to everyone who sees the templates.
PasunestamButtonsForAll(t, grants) == When(t = "templates", {"setTemplatePublished"})

PasunestamButtons(t, grants) ==
    LET isManager == <<"pasunestam", "manager">> \in grants
    IN  When(t = "cases", {"reviewCase"})
        \cup When(t = "certificates", {"cancelCertificate"})
        \cup When(t = "templates" /\ isManager, {"setTemplatePublished"})
        \cup When(t = "schemes" /\ isManager, {"deleteScheme"})
        \cup When(t = "vets", {"setVetDisabled"})

Buttons(p, t, grants) ==
    CASE p = "newApplication" -> {"createApplication"}
      [] p = "editApplication" -> {"updateApplication"}
      [] p = "users" -> AdminAccessButtons(grants)
      [] p = "jeevamitra" -> JeevaMitraButtons(t, grants)
      [] p = "nearsip" -> NearSipButtons(t, grants)
      [] p = "pasunestam" -> PasunestamButtons(t, grants)
      [] OTHER -> {}

-----------------------------------------------------------------------------
AccessInit ==
    /\ held = {} /\ told = held
    /\ page = "dashboard" /\ tab = "main" /\ outcome = "opening"

\* An administrator, or a sign-in elsewhere, changes the roles.
SetRoles(grants) ==
    /\ held' = grants
    /\ UNCHANGED <<told, page, tab, outcome>>

Arrives(p, t, grants) ==
    /\ page' = p /\ tab' = t
    /\ outcome' = IF Allows(Guard[p], grants) THEN "opening" ELSE "forbidden"
    /\ UNCHANGED held

(* The page is loaded anew at any of its addresses, or the admin signs in   *)
(* again: the only times that the client asks who it is.                   *)
Reload ==
    /\ told' = held
    /\ \E p \in Page : Arrives(p, FirstTab(p), held)

Follow(p) ==
    /\ p \in Sidebar(told) \cup (IF outcome = "forbidden" THEN {"dashboard"} ELSE Links(page, told))
    /\ p # page
    /\ Arrives(p, FirstTab(p), told)
    /\ UNCHANGED told

ChooseTab(t) ==
    /\ outcome # "forbidden"
    /\ t \in Tabs(page, told) /\ t # tab
    /\ Arrives(page, t, told)
    /\ UNCHANGED told

Outcome(served) == outcome' = IF served THEN "served" ELSE "refused"

LoadPage ==
    /\ outcome = "opening"
    /\ Outcome(\A op \in PageLoads(page, tab) : Allows(Route(op), held))
    /\ UNCHANGED <<held, told, page, tab>>

\* The rows and their buttons are shown once the load was served.
PressButton(op) ==
    /\ outcome = "served"
    /\ op \in Buttons(page, tab, told)
    /\ Outcome(Allows(Route(op), held))
    /\ UNCHANGED <<held, told, page, tab>>

AccessNext ==
    \/ \E grants \in Profile : SetRoles(grants)
    \/ Reload
    \/ \E p \in Page : Follow(p)
    \/ \E t \in Tabs(page, told) : ChooseTab(t)
    \/ LoadPage
    \/ \E op \in Buttons(page, tab, told) : PressButton(op)

AccessSpec == AccessInit /\ [][AccessNext]_accessVars

-----------------------------------------------------------------------------
(* Properties *)

(***************************************************************************)
(* Every variable has its type; the open tab is one that the page offers   *)
(* to what the browser was told of, so no tab is shown without its button. *)
(***************************************************************************)
AccessTypeOK ==
    /\ held \in Profile /\ told \in Profile /\ page \in Page
    /\ outcome \in {"opening", "forbidden", "served", "refused"}
    /\ tab \in Tabs(page, told)

(***************************************************************************)
(* The tables of the two programs agree.  The pages that links lead to are *)
(* the pages that open: no link ends at "Access denied", and no right can  *)
(* be exercised by an address alone.  And nothing that a page loads or     *)
(* offers is refused by the API as long as the roles are those that the    *)
(* browser was told of, but for one disagreement: the dashboard asks       *)
(* everyone for the statistics of the registry, which an admin without     *)
(* applications.view may not read.                                         *)
(***************************************************************************)
EveryPageIsLinked ==
    LET linked == Sidebar(told)
        next == linked \cup UNION {Links(p, told) : p \in linked}
        last == next \cup UNION {Links(p, told) : p \in next}
    IN  {p \in Page : Allows(Guard[p], told)} = last

RefusalMeansStale ==
    outcome # "refused" /\ outcome' = "refused" => held # told \/ page = "dashboard"

TablesAgree == []EveryPageIsLinked /\ [][RefusalMeansStale]_accessVars
=============================================================================
