-------------------------------- MODULE Registry --------------------------------
(***************************************************************************)
(* One application of the registry, edited on ApplicationForm pages and    *)
(* rewritten by the seed that every deployment runs.  The form loads the   *)
(* row once, and saving sends every field of it (but the slug) as a PATCH, *)
(* whose fields the API writes as they come: there is no version to        *)
(* compare.  A form whose load failed is shown all the same, empty.        *)
(***************************************************************************)

CONSTANTS
    Form,        \* edit pages that are open at the same time
    Text         \* what a field may hold, when not empty

ASSUME TextAssumption == "" \notin Text /\ Text # {}

VARIABLES
    app,         \* the Application row
    form,        \* form[e]: what page e shows; see Sheet
    touched,     \* history: touched[e], the fields that e's editor has changed
    moved        \* history: moved[e], the fields written since page e loaded

registryVars == <<app, form, touched, moved>>

\* `name` is required; the others may be null, and are then an empty input.
Field == {"name", "url"}

Content == [Field -> Text \cup {""}]

Blank == [f \in Field |-> ""]

\* failed: the page shows the form under the error of a load that failed.
Sheet ==
    [pc: {"closed", "loading", "open", "saving"}, values: Content, failed: BOOLEAN]

ClosedForm == [pc |-> "closed", values |-> Blank, failed |-> FALSE]

\* The row's facts in KNOWN_APPLICATIONS, all of one document.
Known == [f \in Field |-> CHOOSE t \in Text : TRUE]

RegistryInit ==
    /\ app = Known
    /\ form = [e \in Form |-> ClosedForm]
    /\ touched = [e \in Form |-> {}]
    /\ moved = [e \in Form |-> {}]

-----------------------------------------------------------------------------
\* Changed fields of the row, for every page that has read it.
Moved(row) ==
    [e \in Form |-> IF form[e].pc \in {"open", "saving"}
                      THEN moved[e] \cup {f \in Field : row[f] # app[f]}
                      ELSE {}]

OpenForm(e) ==
    /\ form[e].pc = "closed"
    /\ form' = [form EXCEPT ![e].pc = "loading"]
    /\ UNCHANGED <<app, touched, moved>>

\* GET answers, or fails: `finally` shows the form in both cases.
LoadsForm(e, values, failed) ==
    /\ form[e].pc = "loading"
    /\ form' = [form EXCEPT ![e] = [pc |-> "open", values |-> values, failed |-> failed]]
    /\ UNCHANGED <<app, touched, moved>>

\* Mutant: a field that the page forgets to take over.
LoadedInPart(e) == LoadsForm(e, [app EXCEPT !["url"] = ""], FALSE)

Loaded(e) == LoadsForm(e, app, FALSE)

LoadFails(e) == LoadsForm(e, Blank, TRUE)

EditForm(e, f, text) ==
    /\ form[e].pc = "open"
    /\ form' = [form EXCEPT ![e].values[f] = text]
    /\ touched' = [touched EXCEPT ![e] = @ \cup {f}]
    /\ UNCHANGED <<app, moved>>

Submit(e) ==
    /\ form[e].pc = "open"
    /\ form' = [form EXCEPT ![e].pc = "saving"]
    /\ UNCHANGED <<app, touched, moved>>

CloseForm(e) ==
    /\ form' = [form EXCEPT ![e] = ClosedForm]
    /\ touched' = [touched EXCEPT ![e] = {}]

\* PATCH: the schema wants a name; `update` writes all that was sent, and the
\* page leaves for the application's own.  A page that was left meanwhile is
\* still "saving": its request is under way all the same.
SaveForm(e) ==
    /\ form[e].pc = "saving" /\ form[e].values["name"] # ""
    /\ app' = form[e].values
    /\ moved' = [Moved(app') EXCEPT ![e] = {}]
    /\ CloseForm(e)

\* The PATCH is refused or lost; the page shows why and keeps the form.
SaveFails(e) ==
    /\ form[e].pc = "saving"
    /\ form' = [form EXCEPT ![e].pc = "open"]
    /\ UNCHANGED <<app, touched, moved>>

CancelForm(e) ==
    /\ form[e].pc \in {"loading", "open"}
    /\ CloseForm(e)
    /\ moved' = [moved EXCEPT ![e] = {}]
    /\ UNCHANGED app

\* seedApplications: `upsert ... update: rest` writes every documented field.
Seed ==
    /\ app' = Known
    /\ moved' = Moved(Known)
    /\ UNCHANGED <<form, touched>>

RegistryNext ==
    \/ \E e \in Form :
          \/ OpenForm(e) \/ Loaded(e) \/ LoadFails(e)
          \/ \E f \in Field, text \in Text \cup {""} : EditForm(e, f, text)
          \/ Submit(e) \/ SaveForm(e) \/ SaveFails(e) \/ CancelForm(e)
    \/ Seed

RegistrySpec == RegistryInit /\ [][RegistryNext]_registryVars
-----------------------------------------------------------------------------
RegistryTypeOK ==
    /\ app \in Content
    /\ app["name"] # ""
    /\ form \in [Form -> Sheet]
    /\ touched \in [Form -> SUBSET Field]
    /\ moved \in [Form -> SUBSET Field]

\* A save changes what its editor changed.  It changes another field only if
\* that field was written since the page loaded it (the last save wins), or if
\* the page never loaded it.
UneditedFieldStays ==
    [][\A e \in Form : form[e].pc = "saving" /\ form'[e].pc # "saving" =>
          \A f \in Field :
              app'[f] # app[f] =>
                  f \in touched[e] \cup moved[e] \/ form[e].failed]_registryVars
=============================================================================
