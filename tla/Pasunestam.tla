------------------------------ MODULE Pasunestam ------------------------------
(***************************************************************************)
(* Pasunestam's records (apps/api/src/modules/apps/pasunestam): case       *)
(* submissions, certificates, certificate templates, scheme forms with     *)
(* their files, and vet accounts.                                          *)
(***************************************************************************)
EXTENDS FieldRecord

\* What an administrator may ask for, by kind of record.
PnWants ==
    [case |-> {"published", "rejected"}, certificate |-> {"cancelled"},
     template |-> Switch, scheme |-> {"none"}, vet |-> Account]

(* Status and side state as the application first writes them. *)
PnNew ==
    [case |-> [status |-> "submitted", side |-> "none"],
     certificate |-> [status |-> "draft", side |-> "none"],
     template |-> [status |-> "off", side |-> "none"],
     scheme |-> [status |-> "present", side |-> "file"],
     vet |-> [status |-> "enabled", side |-> "open"]]

PnKind == DOMAIN PnNew

Found(w) == WorkAt(w, "read") /\ doc.status # "none" /\ Proceeds(w, "write")

NotFound(w) == WorkAt(w, "read") /\ doc.status = "none" /\ Reject(w)

(***************************************************************************)
(* setCaseStatus, setTemplatePublished (and JeevaMitra's setAlertActive):  *)
(* the document is read, then updated outside any transaction.  update()   *)
(* of a document that has been deleted meanwhile throws.  The status that  *)
(* was read decides nothing.                                               *)
(***************************************************************************)
UpdateFound(w) ==
    /\ WorkAt(w, "write") /\ doc.status # "none"
    /\ Writes(w, [doc EXCEPT !.status = work[w].want], "audit")

ReadThenUpdate(w, wants) ==
    \/ Enter(w, "read", wants)
    \/ Found(w)
    \/ NotFound(w)
    \/ UpdateFound(w)

ReviewOrPublish(w) == kind \in {"case", "template"} /\ ReadThenUpdate(w, PnWants[kind])

\* Mutant: read, then update, as the others do.
CancelWithoutTransaction(w) ==
    \/ Enter(w, "read", PnWants[kind])
    \/ WorkAt(w, "read") /\ doc.status # "issued" /\ Reject(w)
    \/ WorkAt(w, "read") /\ doc.status = "issued" /\ Proceeds(w, "write")
    \/ WorkAt(w, "write") /\ Writes(w, [doc EXCEPT !.status = "cancelled"], "audit")

(* cancelCertificate: one transaction. *)
Cancel(w) ==
    \/ Enter(w, "read", PnWants[kind])
    \/ WorkAt(w, "read") /\ doc.status # "issued" /\ Reject(w)
    \/ /\ WorkAt(w, "read") /\ doc.status = "issued"
       /\ Writes(w, [doc EXCEPT !.status = "cancelled"], "audit")

CancelCertificate(w) == kind = "certificate" /\ Cancel(w)

(***************************************************************************)
(* deleteScheme: the document, then the file that it named.  Both succeed  *)
(* when there is nothing to delete, so two requests may both report it.    *)
(***************************************************************************)
DeleteScheme(w) ==
    \/ Enter(w, "read", PnWants[kind])
    \/ Found(w)
    \/ NotFound(w)
    \/ WorkAt(w, "write") /\ Writes(w, [doc EXCEPT !.status = "none"], "after")
    \/ WorkAt(w, "after") /\ Writes(w, [doc EXCEPT !.side = "none"], "audit")

RemoveScheme(w) == kind = "scheme" /\ DeleteScheme(w)

\* Mutant: the sessions are revoked first.
RevokeThenDisable(w) ==
    \/ WorkAt(w, "write") /\ Writes(w, [doc EXCEPT !.side = "none"], "after")
    \/ WorkAt(w, "after") /\ Writes(w, [doc EXCEPT !.status = work[w].want], "audit")

(* setAccountDisabled, here and in JeevaMitra: the flag, then the sessions. *)
SetAccountDisabled(w) ==
    \/ /\ WorkAt(w, "write")
       /\ Writes(w, [doc EXCEPT !.status = work[w].want],
                 IF work[w].want = "disabled" THEN "after" ELSE "audit")
    \/ WorkAt(w, "after") /\ Writes(w, [doc EXCEPT !.side = "none"], "audit")

(* The profile is read first: an account that is not a vet's is not found. *)
AccountOf(w) ==
    \/ Enter(w, "read", PnWants["vet"])
    \/ Found(w)
    \/ NotFound(w)
    \/ SetAccountDisabled(w)

VetAccount(w) == kind = "vet" /\ AccountOf(w)

PnStep(w) == ReviewOrPublish(w) \/ CancelCertificate(w) \/ RemoveScheme(w) \/ VetAccount(w)

(* The application submits, drafts, issues, cancels and removes. *)
PnApp ==
    /\ kind \in PnKind
    /\ \/ ~past.born /\ AppWrites(PnNew[kind])
       \/ /\ kind \in {"case", "template"} /\ doc.status # "none"
          /\ AppWrites([doc EXCEPT !.status = "none"])
       \/ doc.status = "draft" /\ AppWrites([doc EXCEPT !.status = "issued"])
       \/ doc.status = "issued" /\ AppWrites([doc EXCEPT !.status = "cancelled"])

(* Firebase signs in an account that is not disabled (NearSip's accounts   *)
(* are Supabase's: a ban lets what is signed in run out).                  *)
SignsIn ==
    /\ kind \in {"vet", "jmAccount"} /\ doc.status = "enabled"
    /\ doc' = [doc EXCEPT !.side = "open"]
    /\ UNCHANGED <<kind, work, trail, past>>
=============================================================================
