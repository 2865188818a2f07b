------------------------------ MODULE JeevaMitra ------------------------------
(***************************************************************************)
(* JeevaMitra's records (apps/api/src/modules/apps/jeevamitra): a vet's    *)
(* user document with the profile that repeats its isVerified, accounts    *)
(* of any role, and disease alerts.                                        *)
(***************************************************************************)
EXTENDS Pasunestam

JmNew ==
    [jmVet |-> [status |-> "off", side |-> "none"],
     jmAccount |-> [status |-> "enabled", side |-> "open"],
     jmAlert |-> [status |-> "on", side |-> "none"]]

JmKind == DOMAIN JmNew

(* getUser, then setVetVerified's two queries for profiles. *)
VetProfileRead(w) ==
    /\ WorkAt(w, "side")
    /\ work' = [work EXCEPT ![w].pc = "write", ![w].seen = doc.side]
    /\ UNCHANGED <<kind, doc, trail, past>>

(***************************************************************************)
(* The batch: the user and the profiles that were found, all or nothing;   *)
(* it fails when one of them is gone.                                      *)
(***************************************************************************)
VerifyBatch(w) ==
    /\ WorkAt(w, "write") /\ doc.status # "none"
    /\ Writes(w, [status |-> work[w].want,
                  side |-> IF work[w].seen = "none" THEN doc.side ELSE work[w].want], "audit")

VerifyVet(w) ==
    /\ kind = "jmVet"
    /\ \/ Enter(w, "read", Switch)
       \/ NotFound(w)
       \/ WorkAt(w, "read") /\ doc.status # "none" /\ Proceeds(w, "side")
       \/ VetProfileRead(w)
       \/ VerifyBatch(w)

JmAccountRequest(w) == kind = "jmAccount" /\ AccountOf(w)

SetAlertActive(w) == kind = "jmAlert" /\ ReadThenUpdate(w, Switch)

JmStep(w) == VerifyVet(w) \/ JmAccountRequest(w) \/ SetAlertActive(w)

\* A vet's profile is created with the user's isVerified of that moment.
JmProfileCreated ==
    /\ kind = "jmVet" /\ doc.status # "none" /\ doc.side = "none"
    /\ doc' = [doc EXCEPT !.side = doc.status]
    /\ past' = [past EXCEPT !.late = past.late \/ Working # {}]
    /\ UNCHANGED <<kind, work, trail>>

(* The application: new documents, a profile, an alert that is taken down. *)
JmApp ==
    \/ kind \in JmKind /\ ~past.born /\ AppWrites(JmNew[kind])
    \/ kind = "jmAlert" /\ doc.status # "none" /\ AppWrites([doc EXCEPT !.status = "none"])
    \/ JmProfileCreated
=============================================================================
