------------------------------- MODULE NearSip -------------------------------
(***************************************************************************)
(* NearSip's records (apps/api/src/modules/apps/nearsip): places, reviews  *)
(* and accounts, each operation one HTTP call to Supabase with a timer.    *)
(* The timer aborts the request, not what it has set going: the row may be *)
(* written although the administrator is told that NearSip could not be    *)
(* reached, and nothing is logged then.                                    *)
(***************************************************************************)
EXTENDS JeevaMitra

NsNew ==
    [nsPlace |-> [status |-> "off", side |-> "none"],
     nsReview |-> [status |-> "present", side |-> "none"],
     nsUser |-> [status |-> "enabled", side |-> "none"]]

NsKind == DOMAIN NsNew

NsWants == [nsPlace |-> Switch \cup {"none"}, nsReview |-> {"none"}, nsUser |-> Account]

(***************************************************************************)
(* Supabase serves the call: PATCH or DELETE with a filter answers the     *)
(* rows it has touched, the update of an account is refused when there is  *)
(* none.  Without a row the answer is 404.                                 *)
(***************************************************************************)
CallServed(w) ==
    \/ /\ WorkAt(w, "write") /\ doc.status # "none"
       /\ Writes(w, [doc EXCEPT !.status = work[w].want], "after")
    \/ WorkAt(w, "write") /\ doc.status = "none" /\ Reject(w)

\* The answer arrives in time; otherwise the call Breaks.
CallAnswered(w) == WorkAt(w, "after") /\ Proceeds(w, "audit")

(* createPlace: the record is the one that this request creates. *)
CreatePlace(w) ==
    /\ kind = "nsPlace" /\ WorkAt(w, "idle") /\ ~past.born
    /\ doc' = NsNew[kind]
    /\ work' = [work EXCEPT ![w] = [NoWork EXCEPT !.pc = "after", !.want = "off"]]
    /\ past' = [past EXCEPT !.born = TRUE, !.alone = TRUE]
    /\ UNCHANGED <<kind, trail>>

\* updatePlace, deletePlace, deleteReview, setUserDisabled.
NsChange(w) == Enter(w, "write", NsWants[kind]) \/ CallServed(w) \/ CallAnswered(w)

NsStep(w) == kind \in NsKind /\ (CreatePlace(w) \/ (past.born /\ NsChange(w)))

(* The application's users write reviews and sign up. *)
NsApp == kind \in {"nsReview", "nsUser"} /\ ~past.born /\ AppWrites(NsNew[kind])
-----------------------------------------------------------------------------
(* A record of any of the applications *)

FieldInit ==
    /\ kind \in PnKind \cup JmKind \cup NsKind
    /\ doc = [status |-> "none", side |-> "none"]
    /\ work = [w \in Worker |-> NoWork]
    /\ trail = "none"
    /\ past = NoPast

FieldNext ==
    \/ \E w \in Worker : PnStep(w) \/ JmStep(w) \/ NsStep(w) \/ Breaks(w) \/ Audit(w)
    \/ PnApp \/ JmApp \/ NsApp
    \/ SignsIn

FieldSpec == FieldInit /\ [][FieldNext]_fieldVars
-----------------------------------------------------------------------------
(* Properties *)

(***************************************************************************)
(* The audit log can be trusted.  Its last entry, or the application's own *)
(* last write, is what the record says, unless a request has yet to write  *)
(* its entry, or since the last request without company two have met or    *)
(* one has broken off; so no entry is written for what failed.  Of two     *)
(* cancellations of a certificate one is told that it is not issued, and   *)
(* the reason and date of the first stay.  In NearSip the removal of a row *)
(* is logged once: the second, or the repetition of one whose answer was   *)
(* lost, finds no row and is a 404.                                        *)
(***************************************************************************)
TrailIsTrue ==
    /\ \/ trail = doc.status
       \/ past.met \/ past.broken
       \/ \E w \in Worker : WorkAt(w, "after") \/ WorkAt(w, "audit")
    /\ past.cancelled <= 1
    /\ kind \in NsKind => past.removals <= 1

\* A request is between its two writes, or has broken off there.
HalfDone == past.broken \/ \E w \in Worker : WorkAt(w, "after")

(***************************************************************************)
(* What is written in two steps agrees.  A scheme form that is listed has  *)
(* its file, and a file without a form is about to go, unless a deletion   *)
(* broke off.  A disabled account has no session, however disabling,       *)
(* enabling and sign-ins interleave, with the same exception.  A vet's     *)
(* profile, which farmers see, says what the user document says, in every  *)
(* state and through every failure, unless the profile was created between *)
(* a request's reading and its batch.                                      *)
(***************************************************************************)
SideFollowsRecord ==
    /\ kind = "scheme" =>
          /\ doc.status = "present" => doc.side = "file"
          /\ doc.side = "file" /\ doc.status = "none" /\ past.born => HalfDone
    /\ doc.status = "disabled" /\ doc.side = "open" => HalfDone
    /\ kind = "jmVet" => doc.side \in {"none", doc.status} \/ past.late
=============================================================================
