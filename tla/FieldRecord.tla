----------------------------- MODULE FieldRecord -----------------------------
(***************************************************************************)
(* One record of a field application (Pasunestam, JeevaMitra, NearSip) and *)
(* the administrators' requests about it.  The applications keep their own *)
(* data; Central Admin reads and writes it through their stores, each call *)
(* a step of its own, and writes the audit log when the work is done       *)
(* (apps/api/src/modules/apps, modules/audit/auditLog.service.ts).         *)
(*                                                                         *)
(* Records share nothing, so a behaviour is about a single one: kind says  *)
(* which.  The modules that extend this one have the operations.           *)
(***************************************************************************)
EXTENDS Naturals

CONSTANT Worker    \* requests that may be in progress at the same time

VARIABLES
    kind,          \* what the record is
    doc,           \* the record, and the side state that has to follow it
    work,          \* work[w]: where request w stands
    trail,         \* the status of doc that the log tells, or the application wrote
    past           \* history, see Past

fieldVars == <<kind, doc, work, trail, past>>

(***************************************************************************)
(* The statuses that a record of each kind may have; "none": there is no   *)
(* record (any more).  Its side state is the account's sessions ("open"),  *)
(* the scheme's file, or the isVerified of a vet's profile ("on", "off").  *)
(***************************************************************************)
Switch == {"on", "off"}

Account == {"enabled", "disabled"}

StatusOf ==
    [case |-> {"submitted", "published", "rejected"},
     certificate |-> {"draft", "issued", "cancelled"}, template |-> Switch,
     scheme |-> {"present"}, vet |-> Account,
     jmVet |-> Switch, jmAccount |-> Account, jmAlert |-> Switch,
     nsPlace |-> Switch, nsReview |-> {"present"}, nsUser |-> Account]

Status == {"none"} \cup UNION {StatusOf[k] : k \in DOMAIN StatusOf}

Side == Switch \cup {"none", "open", "file"}

\* What request w wants the status to be, and the side state that it has read.
WorkState ==
    [pc: {"idle", "read", "side", "write", "after", "audit"}, want: Status, seen: Side]

\* born: there is, or was, the record; alone: the last request to enter has had
\* no company; met: two were in progress together, or one and the application;
\* broken: a request ended between its first effect and its entry in the log;
\* late: the side state came into being behind a request's reading;
\* cancelled: how often "cancelled" was written, over whatever stood there;
\* removals: log entries of a removal (each up to 2).
Past ==
    [born: BOOLEAN, alone: BOOLEAN, met: BOOLEAN, broken: BOOLEAN, late: BOOLEAN,
     cancelled: 0..2, removals: 0..2]

NoPast ==
    [born |-> FALSE, alone |-> TRUE, met |-> FALSE, broken |-> FALSE, late |-> FALSE,
     cancelled |-> 0, removals |-> 0]

NoWork == [pc |-> "idle", want |-> "none", seen |-> "none"]

WorkAt(w, pc) == work[w].pc = pc

Working == {w \in Worker : ~WorkAt(w, "idle")}

Goes(w, pc) == work' = [work EXCEPT ![w].pc = pc]

Drops(w) == work' = [work EXCEPT ![w] = NoWork]

Counts(n, happens) == IF happens /\ n < 2 THEN n + 1 ELSE n

\* Each such write comes with a reason and a date, which it puts in the place of
\* those that are there.
Cancels(to) == to.status = "cancelled"

(* A request that wants a status of the record passes its middleware. *)
Enter(w, pc, wants) ==
    /\ WorkAt(w, "idle")
    /\ \E want \in wants : work' = [work EXCEPT ![w] = [NoWork EXCEPT !.pc = pc, !.want = want]]
    /\ past' = [past EXCEPT !.alone = (Working = {}), !.met = past.met \/ Working # {}]
    /\ UNCHANGED <<kind, doc, trail>>

(* A read between two effects, or before the first. *)
Proceeds(w, pc) ==
    /\ Goes(w, pc)
    /\ UNCHANGED <<kind, doc, trail, past>>

(* 404, 409 or 422: nothing has been done. *)
Reject(w) ==
    /\ Drops(w)
    /\ UNCHANGED <<kind, doc, trail, past>>

(* The record becomes to. *)
Writes(w, to, pc) ==
    /\ doc' = to
    /\ Goes(w, pc)
    /\ past' = [past EXCEPT !.born = TRUE, !.cancelled = Counts(past.cancelled, Cancels(to))]
    /\ UNCHANGED <<kind, trail>>

(* A call throws or its answer is lost, or the process ends: no more of it *)
(* is done, and the administrator sees an error.                           *)
Breaks(w) ==
    /\ ~WorkAt(w, "idle")
    /\ Drops(w)
    /\ past' = [past EXCEPT !.broken = past.broken \/ work[w].pc \in {"after", "audit"}]
    /\ UNCHANGED <<kind, doc, trail>>

(***************************************************************************)
(* writeAuditLog; what it throws is only logged, which is Breaks again.    *)
(* The entry of a request that had no company puts the log right.          *)
(***************************************************************************)
Audit(w) ==
    /\ WorkAt(w, "audit")
    /\ Drops(w)
    /\ trail' = work[w].want
    /\ past' = [past EXCEPT
           !.met = past.met /\ ~past.alone,
           !.broken = past.broken /\ ~past.alone,
           !.removals = Counts(past.removals, work[w].want = "none")]
    /\ UNCHANGED <<kind, doc>>

(* The application itself writes the record. *)
AppWrites(to) ==
    /\ doc' = to
    /\ trail' = to.status
    /\ past' = [past EXCEPT
           !.born = TRUE, !.alone = FALSE, !.met = past.met \/ Working # {},
           !.cancelled = Counts(past.cancelled, Cancels(to))]
    /\ UNCHANGED <<kind, work>>
-----------------------------------------------------------------------------
(* Properties *)

\* Every variable has its type, and the record a status of its kind.
FieldTypeOK ==
    /\ kind \in DOMAIN StatusOf
    /\ doc \in [status: StatusOf[kind] \cup {"none"}, side: Side]
    /\ work \in [Worker -> WorkState]
    /\ trail \in Status
    /\ past \in Past

=============================================================================
