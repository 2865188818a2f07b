----------------------------- MODULE CredentialRefs -----------------------------
(***************************************************************************)
(* configureIntegration writes the integration's row and then, one         *)
(* statement after another, its credential references: those that are no   *)
(* longer named are deleted and the others written one by one.  Two        *)
(* requests may do so at the same time, and one may break off half-way.    *)
(***************************************************************************)
EXTENDS FiniteSets, Sequences, SequencesExt

CONSTANTS
    Put,          \* PUT requests under way at the same time
    Ref           \* names of credential references

ASSUME RefAssumption == IsFiniteSet(Ref)

VARIABLES
    settings,     \* the request whose settings the row holds, or none
    refs,         \* the CredentialReference rows, by name: whose key they hold
    put,          \* put[q]: where request q stands, what it has still to write
    listed,       \* history: the last request that named any, and its names
    mixed         \* history: it had company, or broke off

refVars == <<settings, refs, put, listed, mixed>>

None == "none"

PutPC == {"idle", "delete", "write", "event"}

\* names as the body lists them, of which `done` are written.
PutState ==
    [pc: PutPC, names: {SetToSeq(s) : s \in SUBSET Ref}, done: 0..Cardinality(Ref)]

Waiting == [pc |-> "idle", names |-> <<>>, done |-> 0]

RefsInit ==
    /\ settings = None
    /\ refs = [n \in Ref |-> None]
    /\ put = [q \in Put |-> Waiting]
    /\ listed = [by |-> None, names |-> {}]
    /\ mixed = FALSE

-----------------------------------------------------------------------------
Busy == {q \in Put : put[q].pc # "idle"}

\* The row's upsert.  A body without references ends with the event.
UpsertRow(q) ==
    /\ put[q].pc = "idle"
    /\ settings' = q
    /\ \/ \E names \in SUBSET Ref :
             /\ put' = [put EXCEPT ![q] =
                           [pc |-> "delete", names |-> SetToSeq(names), done |-> 0]]
             /\ listed' = [by |-> q, names |-> names]
             /\ mixed' = (Busy # {})
       \/ /\ put' = [put EXCEPT ![q].pc = "event"]
          /\ mixed' = (Busy # {} \/ mixed)
          /\ UNCHANGED listed
    /\ UNCHANGED refs

Named(q) == ToSet(put[q].names)

\* Mutant: no list, no deletion.
DeleteIfAnyNamed(q) ==
    /\ put[q].pc = "delete"
    /\ refs' = [n \in Ref |-> IF n \in Named(q) \/ Named(q) = {} THEN refs[n] ELSE None]
    /\ put' = [put EXCEPT ![q].pc = IF Named(q) = {} THEN "event" ELSE "write"]
    /\ UNCHANGED <<settings, listed, mixed>>

\* deleteMany { name notIn names }; a list that is empty deletes them all.
DeleteUnnamed(q) ==
    /\ put[q].pc = "delete"
    /\ refs' = [n \in Ref |-> IF n \in Named(q) THEN refs[n] ELSE None]
    /\ put' = [put EXCEPT ![q].pc = IF Named(q) = {} THEN "event" ELSE "write"]
    /\ UNCHANGED <<settings, listed, mixed>>

\* The upsert of the next reference.
WriteRef(q) ==
    /\ put[q].pc = "write"
    /\ LET n == put[q].names[put[q].done + 1]
           end == put[q].done + 1 = Len(put[q].names)
       IN  /\ refs' = [refs EXCEPT ![n] = q]
           /\ put' = [put EXCEPT ![q] =
                  [put[q] EXCEPT !.done = put[q].done + 1,
                                 !.pc = IF end THEN "event" ELSE "write"]]
    /\ UNCHANGED <<settings, listed, mixed>>

\* The event rows are written, and the configuration is read back.
Configured(q) ==
    /\ put[q].pc = "event"
    /\ put' = [put EXCEPT ![q] = Waiting]
    /\ UNCHANGED <<settings, refs, listed, mixed>>

\* A statement fails, or the process ends: what was written stays.
BreaksOff(q) ==
    /\ put[q].pc # "idle"
    /\ put' = [put EXCEPT ![q] = Waiting]
    /\ mixed' = TRUE
    /\ UNCHANGED <<settings, refs, listed>>

RefsNext ==
    \E q \in Put :
        \/ UpsertRow(q) \/ DeleteUnnamed(q) \/ WriteRef(q)
        \/ Configured(q) \/ BreaksOff(q)

RefsSpec == RefsInit /\ [][RefsNext]_refVars
-----------------------------------------------------------------------------
RefsTypeOK ==
    /\ settings \in Put \cup {None}
    /\ refs \in [Ref -> Put \cup {None}]
    /\ put \in [Put -> PutState]
    /\ \A q \in Put : put[q].pc = "write" => put[q].done < Len(put[q].names)
    /\ listed.by \in Put \cup {None} /\ listed.names \subseteq Ref
    /\ mixed \in BOOLEAN

\* When nobody is writing, the references are those that the last request with
\* a list named, each as that request wrote it: unless two requests overlapped
\* or one broke off, when they may be of both, or half of one.
RefsAreAsListed ==
    Busy = {} /\ ~mixed =>
        refs = [n \in Ref |-> IF n \in listed.names THEN listed.by ELSE None]
=============================================================================
