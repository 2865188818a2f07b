------------------------------- MODULE UniqueRow -------------------------------
(***************************************************************************)
(* Creation under a unique column.  An application (by slug), an           *)
(* administrator (by e-mail) and the account of a first sign-in (by        *)
(* subject, then by e-mail) are looked up first and inserted afterwards:   *)
(* other requests run in between, and then only the index decides.         *)
(* Accounts that Central Admin creates and those that a sign-in creates    *)
(* share the e-mail column.  No such row is ever deleted.                  *)
(***************************************************************************)
EXTENDS FiniteSets

CONSTANTS
    Creator,     \* requests that may create
    Person       \* subjects at the identity provider

\* A subject is in no other column.
ASSUME PersonAssumption == Person \cap {"slug", "email"} = {}

VARIABLES
    table,       \* rows: see Row
    maker,       \* maker[c]: where request c stands and what it creates
    beaten       \* history: requests that lost their key to another's write

uniqueVars == <<table, maker, beaten>>

\* The unique columns; the keys of one application and of one e-mail address.
Key == {"slug", "email"} \cup Person

\* A row holds its unique values and remembers who inserted it.
Row == [keys: SUBSET Key, by: Creator]

\* What is created: an application, an administrator, a first sign-in.
Wish == {{"slug"}, {"email"}} \cup {{"email", p} : p \in Person}

Place == {"idle", "email", "link", "insert", "created", "found", "conflict", "error"}

Maker == [pc: Place, wish: Wish \cup {{}}]

UniqueInit ==
    /\ table = {}
    /\ maker = [c \in Creator |-> [pc |-> "idle", wish |-> {}]]
    /\ beaten = {}

-----------------------------------------------------------------------------
Holding(k) == {row \in table : k \in row.keys}

SubjectOf(keys) == keys \cap Person

Moves(c, pc) == maker' = [maker EXCEPT ![c].pc = pc]

\* The first findUnique.  A taken slug or address is a 409; a subject that is
\* linked already signs in.
LookUp(c, wish) ==
    /\ maker[c].pc = "idle"
    /\ LET key == IF SubjectOf(wish) = {} THEN CHOOSE k \in wish : TRUE
                  ELSE CHOOSE k \in SubjectOf(wish) : TRUE
       IN  maker' = [maker EXCEPT ![c] =
               [wish |-> wish,
                pc |-> IF Holding(key) # {}
                         THEN IF key \in Person THEN "found" ELSE "conflict"
                         ELSE IF key \in Person THEN "email" ELSE "insert"]]
    /\ beaten' = beaten \ {c}
    /\ UNCHANGED table

\* oidc.service: the account with the e-mail address is linked, once.
LookUpEmail(c) ==
    /\ maker[c].pc = "email"
    /\ Moves(c, IF Holding("email") = {} THEN "insert"
                ELSE IF \E row \in Holding("email") :
                            SubjectOf(row.keys) \subseteq maker[c].wish
                       THEN "link" ELSE "conflict")
    /\ UNCHANGED <<table, beaten>>

\* The requests that wait to write a key that is being written now.
Loses(c, keys) ==
    {d \in Creator \ {c} :
        maker[d].pc \in {"email", "link", "insert"} /\ maker[d].wish \cap keys # {}}

\* Mutant: an upsert on the key, like those of the seed.
InsertUpsert(c) ==
    /\ maker[c].pc = "insert"
    /\ Moves(c, "created")
    /\ table' = {row \in table : row.keys \cap maker[c].wish = {}}
                    \cup {[keys |-> maker[c].wish, by |-> c]}
    /\ beaten' = beaten \cup Loses(c, maker[c].wish)

\* `create`: the unique indexes refuse a second row; that is no AppError, so
\* the error handler answers 500 (a sign-in is sent back with an error).
Insert(c) ==
    /\ maker[c].pc = "insert"
    /\ IF \E k \in maker[c].wish : Holding(k) # {}
         THEN Moves(c, "error") /\ UNCHANGED <<table, beaten>>
         ELSE /\ Moves(c, "created")
              /\ table' = table \cup {[keys |-> maker[c].wish, by |-> c]}
              /\ beaten' = beaten \cup Loses(c, maker[c].wish)

\* `update ... oidcSubject`: of the row that was read, whoever linked it since.
Link(c) ==
    /\ maker[c].pc = "link"
    /\ \E row \in Holding("email") :
          LET linked == [row EXCEPT !.keys = {"email"} \cup SubjectOf(maker[c].wish)]
          IN  IF \E other \in table \ {row} : other.keys \cap linked.keys # {}
                THEN Moves(c, "error") /\ UNCHANGED <<table, beaten>>
                ELSE /\ Moves(c, "found")
                     /\ table' = (table \ {row}) \cup {linked}
                     /\ beaten' = beaten \cup Loses(c, linked.keys)

\* The answer has been read, and the person may try again.
Again(c) ==
    /\ maker[c].pc \in {"found", "conflict", "error"}
    /\ maker' = [maker EXCEPT ![c] = [pc |-> "idle", wish |-> {}]]
    /\ beaten' = beaten \ {c}
    /\ UNCHANGED table

UniqueNext ==
    \E c \in Creator :
        \/ \E wish \in Wish : LookUp(c, wish)
        \/ LookUpEmail(c)
        \/ Insert(c)
        \/ Link(c)
        \/ Again(c)

UniqueSpec == UniqueInit /\ [][UniqueNext]_uniqueVars
-----------------------------------------------------------------------------
UniqueTypeOK ==
    /\ table \subseteq Row
    /\ maker \in [Creator -> Maker]
    /\ beaten \subseteq Creator

\* Whoever was told that the row was created has a row of its own, and no two
\* rows share a value: of two creations with one key one succeeds, in whatever
\* order their look-ups and inserts came.  The unexpected answer, 500, is kept
\* for requests that were overtaken: alone, or after the other, a request is
\* told what is wrong.
CreatedOnce ==
    /\ \A c \in Creator :
          /\ maker[c].pc = "created" => Cardinality({row \in table : row.by = c}) = 1
          /\ maker[c].pc = "error" => c \in beaten
    /\ \A row1, row2 \in table : row1.keys \cap row2.keys # {} => row1 = row2
=============================================================================
