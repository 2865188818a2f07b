----------------------------- MODULE RecordsProofs -----------------------------
(***************************************************************************)
(* What holds of the records that Central Admin keeps, for any number of   *)
(* requests, editors and deployments that write them at the same time.     *)
(***************************************************************************)
EXTENDS RecordsMC, FunctionTheorems, FiniteSetTheorems, TLAPS

-----------------------------------------------------------------------------
(***************************************************************************)
(* Rows under a unique column.  A row has a key, and no two rows share     *)
(* one; a request has a row just when it was told so, and one only; and    *)
(* who was not overtaken finds the table as it has looked it up: nobody    *)
(* has the subject that it is about to link, or any key that it is about   *)
(* to insert.                                                              *)
(***************************************************************************)
Apart ==
    \A row1, row2 \in table : row1.keys \cap row2.keys # {} => row1 = row2

Keyed == \A row \in table : row.keys # {}

Made ==
    /\ \A c \in Creator : maker[c].pc = "created" => \E row \in table : row.by = c
    /\ \A row \in table : maker[row.by].pc = "created"
    /\ \A row1, row2 \in table : row1.by = row2.by => row1 = row2

Unbeaten ==
    \A c \in Creator \ beaten :
        /\ maker[c].pc # "error"
        /\ maker[c].pc \in {"email", "link"} =>
              \A row \in table : row.keys \cap SubjectOf(maker[c].wish) = {}
        /\ maker[c].pc = "insert" => \A row \in table : row.keys \cap maker[c].wish = {}

Seeks(q) ==
    /\ q.pc \in {"email", "link"} => SubjectOf(q.wish) # {}
    /\ q.pc = "insert" => q.wish # {}

Seeking == \A c \in Creator : Seeks(maker[c])

UniqueInv == UniqueTypeOK /\ Apart /\ Keyed /\ Made /\ Unbeaten /\ Seeking

\* Before the first request there is no row.
LEMMA UniqueInitially == UniqueInit => UniqueInv
<1> SUFFICES ASSUME UniqueInit PROVE UniqueInv
    OBVIOUS
<1>1. \A c \in Creator : maker[c] = [pc |-> "idle", wish |-> {}]
    BY DEF UniqueInit
<1>2. UniqueTypeOK
    BY DEF UniqueInit, UniqueTypeOK, Maker, Place
<1>3. Apart /\ Keyed /\ Made /\ Unbeaten /\ Seeking
    BY <1>1 DEF UniqueInit, Apart, Keyed, Made, Unbeaten, Seeking, Seeks
<1> QED
    BY <1>2, <1>3 DEF UniqueInv

\* What a look-up looks for: the subject if there is one, else the only key.
LEMMA KeyOfWish ==
    ASSUME NEW wish \in Wish
    PROVE  /\ wish # {} /\ wish \subseteq Key
           /\ SubjectOf(wish) = {} => wish = {CHOOSE k \in wish : TRUE}
                                      /\ (CHOOSE k \in wish : TRUE) \notin Person
           /\ SubjectOf(wish) # {} =>
                 /\ SubjectOf(wish) = {CHOOSE k \in SubjectOf(wish) : TRUE}
                 /\ (CHOOSE k \in SubjectOf(wish) : TRUE) \in Person
                 /\ wish = {"email"} \cup SubjectOf(wish)
<1>1. CASE \E key \in {"slug", "email"} : wish = {key}
  <2>1. PICK key \in {"slug", "email"} : wish = {key}
    BY <1>1
  <2>2. key \notin Person
    BY PersonAssumption
  <2>3. (CHOOSE k \in {key} : TRUE) = key
    OBVIOUS
  <2>4. SubjectOf(wish) = {}
    BY <2>1, <2>2 DEF SubjectOf
  <2> QED
    BY <2>1, <2>2, <2>3, <2>4 DEF Key
<1>2. CASE \E p \in Person : wish = {"email", p}
  <2>1. PICK p \in Person : wish = {"email", p}
    BY <1>2
  <2>2. "email" \notin Person
    BY PersonAssumption
  <2>3. SubjectOf(wish) = {p}
    BY <2>1, <2>2 DEF SubjectOf
  <2>4. (CHOOSE k \in {p} : TRUE) = p
    OBVIOUS
  <2> QED
    BY <2>1, <2>3, <2>4 DEF Key
<1> QED
    BY <1>1, <1>2 DEF Wish
\* What a request that was not overtaken may rely on.
Trusts(q) ==
    /\ q.pc # "error"
    /\ q.pc \in {"email", "link"} =>
          \A row \in table : row.keys \cap SubjectOf(q.wish) = {}
    /\ q.pc = "insert" => \A row \in table : row.keys \cap q.wish = {}

\* A request moves and the table stays as it is.
LEMMA MovesSound ==
    ASSUME UniqueInv, NEW c \in Creator, NEW q \in Maker,
           maker' = [maker EXCEPT ![c] = q], table' = table,
           beaten' \in {beaten, beaten \ {c}},
           maker[c].pc # "created", q.pc # "created",
           c \notin beaten' => Trusts(q),
           Seeks(q)
    PROVE  UniqueInv'
<1>1. maker'[c] = q /\ \A d \in Creator \ {c} : maker'[d] = maker[d]
    BY DEF UniqueInv, UniqueTypeOK
<1>2. UniqueTypeOK'
    BY DEF UniqueInv, UniqueTypeOK
<1>3. Apart' /\ Keyed'
    BY DEF UniqueInv, Apart, Keyed
<1>4. Made'
  <2>1. ASSUME NEW row \in table PROVE row.by \in Creator \ {c} /\ maker'[row.by].pc = "created"
    BY <1>1 DEF UniqueInv, UniqueTypeOK, Made, Row
  <2>2. ASSUME NEW d \in Creator, maker'[d].pc = "created" PROVE \E row \in table' : row.by = d
    BY <1>1, <2>2 DEF UniqueInv, Made
  <2> QED
    BY <2>1, <2>2 DEF UniqueInv, Made
<1>5. Unbeaten'
  <2> SUFFICES ASSUME NEW d \in Creator \ beaten'
               PROVE  /\ maker'[d].pc # "error"
                      /\ maker'[d].pc \in {"email", "link"} =>
                            \A row \in table' : row.keys \cap SubjectOf(maker'[d].wish) = {}
                      /\ maker'[d].pc = "insert" =>
                            \A row \in table' : row.keys \cap maker'[d].wish = {}
    BY DEF Unbeaten, SubjectOf
  <2>1. CASE d = c
    BY <1>1, <2>1 DEF Trusts
  <2>2. CASE d # c
    <3>1. d \notin beaten /\ maker'[d] = maker[d]
      BY <1>1, <2>2
    <3> QED
      BY <3>1 DEF UniqueInv, Unbeaten
  <2> QED
    BY <2>1, <2>2
<1>6. Seeking'
    BY <1>1 DEF UniqueInv, Seeking, Seeks, SubjectOf
<1> QED
    BY <1>2, <1>3, <1>4, <1>5, <1>6 DEF UniqueInv

\* A creator that moves on keeps what it wishes.
LEMMA MovesIs ==
    ASSUME UniqueTypeOK, NEW c \in Creator, NEW pc \in Place, Moves(c, pc)
    PROVE  /\ [pc |-> pc, wish |-> maker[c].wish] \in Maker
           /\ maker' = [maker EXCEPT ![c] = [pc |-> pc, wish |-> maker[c].wish]]
<1>1. maker[c] \in Maker
    BY DEF UniqueTypeOK
<1>2. [maker[c] EXCEPT !.pc = pc] = [pc |-> pc, wish |-> maker[c].wish]
    BY <1>1 DEF Maker
<1> QED
    BY <1>1, <1>2 DEF Maker, Moves

\* A look-up that finds nothing goes on with its wish.
LEMMA LookUpKeeps ==
    ASSUME UniqueInv, NEW c \in Creator, NEW wish \in Wish, LookUp(c, wish)
    PROVE  UniqueInv'
<1> DEFINE key == IF SubjectOf(wish) = {} THEN CHOOSE k \in wish : TRUE
                  ELSE CHOOSE k \in SubjectOf(wish) : TRUE
           q == [wish |-> wish,
                 pc |-> IF Holding(key) # {}
                          THEN IF key \in Person THEN "found" ELSE "conflict"
                          ELSE IF key \in Person THEN "email" ELSE "insert"]
<1>1. /\ maker[c].pc = "idle" /\ maker' = [maker EXCEPT ![c] = q]
      /\ beaten' = beaten \ {c} /\ table' = table
    BY DEF LookUp
<1>2. q \in Maker /\ q.pc \in {"found", "conflict", "email", "insert"} /\ q.wish = wish
    BY DEF Maker, Place
<1>3. Trusts(q)
  <2>1. Holding(key) = {} => \A row \in table : key \notin row.keys
    BY DEF Holding
  <2>2. CASE SubjectOf(wish) = {}
    <3>1. wish = {key} /\ key \notin Person
      BY <2>2, KeyOfWish
    <3>2. q.pc = "insert" => Holding(key) = {}
      BY <3>1
    <3>3. q.pc \notin {"email", "link", "error"}
      BY <3>1
    <3> QED
      BY <2>1, <3>1, <3>2, <3>3 DEF Trusts
  <2>3. CASE SubjectOf(wish) # {}
    <3>1. SubjectOf(wish) = {key} /\ key \in Person
      BY <2>3, KeyOfWish
    <3>2. q.pc = "email" => Holding(key) = {}
      BY <3>1
    <3>3. q.pc \notin {"insert", "link", "error"}
      BY <3>1
    <3> QED
      BY <2>1, <3>1, <3>2, <3>3 DEF Trusts
  <2> QED
    BY <2>2, <2>3
<1>4. Seeks(q)
  <2>1. wish # {} /\ (SubjectOf(wish) = {} => key \notin Person)
    BY KeyOfWish
  <2> QED
    BY <1>2, <2>1 DEF Seeks
<1> HIDE DEF q
<1> QED
    BY <1>1, <1>2, <1>3, <1>4, MovesSound

\* So does the second look-up of a first sign-in.
LEMMA LookUpEmailKeeps ==
    ASSUME UniqueInv, NEW c \in Creator, LookUpEmail(c)
    PROVE  UniqueInv'
<1> DEFINE pc == IF Holding("email") = {} THEN "insert"
                 ELSE IF \E row \in Holding("email") :
                             SubjectOf(row.keys) \subseteq maker[c].wish
                        THEN "link" ELSE "conflict"
           q == [pc |-> pc, wish |-> maker[c].wish]
<1>1. /\ maker[c].pc = "email" /\ Moves(c, pc) /\ table' = table /\ beaten' = beaten
    BY DEF LookUpEmail
<1>2. pc \in Place /\ pc \in {"insert", "link", "conflict"}
    BY DEF Place
<1>3. q \in Maker /\ maker' = [maker EXCEPT ![c] = q]
    BY <1>1, <1>2, MovesIs DEF UniqueInv
<1>4. ASSUME c \notin beaten PROVE Trusts(q)
  <2>1. \A row \in table : row.keys \cap SubjectOf(maker[c].wish) = {}
    BY <1>1, <1>4 DEF UniqueInv, Unbeaten
  <2>2. ASSUME pc = "insert", NEW row \in table PROVE row.keys \cap maker[c].wish = {}
    <3>1. "email" \notin row.keys
      BY <2>2 DEF Holding
    <3>2. row.keys \subseteq Key /\ maker[c].wish \in Wish \cup {{}}
      BY DEF UniqueInv, UniqueTypeOK, Row, Maker
    <3>3. SubjectOf(maker[c].wish) # {}
      BY <1>1 DEF UniqueInv, Seeking, Seeks
    <3> QED
      BY <2>1, <3>1, <3>2, <3>3, KeyOfWish DEF SubjectOf
  <2> QED
    BY <1>2, <2>1, <2>2 DEF Trusts
<1>5. Seeks(q)
    BY <1>1 DEF UniqueInv, Seeking, Seeks, SubjectOf
<1>6. q.pc = pc
    OBVIOUS
<1> HIDE DEF q, pc
<1> QED
    BY <1>1, <1>2, <1>3, <1>4, <1>5, <1>6, MovesSound
(***************************************************************************)
(* A write: keys are those of the row that c writes, in place of old.      *)
(* Whoever still waits to write one of them was overtaken.                 *)
(***************************************************************************)
LEMMA OthersKeepTrust ==
    ASSUME UniqueInv, NEW c \in Creator, NEW keys \in SUBSET Key,
           beaten' = beaten \cup Loses(c, keys),
           \A row \in table' : row \in table \/ row.keys = keys,
           NEW d \in Creator \ {c}, d \notin beaten', maker'[d] = maker[d]
    PROVE  /\ maker'[d].pc # "error"
           /\ maker'[d].pc \in {"email", "link"} =>
                 \A row \in table' : row.keys \cap SubjectOf(maker'[d].wish) = {}
           /\ maker'[d].pc = "insert" =>
                 \A row \in table' : row.keys \cap maker'[d].wish = {}
<1>1. d \in Creator \ beaten /\ d \notin Loses(c, keys)
    OBVIOUS
<1>2. maker[d].pc \in {"email", "link", "insert"} => maker[d].wish \cap keys = {}
    BY <1>1 DEF Loses
<1>3. SubjectOf(maker[d].wish) \subseteq maker[d].wish
    BY DEF SubjectOf
<1> QED
    BY <1>1, <1>2, <1>3 DEF UniqueInv, Unbeaten

\* An insert makes a row of its own, or meets the unique index.
LEMMA InsertKeeps ==
    ASSUME UniqueInv, NEW c \in Creator, Insert(c)
    PROVE  UniqueInv'
<1>1. maker[c].pc = "insert" /\ maker[c] \in Maker
    BY DEF Insert, UniqueInv, UniqueTypeOK
<1>2. CASE \E k \in maker[c].wish : Holding(k) # {}
  <2> DEFINE q == [pc |-> "error", wish |-> maker[c].wish]
  <2>1. Moves(c, "error") /\ table' = table /\ beaten' = beaten
    BY <1>2 DEF Insert
  <2>2. q \in Maker /\ maker' = [maker EXCEPT ![c] = q]
    BY <2>1, MovesIs DEF UniqueInv, Place
  <2>3. c \in beaten
    BY <1>1, <1>2 DEF Holding, UniqueInv, Unbeaten
  <2>4. q.pc = "error"
    OBVIOUS
  <2>5. Seeks(q)
    BY <2>4 DEF Seeks
  <2> HIDE DEF q
  <2> QED
    BY <1>1, <2>1, <2>2, <2>3, <2>4, <2>5, MovesSound
<1>3. CASE ~\E k \in maker[c].wish : Holding(k) # {}
  <2> DEFINE keys == maker[c].wish
             new == [keys |-> keys, by |-> c]
             q == [pc |-> "created", wish |-> keys]
  <2>1. /\ Moves(c, "created") /\ table' = table \cup {new}
        /\ beaten' = beaten \cup Loses(c, keys)
    BY <1>3 DEF Insert
  <2>2. q \in Maker /\ maker' = [maker EXCEPT ![c] = q]
    BY <2>1, MovesIs DEF UniqueInv, Place
  <2>3. q.pc = "created" /\ new.keys = keys /\ new.by = c
    OBVIOUS
  <2>4. maker'[c] = q /\ \A d \in Creator \ {c} : maker'[d] = maker[d]
    BY <2>2 DEF UniqueInv, UniqueTypeOK
  <2>5. keys \in Wish /\ keys \subseteq Key /\ new \in Row
    <3>1. keys # {}
      BY <1>1 DEF UniqueInv, Seeking, Seeks
    <3> QED
      BY <1>1, <3>1, KeyOfWish DEF Maker, Row
  <2> HIDE DEF new, q, keys
  <2>6. UniqueTypeOK'
    BY <2>1, <2>2, <2>5 DEF UniqueInv, UniqueTypeOK, Loses
  <2>7. \A row \in table : row.keys \cap keys = {}
    BY <1>3 DEF Holding, keys
  <2>8. keys # {}
    BY <2>5, KeyOfWish
  <2>9. Apart' /\ Keyed'
    BY <2>1, <2>3, <2>7, <2>8 DEF UniqueInv, Apart, Keyed
  <2>10. Made'
    <3>1. \A row \in table : row.by \in Creator \ {c}
      BY <1>1 DEF UniqueInv, UniqueTypeOK, Made, Row
    <3>2. \A row \in table' : maker'[row.by].pc = "created"
      BY <2>1, <2>3, <2>4, <3>1 DEF UniqueInv, Made
    <3>3. ASSUME NEW d \in Creator, maker'[d].pc = "created" PROVE \E row \in table' : row.by = d
      BY <2>1, <2>3, <2>4, <3>3 DEF UniqueInv, Made
    <3>4. \A row1, row2 \in table' : row1.by = row2.by => row1 = row2
      BY <2>1, <2>3, <3>1 DEF UniqueInv, Made
    <3> QED
      BY <3>2, <3>3, <3>4 DEF Made
  <2>11. Unbeaten'
    <3> SUFFICES ASSUME NEW d \in Creator \ beaten'
                 PROVE  /\ maker'[d].pc # "error"
                        /\ maker'[d].pc \in {"email", "link"} =>
                              \A row \in table' : row.keys \cap SubjectOf(maker'[d].wish) = {}
                        /\ maker'[d].pc = "insert" =>
                              \A row \in table' : row.keys \cap maker'[d].wish = {}
      BY DEF Unbeaten, SubjectOf
    <3>1. CASE d = c
      BY <2>3, <2>4, <3>1
    <3>2. CASE d # c
      <4>1. \A row \in table' : row \in table \/ row.keys = keys
        BY <2>1, <2>3
      <4>2. maker'[d] = maker[d]
        BY <2>4, <3>2
      <4> QED
        BY <2>1, <2>5, <3>2, <4>1, <4>2, OthersKeepTrust
    <3> QED
      BY <3>1, <3>2
  <2>12. Seeking'
    BY <2>3, <2>4 DEF UniqueInv, Seeking, Seeks, SubjectOf
  <2> QED
    BY <2>6, <2>9, <2>10, <2>11, <2>12 DEF UniqueInv
<1> QED
    BY <1>2, <1>3
\* A sign-in that links a row makes none.
LEMMA LinkKeeps ==
    ASSUME UniqueInv, NEW c \in Creator, Link(c)
    PROVE  UniqueInv'
<1> DEFINE Linked(row) == [row EXCEPT !.keys = {"email"} \cup SubjectOf(maker[c].wish)]
<1>1. maker[c].pc = "link" /\ maker[c] \in Maker
    BY DEF Link, UniqueInv, UniqueTypeOK
<1>2. PICK row \in Holding("email") :
          IF \E other \in table \ {row} : other.keys \cap Linked(row).keys # {}
            THEN Moves(c, "error") /\ UNCHANGED <<table, beaten>>
            ELSE /\ Moves(c, "found")
                 /\ table' = (table \ {row}) \cup {Linked(row)}
                 /\ beaten' = beaten \cup Loses(c, Linked(row).keys)
    BY DEF Link
<1> DEFINE keys == {"email"} \cup SubjectOf(maker[c].wish)
           new == Linked(row)
<1>3. row \in table /\ "email" \in row.keys /\ row \in Row
    BY DEF Holding, UniqueInv, UniqueTypeOK
<1>4. new \in Row /\ new.keys = keys /\ new.by = row.by /\ keys \in SUBSET Key /\ keys # {}
  <2>1. keys \subseteq Key
    BY DEF Key, SubjectOf
  <2> QED
    BY <1>3, <2>1 DEF Row
<1> HIDE DEF new, keys
<1>5. CASE \E other \in table \ {row} : other.keys \cap keys # {}
  <2> DEFINE q == [pc |-> "error", wish |-> maker[c].wish]
  <2>1. Moves(c, "error") /\ table' = table /\ beaten' = beaten
    BY <1>2, <1>4, <1>5 DEF new
  <2>2. q \in Maker /\ maker' = [maker EXCEPT ![c] = q]
    BY <2>1, MovesIs DEF UniqueInv, Place
  <2>3. c \in beaten
    <3> SUFFICES ASSUME c \notin beaten PROVE FALSE
      OBVIOUS
    <3>1. PICK other \in table \ {row} : other.keys \cap keys # {}
      BY <1>5
    <3>2. other.keys \cap SubjectOf(maker[c].wish) = {}
      BY <1>1 DEF UniqueInv, Unbeaten
    <3>3. "email" \in other.keys
      BY <3>1, <3>2 DEF keys
    <3> QED
      BY <1>3, <3>1, <3>3 DEF UniqueInv, Apart
  <2>4. q.pc = "error" /\ Seeks(q)
    BY DEF Seeks
  <2> HIDE DEF q
  <2> QED
    BY <1>1, <2>1, <2>2, <2>3, <2>4, MovesSound
<1>6. CASE ~\E other \in table \ {row} : other.keys \cap keys # {}
  <2> DEFINE q == [pc |-> "found", wish |-> maker[c].wish]
  <2>1. /\ Moves(c, "found") /\ table' = (table \ {row}) \cup {new}
        /\ beaten' = beaten \cup Loses(c, keys)
    BY <1>2, <1>4, <1>6 DEF new
  <2>2. q \in Maker /\ maker' = [maker EXCEPT ![c] = q]
    BY <2>1, MovesIs DEF UniqueInv, Place
  <2>3. q.pc = "found"
    OBVIOUS
  <2> HIDE DEF q
  <2>4. maker'[c] = q /\ \A d \in Creator \ {c} : maker'[d] = maker[d]
    BY <2>2 DEF UniqueInv, UniqueTypeOK
  <2>5. UniqueTypeOK'
    BY <1>4, <2>1, <2>2 DEF UniqueInv, UniqueTypeOK, Loses
  <2>6. Apart' /\ Keyed'
    BY <1>4, <1>6, <2>1 DEF UniqueInv, Apart, Keyed
  <2>7. Made'
    <3>1. \A other \in table : other.by \in Creator \ {c}
      BY <1>1 DEF UniqueInv, UniqueTypeOK, Made, Row
    <3>2. \A other \in table' : maker'[other.by].pc = "created"
      BY <1>3, <1>4, <2>1, <2>4, <3>1 DEF UniqueInv, Made
    <3>3. ASSUME NEW d \in Creator, maker'[d].pc = "created"
          PROVE  \E other \in table' : other.by = d
      <4>1. d # c /\ maker'[d] = maker[d]
        BY <2>3, <2>4, <3>3
      <4>2. PICK other \in table : other.by = d
        BY <3>3, <4>1 DEF UniqueInv, Made
      <4>3. CASE other = row
        BY <1>4, <2>1, <4>2, <4>3
      <4>4. CASE other # row
        BY <2>1, <4>2, <4>4
      <4> QED
        BY <4>3, <4>4
    <3>4. \A row1, row2 \in table' : row1.by = row2.by => row1 = row2
      BY <1>3, <1>4, <2>1 DEF UniqueInv, Made
    <3> QED
      BY <3>2, <3>3, <3>4 DEF Made
  <2>8. Unbeaten'
    <3> SUFFICES ASSUME NEW d \in Creator \ beaten'
                 PROVE  /\ maker'[d].pc # "error"
                        /\ maker'[d].pc \in {"email", "link"} =>
                              \A other \in table' :
                                 other.keys \cap SubjectOf(maker'[d].wish) = {}
                        /\ maker'[d].pc = "insert" =>
                              \A other \in table' : other.keys \cap maker'[d].wish = {}
      BY DEF Unbeaten, SubjectOf
    <3>1. CASE d = c
      BY <2>3, <2>4, <3>1
    <3>2. CASE d # c
      <4>1. \A other \in table' : other \in table \/ other.keys = keys
        BY <1>4, <2>1
      <4>2. maker'[d] = maker[d]
        BY <2>4, <3>2
      <4> QED
        BY <1>4, <2>1, <3>2, <4>1, <4>2, OthersKeepTrust
    <3> QED
      BY <3>1, <3>2
  <2>9. Seeking'
    BY <2>3, <2>4 DEF UniqueInv, Seeking, Seeks, SubjectOf
  <2> QED
    BY <2>5, <2>6, <2>7, <2>8, <2>9 DEF UniqueInv
<1> QED
    BY <1>5, <1>6

\* A creator that starts again has no row it was told of.
LEMMA AgainKeeps ==
    ASSUME UniqueInv, NEW c \in Creator, Again(c)
    PROVE  UniqueInv'
<1> DEFINE q == [pc |-> "idle", wish |-> {}]
<1>1. q \in Maker /\ q.pc = "idle"
    BY DEF Maker, Place
<1>2. /\ maker[c].pc # "created" /\ maker' = [maker EXCEPT ![c] = q]
      /\ beaten' = beaten \ {c} /\ table' = table
    BY DEF Again
<1>3. Trusts(q) /\ Seeks(q)
    BY <1>1 DEF Trusts, Seeks
<1> HIDE DEF q
<1> QED
    BY <1>1, <1>2, <1>3, MovesSound

\* Every step keeps UniqueInv.
LEMMA UniqueStep == UniqueInv /\ [UniqueNext]_uniqueVars => UniqueInv'
<1> SUFFICES ASSUME UniqueInv, [UniqueNext]_uniqueVars PROVE UniqueInv'
    OBVIOUS
<1>1. ASSUME NEW c \in Creator, NEW wish \in Wish, LookUp(c, wish) PROVE UniqueInv'
    BY <1>1, LookUpKeeps
<1>2. ASSUME NEW c \in Creator, LookUpEmail(c) PROVE UniqueInv'
    BY <1>2, LookUpEmailKeeps
<1>3. ASSUME NEW c \in Creator, Insert(c) PROVE UniqueInv'
    BY <1>3, InsertKeeps
<1>4. ASSUME NEW c \in Creator, Link(c) PROVE UniqueInv'
    BY <1>4, LinkKeeps
<1>5. ASSUME NEW c \in Creator, Again(c) PROVE UniqueInv'
    BY <1>5, AgainKeeps
<1>6. CASE UNCHANGED uniqueVars
    BY <1>6 DEF uniqueVars, UniqueInv, UniqueTypeOK, Apart, Keyed, Made, Unbeaten, Seeking,
               Seeks, SubjectOf
<1> QED
    BY <1>1, <1>2, <1>3, <1>4, <1>5, <1>6 DEF UniqueNext

\* A request's own row is the only one of its name.
LEMMA OneRowEach ==
    ASSUME UniqueInv, NEW c \in Creator, maker[c].pc = "created"
    PROVE  Cardinality({row \in table : row.by = c}) = 1
<1>1. PICK row \in table : row.by = c
    BY DEF UniqueInv, Made
<1>2. {other \in table : other.by = c} = {row}
    BY <1>1 DEF UniqueInv, Made
<1> QED
    BY <1>2, FS_Singleton

(***************************************************************************)
(* For any number of concurrent creations and first sign-ins: who was told *)
(* that the row was created has one of its own, no two rows share a unique *)
(* value, and the unexpected answer is for requests that were overtaken    *)
(* (applications.service.ts, adminUsers.service.ts, oidc.service.ts).      *)
(***************************************************************************)
THEOREM RowsUnique == UniqueSpec => []CreatedOnce
<1>1. UniqueInv => CreatedOnce
    BY OneRowEach DEF UniqueInv, Apart, Unbeaten, CreatedOnce
<1> QED
    BY <1>1, UniqueInitially, UniqueStep, PTL DEF UniqueSpec
-----------------------------------------------------------------------------
(***************************************************************************)
(* The seed.  A run that has got past the permissions has them all and     *)
(* carries what the catalog says of its role.  While some run has deleted  *)
(* a role's rows nobody writes others than the catalog's, so what the run  *)
(* adds makes them complete.                                               *)
(***************************************************************************)
Equipped ==
    \A s \in Seeder :
        /\ seeder[s].pc \in {"find", "delete", "insert"} => permission = Perm
        /\ seeder[s].pc \in {"delete", "insert"} =>
              seeder[s].ids = RolePermissions[seeder[s].role]

NothingElse ==
    \A r \in SeedRole : InHand(r) => mapping[r] \subseteq RolePermissions[r]

SeedInv == SeedTypeOK /\ Equipped /\ NothingElse /\ RolesAreSeeded

\* The catalog gives each role permissions that there are.
LEMMA RolePermissionsType ==
    \A r \in SeedRole : RolePermissions[r] \in SUBSET Perm
<1>1. (CHOOSE p \in Perm : TRUE) \in Perm
    BY PermAssumption
<1> QED
    BY <1>1 DEF RolePermissions

\* A seed that is not running has its type.
LEMMA NotRunningIsRun == NotRunning \in Run /\ NotRunning.pc = "idle"
<1>1. 1 \in SeedRole
    BY RoleCountAssumption DEF SeedRole
<1> QED
    BY <1>1 DEF NotRunning, Run

\* A run goes on, and no role's rows change.
LEMMA RunsOn ==
    ASSUME SeedInv, NEW s \in Seeder, NEW q \in Run,
           seeder' = [seeder EXCEPT ![s] = q], mapping' = mapping,
           permission \subseteq permission', permission' \subseteq Perm,
           torn' = torn, seeder[s].pc # "insert", q.pc # "insert",
           q.pc \in {"find", "delete"} => permission' = Perm,
           q.pc = "delete" => q.ids = RolePermissions[q.role]
    PROVE  SeedInv'
<1>1. seeder'[s] = q /\ \A t \in Seeder \ {s} : seeder'[t] = seeder[t]
    BY DEF SeedInv, SeedTypeOK
<1>2. SeedTypeOK'
    BY DEF SeedInv, SeedTypeOK
<1>3. Equipped'
  <2>1. permission = Perm => permission' = Perm
    OBVIOUS
  <2>2. ASSUME NEW t \in Seeder
        PROVE  /\ seeder'[t].pc \in {"find", "delete", "insert"} => permission' = Perm
               /\ seeder'[t].pc \in {"delete", "insert"} =>
                     seeder'[t].ids = RolePermissions[seeder'[t].role]
    <3>1. CASE t = s
      BY <1>1, <3>1
    <3>2. CASE t # s
      BY <1>1, <2>1, <3>2 DEF SeedInv, Equipped
    <3> QED
      BY <3>1, <3>2
  <2> QED
    BY <2>2 DEF Equipped
<1>4. \A r \in SeedRole : InHand(r)' <=> InHand(r)
    BY <1>1 DEF InHand
<1>5. NothingElse' /\ RolesAreSeeded'
    BY <1>4 DEF SeedInv, NothingElse, RolesAreSeeded
<1> QED
    BY <1>2, <1>3, <1>5 DEF SeedInv

\* At the start every role is torn, so that nothing is claimed of it.
LEMMA SeedInitially == SeedInit => SeedInv
<1> SUFFICES ASSUME SeedInit PROVE SeedInv
    OBVIOUS
<1>1. \A s \in Seeder : seeder[s] = NotRunning
    BY DEF SeedInit
<1>2. SeedTypeOK
    BY NotRunningIsRun DEF SeedInit, SeedTypeOK
<1>3. Equipped /\ NothingElse /\ RolesAreSeeded
    BY <1>1, NotRunningIsRun DEF SeedInit, Equipped, NothingElse, RolesAreSeeded, InHand
<1> QED
    BY <1>2, <1>3 DEF SeedInv

\* A run starts with nothing in hand.
LEMMA StartSeedKeeps == ASSUME SeedInv, NEW s \in Seeder, StartSeed(s) PROVE SeedInv'
<1> DEFINE q == [NotRunning EXCEPT !.pc = "permissions"]
<1>1. q \in Run /\ q.pc = "permissions"
    BY NotRunningIsRun DEF NotRunning, Run
<1>2. /\ seeder' = [seeder EXCEPT ![s] = q] /\ seeder[s].pc = "idle"
      /\ UNCHANGED <<permission, mapping, torn>>
    BY DEF StartSeed
<1>3. permission \subseteq Perm
    BY DEF SeedInv, SeedTypeOK
<1> HIDE DEF q
<1> QED
    BY <1>1, <1>2, <1>3, RunsOn

\* A permission that is upserted stays.
LEMMA SeedPermissionKeeps ==
    ASSUME SeedInv, NEW s \in Seeder, SeedPermission(s) PROVE SeedInv'
<1>1. permission \subseteq Perm /\ seeder[s] \in Run /\ seeder[s].pc = "permissions"
    BY DEF SeedInv, SeedTypeOK, SeedPermission
<1>2. CASE seeder' = seeder /\ \E p \in Perm \ permission : permission' = permission \cup {p}
  <2>1. seeder' = [seeder EXCEPT ![s] = seeder[s]]
    BY <1>2 DEF SeedInv, SeedTypeOK
  <2>2. mapping' = mapping /\ torn' = torn
    BY DEF SeedPermission
  <2> QED
    BY <1>1, <1>2, <2>1, <2>2, RunsOn
<1>3. CASE /\ permission = Perm /\ permission' = permission
           /\ seeder' = [seeder EXCEPT ![s].pc = "find"]
  <2> DEFINE q == [seeder[s] EXCEPT !.pc = "find"]
  <2>1. q \in Run /\ q.pc = "find"
    BY <1>1 DEF Run
  <2>2. seeder' = [seeder EXCEPT ![s] = q] /\ mapping' = mapping /\ torn' = torn
    BY <1>3 DEF SeedPermission
  <2> HIDE DEF q
  <2> QED
    BY <1>1, <1>3, <2>1, <2>2, RunsOn
<1> QED
    BY <1>2, <1>3 DEF SeedPermission

\* A run finds what it has upserted, whatever other runs did.
LEMMA FindPermissionsKeeps ==
    ASSUME SeedInv, NEW s \in Seeder, FindPermissions(s) PROVE SeedInv'
<1> DEFINE r == seeder[s].role
           q == [pc |-> "delete", role |-> r, ids |-> RolePermissions[r] \cap permission]
<1>1. seeder[s] \in Run /\ seeder[s].pc = "find" /\ permission = Perm
    BY DEF FindPermissions, SeedInv, SeedTypeOK, Equipped
<1>2. r \in SeedRole
    BY <1>1 DEF Run
<1>3. q.ids = RolePermissions[r] /\ q.ids \subseteq Perm /\ q.role = r /\ q.pc = "delete"
    BY <1>1, <1>2, RolePermissionsType
<1>4. q \in Run
    BY <1>2, <1>3 DEF Run
<1>5. seeder' = [seeder EXCEPT ![s] = q] /\ UNCHANGED <<permission, mapping, torn>>
    BY DEF FindPermissions
<1> HIDE DEF q
<1> QED
    BY <1>1, <1>3, <1>4, <1>5, RunsOn

\* The first of the two statements takes the role in hand.
LEMMA DeleteMappingKeeps ==
    ASSUME SeedInv, NEW s \in Seeder, DeleteMapping(s) PROVE SeedInv'
<1> DEFINE q == [seeder[s] EXCEPT !.pc = "insert"]
<1>1. seeder[s] \in Run /\ seeder[s].pc = "delete"
    BY DEF DeleteMapping, SeedInv, SeedTypeOK
<1> PICK r \in SeedRole : r = seeder[s].role
    BY <1>1 DEF Run
<1>2. q \in Run /\ q.pc = "insert" /\ q.role = r /\ q.ids = seeder[s].ids
    BY <1>1 DEF Run
<1>3. /\ seeder' = [seeder EXCEPT ![s] = q] /\ mapping' = [mapping EXCEPT ![r] = {}]
      /\ UNCHANGED <<permission, torn>>
    BY DEF DeleteMapping
<1> HIDE DEF q
<1>4. seeder'[s] = q /\ \A t \in Seeder \ {s} : seeder'[t] = seeder[t]
    BY <1>3 DEF SeedInv, SeedTypeOK
<1>5. mapping'[r] = {} /\ \A u \in SeedRole \ {r} : mapping'[u] = mapping[u]
    BY <1>2, <1>3 DEF SeedInv, SeedTypeOK
<1>6. SeedTypeOK'
    BY <1>2, <1>3 DEF SeedInv, SeedTypeOK
<1>7. Equipped'
  <2>1. permission' = Perm /\ q.ids = RolePermissions[q.role]
    BY <1>1, <1>2, <1>3 DEF SeedInv, Equipped
  <2> QED
    BY <1>4, <2>1 DEF SeedInv, Equipped
<1>8. InHand(r)' /\ \A u \in SeedRole \ {r} : InHand(u)' <=> InHand(u)
    BY <1>1, <1>2, <1>4 DEF InHand
<1>9. NothingElse' /\ RolesAreSeeded'
    BY <1>2, <1>3, <1>5, <1>8 DEF SeedInv, NothingElse, RolesAreSeeded
<1> QED
    BY <1>6, <1>7, <1>9 DEF SeedInv

\* The second gives it what the catalog says.
LEMMA InsertMappingKeeps ==
    ASSUME SeedInv, NEW s \in Seeder, InsertMapping(s) PROVE SeedInv'
<1> DEFINE r == seeder[s].role
           q == IF r = RoleCount THEN NotRunning
                ELSE [pc |-> "find", role |-> r + 1, ids |-> {}]
<1>1. seeder[s] \in Run /\ seeder[s].pc = "insert" /\ r \in SeedRole
    BY DEF InsertMapping, SeedInv, SeedTypeOK, Run
<1>2. q \in Run /\ q.pc \in {"idle", "find"}
  <2>1. CASE r = RoleCount
    BY <2>1, NotRunningIsRun
  <2>2. CASE r # RoleCount
    <3>1. r + 1 \in SeedRole
      BY <1>1, <2>2, RoleCountAssumption DEF SeedRole
    <3> QED
      BY <2>2, <3>1 DEF Run
  <2> QED
    BY <2>1, <2>2
<1>3. permission = Perm /\ seeder[s].ids = RolePermissions[r]
    BY <1>1 DEF SeedInv, Equipped
<1>4. /\ seeder' = [seeder EXCEPT ![s] = q] /\ permission' = permission
      /\ mapping' = [mapping EXCEPT ![r] = mapping[r] \cup seeder[s].ids]
      /\ torn' = torn \ {r}
    BY DEF InsertMapping
<1>5. mapping[r] \subseteq RolePermissions[r]
    BY <1>1 DEF SeedInv, NothingElse, InHand
<1> HIDE DEF q, r
<1>6. seeder'[s] = q /\ \A t \in Seeder \ {s} : seeder'[t] = seeder[t]
    BY <1>4 DEF SeedInv, SeedTypeOK
<1>7. /\ mapping'[r] = RolePermissions[r]
      /\ \A u \in SeedRole \ {r} : mapping'[u] = mapping[u]
    BY <1>1, <1>3, <1>4, <1>5 DEF SeedInv, SeedTypeOK
<1>8. SeedTypeOK'
  <2>1. RolePermissions[r] \in SUBSET permission
    BY <1>1, <1>3, RolePermissionsType
  <2> QED
    BY <1>1, <1>2, <1>3, <1>4, <2>1 DEF SeedInv, SeedTypeOK
<1>9. Equipped'
    BY <1>2, <1>3, <1>4, <1>6 DEF SeedInv, Equipped, RolePermissions, SeedRole
<1>10. \A u \in SeedRole \ {r} : InHand(u)' <=> InHand(u)
    BY <1>1, <1>2, <1>6 DEF InHand, r
<1>11. NothingElse' /\ RolesAreSeeded'
    BY <1>1, <1>4, <1>7, <1>10 DEF SeedInv, NothingElse, RolesAreSeeded, RolePermissions, SeedRole
<1> QED
    BY <1>8, <1>9, <1>11 DEF SeedInv

\* A run that breaks off between the two leaves the role torn.
LEMMA SeedBreaksKeeps == ASSUME SeedInv, NEW s \in Seeder, SeedBreaks(s) PROVE SeedInv'
<1> DEFINE r == seeder[s].role
<1>1. seeder[s] \in Run /\ r \in SeedRole
    BY DEF SeedInv, SeedTypeOK, Run
<1>2. /\ seeder' = [seeder EXCEPT ![s] = NotRunning] /\ UNCHANGED <<permission, mapping>>
      /\ torn' = IF seeder[s].pc = "insert" THEN torn \cup {r} ELSE torn
    BY DEF SeedBreaks
<1>3. seeder'[s] = NotRunning /\ \A t \in Seeder \ {s} : seeder'[t] = seeder[t]
    BY <1>2 DEF SeedInv, SeedTypeOK
<1>4. SeedTypeOK'
    BY <1>1, <1>2, NotRunningIsRun DEF SeedInv, SeedTypeOK
<1>5. Equipped'
    BY <1>2, <1>3, NotRunningIsRun DEF SeedInv, Equipped, RolePermissions, SeedRole
<1>6. ASSUME NEW u \in SeedRole
      PROVE  /\ InHand(u)' => InHand(u)
             /\ InHand(u) => InHand(u)' \/ u \in torn'
    BY <1>2, <1>3, NotRunningIsRun DEF InHand
<1>7. torn \subseteq torn'
    BY <1>2
<1>8. NothingElse' /\ RolesAreSeeded'
    BY <1>2, <1>6, <1>7 DEF SeedInv, NothingElse, RolesAreSeeded, RolePermissions, SeedRole
<1> QED
    BY <1>4, <1>5, <1>8 DEF SeedInv

\* Every step of the runs keeps SeedInv.
LEMMA SeedStep == SeedInv /\ [SeedNext]_seedVars => SeedInv'
<1> SUFFICES ASSUME SeedInv, [SeedNext]_seedVars PROVE SeedInv'
    OBVIOUS
<1>1. ASSUME NEW s \in Seeder, StartSeed(s) PROVE SeedInv'
    BY <1>1, StartSeedKeeps
<1>2. ASSUME NEW s \in Seeder, SeedPermission(s) PROVE SeedInv'
    BY <1>2, SeedPermissionKeeps
<1>3. ASSUME NEW s \in Seeder, FindPermissions(s) PROVE SeedInv'
    BY <1>3, FindPermissionsKeeps
<1>4. ASSUME NEW s \in Seeder, DeleteMapping(s) PROVE SeedInv'
    BY <1>4, DeleteMappingKeeps
<1>5. ASSUME NEW s \in Seeder, InsertMapping(s) PROVE SeedInv'
    BY <1>5, InsertMappingKeeps
<1>6. ASSUME NEW s \in Seeder, SeedBreaks(s) PROVE SeedInv'
    BY <1>6, SeedBreaksKeeps
<1>7. CASE UNCHANGED seedVars
    BY <1>7 DEF seedVars, SeedInv, SeedTypeOK, Equipped, NothingElse, RolesAreSeeded, InHand,
               RolePermissions, SeedRole
<1> QED
    BY <1>1, <1>2, <1>3, <1>4, <1>5, <1>6, <1>7 DEF SeedNext

(***************************************************************************)
(* For any number of deployments that seed at the same time, roles and     *)
(* permissions: a role that was seeded may do what the catalog says, but   *)
(* between a run's two statements and after one that broke off there       *)
(* (prisma/seed.ts, seedRolesAndPermissions).                              *)
(***************************************************************************)
THEOREM RolesSeeded == SeedSpec => []RolesAreSeeded
<1>1. SeedInv => RolesAreSeeded
    BY DEF SeedInv
<1> QED
    BY <1>1, SeedInitially, SeedStep, PTL DEF SeedSpec
-----------------------------------------------------------------------------
(***************************************************************************)
(* The registry's edit pages.  Where a page that has loaded differs from   *)
(* the row, its editor has changed the field or another write has.         *)
(***************************************************************************)
Accounted ==
    \A e \in Form :
        form[e].pc \in {"open", "saving"} /\ ~form[e].failed =>
            \A f \in Field : form[e].values[f] # app[f] => f \in touched[e] \cup moved[e]

RegistryInv == RegistryTypeOK /\ Accounted

\* A closed form and a blank one have their types.
LEMMA ClosedIsSheet == ClosedForm \in Sheet /\ ClosedForm.pc = "closed" /\ Blank \in Content
    BY DEF ClosedForm, Sheet, Blank, Content

\* So has what the seed writes, with a name.
LEMMA KnownType == Known \in Content /\ Known["name"] # ""
<1>1. (CHOOSE t \in Text : TRUE) \in Text /\ "" \notin Text
    BY TextAssumption
<1>2. "name" \in Field
    BY DEF Field
<1> QED
    BY <1>1, <1>2 DEF Known, Content

\* No form is open at the start.
LEMMA RegistryInitially == RegistryInit => RegistryInv
<1> SUFFICES ASSUME RegistryInit PROVE RegistryInv
    OBVIOUS
<1>1. RegistryTypeOK
    BY KnownType, ClosedIsSheet DEF RegistryInit, RegistryTypeOK
<1>2. Accounted
    BY ClosedIsSheet DEF RegistryInit, Accounted
<1> QED
    BY <1>1, <1>2 DEF RegistryInv

\* The page of e turns to q; the row stays.
LEMMA PageTurns ==
    ASSUME RegistryInv, NEW e \in Form, NEW q \in Sheet,
           form' = [form EXCEPT ![e] = q], app' = app,
           touched' \in [Form -> SUBSET Field], moved' \in [Form -> SUBSET Field],
           \A d \in Form \ {e} : touched'[d] = touched[d] /\ moved'[d] = moved[d],
           q.pc \in {"open", "saving"} /\ ~q.failed =>
               \A f \in Field : q.values[f] # app[f] => f \in touched'[e] \cup moved'[e]
    PROVE  RegistryInv'
<1>1. form'[e] = q /\ \A d \in Form \ {e} : form'[d] = form[d]
    BY DEF RegistryInv, RegistryTypeOK
<1>2. RegistryTypeOK'
    BY DEF RegistryInv, RegistryTypeOK
<1>3. ASSUME NEW d \in Form, form'[d].pc \in {"open", "saving"}, ~form'[d].failed,
             NEW f \in Field, form'[d].values[f] # app[f]
      PROVE  f \in touched'[d] \cup moved'[d]
  <2>1. CASE d = e
    BY <1>1, <1>3, <2>1
  <2>2. CASE d # e
    BY <1>1, <1>3, <2>2 DEF RegistryInv, Accounted
  <2> QED
    BY <2>1, <2>2
<1> QED
    BY <1>2, <1>3 DEF RegistryInv, Accounted

\* The same when only the page's place changes.
LEMMA PageMoves ==
    ASSUME RegistryInv, NEW e \in Form, NEW pc \in {"loading", "open", "saving"},
           form' = [form EXCEPT ![e].pc = pc], UNCHANGED <<app, touched, moved>>,
           pc # "loading" => form[e].pc \in {"open", "saving"}
    PROVE  RegistryInv'
<1> DEFINE q == [form[e] EXCEPT !.pc = pc]
<1>1. q \in Sheet /\ q.pc = pc /\ q.values = form[e].values /\ q.failed = form[e].failed
    BY DEF RegistryInv, RegistryTypeOK, Sheet
<1>2. form' = [form EXCEPT ![e] = q]
    OBVIOUS
<1> HIDE DEF q
<1>3. touched' \in [Form -> SUBSET Field] /\ moved' \in [Form -> SUBSET Field]
    BY DEF RegistryInv, RegistryTypeOK
<1>4. q.pc \in {"open", "saving"} /\ ~q.failed =>
          \A f \in Field : q.values[f] # app[f] => f \in touched'[e] \cup moved'[e]
    BY <1>1 DEF RegistryInv, Accounted
<1> QED
    BY <1>1, <1>2, <1>3, <1>4, PageTurns

\* A form that loads has the row as it is, or is marked as failed.
LEMMA LoadsFormKeeps ==
    ASSUME RegistryInv, NEW e \in Form, NEW values \in Content, NEW failed \in BOOLEAN,
           LoadsForm(e, values, failed), ~failed => values = app
    PROVE  RegistryInv'
<1> DEFINE q == [pc |-> "open", values |-> values, failed |-> failed]
<1>1. q \in Sheet /\ q.values = values /\ (q.failed <=> failed)
    BY DEF Sheet
<1>2. form' = [form EXCEPT ![e] = q] /\ UNCHANGED <<app, touched, moved>>
    BY DEF LoadsForm
<1>3. touched' \in [Form -> SUBSET Field] /\ moved' \in [Form -> SUBSET Field]
    BY <1>2 DEF RegistryInv, RegistryTypeOK
<1> HIDE DEF q
<1> QED
    BY <1>1, <1>2, <1>3, PageTurns

\* An edit is remembered as the editor's own.
LEMMA EditFormKeeps ==
    ASSUME RegistryInv, NEW e \in Form, NEW f \in Field, NEW text \in Text \cup {""},
           EditForm(e, f, text)
    PROVE  RegistryInv'
<1> DEFINE v == [form[e].values EXCEPT ![f] = text]
           q == [form[e] EXCEPT !.values = v]
<1>1. form[e] \in Sheet /\ form[e].values \in Content /\ form[e].pc = "open"
    BY DEF RegistryInv, RegistryTypeOK, Sheet, EditForm
<1>2. v \in Content /\ \A g \in Field \ {f} : v[g] = form[e].values[g]
    BY <1>1 DEF Content
<1> HIDE DEF v
<1>3. q \in Sheet /\ q.values = v /\ q.pc = "open" /\ q.failed = form[e].failed
    BY <1>1, <1>2 DEF Sheet
<1>4. form' = [form EXCEPT ![e] = q]
    BY DEF EditForm, v
<1>5. /\ touched' = [touched EXCEPT ![e] = touched[e] \cup {f}]
      /\ app' = app /\ moved' = moved
    BY DEF EditForm
<1>6. /\ touched' \in [Form -> SUBSET Field] /\ moved' \in [Form -> SUBSET Field]
      /\ touched'[e] = touched[e] \cup {f}
      /\ \A d \in Form \ {e} : touched'[d] = touched[d]
    BY <1>5 DEF RegistryInv, RegistryTypeOK
<1> HIDE DEF q
<1>7. ASSUME ~q.failed, NEW g \in Field, q.values[g] # app[g]
      PROVE  g \in touched'[e] \cup moved'[e]
    BY <1>1, <1>2, <1>3, <1>5, <1>6, <1>7 DEF RegistryInv, Accounted
<1> QED
    BY <1>3, <1>4, <1>5, <1>6, <1>7, PageTurns

(***************************************************************************)
(* The row is written, with q: who has read it sees the changed fields     *)
(* marked.                                                                 *)
(***************************************************************************)
LEMMA MovedSound ==
    ASSUME RegistryInv, NEW q \in Content, app' = q, NEW e \in Form,
           form[e].pc \in {"open", "saving"}, ~form[e].failed,
           NEW f \in Field, form[e].values[f] # app'[f]
    PROVE  f \in touched[e] \cup Moved(q)[e]
<1>1. Moved(q)[e] = moved[e] \cup {g \in Field : q[g] # app[g]}
    BY DEF Moved
<1>2. CASE q[f] # app[f]
    BY <1>1, <1>2
<1>3. CASE q[f] = app[f]
    BY <1>1, <1>3 DEF RegistryInv, Accounted
<1> QED
    BY <1>2, <1>3

\* What another write moves is remembered for each open form.
LEMMA MovedType ==
    ASSUME RegistryInv, NEW q \in Content
    PROVE  Moved(q) \in [Form -> SUBSET Field]
    BY DEF Moved, RegistryInv, RegistryTypeOK

\* A save writes the whole form and moves the fields of the others.
LEMMA SaveFormKeeps ==
    ASSUME RegistryInv, NEW e \in Form, SaveForm(e)
    PROVE  RegistryInv'
<1> DEFINE q == form[e].values
<1>1. q \in Content /\ q["name"] # "" /\ app' = q
    BY DEF RegistryInv, RegistryTypeOK, Sheet, SaveForm
<1>2. /\ moved' = [Moved(q) EXCEPT ![e] = {}]
      /\ form' = [form EXCEPT ![e] = ClosedForm]
      /\ touched' = [touched EXCEPT ![e] = {}]
    BY <1>1 DEF SaveForm, CloseForm, Moved
<1> HIDE DEF q
<1>3. RegistryTypeOK'
    BY <1>1, <1>2, MovedType, ClosedIsSheet DEF RegistryInv, RegistryTypeOK
<1>4. ASSUME NEW d \in Form, form'[d].pc \in {"open", "saving"}, ~form'[d].failed,
             NEW f \in Field, form'[d].values[f] # app'[f]
      PROVE  f \in touched'[d] \cup moved'[d]
  <2>1. d # e
    BY <1>2, <1>4, ClosedIsSheet DEF RegistryInv, RegistryTypeOK
  <2>2. form'[d] = form[d] /\ touched'[d] = touched[d] /\ moved'[d] = Moved(q)[d]
    BY <1>1, <1>2, <2>1, MovedType DEF RegistryInv, RegistryTypeOK
  <2> QED
    BY <1>1, <1>4, <2>2, MovedSound
<1> QED
    BY <1>3, <1>4 DEF RegistryInv, Accounted

\* A form that is left writes nothing.
LEMMA CancelFormKeeps ==
    ASSUME RegistryInv, NEW e \in Form, CancelForm(e)
    PROVE  RegistryInv'
<1>1. /\ form' = [form EXCEPT ![e] = ClosedForm] /\ app' = app
      /\ touched' = [touched EXCEPT ![e] = {}] /\ moved' = [moved EXCEPT ![e] = {}]
    BY DEF CancelForm, CloseForm
<1>2. /\ touched' \in [Form -> SUBSET Field] /\ moved' \in [Form -> SUBSET Field]
      /\ \A d \in Form \ {e} : touched'[d] = touched[d] /\ moved'[d] = moved[d]
    BY <1>1 DEF RegistryInv, RegistryTypeOK
<1> QED
    BY <1>1, <1>2, ClosedIsSheet, PageTurns

\* The reseed moves fields for every open form.
LEMMA SeedKeeps == ASSUME RegistryInv, Seed PROVE RegistryInv'
<1>1. app' = Known /\ moved' = Moved(Known) /\ form' = form /\ touched' = touched
    BY DEF Seed
<1>2. RegistryTypeOK'
    BY <1>1, KnownType, MovedType DEF RegistryInv, RegistryTypeOK
<1>3. ASSUME NEW d \in Form, form[d].pc \in {"open", "saving"}, ~form[d].failed,
             NEW f \in Field, form[d].values[f] # app'[f]
      PROVE  f \in touched[d] \cup moved'[d]
    BY <1>1, <1>3, KnownType, MovedSound
<1> QED
    BY <1>1, <1>2, <1>3 DEF RegistryInv, Accounted

\* Every step keeps RegistryInv.
LEMMA RegistryStep == RegistryInv /\ [RegistryNext]_registryVars => RegistryInv'
<1> SUFFICES ASSUME RegistryInv, [RegistryNext]_registryVars PROVE RegistryInv'
    OBVIOUS
<1>1. ASSUME NEW e \in Form, OpenForm(e) \/ Submit(e) \/ SaveFails(e) PROVE RegistryInv'
    BY <1>1, PageMoves DEF OpenForm, Submit, SaveFails
<1>2. ASSUME NEW e \in Form, Loaded(e) \/ LoadFails(e) PROVE RegistryInv'
  <2>1. app \in Content
    BY DEF RegistryInv, RegistryTypeOK
  <2> QED
    BY <1>2, <2>1, ClosedIsSheet, LoadsFormKeeps DEF Loaded, LoadFails
<1>3. ASSUME NEW e \in Form, NEW f \in Field, NEW text \in Text \cup {""}, EditForm(e, f, text)
      PROVE  RegistryInv'
    BY <1>3, EditFormKeeps
<1>4. ASSUME NEW e \in Form, SaveForm(e) PROVE RegistryInv'
    BY <1>4, SaveFormKeeps
<1>5. ASSUME NEW e \in Form, CancelForm(e) PROVE RegistryInv'
    BY <1>5, CancelFormKeeps
<1>6. CASE Seed
    BY <1>6, SeedKeeps
<1>7. CASE UNCHANGED registryVars
    BY <1>7 DEF registryVars, RegistryInv, RegistryTypeOK, Accounted
<1> QED
    BY <1>1, <1>2, <1>3, <1>4, <1>5, <1>6, <1>7 DEF RegistryNext

\* A page stops saving when its save is answered, and then only it has written.
LEMMA SaveAnswered ==
    ASSUME RegistryInv, [RegistryNext]_registryVars,
           NEW e \in Form, form[e].pc = "saving", form'[e].pc # "saving"
    PROVE  SaveForm(e) \/ app' = app
<1>1. ASSUME NEW d \in Form, SaveForm(d), d # e PROVE FALSE
    BY <1>1 DEF SaveForm, CloseForm, RegistryInv, RegistryTypeOK
<1>2. ASSUME NEW d \in Form, ~SaveForm(d),
             \/ OpenForm(d) \/ Loaded(d) \/ LoadFails(d) \/ Submit(d) \/ SaveFails(d)
             \/ CancelForm(d) \/ \E f \in Field, text \in Text \cup {""} : EditForm(d, f, text)
      PROVE  app' = app
    BY <1>2 DEF OpenForm, Loaded, LoadFails, LoadsForm, Submit, SaveFails, CancelForm, EditForm
<1>3. ~Seed
    BY DEF Seed
<1>4. CASE UNCHANGED registryVars
    BY <1>4 DEF registryVars
<1> QED
    BY <1>1, <1>2, <1>3, <1>4 DEF RegistryNext

(***************************************************************************)
(* For any number of edit pages and texts: a save changes what its editor  *)
(* changed, or what another write moved after the page had loaded          *)
(* (ApplicationForm.tsx, applications.service.ts).                         *)
(***************************************************************************)
THEOREM FieldsStay == RegistrySpec => UneditedFieldStays
<1>1. ASSUME RegistryInv, [RegistryNext]_registryVars,
             NEW e \in Form, form[e].pc = "saving", form'[e].pc # "saving",
             NEW f \in Field, app'[f] # app[f]
      PROVE  f \in touched[e] \cup moved[e] \/ form[e].failed
  <2>1. SaveForm(e) /\ app' = form[e].values
    BY <1>1, SaveAnswered DEF SaveForm
  <2> QED
    BY <1>1, <2>1 DEF RegistryInv, Accounted
<1>2. RegistryInv /\ [RegistryNext]_registryVars =>
          [\A e \in Form : form[e].pc = "saving" /\ form'[e].pc # "saving" =>
              \A f \in Field :
                  app'[f] # app[f] =>
                      f \in touched[e] \cup moved[e] \/ form[e].failed]_registryVars
    BY <1>1
<1> QED
    BY <1>2, RegistryInitially, RegistryStep, PTL DEF RegistrySpec, UneditedFieldStays
-----------------------------------------------------------------------------
(***************************************************************************)
(* The credential references.  As long as requests neither met nor broke   *)
(* off, one of them at most is writing, it is the one whose list counts,   *)
(* and what it has done so far is done for good.                           *)
(***************************************************************************)
AsListed == refs = [n \in Ref |-> IF n \in listed.names THEN listed.by ELSE None]

Alone == ~mixed => \A p, q \in Busy : p = q

ListIsOf(q) == listed.by = q /\ listed.names = Named(q)

WrittenSoFar(q) ==
    /\ \A n \in Ref \ Named(q) : refs[n] = None
    /\ \A i \in 1..put[q].done : refs[put[q].names[i]] = q

Halfway ==
    ~mixed =>
        /\ \A q \in Put :
              /\ put[q].pc = "delete" => ListIsOf(q)
              /\ put[q].pc = "write" => ListIsOf(q) /\ WrittenSoFar(q)
              /\ put[q].pc = "event" => AsListed
        /\ Busy = {} => AsListed

AtTheStart == \A q \in Put : put[q].pc = "delete" => put[q].done = 0

RefsInv == RefsTypeOK /\ Alone /\ Halfway /\ AtTheStart

\* A list names each of its references once, and no others.
LEMMA ListOf ==
    ASSUME NEW S \in SUBSET Ref
    PROVE  /\ SetToSeq(S) \in [1..Cardinality(S) -> S]
           /\ Cardinality(S) \in 0..Cardinality(Ref)
           /\ {SetToSeq(S)[i] : i \in 1..Cardinality(S)} = S
<1> DEFINE n == Cardinality(S)
           IsList(f) == IsInjective(f)
           s == CHOOSE f \in [1..n -> S] : IsInjective(f)
<1>1. IsFiniteSet(S) /\ n <= Cardinality(Ref) /\ n \in Nat /\ Cardinality(Ref) \in Nat
    BY RefAssumption, FS_Subset, FS_CardinalityType
<1>2. PICK f \in Bijection(1..n, S) : TRUE
    BY <1>1, FS_CardinalityType DEF ExistsBijection
<1>3. f \in [1..n -> S] /\ IsInjective(f)
    BY <1>2 DEF Bijection, Injection, Surjection
<1>4. s \in [1..n -> S] /\ IsInjective(s)
    BY <1>3
<1>5. SetToSeq(S) = s
    BY DEF SetToSeq
<1> HIDE DEF s
<1> DEFINE T == {s[i] : i \in 1..n}
<1>6. T \subseteq S
    BY <1>4
<1>7. s \in Bijection(1..n, T)
    BY <1>4, <1>6 DEF Bijection, Injection, Surjection, IsInjective
<1>8. IsFiniteSet(1..n) /\ Cardinality(1..n) = n
    BY <1>1, FS_Interval
<1>9. Cardinality(T) = n
    BY <1>7, <1>8, FS_Bijection DEF ExistsBijection
<1>10. T = S
    BY <1>1, <1>6, <1>9, FS_Subset
<1> QED
    BY <1>1, <1>4, <1>5, <1>10

\* A function on 1..k is a sequence of length k.
LEMMA FunctionIsSeq ==
    ASSUME NEW S, NEW k \in Nat, NEW s \in [1..k -> S]
    PROVE  s \in Seq(S) /\ Len(s) = k /\ DOMAIN s = 1..k
<1>1. s = [i \in 1..k |-> s[i]] /\ \A i \in 1..k : s[i] \in S
    OBVIOUS
<1>2. [i \in 1..k |-> s[i]] \in Seq(S)
    BY <1>1
<1> QED
    BY <1>1, <1>2

\* The same of a request's list.
LEMMA NamesType ==
    ASSUME RefsTypeOK, NEW q \in Put
    PROVE  /\ Len(put[q].names) \in 0..Cardinality(Ref)
           /\ Named(q) = {put[q].names[i] : i \in 1..Len(put[q].names)}
           /\ Named(q) \subseteq Ref
           /\ put[q].names \in {SetToSeq(S) : S \in SUBSET Ref}
           /\ put[q].done \in 0..Cardinality(Ref) /\ Cardinality(Ref) \in Nat
           /\ put[q] = [pc |-> put[q].pc, names |-> put[q].names, done |-> put[q].done]
<1>1. put[q] \in PutState
    BY DEF RefsTypeOK
<1>2. PICK S \in SUBSET Ref : put[q].names = SetToSeq(S)
    BY <1>1 DEF PutState
<1> DEFINE s == put[q].names
<1>3. Cardinality(Ref) \in Nat
    BY RefAssumption, FS_CardinalityType
<1>4. s \in [1..Cardinality(S) -> S] /\ Cardinality(S) \in 0..Cardinality(Ref)
      /\ {s[i] : i \in 1..Cardinality(S)} = S
    BY <1>2, ListOf
<1>5. Len(s) = Cardinality(S) /\ DOMAIN s = 1..Len(s)
    BY <1>3, <1>4, FunctionIsSeq
<1> HIDE DEF s
<1>6. Named(q) = {s[i] : i \in 1..Len(s)} /\ Named(q) = S
    BY <1>4, <1>5 DEF Named, ToSet, s
<1> QED
    BY <1>1, <1>3, <1>4, <1>5, <1>6 DEF PutState, s

\* A request that has not begun has its type.
LEMMA WaitingType == Waiting \in PutState /\ Waiting.pc = "idle" /\ Waiting.names = <<>>
<1>1. Cardinality({}) = 0
    BY FS_EmptySet
<1>2. SetToSeq({}) = <<>>
    BY <1>1, ListOf
<1>3. Cardinality(Ref) \in Nat
    BY RefAssumption, FS_CardinalityType
<1> QED
    BY <1>2, <1>3 DEF Waiting, PutState, PutPC
\* There are no references at the start.
LEMMA RefsInitially == RefsInit => RefsInv
<1> SUFFICES ASSUME RefsInit PROVE RefsInv
    OBVIOUS
<1>1. \A q \in Put : put[q] = Waiting
    BY DEF RefsInit
<1>2. RefsTypeOK
    BY <1>1, WaitingType DEF RefsInit, RefsTypeOK
<1>3. AsListed
    BY DEF RefsInit, AsListed
<1>4. Alone /\ Halfway /\ AtTheStart
    BY <1>1, <1>3, WaitingType DEF RefsInit, Alone, Halfway, AtTheStart, Busy
<1> QED
    BY <1>2, <1>4 DEF RefsInv

\* What a body lists is a state of its request.
LEMMA ListedType ==
    ASSUME NEW names \in SUBSET Ref
    PROVE  [pc |-> "delete", names |-> SetToSeq(names), done |-> 0] \in PutState
<1>1. Cardinality(Ref) \in Nat
    BY RefAssumption, FS_CardinalityType
<1> QED
    BY <1>1 DEF PutState, PutPC

\* The sequence in which references are written holds each of the listed names.
LEMMA ListedNames ==
    ASSUME NEW names \in SUBSET Ref
    PROVE  ToSet(SetToSeq(names)) = names
<1>1. Cardinality(names) \in Nat
    BY RefAssumption, FS_CardinalityType, FS_Subset
<1>2. DOMAIN SetToSeq(names) = 1..Cardinality(names)
    BY ListOf
<1> QED
    BY <1>2, ListOf DEF ToSet

\* The request alone is busy, if any was before.
LEMMA StaysAlone ==
    ASSUME RefsInv, NEW q \in Put, put[q].pc # "idle", NEW p \in PutState,
           put' = [put EXCEPT ![q] = p], mixed' = mixed
    PROVE  /\ Alone'
           /\ ~mixed => Busy = {q} /\ \A r \in Put \ {q} : put'[r].pc = "idle"
<1>1. \A r \in Put \ {q} : put'[r] = put[r]
    BY DEF RefsInv, RefsTypeOK
<1>2. q \in Busy
    BY DEF Busy
<1>3. ~mixed => Busy = {q}
    BY <1>2 DEF RefsInv, Alone, Busy
<1>4. Busy' \subseteq Busy
    BY <1>1 DEF Busy
<1> QED
    BY <1>1, <1>3, <1>4 DEF RefsInv, Alone, Busy

\* The row is written, and who has company is noted.
LEMMA UpsertRowKeeps == ASSUME RefsInv, NEW q \in Put, UpsertRow(q) PROVE RefsInv'
<1>1. put[q].pc = "idle" /\ settings' = q /\ refs' = refs
    BY DEF UpsertRow
<1>2. CASE \E names \in SUBSET Ref :
              /\ put' = [put EXCEPT ![q] =
                            [pc |-> "delete", names |-> SetToSeq(names), done |-> 0]]
              /\ listed' = [by |-> q, names |-> names]
              /\ mixed' = (Busy # {})
  <2> PICK names \in SUBSET Ref :
              /\ put' = [put EXCEPT ![q] =
                            [pc |-> "delete", names |-> SetToSeq(names), done |-> 0]]
              /\ listed' = [by |-> q, names |-> names]
              /\ mixed' = (Busy # {})
    BY <1>2
  <2> DEFINE p == [pc |-> "delete", names |-> SetToSeq(names), done |-> 0]
  <2>1. p \in PutState /\ p.pc = "delete" /\ p.names = SetToSeq(names) /\ p.done = 0
    BY ListedType
  <2> HIDE DEF p
  <2>2. put'[q] = p /\ \A r \in Put \ {q} : put'[r] = put[r]
    BY DEF p, RefsInv, RefsTypeOK
  <2>3. listed'.by = q /\ listed'.names = names
    OBVIOUS
  <2>4. RefsTypeOK'
    <3>1. put' \in [Put -> PutState] /\ mixed' \in BOOLEAN
      BY <2>1 DEF p, RefsInv, RefsTypeOK
    <3>2. \A r \in Put : put'[r].pc = "write" => put'[r].done < Len(put'[r].names)
      BY <2>1, <2>2 DEF RefsInv, RefsTypeOK
    <3> QED
      BY <1>1, <2>3, <3>1, <3>2 DEF RefsInv, RefsTypeOK
  <2>5. ~mixed' => \A r \in Put \ {q} : put'[r].pc = "idle"
    BY <2>2 DEF Busy
  <2>6. Alone'
    BY <2>5 DEF Alone, Busy
  <2>7. ToSet(put'[q].names) = names
    BY <2>1, <2>2, ListedNames
  <2>8. Halfway'
    BY <2>1, <2>2, <2>3, <2>5, <2>7 DEF Halfway, ListIsOf, Named, Busy
  <2>9. AtTheStart'
    BY <2>1, <2>2 DEF RefsInv, AtTheStart
  <2> QED
    BY <2>4, <2>6, <2>8, <2>9 DEF RefsInv
<1>3. CASE /\ put' = [put EXCEPT ![q].pc = "event"]
           /\ mixed' = (Busy # {} \/ mixed)
           /\ listed' = listed
  <2> DEFINE p == [put[q] EXCEPT !.pc = "event"]
  <2>1. p \in PutState /\ p.pc = "event"
    BY DEF RefsInv, RefsTypeOK, PutState, PutPC
  <2>2. put' = [put EXCEPT ![q] = p]
    BY <1>3
  <2> HIDE DEF p
  <2>3. put'[q] = p /\ \A r \in Put \ {q} : put'[r] = put[r]
    BY <2>2 DEF RefsInv, RefsTypeOK
  <2>4. RefsTypeOK'
    <3>1. put' \in [Put -> PutState] /\ mixed' \in BOOLEAN
      BY <1>3, <2>1, <2>2 DEF RefsInv, RefsTypeOK
    <3>2. \A r \in Put : put'[r].pc = "write" => put'[r].done < Len(put'[r].names)
      BY <2>1, <2>3 DEF RefsInv, RefsTypeOK
    <3> QED
      BY <1>1, <1>3, <3>1, <3>2 DEF RefsInv, RefsTypeOK
  <2>5. ~mixed' => \A r \in Put \ {q} : put'[r].pc = "idle"
    BY <1>3, <2>3 DEF Busy
  <2>6. Alone'
    BY <2>5 DEF Alone, Busy
  <2>7. ~mixed' => AsListed
    BY <1>3 DEF RefsInv, Halfway
  <2>8. Halfway'
    BY <1>1, <1>3, <2>1, <2>3, <2>5, <2>7 DEF Halfway, AsListed, Busy
  <2>9. AtTheStart'
    BY <2>1, <2>3 DEF RefsInv, AtTheStart
  <2> QED
    BY <2>4, <2>6, <2>8, <2>9 DEF RefsInv
<1> QED
    BY <1>2, <1>3 DEF UpsertRow

\* What the list does not name goes.
LEMMA DeleteUnnamedKeeps == ASSUME RefsInv, NEW q \in Put, DeleteUnnamed(q) PROVE RefsInv'
<1> DEFINE pc == IF Named(q) = {} THEN "event" ELSE "write"
           p == [put[q] EXCEPT !.pc = pc]
<1>1. /\ put[q].pc = "delete" /\ put[q].done = 0 /\ UNCHANGED <<settings, listed, mixed>>
      /\ refs' = [n \in Ref |-> IF n \in Named(q) THEN refs[n] ELSE None]
    BY DEF DeleteUnnamed, RefsInv, AtTheStart
<1>2. p \in PutState /\ p.pc = pc /\ p.names = put[q].names /\ p.done = 0
    BY <1>1 DEF RefsInv, RefsTypeOK, PutState, PutPC
<1>3. put' = [put EXCEPT ![q] = p]
    BY DEF DeleteUnnamed
<1> HIDE DEF p
<1>4. put'[q] = p /\ \A r \in Put \ {q} : put'[r] = put[r]
    BY <1>3 DEF RefsInv, RefsTypeOK
<1>5. Named(q)' = Named(q)
    BY <1>2, <1>4 DEF Named
<1>6. RefsTypeOK'
  <2>1. put' \in [Put -> PutState] /\ refs' \in [Ref -> Put \cup {None}]
    BY <1>1, <1>2, <1>3 DEF RefsInv, RefsTypeOK
  <2>2. Named(q) # {} => 0 < Len(put[q].names)
    <3>1. /\ Len(put[q].names) \in 0..Cardinality(Ref) /\ Cardinality(Ref) \in Nat
          /\ Named(q) = {put[q].names[i] : i \in 1..Len(put[q].names)}
      BY NamesType DEF RefsInv
    <3> QED
      BY <3>1
  <2>3. \A r \in Put : put'[r].pc = "write" => put'[r].done < Len(put'[r].names)
    BY <1>2, <1>4, <2>2 DEF RefsInv, RefsTypeOK
  <2> QED
    BY <1>1, <2>1, <2>3 DEF RefsInv, RefsTypeOK
<1>7. /\ Alone' /\ (~mixed => Busy = {q} /\ \A r \in Put \ {q} : put'[r].pc = "idle")
    BY <1>1, <1>2, <1>3, StaysAlone
<1>8. Halfway'
  <2> SUFFICES ASSUME ~mixed PROVE Halfway'
    BY <1>1 DEF Halfway
  <2>1. ListIsOf(q) /\ ListIsOf(q)'
    BY <1>1, <1>5 DEF RefsInv, Halfway, ListIsOf
  <2>2. Named(q) = {} => AsListed'
    BY <1>1, <2>1 DEF AsListed, ListIsOf
  <2>3. WrittenSoFar(q)'
    BY <1>1, <1>2, <1>4, <1>5 DEF WrittenSoFar
  <2>4. Busy' = {q}
    BY <1>2, <1>4, <1>7 DEF Busy
  <2> QED
    BY <1>2, <1>4, <1>7, <2>1, <2>2, <2>3, <2>4 DEF Halfway
<1>9. AtTheStart'
    BY <1>2, <1>4 DEF RefsInv, AtTheStart
<1> QED
    BY <1>6, <1>7, <1>8, <1>9 DEF RefsInv
\* One reference more is of this request.
LEMMA WriteRefKeeps == ASSUME RefsInv, NEW q \in Put, WriteRef(q) PROVE RefsInv'
<1> DEFINE names == put[q].names
           k == put[q].done + 1
           n == names[k]
           p == [put[q] EXCEPT !.done = k, !.pc = IF k = Len(names) THEN "event" ELSE "write"]
<1>1. /\ put[q].pc = "write" /\ UNCHANGED <<settings, listed, mixed>>
      /\ refs' = [refs EXCEPT ![n] = q] /\ put' = [put EXCEPT ![q] = p]
    BY DEF WriteRef
<1>2. /\ Len(names) \in 0..Cardinality(Ref) /\ Cardinality(Ref) \in Nat
      /\ Named(q) = {names[i] : i \in 1..Len(names)} /\ Named(q) \subseteq Ref
      /\ put[q].done \in 0..Cardinality(Ref)
    BY NamesType DEF RefsInv
<1>3. put[q].done < Len(names)
    BY <1>1 DEF RefsInv, RefsTypeOK
<1>4. k \in 1..Len(names) /\ k \in 0..Cardinality(Ref) /\ n \in Named(q)
    BY <1>2, <1>3
<1>5. /\ p \in PutState /\ p.names = names /\ p.done = k
      /\ p.pc = IF k = Len(names) THEN "event" ELSE "write"
    BY <1>4 DEF RefsInv, RefsTypeOK, PutState, PutPC
<1> HIDE DEF p
<1>6. put'[q] = p /\ \A r \in Put \ {q} : put'[r] = put[r]
    BY <1>1 DEF RefsInv, RefsTypeOK
<1>7. Named(q)' = Named(q)
    BY <1>5, <1>6 DEF Named
<1>8. refs'[n] = q /\ \A m \in Ref \ {n} : refs'[m] = refs[m]
    BY <1>1, <1>2, <1>4 DEF RefsInv, RefsTypeOK
<1>9. RefsTypeOK'
  <2>1. put' \in [Put -> PutState] /\ refs' \in [Ref -> Put \cup {None}]
    BY <1>1, <1>5 DEF RefsInv, RefsTypeOK
  <2>2. p.pc = "write" => p.done < Len(p.names)
    BY <1>2, <1>4, <1>5
  <2>3. \A r \in Put : put'[r].pc = "write" => put'[r].done < Len(put'[r].names)
    BY <1>6, <2>2 DEF RefsInv, RefsTypeOK
  <2> QED
    BY <1>1, <2>1, <2>3 DEF RefsInv, RefsTypeOK
<1>10. /\ Alone' /\ (~mixed => Busy = {q} /\ \A r \in Put \ {q} : put'[r].pc = "idle")
    BY <1>1, <1>5, StaysAlone
<1>11. Halfway'
  <2> SUFFICES ASSUME ~mixed PROVE Halfway'
    BY <1>1 DEF Halfway
  <2>1. ListIsOf(q) /\ WrittenSoFar(q) /\ ListIsOf(q)'
    BY <1>1, <1>7 DEF RefsInv, Halfway, ListIsOf
  <2>2. \A m \in Ref \ Named(q) : refs'[m] = None
    BY <1>4, <1>8, <2>1 DEF WrittenSoFar
  <2>3. ASSUME NEW i \in 1..k PROVE refs'[names[i]] = q
    <3>1. i \in 1..Len(names) /\ names[i] \in Ref
      BY <1>2, <1>4
    <3>2. CASE names[i] = n
      BY <1>8, <3>2
    <3>3. CASE names[i] # n
      <4>1. i \in 1..put[q].done
        BY <1>2, <3>3
      <4> QED
        BY <1>8, <2>1, <3>1, <3>3, <4>1 DEF WrittenSoFar
    <3> QED
      BY <3>2, <3>3
  <2>4. WrittenSoFar(q)'
    BY <1>5, <1>6, <1>7, <2>2, <2>3 DEF WrittenSoFar
  <2>5. k = Len(names) => AsListed'
    <3> SUFFICES ASSUME k = Len(names) PROVE AsListed'
      OBVIOUS
    <3>1. \A m \in Named(q) : refs'[m] = q
      BY <1>2, <2>3
    <3>2. refs' \in [Ref -> Put \cup {None}]
      BY <1>9 DEF RefsTypeOK
    <3> QED
      BY <1>1, <2>1, <2>2, <3>1, <3>2 DEF AsListed, ListIsOf
  <2>6. Busy' = {q}
    BY <1>5, <1>6, <1>10 DEF Busy
  <2> QED
    BY <1>5, <1>6, <1>10, <2>1, <2>4, <2>5, <2>6 DEF Halfway
<1>12. AtTheStart'
    BY <1>5, <1>6 DEF RefsInv, AtTheStart
<1> QED
    BY <1>9, <1>10, <1>11, <1>12 DEF RefsInv

\* A request ends, done or half way.
LEMMA EndsKeep ==
    ASSUME RefsInv, NEW q \in Put, Configured(q) \/ BreaksOff(q)
    PROVE  RefsInv'
<1>1. /\ put[q].pc # "idle" /\ put' = [put EXCEPT ![q] = Waiting]
      /\ UNCHANGED <<settings, refs, listed>>
      /\ mixed' = TRUE \/ (put[q].pc = "event" /\ mixed' = mixed)
    BY DEF Configured, BreaksOff
<1>2. put'[q] = Waiting /\ \A r \in Put \ {q} : put'[r] = put[r]
    BY <1>1 DEF RefsInv, RefsTypeOK
<1>3. RefsTypeOK'
  <2>1. put' \in [Put -> PutState] /\ mixed' \in BOOLEAN
    BY <1>1, WaitingType DEF RefsInv, RefsTypeOK
  <2>2. \A r \in Put : put'[r].pc = "write" => put'[r].done < Len(put'[r].names)
    BY <1>2, WaitingType DEF RefsInv, RefsTypeOK
  <2> QED
    BY <1>1, <2>1, <2>2 DEF RefsInv, RefsTypeOK
<1>4. AtTheStart'
    BY <1>2, WaitingType DEF RefsInv, AtTheStart
<1>5. CASE put[q].pc = "event" /\ mixed' = mixed
  <2>1. Alone' /\ (~mixed => \A r \in Put \ {q} : put'[r].pc = "idle")
    BY <1>1, <1>5, WaitingType, StaysAlone
  <2>2. ~mixed => AsListed
    BY <1>5 DEF RefsInv, Halfway
  <2>3. Halfway'
    BY <1>1, <1>2, <1>5, <2>1, <2>2, WaitingType DEF Halfway, AsListed
  <2> QED
    BY <1>3, <1>4, <2>1, <2>3 DEF RefsInv
<1>6. CASE mixed' = TRUE
    BY <1>3, <1>4, <1>6 DEF RefsInv, Alone, Halfway
<1> QED
    BY <1>1, <1>5, <1>6

\* Every step keeps RefsInv.
LEMMA RefsStep == RefsInv /\ [RefsNext]_refVars => RefsInv'
<1> SUFFICES ASSUME RefsInv, [RefsNext]_refVars PROVE RefsInv'
    OBVIOUS
<1>1. ASSUME NEW q \in Put, UpsertRow(q) PROVE RefsInv'
    BY <1>1, UpsertRowKeeps
<1>2. ASSUME NEW q \in Put, DeleteUnnamed(q) PROVE RefsInv'
    BY <1>2, DeleteUnnamedKeeps
<1>3. ASSUME NEW q \in Put, WriteRef(q) PROVE RefsInv'
    BY <1>3, WriteRefKeeps
<1>4. ASSUME NEW q \in Put, Configured(q) \/ BreaksOff(q) PROVE RefsInv'
    BY <1>4, EndsKeep
<1>5. CASE UNCHANGED refVars
    BY <1>5 DEF refVars, RefsInv, RefsTypeOK, Alone, Halfway, AtTheStart, Busy, ListIsOf,
               WrittenSoFar, Named, AsListed
<1> QED
    BY <1>1, <1>2, <1>3, <1>4, <1>5 DEF RefsNext

(***************************************************************************)
(* For any number of requests and references: when nobody is writing, the  *)
(* references are those that the last list named, each with the key of     *)
(* that request, unless requests met or one broke off                      *)
(* (integration.service.ts, configureIntegration).                         *)
(***************************************************************************)
THEOREM RefsListed == RefsSpec => []RefsAreAsListed
<1>1. RefsInv => RefsAreAsListed
    BY DEF RefsInv, Halfway, AsListed, RefsAreAsListed
<1> QED
    BY <1>1, RefsInitially, RefsStep, PTL DEF RefsSpec
-----------------------------------------------------------------------------
(* A record of a field application *)

Kind == DOMAIN StatusOf

\* Two requests in progress have met; one that is alone has had no company.
Company ==
    /\ past.alone => \A v, w \in Working : v = w
    /\ Working # {} => past.alone \/ past.met

\* Requests that have had an effect, of which the log does not tell yet.
Logging == {w \in Worker : work[w].pc \in {"after", "audit"}}

\* The log is right, or will be by the request that is alone.
Told ==
    /\ trail = doc.status \/ past.met \/ past.broken \/ Logging # {}
    /\ \A w \in Logging : past.alone => doc.status = work[w].want

\* A request that has found the record, or has yet to write, has one; those of
\* NearSip have one from the start.
BornFirst ==
    /\ \A w \in Worker : work[w].pc \in {"side", "write", "after", "audit"} => past.born
    /\ kind \in NsKind => past.born \/ Working = {}
    /\ ~past.born => /\ doc.status = "none" /\ doc.side = "none"
                     /\ past.removals = 0 /\ past.cancelled = 0

CancelledOnce == past.cancelled = 0 \/ (past.cancelled = 1 /\ doc.status = "cancelled")

\* What holds of a record of any kind.
RecordInv ==
    /\ FieldTypeOK
    /\ \A w \in Worker : work[w].want \in StatusOf[kind] \cup {"none"}
    /\ Company /\ Told /\ BornFirst /\ CancelledOnce

\* In NearSip a removal that has been made, or logged, is the only one.
Removing == {w \in Logging : work[w].want = "none"}

RemovedOnce ==
    kind \in NsKind =>
        /\ past.removals <= 1
        /\ past.removals = 1 => doc.status = "none" /\ Removing = {}
        /\ doc.status # "none" => Removing = {}
        /\ \A v, w \in Removing : v = w

SchemeFollows ==
    kind = "scheme" =>
        /\ doc.status = "present" => doc.side = "file" /\ Logging = {}
        /\ doc.side = "file" /\ doc.status = "none" => HalfDone
        /\ \A w \in Worker : WorkAt(w, "audit") => doc.side = "none"

SessionsFollow ==
    /\ kind \in NsKind => doc.side = "none"
    /\ doc.status = "disabled" /\ doc.side = "open" =>
          /\ HalfDone
          /\ past.alone => \A w \in Worker : ~WorkAt(w, "audit")

ProfileFollows ==
    kind = "jmVet" /\ ~past.late =>
        /\ doc.side \in {"none", doc.status}
        /\ \A w \in Worker : WorkAt(w, "write") => (work[w].seen = "none" <=> doc.side = "none")

\* What may be asked for a certificate, a scheme, the vet of a profile.
OneWish ==
    \A w \in Working : /\ kind = "certificate" => work[w].want = "cancelled"
                       /\ kind = "scheme" => work[w].want = "none"
                       /\ kind = "jmVet" => work[w].want \in Switch

\* What holds of each kind.
KindInv == RemovedOnce /\ SchemeFollows /\ SessionsFollow /\ ProfileFollows /\ OneWish

FieldInv == RecordInv /\ KindInv

\* The kinds of record, by application.
LEMMA Kinds ==
    /\ NsKind = {"nsPlace", "nsReview", "nsUser"}
    /\ JmKind = {"jmVet", "jmAccount", "jmAlert"}
    /\ PnKind = {"case", "certificate", "template", "scheme", "vet"}
    /\ Kind = PnKind \cup JmKind \cup NsKind
    BY DEF NsKind, NsNew, JmKind, JmNew, PnKind, PnNew, Kind, StatusOf

\* The statuses of each kind.
LEMMA Statuses ==
    /\ StatusOf["case"] = {"submitted", "published", "rejected"}
    /\ StatusOf["certificate"] = {"draft", "issued", "cancelled"}
    /\ StatusOf["template"] = Switch /\ StatusOf["scheme"] = {"present"}
    /\ StatusOf["vet"] = Account
    /\ StatusOf["jmVet"] = Switch /\ StatusOf["jmAccount"] = Account
    /\ StatusOf["jmAlert"] = Switch
    /\ StatusOf["nsPlace"] = Switch /\ StatusOf["nsReview"] = {"present"}
    /\ StatusOf["nsUser"] = Account
    BY DEF StatusOf

\* A status of a kind is a status.
LEMMA StatusTyped ==
    ASSUME NEW k \in Kind
    PROVE  StatusOf[k] \subseteq Status /\ "none" \in Status
    BY DEF Status, Kind

\* A worker that has ended has its type.
LEMMA FreshWork ==
    /\ NoWork \in WorkState /\ NoWork.pc = "idle" /\ NoWork.want = "none" /\ NoWork.seen = "none"
    BY DEF NoWork, WorkState, Status, Side, Switch

\* What a status tells of the record's kind.
LEMMA KindTold ==
    ASSUME NEW k \in Kind, NEW x \in StatusOf[k] \cup {"none"}
    PROVE  /\ x \in {"draft", "issued", "cancelled"} => k = "certificate"
           /\ x \in Account => k \in {"vet", "jmAccount", "nsUser"}
           /\ x = "present" => k \in {"scheme", "nsReview"}
    BY Kinds, Statuses DEF Switch, Account
\* What RecordInv says of types, and that a request wishes a status of the record's kind.
LEMMA RecordTyped ==
    ASSUME RecordInv
    PROVE  /\ kind \in Kind /\ doc \in [status: StatusOf[kind] \cup {"none"}, side: Side]
           /\ work \in [Worker -> WorkState] /\ trail \in Status /\ past \in Past
           /\ \A w \in Worker : /\ work[w] \in WorkState
                                /\ work[w].want \in StatusOf[kind] \cup {"none"}
    BY DEF RecordInv, FieldTypeOK, Kind

\* One request's record is replaced by new.
LEMMA WorkReplaced ==
    ASSUME RecordInv, NEW w \in Worker, NEW new \in WorkState,
           new.want \in StatusOf[kind] \cup {"none"}, work' = [work EXCEPT ![w] = new], kind' = kind
    PROVE  /\ work' \in [Worker -> WorkState] /\ work'[w] = new
           /\ \A v \in Worker \ {w} : work'[v] = work[v]
           /\ \A v \in Worker : work'[v].want \in StatusOf[kind'] \cup {"none"}
           /\ Working' = (Working \ {w}) \cup (IF new.pc = "idle" THEN {} ELSE {w})
           /\ Logging' = (Logging \ {w})
                             \cup (IF new.pc \in {"after", "audit"} THEN {w} ELSE {})
<1>1. work \in [Worker -> WorkState]
    BY RecordTyped
<1>2. /\ work' \in [Worker -> WorkState] /\ work'[w] = new
      /\ \A v \in Worker \ {w} : work'[v] = work[v]
    BY <1>1
<1>3. \A v \in Worker : work'[v].want \in StatusOf[kind'] \cup {"none"}
    BY <1>2, RecordTyped
<1>4. Working' = (Working \ {w}) \cup (IF new.pc = "idle" THEN {} ELSE {w})
    BY <1>2 DEF Working, WorkAt
<1>5. Logging' = (Logging \ {w}) \cup (IF new.pc \in {"after", "audit"} THEN {w} ELSE {})
    BY <1>2 DEF Logging
<1> QED
    BY <1>2, <1>3, <1>4, <1>5

\* Who has yet to log is at work.
LEMMA LoggingWorks ==
    /\ Logging \subseteq Working /\ Working \subseteq Worker
    /\ \A w \in Worker : w \in Working <=> work[w].pc # "idle"
    BY DEF Logging, Working, WorkAt

\* A request that reads on, or is given up before its first effect.
LEMMA MoveStep ==
    ASSUME FieldInv, NEW w \in Worker, NEW new \in WorkState,
           work' = [work EXCEPT ![w] = new], UNCHANGED <<kind, doc, trail, past>>,
           work[w].pc # "idle", new.pc = "idle" => new.want = "none",
           \/ new.pc = "idle" /\ work[w].pc \notin {"after", "audit"}
           \/ /\ new.pc \in {"side", "write"} /\ past.born /\ work[w].pc \in {"read", "side"}
              /\ new.want = work[w].want
           \/ /\ new.pc = "audit" /\ work[w].pc = "after" /\ kind \in NsKind
              /\ new.want = work[w].want,
           kind = "jmVet" /\ new.pc = "write" => (new.seen = "none" <=> doc.side = "none")
    PROVE  FieldInv'
<1>1. RecordInv /\ KindInv
    BY DEF FieldInv
<1>2. /\ kind \in Kind /\ new.want \in StatusOf[kind] \cup {"none"}
    BY <1>1, RecordTyped
<1>3. /\ work' \in [Worker -> WorkState] /\ work'[w] = new
      /\ \A v \in Worker \ {w} : work'[v] = work[v]
      /\ \A v \in Worker : work'[v].want \in StatusOf[kind'] \cup {"none"}
      /\ Working' = (Working \ {w}) \cup (IF new.pc = "idle" THEN {} ELSE {w})
      /\ Logging' = (Logging \ {w}) \cup (IF new.pc \in {"after", "audit"} THEN {w} ELSE {})
    BY <1>1, <1>2, WorkReplaced
<1>4. w \in Working /\ Working' \subseteq Working /\ Logging' = Logging
    BY <1>3, LoggingWorks DEF Logging
<1>5. \A v \in Logging : work'[v].want = work[v].want
    BY <1>3, <1>4 DEF Logging
<1>6. FieldTypeOK'
    BY <1>1, <1>3 DEF RecordInv, FieldTypeOK
<1>7. Company'
    BY <1>1, <1>4 DEF RecordInv, Company
<1>8. Told'
    BY <1>1, <1>4, <1>5 DEF RecordInv, Told
<1>9. BornFirst'
    BY <1>1, <1>3, <1>4 DEF RecordInv, BornFirst
<1>10. CancelledOnce'
    BY <1>1 DEF RecordInv, CancelledOnce
<1>11. RemovedOnce'
  <2>1. Removing' = Removing
    BY <1>4, <1>5 DEF Removing, Logging
  <2> QED
    BY <1>1, <2>1 DEF KindInv, RemovedOnce
<1>a. ASSUME kind \notin NsKind
      PROVE  /\ \A v \in Worker : WorkAt(v, "audit")' <=> WorkAt(v, "audit")
             /\ \A v \in Worker : WorkAt(v, "after")' <=> WorkAt(v, "after")
    BY <1>3, <1>a DEF WorkAt
<1>12. SchemeFollows'
    BY <1>1, <1>4, <1>a, Kinds DEF KindInv, SchemeFollows, HalfDone
<1>13. SessionsFollow'
  <2>1. CASE kind \in NsKind
    BY <1>1, <2>1 DEF KindInv, SessionsFollow
  <2>2. CASE kind \notin NsKind
    BY <1>1, <1>a, <2>2 DEF KindInv, SessionsFollow, HalfDone
  <2> QED
    BY <2>1, <2>2
<1>14. ProfileFollows'
    BY <1>1, <1>3 DEF KindInv, ProfileFollows, WorkAt
<1>15. OneWish'
    BY <1>1, <1>3, <1>4 DEF KindInv, OneWish
<1> QED
    BY <1>3, <1>6, <1>7, <1>8, <1>9, <1>10, <1>11, <1>12, <1>13, <1>14, <1>15
       DEF FieldInv, RecordInv, KindInv

\* A request begins.
LEMMA EnterStep ==
    ASSUME FieldInv, NEW w \in Worker, NEW pc \in {"read", "write"}, NEW wants,
           wants \subseteq StatusOf[kind] \cup {"none"}, Enter(w, pc, wants),
           pc = "write" \/ kind \in NsKind => past.born,
           kind = "jmVet" => pc = "read",
           kind = "certificate" => wants = {"cancelled"}, kind = "scheme" => wants = {"none"},
           kind = "jmVet" => wants = Switch
    PROVE  FieldInv'
<1>1. RecordInv /\ KindInv
    BY DEF FieldInv
<1>2. kind \in Kind /\ past \in Past
    BY <1>1, RecordTyped
<1>3. PICK want \in wants : work' = [work EXCEPT ![w] = [NoWork EXCEPT !.pc = pc, !.want = want]]
    BY DEF Enter
<1>4. PICK new : new = [NoWork EXCEPT !.pc = pc, !.want = want]
    OBVIOUS
<1>5. want \in Status
    BY <1>2, StatusTyped
<1>6. new \in WorkState /\ new.pc = pc /\ new.want = want
    BY <1>4, <1>5 DEF NoWork, WorkState, Side, Switch
<1>7. /\ work[w].pc = "idle" /\ UNCHANGED <<kind, doc, trail>>
      /\ past' = [past EXCEPT !.alone = (Working = {}), !.met = past.met \/ Working # {}]
    BY DEF Enter, WorkAt
<1>8. /\ past' \in Past /\ past'.alone = (Working = {})
      /\ past'.met = (past.met \/ Working # {})
      /\ past'.broken = past.broken /\ past'.born = past.born /\ past'.late = past.late
      /\ past'.removals = past.removals /\ past'.cancelled = past.cancelled
    BY <1>2, <1>7 DEF Past
<1>9. /\ work' \in [Worker -> WorkState] /\ work'[w] = new
      /\ \A v \in Worker \ {w} : work'[v] = work[v]
      /\ \A v \in Worker : work'[v].want \in StatusOf[kind'] \cup {"none"}
      /\ Working' = Working \cup {w} /\ Logging' = Logging \ {w}
  <2>1. new.want \in StatusOf[kind] \cup {"none"} /\ kind' = kind
    BY <1>6, <1>7
  <2>2. new.pc # "idle" /\ new.pc \notin {"after", "audit"}
    BY <1>6
  <2>3. work' = [work EXCEPT ![w] = new]
    BY <1>3, <1>4
  <2>4. /\ work' \in [Worker -> WorkState] /\ work'[w] = new
        /\ \A v \in Worker \ {w} : work'[v] = work[v]
        /\ \A v \in Worker : work'[v].want \in StatusOf[kind'] \cup {"none"}
        /\ Working' = (Working \ {w}) \cup (IF new.pc = "idle" THEN {} ELSE {w})
        /\ Logging' = (Logging \ {w})
                          \cup (IF new.pc \in {"after", "audit"} THEN {w} ELSE {})
    BY <1>1, <1>6, <2>1, <2>3, WorkReplaced
  <2> QED
    BY <2>2, <2>4
<1>10. w \notin Working /\ w \notin Logging /\ Logging' = Logging
    BY <1>7, <1>9, LoggingWorks
<1>11. FieldTypeOK'
    BY <1>1, <1>7, <1>8, <1>9 DEF RecordInv, FieldTypeOK
<1>12. Company'
    BY <1>8, <1>9 DEF Company
<1>13. Told'
    BY <1>1, <1>7, <1>8, <1>9, <1>10, LoggingWorks DEF RecordInv, Told
<1>14. BornFirst'
    BY <1>1, <1>6, <1>7, <1>8, <1>9 DEF RecordInv, BornFirst
<1>15. CancelledOnce'
    BY <1>1, <1>7, <1>8 DEF RecordInv, CancelledOnce
<1>16. RemovedOnce'
  <2>1. \A v \in Logging : v # w /\ v \in Worker /\ work'[v] = work[v]
    BY <1>9, <1>10 DEF Logging
  <2>2. Removing' = Removing
    BY <1>10, <2>1 DEF Removing
  <2> QED
    BY <1>1, <1>7, <1>8, <2>2 DEF KindInv, RemovedOnce
<1>17. \A v \in Worker : /\ WorkAt(v, "audit")' <=> WorkAt(v, "audit")
                         /\ WorkAt(v, "after")' <=> WorkAt(v, "after")
    BY <1>6, <1>7, <1>9 DEF WorkAt
<1>18. SchemeFollows'
    BY <1>1, <1>7, <1>8, <1>10, <1>17 DEF KindInv, SchemeFollows, HalfDone
<1>19. SessionsFollow'
  <2>1. past'.alone => \A v \in Worker : ~WorkAt(v, "audit")
    BY <1>8 DEF Working, WorkAt
  <2> QED
    BY <1>1, <1>7, <1>8, <1>17, <2>1 DEF KindInv, SessionsFollow, HalfDone
<1>20. ProfileFollows'
    BY <1>1, <1>6, <1>7, <1>8, <1>9 DEF KindInv, ProfileFollows, WorkAt
<1>21. OneWish'
  <2>1. want = "cancelled" \/ kind # "certificate"
    BY <1>3
  <2>2. want = "none" \/ kind # "scheme"
    BY <1>3
  <2>3. want \in Switch \/ kind # "jmVet"
    BY <1>3
  <2>4. \A v \in Working' \ {w} : v \in Working /\ work'[v] = work[v]
    BY <1>9, LoggingWorks
  <2> QED
    BY <1>1, <1>6, <1>7, <1>9, <2>1, <2>2, <2>3, <2>4 DEF KindInv, OneWish
<1> QED
    BY <1>9, <1>11, <1>12, <1>13, <1>14, <1>15, <1>16, <1>18, <1>19, <1>20, <1>21
       DEF FieldInv, RecordInv, KindInv
\* A request that breaks off after its first effect says so in past.
LEMMA BreaksStep ==
    ASSUME FieldInv, NEW w \in Worker, Breaks(w)
    PROVE  FieldInv'
<1>1. RecordInv /\ KindInv
    BY DEF FieldInv
<1>2. past \in Past
    BY <1>1, RecordTyped
<1>3. /\ work[w].pc # "idle" /\ work' = [work EXCEPT ![w] = NoWork]
      /\ past' = [past EXCEPT !.broken = past.broken \/ work[w].pc \in {"after", "audit"}]
      /\ UNCHANGED <<kind, doc, trail>>
    BY DEF Breaks, Drops, WorkAt
<1>4. /\ past' \in Past /\ past'.broken = (past.broken \/ work[w].pc \in {"after", "audit"})
      /\ past'.alone = past.alone /\ past'.met = past.met
      /\ past'.born = past.born /\ past'.late = past.late
      /\ past'.removals = past.removals /\ past'.cancelled = past.cancelled
    BY <1>2, <1>3 DEF Past
<1>5. /\ work' \in [Worker -> WorkState] /\ work'[w] = NoWork
      /\ \A v \in Worker \ {w} : work'[v] = work[v]
      /\ \A v \in Worker : work'[v].want \in StatusOf[kind'] \cup {"none"}
      /\ Working' = Working \ {w} /\ Logging' = Logging \ {w}
    BY <1>1, <1>3, FreshWork, WorkReplaced
<1>6. past'.broken \/ (Logging' = Logging /\ ~WorkAt(w, "after") /\ past'.broken = past.broken)
    BY <1>2, <1>4, <1>5 DEF Logging, WorkAt, Past
<1>7. FieldTypeOK'
    BY <1>1, <1>3, <1>4, <1>5 DEF RecordInv, FieldTypeOK
<1>8. Company'
    BY <1>1, <1>4, <1>5 DEF RecordInv, Company
<1>9. \A v \in Logging' : v \in Logging /\ work'[v] = work[v]
    BY <1>5 DEF Logging
<1>10. Told'
    BY <1>1, <1>3, <1>4, <1>6, <1>9 DEF RecordInv, Told
<1>11. BornFirst'
    BY <1>1, <1>3, <1>4, <1>5, FreshWork DEF RecordInv, BornFirst
<1>12. CancelledOnce'
    BY <1>1, <1>3, <1>4 DEF RecordInv, CancelledOnce
<1>13. RemovedOnce'
  <2>1. Removing' \subseteq Removing
    BY <1>9 DEF Removing
  <2> QED
    BY <1>1, <1>3, <1>4, <2>1 DEF KindInv, RemovedOnce
<1>14. \A v \in Worker : /\ WorkAt(v, "audit")' => WorkAt(v, "audit")
                         /\ WorkAt(v, "after") => WorkAt(v, "after")' \/ v = w
    BY <1>5, FreshWork DEF WorkAt
<1>15. HalfDone => HalfDone'
    BY <1>6, <1>14 DEF HalfDone
<1>16. SchemeFollows'
    BY <1>1, <1>3, <1>5, <1>14, <1>15 DEF KindInv, SchemeFollows
<1>17. SessionsFollow'
    BY <1>1, <1>3, <1>4, <1>14, <1>15 DEF KindInv, SessionsFollow
<1>18. ProfileFollows'
    BY <1>1, <1>3, <1>4, <1>5, FreshWork DEF KindInv, ProfileFollows, WorkAt
<1>19. OneWish'
    BY <1>1, <1>3, <1>5, LoggingWorks DEF KindInv, OneWish
<1> QED
    BY <1>5, <1>7, <1>8, <1>10, <1>11, <1>12, <1>13, <1>16, <1>17, <1>18, <1>19
       DEF FieldInv, RecordInv, KindInv

\* The entry of a request that worked alone is what the record says.
LEMMA AuditStep ==
    ASSUME FieldInv, NEW w \in Worker, Audit(w)
    PROVE  FieldInv'
<1>1. RecordInv /\ KindInv
    BY DEF FieldInv
<1>2. past \in Past /\ kind \in Kind /\ work[w].want \in StatusOf[kind] \cup {"none"}
    BY <1>1, RecordTyped
<1>3. /\ work[w].pc = "audit" /\ work' = [work EXCEPT ![w] = NoWork] /\ trail' = work[w].want
      /\ past' = [past EXCEPT
             !.met = past.met /\ ~past.alone,
             !.broken = past.broken /\ ~past.alone,
             !.removals = Counts(past.removals, work[w].want = "none")]
      /\ UNCHANGED <<kind, doc>>
    BY DEF Audit, Drops, WorkAt
<1>4. Counts(past.removals, work[w].want = "none") \in 0..2
    BY <1>2 DEF Counts, Past
<1>5. /\ past' \in Past /\ past'.broken = (past.broken /\ ~past.alone)
      /\ past'.met = (past.met /\ ~past.alone)
      /\ past'.alone = past.alone /\ past'.born = past.born /\ past'.late = past.late
      /\ past'.removals = Counts(past.removals, work[w].want = "none")
      /\ past'.cancelled = past.cancelled
    BY <1>2, <1>3, <1>4 DEF Past
<1>6. /\ work' \in [Worker -> WorkState] /\ work'[w] = NoWork
      /\ \A v \in Worker \ {w} : work'[v] = work[v]
      /\ \A v \in Worker : work'[v].want \in StatusOf[kind'] \cup {"none"}
      /\ Working' = Working \ {w} /\ Logging' = Logging \ {w}
    BY <1>1, <1>3, FreshWork, WorkReplaced
<1>7. w \in Logging /\ w \in Working /\ past.born
    BY <1>1, <1>3, LoggingWorks DEF Logging, RecordInv, BornFirst
<1>8. trail' \in Status
    BY <1>2, <1>3, StatusTyped
<1>9. FieldTypeOK'
    BY <1>1, <1>3, <1>5, <1>6, <1>8 DEF RecordInv, FieldTypeOK
<1>a. past.alone \in BOOLEAN /\ past.met \in BOOLEAN /\ past.broken \in BOOLEAN
    BY <1>2 DEF Past
<1>b. past.alone \/ past'.met
    BY <1>1, <1>5, <1>7, <1>a DEF RecordInv, Company
<1>10. Company'
    BY <1>1, <1>5, <1>6, <1>b DEF RecordInv, Company
<1>11. \A v \in Logging' : v \in Logging /\ work'[v] = work[v]
    BY <1>6 DEF Logging
<1>12. Told'
  <2>1. past.alone => trail' = doc.status
    BY <1>1, <1>3, <1>7 DEF RecordInv, Told
  <2>2. \A v \in Logging' : past'.alone => doc'.status = work'[v].want
    BY <1>1, <1>3, <1>5, <1>11 DEF RecordInv, Told
  <2> QED
    BY <1>3, <1>b, <2>1, <2>2 DEF Told
<1>13. BornFirst'
    BY <1>1, <1>3, <1>5, <1>6, <1>7, FreshWork DEF RecordInv, BornFirst
<1>14. CancelledOnce'
    BY <1>1, <1>3, <1>5 DEF RecordInv, CancelledOnce
<1>15. RemovedOnce'
  <2> SUFFICES ASSUME kind \in NsKind PROVE RemovedOnce'
    BY <1>3 DEF RemovedOnce
  <2>1. Removing' \subseteq Removing \ {w}
    BY <1>6, <1>11 DEF Removing
  <2>2. CASE work[w].want = "none"
    <3>1. w \in Removing
      BY <1>7, <2>2 DEF Removing
    <3>2. past.removals # 1 /\ past.removals <= 1 /\ doc.status = "none" /\ Removing' = {}
      BY <1>1, <2>1, <3>1 DEF KindInv, RemovedOnce
    <3>3. past'.removals = 1
      BY <1>2, <1>5, <2>2, <3>2 DEF Past, Counts
    <3> QED
      BY <1>3, <3>2, <3>3 DEF RemovedOnce
  <2>3. CASE work[w].want # "none"
    <3>1. past'.removals = past.removals
      BY <1>5, <2>3 DEF Counts
    <3> QED
      BY <1>1, <1>3, <2>1, <3>1 DEF KindInv, RemovedOnce
  <2> QED
    BY <2>2, <2>3
<1>16. \A v \in Worker : /\ WorkAt(v, "audit")' => WorkAt(v, "audit")
                         /\ WorkAt(v, "after") => WorkAt(v, "after")'
    BY <1>3, <1>6, FreshWork DEF WorkAt
<1>17. WorkAt(w, "audit") /\ (past.alone \/ (HalfDone => HalfDone'))
    BY <1>3, <1>5, <1>16, <1>a DEF HalfDone, WorkAt
<1>18. SchemeFollows'
  <2> SUFFICES ASSUME kind = "scheme" PROVE SchemeFollows'
    BY <1>3 DEF SchemeFollows
  <2>1. doc.side = "none" /\ doc.status # "present"
    BY <1>1, <1>7, <1>17 DEF KindInv, SchemeFollows
  <2> QED
    BY <1>3, <2>1 DEF SchemeFollows
<1>19. SessionsFollow'
    BY <1>1, <1>3, <1>5, <1>16, <1>17 DEF KindInv, SessionsFollow
<1>20. ProfileFollows'
    BY <1>1, <1>3, <1>5, <1>6, FreshWork DEF KindInv, ProfileFollows, WorkAt
<1>21. OneWish'
    BY <1>1, <1>3, <1>6, LoggingWorks DEF KindInv, OneWish
<1> QED
    BY <1>6, <1>9, <1>10, <1>12, <1>13, <1>14, <1>15, <1>18, <1>19, <1>20, <1>21
       DEF FieldInv, RecordInv, KindInv
\* A request writes what it wants; or, having done so, the side state.
LEMMA WritesKeep ==
    ASSUME FieldInv, NEW w \in Worker, NEW to \in [status: StatusOf[kind] \cup {"none"}, side: Side],
           NEW pc \in {"after", "audit"}, Writes(w, to, pc),
           \/ work[w].pc \in {"read", "write"} /\ to.status = work[w].want
           \/ work[w].pc = "after" /\ to.status = doc.status,
           doc.status # "cancelled",
           kind \in NsKind => past.born
    PROVE  /\ RecordInv' /\ OneWish' /\ UNCHANGED kind /\ doc' = to
           /\ w \in Logging' /\ Logging' = Logging \cup {w}
           /\ work'[w].pc = pc /\ work'[w].want = work[w].want
           /\ \A v \in Worker \ {w} : work'[v] = work[v]
           /\ past'.born /\ past'.alone = past.alone /\ past'.broken = past.broken
           /\ past'.late = past.late /\ past'.removals = past.removals
<1>1. RecordInv
    BY DEF FieldInv
<1>2. /\ past \in Past /\ kind \in Kind /\ work[w] \in WorkState
      /\ work[w].want \in StatusOf[kind] \cup {"none"}
    BY <1>1, RecordTyped
<1>3. PICK new : new = [work[w] EXCEPT !.pc = pc]
    OBVIOUS
<1>4. /\ new \in WorkState /\ new.pc = pc /\ new.want = work[w].want
    BY <1>2, <1>3 DEF WorkState
<1>5. /\ work' = [work EXCEPT ![w] = new] /\ doc' = to /\ UNCHANGED <<kind, trail>>
      /\ past' = [past EXCEPT !.born = TRUE, !.cancelled = Counts(past.cancelled, Cancels(to))]
    BY <1>3 DEF Writes, Goes
<1>6. Counts(past.cancelled, Cancels(to)) \in 0..2
    BY <1>2 DEF Counts, Past
<1>7. /\ past' \in Past /\ past'.broken = past.broken /\ past'.met = past.met
      /\ past'.alone = past.alone /\ past'.born = TRUE /\ past'.late = past.late
      /\ past'.removals = past.removals
      /\ past'.cancelled = Counts(past.cancelled, Cancels(to))
    BY <1>2, <1>5, <1>6 DEF Past
<1>8. /\ work' \in [Worker -> WorkState] /\ work'[w] = new
      /\ \A v \in Worker \ {w} : work'[v] = work[v]
      /\ \A v \in Worker : work'[v].want \in StatusOf[kind'] \cup {"none"}
      /\ Working' = (Working \ {w}) \cup (IF new.pc = "idle" THEN {} ELSE {w})
      /\ Logging' = (Logging \ {w}) \cup (IF new.pc \in {"after", "audit"} THEN {w} ELSE {})
    BY <1>1, <1>2, <1>4, <1>5, WorkReplaced
<1>9. w \in Working /\ Working' = Working /\ Logging' = Logging \cup {w}
    BY <1>4, <1>8, LoggingWorks
<1>10. FieldTypeOK'
    BY <1>1, <1>5, <1>7, <1>8 DEF RecordInv, FieldTypeOK
<1>11. Company'
    BY <1>1, <1>7, <1>9 DEF RecordInv, Company
<1>12. Told'
  <2> SUFFICES ASSUME NEW v \in Logging', past.alone
               PROVE  to.status = work'[v].want
    BY <1>5, <1>7, <1>9 DEF Told
  <2>1. v = w
    BY <1>1, <1>9, LoggingWorks DEF RecordInv, Company
  <2>2. work[w].pc = "after" => doc.status = work[w].want
    BY <1>1 DEF RecordInv, Told, Logging
  <2> QED
    BY <1>4, <1>8, <2>1, <2>2
<1>13. BornFirst'
    BY <1>7 DEF BornFirst
<1>14. CancelledOnce'
  <2>1. CASE Cancels(to)
    <3>1. past.cancelled = 0 /\ to.status = "cancelled"
      BY <1>1, <2>1 DEF RecordInv, CancelledOnce, Cancels
    <3>2. past'.cancelled = 1
      BY <1>7, <2>1, <3>1 DEF Counts
    <3> QED
      BY <1>5, <3>1, <3>2 DEF CancelledOnce
  <2>2. CASE ~Cancels(to)
    <3>1. past'.cancelled = past.cancelled
      BY <1>7, <2>2 DEF Counts
    <3> QED
      BY <1>1, <1>5, <3>1 DEF RecordInv, CancelledOnce
  <2> QED
    BY <2>1, <2>2
<1>15. OneWish'
    BY <1>4, <1>5, <1>8, <1>9 DEF FieldInv, KindInv, OneWish
<1> QED
    BY <1>4, <1>5, <1>7, <1>8, <1>9, <1>10, <1>11, <1>12, <1>13, <1>14, <1>15 DEF RecordInv

\* The application writes the record.
LEMMA AppWritesKeep ==
    ASSUME FieldInv, NEW to \in [status: StatusOf[kind] \cup {"none"}, side: Side], AppWrites(to),
           doc.status # "cancelled",
           kind \in NsKind => ~past.born
    PROVE  /\ RecordInv' /\ OneWish' /\ UNCHANGED <<kind, work>> /\ doc' = to
           /\ past'.born /\ past'.alone = FALSE /\ past'.broken = past.broken
           /\ past'.late = past.late /\ past'.removals = past.removals
<1>1. RecordInv
    BY DEF FieldInv
<1>2. past \in Past /\ kind \in Kind
    BY <1>1, RecordTyped
<1>3. /\ doc' = to /\ trail' = to.status /\ UNCHANGED <<kind, work>>
      /\ past' = [past EXCEPT
             !.born = TRUE, !.alone = FALSE, !.met = past.met \/ Working # {},
             !.cancelled = Counts(past.cancelled, Cancels(to))]
    BY DEF AppWrites
<1>4. Counts(past.cancelled, Cancels(to)) \in 0..2
    BY <1>2 DEF Counts, Past
<1>5. /\ past' \in Past /\ past'.broken = past.broken
      /\ past'.met = (past.met \/ Working # {})
      /\ past'.alone = FALSE /\ past'.born = TRUE /\ past'.late = past.late
      /\ past'.removals = past.removals
      /\ past'.cancelled = Counts(past.cancelled, Cancels(to))
    BY <1>2, <1>3, <1>4 DEF Past
<1>6. Working' = Working /\ Logging' = Logging
    BY <1>3 DEF Working, Logging, WorkAt
<1>7. trail' \in Status
    BY <1>2, <1>3, StatusTyped
<1>8. FieldTypeOK' /\ \A w \in Worker : work'[w].want \in StatusOf[kind'] \cup {"none"}
    BY <1>1, <1>3, <1>5, <1>7 DEF RecordInv, FieldTypeOK
<1>9. Company' /\ Told' /\ BornFirst'
    BY <1>3, <1>5, <1>6 DEF Company, Told, BornFirst
<1>10. CancelledOnce'
  <2>1. CASE Cancels(to)
    <3>1. past.cancelled = 0 /\ to.status = "cancelled"
      BY <1>1, <2>1 DEF RecordInv, CancelledOnce, Cancels
    <3>2. past'.cancelled = 1
      BY <1>5, <2>1, <3>1 DEF Counts
    <3> QED
      BY <1>3, <3>1, <3>2 DEF CancelledOnce
  <2>2. CASE ~Cancels(to)
    <3>1. past'.cancelled = past.cancelled
      BY <1>5, <2>2 DEF Counts
    <3> QED
      BY <1>1, <1>3, <3>1 DEF RecordInv, CancelledOnce
  <2> QED
    BY <2>1, <2>2
<1>11. OneWish'
    BY <1>3, <1>6 DEF FieldInv, KindInv, OneWish
<1> QED
    BY <1>3, <1>5, <1>8, <1>9, <1>10, <1>11 DEF RecordInv

\* Nothing more is asked of a record without side state outside NearSip.
LEMMA PlainKind ==
    ASSUME RecordInv', OneWish', kind' \in {"case", "certificate", "template", "jmAlert"}
    PROVE  KindInv'
<1>1. kind' \in Kind /\ doc'.status \in StatusOf[kind'] \cup {"none"}
    BY Kinds DEF RecordInv, FieldTypeOK
<1>2. doc'.status # "disabled"
    BY <1>1, KindTold DEF Account
<1> QED
    BY <1>2, Kinds DEF KindInv, RemovedOnce, SchemeFollows, SessionsFollow, ProfileFollows
\* A record with another status, or with another side.
LEMMA DocWith ==
    ASSUME RecordInv, NEW x \in StatusOf[kind] \cup {"none"}, NEW y \in Side
    PROVE  /\ [doc EXCEPT !.status = x] \in [status: StatusOf[kind] \cup {"none"}, side: Side]
           /\ [doc EXCEPT !.status = x].status = x /\ [doc EXCEPT !.status = x].side = doc.side
           /\ [doc EXCEPT !.side = y] \in [status: StatusOf[kind] \cup {"none"}, side: Side]
           /\ [doc EXCEPT !.side = y].status = doc.status /\ [doc EXCEPT !.side = y].side = y
           /\ "none" \in Side /\ doc.side \in Side
<1>1. doc \in [status: StatusOf[kind] \cup {"none"}, side: Side]
    BY RecordTyped
<1> QED
    BY <1>1 DEF Side

\* What a route may ask for is a status of its kind.
LEMMA WantsTyped ==
    /\ PnWants["case"] \subseteq StatusOf["case"]
    /\ PnWants["template"] \subseteq StatusOf["template"]
    /\ PnWants["certificate"] = {"cancelled"}
    /\ PnWants["scheme"] = {"none"}
    /\ PnWants["vet"] = Account
    /\ NsWants["nsPlace"] \subseteq StatusOf["nsPlace"] \cup {"none"}
    /\ NsWants["nsReview"] = {"none"}
    /\ NsWants["nsUser"] = Account
    BY Statuses DEF PnWants, NsWants

\* A read that finds the record.
LEMMA FoundStep ==
    ASSUME FieldInv, NEW w \in Worker, kind # "jmVet", Found(w)
    PROVE  FieldInv'
<1>1. RecordInv
    BY DEF FieldInv
<1>2. work[w] \in WorkState
    BY <1>1, RecordTyped
<1>3. PICK new : new = [work[w] EXCEPT !.pc = "write"]
    OBVIOUS
<1>4. new \in WorkState /\ new.pc = "write" /\ new.want = work[w].want
    BY <1>2, <1>3 DEF WorkState
<1>5. /\ work' = [work EXCEPT ![w] = new] /\ UNCHANGED <<kind, doc, trail, past>>
      /\ work[w].pc = "read" /\ doc.status # "none"
    BY <1>3 DEF Found, Proceeds, Goes, WorkAt
<1>6. past.born
    BY <1>1, <1>5 DEF RecordInv, BornFirst
<1> QED
    BY <1>4, <1>5, <1>6, MoveStep

\* A request that is refused has changed nothing.
LEMMA RejectStep ==
    ASSUME FieldInv, NEW w \in Worker, Reject(w), work[w].pc \in {"read", "side", "write"}
    PROVE  FieldInv'
<1>1. /\ work' = [work EXCEPT ![w] = NoWork] /\ UNCHANGED <<kind, doc, trail, past>>
    BY DEF Reject, Drops
<1> QED
    BY <1>1, FreshWork, MoveStep

\* The update of a record that is there.
LEMMA UpdateFoundStep ==
    ASSUME FieldInv, NEW w \in Worker, kind \in {"case", "template", "jmAlert"}, UpdateFound(w)
    PROVE  FieldInv'
<1>1. RecordInv /\ kind \in Kind /\ work[w].want \in StatusOf[kind] \cup {"none"}
    BY RecordTyped DEF FieldInv
<1>2. PICK to : to = [doc EXCEPT !.status = work[w].want]
    OBVIOUS
<1>3. /\ to \in [status: StatusOf[kind] \cup {"none"}, side: Side] /\ to.status = work[w].want
    BY <1>1, <1>2, DocWith DEF Side
<1>4. Writes(w, to, "audit") /\ work[w].pc = "write"
    BY <1>2 DEF UpdateFound, WorkAt
<1>5. doc.status # "cancelled"
    BY <1>1, KindTold, RecordTyped
<1>6. RecordInv' /\ OneWish' /\ UNCHANGED kind
    BY <1>3, <1>4, <1>5, WritesKeep, Kinds
<1> QED
    BY <1>6, PlainKind DEF FieldInv

\* The routes that read first and update later.
LEMMA ReadThenUpdateStep ==
    ASSUME FieldInv, NEW w \in Worker, kind \in {"case", "template", "jmAlert"},
           NEW wants, wants \subseteq StatusOf[kind] \cup {"none"}, ReadThenUpdate(w, wants)
    PROVE  FieldInv'
<1>1. CASE Enter(w, "read", wants)
    BY <1>1, EnterStep, Kinds
<1>2. CASE Found(w)
    BY <1>2, FoundStep
<1>3. CASE NotFound(w)
    BY <1>3, RejectStep DEF NotFound, WorkAt
<1>4. CASE UpdateFound(w)
    BY <1>4, UpdateFoundStep
<1> QED
    BY <1>1, <1>2, <1>3, <1>4 DEF ReadThenUpdate

\* The transaction writes over an issued certificate only, so it cancels once.
LEMMA CancelCertificateStep ==
    ASSUME FieldInv, NEW w \in Worker, CancelCertificate(w)
    PROVE  FieldInv'
<1>1. RecordInv /\ kind = "certificate"
    BY DEF FieldInv, CancelCertificate
<1>2. CASE Enter(w, "read", PnWants[kind])
    BY <1>1, <1>2, EnterStep, WantsTyped, Statuses, Kinds
<1>3. CASE WorkAt(w, "read") /\ doc.status # "issued" /\ Reject(w)
    BY <1>3, RejectStep DEF WorkAt
<1>4. CASE /\ WorkAt(w, "read") /\ doc.status = "issued"
           /\ Writes(w, [doc EXCEPT !.status = "cancelled"], "audit")
  <2>1. PICK to : to = [doc EXCEPT !.status = "cancelled"]
    OBVIOUS
  <2>2. /\ to \in [status: StatusOf[kind] \cup {"none"}, side: Side] /\ to.status = "cancelled"
    BY <1>1, <2>1, DocWith, Statuses DEF Side
  <2>3. work[w].want = "cancelled"
    BY <1>1, <1>4, LoggingWorks DEF FieldInv, KindInv, OneWish, WorkAt
  <2> QED
    BY <1>1, <1>4, <2>1, <2>2, <2>3, WritesKeep, PlainKind, Kinds DEF WorkAt, FieldInv
<1> QED
    BY <1>2, <1>3, <1>4 DEF CancelCertificate, Cancel
\* A deletion of a scheme: the document, then the file.
LEMMA RemoveSchemeStep ==
    ASSUME FieldInv, NEW w \in Worker, RemoveScheme(w)
    PROVE  FieldInv'
<1>1. /\ RecordInv /\ KindInv /\ kind = "scheme" /\ kind \notin NsKind
      /\ doc \in [status: StatusOf[kind] \cup {"none"}, side: Side]
      /\ doc.status # "cancelled" /\ doc.status # "disabled"
  <2>1. RecordInv /\ KindInv /\ kind = "scheme" /\ kind \notin NsKind
    BY Kinds DEF FieldInv, RemoveScheme
  <2>2. kind \in Kind /\ doc \in [status: StatusOf[kind] \cup {"none"}, side: Side]
    BY <2>1, RecordTyped
  <2> QED
    BY <2>1, <2>2, Statuses
<1>2. CASE Enter(w, "read", PnWants[kind])
    BY <1>1, <1>2, EnterStep, WantsTyped
<1>3. CASE Found(w)
    BY <1>1, <1>3, FoundStep
<1>4. CASE NotFound(w)
    BY <1>4, RejectStep DEF NotFound, WorkAt
<1>5. ASSUME NEW to \in [status: StatusOf[kind] \cup {"none"}, side: Side], NEW pc \in {"after", "audit"},
             Writes(w, to, pc), to.status = "none",
             \/ work[w].pc = "write" /\ pc = "after" /\ to.side = doc.side
             \/ work[w].pc = "after" /\ pc = "audit" /\ to.side = "none" /\ doc.status = "none"
      PROVE  FieldInv'
  <2>1. work[w].want = "none"
    BY <1>1, <1>5, LoggingWorks DEF KindInv, OneWish
  <2>2. /\ RecordInv' /\ OneWish' /\ kind' = "scheme" /\ doc' = to
        /\ work'[w].pc = pc /\ \A v \in Worker \ {w} : work'[v] = work[v]
    BY <1>1, <1>5, <2>1, WritesKeep
  <2>3. SchemeFollows'
    <3>1. CASE work[w].pc = "write"
      <4>1. HalfDone'
        BY <1>5, <2>2, <3>1 DEF HalfDone, WorkAt
      <4>2. \A v \in Worker : WorkAt(v, "audit")' => WorkAt(v, "audit")
        BY <1>5, <2>2, <3>1 DEF WorkAt
      <4> QED
        BY <1>1, <1>5, <2>2, <3>1, <4>1, <4>2 DEF SchemeFollows, KindInv
    <3>2. CASE work[w].pc = "after"
      BY <1>5, <2>2, <3>2 DEF SchemeFollows
    <3> QED
      BY <1>5, <3>1, <3>2
  <2> QED
    BY <1>1, <1>5, <2>2, <2>3
       DEF FieldInv, KindInv, RemovedOnce, SessionsFollow, ProfileFollows
<1>6. CASE WorkAt(w, "write") /\ Writes(w, [doc EXCEPT !.status = "none"], "after")
  <2>1. PICK to : to = [doc EXCEPT !.status = "none"]
    OBVIOUS
  <2>2. /\ to \in [status: StatusOf[kind] \cup {"none"}, side: Side]
        /\ to.status = "none" /\ to.side = doc.side
    BY <1>1, <2>1
  <2> QED
    BY <1>5, <1>6, <2>1, <2>2 DEF WorkAt
<1>7. CASE WorkAt(w, "after") /\ Writes(w, [doc EXCEPT !.side = "none"], "audit")
  <2>1. PICK to : to = [doc EXCEPT !.side = "none"]
    OBVIOUS
  <2>2. "none" \in Side
    BY DEF Side
  <2>3. /\ to \in [status: StatusOf[kind] \cup {"none"}, side: Side]
        /\ to.status = doc.status /\ to.side = "none"
    BY <1>1, <2>1, <2>2
  <2>4. w \in Logging
    BY <1>7 DEF Logging, WorkAt
  <2>5. doc.status \in {"present", "none"}
    BY <1>1, Statuses
  <2>6. doc.status = "none"
    BY <1>1, <2>4, <2>5 DEF KindInv, SchemeFollows
  <2> QED
    BY <1>5, <1>7, <2>1, <2>3, <2>6 DEF WorkAt
<1> QED
    BY <1>2, <1>3, <1>4, <1>6, <1>7 DEF RemoveScheme, DeleteScheme

\* An account is disabled, with its sessions, or enabled.
LEMMA AccountStep ==
    ASSUME FieldInv, NEW w \in Worker, kind \in {"vet", "jmAccount"}, AccountOf(w)
    PROVE  FieldInv'
<1>1. /\ RecordInv /\ KindInv /\ kind \notin NsKind /\ StatusOf[kind] = Account
      /\ doc \in [status: StatusOf[kind] \cup {"none"}, side: Side]
      /\ doc.status # "cancelled" /\ work[w].want \in StatusOf[kind] \cup {"none"}
  <2>1. RecordInv /\ KindInv /\ kind \notin NsKind /\ StatusOf[kind] = Account
    BY Kinds, Statuses DEF FieldInv
  <2>2. doc \in [status: StatusOf[kind] \cup {"none"}, side: Side]
    BY <2>1, RecordTyped
  <2> QED
    BY <2>1, <2>2, RecordTyped DEF Account
<1>2. CASE Enter(w, "read", PnWants["vet"])
    BY <1>1, <1>2, EnterStep, WantsTyped
<1>3. CASE Found(w)
    BY <1>3, FoundStep
<1>4. CASE NotFound(w)
    BY <1>4, RejectStep DEF NotFound, WorkAt
<1>5. ASSUME NEW to \in [status: StatusOf[kind] \cup {"none"}, side: Side], NEW pc \in {"after", "audit"},
             Writes(w, to, pc),
             \/ /\ work[w].pc = "write" /\ to.status = work[w].want /\ to.side = doc.side
                /\ to.status = "disabled" => pc = "after"
             \/ /\ work[w].pc = "after" /\ to.status = doc.status /\ to.side = "none"
      PROVE  FieldInv'
  <2>1. /\ RecordInv' /\ OneWish' /\ kind' = kind /\ doc' = to
        /\ work'[w].pc = pc /\ w \in Logging' /\ past'.alone = past.alone
    BY <1>1, <1>5, WritesKeep
  <2>2. ASSUME to.status = "disabled", to.side = "open"
        PROVE  HalfDone' /\ (past'.alone => \A v \in Worker : ~WorkAt(v, "audit")')
    <3>1. work'[w].pc = "after"
      BY <1>5, <2>1, <2>2
    <3>2. HalfDone'
      BY <3>1 DEF HalfDone, WorkAt
    <3>3. ASSUME past'.alone, NEW v \in Worker, WorkAt(v, "audit")'
          PROVE  FALSE
      <4>1. v \in Working' /\ w \in Working'
        BY <3>1, <3>3 DEF Working, WorkAt
      <4>2. v = w
        BY <2>1, <3>3, <4>1 DEF RecordInv, Company
      <4> QED
        BY <3>1, <3>3, <4>2 DEF WorkAt
    <3> QED
      BY <3>2, <3>3
  <2>3. SessionsFollow'
    BY <1>1, <2>1, <2>2 DEF SessionsFollow
  <2> QED
    BY <1>1, <2>1, <2>3 DEF FieldInv, KindInv, RemovedOnce, SchemeFollows, ProfileFollows
<1>6. CASE /\ WorkAt(w, "write")
           /\ Writes(w, [doc EXCEPT !.status = work[w].want],
                     IF work[w].want = "disabled" THEN "after" ELSE "audit")
  <2>1. PICK to : to = [doc EXCEPT !.status = work[w].want]
    OBVIOUS
  <2>2. PICK pc : pc = IF work[w].want = "disabled" THEN "after" ELSE "audit"
    OBVIOUS
  <2>3. /\ to \in [status: StatusOf[kind] \cup {"none"}, side: Side]
        /\ to.status = work[w].want /\ to.side = doc.side
    BY <1>1, <2>1
  <2>4. pc \in {"after", "audit"} /\ (to.status = "disabled" => pc = "after")
    BY <2>2, <2>3
  <2> QED
    BY <1>5, <1>6, <2>1, <2>2, <2>3, <2>4 DEF WorkAt
<1>7. CASE WorkAt(w, "after") /\ Writes(w, [doc EXCEPT !.side = "none"], "audit")
  <2>1. PICK to : to = [doc EXCEPT !.side = "none"]
    OBVIOUS
  <2>2. "none" \in Side
    BY DEF Side
  <2>3. /\ to \in [status: StatusOf[kind] \cup {"none"}, side: Side]
        /\ to.status = doc.status /\ to.side = "none"
    BY <1>1, <2>1, <2>2
  <2> QED
    BY <1>5, <1>7, <2>1, <2>3 DEF WorkAt
<1> QED
    BY <1>2, <1>3, <1>4, <1>6, <1>7 DEF AccountOf, SetAccountDisabled
\* A request that goes on to its next call.
LEMMA ProceedsStep ==
    ASSUME FieldInv, NEW w \in Worker, NEW pc \in {"side", "audit"}, Proceeds(w, pc),
           \/ pc = "side" /\ work[w].pc = "read" /\ past.born
           \/ pc = "audit" /\ work[w].pc = "after" /\ kind \in NsKind
    PROVE  FieldInv'
<1>1. work[w] \in WorkState
    BY RecordTyped DEF FieldInv
<1>2. PICK new : new = [work[w] EXCEPT !.pc = pc]
    OBVIOUS
<1>3. new \in WorkState /\ new.pc = pc /\ new.want = work[w].want
    BY <1>1, <1>2 DEF WorkState
<1>4. work' = [work EXCEPT ![w] = new] /\ UNCHANGED <<kind, doc, trail, past>>
    BY <1>2 DEF Proceeds, Goes
<1> QED
    BY <1>3, <1>4, MoveStep

\* A vet is verified together with the profiles that were found.
LEMMA VerifyVetStep ==
    ASSUME FieldInv, NEW w \in Worker, VerifyVet(w)
    PROVE  FieldInv'
<1>1. /\ RecordInv /\ KindInv /\ kind = "jmVet" /\ kind \notin NsKind
      /\ StatusOf[kind] = Switch /\ work[w] \in WorkState
      /\ doc \in [status: Switch \cup {"none"}, side: Side]
      /\ doc.status # "cancelled" /\ doc.status # "disabled"
  <2>1. RecordInv /\ KindInv /\ kind = "jmVet" /\ kind \notin NsKind /\ StatusOf[kind] = Switch
    BY Kinds, Statuses DEF FieldInv, VerifyVet
  <2>2. doc \in [status: Switch \cup {"none"}, side: Side] /\ work[w] \in WorkState
    BY <2>1, RecordTyped
  <2> QED
    BY <2>1, <2>2 DEF Switch
<1>2. CASE Enter(w, "read", Switch)
    BY <1>1, <1>2, EnterStep
<1>3. CASE NotFound(w)
    BY <1>3, RejectStep DEF NotFound, WorkAt
<1>4. CASE WorkAt(w, "read") /\ doc.status # "none" /\ Proceeds(w, "side")
  <2>1. past.born
    BY <1>1, <1>4 DEF RecordInv, BornFirst
  <2> QED
    BY <1>4, <2>1, ProceedsStep DEF WorkAt
<1>5. CASE VetProfileRead(w)
  <2>1. PICK new : new = [[work[w] EXCEPT !.pc = "write"] EXCEPT !.seen = doc.side]
    OBVIOUS
  <2>2. /\ new \in WorkState /\ new.pc = "write" /\ new.want = work[w].want
        /\ new.seen = doc.side
    BY <1>1, <2>1 DEF WorkState
  <2>3. work[w].pc = "side" /\ UNCHANGED <<kind, doc, trail, past>>
    BY <1>5 DEF VetProfileRead, WorkAt
  <2>4. work' = [work EXCEPT ![w] = new]
    BY <1>1, <1>5, <2>1, RecordTyped DEF VetProfileRead
  <2>5. past.born
    BY <1>1, <2>3 DEF RecordInv, BornFirst
  <2> QED
    BY <2>2, <2>3, <2>4, <2>5, MoveStep
<1>6. CASE VerifyBatch(w)
  <2>1. PICK to : to = [status |-> work[w].want,
                        side |-> IF work[w].seen = "none" THEN doc.side ELSE work[w].want]
    OBVIOUS
  <2>2. work[w].pc = "write" /\ Writes(w, to, "audit")
    BY <1>6, <2>1 DEF VerifyBatch, WorkAt
  <2>3. work[w].want \in Switch
    BY <1>1, <2>2, LoggingWorks DEF KindInv, OneWish
  <2>4. /\ to.status = work[w].want
        /\ to.side = IF work[w].seen = "none" THEN doc.side ELSE work[w].want
        /\ to \in [status: StatusOf[kind] \cup {"none"}, side: Side]
    BY <1>1, <2>1, <2>3 DEF Side
  <2>5. /\ RecordInv' /\ OneWish' /\ kind' = kind /\ doc' = to
        /\ work'[w].pc = "audit" /\ past'.late = past.late
        /\ \A v \in Worker \ {w} : work'[v] = work[v]
    BY <1>1, <2>2, <2>4, WritesKeep
  <2>6. ProfileFollows'
    <3>1. SUFFICES ASSUME ~past.late
                   PROVE  /\ to.side \in {"none", to.status}
                          /\ \A v \in Worker : WorkAt(v, "write")' =>
                                (work'[v].seen = "none" <=> to.side = "none")
      BY <2>5 DEF ProfileFollows
    <3>2. /\ doc.side \in {"none", doc.status}
          /\ \A v \in Worker : work[v].pc = "write" =>
                (work[v].seen = "none" <=> doc.side = "none")
      BY <1>1, <3>1 DEF KindInv, ProfileFollows, WorkAt
    <3>3. to.side = "none" <=> doc.side = "none"
      BY <2>2, <2>3, <2>4, <3>2 DEF Switch
    <3>4. to.side \in {"none", to.status}
      BY <2>2, <2>4, <3>2
    <3>5. \A v \in Worker : WorkAt(v, "write")' => work[v].pc = "write" /\ work'[v] = work[v]
      BY <2>5 DEF WorkAt
    <3> QED
      BY <3>2, <3>3, <3>4, <3>5
  <2>7. to.status # "disabled"
    BY <2>3, <2>4 DEF Switch
  <2> QED
    BY <1>1, <2>5, <2>6, <2>7 DEF FieldInv, KindInv, RemovedOnce, SchemeFollows, SessionsFollow
<1> QED
    BY <1>2, <1>3, <1>4, <1>5, <1>6 DEF VerifyVet

\* Supabase serves the call of a request.
LEMMA CallServedStep ==
    ASSUME FieldInv, NEW w \in Worker, kind \in NsKind, past.born, CallServed(w)
    PROVE  FieldInv'
<1>1. /\ RecordInv /\ KindInv /\ kind \in Kind
      /\ kind \notin {"certificate", "scheme", "jmVet"}
      /\ work[w].want \in StatusOf[kind] \cup {"none"}
      /\ doc \in [status: StatusOf[kind] \cup {"none"}, side: Side]
      /\ doc.status # "cancelled"
  <2>1. RecordInv /\ KindInv /\ kind \in Kind /\ kind \notin {"certificate", "scheme", "jmVet"}
    BY Kinds DEF FieldInv
  <2>2. doc \in [status: StatusOf[kind] \cup {"none"}, side: Side]
    BY <2>1, RecordTyped
  <2> QED
    BY <2>1, <2>2, RecordTyped, KindTold
<1>2. CASE WorkAt(w, "write") /\ doc.status = "none" /\ Reject(w)
    BY <1>2, RejectStep DEF WorkAt
<1>3. CASE /\ WorkAt(w, "write") /\ doc.status # "none"
           /\ Writes(w, [doc EXCEPT !.status = work[w].want], "after")
  <2>1. PICK to : to = [doc EXCEPT !.status = work[w].want]
    OBVIOUS
  <2>2. /\ to \in [status: StatusOf[kind] \cup {"none"}, side: Side]
        /\ to.status = work[w].want /\ to.side = doc.side
    BY <1>1, <2>1
  <2>3. /\ RecordInv' /\ OneWish' /\ kind' = kind /\ doc' = to
        /\ Logging' = Logging \cup {w} /\ work'[w].want = work[w].want
        /\ \A v \in Worker \ {w} : work'[v] = work[v]
        /\ past'.removals = past.removals
    BY <1>1, <1>3, <2>1, <2>2, WritesKeep DEF WorkAt
  <2>4. past.removals <= 1 /\ past.removals # 1 /\ Removing = {}
    BY <1>1, <1>3 DEF KindInv, RemovedOnce
  <2>5. Removing' \subseteq {w} /\ (work[w].want # "none" => Removing' = {})
    <3>1. \A v \in Removing' : v = w /\ work[w].want = "none"
      <4> SUFFICES ASSUME NEW v \in Removing' PROVE v = w /\ work[w].want = "none"
        OBVIOUS
      <4>1. v \in Logging \cup {w} /\ v \in Worker /\ work'[v].want = "none"
        BY <2>3 DEF Removing, Logging
      <4>2. v # w => v \in Removing
        BY <2>3, <4>1 DEF Removing
      <4> QED
        BY <2>3, <2>4, <4>1, <4>2
    <3> QED
      BY <3>1
  <2>6. RemovedOnce'
    BY <2>2, <2>3, <2>4, <2>5 DEF RemovedOnce
  <2>7. SessionsFollow'
    BY <1>1, <2>2, <2>3 DEF KindInv, SessionsFollow
  <2> QED
    BY <1>1, <2>3, <2>6, <2>7 DEF FieldInv, KindInv, SchemeFollows, ProfileFollows
<1> QED
    BY <1>2, <1>3 DEF CallServed
\* A NearSip row is changed, or is not there.
LEMMA NsChangeStep ==
    ASSUME FieldInv, NEW w \in Worker, kind \in NsKind, past.born, NsChange(w)
    PROVE  FieldInv'
<1>1. CASE Enter(w, "write", NsWants[kind])
  <2>1. /\ NsWants[kind] \subseteq StatusOf[kind] \cup {"none"}
        /\ kind \notin {"certificate", "scheme", "jmVet"}
    BY Kinds, WantsTyped, Statuses
  <2> QED
    BY <1>1, <2>1, EnterStep
<1>2. CASE CallServed(w)
    BY <1>2, CallServedStep
<1>3. CASE CallAnswered(w)
    BY <1>3, ProceedsStep DEF CallAnswered, WorkAt
<1> QED
    BY <1>1, <1>2, <1>3 DEF NsChange

\* What holds of a record of NearSip before there was one.
LEMMA NsUnborn ==
    ASSUME FieldInv, kind \in NsKind, ~past.born
    PROVE  /\ Working = {} /\ Logging = {} /\ past.removals = 0 /\ past.cancelled = 0
           /\ doc.status = "none" /\ doc.side = "none"
    BY LoggingWorks DEF FieldInv, RecordInv, BornFirst

\* A place comes into being with its creation, once.
LEMMA CreatePlaceStep ==
    ASSUME FieldInv, NEW w \in Worker, CreatePlace(w)
    PROVE  FieldInv'
<1>1. /\ RecordInv /\ kind = "nsPlace" /\ kind \in NsKind /\ past \in Past
      /\ StatusOf[kind] = Switch
    BY RecordTyped, Kinds, Statuses DEF FieldInv, CreatePlace
<1>2. PICK new : new = [NoWork EXCEPT !.pc = "after", !.want = "off"]
    OBVIOUS
<1>3. /\ ~past.born /\ doc' = NsNew["nsPlace"] /\ work' = [work EXCEPT ![w] = new]
      /\ past' = [past EXCEPT !.born = TRUE, !.alone = TRUE] /\ UNCHANGED <<kind, trail>>
    BY <1>1, <1>2 DEF CreatePlace
<1>4. Working = {} /\ Logging = {} /\ past.removals = 0 /\ past.cancelled = 0
    BY <1>1, <1>3, NsUnborn
<1>5. "off" \in Status /\ "off" \in Switch
    BY <1>1, StatusTyped, Kinds DEF Switch
<1>6. new \in WorkState /\ new.pc = "after" /\ new.want = "off"
    BY <1>2, <1>5 DEF NoWork, WorkState, Side
<1>7. /\ doc'.status = "off" /\ doc'.side = "none"
      /\ doc' \in [status: StatusOf[kind] \cup {"none"}, side: Side]
    BY <1>1, <1>3, <1>5 DEF NsNew, Side
<1>8. /\ past' \in Past /\ past'.alone /\ past'.born
      /\ past'.removals = 0 /\ past'.cancelled = 0
    BY <1>1, <1>3, <1>4 DEF Past
<1>9. /\ work' \in [Worker -> WorkState] /\ work'[w] = new
      /\ \A v \in Worker \ {w} : work'[v] = work[v]
      /\ \A v \in Worker : work'[v].want \in StatusOf[kind'] \cup {"none"}
      /\ Working' = {w} /\ Logging' = {w}
  <2>1. /\ work' \in [Worker -> WorkState] /\ work'[w] = new
        /\ \A v \in Worker \ {w} : work'[v] = work[v]
        /\ \A v \in Worker : work'[v].want \in StatusOf[kind'] \cup {"none"}
        /\ Working' = (Working \ {w}) \cup (IF new.pc = "idle" THEN {} ELSE {w})
        /\ Logging' = (Logging \ {w}) \cup (IF new.pc \in {"after", "audit"} THEN {w} ELSE {})
    BY <1>1, <1>3, <1>5, <1>6, WorkReplaced
  <2> QED
    BY <1>4, <1>6, <2>1
<1>10. FieldTypeOK'
    BY <1>1, <1>3, <1>7, <1>8, <1>9 DEF RecordInv, FieldTypeOK
<1>11. Company' /\ Told' /\ BornFirst' /\ CancelledOnce'
    BY <1>6, <1>7, <1>8, <1>9 DEF Company, Told, BornFirst, CancelledOnce
<1>12. Removing' = {}
    BY <1>6, <1>9 DEF Removing
<1> QED
    BY <1>1, <1>3, <1>7, <1>8, <1>9, <1>10, <1>11, <1>12
       DEF FieldInv, RecordInv, KindInv, RemovedOnce, SchemeFollows, SessionsFollow,
           ProfileFollows, OneWish

\* The operations of NearSip.
LEMMA NsAppStep ==
    ASSUME FieldInv, NsApp
    PROVE  FieldInv'
<1>1. /\ RecordInv /\ kind \in {"nsReview", "nsUser"} /\ kind \in NsKind /\ ~past.born
      /\ AppWrites(NsNew[kind])
    BY Kinds DEF FieldInv, NsApp
<1>2. PICK to : to = NsNew[kind]
    OBVIOUS
<1>3. /\ to \in [status: StatusOf[kind] \cup {"none"}, side: Side] /\ to.side = "none"
    BY <1>1, <1>2, Statuses DEF NsNew, Side, Account
<1>4. /\ Logging = {} /\ past.removals = 0 /\ doc.status = "none"
    BY <1>1, NsUnborn
<1>5. /\ RecordInv' /\ OneWish' /\ UNCHANGED <<kind, work>> /\ doc' = to
      /\ past'.removals = past.removals
    BY <1>1, <1>2, <1>3, <1>4, AppWritesKeep
<1>6. Removing' = {}
    BY <1>4, <1>5 DEF Removing, Logging
<1> QED
    BY <1>1, <1>3, <1>4, <1>5, <1>6
       DEF FieldInv, KindInv, RemovedOnce, SchemeFollows, SessionsFollow, ProfileFollows

\* The application writes a record of Pasunestam or JeevaMitra for the first time.
LEMMA NewStep ==
    ASSUME FieldInv, kind \in PnKind \cup JmKind, ~past.born,
           AppWrites(IF kind \in PnKind THEN PnNew[kind] ELSE JmNew[kind])
    PROVE  FieldInv'
<1>1. /\ RecordInv /\ kind \notin NsKind /\ doc.status = "none"
      /\ \A w \in Worker : work[w].pc \notin {"side", "write", "after", "audit"}
    BY Kinds DEF FieldInv, RecordInv, BornFirst
<1>2. PICK to : to = IF kind \in PnKind THEN PnNew[kind] ELSE JmNew[kind]
    OBVIOUS
<1>3. /\ to \in [status: StatusOf[kind] \cup {"none"}, side: Side]
      /\ kind = "scheme" => to.status = "present" /\ to.side = "file"
      /\ kind = "jmVet" => to.side = "none"
      /\ to.status # "disabled"
  <2>1. CASE kind \in PnKind
    BY <1>2, <2>1, Kinds, Statuses DEF PnNew, Side, Switch, Account
  <2>2. CASE kind \in JmKind
    BY <1>2, <2>2, Kinds, Statuses DEF JmNew, Side, Switch, Account
  <2> QED
    BY <2>1, <2>2
<1>4. RecordInv' /\ OneWish' /\ UNCHANGED <<kind, work>> /\ doc' = to
    BY <1>1, <1>2, <1>3, AppWritesKeep
<1>5. Logging' = {} /\ \A w \in Worker : ~WorkAt(w, "write")' /\ ~WorkAt(w, "audit")'
    BY <1>1, <1>4 DEF Logging, WorkAt
<1> QED
    BY <1>1, <1>3, <1>4, <1>5
       DEF FieldInv, KindInv, RemovedOnce, SchemeFollows, SessionsFollow, ProfileFollows

\* The application changes the status of a record without side state.
LEMMA PlainWriteStep ==
    ASSUME FieldInv, kind \in {"case", "certificate", "template", "jmAlert"},
           NEW x \in StatusOf[kind] \cup {"none"}, AppWrites([doc EXCEPT !.status = x]),
           doc.status # "cancelled"
    PROVE  FieldInv'
<1>1. RecordInv /\ kind \notin NsKind
    BY Kinds DEF FieldInv
<1>2. PICK to : to = [doc EXCEPT !.status = x]
    OBVIOUS
<1>3. to \in [status: StatusOf[kind] \cup {"none"}, side: Side] /\ to.status = x
    BY <1>1, <1>2, RecordTyped
<1>4. RecordInv' /\ OneWish' /\ UNCHANGED kind
    BY <1>1, <1>2, <1>3, AppWritesKeep
<1> QED
    BY <1>4, PlainKind DEF FieldInv

\* The operations of Pasunestam.
LEMMA PnAppStep ==
    ASSUME FieldInv, PnApp
    PROVE  FieldInv'
<1>1. RecordInv /\ kind \in PnKind /\ kind \in Kind
    BY RecordTyped DEF FieldInv, PnApp
<1>2. doc.status \in StatusOf[kind] \cup {"none"}
    BY <1>1, RecordTyped
<1>3. CASE ~past.born /\ AppWrites(PnNew[kind])
    BY <1>1, <1>3, NewStep
<1>4. CASE kind \in {"case", "template"} /\ AppWrites([doc EXCEPT !.status = "none"])
  <2>1. doc.status # "cancelled"
    BY <1>1, <1>2, <1>4, KindTold
  <2> QED
    BY <1>4, <2>1, PlainWriteStep
<1>5. CASE doc.status = "draft" /\ AppWrites([doc EXCEPT !.status = "issued"])
  <2>1. kind = "certificate"
    BY <1>1, <1>2, <1>5, KindTold
  <2> QED
    BY <1>5, <2>1, PlainWriteStep, Statuses
<1>6. CASE doc.status = "issued" /\ AppWrites([doc EXCEPT !.status = "cancelled"])
  <2>1. kind = "certificate"
    BY <1>1, <1>2, <1>6, KindTold
  <2> QED
    BY <1>6, <2>1, PlainWriteStep, Statuses
<1> QED
    BY <1>3, <1>4, <1>5, <1>6 DEF PnApp

\* The side state changes, and nothing else.
LEMMA SideWritten ==
    ASSUME FieldInv, NEW y \in Side, doc' = [doc EXCEPT !.side = y], past.born,
           UNCHANGED <<kind, work, trail>>, past' = [past EXCEPT !.late = past'.late],
           past'.late \in BOOLEAN
    PROVE  /\ RecordInv' /\ OneWish' /\ doc'.status = doc.status /\ doc'.side = y
           /\ past'.alone = past.alone /\ past'.broken = past.broken
           /\ \A w \in Worker, pc \in {"write", "after", "audit"} : WorkAt(w, pc)' <=> WorkAt(w, pc)
<1>1. RecordInv /\ past \in Past
    BY RecordTyped DEF FieldInv
<1>2. doc' \in [status: StatusOf[kind] \cup {"none"}, side: Side]
      /\ doc'.status = doc.status /\ doc'.side = y
    BY <1>1, RecordTyped
<1>3. /\ past' \in Past /\ past'.alone = past.alone /\ past'.broken = past.broken
      /\ past'.met = past.met /\ past'.born = past.born /\ past'.removals = past.removals
      /\ past'.cancelled = past.cancelled
    BY <1>1 DEF Past
<1>4. Working' = Working /\ Logging' = Logging
    BY DEF Working, Logging, WorkAt
<1>5. FieldTypeOK' /\ \A w \in Worker : work'[w].want \in StatusOf[kind'] \cup {"none"}
    BY <1>1, <1>2, <1>3 DEF RecordInv, FieldTypeOK
<1>6. Company' /\ Told' /\ BornFirst' /\ CancelledOnce'
    BY <1>1, <1>2, <1>3, <1>4 DEF RecordInv, Company, Told, BornFirst, CancelledOnce
<1>7. OneWish'
    BY <1>4 DEF FieldInv, KindInv, OneWish
<1> QED
    BY <1>2, <1>3, <1>5, <1>6, <1>7 DEF RecordInv, WorkAt

\* A profile that the application creates says what the user document says, or is late.
LEMMA ProfileCreatedStep ==
    ASSUME FieldInv, JmProfileCreated
    PROVE  FieldInv'
<1>1. /\ RecordInv /\ kind = "jmVet" /\ kind \notin NsKind /\ doc.status # "none"
      /\ doc' = [doc EXCEPT !.side = doc.status] /\ UNCHANGED <<kind, work, trail>>
      /\ past' = [past EXCEPT !.late = past.late \/ Working # {}]
    BY Kinds DEF FieldInv, JmProfileCreated
<1>2. past \in Past /\ doc.status \in Switch
    BY <1>1, RecordTyped, Statuses
<1>3. past'.late = (past.late \/ Working # {}) /\ past'.late \in BOOLEAN
    BY <1>1, <1>2 DEF Past
<1>4. past.born /\ doc.status \in Side
    BY <1>1, <1>2 DEF RecordInv, BornFirst, Side
<1>5. past' = [past EXCEPT !.late = past'.late]
    BY <1>1, <1>3
<1>6. /\ RecordInv' /\ OneWish' /\ doc'.status = doc.status /\ doc'.side = doc.status
      /\ \A w \in Worker, pc \in {"write", "after", "audit"} : WorkAt(w, pc)' <=> WorkAt(w, pc)
    BY <1>1, <1>3, <1>4, <1>5, SideWritten
<1>7. ~past'.late => \A w \in Worker : ~WorkAt(w, "write")'
    BY <1>3, <1>6 DEF Working, WorkAt
<1>8. doc.status # "disabled"
    BY <1>2 DEF Switch
<1> QED
    BY <1>1, <1>6, <1>7, <1>8
       DEF FieldInv, KindInv, RemovedOnce, SchemeFollows, SessionsFollow, ProfileFollows

\* A sign-in opens a session of an account that is active.
LEMMA SignsInStep ==
    ASSUME FieldInv, SignsIn
    PROVE  FieldInv'
<1>1. /\ RecordInv /\ kind \in {"vet", "jmAccount"} /\ kind \notin NsKind
      /\ doc.status = "enabled" /\ doc' = [doc EXCEPT !.side = "open"]
      /\ UNCHANGED <<kind, work, trail, past>>
    BY Kinds DEF FieldInv, SignsIn
<1>2. past \in Past /\ past.born /\ "open" \in Side
    BY <1>1, RecordTyped DEF RecordInv, BornFirst, Side
<1>3. past' = [past EXCEPT !.late = past'.late] /\ past'.late \in BOOLEAN
    BY <1>1, <1>2 DEF Past
<1>4. RecordInv' /\ OneWish' /\ doc'.status = "enabled"
    BY <1>1, <1>2, <1>3, SideWritten
<1> QED
    BY <1>1, <1>4
       DEF FieldInv, KindInv, RemovedOnce, SchemeFollows, SessionsFollow, ProfileFollows

\* The operations of JeevaMitra.
LEMMA JmAppStep ==
    ASSUME FieldInv, JmApp
    PROVE  FieldInv'
<1>1. CASE kind \in JmKind /\ ~past.born /\ AppWrites(JmNew[kind])
  <2>1. kind \notin PnKind
    BY <1>1, Kinds
  <2> QED
    BY <1>1, <2>1, NewStep
<1>2. CASE kind = "jmAlert" /\ AppWrites([doc EXCEPT !.status = "none"])
  <2>1. kind \in Kind /\ doc.status \in StatusOf[kind] \cup {"none"}
    BY RecordTyped DEF FieldInv
  <2>2. doc.status # "cancelled"
    BY <1>2, <2>1, KindTold
  <2> QED
    BY <1>2, <2>2, PlainWriteStep
<1> QED
    BY <1>1, <1>2, ProfileCreatedStep DEF JmApp

\* At the start there is no record and no entry.
LEMMA FieldStart == FieldInit => FieldInv
<1> SUFFICES ASSUME FieldInit PROVE FieldInv
    OBVIOUS
<1>1. /\ kind \in Kind /\ doc = [status |-> "none", side |-> "none"]
      /\ work = [w \in Worker |-> NoWork] /\ trail = "none" /\ past = NoPast
    BY Kinds DEF FieldInit
<1>2. \A w \in Worker : work[w] = NoWork
    BY <1>1
<1>3. Working = {} /\ Logging = {}
    BY <1>2, FreshWork DEF Working, Logging, WorkAt
<1>4. NoPast \in Past /\ NoPast.removals = 0 /\ NoPast.cancelled = 0
    BY DEF NoPast, Past
<1>5. "none" \in Status /\ doc \in [status: StatusOf[kind] \cup {"none"}, side: Side]
    BY <1>1, StatusTyped DEF Side
<1>6. FieldTypeOK
    BY <1>1, <1>4, <1>5, FreshWork DEF FieldTypeOK, Kind
<1>7. Company /\ Told /\ BornFirst /\ CancelledOnce
    BY <1>1, <1>2, <1>3, <1>4, FreshWork DEF Company, Told, BornFirst, CancelledOnce
<1>8. KindInv
  <2>1. Removing = {}
    BY <1>3 DEF Removing
  <2>2. \A w \in Worker : ~WorkAt(w, "write") /\ ~WorkAt(w, "audit")
    BY <1>2, FreshWork DEF WorkAt
  <2> QED
    BY <1>1, <1>3, <1>4, <2>1, <2>2
       DEF KindInv, RemovedOnce, SchemeFollows, SessionsFollow, ProfileFollows, OneWish
<1> QED
    BY <1>2, <1>6, <1>7, <1>8, FreshWork DEF FieldInv, RecordInv

\* Every step of a field application keeps FieldInv.
LEMMA FieldStep == FieldInv /\ [FieldNext]_fieldVars => FieldInv'
<1> SUFFICES ASSUME FieldInv, [FieldNext]_fieldVars PROVE FieldInv'
    OBVIOUS
<1>1. ASSUME NEW w \in Worker, PnStep(w) PROVE FieldInv'
  <2>1. CASE ReviewOrPublish(w)
    BY <2>1, ReadThenUpdateStep, WantsTyped DEF ReviewOrPublish
  <2>2. CASE VetAccount(w)
    BY <2>2, AccountStep DEF VetAccount
  <2> QED
    BY <1>1, <2>1, <2>2, CancelCertificateStep, RemoveSchemeStep DEF PnStep
<1>2. ASSUME NEW w \in Worker, JmStep(w) PROVE FieldInv'
  <2>1. CASE JmAccountRequest(w)
    BY <2>1, AccountStep DEF JmAccountRequest
  <2>2. CASE SetAlertActive(w)
    BY <2>2, ReadThenUpdateStep, Statuses DEF SetAlertActive
  <2> QED
    BY <1>2, <2>1, <2>2, VerifyVetStep DEF JmStep
<1>3. ASSUME NEW w \in Worker, NsStep(w) PROVE FieldInv'
    BY <1>3, CreatePlaceStep, NsChangeStep DEF NsStep
<1>4. CASE UNCHANGED fieldVars
  <2>1. /\ Working' = Working /\ Logging' = Logging /\ Removing' = Removing
        /\ HalfDone' <=> HalfDone
    BY <1>4 DEF fieldVars, Working, Logging, Removing, HalfDone, WorkAt
  <2>2. RecordInv'
    BY <1>4, <2>1 DEF fieldVars, FieldInv, RecordInv, FieldTypeOK, Company, Told, BornFirst,
                      CancelledOnce
  <2> QED
    BY <1>4, <2>1, <2>2 DEF fieldVars, FieldInv, KindInv, RemovedOnce, SchemeFollows,
                            SessionsFollow, ProfileFollows, OneWish, WorkAt
<1> QED
    BY <1>1, <1>2, <1>3, <1>4, BreaksStep, AuditStep, PnAppStep, JmAppStep, NsAppStep,
       SignsInStep DEF FieldNext

\* FieldInv holds of every kind of record and any number of requests.
THEOREM FieldInvariant == FieldSpec => []FieldInv
    BY FieldStart, FieldStep, PTL DEF FieldSpec

(***************************************************************************)
(* For any number of administrators' requests, the last entry of the log,  *)
(* or the application's own last write, is what the record says, unless a  *)
(* request has yet to write its entry, two met, or one broke off; one      *)
(* cancellation of a certificate takes effect; and NearSip logs the        *)
(* removal of a row once (the routes of the three applications).           *)
(***************************************************************************)
THEOREM TrailTrue == FieldSpec => []TrailIsTrue
<1>1. FieldInv => TrailIsTrue
  <2> SUFFICES ASSUME FieldInv PROVE TrailIsTrue
    OBVIOUS
  <2>1. RecordInv /\ KindInv
    BY DEF FieldInv
  <2>2. past.cancelled <= 1
    BY <2>1 DEF RecordInv, CancelledOnce
  <2>3. Logging # {} => \E w \in Worker : WorkAt(w, "after") \/ WorkAt(w, "audit")
    BY DEF Logging, WorkAt
  <2> QED
    BY <2>1, <2>2, <2>3 DEF RecordInv, Told, KindInv, RemovedOnce, TrailIsTrue
<1> QED
    BY <1>1, FieldInvariant, PTL

(***************************************************************************)
(* What is written in two steps agrees, however requests, sign-ins and the *)
(* application interleave: a listed scheme has its file, a disabled        *)
(* account no session, unless a request is between its two writes or broke *)
(* off there; and a vet's profile says what the user document says.        *)
(***************************************************************************)
THEOREM SideFollows == FieldSpec => []SideFollowsRecord
<1>1. FieldInv => SideFollowsRecord
    BY DEF FieldInv, KindInv, SchemeFollows, SessionsFollow, ProfileFollows, SideFollowsRecord
<1> QED
    BY <1>1, FieldInvariant, PTL
-----------------------------------------------------------------------------
(***************************************************************************)
(* The settings that the API starts with.  What runs is what was accepted. *)
(***************************************************************************)
ConfigInv ==
    /\ ConfigTypeOK
    /\ state = "up" => Accepts(env) /\ service = Configuration(env)

\* What the settings make of a deployment has its type.
LEMMA ConfigurationType == \A e \in Env : Configuration(e) \in Running
<1> SUFFICES ASSUME NEW e \in Env PROVE Configuration(e) \in Running
    OBVIOUS
<1>1. KeycloakBase(e) \in {"none"} \cup Scheme
    BY DEF KeycloakBase, Locates, Env, Scheme
<1>2. /\ Sso(e) \in BOOLEAN /\ Password(e) \in BOOLEAN /\ RequireMfa(e) \in BOOLEAN
      /\ e.allowed \in BOOLEAN
  <2>1. Sso(e) \in BOOLEAN /\ Deployed(e) \in BOOLEAN
    BY DEF Sso, Deployed
  <2>2. \A flag : \A value \in BOOLEAN : Default(flag, value) \in BOOLEAN
    BY DEF Default
  <2>3. Password(e) \in BOOLEAN /\ RequireMfa(e) \in BOOLEAN
    BY <2>1, <2>2 DEF Password, RequireMfa
  <2> QED
    BY <2>1, <2>3 DEF Env
<1> QED
    BY <1>1, <1>2 DEF Configuration, Running

(***************************************************************************)
(* A service that runs has the configuration that env.ts made of settings  *)
(* which every rule accepts, and of the last ones.                         *)
(***************************************************************************)
THEOREM ConfigInvariant == ConfigSpec => []ConfigInv
<1>1. SomeEnv \in Env
    BY DEF SomeEnv, Env, Flag, Group, Scheme
<1>2. ConfigInit => ConfigInv
    BY <1>1, ConfigurationType DEF ConfigInit, ConfigInv, ConfigTypeOK
<1>3. ASSUME ConfigInv, NEW e \in Env, Boot(e) PROVE ConfigInv'
    BY <1>3, ConfigurationType DEF ConfigInv, ConfigTypeOK, Boot
<1>4. ConfigInv /\ UNCHANGED configVars => ConfigInv'
    BY DEF ConfigInv, ConfigTypeOK, configVars
<1>5. ConfigInv /\ [ConfigNext]_configVars => ConfigInv'
    BY <1>3, <1>4 DEF ConfigNext
<1> QED
    BY <1>2, <1>5, PTL DEF ConfigSpec

(***************************************************************************)
(* Whatever the rules of env.ts accept, of all combinations of settings,   *)
(* lets somebody in, and a deployment only with a second factor and from   *)
(* the list: each consequence follows from two or three rules that are     *)
(* written apart.                                                          *)
(***************************************************************************)
THEOREM SignInSound == ConfigSpec => []SignInIsSound
<1>1. ASSUME ConfigInv, state = "up" PROVE SignInIsSound
  <2>1. env \in Env /\ Accepts(env) /\ service = Configuration(env)
    BY <1>1 DEF ConfigInv, ConfigTypeOK
  <2>2. /\ service.sso = Sso(env) /\ service.password = Password(env)
        /\ service.requireMfa = RequireMfa(env) /\ service.restricted = env.allowed
        /\ service.mfaKey = (env.key # "none") /\ service.bridge = (env.bridge = "all")
        /\ service.keycloak = IF env.keycloak = "all" THEN KeycloakBase(env) ELSE "none"
    BY <2>1 DEF Configuration
  <2> QED
    BY <2>1, <2>2 DEF Accepts, CookieRules, SignInRules, BridgeRules, SignInIsSound, Env
<1>2. ConfigInv => SignInIsSound
    BY <1>1 DEF SignInIsSound
<1> QED
    BY <1>2, ConfigInvariant, PTL

-----------------------------------------------------------------------------
(* The live check of Keycloak *)

\* The steps of the script, by their number.
LEMMA ScriptSteps ==
    /\ DOMAIN Script = 1..18
    /\ Script[1] = "realm" /\ Script[2] = "apps" /\ Script[3] = "privilege"
    /\ Script[4] = "list" /\ Script[5] = "refused invite" /\ Script[6] = "invite"
    /\ Script[7] = "add role" /\ Script[8] = "set up" /\ Script[9] = "central sign-in"
    /\ Script[10] = "pasumithra sign-in" /\ Script[11] = "bridge"
    /\ Script[12] = "bridge refuses" /\ Script[13] = "stock sign-in"
    /\ Script[14] = "sessions" /\ Script[15] = "last super admin"
    /\ Script[16] = "disable" /\ Script[17] = "delete" /\ Script[18] = "report"
    BY DEF Script

\* No step is in the script twice: its name says where it is.
LEMMA Position ==
    ASSUME at \in 1..18
    PROVE  /\ Script[at] = "invite" => at = 6
           /\ Script[at] = "add role" => at = 7
           /\ Script[at] = "set up" => at = 8
           /\ Script[at] = "central sign-in" => at = 9
           /\ Script[at] = "pasumithra sign-in" => at = 10
           /\ Script[at] = "bridge" => at = 11
           /\ Script[at] = "stock sign-in" => at = 13
           /\ Script[at] = "sessions" => at = 14
           /\ Script[at] = "disable" => at = 16
           /\ Script[at] = "delete" => at = 17
           /\ Script[at] = "report" => at = 18
           /\ Script[at] \in Aside => at \in 1..5 \cup {12, 15}
<1>1. CASE at \in 1..5
  <2>1. at = 1 \/ at = 2 \/ at = 3 \/ at = 4 \/ at = 5
    BY <1>1
  <2> QED
    BY <1>1, <2>1, ScriptSteps DEF Aside
<1>2. CASE at \in 6..11
  <2>1. at = 6 \/ at = 7 \/ at = 8 \/ at = 9 \/ at = 10 \/ at = 11
    BY <1>2
  <2> QED
    BY <1>2, <2>1, ScriptSteps DEF Aside
<1>3. CASE at \in 12..18
  <2>1. at = 12 \/ at = 13 \/ at = 14 \/ at = 15 \/ at = 16 \/ at = 17 \/ at = 18
    BY <1>3
  <2> QED
    BY <1>3, <2>1, ScriptSteps DEF Aside
<1>4. at \in 1..5 \/ at \in 6..11 \/ at \in 12..18
    OBVIOUS
<1> QED
    BY <1>1, <1>2, <1>3, <1>4, Zenon
\* The throw-away admin before the invitation.
NewUser ==
    [exists |-> FALSE, ready |-> FALSE, enabled |-> FALSE, signedIn |-> FALSE, roles |-> {}]

(***************************************************************************)
(* What the script still knows of its admin: nothing is there before the   *)
(* invitation, who exists without the script knowing the id is one whose   *)
(* invitation was not answered, and after the deletion, or an end without  *)
(* one, whoever is left is left for a reason.                              *)
(***************************************************************************)
Remembered ==
    /\ at <= 6 => user = NewUser /\ known = {}
    /\ user.exists /\ "id" \notin known => "unanswered" \in lapse
    /\ at > 8 => "id" \in known
    /\ at = 18 /\ user.exists => lapse # {}
    /\ ending = "threw" /\ user.exists => lapse # {}
    /\ ending \in {"passed", "failed"} => at = 18
    /\ ending = "passed" => ~anyFailed

(***************************************************************************)
(* What no failed check means for the steps behind: each left the admin,   *)
(* and the script, with what the next ones start from.                     *)
(***************************************************************************)
AllPassed ==
    /\ at > 6 => "id" \in known
    /\ at = 7 => user.roles = {"support", "moderator"}
    /\ at \in 8..13 => user.roles = {"support", "moderator", "viewer"}
    /\ at > 9 => "sid" \in known
    /\ at > 11 => "token" \in known
    /\ at > 13 => user.roles = {"support", "moderator", "manager"}
    /\ at > 16 => ~user.enabled /\ ~user.signedIn

LiveInv == LiveTypeOK /\ Remembered /\ (~anyFailed => AllPassed)

\* The fields of the admin have their types.
LEMMA UserType ==
    ASSUME NEW u \in User
    PROVE  /\ u.exists \in BOOLEAN /\ u.ready \in BOOLEAN /\ u.enabled \in BOOLEAN
           /\ u.signedIn \in BOOLEAN
           /\ u.roles \subseteq {"support", "moderator", "viewer", "manager"}
    BY DEF User

\* Before the first step.
LEMMA LiveStart == LiveInit => LiveInv
<1> SUFFICES ASSUME LiveInit PROVE LiveInv
    OBVIOUS
<1>1. NewUser \in User /\ user = NewUser
    BY DEF NewUser, User, LiveInit
<1>0. at = 1 /\ 1 \in 1..18
    BY DEF LiveInit
<1>2. at = 1 /\ at \in DOMAIN Script
    BY <1>0, ScriptSteps
<1>3. LiveTypeOK
    BY <1>1, <1>2 DEF LiveInit, LiveTypeOK
<1>4. Remembered
    BY <1>1, <1>2 DEF LiveInit, Remembered, NewUser
<1>5. AllPassed
    BY <1>2 DEF LiveInit, AllPassed
<1> QED
    BY <1>3, <1>4, <1>5 DEF LiveInv

\* The types, as the lemmas below use them.
LEMMA LiveTyped ==
    ASSUME LiveInv
    PROVE  /\ at \in 1..18 /\ user \in User /\ known \subseteq {"id", "sid", "token"}
           /\ anyFailed \in BOOLEAN /\ lapse \subseteq {"unanswered", "threw", "undeleted"}
           /\ ending \in {"running", "passed", "failed", "threw"}
           /\ ending \in {"passed", "failed"} => "id" \in known
    BY ScriptSteps DEF LiveInv, LiveTypeOK

\* Every step of the script keeps LiveInv.
LEMMA LiveSteps ==
    ASSUME LiveInv, LiveNext PROVE LiveInv'
<1> USE LiveTyped
<1>0. ASSUME NEW n \in 1..18, at' = n PROVE at' \in DOMAIN Script
    BY <1>0, ScriptSteps
<1>1. CASE LookAside
  <2>1. ending = "running" /\ at \in 1..5 \cup {12, 15}
    BY <1>1, Position DEF LookAside, Reaches
  <2>2. /\ at' = at + 1 /\ UNCHANGED <<user, known, ending, lapse>>
        /\ anyFailed' \in BOOLEAN /\ (~anyFailed' => ~anyFailed)
    BY <1>1 DEF LookAside, Checked
  <2>3. LiveTypeOK'
    BY <1>0, <2>1, <2>2 DEF LiveTypeOK
  <2>4. Remembered'
    BY <2>1, <2>2, UserType DEF LiveInv, Remembered, NewUser
  <2>5. ~anyFailed' => AllPassed'
    BY <2>1, <2>2 DEF LiveInv, AllPassed
  <2> QED
    BY <2>3, <2>4, <2>5 DEF LiveInv
<1>2. CASE InviteFails
  <2>1. ending = "running" /\ at = 6
    BY <1>2, Position DEF InviteFails, Reaches
  <2>2. /\ at' = at + 1 /\ UNCHANGED <<user, known, ending, lapse>> /\ anyFailed' = TRUE
    BY <1>2 DEF InviteFails, Checked
  <2>3. LiveTypeOK'
    BY <1>0, <2>1, <2>2 DEF LiveTypeOK
  <2>4. Remembered'
    BY <2>1, <2>2, UserType DEF LiveInv, Remembered, NewUser
  <2>5. ~anyFailed' => AllPassed'
    BY <2>1, <2>2 DEF LiveInv, AllPassed
  <2> QED
    BY <2>3, <2>4, <2>5 DEF LiveInv
<1>3. CASE InviteUnanswered
  <2>1. ending = "running" /\ at = 6
    BY <1>3, Position DEF InviteUnanswered, Reaches
  <2>2. /\ at' = at + 1 /\ UNCHANGED <<known, ending>> /\ anyFailed' = TRUE
        /\ user' \in User /\ lapse' = lapse \cup {"unanswered"}
    BY <1>3 DEF InviteUnanswered, Invited, User
  <2>3. LiveTypeOK'
    BY <1>0, <2>1, <2>2 DEF LiveTypeOK
  <2>4. Remembered'
    BY <2>1, <2>2, UserType DEF LiveInv, Remembered, NewUser
  <2>5. ~anyFailed' => AllPassed'
    BY <2>1, <2>2 DEF LiveInv, AllPassed
  <2> QED
    BY <2>3, <2>4, <2>5 DEF LiveInv
<1>4. CASE InviteAnswered
  <2>1. ending = "running" /\ at = 6
    BY <1>4, Position DEF InviteAnswered, Reaches
  <2>2. /\ at' = at + 1 /\ UNCHANGED <<ending, lapse>> /\ anyFailed' \in BOOLEAN
        /\ user' \in User /\ known' = {"id"} /\ user'.roles = {"support", "moderator"}
    BY <1>4 DEF InviteAnswered, Invited, User, Checked
  <2>3. LiveTypeOK'
    BY <1>0, <2>1, <2>2 DEF LiveTypeOK
  <2>4. Remembered'
    BY <2>1, <2>2, UserType DEF LiveInv, Remembered, NewUser
  <2>5. ~anyFailed' => AllPassed'
    BY <2>1, <2>2 DEF LiveInv, AllPassed
  <2> QED
    BY <2>3, <2>4, <2>5 DEF LiveInv
<1>5. CASE AddRole
  <2>1. ending = "running" /\ at = 7
    BY <1>5, Position DEF AddRole, Reaches
  <2>2. /\ at' = at + 1 /\ UNCHANGED <<known, ending, lapse>>
        /\ anyFailed' \in BOOLEAN /\ (~anyFailed' => ~anyFailed)
        /\ user' \in User /\ user'.exists = user.exists
        /\ ~anyFailed' => "id" \in known /\ user'.roles = user.roles \cup {"viewer"}
    BY <1>5 DEF AddRole, Checked, User
  <2>3. LiveTypeOK'
    BY <1>0, <2>1, <2>2 DEF LiveTypeOK
  <2>4. Remembered'
    BY <2>1, <2>2, UserType DEF LiveInv, Remembered, NewUser
  <2>5. ~anyFailed' => AllPassed'
    BY <2>1, <2>2 DEF LiveInv, AllPassed
  <2> QED
    BY <2>3, <2>4, <2>5 DEF LiveInv
<1>6. CASE SetUp
  <2>1. ending = "running" /\ at = 8
    BY <1>6, Position DEF SetUp, Reaches
  <2>2. /\ at' = at + 1 /\ UNCHANGED <<known, anyFailed, ending, lapse>>
        /\ user' \in User /\ user'.exists = user.exists /\ user'.roles = user.roles
        /\ "id" \in known
    BY <1>6 DEF SetUp, User
  <2>3. LiveTypeOK'
    BY <1>0, <2>1, <2>2 DEF LiveTypeOK
  <2>4. Remembered'
    BY <2>1, <2>2, UserType DEF LiveInv, Remembered, NewUser
  <2>5. ~anyFailed' => AllPassed'
    BY <2>1, <2>2 DEF LiveInv, AllPassed
  <2> QED
    BY <2>3, <2>4, <2>5 DEF LiveInv
<1>7. CASE SetUpThrows
  <2>1. ending = "running" /\ at = 8
    BY <1>7, Position DEF SetUpThrows, Reaches
  <2>2. /\ UNCHANGED <<at, user, known, anyFailed>>
        /\ ending' = "threw" /\ lapse \subseteq lapse' /\ lapse' \subseteq lapse \cup {"threw"}
        /\ lapse' = lapse => "id" \notin known \/ "threw" \in lapse
    BY <1>7 DEF SetUpThrows
  <2>3. LiveTypeOK'
    BY <1>0, <2>1, <2>2 DEF LiveTypeOK
  <2>4. Remembered'
    BY <2>1, <2>2, UserType DEF LiveInv, Remembered, NewUser
  <2>5. ~anyFailed' => AllPassed'
    BY <2>1, <2>2 DEF LiveInv, AllPassed
  <2> QED
    BY <2>3, <2>4, <2>5 DEF LiveInv
<1>8. CASE CentralSignIn
  <2>1. ending = "running" /\ at = 9
    BY <1>8, Position DEF CentralSignIn, Reaches
  <2>2. /\ at' = at + 1 /\ UNCHANGED <<ending, lapse>>
        /\ anyFailed' \in BOOLEAN /\ (~anyFailed' => ~anyFailed /\ "sid" \in known')
        /\ user' \in User /\ user'.exists = user.exists /\ user'.roles = user.roles
        /\ known' = known \/ known' = known \cup {"sid"}
    BY <1>8 DEF CentralSignIn, FormLogin, Checked, User
  <2>0. known' \subseteq {"id", "sid", "token"}
    BY <2>2
  <2>3. LiveTypeOK'
    BY <1>0, <2>0, <2>1, <2>2 DEF LiveTypeOK
  <2>4. Remembered'
    BY <2>1, <2>2, UserType DEF LiveInv, Remembered, NewUser
  <2>5. ~anyFailed' => AllPassed'
    BY <2>1, <2>2 DEF LiveInv, AllPassed
  <2> QED
    BY <2>3, <2>4, <2>5 DEF LiveInv
<1>9. CASE PasumithraSignIn
  <2>1. ending = "running" /\ at = 10
    BY <1>9, Position DEF PasumithraSignIn, Reaches
  <2>2. /\ at' = at + 1 /\ UNCHANGED <<ending, lapse>>
        /\ anyFailed' \in BOOLEAN /\ (~anyFailed' => ~anyFailed /\ "token" \in known')
        /\ user' \in User /\ user'.exists = user.exists /\ user'.roles = user.roles
        /\ known' = known \/ known' = known \cup {"token"}
    BY <1>9 DEF PasumithraSignIn, FormLogin, Checked, User
  <2>0. known' \subseteq {"id", "sid", "token"}
    BY <2>2
  <2>3. LiveTypeOK'
    BY <1>0, <2>0, <2>1, <2>2 DEF LiveTypeOK
  <2>4. Remembered'
    BY <2>1, <2>2, UserType DEF LiveInv, Remembered, NewUser
  <2>5. ~anyFailed' => AllPassed'
    BY <2>1, <2>2 DEF LiveInv, AllPassed
  <2> QED
    BY <2>3, <2>4, <2>5 DEF LiveInv
<1>10. CASE Bridge
  <2>1. ending = "running" /\ at = 11
    BY <1>10, Position DEF Bridge, Reaches
  <2>2. /\ at' = at + 1 /\ UNCHANGED <<user, known, ending, lapse>>
        /\ anyFailed' \in BOOLEAN /\ (~anyFailed' => ~anyFailed /\ "token" \in known)
    BY <1>10 DEF Bridge, Checked
  <2>3. LiveTypeOK'
    BY <1>0, <2>1, <2>2 DEF LiveTypeOK
  <2>4. Remembered'
    BY <2>1, <2>2, UserType DEF LiveInv, Remembered, NewUser
  <2>5. ~anyFailed' => AllPassed'
    BY <2>1, <2>2 DEF LiveInv, AllPassed
  <2> QED
    BY <2>3, <2>4, <2>5 DEF LiveInv
<1>11. CASE StockSignIn
  <2>1. ending = "running" /\ at = 13
    BY <1>11, Position DEF StockSignIn, Reaches
  <2>2. /\ at' = at + 1 /\ UNCHANGED <<known, ending, lapse>>
        /\ anyFailed' \in BOOLEAN /\ (~anyFailed' => ~anyFailed)
        /\ user' \in User /\ user'.exists = user.exists
        /\ ~anyFailed' => user'.roles = (user.roles \ {"viewer"}) \cup {"manager"}
    BY <1>11 DEF StockSignIn, Checked, User
  <2>3. LiveTypeOK'
    BY <1>0, <2>1, <2>2 DEF LiveTypeOK
  <2>4. Remembered'
    BY <2>1, <2>2, UserType DEF LiveInv, Remembered, NewUser
  <2>5. ~anyFailed' => AllPassed'
    BY <2>1, <2>2 DEF LiveInv, AllPassed
  <2> QED
    BY <2>3, <2>4, <2>5 DEF LiveInv
<1>12. CASE Sessions
  <2>1. ending = "running" /\ at = 14
    BY <1>12, Position DEF Sessions, Reaches
  <2>2. /\ at' = at + 1 /\ UNCHANGED <<user, known, ending, lapse>>
        /\ anyFailed' \in BOOLEAN /\ (~anyFailed' => ~anyFailed)
    BY <1>12 DEF Sessions, Checked
  <2>3. LiveTypeOK'
    BY <1>0, <2>1, <2>2 DEF LiveTypeOK
  <2>4. Remembered'
    BY <2>1, <2>2, UserType DEF LiveInv, Remembered, NewUser
  <2>5. ~anyFailed' => AllPassed'
    BY <2>1, <2>2 DEF LiveInv, AllPassed
  <2> QED
    BY <2>3, <2>4, <2>5 DEF LiveInv
<1>13. CASE Disable
  <2>1. ending = "running" /\ at = 16
    BY <1>13, Position DEF Disable, Reaches
  <2>2. /\ at' = at + 1 /\ UNCHANGED <<known, ending, lapse>>
        /\ anyFailed' \in BOOLEAN /\ (~anyFailed' => ~anyFailed)
        /\ user' \in User /\ user'.exists = user.exists /\ user'.roles = user.roles
        /\ ~anyFailed' => ~user'.enabled /\ ~user'.signedIn
    BY <1>13 DEF Disable, Checked, User
  <2>3. LiveTypeOK'
    BY <1>0, <2>1, <2>2 DEF LiveTypeOK
  <2>4. Remembered'
    BY <2>1, <2>2, UserType DEF LiveInv, Remembered, NewUser
  <2>5. ~anyFailed' => AllPassed'
    BY <2>1, <2>2 DEF LiveInv, AllPassed
  <2> QED
    BY <2>3, <2>4, <2>5 DEF LiveInv
<1>14. CASE Delete
  <2>1. ending = "running" /\ at = 17
    BY <1>14, Position DEF Delete, Reaches
  <2>2. /\ at' = at + 1 /\ UNCHANGED <<known, anyFailed, ending>>
        /\ user' \in User /\ user'.roles = user.roles
        /\ user'.enabled = user.enabled /\ user'.signedIn = user.signedIn
        /\ lapse \subseteq lapse' /\ lapse' \subseteq lapse \cup {"undeleted"}
        /\ user'.exists => user.exists
        /\ user'.exists => lapse' # lapse \/ "id" \notin known \/ "undeleted" \in lapse
    BY <1>14 DEF Delete, User
  <2>3. LiveTypeOK'
    BY <1>0, <2>1, <2>2 DEF LiveTypeOK
  <2>4. Remembered'
    BY <2>1, <2>2, UserType DEF LiveInv, Remembered, NewUser
  <2>5. ~anyFailed' => AllPassed'
    BY <2>1, <2>2 DEF LiveInv, AllPassed
  <2> QED
    BY <2>3, <2>4, <2>5 DEF LiveInv
<1>15. CASE Report
  <2>1. ending = "running" /\ at = 18
    BY <1>15, Position DEF Report, Reaches
  <2>2. /\ UNCHANGED <<at, user, known, anyFailed, lapse>>
        /\ ending' = IF ~anyFailed THEN "passed" ELSE "failed"
    BY <1>15 DEF Report
  <2>3. LiveTypeOK'
    BY <1>0, <2>1, <2>2 DEF LiveInv, LiveTypeOK, Remembered
  <2>4. Remembered'
    BY <2>1, <2>2, UserType DEF LiveInv, Remembered, NewUser
  <2>5. ~anyFailed' => AllPassed'
    BY <2>1, <2>2 DEF LiveInv, AllPassed
  <2> QED
    BY <2>3, <2>4, <2>5 DEF LiveInv
<1> QED
    BY <1>1, <1>2, <1>3, <1>4, <1>5, <1>6, <1>7, <1>8, <1>9, <1>10, <1>11, <1>12,
       <1>13, <1>14, <1>15 DEF LiveNext

(***************************************************************************)
(* The script's steps leave Keycloak's user, what the script knows of it   *)
(* and the result so far as LiveInv says, whichever calls fail.            *)
(***************************************************************************)
THEOREM LiveInvariant == LiveSpec => []LiveInv
<1>1. LiveInv /\ UNCHANGED liveVars => LiveInv'
    BY DEF LiveInv, LiveTypeOK, Remembered, AllPassed, liveVars
<1> QED
    BY <1>1, LiveStart, LiveSteps, PTL DEF LiveSpec

(***************************************************************************)
(* keycloak-live-check.ts leaves no throw-away admin behind but where it   *)
(* could not know better, and exits with 0 only if the admin went all the  *)
(* way from the invitation to the disabling.                               *)
(***************************************************************************)
THEOREM EndsTrue == LiveSpec => []EndingIsTrue
<1>1. ASSUME LiveInv PROVE EndingIsTrue
  <2> USE <1>1, LiveTyped
  <2>1. ending # "running" /\ user.exists => lapse # {}
    BY DEF LiveInv, Remembered
  <2>2. CASE ending = "passed"
    <3>1. at = 18 /\ AllPassed
      BY <2>2 DEF LiveInv, Remembered
    <3>2. /\ {"id", "sid", "token"} \subseteq known
          /\ user.roles = {"support", "moderator", "manager"}
          /\ ~user.enabled /\ ~user.signedIn
      BY <3>1 DEF AllPassed
    <3> QED
      BY <2>1, <3>2 DEF EndingIsTrue
  <2> QED
    BY <2>1, <2>2 DEF EndingIsTrue
<1> QED
    BY <1>1, LiveInvariant, PTL

-----------------------------------------------------------------------------
(* The pages and buttons that a role is shown *)

\* What is asked of a request is what its router's table says.
LEMMA RouteOf ==
    /\ Route("health") = {}
    /\ \A op \in DOMAIN ApplicationsRoutes : Route(op) = ApplicationsRoutes[op]
    /\ \A op \in DOMAIN IdentityRoutes : Route(op) = IdentityRoutes[op]
    /\ \A op \in DOMAIN AuditRoutes : Route(op) = AuditRoutes[op]
    /\ \A op \in DOMAIN JeevaMitraRoutes : Route(op) = JeevaMitraRoutes[op]
    /\ \A op \in DOMAIN NearSipRoutes : Route(op) = NearSipRoutes[op]
    /\ \A op \in DOMAIN PasunestamRoutes : Route(op) = PasunestamRoutes[op]
    BY DEF Route, ApplicationsRoutes, IdentityRoutes, AuditRoutes, JeevaMitraRoutes,
       NearSipRoutes, PasunestamRoutes

\* Whoever holds a permission is let through to what it is for.
LEMMA Holds ==
    ASSUME NEW k, NEW grants
    PROVE  Allows(Permission(k), grants) <=> <<"central", k>> \in grants
    BY DEF Allows, Permission, Central

\* No role manages applications that may not look at them.
LEMMA ManagersView ==
    ASSUME NEW grants \in Profile, <<"central", "applications.manage">> \in grants
    PROVE  <<"central", "applications.view">> \in grants
    BY DEF Profile, Central, InApp, ROLE_PERMISSIONS, PERMISSIONS, AppRoles, Standard

\* The tables of the links repeat what the pages' guards ask.
LEMMA LinkTables ==
    /\ Page = DOMAIN NAV_MODULES \cup DOMAIN MANAGED_APP_PAGES
                  \cup {"newApplication", "application", "editApplication"}
    /\ \A p \in DOMAIN NAV_MODULES : NAV_MODULES[p] = Guard[p]
    /\ \A p \in DOMAIN MANAGED_APP_PAGES : MANAGED_APP_PAGES[p] = Guard[p]
    /\ DOMAIN NAV_MODULES =
           {"dashboard", "applications", "users", "content", "notifications", "reports",
            "monitoring", "auditLogs", "settings"}
    /\ DOMAIN MANAGED_APP_PAGES = {"jeevamitra", "nearsip", "pasunestam"}
    /\ Guard["applications"] = Permission("applications.view")
    /\ Guard["application"] = Permission("applications.view")
    /\ Guard["newApplication"] = Permission("applications.manage")
    /\ Guard["editApplication"] = Permission("applications.manage")
    BY DEF Page, Guard, NAV_MODULES, MANAGED_APP_PAGES
\* Links lead from the pages about applications only, and to them.
LEMMA LinksLead ==
    ASSUME NEW grants, NEW p \in Page
    PROVE  /\ p = "applications" =>
                 Links(p, grants) = {"application"} \cup
                     (IF Allows(Permission("applications.manage"), grants)
                        THEN {"newApplication"} ELSE {})
           /\ p = "application" =>
                 Links(p, grants) = {"applications"} \cup
                     (IF Allows(Permission("applications.manage"), grants)
                        THEN {"editApplication"} ELSE {})
           /\ p \in {"newApplication", "editApplication"} =>
                 Links(p, grants) = {"applications", "application"}
           /\ p \notin {"applications", "application", "newApplication", "editApplication"} =>
                 Links(p, grants) = {}
    BY DEF Links

(***************************************************************************)
(* The pages that links lead to, in two steps from the sidebar, are those  *)
(* that open: only the pages about applications are not in the sidebar,    *)
(* and who may open one of them may see the list, where the way begins.    *)
(***************************************************************************)
LEMMA PagesLinked ==
    ASSUME told \in Profile PROVE EveryPageIsLinked
<1> DEFINE views == Allows(Permission("applications.view"), told)
           manages == Allows(Permission("applications.manage"), told)
           linked == Sidebar(told)
           next == linked \cup UNION {Links(p, told) : p \in linked}
           last == next \cup UNION {Links(p, told) : p \in next}
           opens == {p \in Page : Allows(Guard[p], told)}
           inner == {"newApplication", "application", "editApplication"}
<1>1. manages => views
    BY Holds, ManagersView
<1>2. linked = opens \ inner /\ linked \subseteq Page
    BY LinkTables DEF Sidebar
<1>3. /\ "application" \in opens <=> views
      /\ "applications" \in opens <=> views
      /\ "newApplication" \in opens <=> manages
      /\ "editApplication" \in opens <=> manages
    BY LinkTables
<1>4. CASE ~views
  <2>1. \A p \in linked : Links(p, told) = {}
    BY <1>2, <1>3, <1>4, LinksLead
  <2>2. next = linked /\ last = linked
    BY <2>1
  <2>3. opens = linked
    BY <1>1, <1>2, <1>3, <1>4
  <2> QED
    BY <2>2, <2>3 DEF EveryPageIsLinked
<1>5. CASE views
  <2>1. "applications" \in linked
    BY <1>2, <1>3, <1>5
  <2>2. next = linked \cup {"application"} \cup (IF manages THEN {"newApplication"} ELSE {})
    <3>1. \A p \in linked \ {"applications"} : Links(p, told) = {}
      BY <1>2, LinksLead
    <3>2. Links("applications", told) =
              {"application"} \cup (IF manages THEN {"newApplication"} ELSE {})
      BY <2>1, <1>2, LinksLead
    <3> QED
      BY <2>1, <3>1, <3>2
  <2>3. last = next \cup (IF manages THEN {"editApplication"} ELSE {})
    <3>0. next \subseteq Page /\ "application" \in next
      BY <1>2, <2>2, LinkTables
    <3>1. \A p \in next : Links(p, told) \subseteq
              next \cup (IF manages THEN {"editApplication"} ELSE {})
      BY <3>0, <2>1, <2>2, <1>2, LinksLead
    <3>2. manages => "editApplication" \in Links("application", told)
      BY <3>0, LinksLead
    <3> QED
      BY <3>0, <3>1, <3>2
  <2>4. opens = last
    BY <1>2, <1>3, <1>5, <2>2, <2>3
  <2> QED
    BY <2>4 DEF EveryPageIsLinked
<1> QED
    BY <1>4, <1>5

(***************************************************************************)
(* A page that is not forbidden is one that the roles which the browser    *)
(* was told of open.                                                       *)
(***************************************************************************)
AccessInv ==
    /\ AccessTypeOK
    /\ outcome # "forbidden" => Allows(Guard[page], told)

\* A page opens with a tab that it offers to everyone.
LEMMA FirstTabShown ==
    ASSUME NEW p, NEW grants PROVE FirstTab(p) \in Tabs(p, grants)
    BY DEF FirstTab, Tabs

\* An admin without any role has a profile.
LEMMA NoGrants == {} \in Profile
<1>1. Central(UNION {ROLE_PERMISSIONS[r] : r \in {}}) = {}
    BY DEF Central
<1>2. {} \in SUBSET DOMAIN ROLE_PERMISSIONS
    OBVIOUS
<1> QED
    BY <1>1, <1>2 DEF Profile

\* The browser starts at the dashboard, which opens for everyone.
LEMMA AccessStart == AccessInit => AccessInv
<1> SUFFICES ASSUME AccessInit PROVE AccessInv
    OBVIOUS
<1>1. /\ "dashboard" \in Page /\ Guard["dashboard"] = {}
      /\ FirstTab("dashboard") = "main"
    BY DEF Page, Guard, FirstTab
<1>2. "main" \in Tabs("dashboard", told)
    BY <1>1, FirstTabShown
<1> QED
    BY <1>1, <1>2, NoGrants DEF AccessInit, AccessInv, AccessTypeOK, Allows

\* Every step of the admin, and of whoever changes the roles, keeps AccessInv.
LEMMA AccessSteps ==
    ASSUME AccessInv, AccessNext PROVE AccessInv'
<1> USE DEF AccessInv, AccessTypeOK
<1>1. ASSUME NEW grants \in Profile, SetRoles(grants) PROVE AccessInv'
    BY <1>1 DEF SetRoles
<1>2. CASE Reload
    BY <1>2, FirstTabShown DEF Reload, Arrives
<1>3. ASSUME NEW p \in Page, Follow(p) PROVE AccessInv'
    BY <1>3, FirstTabShown DEF Follow, Arrives
<1>4. ASSUME NEW t \in Tabs(page, told), ChooseTab(t) PROVE AccessInv'
    BY <1>4 DEF ChooseTab, Arrives
<1>5. CASE LoadPage
    BY <1>5 DEF LoadPage, Outcome
<1>6. ASSUME NEW op \in Buttons(page, tab, told), PressButton(op) PROVE AccessInv'
    BY <1>6 DEF PressButton, Outcome
<1> QED
    BY <1>1, <1>2, <1>3, <1>4, <1>5, <1>6 DEF AccessNext

\* The routers' answers to what the pages of the applications ask.
LEMMA AppRoutes ==
    /\ READ("jeevamitra") = InApp("jeevamitra", Standard)
    /\ READ("nearsip") = InApp("nearsip", Standard)
    /\ READ("pasunestam") = InApp("pasunestam", {"editor", "manager"})
    /\ MANAGE("jeevamitra") = InApp("jeevamitra", {"manager", "super_admin"})
    /\ MANAGE("nearsip") = InApp("nearsip", {"manager", "super_admin"})
    /\ MANAGE("pasunestam") = InApp("pasunestam", {"manager"})
    BY DEF READ, MANAGE, AppRoles

\* What a page asks for when it opens is answered, but for the dashboard's.
LEMMA LoadsAnswered ==
    ASSUME told \in Profile, page \in Page, tab \in Tabs(page, told), page # "dashboard",
           Allows(Guard[page], told), NEW op \in PageLoads(page, tab)
    PROVE  Allows(Route(op), told)
<1>1. CASE page \in {"applications", "application", "editApplication"}
  <2>1. op \in {"listApplications", "getApplication"}
    BY <1>1 DEF PageLoads
  <2>2. Route(op) = Permission("applications.view")
    BY <2>1, RouteOf DEF ApplicationsRoutes
  <2>3. \/ Allows(Permission("applications.view"), told)
        \/ Allows(Permission("applications.manage"), told)
    BY <1>1, LinkTables
  <2> QED
    BY <2>2, <2>3, Holds, ManagersView
<1>2. CASE page = "users"
  <2>1. op \in {"identityApps", "identityUsers"} /\ Guard[page] = Permission("admin_users.view")
    BY <1>2 DEF PageLoads, Guard
  <2> QED
    BY <2>1, RouteOf DEF IdentityRoutes
<1>3. CASE page = "auditLogs"
  <2>1. op \in {"auditLogs", "auditActions"} /\ Guard[page] = Permission("audit_logs.view")
    BY <1>3 DEF PageLoads, Guard
  <2> QED
    BY <2>1, RouteOf DEF AuditRoutes
<1>4. CASE page = "jeevamitra"
  <2>1. op = "jmRead" /\ Guard[page] = {InApp("jeevamitra", Standard)}
    BY <1>4 DEF PageLoads, Guard
  <2>2. Route(op) = {READ("jeevamitra")}
    BY <2>1, RouteOf DEF JeevaMitraRoutes
  <2> QED
    BY <2>1, <2>2, AppRoutes
<1>5. CASE page = "nearsip"
  <2>1. op = "nsRead" /\ Guard[page] = {InApp("nearsip", Standard)}
    BY <1>5 DEF PageLoads, Guard
  <2>2. Route(op) = {READ("nearsip")}
    BY <2>1, RouteOf DEF NearSipRoutes
  <2> QED
    BY <2>1, <2>2, AppRoutes
<1>6. CASE page = "pasunestam"
  <2>1. Guard[page] = {InApp("pasunestam", {"editor", "manager"})}
    BY <1>6 DEF Guard
  <2>2. CASE op = "pnRead"
    <3>1. Route(op) = {READ("pasunestam")}
      BY <2>2, RouteOf DEF PasunestamRoutes
    <3> QED
      BY <2>1, <3>1, AppRoutes
  <2>3. CASE op \in {"listVets", "schemeApplications"}
    <3>1. tab \in {"vets", "applications"}
      BY <1>6, <2>3 DEF PageLoads, PasunestamLoads
    <3>2. <<"pasunestam", "manager">> \in told
      BY <1>6, <3>1 DEF Tabs
    <3>3. Route(op) = {READ("pasunestam"), MANAGE("pasunestam")}
      BY <2>3, RouteOf DEF PasunestamRoutes
    <3> QED
      BY <3>2, <3>3, AppRoutes DEF Allows, InApp
  <2> QED
    BY <1>6, <2>2, <2>3 DEF PageLoads, PasunestamLoads
<1>7. CASE page \in {"newApplication", "content", "notifications", "reports", "monitoring",
                     "settings"}
    BY <1>7 DEF PageLoads
<1>8. page \in {"applications", "application", "editApplication", "users", "auditLogs",
                "jeevamitra", "nearsip", "pasunestam", "newApplication", "content",
                "notifications", "reports", "monitoring", "settings"}
    BY DEF Page, Guard
<1> QED
    BY <1>1, <1>2, <1>3, <1>4, <1>5, <1>6, <1>7, <1>8

\* So is what its buttons ask for.
LEMMA ButtonsAnswered ==
    ASSUME page \in Page, tab \in Tabs(page, told), Allows(Guard[page], told),
           NEW op \in Buttons(page, tab, told)
    PROVE  Allows(Route(op), told)
<1>1. CASE page \in {"newApplication", "editApplication"}
  <2>1. op \in {"createApplication", "updateApplication"}
        /\ Guard[page] = Permission("applications.manage")
    BY <1>1 DEF Buttons, Guard
  <2> QED
    BY <2>1, RouteOf DEF ApplicationsRoutes
<1>2. CASE page = "users"
  <2>1. /\ op \in {"invite", "setRoles", "setEnabled", "signOut", "resendInvite"}
        /\ Allows(Permission("admin_users.manage"), told)
    BY <1>2 DEF Buttons, AdminAccessButtons, When
  <2> QED
    BY <2>1, RouteOf DEF IdentityRoutes
<1>3. CASE page = "jeevamitra"
  <2>0. Guard[page] = {InApp("jeevamitra", Standard)}
    BY <1>3 DEF Guard
  <2>1. \/ /\ op \in {"setVerified", "setAlertActive"}
           /\ InApp("jeevamitra", {"manager", "super_admin"}) \cap told # {}
        \/ /\ op = "jmSetDisabled" /\ <<"jeevamitra", "super_admin">> \in told
    BY <1>3 DEF Buttons, JeevaMitraButtons, When
  <2>2. CASE op \in {"setVerified", "setAlertActive"}
    <3>1. Route(op) = {READ("jeevamitra"), MANAGE("jeevamitra")}
      BY <2>2, RouteOf DEF JeevaMitraRoutes
    <3>2. InApp("jeevamitra", {"manager", "super_admin"}) \cap told # {}
      BY <2>1, <2>2
    <3> QED
      BY <2>0, <3>1, <3>2, AppRoutes DEF Allows
  <2>3. CASE op = "jmSetDisabled"
    <3>1. Route(op) = {READ("jeevamitra"), ACCOUNTS("jeevamitra")}
      BY <2>3, RouteOf DEF JeevaMitraRoutes
    <3>2. ACCOUNTS("jeevamitra") \cap told # {}
      BY <2>1, <2>3 DEF ACCOUNTS, InApp
    <3> QED
      BY <2>0, <3>1, <3>2, AppRoutes DEF Allows
  <2> QED
    BY <2>1, <2>2, <2>3
<1>4. CASE page = "nearsip"
  <2>0. Guard[page] = {InApp("nearsip", Standard)}
    BY <1>4 DEF Guard
  <2>1. \/ /\ op \in {"savePlace", "deletePlace", "deleteReview"}
           /\ InApp("nearsip", {"manager", "super_admin"}) \cap told # {}
        \/ /\ op = "nsSetDisabled" /\ <<"nearsip", "super_admin">> \in told
    BY <1>4 DEF Buttons, NearSipButtons, When
  <2>2. CASE op \in {"savePlace", "deletePlace", "deleteReview"}
    <3>1. Route(op) = {READ("nearsip"), MANAGE("nearsip")}
      BY <2>2, RouteOf DEF NearSipRoutes
    <3>2. InApp("nearsip", {"manager", "super_admin"}) \cap told # {}
      BY <2>1, <2>2
    <3> QED
      BY <2>0, <3>1, <3>2, AppRoutes DEF Allows
  <2>3. CASE op = "nsSetDisabled"
    <3>1. Route(op) = {READ("nearsip"), ACCOUNTS("nearsip")}
      BY <2>3, RouteOf DEF NearSipRoutes
    <3>2. ACCOUNTS("nearsip") \cap told # {}
      BY <2>1, <2>3 DEF ACCOUNTS, InApp
    <3> QED
      BY <2>0, <3>1, <3>2, AppRoutes DEF Allows
  <2> QED
    BY <2>1, <2>2, <2>3
<1>5. CASE page = "pasunestam"
  <2>0. Guard[page] = {InApp("pasunestam", {"editor", "manager"})}
    BY <1>5 DEF Guard
  <2>1. \/ op \in {"reviewCase", "cancelCertificate"}
        \/ /\ op \in {"setTemplatePublished", "deleteScheme", "setVetDisabled"}
           /\ <<"pasunestam", "manager">> \in told
    <3>1. tab = "vets" => <<"pasunestam", "manager">> \in told
      BY <1>5 DEF Tabs
    <3> QED
      BY <1>5, <3>1 DEF Buttons, PasunestamButtons, When
  <2>2. CASE op \in {"reviewCase", "cancelCertificate"}
    <3>1. Route(op) = {READ("pasunestam")}
      BY <2>2, RouteOf DEF PasunestamRoutes
    <3> QED
      BY <2>0, <3>1, AppRoutes
  <2>3. CASE op \in {"setTemplatePublished", "deleteScheme", "setVetDisabled"}
    <3>1. Route(op) = {READ("pasunestam"), MANAGE("pasunestam")}
      BY <2>3, RouteOf DEF PasunestamRoutes
    <3>2. <<"pasunestam", "manager">> \in told
      BY <2>1, <2>3
    <3> QED
      BY <3>1, <3>2, AppRoutes DEF Allows, InApp
  <2> QED
    BY <2>1, <2>2, <2>3
<1>6. page \in {"newApplication", "editApplication", "users", "jeevamitra", "nearsip",
                "pasunestam"}
    BY DEF Buttons
<1> QED
    BY <1>1, <1>2, <1>3, <1>4, <1>5, <1>6

\* So a refusal, while the roles are as told, is the dashboard's.
LEMMA RefusalsExplained ==
    ASSUME AccessInv, [AccessNext]_accessVars PROVE RefusalMeansStale
<1> SUFFICES ASSUME outcome # "refused", outcome' = "refused", held = told,
                    page # "dashboard"
             PROVE  FALSE
    BY DEF RefusalMeansStale
<1>0. /\ told \in Profile /\ page \in Page /\ tab \in Tabs(page, told)
      /\ outcome # "forbidden" => Allows(Guard[page], told)
    BY DEF AccessInv, AccessTypeOK
<1>1. CASE LoadPage
    BY <1>0, <1>1, LoadsAnswered DEF LoadPage, Outcome
<1>2. ASSUME NEW op \in Buttons(page, tab, told), PressButton(op) PROVE FALSE
    BY <1>0, <1>2, ButtonsAnswered DEF PressButton, Outcome
<1>3. ASSUME NEW grants \in Profile, SetRoles(grants) PROVE FALSE
    BY <1>3 DEF SetRoles
<1>4. CASE Reload
    BY <1>4 DEF Reload, Arrives
<1>5. ASSUME NEW p \in Page, Follow(p) PROVE FALSE
    BY <1>5 DEF Follow, Arrives
<1>6. ASSUME NEW t \in Tabs(page, told), ChooseTab(t) PROVE FALSE
    BY <1>6 DEF ChooseTab, Arrives
<1>7. CASE UNCHANGED accessVars
    BY <1>7 DEF accessVars
<1> QED
    BY <1>1, <1>2, <1>3, <1>4, <1>5, <1>6, <1>7 DEF AccessNext

(***************************************************************************)
(* Wherever the browser goes, it shows a page and a tab that the roles     *)
(* which me() answered last are offered (RequireAuth.tsx, PasunestamPage). *)
(***************************************************************************)
THEOREM AccessInvariant == AccessSpec => []AccessInv
<1>1. AccessInv /\ UNCHANGED accessVars => AccessInv'
    BY DEF AccessInv, AccessTypeOK, accessVars
<1> QED
    BY <1>1, AccessStart, AccessSteps, PTL DEF AccessSpec

(***************************************************************************)
(* The routes, the guards, the links and the buttons decide alike, though  *)
(* each has a table of its own: every page that opens has a link, and the  *)
(* API refuses nothing that was offered for the roles that are still held, *)
(* the statistics of the dashboard excepted.                               *)
(***************************************************************************)
THEOREM TablesAgreed == AccessSpec => TablesAgree
<1>1. AccessInv => EveryPageIsLinked
    BY PagesLinked DEF AccessInv, AccessTypeOK
<1>2. AccessInv /\ [AccessNext]_accessVars => [RefusalMeansStale]_accessVars
    BY RefusalsExplained
<1> QED
    BY <1>1, <1>2, AccessInvariant, PTL DEF AccessSpec, TablesAgree

-----------------------------------------------------------------------------
(***************************************************************************)
(* What is put together in one instance does what each part does alone, so *)
(* that what is proved of a part holds beside the others.                  *)
(***************************************************************************)
THEOREM RecordsComponents ==
    RecordsSpec =>
        /\ FieldSpec /\ UniqueSpec /\ RegistrySpec /\ SeedSpec
        /\ RefsSpec /\ ConfigSpec /\ AccessSpec /\ LiveSpec
<1>1. RecordsInit =>
          /\ FieldInit /\ UniqueInit /\ RegistryInit /\ SeedInit
          /\ RefsInit /\ ConfigInit /\ AccessInit /\ LiveInit
    BY DEF RecordsInit
<1>2. [RecordsNext]_<<fieldVars, uniqueVars, registryVars, seedVars, refVars, configVars,
                      accessVars, liveVars, focus>> =>
          /\ [FieldNext]_fieldVars /\ [UniqueNext]_uniqueVars
          /\ [RegistryNext]_registryVars /\ [SeedNext]_seedVars
          /\ [RefsNext]_refVars /\ [ConfigNext]_configVars
          /\ [AccessNext]_accessVars /\ [LiveNext]_liveVars
    BY DEF RecordsNext, Frame, RegistryBounded, ConfigBounded, AccessBounded
<1> QED
    BY <1>1, <1>2, PTL
       DEF RecordsSpec, FieldSpec, UniqueSpec, RegistrySpec, SeedSpec, RefsSpec, ConfigSpec,
           AccessSpec, LiveSpec

(***************************************************************************)
(* The types of all records, rows, forms, requests and settings, which no  *)
(* handler leaves.                                                         *)
(***************************************************************************)
THEOREM RecordsTypes == RecordsSpec => []RecordsTypeOK
<1>1. /\ FieldInv /\ UniqueInv /\ RegistryInv /\ SeedInv
      /\ RefsInv /\ ConfigInv /\ AccessInv /\ LiveInv
      => RecordsTypeOK
    BY DEF FieldInv, RecordInv, UniqueInv, RegistryInv, SeedInv, RefsInv, ConfigInv,
       AccessInv, LiveInv, RecordsTypeOK
<1>2. UniqueSpec => []UniqueInv
    BY UniqueInitially, UniqueStep, PTL DEF UniqueSpec
<1>3. RegistrySpec => []RegistryInv
    BY RegistryInitially, RegistryStep, PTL DEF RegistrySpec
<1>4. SeedSpec => []SeedInv
    BY SeedInitially, SeedStep, PTL DEF SeedSpec
<1>5. RefsSpec => []RefsInv
    BY RefsInitially, RefsStep, PTL DEF RefsSpec
<1> QED
    BY <1>1, <1>2, <1>3, <1>4, <1>5, RecordsComponents, FieldInvariant, ConfigInvariant,
       AccessInvariant, LiveInvariant, PTL

(***************************************************************************)
(* All that is claimed of the records holds of them together: the trail    *)
(* and what follows a record, the unique rows, the seeded roles, the list  *)
(* of references, the fields that an editor left alone, the settings, the  *)
(* tables of rights and the live check.                                    *)
(***************************************************************************)
THEOREM RecordsKeep ==
    RecordsSpec =>
        /\ [](/\ TrailIsTrue /\ SideFollowsRecord /\ CreatedOnce /\ RolesAreSeeded
              /\ RefsAreAsListed /\ SignInIsSound /\ EndingIsTrue)
        /\ UneditedFieldStays /\ TablesAgree
    BY RecordsComponents, TrailTrue, SideFollows, RowsUnique, RolesSeeded, RefsListed,
       SignInSound, EndsTrue, FieldsStay, TablesAgreed, PTL
=============================================================================
