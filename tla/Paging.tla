-------------------------------- MODULE Paging --------------------------------
(***************************************************************************)
(* Reading a list page by page while it changes.  The registry, the audit  *)
(* log and NearSip's lists are read by offset, sorted by a column that may *)
(* have ties, the total being a query of its own; the vets of Pasunestam   *)
(* and the users of JeevaMitra by cursor, sorted by document name          *)
(* (applications.service.ts, auditLog.service.ts, the stores of the apps). *)
(***************************************************************************)
EXTENDS Naturals, FiniteSets, SequencesExt

CONSTANTS
    MaxItem,       \* rows are numbered in the order of their names
    PageSize

ASSUME PagingAssumption == MaxItem \in Nat /\ PageSize \in Nat \ {0}

Item == 1..MaxItem

VARIABLES
    rows,          \* rows of the table
    key,           \* key[i]: what row i is sorted by, under an offset (or i)
    reader,        \* see Reader
    seen, twice,   \* rows on the pages read so far, and on two of them
    through,       \* rows that have been there since the first page
    odd            \* history: what happened to the table meanwhile

pagingVars == <<rows, key, reader, seen, twice, through, odd>>

\* due: queries of this page that are not answered; page: the page number, or
\* how many were read by cursor; total: what the count said; after: the cursor.
Reader ==
    [by: {"offset", "cursor"}, due: SUBSET {"count", "rows"}, page: 1..(MaxItem + 1),
     total: 0..MaxItem, after: 0..MaxItem, more: BOOLEAN]

Starts(by) ==
    [by |-> by, due |-> IF by = "offset" THEN {"count", "rows"} ELSE {"rows"},
     page |-> 1, total |-> 0, after |-> 0, more |-> TRUE]

PagingInit ==
    /\ rows \in SUBSET Item
    /\ key \in [Item -> Item] /\ \A i \in Item \ rows : key[i] = i
    /\ \/ reader = Starts("offset")
       \/ reader = Starts("cursor") /\ \A i \in rows : key[i] = i
    /\ seen = {} /\ twice = {} /\ through = rows /\ odd = {}

Tied == \E i, j \in rows : i # j /\ key[i] = key[j]

\* The orders in which the database may return the table: it is free on ties.
Sorted == {s \in SetToSeqs(rows) : \A m, n \in 1..Len(s) : m < n => key[s[m]] <= key[s[n]]}

Slice(s, first) == {s[n] : n \in {n \in 1..Len(s) : first <= n /\ n < first + PageSize}}

Reads(items) ==
    /\ seen' = seen \cup items
    /\ twice' = twice \cup (seen \cap items)

CountPage ==
    /\ "count" \in reader.due
    /\ reader' = [reader EXCEPT !.due = reader.due \ {"count"}, !.total = Cardinality(rows)]
    /\ UNCHANGED <<rows, key, seen, twice, through, odd>>

\* Mutant: skip is one short.
SkipOneShort(s) == Slice(s, IF reader.page = 1 THEN 1 ELSE (reader.page - 1) * PageSize)

\* skip and take.
Skip(s) == Slice(s, (reader.page - 1) * PageSize + 1)

OffsetPage ==
    /\ reader.by = "offset" /\ "rows" \in reader.due
    /\ \E s \in Sorted : Reads(Skip(s))
    /\ reader' = [reader EXCEPT !.due = reader.due \ {"rows"}]
    /\ odd' = IF Tied THEN odd \cup {"tied"} ELSE odd
    /\ UNCHANGED <<rows, key, through>>

\* startAfter(cursor); the first page has none.
After(i) == i > reader.after

(* listVets, listUsers: one document more than the page says whether there *)
(* is another page, whose cursor is the last document of this one.         *)
CursorPage ==
    /\ reader.by = "cursor" /\ "rows" \in reader.due
    /\ LET rest == {i \in rows : After(i)}
           items == {i \in rest : Cardinality({j \in rest : j < i}) < PageSize}
       IN
       /\ Reads(items)
       /\ reader' = [reader EXCEPT
              !.due = {}, !.more = rest # items,
              !.after = IF items = {} THEN 0 ELSE CHOOSE i \in items : \A j \in items : j <= i]
    /\ UNCHANGED <<rows, key, through, odd>>

\* totalPages, nextCursor.
LastPage ==
    IF reader.by = "offset" THEN reader.page * PageSize >= reader.total ELSE ~reader.more

NextPage ==
    /\ reader.due = {} /\ ~LastPage
    /\ reader' = [reader EXCEPT !.due = Starts(reader.by).due, !.page = reader.page + 1]
    /\ UNCHANGED <<rows, key, seen, twice, through, odd>>

ReadAgain ==
    /\ reader.due = {} /\ LastPage
    /\ reader' = Starts(reader.by)
    /\ seen' = {} /\ twice' = {} /\ through' = rows /\ odd' = {}
    /\ UNCHANGED <<rows, key>>

\* Between the two queries of a page.
Split == IF reader.by = "offset" /\ reader.due \in {{"count"}, {"rows"}} THEN {"split"} ELSE {}

Insert(i, k) ==
    /\ i \notin rows /\ (reader.by = "offset" \/ k = i)
    /\ rows' = rows \cup {i} /\ key' = [key EXCEPT ![i] = k]
    /\ odd' = odd \cup {"inserted"} \cup Split
    /\ UNCHANGED <<reader, seen, twice, through>>

\* The audit log, for one, has none of these.
Delete(i) ==
    /\ i \in rows
    /\ rows' = rows \ {i} /\ through' = through \ {i}
    /\ key' = [key EXCEPT ![i] = i]
    /\ odd' = odd \cup {"deleted"} \cup Split
    /\ UNCHANGED <<reader, seen, twice>>

Rekey(i, k) ==
    /\ i \in rows /\ key[i] # k /\ reader.by = "offset"
    /\ key' = [key EXCEPT ![i] = k]
    /\ odd' = odd \cup {"moved"}
    /\ UNCHANGED <<rows, reader, seen, twice, through>>

PagingNext ==
    \/ CountPage \/ OffsetPage \/ CursorPage \/ NextPage \/ ReadAgain
    \/ \E i, k \in Item : Insert(i, k) \/ Rekey(i, k)
    \/ \E i \in Item : Delete(i)

PagingSpec == PagingInit /\ [][PagingNext]_pagingVars
-----------------------------------------------------------------------------
(* Properties *)

\* Every variable has its type; in particular there is an end to the pages.
PagingTypeOK ==
    /\ rows \in SUBSET Item /\ key \in [Item -> Item] /\ reader \in Reader
    /\ seen \in SUBSET Item /\ twice \in SUBSET seen /\ through \in SUBSET rows
    /\ odd \in SUBSET {"inserted", "deleted", "moved", "split", "tied"}

AllRead == reader.due = {} /\ LastPage

MayMiss == reader.by = "offset" /\ odd \cap {"deleted", "moved", "split", "tied"} # {}

MayRepeat == reader.by = "offset" /\ odd \cap {"inserted", "moved", "tied"} # {}

(***************************************************************************)
(* Whoever turns all pages has seen every row that was there all the time, *)
(* by cursor always; by offset unless a row was deleted, changed its place *)
(* or tied with another, or the table changed between the two queries of a *)
(* page.  The audit log, to which rows are only added, is then complete.   *)
(* No row is on two pages, by cursor ever; by offset unless a row was      *)
(* added, changed its place or tied with another.                          *)
(***************************************************************************)
PagesAreExact ==
    /\ AllRead => MayMiss \/ through \subseteq seen
    /\ MayRepeat \/ twice = {}
=============================================================================
