----------------------------- MODULE ListQuery -----------------------------
(***************************************************************************)
(* The generic list endpoint and its writes (core/repository/base.go,      *)
(* handler/crud.go): a reader walks the pages of one list request while    *)
(* rows are inserted, updated and deleted.  A page is read in one          *)
(* statement and counted in another, with no transaction around them.      *)
(***************************************************************************)
EXTENDS QueryParse

CONSTANTS
  Users,
  Ids,       \* primary keys, ordered like numbers
  Content,   \* what is inserted under an id
  Amounts,   \* what an update may set an amount to
  Requests   \* the list requests that are made

Row == [id : Ids, owner : Users, amount : Amounts, at : Nat, note : STRING \union {None},
        merchant : STRING \union {None}, deleted : BOOLEAN]

ASSUME ListQueryAssumption ==
  /\ Ids \subseteq Nat /\ IsFiniteSet(Ids) /\ Amounts \subseteq Int
  /\ Content \in [Ids -> Row] /\ None \notin Row
  /\ \A i \in Ids : Content[i].id = i
  /\ Cardinality(Ids) <= MaxInt
  /\ \A q \in Requests : IsRequest(q)

\* What parseSort keeps: a fold, of which nothing can be proved by induction here.
ASSUME SortsAssumption ==
  \A q \in Requests : parseSort(q.sort).out \in Seq(SortKeys)

VARIABLES
  table,  \* the rows
  list    \* the walk through the pages of a request

vars == <<table, list>>

NoList == [phase |-> "idle"]

Init == table = [i \in Ids |-> None] /\ list = NoList

-----------------------------------------------------------------------------

(* Get, Exists and the WHERE of the writes: somebody else's row and a      *)
(* deleted one are not found.                                              *)
Mine(u, i) == table[i] # None /\ Scoped(u, table[i])

Rows == {i \in Ids : table[i] # None}
Matching(u, o) == {i \in Rows : Where(u, o, table[i])}

\* The orders ORDER BY allows; ties come in any order.
Orders(u, o) ==
  {s \in Injection(1..Cardinality(Matching(u, o)), Matching(u, o)) :
     \A a, b \in DOMAIN s : a < b => ~Precedes(o, table[s[b]], table[s[a]])}

\* A negative offset is left out of the statement.
PageOf(s, o) ==
  LET off == Offset(o.page, o.limit)
      skip == Max({0, off})
  IN [k \in 1..Min({o.limit, Max({0, Len(s) - skip})}) |-> s[skip + k]]

\* A page that is written is not quiet any more.
Disturbed == IF "quiet" \in DOMAIN list THEN [list EXCEPT !.quiet = FALSE] ELSE list
Wrote(i, row) == table' = [table EXCEPT ![i] = row] /\ list' = Disturbed

Insert(i) == table[i] = None /\ Wrote(i, Content[i])

Update(u, i, a) == Mine(u, i) /\ Wrote(i, [table[i] EXCEPT !.amount = a])

Delete(u, i) == Mine(u, i) /\ Wrote(i, [table[i] EXCEPT !.deleted = TRUE])

DeleteMany(u, I) ==
  /\ table' = [i \in Ids |-> IF i \in I /\ Mine(u, i) THEN [table[i] EXCEPT !.deleted = TRUE]
                             ELSE table[i]]
  /\ list' = IF table' = table THEN list ELSE Disturbed

\* Mutant: any page that is not full is taken for the whole result.
ShortPage(o, n) == n < o.limit

\* A first page that is not full is the whole result.
WholeResult(o, n) == o.page = 1 /\ n < o.limit

(* NewMeta: an unknown total is -1, and has no pages.                      *)
TotalPages(total, limit) == IF total > 0 THEN (total + limit - 1) \div limit ELSE 0

Answered(l, items, total) ==
  list' = [l EXCEPT !.phase = "answered", !.items = items, !.total = total,
                    !.hasNext = l.o.page < TotalPages(total, l.o.limit)]

(* The handler parses the request, or refuses it.                          *)
Ask(u, q) ==
  /\ list.phase = "idle" /\ ~Invalid(q)
  /\ list' = [phase |-> "asked", user |-> u, o |-> ParseValues(q), first |-> Given(q.page, 1),
              items |-> <<>>, total |-> 0, hasNext |-> FALSE, seen |-> <<>>, quiet |-> TRUE]
  /\ UNCHANGED table

Refuse(q) == list.phase = "idle" /\ Invalid(q) /\ list' = [phase |-> "refused"] /\ UNCHANGED table

Select ==
  /\ list.phase = "asked"
  /\ \E s \in Orders(list.user, list.o) :
       LET items == PageOf(s, list.o) IN
       IF ~list.o.withTotal THEN Answered(list, items, -1)
       ELSE IF WholeResult(list.o, Len(items)) THEN Answered(list, items, Len(items))
       ELSE list' = [list EXCEPT !.phase = "counting", !.items = items]
  /\ UNCHANGED table

Count ==
  /\ list.phase = "counting"
  /\ Answered(list, list.items, Cardinality(Matching(list.user, list.o)))
  /\ UNCHANGED table

NextPage ==
  /\ list.phase = "answered" /\ list.hasNext
  /\ list' = [list EXCEPT !.phase = "asked", !.o.page = @ + 1, !.seen = @ \o list.items,
                          !.items = <<>>, !.total = 0, !.hasNext = FALSE]
  /\ UNCHANGED table

Leave == list.phase \in {"answered", "refused"} /\ list' = NoList /\ UNCHANGED table

Next ==
  \/ \E u \in Users, i \in Ids :
       Insert(i) \/ Delete(u, i) \/ \E a \in Amounts : Update(u, i, a)
  \/ \E u \in Users, I \in SUBSET Ids : Cardinality(I) = 2 /\ DeleteMany(u, I)
  \/ \E q \in Requests : Refuse(q) \/ \E u \in Users : Ask(u, q)
  \/ Select \/ Count \/ NextPage \/ Leave

Spec == Init /\ [][Next]_vars
-----------------------------------------------------------------------------
(* Properties.                                                             *)

(* The type invariant.                                                     *)
TypeOK ==
  /\ table \in [Ids -> Row \union {None}]
  /\ list.phase \in {"idle", "refused", "asked", "counting", "answered"}
  /\ list.phase \notin {"idle", "refused"} =>
       /\ list.user \in Users /\ list.o.limit \in 1..MaxLimit /\ list.o.page \in Nat \ {0}
       /\ Range(list.items) \union Range(list.seen) \subseteq Ids
       /\ list.total \in Nat \union {-1} /\ {list.hasNext, list.quiet} \subseteq BOOLEAN

Reading == list.phase \in {"counting", "answered"}

(* Whatever is searched and filtered, a reader sees rows of its own only,  *)
(* and what it is told keeps its type.                                     *)
OwnRowsOnly ==
  /\ TypeOK
  /\ Reading => \A k \in DOMAIN list.items : table[list.items[k]].owner = list.user

UniqueSort(o) == \E k \in DOMAIN o.sorts : o.sorts[k].field = "id"

(* Pages add up: with nothing written meanwhile and a sort that has no     *)
(* ties, walking to the last page shows every matching row once, in order. *)
WalkComplete ==
  LET walk == list.seen \o list.items IN
  list.phase = "answered" /\ list.quiet /\ list.total # -1 /\ ~list.hasNext
    /\ list.first = 1 /\ UniqueSort(list.o)
  => walk \in Orders(list.user, list.o)

(* The total is that of the whole result, on every page and however it was *)
(* found, unless something was written between page and count.             *)
TotalHonest ==
  list.phase = "answered" /\ list.quiet /\ list.total # -1
    => list.total = Cardinality(Matching(list.user, list.o))

Complement(f) ==
  CASE f.op = "eq" -> {[f EXCEPT !.op = "ne"]} [] f.op = "ne" -> {[f EXCEPT !.op = "eq"]}
    [] f.op = "in" -> {[f EXCEPT !.op = "nin"]} [] f.op = "nin" -> {[f EXCEPT !.op = "in"]}
    [] f.op = "gt" /\ f.field = "amount" -> {[f EXCEPT !.op = "lte"]}
    [] f.op = "null" -> {[f EXCEPT !.values = <<~f.values[1]>>]}
    [] OTHER -> {}

(* "A user filtering not paid": a filter and its opposite share the rows   *)
(* between them, and a NULL falls under one of them.                       *)
OppositesSplit ==
  list.phase = "asked" =>
    \A f \in list.o.filters : \A g \in Complement(f) : \A i \in Rows :
      Holds(f, table[i][f.field]) # Holds(g, table[i][f.field])

(* "Includes everything spent on the 31st": a range of dates, or between   *)
(* two of them, is a range of whole days.                                  *)
WholeDays(q) ==
  LET o == ParseValues(q)
      during(d, i) == d[1].day <= DayOf(table[i].at) /\ DayOf(table[i].at) <= d[2].day
  IN /\ None \notin {q.from, q.to} /\ ~q.from.timed /\ ~q.to.timed =>
          \A i \in Rows : during(<<q.from, q.to>>, i)
                            <=> (table[i].at >= o.from /\ table[i].at <= o.to)
     /\ \A f \in q.filters :
          f.field = "at" /\ f.op = "between" /\ ~f.raw[1].timed /\ ~f.raw[2].timed =>
            \A i \in Rows : during(f.raw, i) <=> Holds(buildFilter(f), table[i].at)

RangesCoverDays == list.phase = "idle" => \A q \in Requests : ~Invalid(q) => WholeDays(q)
=============================================================================
