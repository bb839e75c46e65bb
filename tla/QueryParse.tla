----------------------------- MODULE QueryParse -----------------------------
(***************************************************************************)
(* From the parameters of a list request to the condition its rows meet    *)
(* (core/query, core/money): page, limit, search, sort, the date range and *)
(* the filters field[op]=value, checked against a schema.                  *)
(*                                                                         *)
(* Texts are abstracted to what parsing tells apart: an amount is its sign,*)
(* its whole part and its decimals, a date its day and its time of day if  *)
(* it has one, a word stands for itself; Bad is any text that is neither,  *)
(* or is too long.                                                         *)
(***************************************************************************)
EXTENDS Integers, Sequences, FiniteSets, SequencesExt

CONSTANTS
  None,          \* an absent parameter; NULL
  Bad,           \* a text that cannot be parsed
  DefaultLimit,  \* Schema.DefaultLimit
  MaxLimit,      \* Schema.MaxLimit
  MaxFilters,    \* Schema.MaxFilters
  MaxInt         \* the largest integer (int64)

ASSUME QueryParseAssumption ==
  /\ {DefaultLimit, MaxLimit, MaxFilters, MaxInt} \subseteq Nat \ {0}
  /\ DefaultLimit <= MaxLimit
  /\ None # Bad /\ None \notin Int \union STRING
  /\ None \notin {"null", "between"}  \* literals are not STRING to every prover

\* Integers wrap around.
Wrap(n) == ((n + MaxInt + 1) % (2 * (MaxInt + 1))) - (MaxInt + 1)

-----------------------------------------------------------------------------
(* A schema in the manner of the test schema: a column of each type that   *)
(* parsing tells apart, a timestamp where that has a date, and a second    *)
(* column to search.                                                       *)

Column(type, filter, sort, search, nullable) ==
  [type |-> type, filter |-> filter, sort |-> sort, search |-> search, nullable |-> nullable]

Columns ==
  [f \in {"id", "amount", "at", "note", "merchant"} |->
     CASE f = "id" -> Column("uuid", TRUE, TRUE, FALSE, FALSE)
       [] f = "amount" -> Column("money", TRUE, TRUE, FALSE, FALSE)
       [] f = "at" -> Column("time", TRUE, TRUE, FALSE, FALSE)
       [] f = "note" -> Column("string", TRUE, FALSE, TRUE, TRUE)
       [] f = "merchant" -> Column("string", FALSE, FALSE, TRUE, TRUE)]

SearchFields == {f \in DOMAIN Columns : Columns[f].search}
DefaultSort == <<[field |-> "at", desc |-> TRUE], [field |-> "id", desc |-> TRUE]>>

defaultOp(col) == IF col.type = "string" THEN "contains" ELSE "eq"

allowedOps(col) ==
  {"eq", "ne", "in", "nin"}
    \union (IF col.type = "string" THEN {"contains", "starts", "ends", "like"} ELSE {})
    \union (IF col.type \in {"money", "time"} THEN {"gt", "gte", "lt", "lte", "between"} ELSE {})
    \union (IF col.nullable THEN {"null"} ELSE {})
-----------------------------------------------------------------------------
(* Values.                                                                 *)

\* money.Parse: the third decimal rounds half away from zero.
Decimals(frac) ==
  CASE Len(frac) = 0 -> 0
    [] Len(frac) = 1 -> 10 * frac[1]
    [] Len(frac) = 2 -> 10 * frac[1] + frac[2]
    [] Len(frac) > 2 -> 10 * frac[1] + frac[2] + (IF frac[3] >= 5 THEN 1 ELSE 0)

ParseAmount(t) ==
  LET total == t.whole * 100 + Decimals(t.frac)
  IN Wrap(IF t.neg THEN -total ELSE total)

\* A day has three instants: midnight, a time of day, and its last one.
Instant(day, n) == 3 * day + n
DayOf(instant) == instant \div 3

\* Mutant: a date without a time is its midnight, also as an upper bound.
parseDateMidnight(t, endOfDay) == Instant(t.day, IF t.timed THEN 1 ELSE 0)

\* With endOfDay, a date without a time is the last instant of its day.
parseDate(t, endOfDay) ==
  Instant(t.day, IF t.timed THEN 1 ELSE IF endOfDay THEN 2 ELSE 0)

\* What can be written for a value of a column.
AmountText == [neg : BOOLEAN, whole : Nat, frac : Seq(0..9)]
DateText == [day : Nat, timed : BOOLEAN]
Text(col) == {Bad} \union (CASE col.type = "money" -> AmountText
                             [] col.type = "time" -> DateText
                             [] OTHER -> STRING)

coerceBound(col, raw, endOfDay) ==
  CASE col.type = "money" -> ParseAmount(raw)
    [] col.type = "time" -> parseDate(raw, endOfDay)
    [] OTHER -> raw

buildFilter(f) ==
  LET col == Columns[f.field]
      op == IF f.op = None THEN defaultOp(col) ELSE f.op
      upper(i) == \/ op = "between" /\ i = 2
                  \/ op \in {"lt", "lte"} /\ col.type = "time"
  IN [field |-> f.field, op |-> op,
      values |-> IF op = "null" THEN f.raw
                 ELSE [i \in DOMAIN f.raw |-> coerceBound(col, f.raw[i], upper(i))]]

FilterError(f) ==
  \/ f.field \notin DOMAIN Columns
  \/ ~Columns[f.field].filter
  \/ f.op # None /\ f.op \notin allowedOps(Columns[f.field])
  \/ f.raw = <<>> \/ (f.op = "between" /\ Len(f.raw) # 2)
  \/ (f.op \in {"in", "nin"} /\ Len(f.raw) > 100)
  \/ \E i \in DOMAIN f.raw : f.raw[i] = Bad
-----------------------------------------------------------------------------
(* ParseValues.                                                            *)

\* A request: numbers, dates and values as they are written.
IsRequest(q) ==
  /\ {q.page, q.limit} \subseteq Int \union {None}
  /\ {q.from, q.to} \subseteq DateText \union {None, Bad}
  /\ \A f \in q.filters :
       f.field \in DOMAIN Columns =>
         f.raw \in Seq(IF f.op = "null" THEN BOOLEAN ELSE Text(Columns[f.field]))

SortError(s) == s.field \notin DOMAIN Columns \/ ~Columns[s.field].sort

SortKeys == [field : {f \in DOMAIN Columns : Columns[f].sort}, desc : BOOLEAN]

(* Fields seen before are passed over, and after four the rest.            *)
parseSort(sort) ==
  FoldLeft(LAMBDA acc, s :
             IF Len(acc.out) >= 4 THEN acc
             ELSE IF SortError(s) THEN [acc EXCEPT !.bad = TRUE]
             ELSE IF \E i \in DOMAIN acc.out : acc.out[i].field = s.field THEN acc
             ELSE [acc EXCEPT !.out = Append(@, s)],
           [out |-> <<>>, bad |-> FALSE], sort)

Given(x, default) == IF x = None THEN default ELSE x

DateFrom(q) == IF q.from = None THEN None ELSE parseDate(q.from, FALSE)
DateTo(q) == IF q.to = None THEN None ELSE parseDate(q.to, TRUE)

LimitError(n) == n \notin 1..MaxLimit

\* The parameters at fault; one is enough for a 422.  A search is never: the
\* schema has columns to search, and no least length.
FieldErrors(q) ==
  {f \in {"page", "limit", "sort", "date_from", "date_to"} :
     CASE f = "page" -> Given(q.page, 1) < 1
       [] f = "limit" -> LimitError(Given(q.limit, DefaultLimit))
       [] f = "sort" -> parseSort(q.sort).bad
       [] f = "date_from" -> q.from = Bad
       [] f = "date_to" ->
            \/ q.to = Bad
            \/ {q.from, q.to} \intersect {None, Bad} = {} /\ DateTo(q) < DateFrom(q)}
  \union {f.field : f \in {g \in q.filters : FilterError(g)}}
  \union (IF Cardinality(q.filters) > MaxFilters THEN {"filters"} ELSE {})

Invalid(q) == FieldErrors(q) # {}

\* Mutant: pages are counted from zero.
OffsetFromZero(page, limit) == Wrap(page * limit)

Offset(page, limit) == Wrap((page - 1) * limit)

ParseValues(q) ==
  [page |-> Given(q.page, 1),
   limit |-> Given(q.limit, DefaultLimit),
   search |-> q.search,
   sorts |-> IF parseSort(q.sort).out = <<>> THEN DefaultSort ELSE parseSort(q.sort).out,
   from |-> DateFrom(q), to |-> DateTo(q),
   filters |-> {buildFilter(f) : f \in q.filters},
   withTotal |-> q.withTotal]
-----------------------------------------------------------------------------
(* Conditions: Filter.SQL and ApplyFilters.                                *)

\* Mutant: a plain <>, which is not true of NULL.
NotEqual(v, x) == v # None /\ v # x

\* IS DISTINCT FROM.
Distinct(v, x) == v # x

(* A filter on the value v of its column.  A comparison with NULL is not   *)
(* true; one text contains another when it is the same word.               *)
Holds(f, v) ==
  LET x == f.values IN
  CASE f.op = "ne" -> Distinct(v, x[1])
    [] f.op = "nin" -> v = None \/ v \notin ToSet(x)
    [] f.op = "null" -> x[1] = (v = None)
    [] OTHER -> v # None /\
         CASE f.op = "gt" -> v > x[1]
           [] f.op = "gte" -> v >= x[1]
           [] f.op = "lt" -> v < x[1]
           [] f.op = "lte" -> v <= x[1]
           [] f.op = "between" -> x[1] <= v /\ v <= x[2]
           [] f.op = "in" -> v \in ToSet(x)
           [] OTHER -> v = x[1]

Found(o, row) == o.search = None \/ \E f \in SearchFields : row[f] = o.search

(* Before the search: the caller's rows, soft delete.  After it: the date  *)
(* range and the filters.                                                  *)
Scoped(u, row) == row.owner = u /\ ~row.deleted
Filtered(o, row) ==
  /\ (o.from = None \/ row.at >= o.from) /\ (o.to = None \/ row.at <= o.to)
  /\ \A f \in o.filters : Holds(f, row[f.field])

\* Mutant: conditions are joined by AND without parentheses, and search is an OR.
WhereUnparenthesised(u, o, row) ==
  IF o.search = None THEN Scoped(u, row) /\ Filtered(o, row)
  ELSE \/ Scoped(u, row) /\ row.merchant = o.search
       \/ row.note = o.search /\ Filtered(o, row)

\* Every condition is parenthesised, so search cannot undo the scope.
Where(u, o, row) == Scoped(u, row) /\ Found(o, row) /\ Filtered(o, row)

\* ApplySort: row a comes before row b.  No column to sort by is nullable, so
\* NULLS LAST has no part in it.
Precedes(o, a, b) ==
  \E k \in DOMAIN o.sorts :
    LET s == o.sorts[k] IN
    /\ IF s.desc THEN a[s.field] > b[s.field] ELSE a[s.field] < b[s.field]
    /\ \A m \in 1..(k - 1) : a[o.sorts[m].field] = b[o.sorts[m].field]
=============================================================================
