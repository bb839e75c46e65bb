--------------------------- MODULE ListQueryProofs ---------------------------
(***************************************************************************)
(* Theorems about list queries, for every set of rows, users and requests, *)
(* and every page size.                                                    *)
(*                                                                         *)
(* ListInv is inductive: the rows of a page are the reader's own, and the  *)
(* total is that of the table as long as nothing is written.  WalkInv adds *)
(* what makes pages add up: a sort that contains the key has one order     *)
(* only (OneOrder), what has been seen is its first pages, and a page that *)
(* has a next one is full (FullPage).                                      *)
(***************************************************************************)
EXTENDS ListQuery, FiniteSetTheorems, TLAPS

-----------------------------------------------------------------------------
(* Numbers.                                                                *)

LEMMA MaxOfTwo ==
  ASSUME NEW a \in Int, NEW b \in Int
  PROVE  Max({a, b}) = IF a >= b THEN a ELSE b
<1>1. PICK m \in {a, b} : \A y \in {a, b} : m >= y
  <2>1. CASE a >= b
    BY <2>1
  <2>2. CASE ~(a >= b)
    <3>1. b >= a
      BY <2>2
    <3> QED
      BY <3>1
  <2> QED
    BY <2>1, <2>2
<1>2. Max({a, b}) \in {a, b} /\ \A y \in {a, b} : Max({a, b}) >= y
  BY <1>1 DEF Max
<1> QED
  BY <1>2

LEMMA MinOfTwo ==
  ASSUME NEW a \in Int, NEW b \in Int
  PROVE  Min({a, b}) = IF a <= b THEN a ELSE b
<1>1. PICK m \in {a, b} : \A y \in {a, b} : m <= y
  <2>1. CASE a <= b
    BY <2>1
  <2>2. CASE ~(a <= b)
    <3>1. b <= a
      BY <2>2
    <3> QED
      BY <3>1
  <2> QED
    BY <2>1, <2>2
<1>2. Min({a, b}) \in {a, b} /\ \A y \in {a, b} : Min({a, b}) <= y
  BY <1>1 DEF Min
<1> QED
  BY <1>2

LEMMA IntegersWrap ==
  /\ \A n \in Int : Wrap(n) \in Int
  /\ Wrap(0) = 0
<1>1. MaxInt \in Nat \ {0}
  BY QueryParseAssumption
<1>2. PICK m \in Nat \ {0} : m = MaxInt + 1
  BY <1>1
<1>3. \A n \in Int : n % (2 * m) \in Int
  BY <1>2
<1>4. m % (2 * m) = m
  BY <1>2
<1> QED
  BY <1>1, <1>2, <1>3, <1>4 DEF Wrap

-----------------------------------------------------------------------------
(* Requests.                                                               *)

Valid == {q \in Requests : ~Invalid(q)}

LEMMA NumbersOfARequest ==
  ASSUME NEW q \in Valid
  PROVE  Given(q.page, 1) \in Nat \ {0} /\ Given(q.limit, DefaultLimit) \in 1..MaxLimit
<1>1. FieldErrors(q) = {}
  BY DEF Valid, Invalid
<1>2. ~(Given(q.page, 1) < 1)
  BY <1>1 DEF FieldErrors
<1>3. ~LimitError(Given(q.limit, DefaultLimit))
  BY <1>1 DEF FieldErrors
<1>4. Given(q.page, 1) \in Int
  BY ListQueryAssumption DEF Valid, IsRequest, Given
<1> QED
  BY <1>2, <1>3, <1>4 DEF LimitError

\* What is asked for on the way through the pages of a request.
Asked == {[ParseValues(q) EXCEPT !.page = n] : q \in Valid, n \in Nat \ {0}}

LEMMA AskedIs ==
  ASSUME NEW o \in Asked
  PROVE  /\ o.page \in Nat \ {0} /\ o.limit \in 1..MaxLimit
         /\ [o EXCEPT !.page = @ + 1] \in Asked
         /\ \E q \in Valid : o.filters = {buildFilter(f) : f \in q.filters}
<1>1. PICK q \in Valid, n \in Nat \ {0} : o = [ParseValues(q) EXCEPT !.page = n]
  BY DEF Asked
<1>2. o.page = n /\ o.limit = Given(q.limit, DefaultLimit)
        /\ o.filters = {buildFilter(f) : f \in q.filters}
  BY <1>1 DEF ParseValues
<1>3. [o EXCEPT !.page = @ + 1] = [ParseValues(q) EXCEPT !.page = n + 1]
  BY <1>1 DEF ParseValues
<1>4. n + 1 \in Nat \ {0}
  OBVIOUS
<1> QED
  BY <1>2, <1>3, <1>4, NumbersOfARequest DEF Asked

LEMMA ParsedIsAsked ==
  ASSUME NEW q \in Valid
  PROVE  ParseValues(q) \in Asked
<1>1. ParseValues(q) = [ParseValues(q) EXCEPT !.page = Given(q.page, 1)]
  BY DEF ParseValues
<1> QED
  BY <1>1, NumbersOfARequest DEF Asked

-----------------------------------------------------------------------------
(* Pages.                                                                  *)

LEMMA MatchingIsFinite ==
  ASSUME NEW u, NEW o
  PROVE  /\ Matching(u, o) \subseteq Ids
         /\ Cardinality(Matching(u, o)) \in Nat
<1>1. Matching(u, o) \subseteq Ids
  BY DEF Matching, Rows
<1>2. IsFiniteSet(Matching(u, o))
  BY <1>1, ListQueryAssumption, FS_Subset
<1> QED
  BY <1>1, <1>2, FS_CardinalityType

(* A page is made of matching rows, and one that is taken for the whole    *)
(* result has them all.                                                    *)
LEMMA PageIs ==
  ASSUME NEW u, NEW o \in Asked, NEW s \in Orders(u, o)
  PROVE  /\ PageOf(s, o) \in Seq(Matching(u, o))
         /\ WholeResult(o, Len(PageOf(s, o))) =>
              Len(PageOf(s, o)) = Cardinality(Matching(u, o))
<1> DEFINE M == Matching(u, o)
           N == Cardinality(M)
           off == Wrap((o.page - 1) * o.limit)
           skip == Max({0, off})
           rest == Max({0, N - skip})
           size == Min({o.limit, rest})
           page == [k \in 1..size |-> s[skip + k]]
<1>1. N \in Nat
  BY MatchingIsFinite
<1>2. o.page \in Nat \ {0} /\ o.limit \in Nat \ {0}
  <2> HIDE DEF M, N, off, skip, rest, size, page
  <2>1. MaxLimit \in Nat
    BY QueryParseAssumption
  <2>2. o.page \in Nat \ {0} /\ o.limit \in 1..MaxLimit
    BY AskedIs
  <2> QED
    BY <2>1, <2>2
<1>3. s \in [1..N -> M]
  BY DEF Orders, Injection
<1>4. Len(s) = N
  BY <1>1, <1>3
<1>5. (o.page - 1) * o.limit \in Int /\ (o.page = 1 => (o.page - 1) * o.limit = 0)
  BY <1>2
<1>6. off \in Int /\ (o.page = 1 => off = 0)
  BY <1>5, IntegersWrap
<1>7. PageOf(s, o) = page
  BY <1>4 DEF PageOf, Offset
<1>8. skip = IF 0 >= off THEN 0 ELSE off
  BY <1>6, MaxOfTwo
<1>9. skip \in Nat /\ (o.page = 1 => skip = 0)
  BY <1>6, <1>8
<1>10. rest = IF 0 >= N - skip THEN 0 ELSE N - skip
  <2> HIDE DEF N, skip
  <2>1. 0 \in Int /\ N - skip \in Int
    BY <1>1, <1>9
  <2> QED
    BY <2>1, MaxOfTwo
<1>11. rest \in Nat /\ (o.page = 1 => rest = N) /\ (rest > 0 => rest = N - skip)
  BY <1>1, <1>9, <1>10
<1>12. size = IF o.limit <= rest THEN o.limit ELSE rest
  <2> HIDE DEF rest
  <2> QED
    BY <1>2, <1>11, MinOfTwo
<1>13. size \in Nat /\ size <= rest /\ (o.page = 1 /\ size < o.limit => size = N)
  BY <1>2, <1>11, <1>12
<1> HIDE DEF off, skip, rest, size, N, M
<1>14. \A k \in 1..size : skip + k \in 1..N
  BY <1>1, <1>9, <1>11, <1>13
<1>15. page \in [1..size -> M]
  BY <1>3, <1>14
<1>16. page \in Seq(M) /\ Len(page) = size
  BY <1>13, <1>15
<1> QED
  BY <1>7, <1>13, <1>16 DEF WholeResult, M, N

-----------------------------------------------------------------------------
(* The invariant.                                                          *)

Walks ==
  [phase : {"asked", "counting", "answered"}, user : Users, o : Asked, first : Int,
   items : Seq(Ids), total : Nat \union {-1}, hasNext : BOOLEAN, seen : Seq(Ids),
   quiet : BOOLEAN]

Refused == [phase |-> "refused"]

Typed ==
  /\ table \in [Ids -> Row \union {None}]
  /\ list = NoList \/ list = Refused \/ list \in Walks

RowsAreOwn ==
  Reading => \A k \in DOMAIN list.items :
               table[list.items[k]] # None /\ table[list.items[k]].owner = list.user

ListInv == Typed /\ RowsAreOwn /\ TotalHonest

\* What a write leaves of the rows: they stay, and with their owners.
OwnersStay ==
  /\ table' \in [Ids -> Row \union {None}]
  /\ \A i \in Ids : table[i] # None => table'[i] # None /\ table'[i].owner = table[i].owner

(* Whatever is written to a row, it stays its owner's.                     *)
LEMMA RowsChanged ==
  ASSUME NEW row \in Row, NEW a \in Amounts
  PROVE  /\ [row EXCEPT !.amount = a] \in Row /\ [row EXCEPT !.amount = a].owner = row.owner
         /\ [row EXCEPT !.deleted = TRUE] \in Row
         /\ [row EXCEPT !.deleted = TRUE].owner = row.owner
  BY DEF Row

(* A write that keeps the owners keeps the invariant.                      *)
LEMMA WriteKeepsInv ==
  ASSUME ListInv, OwnersStay,
         list' = Disturbed \/ (table' = table /\ list' = list)
  PROVE  ListInv'
<1>1. CASE table' = table /\ list' = list
  BY <1>1 DEF ListInv, Typed, RowsAreOwn, TotalHonest, Reading, Matching, Rows
<1>2. CASE list' = Disturbed /\ list \in Walks
  <2>1. list' = [list EXCEPT !.quiet = FALSE]
    BY <1>2 DEF Disturbed, Walks
  <2>2. list' \in Walks /\ ~list'.quiet /\ list'.phase = list.phase
          /\ list'.items = list.items /\ list'.user = list.user
    BY <1>2, <2>1 DEF Walks
  <2>3. Typed'
    BY <2>2 DEF Typed, OwnersStay
  <2>4. RowsAreOwn'
    <3> SUFFICES ASSUME Reading, NEW k \in DOMAIN list.items
                 PROVE  table'[list.items[k]] # None
                          /\ table'[list.items[k]].owner = list.user
      BY <2>2 DEF RowsAreOwn, Reading
    <3>1. list.items[k] \in Ids
      BY <1>2 DEF Walks
    <3>2. table[list.items[k]] # None /\ table[list.items[k]].owner = list.user
      BY DEF ListInv, RowsAreOwn
    <3> QED
      BY <3>1, <3>2 DEF OwnersStay
  <2> QED
    BY <2>2, <2>3, <2>4 DEF ListInv, TotalHonest
<1>3. CASE list' = Disturbed /\ list \in {NoList, Refused}
  <2>1. list' = list
    BY <1>3 DEF Disturbed, NoList, Refused
  <2>2. list.phase \in {"idle", "refused"}
    BY <1>3 DEF NoList, Refused
  <2> QED
    BY <1>3, <2>1, <2>2 DEF ListInv, Typed, OwnersStay, RowsAreOwn, Reading, TotalHonest
<1> QED
  BY <1>1, <1>2, <1>3 DEF ListInv, Typed

LEMMA InsertKeepsInv ==
  ASSUME ListInv, NEW i \in Ids, Insert(i)
  PROVE  ListInv'
<1>1. OwnersStay
  BY ListQueryAssumption DEF ListInv, Typed, OwnersStay, Insert, Wrote
<1> QED
  BY <1>1, WriteKeepsInv DEF Insert, Wrote

LEMMA UpdateKeepsInv ==
  ASSUME ListInv, NEW u \in Users, NEW i \in Ids, NEW a \in Amounts, Update(u, i, a)
  PROVE  ListInv'
<1>1. table[i] \in Row
  BY DEF ListInv, Typed, Update, Mine
<1>2. OwnersStay
  BY <1>1, RowsChanged, ListQueryAssumption DEF ListInv, Typed, OwnersStay, Update, Wrote
<1> QED
  BY <1>2, WriteKeepsInv DEF Update, Wrote

LEMMA DeleteKeepsInv ==
  ASSUME ListInv, NEW u \in Users, NEW i \in Ids, Delete(u, i)
  PROVE  ListInv'
<1>1. table[i] \in Row
  BY DEF ListInv, Typed, Delete, Mine
<1>2. [table[i] EXCEPT !.deleted = TRUE] \in Row
        /\ [table[i] EXCEPT !.deleted = TRUE].owner = table[i].owner
  BY <1>1 DEF Row
<1>3. OwnersStay
  BY <1>1, <1>2, ListQueryAssumption DEF ListInv, Typed, OwnersStay, Delete, Wrote
<1> QED
  BY <1>3, WriteKeepsInv DEF Delete, Wrote

LEMMA DeleteManyKeepsInv ==
  ASSUME ListInv, NEW u \in Users, NEW I \in SUBSET Ids, DeleteMany(u, I)
  PROVE  ListInv'
<1>1. \A i \in Ids : Mine(u, i) =>
         /\ [table[i] EXCEPT !.deleted = TRUE] \in Row
         /\ [table[i] EXCEPT !.deleted = TRUE].owner = table[i].owner
  <2> SUFFICES ASSUME NEW i \in Ids, Mine(u, i)
               PROVE  /\ [table[i] EXCEPT !.deleted = TRUE] \in Row
                      /\ [table[i] EXCEPT !.deleted = TRUE].owner = table[i].owner
    OBVIOUS
  <2>1. table[i] \in Row
    BY DEF ListInv, Typed, Mine
  <2> QED
    BY <2>1 DEF Row
<1>2. OwnersStay
  BY <1>1, ListQueryAssumption DEF ListInv, Typed, OwnersStay, DeleteMany
<1>3. list' = Disturbed \/ (table' = table /\ list' = list)
  BY DEF DeleteMany
<1> QED
  BY <1>2, <1>3, WriteKeepsInv

-----------------------------------------------------------------------------
(* Reading.                                                                *)

LEMMA AskKeepsInv ==
  ASSUME ListInv, NEW u \in Users, NEW q \in Requests, Ask(u, q)
  PROVE  ListInv'
<1>1. q \in Valid
  BY DEF Ask, Valid
<1> DEFINE o == ParseValues(q)
           n == Given(q.page, 1)
<1>2. o \in Asked /\ n \in Int
  BY <1>1, ParsedIsAsked, NumbersOfARequest
<1>3. list' = [phase |-> "asked", user |-> u, o |-> o, first |-> n, items |-> <<>>,
               total |-> 0, hasNext |-> FALSE, seen |-> <<>>, quiet |-> TRUE]
  BY DEF Ask
<1> HIDE DEF o, n
<1>4. <<>> \in Seq(Ids) /\ 0 \in Nat \union {-1}
  OBVIOUS
<1>5. list' \in Walks /\ list'.phase = "asked"
  BY <1>2, <1>3, <1>4 DEF Walks
<1> QED
  BY <1>5 DEF Ask, ListInv, Typed, RowsAreOwn, Reading, TotalHonest

LEMMA EndsKeepInv ==
  ASSUME ListInv, Leave \/ \E q \in Requests : Refuse(q)
  PROVE  ListInv'
<1>1. list' \in {NoList, Refused} /\ table' = table
  BY DEF Leave, Refuse, Refused
<1>2. list'.phase \in {"idle", "refused"}
  BY <1>1 DEF NoList, Refused
<1> QED
  BY <1>1, <1>2 DEF ListInv, Typed, RowsAreOwn, Reading, TotalHonest

LEMMA NextPageKeepsInv ==
  ASSUME ListInv, NextPage
  PROVE  ListInv'
<1>1. list \in Walks
  BY DEF ListInv, Typed, NextPage, NoList, Refused
<1>2. [list.o EXCEPT !.page = @ + 1] \in Asked
  BY <1>1, AskedIs DEF Walks
<1>3. list.seen \o list.items \in Seq(Ids)
  BY <1>1 DEF Walks
<1>4. /\ list'.o = [list.o EXCEPT !.page = list.o.page + 1]
      /\ list' = [list EXCEPT !.phase = "asked", !.o = list'.o,
                              !.seen = list.seen \o list.items,
                              !.items = <<>>, !.total = 0, !.hasNext = FALSE]
  BY <1>1 DEF NextPage, Walks
<1>5. <<>> \in Seq(Ids) /\ 0 \in Nat \union {-1} /\ list'.o \in Asked
  BY <1>2, <1>4
<1> DEFINE o == list'.o
           seen == list.seen \o list.items
<1> HIDE DEF o, seen
<1>6. list' \in Walks /\ list'.phase = "asked"
  BY <1>1, <1>3, <1>4, <1>5 DEF Walks, o, seen
<1> QED
  BY <1>6 DEF NextPage, ListInv, Typed, RowsAreOwn, Reading, TotalHonest

(* A page of matching rows is a page of the reader's own rows.             *)
LEMMA MatchingIsOwn ==
  ASSUME NEW u, NEW o, NEW items \in Seq(Matching(u, o))
  PROVE  /\ items \in Seq(Ids)
         /\ \A k \in DOMAIN items : table[items[k]] # None /\ table[items[k]].owner = u
<1>1. Matching(u, o) \subseteq Ids
  BY MatchingIsFinite
<1>2. \A k \in DOMAIN items : items[k] \in Matching(u, o)
  OBVIOUS
<1> QED
  BY <1>1, <1>2 DEF Matching, Rows, Where, Scoped

(* An answer has the page that was read and the total of the table.        *)
LEMMA AnswerKeepsInv ==
  ASSUME ListInv, list \in Walks, UNCHANGED table,
         NEW items \in Seq(Ids), NEW total \in Nat \union {-1},
         \A k \in DOMAIN items : table[items[k]] # None /\ table[items[k]].owner = list.user,
         total # -1 => total = Cardinality(Matching(list.user, list.o)),
         Answered(list, items, total)
  PROVE  ListInv'
<1> DEFINE more == list.o.page < TotalPages(total, list.o.limit)
<1>1. more \in BOOLEAN
  OBVIOUS
<1>2. list' = [list EXCEPT !.phase = "answered", !.items = items, !.total = total,
                           !.hasNext = more]
  BY DEF Answered
<1> HIDE DEF more
<1>3. list' \in Walks /\ list'.items = items /\ list'.total = total
        /\ list'.user = list.user /\ list'.o = list.o
  BY <1>1, <1>2 DEF Walks
<1>4. Matching(list.user, list.o)' = Matching(list.user, list.o)
  BY <1>3 DEF Matching, Rows
<1> QED
  BY <1>3, <1>4 DEF ListInv, Typed, RowsAreOwn, TotalHonest

LEMMA SelectKeepsInv ==
  ASSUME ListInv, Select
  PROVE  ListInv'
<1>1. list \in Walks /\ list.phase = "asked" /\ list.o \in Asked
  BY DEF ListInv, Typed, Select, NoList, Refused, Walks
<1>2. PICK s \in Orders(list.user, list.o) :
        LET items == PageOf(s, list.o) IN
        IF ~list.o.withTotal THEN Answered(list, items, -1)
        ELSE IF WholeResult(list.o, Len(items)) THEN Answered(list, items, Len(items))
        ELSE list' = [list EXCEPT !.phase = "counting", !.items = items]
  BY DEF Select
<1> DEFINE items == PageOf(s, list.o)
<1>3. items \in Seq(Matching(list.user, list.o))
        /\ (WholeResult(list.o, Len(items)) =>
              Len(items) = Cardinality(Matching(list.user, list.o)))
  BY <1>1, PageIs
<1>4. items \in Seq(Ids) /\ \A k \in DOMAIN items :
        table[items[k]] # None /\ table[items[k]].owner = list.user
  BY <1>3, MatchingIsOwn
<1>5. UNCHANGED table /\ Len(items) \in Nat
  BY <1>4 DEF Select
<1>6. CASE list' = [list EXCEPT !.phase = "counting", !.items = items]
  <2> HIDE DEF items
  <2>1. list' \in Walks /\ list'.phase = "counting" /\ list'.items = items
          /\ list'.user = list.user
    BY <1>1, <1>4, <1>6 DEF Walks
  <2> QED
    BY <1>4, <1>5, <2>1 DEF ListInv, Typed, RowsAreOwn, TotalHonest
<1>7. CASE Answered(list, items, -1)
  <2> HIDE DEF items
  <2> QED
    BY <1>1, <1>4, <1>5, <1>7, AnswerKeepsInv
<1>8. CASE WholeResult(list.o, Len(items)) /\ Answered(list, items, Len(items))
  <2> DEFINE n == Len(items)
  <2>1. n \in Nat /\ n = Cardinality(Matching(list.user, list.o)) /\ Answered(list, items, n)
    BY <1>3, <1>5, <1>8
  <2> HIDE DEF items, n
  <2> QED
    BY <1>1, <1>4, <1>5, <2>1, AnswerKeepsInv
<1> QED
  BY <1>2, <1>6, <1>7, <1>8

LEMMA CountKeepsInv ==
  ASSUME ListInv, Count
  PROVE  ListInv'
<1>1. list \in Walks /\ Reading
  BY DEF ListInv, Typed, Count, NoList, Refused, Reading
<1>2. list.items \in Seq(Ids) /\ \A k \in DOMAIN list.items :
        table[list.items[k]] # None /\ table[list.items[k]].owner = list.user
  BY <1>1 DEF ListInv, RowsAreOwn, Walks
<1> DEFINE n == Cardinality(Matching(list.user, list.o))
<1>3. n \in Nat /\ Answered(list, list.items, n) /\ UNCHANGED table
  BY MatchingIsFinite DEF Count
<1> HIDE DEF n
<1>4. n # -1 => n = Cardinality(Matching(list.user, list.o))
  BY DEF n
<1> QED
  BY <1>1, <1>2, <1>3, <1>4, AnswerKeepsInv

(* The invariant holds in every state that is reached.                     *)
THEOREM ListInductive == Spec => []ListInv
<1>1. Init => ListInv
  BY DEF Init, ListInv, Typed, RowsAreOwn, Reading, TotalHonest, NoList
<1>2. ListInv /\ [Next]_vars => ListInv'
  <2> SUFFICES ASSUME ListInv, [Next]_vars PROVE ListInv'
    OBVIOUS
  <2>1. CASE \E u \in Users, i \in Ids :
               Insert(i) \/ Delete(u, i) \/ \E a \in Amounts : Update(u, i, a)
    BY <2>1, InsertKeepsInv, DeleteKeepsInv, UpdateKeepsInv
  <2>2. CASE \E u \in Users, I \in SUBSET Ids : DeleteMany(u, I)
    BY <2>2, DeleteManyKeepsInv
  <2>3. CASE \E q \in Requests, u \in Users : Ask(u, q)
    BY <2>3, AskKeepsInv
  <2>4. CASE Leave \/ \E q \in Requests : Refuse(q)
    BY <2>4, EndsKeepInv
  <2>5. CASE Select \/ Count \/ NextPage
    BY <2>5, SelectKeepsInv, CountKeepsInv, NextPageKeepsInv
  <2>6. CASE UNCHANGED vars
    BY <2>6 DEF vars, ListInv, Typed, RowsAreOwn, TotalHonest, Reading, Matching, Rows
  <2> QED
    BY <2>1, <2>2, <2>3, <2>4, <2>5, <2>6 DEF Next
<1> QED
  BY <1>1, <1>2, PTL DEF Spec

(* Whatever is searched, filtered and sorted by, at whatever page: the     *)
(* rows of a page are the reader's own, and stay so while it is read.      *)
THEOREM OwnRowsOnlyShown == Spec => []OwnRowsOnly
<1>1. ListInv => OwnRowsOnly
  <2> SUFFICES ASSUME ListInv PROVE OwnRowsOnly
    OBVIOUS
  <2>1. CASE list \in {NoList, Refused}
    BY <2>1 DEF ListInv, Typed, OwnRowsOnly, TypeOK, Reading, NoList, Refused
  <2>2. CASE list \in Walks
    <3>1. list.o.limit \in 1..MaxLimit /\ list.o.page \in Nat \ {0}
      BY <2>2, AskedIs DEF Walks
    <3>2. Range(list.items) \union Range(list.seen) \subseteq Ids
      BY <2>2 DEF Walks, Range
    <3>3. TypeOK
      BY <2>2, <3>1, <3>2 DEF ListInv, Typed, TypeOK, Walks
    <3> QED
      BY <3>3 DEF ListInv, RowsAreOwn, OwnRowsOnly
  <2> QED
    BY <2>1, <2>2 DEF ListInv, Typed
<1> QED
  BY <1>1, ListInductive, PTL

(* The total is the number of matching rows, counted or told from a page   *)
(* that is not full, unless something was written in between.              *)
THEOREM TotalsAreHonest == Spec => []TotalHonest
<1>1. ListInv => TotalHonest
  BY DEF ListInv
<1> QED
  BY <1>1, ListInductive, PTL

-----------------------------------------------------------------------------
(* Filters.                                                                *)

\* A filter of a request that has been accepted.
Accepted == UNION {q.filters : q \in Valid}

LEMMA AcceptedIs ==
  ASSUME NEW f \in Accepted
  PROVE  /\ ~FilterError(f)
         /\ f.field \in DOMAIN Columns
         /\ f.raw \in Seq(IF f.op = "null" THEN BOOLEAN ELSE Text(Columns[f.field]))
         /\ f.raw # <<>>
         /\ \A k \in DOMAIN f.raw : f.raw[k] # Bad
<1>1. PICK q \in Valid : f \in q.filters
  BY DEF Accepted
<1>2. FieldErrors(q) = {}
  BY <1>1 DEF Valid, Invalid
<1>3. ~FilterError(f)
  BY <1>1, <1>2 DEF FieldErrors
<1>4. f.field \in DOMAIN Columns /\ f.raw # <<>> /\ \A k \in DOMAIN f.raw : f.raw[k] # Bad
  BY <1>3 DEF FilterError
<1>5. IsRequest(q)
  BY ListQueryAssumption DEF Valid
<1> QED
  BY <1>1, <1>3, <1>4, <1>5 DEF IsRequest

ColumnType(field) ==
  CASE field = "id" -> "uuid" [] field = "amount" -> "money" [] field = "at" -> "time"
    [] OTHER -> "string"

LEMMA ColumnsAre ==
  /\ DOMAIN Columns = {"id", "amount", "at", "note", "merchant"}
  /\ \A field \in DOMAIN Columns : Columns[field].type = ColumnType(field)
  /\ \A field \in {"id", "amount", "at"} : ~Columns[field].nullable
  BY DEF Columns, Column, ColumnType

LEMMA AmountsAreNumbers ==
  ASSUME NEW t \in AmountText
  PROVE  ParseAmount(t) \in Int
<1>1. Decimals(t.frac) \in Int
  <2>1. t.frac \in Seq(0..9)
    BY DEF AmountText
  <2>2. \A k \in 1..Len(t.frac) : t.frac[k] \in Int
    BY <2>1
  <2>3. Len(t.frac) \in Nat
    BY <2>1
  <2>4. CASE Len(t.frac) = 0
    BY <2>4 DEF Decimals
  <2>5. CASE Len(t.frac) = 1
    BY <2>2, <2>5 DEF Decimals
  <2>6. CASE Len(t.frac) = 2
    BY <2>2, <2>6 DEF Decimals
  <2>7. CASE Len(t.frac) > 2
    <3>1. t.frac[1] \in Int /\ t.frac[2] \in Int
      BY <2>2, <2>3, <2>7
    <3> QED
      BY <2>3, <2>7, <3>1 DEF Decimals
  <2>8. PICK n \in Nat : n = Len(t.frac)
    BY <2>3
  <2>9. n = 0 \/ n = 1 \/ n = 2 \/ n > 2
    OBVIOUS
  <2> QED
    BY <2>4, <2>5, <2>6, <2>7, <2>8, <2>9
<1>2. t.whole \in Nat
  BY DEF AmountText
<1>3. t.whole * 100 + Decimals(t.frac) \in Int
  BY <1>1, <1>2
<1> QED
  BY <1>3, IntegersWrap DEF ParseAmount

LEMMA DatesAreNumbers ==
  ASSUME NEW t \in DateText, NEW end \in BOOLEAN
  PROVE  parseDate(t, end) \in Int
  BY DEF DateText, parseDate, Instant

(* What a filter compares with is never NULL.                              *)
LEMMA BoundsAre ==
  ASSUME NEW f \in Accepted, NEW k \in DOMAIN f.raw, NEW end \in BOOLEAN, f.op # "null"
  PROVE  LET v == coerceBound(Columns[f.field], f.raw[k], end) IN
         /\ v # None
         /\ f.field \in {"amount", "at"} => v \in Int
<1> DEFINE col == Columns[f.field]
           t == f.raw[k]
<1>1. f.field \in DOMAIN Columns /\ t \in Text(col) /\ t # Bad
  BY AcceptedIs
<1>2. col.type = ColumnType(f.field)
  BY <1>1, ColumnsAre
<1>3. CASE col.type = "money"
  <2>1. t \in AmountText
    BY <1>1, <1>3 DEF Text
  <2>2. ParseAmount(t) \in Int
    BY <2>1, AmountsAreNumbers
  <2>3. coerceBound(col, t, end) = ParseAmount(t)
    BY <1>3 DEF coerceBound
  <2> QED
    BY <2>2, <2>3, QueryParseAssumption
<1>4. CASE col.type = "time"
  <2>1. t \in DateText
    BY <1>1, <1>4 DEF Text
  <2>2. parseDate(t, end) \in Int
    BY <2>1, DatesAreNumbers
  <2>3. coerceBound(col, t, end) = parseDate(t, end)
    BY <1>4 DEF coerceBound
  <2> QED
    BY <2>2, <2>3, QueryParseAssumption
<1>5. CASE col.type \notin {"money", "time"}
  <2>1. t \in STRING
    BY <1>1, <1>5 DEF Text
  <2>2. coerceBound(col, t, end) = t
    BY <1>5 DEF coerceBound
  <2>3. f.field \notin {"amount", "at"}
    BY <1>2, <1>5 DEF ColumnType
  <2> QED
    BY <2>1, <2>2, <2>3, QueryParseAssumption
<1> QED
  BY <1>3, <1>4, <1>5

(* What a filter becomes.                                                  *)
LEMMA BuiltIs ==
  ASSUME NEW f \in Accepted
  PROVE  LET b == buildFilter(f) IN
         /\ b.field \in DOMAIN Columns
         /\ b.op = "null" => b.values[1] \in BOOLEAN
         /\ b.op # "null" => /\ b.values[1] # None
                             /\ b.field \in {"amount", "at"} => b.values[1] \in Int
<1> DEFINE b == buildFilter(f)
           col == Columns[f.field]
           op == IF f.op = None THEN defaultOp(col) ELSE f.op
           upper(i) == \/ op = "between" /\ i = 2
                       \/ op \in {"lt", "lte"} /\ col.type = "time"
<1>1. f.field \in DOMAIN Columns /\ 1 \in DOMAIN f.raw
  BY AcceptedIs
<1>2. b.field = f.field /\ b.op = op
  BY DEF buildFilter
<1>3. op = "null" <=> f.op = "null"
  BY QueryParseAssumption DEF defaultOp
<1>4. CASE f.op = "null"
  <2>1. b.values = f.raw
    BY <1>3, <1>4 DEF buildFilter
  <2>2. f.raw[1] \in BOOLEAN
    BY <1>1, <1>4, AcceptedIs
  <2> QED
    BY <1>1, <1>2, <1>3, <1>4, <2>1, <2>2
<1>5. CASE f.op # "null"
  <2>1. b.values = [i \in DOMAIN f.raw |-> coerceBound(col, f.raw[i], upper(i))]
    BY <1>3, <1>5 DEF buildFilter
  <2>2. b.values[1] = coerceBound(col, f.raw[1], upper(1)) /\ upper(1) \in BOOLEAN
    BY <1>1, <2>1
  <2> HIDE DEF upper
  <2>3. b.values[1] # None /\ (f.field \in {"amount", "at"} => b.values[1] \in Int)
    BY <1>1, <1>5, <2>2, BoundsAre
  <2> QED
    BY <1>1, <1>2, <1>3, <1>5, <2>3
<1> QED
  BY <1>4, <1>5

(* A filter and its opposite disagree on every value of a column.          *)
LEMMA OppositesDisagree ==
  ASSUME NEW f \in Accepted, NEW g \in Complement(buildFilter(f)), NEW v,
         buildFilter(f).field = "amount" => v \in Int /\ v # None
  PROVE  Holds(buildFilter(f), v) # Holds(g, v)
<1> DEFINE b == buildFilter(f)
           x == b.values
<1>1. b.op = "null" => x[1] \in BOOLEAN
  BY BuiltIs
<1>2. b.op # "null" => x[1] # None /\ (b.field = "amount" => x[1] \in Int)
  BY BuiltIs
<1>3. b = [field |-> b.field, op |-> b.op, values |-> x]
  BY DEF buildFilter
<1>4. g \in Complement(b) /\ (b.field = "amount" => v \in Int /\ v # None)
  OBVIOUS
<1> HIDE DEF b, x
<1> SUFFICES Holds(b, v) # Holds(g, v)
  BY DEF b
<1>5. CASE b.op = "eq"
  <2>1. g.op = "ne" /\ g.values = x
    BY <1>3, <1>4, <1>5 DEF Complement
  <2>2. Holds(b, v) = (v # None /\ v = x[1]) /\ Holds(g, v) = (v # x[1])
    BY <1>5, <2>1 DEF Holds, Distinct, x
  <2> QED
    BY <1>2, <1>5, <2>2
<1>6. CASE b.op = "ne"
  <2>1. g.op = "eq" /\ g.values = x
    BY <1>3, <1>4, <1>6 DEF Complement
  <2>2. Holds(g, v) = (v # None /\ v = x[1]) /\ Holds(b, v) = (v # x[1])
    BY <1>6, <2>1 DEF Holds, Distinct, x
  <2> QED
    BY <1>2, <1>6, <2>2
<1>7. CASE b.op = "in"
  <2>1. g.op = "nin" /\ g.values = x
    BY <1>3, <1>4, <1>7 DEF Complement
  <2>2. Holds(b, v) = (v # None /\ v \in ToSet(x))
          /\ Holds(g, v) = (v = None \/ v \notin ToSet(x))
    BY <1>7, <2>1 DEF Holds, x
  <2> QED
    BY <2>2
<1>8. CASE b.op = "nin"
  <2>1. g.op = "in" /\ g.values = x
    BY <1>3, <1>4, <1>8 DEF Complement
  <2>2. Holds(g, v) = (v # None /\ v \in ToSet(x))
          /\ Holds(b, v) = (v = None \/ v \notin ToSet(x))
    BY <1>8, <2>1 DEF Holds, x
  <2> QED
    BY <2>2
<1>9. CASE b.op = "gt" /\ b.field = "amount"
  <2>1. g.op = "lte" /\ g.values = x
    BY <1>3, <1>4, <1>9 DEF Complement
  <2>2. Holds(b, v) = (v # None /\ v > x[1]) /\ Holds(g, v) = (v # None /\ v <= x[1])
    BY <1>9, <2>1 DEF Holds, x
  <2> QED
    BY <1>2, <1>4, <1>9, <2>2
<1>10. CASE b.op = "null"
  <2>1. g.op = "null" /\ g.values = <<~x[1]>>
    BY <1>3, <1>4, <1>10 DEF Complement
  <2>2. Holds(b, v) = (b.values[1] = (v = None))
    BY <1>10, Zenon DEF Holds
  <2>3. Holds(g, v) = (g.values[1] = (v = None))
    BY <2>1, Zenon DEF Holds
  <2>4. g.values[1] = ~x[1]
    BY <2>1
  <2>5. CASE x[1] = TRUE
    BY <2>2, <2>3, <2>4, <2>5 DEF x
  <2>6. CASE x[1] = FALSE
    BY <2>2, <2>3, <2>4, <2>6 DEF x
  <2> QED
    BY <1>1, <1>10, <2>5, <2>6
<1>11. b.op \in {"eq", "ne", "in", "nin", "null"} \/ (b.op = "gt" /\ b.field = "amount")
  BY <1>4 DEF Complement
<1> QED
  BY <1>5, <1>6, <1>7, <1>8, <1>9, <1>10, <1>11

(* A filter and its opposite share the rows between them.                  *)
THEOREM OppositesShareTheRows == Spec => []OppositesSplit
<1>1. ListInv => OppositesSplit
  <2> SUFFICES ASSUME ListInv, list.phase = "asked",
                      NEW b \in list.o.filters, NEW g \in Complement(b), NEW i \in Rows
               PROVE  Holds(b, table[i][b.field]) # Holds(g, table[i][b.field])
    BY DEF OppositesSplit
  <2>1. list \in Walks
    BY DEF ListInv, Typed, NoList, Refused
  <2>2. list.o \in Asked
    BY <2>1 DEF Walks
  <2>3. PICK q \in Valid : list.o.filters = {buildFilter(f) : f \in q.filters}
    BY <2>2, AskedIs
  <2>4. PICK f \in Accepted : b = buildFilter(f)
    BY <2>3 DEF Accepted
  <2>5. table[i] \in Row
    BY DEF ListInv, Typed, Rows
  <2>6. table[i]["amount"] \in Int /\ table[i]["amount"] # None
    BY <2>5, ListQueryAssumption, QueryParseAssumption DEF Row
  <2> QED
    BY <2>4, <2>6, OppositesDisagree
<1> QED
  BY <1>1, ListInductive, PTL

-----------------------------------------------------------------------------
(* Ranges of dates.                                                        *)

LEMMA Midnights ==
  ASSUME NEW t \in DateText, ~t.timed
  PROVE  parseDate(t, FALSE) = 3 * t.day /\ parseDate(t, TRUE) = 3 * t.day + 2
  BY DEF DateText, parseDate, Instant

LEMMA DaysAre ==
  ASSUME NEW at \in Nat, NEW d \in Nat
  PROVE  /\ d <= DayOf(at) <=> at >= 3 * d
         /\ DayOf(at) <= d <=> at <= 3 * d + 2
  BY DEF DayOf

(* A range of dates, or between two of them, is a range of whole days.     *)
THEOREM RangesAreOfWholeDays == Spec => []RangesCoverDays
<1>1. ListInv => RangesCoverDays
  <2> SUFFICES ASSUME ListInv, NEW q \in Valid PROVE WholeDays(q)
    BY DEF RangesCoverDays, Valid
  <2> DEFINE during(d, i) == d[1].day <= DayOf(table[i].at) /\ DayOf(table[i].at) <= d[2].day
  <2>1. \A i \in Rows : table[i].at \in Nat
    BY DEF ListInv, Typed, Rows, Row
  <2>2. FieldErrors(q) = {} /\ IsRequest(q)
    BY ListQueryAssumption DEF Valid, Invalid
  <2>3. ASSUME None \notin {q.from, q.to}, ~q.from.timed, ~q.to.timed, NEW i \in Rows
        PROVE  during(<<q.from, q.to>>, i)
                 <=> (table[i].at >= ParseValues(q).from /\ table[i].at <= ParseValues(q).to)
    <3>1. q.from # Bad /\ q.to # Bad
      BY <2>2 DEF FieldErrors
    <3>2. q.from \in DateText /\ q.to \in DateText
      BY <2>2, <2>3, <3>1 DEF IsRequest
    <3>3. ParseValues(q).from = 3 * q.from.day /\ ParseValues(q).to = 3 * q.to.day + 2
      BY <2>3, <3>2, Midnights DEF ParseValues, DateFrom, DateTo
    <3>4. q.from.day \in Nat /\ q.to.day \in Nat
      BY <3>2 DEF DateText
    <3> QED
      BY <2>1, <2>3, <3>3, <3>4, DaysAre
  <2>4. ASSUME NEW f \in q.filters, f.field = "at", f.op = "between",
               ~f.raw[1].timed, ~f.raw[2].timed, NEW i \in Rows
        PROVE  during(f.raw, i) <=> Holds(buildFilter(f), table[i].at)
    <3>1. f \in Accepted
      BY DEF Accepted
    <3>2. ~FilterError(f) /\ f.raw \in Seq(Text(Columns[f.field]))
            /\ \A k \in DOMAIN f.raw : f.raw[k] # Bad
      BY <2>4, <3>1, AcceptedIs
    <3>3. Len(f.raw) = 2
      BY <2>4, <3>2 DEF FilterError
    <3>4. 1 \in DOMAIN f.raw /\ 2 \in DOMAIN f.raw
      BY <3>2, <3>3
    <3>5. Columns["at"].type = "time"
      BY ColumnsAre DEF ColumnType
    <3>6. f.raw[1] \in DateText /\ f.raw[2] \in DateText
      BY <2>4, <3>2, <3>4, <3>5 DEF Text
    <3> DEFINE b == buildFilter(f)
    <3>7. b.op = "between"
      BY <2>4, QueryParseAssumption DEF buildFilter, defaultOp
    <3>8. b.values[1] = parseDate(f.raw[1], FALSE) /\ b.values[2] = parseDate(f.raw[2], TRUE)
      <4>1. f.op # None
        BY <2>4, QueryParseAssumption
      <4>2. \A t, end : coerceBound(Columns["at"], t, end) = parseDate(t, end)
        BY <3>5 DEF coerceBound
      <4>3. b.values = [k \in DOMAIN f.raw |-> coerceBound(Columns["at"], f.raw[k], k = 2)]
        BY <2>4, <4>1, <3>5 DEF buildFilter
      <4>4. b.values[1] = coerceBound(Columns["at"], f.raw[1], 1 = 2)
              /\ b.values[2] = coerceBound(Columns["at"], f.raw[2], 2 = 2)
        BY <3>4, <4>3
      <4>5. (1 = 2) = FALSE /\ (2 = 2) = TRUE
        OBVIOUS
      <4> QED
        BY <4>2, <4>4, <4>5
    <3>9. b.values[1] = 3 * f.raw[1].day /\ b.values[2] = 3 * f.raw[2].day + 2
      BY <2>4, <3>6, <3>8, Midnights
    <3>10. table[i].at # None /\ table[i].at \in Nat
      BY <2>1, <2>4, QueryParseAssumption
    <3> HIDE DEF b
    <3>11. Holds(b, table[i].at)
             <=> b.values[1] <= table[i].at /\ table[i].at <= b.values[2]
      BY <3>7, <3>10 DEF Holds
    <3>12. f.raw[1].day \in Nat /\ f.raw[2].day \in Nat
      BY <3>6 DEF DateText
    <3> QED
      BY <3>9, <3>10, <3>11, <3>12, DaysAre DEF b
  <2> QED
    BY <2>3, <2>4 DEF WholeDays
<1> QED
  BY <1>1, ListInductive, PTL

-----------------------------------------------------------------------------
(* Orders.                                                                 *)

(* Some number of a set is the least.                                      *)
LEMMA Least ==
  ASSUME NEW S, S \subseteq Nat, IsFiniteSet(S), S # {}
  PROVE  \E m \in S : \A k \in S : m <= k
<1> DEFINE Below(m) == {k \in S : k < m}
           Sets == {Below(m) : m \in S}
           R == StrictSubsetOrdering(S)
<1>1. IsWellFoundedOn(R, SUBSET S)
  BY FS_FiniteSubsetsOfFinite, FS_StrictSubsetOrderingWellFounded
<1>2. \A m \in S : Below(m) \in SUBSET S /\ Below(m) \in Sets
  OBVIOUS
<1>3. \A T \in Sets : \E m \in S : T = Below(m)
  OBVIOUS
<1>4. \A T, U \in SUBSET S : T \subseteq U /\ T # U => <<T, U>> \in R
  BY DEF StrictSubsetOrdering
<1>5. \A m \in S : \A k \in Below(m) :
        k \in S /\ k \notin Below(k) /\ Below(k) \in SUBSET Below(m)
  <2> SUFFICES ASSUME NEW m \in S, NEW k \in S, k < m
               PROVE  k \notin Below(k) /\ Below(k) \in SUBSET Below(m)
    OBVIOUS
  <2>1. \A j \in S : j < k => j < m
    OBVIOUS
  <2>2. ~(k < k)
    OBVIOUS
  <2> QED
    BY <2>1, <2>2
<1>6. \A m \in S : Below(m) = {} => \A k \in S : m <= k
  OBVIOUS
<1> HIDE DEF Below, Sets, R
<1>7. Sets \subseteq SUBSET S /\ Sets # {}
  BY <1>2, <1>3
<1>8. PICK T \in Sets : \A U \in Sets : ~(<<U, T>> \in R)
  BY <1>1, <1>7, WFMin
<1>9. PICK m \in S : T = Below(m)
  BY <1>3, <1>8
<1>10. ASSUME NEW k \in Below(m) PROVE FALSE
  <2>1. k \in S /\ k \notin Below(k) /\ Below(k) \in SUBSET Below(m) /\ Below(k) \in Sets
    BY <1>2, <1>5, <1>10
  <2>2. Below(k) # Below(m) /\ Below(k) \in SUBSET S /\ T \in SUBSET S
    BY <1>2, <1>9, <1>10, <2>1
  <2>3. <<Below(k), T>> \in R
    BY <1>4, <1>9, <2>1, <2>2
  <2> QED
    BY <1>8, <2>1, <2>3
<1>11. Below(m) = {}
  BY <1>10
<1> QED
  BY <1>6, <1>11

LEMMA ElementsAre ==
  ASSUME NEW T, NEW s \in Seq(T), NEW k \in DOMAIN s
  PROVE  s[k] \in T
  OBVIOUS

LEMMA ColumnsOfRows ==
  ASSUME NEW row \in Row
  PROVE  row.id \in Int /\ row.amount \in Int /\ row.at \in Int
<1>1. row.id \in Ids /\ row.amount \in Amounts /\ row.at \in Nat
  BY DEF Row
<1>2. Ids \subseteq Int /\ Amounts \subseteq Int
  BY ListQueryAssumption
<1>3. row.at \in Int
  BY <1>1
<1>4. row.id \in Int
  BY <1>1, <1>2
<1>5. row.amount \in Int
  BY <1>1, <1>2
<1> QED
  BY <1>3, <1>4, <1>5

LEMMA SortsAre ==
  ASSUME NEW o \in Asked
  PROVE  o.sorts \in Seq([field : {"id", "amount", "at"}, desc : BOOLEAN])
<1>1. PICK q \in Valid, n \in Nat \ {0} : o = [ParseValues(q) EXCEPT !.page = n]
  BY DEF Asked
<1>2. o.sorts = IF parseSort(q.sort).out = <<>> THEN DefaultSort ELSE parseSort(q.sort).out
  BY <1>1 DEF ParseValues
<1>3. SortKeys = [field : {"id", "amount", "at"}, desc : BOOLEAN]
  <2>1. {f \in DOMAIN Columns : Columns[f].sort} = {"id", "amount", "at"}
    BY DEF Columns, Column
  <2> QED
    BY <2>1 DEF SortKeys
<1>4. parseSort(q.sort).out \in Seq(SortKeys)
  BY SortsAssumption DEF Valid
<1>5. DefaultSort \in Seq([field : {"id", "amount", "at"}, desc : BOOLEAN])
  BY DEF DefaultSort
<1> HIDE DEF Valid
<1> QED
  BY <1>2, <1>3, <1>4, <1>5

Keyed == \A i \in Rows : table[i].id = i

(* A sort by a unique column leaves no ties.                               *)
LEMMA NoTies ==
  ASSUME Typed, Keyed, NEW o \in Asked, UniqueSort(o),
         NEW a \in Rows, NEW b \in Rows, a # b
  PROVE  Precedes(o, table[a], table[b]) \/ Precedes(o, table[b], table[a])
<1> DEFINE x == table[a]
           y == table[b]
           D == {k \in DOMAIN o.sorts : x[o.sorts[k].field] # y[o.sorts[k].field]}
<1>1. o.sorts \in Seq([field : {"id", "amount", "at"}, desc : BOOLEAN])
  BY SortsAre
<1>2. x \in Row /\ y \in Row /\ x.id = a /\ y.id = b
  BY DEF Typed, Keyed, Rows
<1>3. DOMAIN o.sorts = 1..Len(o.sorts) /\ Len(o.sorts) \in Nat
  BY <1>1
<1>4. D \subseteq Nat /\ IsFiniteSet(D)
  <2>1. IsFiniteSet(1..Len(o.sorts))
    BY <1>3, FS_Interval
  <2>2. D \subseteq 1..Len(o.sorts)
    BY <1>3
  <2>3. D \subseteq Nat
    BY <1>3, <2>2
  <2> HIDE DEF D
  <2> QED
    BY <2>1, <2>2, <2>3, FS_Subset
<1>5. D # {}
  BY <1>2 DEF UniqueSort
<1> HIDE DEF D
<1>6. PICK k \in D : \A m \in D : k <= m
  BY <1>4, <1>5, Least
<1>7. k \in DOMAIN o.sorts /\ x[o.sorts[k].field] # y[o.sorts[k].field]
        /\ \A m \in 1..(k - 1) : x[o.sorts[m].field] = y[o.sorts[m].field]
  BY <1>3, <1>6 DEF D
<1>8. o.sorts[k].field \in {"id", "amount", "at"}
  <2>1. o.sorts[k] \in [field : {"id", "amount", "at"}, desc : BOOLEAN]
    BY <1>1, <1>7, ElementsAre
  <2> QED
    BY <2>1
<1>9. x[o.sorts[k].field] \in Int /\ y[o.sorts[k].field] \in Int
  <2> HIDE DEF x, y
  <2>2. \A row \in Row : \A field \in {"id", "amount", "at"} : row[field] \in Int
    BY ColumnsOfRows
  <2> QED
    BY <1>2, <1>8, <2>2
<1> HIDE DEF x, y
<1>10. \/ x[o.sorts[k].field] < y[o.sorts[k].field]
       \/ x[o.sorts[k].field] > y[o.sorts[k].field]
  BY <1>7, <1>9
<1> SUFFICES Precedes(o, x, y) \/ Precedes(o, y, x)
  BY DEF x, y
<1> QED
  BY <1>7, <1>10 DEF Precedes

(* And then the rows come in one order only.                               *)
LEMMA OneOrder ==
  ASSUME Typed, Keyed, NEW u, NEW o \in Asked, UniqueSort(o),
         NEW s \in Orders(u, o), NEW t \in Orders(u, o)
  PROVE  s = t
<1> DEFINE M == Matching(u, o)
           N == Cardinality(M)
           D == {k \in 1..N : s[k] # t[k]}
<1>1. N \in Nat /\ M \subseteq Rows /\ IsFiniteSet(M)
  BY MatchingIsFinite, ListQueryAssumption, FS_Subset DEF Matching, Rows
<1>2. ASSUME NEW r \in Orders(u, o)
      PROVE  /\ r \in [1..N -> M] /\ \A k, m \in 1..N : r[k] = r[m] => k = m
             /\ \A i \in M : \E k \in 1..N : r[k] = i
             /\ \A k, m \in 1..N : k < m => ~Precedes(o, table[r[m]], table[r[k]])
  <2>1. r \in Injection(1..N, M)
    BY DEF Orders
  <2>2. r \in [1..N -> M] /\ \A k, m \in 1..N : r[k] = r[m] => k = m
    BY <2>1 DEF Injection, IsInjective
  <2>3. Cardinality(1..N) = N
    BY <1>1, FS_Interval
  <2>4. r \in Surjection(1..N, M)
    BY <1>1, <2>1, <2>3, FS_Injection
  <2>5. \A i \in M : \E k \in 1..N : r[k] = i
    BY <2>4 DEF Surjection
  <2>6. \A k, m \in 1..N : k < m => ~Precedes(o, table[r[m]], table[r[k]])
    BY <2>2 DEF Orders
  <2> QED
    BY <2>2, <2>5, <2>6
<1> HIDE DEF M, N
<1>3. ASSUME D # {} PROVE FALSE
  <2>1. IsFiniteSet(D) /\ D \subseteq Nat
    <3>1. IsFiniteSet(1..N)
      BY <1>1, FS_Interval
    <3>2. D \subseteq 1..N
      OBVIOUS
    <3>3. D \subseteq Nat
      BY <1>1, <3>2
    <3> HIDE DEF D
    <3> QED
      BY <3>1, <3>2, <3>3, FS_Subset
  <2> HIDE DEF D
  <2>2. PICK k \in D : \A m \in D : k <= m
    BY <1>3, <2>1, Least
  <2>3. k \in 1..N /\ s[k] # t[k] /\ \A m \in 1..N : m < k => s[m] = t[m]
    BY <1>1, <2>2 DEF D
  <2>4. s[k] \in M /\ t[k] \in M
    BY <1>2, <2>3
  <2>5. PICK m \in 1..N : s[m] = t[k]
    BY <1>2, <2>4
  <2>6. PICK n \in 1..N : t[n] = s[k]
    BY <1>2, <2>4
  <2>a. /\ \A i, j \in 1..N : s[i] = s[j] => i = j
        /\ \A i, j \in 1..N : t[i] = t[j] => i = j
    BY <1>2
  <2>7. k < m
    BY <1>1, <2>3, <2>5, <2>a
  <2>8. k < n
    <3>1. ~(n < k)
      BY <2>3, <2>6, <2>a
    <3>2. n # k
      BY <2>3, <2>6
    <3> QED
      BY <1>1, <2>3, <2>6, <3>1, <3>2
  <2>9. ~Precedes(o, table[t[k]], table[s[k]])
    BY <1>2, <2>3, <2>5, <2>7
  <2>10. ~Precedes(o, table[s[k]], table[t[k]])
    BY <1>2, <2>3, <2>6, <2>8
  <2>11. s[k] \in Rows /\ t[k] \in Rows
    BY <1>1, <2>4
  <2> QED
    BY <2>3, <2>9, <2>10, <2>11, NoTies
<1>4. \A k \in 1..N : s[k] = t[k]
  BY <1>3
<1>5. s \in [1..N -> M] /\ t \in [1..N -> M]
  BY <1>2
<1>6. s = [k \in 1..N |-> s[k]] /\ t = [k \in 1..N |-> t[k]]
  BY <1>5
<1> QED
  BY <1>4, <1>6

-----------------------------------------------------------------------------
(* Pages of an order.                                                      *)

LEMMA Products ==
  ASSUME NEW a \in Nat, NEW b \in Nat, NEW l \in Nat, a <= b
  PROVE  a * l <= b * l /\ a * l \in Nat /\ (a + 1) * l = a * l + l
  OBVIOUS

LEMMA Divided ==
  ASSUME NEW x \in Nat, NEW l \in Nat \ {0}
  PROVE  /\ x \div l \in Nat /\ (x \div l) * l <= x
         /\ x < (x \div l) * l + l
  OBVIOUS

(* There is a next page when rows are left after this one.                 *)
LEMMA MorePages ==
  ASSUME NEW total \in Nat, NEW l \in Nat \ {0}, NEW page \in Nat \ {0}
  PROVE  page < TotalPages(total, l) <=> page * l < total
<1>1. page * l \in Nat /\ page * l >= 1
  OBVIOUS
<1>2. CASE total = 0
  BY <1>1, <1>2 DEF TotalPages
<1>3. CASE total > 0
  <2> DEFINE x == total + l - 1
             q == x \div l
  <2>1. x \in Nat /\ TotalPages(total, l) = q
    BY <1>3 DEF TotalPages
  <2>2. q \in Nat /\ q * l <= x /\ x < q * l + l
    <3> HIDE DEF x
    <3> QED
      BY <2>1, Divided
  <2>3. x = total + l - 1
    OBVIOUS
  <2> HIDE DEF x, q
  <2>4. ASSUME page < q PROVE page * l < total
    <3>1. (page + 1) * l <= q * l /\ (page + 1) * l = page * l + l
      BY <2>2, <2>4, Products
    <3>2. q * l \in Nat
      BY <2>2, Products
    <3> QED
      BY <1>1, <2>2, <2>3, <3>1, <3>2
  <2>5. ASSUME q <= page PROVE ~(page * l < total)
    <3>1. q * l <= page * l /\ q * l \in Nat
      BY <2>2, <2>5, Products
    <3> QED
      BY <1>1, <2>2, <2>3, <3>1
  <2> QED
    BY <2>1, <2>2, <2>4, <2>5
<1> QED
  BY <1>2, <1>3

LEMMA SmallDoNotWrap ==
  ASSUME NEW n \in Nat, n <= MaxInt
  PROVE  Wrap(n) = n
<1>1. PICK m \in Nat \ {0} : m = MaxInt + 1
  BY QueryParseAssumption
<1>2. n + m < 2 * m /\ n + m \in Nat
  BY <1>1, QueryParseAssumption
<1>3. (n + m) % (2 * m) = n + m
  BY <1>1, <1>2
<1> QED
  BY <1>1, <1>2, <1>3, QueryParseAssumption DEF Wrap

LEMMA FewRows ==
  ASSUME NEW u, NEW o
  PROVE  Cardinality(Matching(u, o)) \in Nat /\ Cardinality(Matching(u, o)) <= MaxInt
<1>1. Cardinality(Matching(u, o)) <= Cardinality(Ids)
  BY MatchingIsFinite, ListQueryAssumption, FS_Subset
<1>2. Cardinality(Ids) \in Nat /\ Cardinality(Ids) <= MaxInt /\ MaxInt \in Nat
  BY ListQueryAssumption, QueryParseAssumption, FS_CardinalityType
<1> QED
  BY <1>1, <1>2, MatchingIsFinite

(* A page that starts within the result is the next rows of the order, as  *)
(* many as fit or are left.                                                *)
LEMMA PageWithin ==
  ASSUME NEW u, NEW o \in Asked, NEW s \in Orders(u, o),
         NEW off \in Nat, off = (o.page - 1) * o.limit,
         NEW n \in Nat, n = Cardinality(Matching(u, o)), off <= n
  PROVE  /\ Len(PageOf(s, o)) = IF o.limit <= n - off THEN o.limit ELSE n - off
         /\ \A k \in 1..Len(PageOf(s, o)) : PageOf(s, o)[k] = s[off + k]
<1>1. Offset(o.page, o.limit) = off
  BY FewRows, SmallDoNotWrap, QueryParseAssumption DEF Offset
<1>2. Len(s) = n
  BY DEF Orders, Injection
<1>3. Max({0, off}) = off /\ Max({0, n - off}) = n - off
  BY MaxOfTwo
<1>4. o.limit \in Nat
  <2>1. o.limit \in 1..MaxLimit
    BY AskedIs
  <2>2. \A l \in 1..MaxLimit : l \in Nat
    BY QueryParseAssumption
  <2> QED
    BY <2>1, <2>2
<1> DEFINE size == Min({o.limit, n - off})
<1>5. size = IF o.limit <= n - off THEN o.limit ELSE n - off
  BY <1>4, MinOfTwo
<1>6. size \in Nat
  BY <1>4, <1>5
<1>7. PageOf(s, o) = [k \in 1..size |-> s[off + k]]
  BY <1>1, <1>2, <1>3 DEF PageOf
<1> HIDE DEF size
<1>8. Len(PageOf(s, o)) = size
  BY <1>6, <1>7
<1> QED
  BY <1>5, <1>7, <1>8

(* What is asked for does not depend on the page, but for the page.        *)
LEMMA PageDoesNotMatter ==
  ASSUME NEW u, NEW o \in Asked, NEW p, p = [o EXCEPT !.page = o.page + 1]
  PROVE  /\ p \in Asked /\ p.page = o.page + 1 /\ p.limit = o.limit
         /\ Matching(u, p) = Matching(u, o) /\ Orders(u, p) = Orders(u, o)
         /\ UniqueSort(p) = UniqueSort(o)
<1>1. PICK q \in Valid, n \in Nat \ {0} : o = [ParseValues(q) EXCEPT !.page = n]
  BY DEF Asked
<1>2. /\ p.page = o.page + 1 /\ p.limit = o.limit /\ p.search = o.search
      /\ p.sorts = o.sorts /\ p.from = o.from /\ p.to = o.to /\ p.filters = o.filters
  BY <1>1 DEF ParseValues
<1>3. p \in Asked
  BY AskedIs
<1>4. \A i : Where(u, p, table[i]) = Where(u, o, table[i])
  BY <1>2 DEF Where, Found, Filtered
<1>5. Matching(u, p) = Matching(u, o)
  BY <1>4 DEF Matching
<1>6. \A a, b : Precedes(p, a, b) = Precedes(o, a, b)
  BY <1>2 DEF Precedes
<1> QED
  BY <1>2, <1>3, <1>5, <1>6 DEF Orders, UniqueSort

-----------------------------------------------------------------------------
(* The walk.                                                               *)

\* From the first page on, by a sort without ties, with nothing written since.
Walking == list \in Walks /\ list.quiet /\ list.first = 1 /\ UniqueSort(list.o)

\* What has been seen is the first pages of the order, and items the next.
OnTheWay(u, o) ==
  /\ Len(list.seen) = (o.page - 1) * o.limit
  /\ Len(list.seen) <= Cardinality(Matching(u, o))
  /\ \A s \in Orders(u, o) :
       /\ \A k \in 1..Len(list.seen) : list.seen[k] = s[k]
       /\ Reading => list.items = PageOf(s, o)
  /\ Reading => Orders(u, o) # {}
  /\ list.phase = "answered" =>
       (list.hasNext <=> o.page < TotalPages(list.total, o.limit))

WalkInv == ListInv /\ Keyed /\ (Walking => OnTheWay(list.user, list.o))

(* Rows keep their keys.                                                   *)
LEMMA KeysStay ==
  ASSUME ListInv, Keyed, [Next]_vars
  PROVE  Keyed'
<1>1. CASE \E i \in Ids : Insert(i)
  <2>1. PICK i \in Ids : table' = [table EXCEPT ![i] = Content[i]]
    BY <1>1 DEF Insert, Wrote
  <2>2. Content[i].id = i
    BY ListQueryAssumption
  <2>3. ASSUME NEW j \in Rows', j # i PROVE j \in Rows /\ table'[j] = table[j]
    BY <2>1, <2>3 DEF Rows, ListInv, Typed
  <2>4. table'[i] = Content[i]
    BY <2>1 DEF ListInv, Typed
  <2> QED
    BY <2>2, <2>3, <2>4 DEF Keyed
<1>2. \A i \in Rows : table[i] \in Row
  BY DEF ListInv, Typed, Rows
<1>3. \A i \in Rows : [table[i] EXCEPT !.deleted = TRUE].id = table[i].id
         /\ \A a \in Amounts : [table[i] EXCEPT !.amount = a].id = table[i].id
  BY <1>2 DEF Row
<1>4. CASE \E u \in Users, i \in Ids : Delete(u, i)
  BY <1>3, <1>4 DEF Delete, Mine, Wrote, Keyed, Rows, ListInv, Typed
<1>5. CASE \E u \in Users, i \in Ids, a \in Amounts : Update(u, i, a)
  BY <1>3, <1>5 DEF Update, Mine, Wrote, Keyed, Rows, ListInv, Typed
<1>6. CASE \E u \in Users, I \in SUBSET Ids : DeleteMany(u, I)
  <2>1. ASSUME NEW i \in Rows'
        PROVE  i \in Rows /\ table'[i] \in {table[i], [table[i] EXCEPT !.deleted = TRUE]}
    BY <1>6, <2>1 DEF DeleteMany, Mine, Rows
  <2> QED
    BY <1>3, <2>1 DEF Keyed
<1>7. CASE UNCHANGED table
  BY <1>7 DEF Keyed, Rows
<1> QED
  BY <1>1, <1>4, <1>5, <1>6, <1>7 DEF Next, vars, Ask, Refuse, Select, Count, NextPage, Leave

(* A write ends the walk, or writes nothing.                               *)
LEMMA WriteEndsWalk ==
  ASSUME WalkInv, list' = Disturbed \/ (table' = table /\ list' = list), Walking'
  PROVE  OnTheWay(list.user, list.o)'
<1>1. CASE table' = table /\ list' = list
  <2>1. Walking /\ Matching(list.user, list.o)' = Matching(list.user, list.o)
          /\ Orders(list.user, list.o)' = Orders(list.user, list.o)
    BY <1>1 DEF Walking, Matching, Rows, Orders
  <2> QED
    BY <1>1, <2>1 DEF WalkInv, OnTheWay, Reading
<1>2. CASE list' = Disturbed
  <2>1. CASE list \in Walks
    BY <1>2, <2>1 DEF Disturbed, Walks, Walking
  <2>2. CASE list \in {NoList, Refused}
    BY <1>2, <2>2 DEF Disturbed, Walks, Walking, NoList, Refused
  <2> QED
    BY <2>1, <2>2 DEF WalkInv, ListInv, Typed
<1> QED
  BY <1>1, <1>2

LEMMA AskStartsWalk ==
  ASSUME WalkInv, NEW u \in Users, NEW q \in Requests, Ask(u, q), Walking'
  PROVE  OnTheWay(list.user, list.o)'
<1>1. /\ list'.seen = <<>> /\ list'.phase = "asked" /\ list'.o = ParseValues(q)
      /\ list'.first = Given(q.page, 1)
  BY DEF Ask
<1>2. list'.o.page = 1
  BY <1>1 DEF Walking, ParseValues
<1>3. list'.o \in Asked
  BY DEF Walking, Walks
<1>4. list'.o.limit \in 1..MaxLimit
  BY <1>3, AskedIs
<1>5. \A l \in 1..MaxLimit : (1 - 1) * l = 0
  BY QueryParseAssumption
<1>6. Cardinality(Matching(list'.user, list'.o)) \in Nat
  BY MatchingIsFinite
<1>7. table' = table
  BY DEF Ask
<1>8. Matching(list.user, list.o)' = Matching(list'.user, list'.o)
  BY <1>7 DEF Matching, Rows
<1>9. Len(list'.seen) = 0 /\ (list'.o.page - 1) * list'.o.limit = 0
  BY <1>1, <1>2, <1>4, <1>5
<1>10. \A k \in 1..0 : FALSE
  OBVIOUS
<1> QED
  BY <1>1, <1>6, <1>8, <1>9, <1>10 DEF OnTheWay, Reading

(* On the way, a page starts within the result.                            *)
LEMMA HereIs ==
  ASSUME WalkInv, Walking
  PROVE  LET o == list.o
             M == Matching(list.user, o)
         IN  /\ o \in Asked /\ o.page \in Nat \ {0} /\ o.limit \in Nat \ {0}
             /\ list.seen \in Seq(Ids) /\ list.items \in Seq(Ids)
             /\ (o.page - 1) * o.limit = Len(list.seen) /\ Len(list.seen) \in Nat
             /\ o.page * o.limit = Len(list.seen) + o.limit
             /\ Cardinality(M) \in Nat /\ Len(list.seen) <= Cardinality(M)
<1> DEFINE o == list.o
<1>1. o \in Asked /\ list.seen \in Seq(Ids) /\ list.items \in Seq(Ids)
  BY DEF Walking, Walks
<1>2. o.page \in Nat \ {0} /\ o.limit \in Nat \ {0}
  <2>1. o.page \in Nat \ {0} /\ o.limit \in 1..MaxLimit
    BY <1>1, AskedIs
  <2>2. \A l \in 1..MaxLimit : l \in Nat \ {0}
    BY QueryParseAssumption
  <2> QED
    BY <2>1, <2>2
<1>3. \A p, l \in Nat \ {0} : p * l = (p - 1) * l + l
  OBVIOUS
<1>4. Cardinality(Matching(list.user, o)) \in Nat
  BY MatchingIsFinite
<1>5. /\ (o.page - 1) * o.limit = Len(list.seen)
      /\ Len(list.seen) <= Cardinality(Matching(list.user, o))
  BY DEF WalkInv, OnTheWay
<1>6. Len(list.seen) \in Nat
  BY <1>1
<1>7. o.page * o.limit = Len(list.seen) + o.limit
  BY <1>2, <1>3, <1>5
<1> QED
  BY <1>1, <1>2, <1>4, <1>5, <1>6, <1>7

LEMMA SelectWalksOn ==
  ASSUME WalkInv, Select, Walking', ListInv'
  PROVE  OnTheWay(list.user, list.o)'
<1>1. list \in Walks /\ list.phase = "asked"
  BY DEF WalkInv, ListInv, Typed, Select, NoList, Refused
<1>2. PICK s \in Orders(list.user, list.o) :
        LET items == PageOf(s, list.o) IN
        IF ~list.o.withTotal THEN Answered(list, items, -1)
        ELSE IF WholeResult(list.o, Len(items)) THEN Answered(list, items, Len(items))
        ELSE list' = [list EXCEPT !.phase = "counting", !.items = items]
  BY DEF Select
<1> DEFINE items == PageOf(s, list.o)
<1>a. \/ list' = [list EXCEPT !.phase = "counting", !.items = items]
      \/ \E total : Answered(list, items, total)
  BY <1>2
<1> HIDE DEF items
<1>3. /\ list'.user = list.user /\ list'.o = list.o /\ list'.quiet = list.quiet
      /\ list'.first = list.first /\ list'.seen = list.seen /\ list'.items = items
      /\ list'.phase = "answered" =>
           (list'.hasNext <=> (list'.o.page < TotalPages(list'.total, list'.o.limit)))
  <2>1. CASE list' = [list EXCEPT !.phase = "counting", !.items = items]
    BY <1>1, <2>1 DEF Walks
  <2>2. CASE \E total : Answered(list, items, total)
    <3>1. PICK total : Answered(list, items, total)
      BY <2>2
    <3> DEFINE more == list.o.page < TotalPages(total, list.o.limit)
    <3>2. list' = [list EXCEPT !.phase = "answered", !.items = items, !.total = total,
                               !.hasNext = more]
      BY <3>1 DEF Answered
    <3> HIDE DEF more
    <3>3. /\ list'.user = list.user /\ list'.o = list.o /\ list'.quiet = list.quiet
          /\ list'.first = list.first /\ list'.seen = list.seen /\ list'.items = items
          /\ list'.hasNext = more /\ list'.total = total
      BY <1>1, <3>2 DEF Walks
    <3> QED
      BY <3>3 DEF more
  <2> QED
    BY <1>a, <2>1, <2>2
<1>4. Walking
  BY <1>1, <1>3 DEF Walking
<1>5. table' = table
  BY DEF Select
<1>6. /\ Matching(list.user, list.o)' = Matching(list.user, list.o)
      /\ Orders(list.user, list.o)' = Orders(list.user, list.o)
  BY <1>3, <1>5 DEF Matching, Rows, Orders
<1>7. \A t \in Orders(list.user, list.o) : t = s
  BY <1>1, <1>4, OneOrder DEF WalkInv, ListInv, Walking, Walks
<1>8. OnTheWay(list.user, list.o)
  BY <1>4 DEF WalkInv
<1> QED
  BY <1>2, <1>3, <1>6, <1>7, <1>8 DEF OnTheWay, items

LEMMA CountWalksOn ==
  ASSUME WalkInv, Count, Walking'
  PROVE  OnTheWay(list.user, list.o)'
<1>1. list \in Walks /\ Reading
  BY DEF WalkInv, ListInv, Typed, Count, NoList, Refused, Reading
<1> DEFINE n == Cardinality(Matching(list.user, list.o))
<1>2. Answered(list, list.items, n) /\ table' = table
  BY DEF Count
<1> HIDE DEF n
<1>3. /\ list'.user = list.user /\ list'.o = list.o /\ list'.quiet = list.quiet
      /\ list'.first = list.first /\ list'.seen = list.seen /\ list'.items = list.items
      /\ (list'.hasNext <=> list'.o.page < TotalPages(list'.total, list'.o.limit))
  BY <1>1, <1>2 DEF Answered, Walks
<1>4. Walking
  BY <1>1, <1>3 DEF Walking
<1>5. /\ Matching(list.user, list.o)' = Matching(list.user, list.o)
      /\ Orders(list.user, list.o)' = Orders(list.user, list.o)
  BY <1>2, <1>3 DEF Matching, Rows, Orders
<1>6. OnTheWay(list.user, list.o)
  BY <1>4 DEF WalkInv
<1> QED
  BY <1>1, <1>3, <1>5, <1>6 DEF OnTheWay

(* How far m rows of a page of at most l reach from off into n rows.       *)
LEMMA PageReach ==
  ASSUME NEW l \in Nat, NEW n \in Nat, NEW off \in Nat, NEW m, off <= n,
         m = IF l <= n - off THEN l ELSE n - off
  PROVE  /\ off + l < n => m = l /\ off + m <= n
         /\ ~(off + l < n) => off + m = n
OBVIOUS

(* A page that has a next one is full.                                     *)
LEMMA FullPage ==
  ASSUME WalkInv, Walking, list.phase = "answered", NEW s \in Orders(list.user, list.o)
  PROVE  LET size == Len(list.items)
             n == Cardinality(Matching(list.user, list.o))
         IN  /\ \A k \in 1..size : list.items[k] = s[Len(list.seen) + k]
             /\ list.hasNext => size = list.o.limit /\ Len(list.seen) + size <= n
             /\ ~list.hasNext /\ list.total # -1 => Len(list.seen) + size = n
<1> DEFINE o == list.o
           off == Len(list.seen)
           n == Cardinality(Matching(list.user, o))
<1>1. /\ o \in Asked /\ o.page \in Nat \ {0} /\ o.limit \in Nat \ {0}
      /\ off = (o.page - 1) * o.limit /\ off \in Nat /\ o.page * o.limit = off + o.limit
      /\ n \in Nat /\ off <= n
  BY HereIs
<1>2. list.items = PageOf(s, o) /\ (list.hasNext <=> o.page < TotalPages(list.total, o.limit))
  BY DEF WalkInv, OnTheWay, Reading
<1> HIDE DEF o, off, n
<1>3. /\ Len(list.items) = IF o.limit <= n - off THEN o.limit ELSE n - off
      /\ \A k \in 1..Len(list.items) : list.items[k] = s[off + k]
  <2>1. /\ Len(PageOf(s, o)) = IF o.limit <= n - off THEN o.limit ELSE n - off
        /\ \A k \in 1..Len(PageOf(s, o)) : PageOf(s, o)[k] = s[off + k]
    <3>1. s \in Orders(list.user, o) /\ n = Cardinality(Matching(list.user, o))
      BY DEF o, n
    <3>2. n \in Nat /\ off \in Nat /\ off = (o.page - 1) * o.limit /\ off <= n /\ o \in Asked
      BY <1>1
    <3> QED
      BY <3>1, <3>2, PageWithin
  <2> QED
    BY <1>2, <2>1
<1>4. list.total \in Nat \union {-1} /\ (list.total # -1 => list.total = n)
  BY DEF WalkInv, ListInv, TotalHonest, Walking, Walks, n, o
<1>5. CASE list.total = -1
  <2>1. TotalPages(list.total, o.limit) = 0
    BY <1>5 DEF TotalPages
  <2>2. ~list.hasNext
    BY <1>1, <1>2, <2>1
  <2> QED
    BY <1>3, <1>5, <2>2 DEF off, n, o
<1>6. CASE list.total = n
  <2>1. list.hasNext <=> (o.page * o.limit < n)
    BY <1>1, <1>2, <1>6, MorePages
  <2>2. list.hasNext <=> (off + o.limit < n)
    BY <1>1, <2>1
  <2>a. Len(list.items) = IF o.limit <= n - off THEN o.limit ELSE n - off
    BY <1>3
  <2>b. o.limit \in Nat /\ n \in Nat /\ off \in Nat /\ off <= n
    BY <1>1
  <2>c. /\ off + o.limit < n => Len(list.items) = o.limit /\ off + Len(list.items) <= n
        /\ ~(off + o.limit < n) => off + Len(list.items) = n
    BY ONLY <2>a, <2>b, PageReach
  <2>3. list.hasNext => Len(list.items) = o.limit /\ off + Len(list.items) <= n
    BY <2>2, <2>c
  <2>4. ~list.hasNext => off + Len(list.items) = n
    BY <2>2, <2>c
  <2> QED
    BY <1>3, <2>3, <2>4 DEF off, n, o
<1> QED
  BY <1>4, <1>5, <1>6

\* The rows x are those of s after the first off.
Piece(x, off, s) == \A k \in 1..Len(x) : x[k] = s[off + k]

(* What is put together of two pieces of an order is a piece of it.        *)
LEMMA PiecesAdd ==
  ASSUME NEW a \in Seq(Ids), NEW b \in Seq(Ids), NEW s,
         Piece(a, 0, s), Piece(b, Len(a), s)
  PROVE  /\ a \o b \in Seq(Ids) /\ Len(a \o b) = Len(a) + Len(b)
         /\ Piece(a \o b, 0, s)
<1>0. PICK m \in Nat, n \in Nat : m = Len(a) /\ n = Len(b)
  OBVIOUS
<1>1. a \o b \in Seq(Ids) /\ Len(a \o b) = m + n
  BY <1>0
<1>2. ASSUME NEW k \in 1..(m + n) PROVE (a \o b)[k] = s[k]
  <2>1. CASE k <= m
    <3>1. (a \o b)[k] = a[k] /\ k \in 1..m
      BY <1>0, <2>1
    <3> QED
      BY <1>0, <3>1 DEF Piece
  <2>2. CASE k > m
    <3>1. k - m \in 1..n /\ m + (k - m) = k
      BY <2>2
    <3>2. (a \o b)[k] = b[k - m]
      BY <1>0, <2>2
    <3>3. PICK j \in 1..n : j = k - m /\ m + j = k
      BY <3>1
    <3>4. b[j] = s[m + j]
      BY <1>0 DEF Piece
    <3> QED
      BY <3>2, <3>3, <3>4
  <2>3. k <= m \/ k > m
    OBVIOUS
  <2> QED
    BY <2>1, <2>2, <2>3
<1> QED
  BY <1>0, <1>1, <1>2 DEF Piece

(* Going on adds a full page to what has been seen.                        *)
LEMMA NextPageWalksOn ==
  ASSUME WalkInv, NextPage, Walking'
  PROVE  OnTheWay(list.user, list.o)'
<1>1. list \in Walks /\ list.phase = "answered" /\ list.hasNext
  BY DEF WalkInv, ListInv, Typed, NextPage, NoList, Refused
<1> DEFINE o == list.o
           p == [o EXCEPT !.page = o.page + 1]
           off == Len(list.seen)
           seen == list.seen \o list.items
           n == Cardinality(Matching(list.user, o))
<1>2. /\ list'.user = list.user /\ list'.o = p /\ list'.quiet = list.quiet
      /\ list'.first = list.first /\ list'.seen = seen /\ list'.phase = "asked"
  BY <1>1 DEF NextPage, Walks
<1>3. o \in Asked
  BY <1>1 DEF Walks
<1>4. /\ p.page = o.page + 1 /\ p.limit = o.limit
      /\ Matching(list.user, p) = Matching(list.user, o)
      /\ Orders(list.user, p) = Orders(list.user, o)
      /\ UniqueSort(p) = UniqueSort(o)
  BY <1>3, PageDoesNotMatter
<1>5. Walking
  BY <1>1, <1>2, <1>4 DEF Walking
<1>6. table' = table
  BY DEF NextPage
<1>7. /\ Matching(list.user, list.o)' = Matching(list.user, o)
      /\ Orders(list.user, list.o)' = Orders(list.user, o)
  <2>1. /\ Matching(list.user, list.o)' = Matching(list'.user, list'.o)
        /\ Orders(list.user, list.o)' = Orders(list'.user, list'.o)
    BY <1>6 DEF Matching, Rows, Orders
  <2> QED
    BY <1>2, <1>4, <2>1
<1>8. /\ o.page \in Nat \ {0} /\ o.limit \in Nat \ {0} /\ off \in Nat
      /\ list.seen \in Seq(Ids) /\ list.items \in Seq(Ids)
      /\ o.page * o.limit = off + o.limit
  BY <1>5, HereIs
<1>9. Orders(list.user, o) # {}
  BY <1>1, <1>5 DEF WalkInv, OnTheWay, Reading
<1>10. Len(list.items) = o.limit /\ off + o.limit <= n
  BY <1>1, <1>5, <1>9, FullPage
<1>11. Len(seen) = off + o.limit
  <2>1. Len(seen) = off + Len(list.items)
    BY <1>8
  <2> QED
    BY <1>10, <2>1
<1>12. ASSUME NEW s \in Orders(list.user, o)
       PROVE  \A k \in 1..Len(seen) : seen[k] = s[k]
  <2>1. \A k \in 1..off : list.seen[k] = s[k]
    BY <1>5 DEF WalkInv, OnTheWay
  <2>2. \A k \in 1..Len(list.items) : list.items[k] = s[off + k]
    BY <1>1, <1>5, FullPage
  <2>3. Len(list.items) \in Nat
    BY <1>8
  <2> HIDE DEF o
  <2>4. Piece(list.seen, 0, s) /\ Piece(list.items, Len(list.seen), s)
    BY <2>1, <2>2 DEF Piece
  <2>5. Piece(seen, 0, s)
    BY <1>8, <2>4, PiecesAdd
  <2>6. \A k \in 1..Len(seen) : 0 + k = k
    BY <1>8, <1>11
  <2> HIDE DEF seen
  <2> QED
    BY <2>5, <2>6 DEF Piece
<1>13. (p.page - 1) * p.limit = off + o.limit
  BY <1>4, <1>8
<1> HIDE DEF o, p, off, seen, n
<1>14. Len(list'.seen) = (list'.o.page - 1) * list'.o.limit
  BY <1>2, <1>11, <1>13
<1>15. Len(list'.seen) <= Cardinality(Matching(list.user, list.o)')
  BY <1>2, <1>7, <1>10, <1>11 DEF n
<1>16. \A s \in Orders(list.user, list.o)' : \A k \in 1..Len(list'.seen) : list'.seen[k] = s[k]
  BY <1>2, <1>7, <1>12
<1> QED
  BY <1>2, <1>14, <1>15, <1>16 DEF OnTheWay, Reading

(* The walk is one in every state that is reached.                         *)
THEOREM WalkInductive == Spec => []WalkInv
<1>1. Init => WalkInv
  <2> SUFFICES ASSUME Init PROVE WalkInv
    OBVIOUS
  <2>1. ListInv
    BY DEF Init, ListInv, Typed, RowsAreOwn, Reading, TotalHonest, NoList
  <2> QED
    BY <2>1 DEF Init, WalkInv, Keyed, Rows, Walking, Walks, NoList
<1>2. WalkInv /\ ListInv' /\ [Next]_vars => WalkInv'
  <2> SUFFICES ASSUME WalkInv, ListInv', [Next]_vars, Walking'
               PROVE  OnTheWay(list.user, list.o)'
    BY KeysStay DEF WalkInv
  <2>1. CASE \E u \in Users, i \in Ids :
               Insert(i) \/ Delete(u, i) \/ \E a \in Amounts : Update(u, i, a)
    BY <2>1, WriteEndsWalk DEF Insert, Delete, Update, Wrote
  <2>2. CASE \E u \in Users, I \in SUBSET Ids : DeleteMany(u, I)
    BY <2>2, WriteEndsWalk DEF DeleteMany
  <2>3. CASE \E q \in Requests, u \in Users : Ask(u, q)
    BY <2>3, AskStartsWalk
  <2>4. CASE Leave \/ \E q \in Requests : Refuse(q)
    BY <2>4 DEF Leave, Refuse, Walking, Walks, NoList
  <2>5. CASE Select
    BY <2>5, SelectWalksOn
  <2>6. CASE Count
    BY <2>6, CountWalksOn
  <2>7. CASE NextPage
    BY <2>7, NextPageWalksOn
  <2>8. CASE UNCHANGED vars
    BY <2>8, WriteEndsWalk DEF vars
  <2> QED
    BY <2>1, <2>2, <2>3, <2>4, <2>5, <2>6, <2>7, <2>8 DEF Next
<1> QED
  BY <1>1, <1>2, ListInductive, PTL DEF Spec

(* With nothing written meanwhile and a sort that has no ties, the pages   *)
(* add up to the matching rows, each once and in order.                    *)
THEOREM WalksAreComplete == Spec => []WalkComplete
<1>1. WalkInv => WalkComplete
  <2> DEFINE walk == list.seen \o list.items
             n == Cardinality(Matching(list.user, list.o))
             off == Len(list.seen)
  <2> SUFFICES ASSUME WalkInv, list.phase = "answered", list.quiet, list.total # -1,
                      ~list.hasNext, list.first = 1, UniqueSort(list.o)
               PROVE  walk \in Orders(list.user, list.o)
    BY DEF WalkComplete
  <2>1. Walking
    BY DEF WalkInv, ListInv, Typed, Walking, NoList, Refused
  <2>2. PICK s \in Orders(list.user, list.o) : TRUE
    BY <2>1 DEF WalkInv, OnTheWay, Reading
  <2>3. /\ \A k \in 1..Len(list.items) : list.items[k] = s[off + k]
        /\ off + Len(list.items) = n
    BY <2>1, FullPage
  <2>4. \A k \in 1..off : list.seen[k] = s[k]
    BY <2>1 DEF WalkInv, OnTheWay
  <2>5. list.seen \in Seq(Ids) /\ list.items \in Seq(Ids) /\ off \in Nat /\ n \in Nat
    BY <2>1, HereIs
  <2>6. Len(list.items) \in Nat
    BY <2>5
  <2>7. walk \in Seq(Ids) /\ Len(walk) = n /\ \A k \in 1..n : walk[k] = s[k]
    <3>1. Piece(list.seen, 0, s) /\ Piece(list.items, Len(list.seen), s)
      BY <2>3, <2>4 DEF Piece
    <3>2. walk \in Seq(Ids) /\ Len(walk) = n /\ Piece(walk, 0, s)
      BY <2>3, <2>5, <3>1, PiecesAdd
    <3> HIDE DEF walk, n
    <3> QED
      BY <2>5, <3>2 DEF Piece
  <2>9. s = [k \in 1..n |-> s[k]]
    BY DEF Orders, Injection
  <2> HIDE DEF walk, n
  <2>10. walk = [k \in 1..n |-> walk[k]]
    BY <2>7
  <2>11. walk = s
    BY <2>7, <2>9, <2>10
  <2> QED
    BY <2>11
<1> QED
  BY <1>1, WalkInductive, PTL
=============================================================================
