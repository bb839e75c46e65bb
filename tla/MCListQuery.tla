---------------------------- MODULE MCListQuery ----------------------------
(***************************************************************************)
(* A small instance of ListQuery for TLC: four rows, three of them of one  *)
(* user, with ties, NULLs and two days, and the requests worth telling     *)
(* apart.                                                                  *)
(***************************************************************************)
EXTENDS ListQuery

Amount(whole, frac) == [neg |-> FALSE, whole |-> whole, frac |-> frac]
Date(day) == [day |-> day, timed |-> FALSE]
At(day) == [day |-> day, timed |-> TRUE]

MCAmounts == {150, 151}

MCContent ==
  [i \in 1..4 |->
    [id |-> i, owner |-> IF i = 4 THEN "bob" ELSE "ana", deleted |-> FALSE,
     amount |-> IF i = 2 THEN 151 ELSE 150,
     at |-> CASE i = 1 -> Instant(1, 0) [] i = 2 -> Instant(1, 1) [] OTHER -> Instant(2, 1),
     note |-> IF i \in {1, 4} THEN "tea" ELSE None,
     merchant |-> IF i = 2 THEN "tea" ELSE None]]

Plain == [page |-> None, limit |-> None, search |-> None, sort |-> <<>>, from |-> None,
          to |-> None, filters |-> {}, withTotal |-> TRUE]

Filter(f, o, r) == [Plain EXCEPT !.filters = {[field |-> f, op |-> o, raw |-> r]}]
By(f) == [field |-> f, desc |-> FALSE]

MCRequests ==
  {[Plain EXCEPT !.limit = l] : l \in {1, 2, None}}
  \union {[Plain EXCEPT !.sort = s, !.limit = 1] :
            s \in {<<By("amount")>>, <<By("amount"), By("id")>>, <<By("id"), By("id")>>,
                   <<By("note")>>}}
  \union {[Plain EXCEPT !.search = "tea"], [Plain EXCEPT !.withTotal = FALSE],
          [Plain EXCEPT !.page = 2, !.limit = 2], [Plain EXCEPT !.page = 600, !.limit = 2],
          [Plain EXCEPT !.page = 0], [Plain EXCEPT !.limit = 9]}
  \union {[Plain EXCEPT !.from = d, !.to = e] :
            d \in {Date(1), At(2)}, e \in {Date(1), None, Bad}}
  \union {Filter("amount", o, <<Amount(1, f)>>) :
            o \in {None, "gt", "lte"}, f \in {<<5, 0, 5>>}}
  \union {Filter("note", o, <<"tea">>) : o \in {None, "eq", "ne", "in", "nin"}}
  \union {Filter("note", "null", <<b>>) : b \in BOOLEAN}
  \union {Filter("at", "between", <<Date(1), d>>) : d \in {Date(1), At(1), Bad}}
  \union {Filter("at", "lt", <<Date(1)>>), Filter("at", "has", <<Date(1)>>),
          Filter("merchant", "eq", <<"tea">>), Filter("amount", "between", <<Amount(1, <<>>)>>)}
=============================================================================
