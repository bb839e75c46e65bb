------------------------- MODULE RateLimiterProofs -------------------------
(***************************************************************************)
(* Theorems about the rate limiter, for every limit, window and number of  *)
(* callers: what the headers promise is kept, and nobody gets a burst.     *)
(*                                                                         *)
(* HeaderInv is inductive: no slot after the last header's has been        *)
(* counted in (NothingAhead), what that header says is left fits under the *)
(* limit (RoomKept), and a wait it asks for ends in a later slot           *)
(* (WaitEnough).                                                           *)
(*                                                                         *)
(* BurstInv is inductive where the limiter fails closed and a call ends    *)
(* well within a window.  Whatever was let through has been counted, and a *)
(* counter outlives the next slot (CountsKept).  Of two neighbouring slots *)
(* PairKept keeps what the last request of the later one has found in the  *)
(* counters: the requests of the earlier one, but for those still under    *)
(* way when it was judged (Near); and where the earlier counter may be     *)
(* forgotten before the last of them are judged, the same without those    *)
(* (Tight).                                                                *)
(***************************************************************************)
EXTENDS RateLimiter, FiniteSetTheorems, TLAPS

-----------------------------------------------------------------------------
(* Arithmetic.                                                             *)

LEMMA MaxOfTwo ==
  ASSUME NEW a \in Int, NEW b \in Int
  PROVE  Max({a, b}) = IF a >= b THEN a ELSE b
<1>1. \E x \in {a, b} : \A y \in {a, b} : x >= y
  OBVIOUS
<1>2. Max({a, b}) \in {a, b} /\ \A y \in {a, b} : Max({a, b}) >= y
  BY <1>1 DEF Max
<1> QED
  BY <1>2

LEMMA Clockwork ==
  ASSUME NEW t \in Nat
  PROVE  /\ slot(t) \in Nat /\ elapsed(t) \in Nat /\ elapsed(t) < Window
         /\ t = slot(t) * Window + elapsed(t)
BY RateLimiterAssumption DEF slot, elapsed

LEMMA ProductsOrdered ==
  ASSUME NEW a \in Nat, NEW b \in Nat, NEW m \in Nat, NEW n \in Nat, a <= b, m <= n
  PROVE  a * m <= b * n /\ a * m \in Nat
OBVIOUS

LEMMA SlotsOrdered ==
  ASSUME NEW t \in Nat, NEW u \in Nat, t <= u
  PROVE  /\ slot(t) <= slot(u)
         /\ slot(t) = slot(u) => elapsed(t) <= elapsed(u)
BY RateLimiterAssumption DEF slot, elapsed

LEMMA TimesHaveSlots ==
  ASSUME NEW t \in Times
  PROVE  slot(t) \in Slots /\ t \in Nat
BY RateLimiterAssumption, SlotsOrdered DEF Times, Slots, slot

-----------------------------------------------------------------------------
(* The counters.                                                           *)

KeyType == [count : 0..Limit, expires : Nat]

LEMMA Counted ==
  ASSUME TypeOK, NEW s \in Int
  PROVE  GetCounter(s) \in 0..Limit
<1>1. s \in Slots => key[s] \in KeyType
  BY DEF TypeOK, KeyType
<1> QED
  BY <1>1, RateLimiterAssumption DEF GetCounter, KeyType

LEMMA UsedTyped ==
  ASSUME TypeOK, NEW t \in Nat
  PROVE  /\ used(t) \in Nat
         /\ GetCounter(slot(t)) * Window <= used(t)
         /\ GetCounter(slot(t) - 1) * (Window - elapsed(t)) \in Nat
<1> DEFINE a == GetCounter(slot(t) - 1)
           b == GetCounter(slot(t))
           w == Window - elapsed(t)
<1>0. slot(t) \in Int /\ slot(t) - 1 \in Int
  BY Clockwork
<1>1. a \in Nat /\ b \in Nat /\ w \in Nat /\ Window \in Nat
  <2>1. a \in 0..Limit /\ b \in 0..Limit
    BY <1>0, Counted
  <2>2. Limit \in Nat /\ Window \in Nat
    BY RateLimiterAssumption
  <2>3. elapsed(t) \in Nat /\ elapsed(t) < Window
    BY Clockwork
  <2>4. w \in Nat
    BY <2>2, <2>3
  <2>5. a \in Nat /\ b \in Nat
    <3> HIDE DEF a, b
    <3> QED
      BY <2>1, <2>2
  <2> QED
    BY <2>2, <2>4, <2>5
<1>2. used(t) = a * w + b * Window
  BY DEF used
<1> HIDE DEF a, b, w
<1>3. a * w \in Nat /\ b * Window \in Nat
  BY <1>1
<1> QED
  BY <1>2, <1>3 DEF a, b, w

(* Who is let through finds the counter of its slot below the limit.       *)
LEMMA AllowedBelow ==
  ASSUME TypeOK, NEW t \in Nat, Allows(t)
  PROVE  GetCounter(slot(t)) < Limit
<1> DEFINE b == GetCounter(slot(t))
<1>1. b \in 0..Limit /\ b * Window <= used(t) /\ used(t) \in Nat
  BY Clockwork, Counted, UsedTyped
<1>2. used(t) < Limit * Window
  BY DEF Allows
<1>3. Window \in Nat /\ Limit \in Nat /\ Limit * Window \in Nat
  BY RateLimiterAssumption
<1> HIDE DEF b
<1>4. b = Limit => b * Window = Limit * Window
  OBVIOUS
<1>5. b * Window \in Nat
  BY <1>1, <1>3
<1>6. b # Limit
  BY <1>1, <1>2, <1>3, <1>4, <1>5
<1> QED
  BY <1>1, <1>3, <1>6 DEF b

(* A request that is let through costs one.                                *)
LEMMA IncrCounts ==
  ASSUME TypeOK, NEW t \in Times, Allows(t), Incr(t), now' = now
  PROVE  /\ key' \in [Slots -> KeyType]
         /\ \A s \in Slots \ {slot(t)} : key'[s] = key[s]
         /\ used(t)' = used(t) + Window
<1> DEFINE s == slot(t)
<1>a. s \in Slots /\ t \in Nat /\ s \in Nat
  BY TimesHaveSlots, Clockwork
<1>b. Window \in Nat \ {0} /\ keyTTL \in Nat \ {0} /\ Limit \in Nat \ {0}
  BY RateLimiterAssumption DEF keyTTL
<1>c. now \in Nat /\ key \in [Slots -> KeyType]
  BY DEF TypeOK, KeyType, Times
<1>d. slot(t)' = slot(t) /\ elapsed(t)' = elapsed(t)
  BY DEF slot, elapsed
<1>1. /\ s \in Slots /\ t \in Nat /\ s \in Nat /\ now \in Nat /\ key \in [Slots -> KeyType]
      /\ Window \in Nat \ {0} /\ keyTTL \in Nat \ {0} /\ Limit \in Nat \ {0}
      /\ slot(t)' = slot(t) /\ elapsed(t)' = elapsed(t)
  BY <1>a, <1>b, <1>c, <1>d
<1>2. GetCounter(s) \in 0..Limit /\ GetCounter(s) < Limit
  BY <1>1, Counted, AllowedBelow
<1>3. /\ GetCounter(s) = 0 => key'[s] = [count |-> 1, expires |-> now + keyTTL]
      /\ GetCounter(s) # 0 =>
           key'[s] = [count |-> key[s].count + 1, expires |-> key[s].expires]
      /\ \A r \in Slots \ {s} : key'[r] = key[r]
      /\ key' = [r \in Slots |-> key'[r]]
  BY <1>1 DEF Incr
<1>4. GetCounter(s) # 0 => key[s].expires > now /\ key[s].count = GetCounter(s)
  BY DEF GetCounter
<1>5. key'[s] \in KeyType /\ key'[s].count = GetCounter(s) + 1 /\ key'[s].expires > now
  BY <1>1, <1>2, <1>3, <1>4 DEF KeyType
<1>6. key' \in [Slots -> KeyType]
  BY <1>1, <1>3, <1>5
<1>7. GetCounter(s)' = GetCounter(s) + 1
  BY <1>1, <1>5 DEF GetCounter
<1>8. GetCounter(s - 1)' = GetCounter(s - 1)
  BY <1>1, <1>3 DEF GetCounter
<1> DEFINE a == GetCounter(s - 1) * (Window - elapsed(t))
           b == GetCounter(s)
<1>9. used(t)' = a + (b + 1) * Window /\ used(t) = a + b * Window
  BY <1>1, <1>7, <1>8 DEF used
<1>10. a \in Nat /\ b \in Nat
  BY <1>1, <1>2, UsedTyped
<1> HIDE DEF a, b
<1>11. (b + 1) * Window = b * Window + Window
  BY <1>1, <1>10
<1> QED
  BY <1>1, <1>3, <1>6, <1>9, <1>10, <1>11
-----------------------------------------------------------------------------
(* What the last header has promised is still there.                       *)

\* Nothing is counted in a slot that no request was stamped in.
NothingAhead == \A s \in Slots : s > slot(header.at) => key[s].count = 0

\* What the header says is left fits under the limit.
RoomKept == header.room > 0 => used(header.at) + header.room * Window <= Limit * Window

\* Whoever is told to wait is told to wait for the next slot.
WaitEnough ==
  header.until = MaxTime \/ header.until >= (slot(header.at) + 1) * Window

HeaderInv == TypeOK /\ NothingAhead /\ RoomKept /\ WaitEnough

LEMMA AheadEmpty ==
  ASSUME TypeOK, NothingAhead, NEW s \in Int, s > slot(header.at)
  PROVE  GetCounter(s) = 0
BY DEF GetCounter, NothingAhead

(* The room there is only grows with the stamp.                            *)
LEMMA UsedLater ==
  ASSUME TypeOK, NothingAhead, NEW t \in Times, header.at <= t
  PROVE  used(t) <= used(header.at)
<1> DEFINE u == header.at
<1>1. /\ t \in Nat /\ u \in Nat /\ Window \in Nat \ {0} /\ u <= t
      /\ slot(t) \in Nat /\ slot(u) \in Nat /\ slot(u) <= slot(t)
      /\ elapsed(t) \in 0..Window /\ elapsed(u) \in 0..Window
      /\ slot(t) = slot(u) => elapsed(u) <= elapsed(t)
  <2>1. t \in Nat /\ header.at \in Nat /\ Window \in Nat \ {0}
    BY RateLimiterAssumption DEF TypeOK, Times
  <2>2. u <= t
    OBVIOUS
  <2> HIDE DEF u
  <2>3. u \in Nat
    BY <2>1 DEF u
  <2>a. \A n \in Nat : slot(n) \in Nat /\ elapsed(n) \in Nat /\ elapsed(n) < Window
    BY Clockwork
  <2>4. /\ slot(t) \in Nat /\ elapsed(t) \in 0..Window
        /\ slot(u) \in Nat /\ elapsed(u) \in 0..Window
    BY <2>1, <2>3, <2>a
  <2>5. slot(u) <= slot(t) /\ (slot(u) = slot(t) => elapsed(u) <= elapsed(t))
    BY <2>1, <2>2, <2>3, SlotsOrdered
  <2> QED
    BY <2>1, <2>2, <2>3, <2>4, <2>5
<1>2. /\ GetCounter(slot(t) - 1) \in Nat /\ GetCounter(slot(t)) \in Nat
      /\ GetCounter(slot(u) - 1) \in Nat /\ GetCounter(slot(u)) \in Nat
  <2>1. \A s \in Int : GetCounter(s) \in Nat
    BY Counted
  <2> QED
    BY <1>1, <2>1
<1>3. used(u) \in Nat /\ GetCounter(slot(u)) * Window <= used(u)
  <2> HIDE DEF u
  <2> QED
    BY <1>1, UsedTyped
<1>4. CASE slot(t) = slot(u)
  <2> DEFINE a == GetCounter(slot(u) - 1)
             v == Window - elapsed(t)
             w == Window - elapsed(u)
             b == GetCounter(slot(u)) * Window
  <2>1. used(t) = a * v + b /\ used(u) = a * w + b
    BY <1>4 DEF used
  <2>2. a \in Nat /\ v \in Nat /\ w \in Nat /\ v <= w /\ b \in Nat
    BY <1>1, <1>2, <1>4
  <2> HIDE DEF a, v, w, b, u
  <2>3. a * v <= a * w /\ a * v \in Nat /\ a * w \in Nat
    BY <2>2, ProductsOrdered
  <2> QED
    BY <2>1, <2>2, <2>3 DEF u
<1>5. CASE slot(t) = slot(u) + 1
  <2> DEFINE b == GetCounter(slot(u))
             v == Window - elapsed(t)
  <2>1. GetCounter(slot(t)) = 0
    BY <1>1, <1>5, AheadEmpty
  <2>2. slot(t) - 1 = slot(u)
    BY <1>1, <1>5
  <2>3. used(t) = b * v + 0 * Window
    BY <2>1, <2>2 DEF used
  <2>4. b \in Nat /\ v \in Nat /\ v <= Window /\ Window \in Nat
    BY <1>1, <1>2
  <2>5. b * Window <= used(u)
    BY <1>3
  <2> HIDE DEF b, v, u
  <2>6. b * v <= b * Window /\ b * v \in Nat /\ b * Window \in Nat /\ 0 * Window = 0
    BY <2>4, ProductsOrdered
  <2> QED
    BY <1>3, <2>3, <2>5, <2>6 DEF u
<1>6. CASE slot(t) > slot(u) + 1
  <2>1. GetCounter(slot(t)) = 0 /\ GetCounter(slot(t) - 1) = 0
    BY <1>1, <1>6, AheadEmpty
  <2>2. used(t) = 0
    BY <1>1, <2>1 DEF used
  <2> QED
    BY <1>3, <2>2
<1> QED
  BY <1>1, <1>4, <1>5, <1>6

(* Past the start of the next slot there is room for one more.             *)
LEMMA WaitIsOver ==
  ASSUME TypeOK, NothingAhead, NEW t \in Times, t > (slot(header.at) + 1) * Window
  PROVE  Allows(t)
<1> DEFINE s == slot(header.at)
           b == GetCounter(s)
           e == elapsed(t)
<1>1. /\ t \in Nat /\ header.at \in Nat /\ Window \in Nat \ {0} /\ Limit \in Nat \ {0}
  BY RateLimiterAssumption DEF TypeOK, Times
<1>2. /\ slot(t) \in Nat /\ s \in Nat /\ e \in Nat /\ e < Window
      /\ t = slot(t) * Window + e
  BY <1>1, Clockwork
<1>3. b \in Nat /\ b <= Limit
  BY <1>1, <1>2, Counted
<1>4. slot(t) >= s + 1 /\ (slot(t) = s + 1 => e >= 1)
  <2> DEFINE q == slot(t)
  <2>1. q * Window + e > (s + 1) * Window
    BY <1>2
  <2> HIDE DEF q, s, e
  <2>2. ASSUME q <= s PROVE FALSE
    <3>1. q * Window <= s * Window /\ q * Window \in Nat /\ s * Window \in Nat
      BY <1>1, <1>2, <2>2, ProductsOrdered DEF q
    <3>2. (s + 1) * Window = s * Window + Window
      BY <1>1, <1>2
    <3> QED
      BY <1>1, <1>2, <2>1, <3>1, <3>2
  <2>3. q = s + 1 => e >= 1
    BY <1>1, <1>2, <2>1
  <2> QED
    BY <1>2, <2>2, <2>3 DEF q
<1>5. Limit * Window \in Nat /\ Limit * Window > 0
  BY <1>1
<1>6. CASE slot(t) = s + 1
  <2>1. GetCounter(slot(t)) = 0 /\ slot(t) - 1 = s
    BY <1>2, <1>6, AheadEmpty
  <2>2. used(t) = b * (Window - e)
    BY <1>1, <1>2, <1>3, <2>1 DEF used
  <2> DEFINE v == Window - e
  <2>3. v \in Nat /\ v <= Window - 1
    BY <1>1, <1>2, <1>4, <1>6
  <2> HIDE DEF b, v, e
  <2>4. b * v <= Limit * (Window - 1)
    BY <1>1, <1>3, <2>3, ProductsOrdered
  <2>5. Limit * (Window - 1) = Limit * Window - Limit
    BY <1>1
  <2>6. b * v \in Nat
    BY <1>3, <2>3
  <2> QED
    BY <1>1, <1>5, <2>2, <2>4, <2>5, <2>6 DEF Allows, v
<1>7. CASE slot(t) > s + 1
  <2>1. GetCounter(slot(t)) = 0 /\ GetCounter(slot(t) - 1) = 0
    BY <1>2, <1>7, AheadEmpty
  <2>2. used(t) = 0
    BY <1>1, <1>2, <2>1 DEF used
  <2> QED
    BY <1>5, <2>2 DEF Allows
<1> QED
  BY <1>2, <1>4, <1>6, <1>7
-----------------------------------------------------------------------------
(* The headers.                                                            *)

LEMMA Divided ==
  ASSUME NEW x \in Int, NEW w \in Nat \ {0}
  PROVE  /\ x \div w \in Int /\ (x \div w) * w <= x
         /\ \A r \in Int : r * w <= x => r <= x \div w
OBVIOUS

LEMMA RoomLeft ==
  ASSUME TypeOK, NEW t \in Nat
  PROVE  /\ remaining(t) \in 0..Limit
         /\ remaining(t) > 0 => used(t) + Window + remaining(t) * Window <= Limit * Window
         /\ \A r \in Nat \ {0} : used(t) + r * Window <= Limit * Window => remaining(t) >= r - 1
<1> DEFINE x == Limit * Window - used(t) - Window
           q == x \div Window
<1>1. /\ used(t) \in Nat /\ Window \in Nat \ {0} /\ Limit \in Nat \ {0}
      /\ Limit * Window \in Nat
  BY UsedTyped, RateLimiterAssumption
<1>2. x \in Int /\ x <= Limit * Window - Window
  BY <1>1
<1>3. q \in Int /\ q * Window <= x /\ \A r \in Int : r * Window <= x => r <= q
  <2> HIDE DEF x
  <2> QED
    BY <1>1, <1>2, Divided
<1>4. remaining(t) = IF 0 >= q THEN 0 ELSE q
  <2>1. remaining(t) = Max({0, q})
    BY DEF remaining
  <2> HIDE DEF q
  <2> QED
    BY <1>3, <2>1, MaxOfTwo
<1>5. q <= Limit
  <2> HIDE DEF q, x
  <2>1. ASSUME q > Limit PROVE FALSE
    <3>1. q \in Nat /\ Limit * Window <= q * Window
      BY <1>1, <1>3, <2>1, ProductsOrdered
    <3> QED
      BY <1>1, <1>2, <1>3, <3>1
  <2> QED
    BY <1>1, <1>3, <2>1
<1>6. ASSUME NEW r \in Nat \ {0}, used(t) + r * Window <= Limit * Window
      PROVE  r - 1 <= q
  <2>1. (r - 1) * Window = r * Window - Window /\ r * Window \in Nat
    BY <1>1
  <2>2. (r - 1) * Window <= x /\ r - 1 \in Int
    BY <1>1, <1>6, <2>1
  <2> QED
    BY <1>3, <2>2
<1>7. q > 0 => used(t) + Window + q * Window <= Limit * Window
  <2>1. q * Window \in Int
    BY <1>1, <1>3
  <2> HIDE DEF q
  <2> QED
    BY <1>1, <1>3, <2>1
<1> HIDE DEF q, x
<1> QED
  BY <1>1, <1>3, <1>4, <1>5, <1>6, <1>7

LEMMA NextSlot ==
  ASSUME NEW t \in Nat
  PROVE  t + retry(t) * Second \in Nat /\ t + retry(t) * Second >= (slot(t) + 1) * Window
<1> DEFINE d == Window - elapsed(t)
           q == (d + Second - 1) \div Second
<1>1. Second \in Nat \ {0} /\ Window \in Nat \ {0} /\ d \in Nat /\ slot(t) \in Nat
      /\ t = slot(t) * Window + elapsed(t) /\ elapsed(t) \in Nat
  BY Clockwork, RateLimiterAssumption
<1>2. q \in Nat /\ q * Second >= d /\ q * Second \in Nat
  <2> HIDE DEF d
  <2> QED
    BY <1>1
<1>3. retry(t) = q
  BY DEF retry
<1>4. (slot(t) + 1) * Window = slot(t) * Window + Window /\ slot(t) * Window \in Nat
  BY <1>1
<1>5. t + d = (slot(t) + 1) * Window
  BY <1>1, <1>4
<1> HIDE DEF d, q
<1> QED
  BY <1>1, <1>2, <1>3, <1>5
-----------------------------------------------------------------------------
(* Every step keeps the invariant.                                         *)

HeaderType == [at : Times, room : 0..Limit, until : Nat]

LEMMA Constants ==
  /\ Limit \in Nat \ {0} /\ Window \in Nat \ {0} /\ MaxTime \in Nat /\ None \notin Times
  /\ 0 \in Times /\ Times \subseteq Nat
BY RateLimiterAssumption DEF Times

(* The counters and the header stay.                                       *)
LEMMA Untouched ==
  ASSUME HeaderInv, TypeOK', UNCHANGED <<now, key, header>>
  PROVE  HeaderInv'
<1>1. NothingAhead' /\ WaitEnough'
  BY DEF HeaderInv, NothingAhead, WaitEnough, slot
<1>2. used(header.at)' = used(header.at)
  BY DEF used, GetCounter, slot, elapsed
<1>3. RoomKept'
  BY <1>2 DEF HeaderInv, RoomKept
<1> QED
  BY <1>1, <1>3 DEF HeaderInv

\* A header that promises nothing, stamped at t.
Silent(t) == header'.at = t /\ header'.room = 0 /\ header'.until = MaxTime

(* A request that was let through may leave a header that promises nothing.*)
LEMMA SilentIncr ==
  ASSUME HeaderInv, TypeOK', NEW t \in Times, Allows(t), Incr(t), now' = now,
         NEW u \in Times, u >= header.at, u >= t, Silent(u)
  PROVE  HeaderInv'
<1>1. /\ \A s \in Slots \ {slot(t)} : key'[s] = key[s]
      /\ t \in Nat /\ u \in Nat /\ header.at \in Nat
  BY IncrCounts, Constants DEF HeaderInv, TypeOK
<1>2. /\ slot(t) \in Nat /\ slot(u) \in Nat /\ slot(header.at) \in Nat
      /\ slot(t) <= slot(u) /\ slot(header.at) <= slot(u)
  <2>1. \A n \in Nat : slot(n) \in Nat
    BY Clockwork
  <2> QED
    BY <1>1, <2>1, SlotsOrdered
<1>3. slot(header.at)' = slot(u)
  BY DEF Silent, slot
<1>4. NothingAhead'
  BY <1>1, <1>2, <1>3 DEF HeaderInv, NothingAhead, Slots
<1>5. RoomKept' /\ WaitEnough'
  BY DEF Silent, RoomKept, WaitEnough
<1> QED
  BY <1>4, <1>5 DEF HeaderInv

LEMMA JudgedStamp ==
  ASSUME TypeOK, NEW c \in Clients, Judged(c)
  PROVE  /\ stamp[c] \in Times /\ stamp' \in [Clients -> Times \union {None}]
         /\ LetThrough(c) => through' \in [Times -> Nat] /\ through' # through
<1>1. stamp[c] \in Times /\ stamp' \in [Clients -> Times \union {None}]
  BY DEF TypeOK, Judged
<1>2. LetThrough(c) => through' \in [Times -> Nat]
  BY <1>1 DEF TypeOK, LetThrough
<1>3. LetThrough(c) => through'[stamp[c]] = through[stamp[c]] + 1 /\ through[stamp[c]] \in Nat
  BY <1>1 DEF TypeOK, LetThrough
<1> QED
  BY <1>1, <1>2, <1>3

(* The answer of the script: what it counts and what it promises.          *)
LEMMA Answer ==
  ASSUME HeaderInv, NEW t \in Times, now' = now, Promise(t),
         IF Allows(t) THEN Incr(t) ELSE key' = key, TypeOK'
  PROVE  HeaderInv'
<1>1. /\ TypeOK /\ t \in Nat /\ header \in HeaderType /\ header.at \in Nat /\ MaxTime \in Nat
  BY Constants DEF HeaderInv, TypeOK, HeaderType
<1>2. CASE ~Allows(t) /\ t < header.at
  BY <1>2, Untouched DEF Promise
<1>3. CASE ~Allows(t) /\ ~(t < header.at)
  <2>1. /\ header' = [at |-> t, room |-> 0, until |-> t + retry(t) * Second] /\ key' = key
        /\ slot(header.at)' = slot(t)
    BY <1>3 DEF Promise, slot
  <2>2. slot(header.at) <= slot(t) /\ slot(header.at) \in Nat /\ slot(t) \in Nat
    <3>1. \A n \in Nat : slot(n) \in Nat
      BY Clockwork
    <3> QED
      BY <1>1, <1>3, <3>1, SlotsOrdered
  <2>3. NothingAhead'
    BY <2>1, <2>2 DEF HeaderInv, NothingAhead, Slots
  <2>4. RoomKept'
    BY <2>1 DEF RoomKept
  <2>5. WaitEnough'
    BY <1>1, <2>1, NextSlot DEF WaitEnough
  <2> QED
    BY <2>3, <2>4, <2>5 DEF HeaderInv
<1>4. CASE Allows(t) /\ t < header.at
  <2>1. Silent(header.at)
    BY <1>4, <1>1 DEF Promise, NoHeader, Silent
  <2> QED
    BY <1>1, <1>4, <2>1, SilentIncr DEF HeaderType
<1>5. CASE Allows(t) /\ ~(t < header.at)
  <2>1. header' = [at |-> t, room |-> remaining(t), until |-> MaxTime]
    BY <1>5 DEF Promise
  <2>2. /\ used(t)' = used(t) + Window
        /\ \A s \in Slots \ {slot(t)} : key'[s] = key[s]
    BY <1>1, <1>5, IncrCounts
  <2>3. slot(header.at) <= slot(t) /\ slot(header.at) \in Nat /\ slot(t) \in Nat
    <3>1. \A n \in Nat : slot(n) \in Nat
      BY Clockwork
    <3> QED
      BY <1>1, <1>5, <3>1, SlotsOrdered
  <2>4. used(header.at)' = used(t)' /\ slot(header.at)' = slot(t)
    BY <2>1 DEF used, GetCounter, slot, elapsed
  <2>5. NothingAhead'
    BY <2>2, <2>3, <2>4 DEF HeaderInv, NothingAhead, Slots
  <2>6. RoomKept'
    BY <1>1, <2>1, <2>2, <2>4, RoomLeft DEF RoomKept
  <2>7. WaitEnough'
    BY <2>1 DEF WaitEnough
  <2> QED
    BY <2>5, <2>6, <2>7 DEF HeaderInv
<1> QED
  BY <1>2, <1>3, <1>4, <1>5

(* Counters that are forgotten leave more room.                            *)
LEMMA TickKeeps ==
  ASSUME HeaderInv, Tick
  PROVE  HeaderInv'
<1>1. /\ TypeOK /\ now \in Nat /\ now' \in Times /\ now' = now + 1 /\ header.at \in Nat
      /\ UNCHANGED <<up, key, stamp, header>>
  BY Constants DEF HeaderInv, TypeOK, Tick, Times
<1>2. through' \in [Times -> Nat]
  BY <1>1 DEF TypeOK, Tick
<1>3. TypeOK'
  BY <1>1, <1>2 DEF TypeOK
<1>4. ASSUME NEW s \in Int
      PROVE  GetCounter(s)' \in Nat /\ GetCounter(s) \in Nat /\ GetCounter(s)' <= GetCounter(s)
  <2>1. GetCounter(s) \in Nat
    BY <1>1, Counted
  <2>2. s \in Slots => key[s].expires \in Nat
    BY <1>1 DEF TypeOK
  <2>3. GetCounter(s)' = 0 \/ GetCounter(s)' = GetCounter(s)
    BY <1>1, <2>2 DEF GetCounter
  <2> QED
    BY <2>1, <2>3
<1>5. used(header.at)' <= used(header.at) /\ used(header.at)' \in Nat
  <2>1. slot(header.at) \in Nat /\ Window - elapsed(header.at) \in Nat /\ Window \in Nat
    <3>1. \A n \in Nat : slot(n) \in Nat /\ elapsed(n) \in Nat /\ elapsed(n) < Window
      BY Clockwork
    <3> QED
      BY <1>1, <3>1, Constants
  <2>2. PICK s \in Nat, w \in Nat : s = slot(header.at) /\ w = Window - elapsed(header.at)
    BY <2>1
  <2>3. /\ used(header.at) = GetCounter(s - 1) * w + GetCounter(s) * Window
        /\ used(header.at)' = GetCounter(s - 1)' * w + GetCounter(s)' * Window
    BY <1>1, <2>2 DEF used, slot, elapsed, GetCounter
  <2> DEFINE a == GetCounter(s - 1)'
             b == GetCounter(s - 1)
             x == GetCounter(s)'
             y == GetCounter(s)
  <2>4. a \in Nat /\ b \in Nat /\ a <= b /\ x \in Nat /\ y \in Nat /\ x <= y
    BY <1>4
  <2> HIDE DEF a, b, x, y
  <2>5. /\ a * w <= b * w /\ x * Window <= y * Window
        /\ a * w \in Nat /\ b * w \in Nat /\ x * Window \in Nat /\ y * Window \in Nat
    BY <2>1, <2>4, ProductsOrdered
  <2> QED
    BY <2>3, <2>5 DEF a, b, x, y
<1>6. NothingAhead' /\ WaitEnough'
  BY <1>1 DEF HeaderInv, NothingAhead, WaitEnough, slot
<1>7. RoomKept'
  <2>1. /\ used(header.at) \in Nat /\ header.room * Window \in Nat
        /\ Limit * Window \in Nat /\ header' = header
    BY <1>1, Constants, UsedTyped DEF TypeOK
  <2> QED
    BY <1>5, <2>1 DEF HeaderInv, RoomKept
<1> QED
  BY <1>3, <1>6, <1>7 DEF HeaderInv

LEMMA PromiseTyped ==
  ASSUME TypeOK, NEW t \in Times, Promise(t)
  PROVE  header' \in HeaderType
<1>1. header \in HeaderType /\ t \in Nat /\ MaxTime \in Nat /\ Limit \in Nat /\ Times \subseteq Nat
  BY Constants DEF TypeOK, HeaderType
<1>2. remaining(t) \in 0..Limit /\ t + retry(t) * Second \in Nat
  BY <1>1, RoomLeft, NextSlot
<1>3. [NoHeader EXCEPT !.at = header.at] \in HeaderType
  BY <1>1 DEF HeaderType, NoHeader
<1>4. /\ [at |-> t, room |-> remaining(t), until |-> MaxTime] \in HeaderType
      /\ [at |-> t, room |-> 0, until |-> t + retry(t) * Second] \in HeaderType
  BY <1>1, <1>2 DEF HeaderType
<1> QED
  BY <1>1, <1>3, <1>4 DEF Promise

LEMMA TypedNext ==
  ASSUME TypeOK, now' = now, up' \in BOOLEAN, key' \in [Slots -> KeyType],
         stamp' \in [Clients -> Times \union {None}], through' \in [Times -> Nat],
         header' \in HeaderType
  PROVE  TypeOK'
BY DEF TypeOK, KeyType, HeaderType

LEMMA CheckKeeps ==
  ASSUME HeaderInv, NEW c \in Clients, Check(c)
  PROVE  HeaderInv'
<1> DEFINE t == stamp[c]
<1>1. TypeOK /\ t \in Times /\ stamp' \in [Clients -> Times \union {None}]
  BY JudgedStamp DEF HeaderInv, Check
<1>2. /\ now' = now /\ up' = up /\ Promise(t)
      /\ IF Allows(t) THEN Incr(t) ELSE key' = key
      /\ through' = through \/ LetThrough(c)
  BY DEF Check
<1>3. key' \in [Slots -> KeyType]
  <2>1. key \in [Slots -> KeyType]
    BY <1>1 DEF TypeOK, KeyType
  <2> HIDE DEF t
  <2> QED
    BY <1>1, <1>2, <2>1, IncrCounts
<1>4. through' \in [Times -> Nat] /\ up' \in BOOLEAN
  BY <1>1, <1>2, JudgedStamp DEF Check, TypeOK
<1>5. header' \in HeaderType
  <2> HIDE DEF t
  <2> QED
    BY <1>1, <1>2, PromiseTyped
<1>6. TypeOK'
  BY <1>1, <1>2, <1>3, <1>4, <1>5, TypedNext
<1> HIDE DEF t
<1> QED
  BY <1>1, <1>2, <1>6, Answer

LEMMA CheckUnreachableKeeps ==
  ASSUME HeaderInv, NEW c \in Clients, CheckUnreachable(c)
  PROVE  HeaderInv'
<1>1. TypeOK /\ stamp' \in [Clients -> Times \union {None}]
  BY JudgedStamp DEF HeaderInv, CheckUnreachable
<1>2. through' \in [Times -> Nat]
  BY <1>1, JudgedStamp DEF CheckUnreachable, OnError, TypeOK
<1>3. UNCHANGED <<now, up, key, header>>
  BY DEF CheckUnreachable
<1>4. TypeOK'
  BY <1>1, <1>2, <1>3 DEF TypeOK
<1> QED
  BY <1>3, <1>4, Untouched

LEMMA CheckUnheardKeeps ==
  ASSUME HeaderInv, NEW c \in Clients, CheckUnheard(c)
  PROVE  HeaderInv'
<1> DEFINE t == stamp[c]
           u == Max({header.at, t})
<1>1. TypeOK /\ t \in Times /\ stamp' \in [Clients -> Times \union {None}]
  BY JudgedStamp DEF HeaderInv, CheckUnheard
<1>2. Allows(t) /\ Incr(t) /\ now' = now /\ up' = FALSE /\ header' = [NoHeader EXCEPT !.at = u]
  BY DEF CheckUnheard
<1>3. through' \in [Times -> Nat]
  BY <1>1, JudgedStamp DEF CheckUnheard, OnError, TypeOK
<1>4. header.at \in Times /\ header.at \in Nat /\ t \in Nat
  BY <1>1, Constants DEF TypeOK
<1>5. u = IF header.at >= t THEN header.at ELSE t
  <2> DEFINE a == header.at
  <2> HIDE DEF a, t
  <2>1. Max({a, t}) = IF a >= t THEN a ELSE t
    BY <1>4, MaxOfTwo DEF a
  <2> QED
    BY <2>1 DEF a
<1> HIDE DEF t, u
<1>6. u \in Times /\ u >= header.at /\ u >= t
  BY <1>1, <1>4, <1>5
<1>7. key' \in [Slots -> KeyType]
  BY <1>1, <1>2, IncrCounts
<1>8. header' \in HeaderType /\ Silent(u)
  BY <1>2, <1>6, Constants DEF NoHeader, HeaderType, Silent
<1>9. TypeOK'
  BY <1>1, <1>2, <1>3, <1>7, <1>8, TypedNext
<1> QED
  BY <1>1, <1>2, <1>6, <1>8, <1>9, SilentIncr

LEMMA NextHeaderInv == HeaderInv /\ [Next]_vars => HeaderInv'
<1> SUFFICES ASSUME HeaderInv, [Next]_vars PROVE HeaderInv'
  OBVIOUS
<1>1. TypeOK
  BY DEF HeaderInv
<1>2. CASE Tick
  BY <1>2, TickKeeps
<1>3. CASE Outage \/ Recover \/ UNCHANGED vars
  <2>1. TypeOK' /\ UNCHANGED <<now, key, header>>
    BY <1>1, <1>3 DEF Outage, Recover, vars, TypeOK
  <2> QED
    BY <2>1, Untouched
<1>4. ASSUME NEW c \in Clients, Arrive(c)
      PROVE  HeaderInv'
  <2>1. TypeOK' /\ UNCHANGED <<now, key, header>>
    BY <1>1, <1>4 DEF Arrive, TypeOK
  <2> QED
    BY <2>1, Untouched
<1>5. ASSUME NEW c \in Clients, Check(c) \/ CheckUnreachable(c) \/ CheckUnheard(c)
      PROVE  HeaderInv'
  BY <1>5, CheckKeeps, CheckUnreachableKeeps, CheckUnheardKeeps
<1> QED
  BY <1>2, <1>3, <1>4, <1>5 DEF Next

LEMMA InitHeaderInv == Init => HeaderInv
<1> SUFFICES ASSUME Init PROVE HeaderInv
  OBVIOUS
<1>1. TypeOK
  BY Constants DEF Init, TypeOK, NoHeader
<1>2. NothingAhead
  BY DEF Init, NothingAhead
<1>3. RoomKept /\ WaitEnough
  BY DEF Init, NoHeader, RoomKept, WaitEnough
<1> QED
  BY <1>1, <1>2, <1>3 DEF HeaderInv

(* HeaderInv holds in every reachable state.                               *)
THEOREM LimiterInductive == Spec => []HeaderInv
<1> QED
  BY InitHeaderInv, NextHeaderInv, PTL DEF Spec

(* No counter passes the limit, and every variable keeps its type, for     *)
(* every limit, window and number of callers.                              *)
THEOREM LimiterTyped == Spec => []TypeOK
<1>1. HeaderInv => TypeOK
  BY DEF HeaderInv
<1> QED
  BY <1>1, LimiterInductive, PTL
-----------------------------------------------------------------------------
(* What the next request finds.                                            *)

LEMMA PromiseHolds ==
  ASSUME HeaderInv, NEW c \in Clients, Check(c), stamp[c] >= header.at,
         header.room > 0 \/ stamp[c] > header.until
  PROVE  through' # through /\ header'.room >= header.room - 1
<1> DEFINE t == stamp[c]
<1>1. TypeOK /\ t \in Times
  BY JudgedStamp DEF HeaderInv, Check
<1>2. /\ t \in Nat /\ header.at \in Nat /\ header.room \in Nat /\ header.until \in Nat
      /\ t <= MaxTime /\ MaxTime \in Nat /\ Limit * Window \in Nat /\ Window \in Nat \ {0}
      /\ header.room * Window \in Nat /\ slot(header.at) \in Nat
  <2>1. header \in HeaderType /\ t <= MaxTime /\ t \in Nat
    BY <1>1, Constants DEF TypeOK, HeaderType, Times
  <2>2. header.at \in Nat /\ header.room \in Nat /\ header.until \in Nat
    <3>1. header.at \in Times /\ header.room \in 0..Limit /\ header.until \in Nat
      BY <2>1 DEF HeaderType
    <3>2. header.at \in Nat
      BY <3>1, Constants
    <3>3. header.room \in Nat
      BY <3>1
    <3> QED
      BY <3>1, <3>2, <3>3
  <2>3. \A n \in Nat : slot(n) \in Nat
    BY Clockwork
  <2> QED
    BY <2>1, <2>2, <2>3, Constants
<1>3. used(t) <= used(header.at) /\ used(t) \in Nat /\ used(header.at) \in Nat
  BY <1>1, <1>2, UsedLater, UsedTyped DEF HeaderInv
<1>4. header.room > 0 => used(t) + header.room * Window <= Limit * Window
  BY <1>2, <1>3 DEF HeaderInv, RoomKept
<1>5. Allows(t)
  <2>1. CASE header.room > 0
    <3>1. header.room * Window > 0
      BY <1>2, <2>1
    <3> QED
      BY <1>2, <1>3, <1>4, <2>1, <3>1 DEF Allows
  <2>2. CASE t > header.until
    <3>1. header.until >= (slot(header.at) + 1) * Window
      BY <1>2, <2>2 DEF HeaderInv, WaitEnough
    <3>2. (slot(header.at) + 1) * Window \in Nat
      BY <1>2
    <3>3. t > (slot(header.at) + 1) * Window
      BY <1>2, <2>2, <3>1, <3>2
    <3> HIDE DEF t
    <3> QED
      BY <1>1, <3>3, WaitIsOver DEF HeaderInv
  <2> QED
    BY <2>1, <2>2
<1>6. through' # through
  BY <1>1, <1>5, JudgedStamp DEF Check
<1>7. header'.room = remaining(t)
  BY <1>2, <1>5 DEF Check, Promise
<1>8. remaining(t) \in Nat /\ (header.room > 0 => remaining(t) >= header.room - 1)
  <2>1. /\ remaining(t) \in 0..Limit
        /\ \A r \in Nat \ {0} :
             used(t) + r * Window <= Limit * Window => remaining(t) >= r - 1
    BY <1>1, <1>2, RoomLeft
  <2> HIDE DEF t
  <2> QED
    BY <1>2, <1>4, <2>1
<1> QED
  BY <1>2, <1>6, <1>7, <1>8

(* X-RateLimit-Remaining and Retry-After are honest, for every limit and   *)
(* window and any number of callers: with room left the next request is    *)
(* let through and takes no more than one of it, and whoever waits longer  *)
(* than told is let through.                                               *)
THEOREM HeadersAreHonest == Spec => HeadersHonest
<1> DEFINE Honest ==
      \A c \in Clients :
        LET t == stamp[c] IN
        /\ t # None /\ stamp'[c] = None /\ up /\ up'
        /\ t >= header.at /\ (header.room > 0 \/ t > header.until)
        => /\ through' # through
           /\ header'.room >= header.room - 1
<1>1. HeaderInv /\ [Next]_vars => [Honest]_vars
  <2> SUFFICES ASSUME HeaderInv, [Next]_vars, NEW c \in Clients,
                      stamp[c] # None, stamp'[c] = None, up, up',
                      stamp[c] >= header.at, header.room > 0 \/ stamp[c] > header.until
               PROVE  through' # through /\ header'.room >= header.room - 1
    OBVIOUS
  <2>1. Check(c)
    <3>1. TypeOK /\ stamp' # stamp
      BY DEF HeaderInv
    <3>2. ASSUME NEW d \in Clients, Arrive(d) PROVE FALSE
      BY <3>1, <3>2, Constants DEF Arrive, TypeOK
    <3>3. ASSUME NEW d \in Clients, Check(d) PROVE d = c
      BY <3>1, <3>3 DEF Check, Judged, TypeOK
    <3> QED
      BY <3>1, <3>2, <3>3 DEF Next, Tick, Outage, Recover, CheckUnreachable, CheckUnheard, vars
  <2> QED
    BY <2>1, PromiseHolds
<1> QED
  BY <1>1, LimiterInductive, PTL DEF Spec, HeadersHonest

-----------------------------------------------------------------------------
(* No burst.  What has been let through is counted.                           *)

\* The stamps of a slot; those of from and later, and of to and earlier, in
\* their slot; the requests of a slot that are under way.
InSlot(s) == {t \in Times : slot(t) = s}
Since(from) == {t \in InSlot(slot(from)) : t >= from}
UpTo(to) == {t \in InSlot(slot(to)) : t <= to}
UnderWayIn(s) == {c \in Clients : stamp[c] # None /\ slot(stamp[c]) = s}
UnderWay(s) == Cardinality(UnderWayIn(s))
AtOnce == Cardinality(Clients)

(* Requests let through, and requests under way, can be counted.           *)
LEMMA TicketsFinite ==
  ASSUME TypeOK, NEW T \in SUBSET Times
  PROVE  IsFiniteSet(Tickets(T)) /\ Passed(T) \in Nat
<1> DEFINE f == [t \in T |-> {t} \X (1..through[t])]
           S == {{t} \X (1..through[t]) : t \in T}
<1>1. IsFiniteSet(T)
  <2>1. IsFiniteSet(Times)
    BY RateLimiterAssumption, FS_Interval DEF Times
  <2> QED
    BY <2>1, FS_Subset
<1>2. f \in Surjection(T, S)
  <2>1. f \in [T -> S]
    OBVIOUS
  <2>2. \A X \in S : \E t \in T : f[t] = X
    OBVIOUS
  <2> QED
    BY <2>1, <2>2 DEF Surjection
<1>3. IsFiniteSet(S)
  BY <1>1, <1>2, FS_Surjection
<1>4. ASSUME NEW t \in T PROVE IsFiniteSet({t} \X (1..through[t]))
  <2>1. through[t] \in Int
    BY DEF TypeOK, Times
  <2> HIDE DEF f, S
  <2>2. IsFiniteSet({t})
    BY FS_Singleton
  <2>3. IsFiniteSet(1..through[t])
    BY <2>1, FS_Interval
  <2> QED
    BY <2>2, <2>3, FS_Product
<1>5. IsFiniteSet(UNION S)
  <2>1. \A X \in S : IsFiniteSet(X)
    BY <1>4
  <2> HIDE DEF S
  <2> QED
    BY <1>3, <2>1, FS_UNION
<1> QED
  BY <1>5, FS_CardinalityType DEF Tickets, Passed

LEMMA FewerStamps ==
  ASSUME TypeOK, NEW U \in SUBSET Times, NEW T \in SUBSET U
  PROVE  Passed(T) <= Passed(U)
<1>1. Tickets(T) \subseteq Tickets(U)
  BY DEF Tickets
<1> QED
  BY <1>1, TicketsFinite, FS_Subset DEF Passed

LEMMA StampsApart ==
  ASSUME TypeOK, NEW T \in SUBSET Times, NEW U \in SUBSET Times, T \intersect U = {}
  PROVE  Passed(T \union U) = Passed(T) + Passed(U)
<1>1. Tickets(T \union U) = Tickets(T) \union Tickets(U)
  BY DEF Tickets
<1>2. Tickets(T) \intersect Tickets(U) = {}
  BY DEF Tickets
<1>3. /\ IsFiniteSet(Tickets(T)) /\ IsFiniteSet(Tickets(U))
      /\ Passed(T) \in Nat /\ Passed(U) \in Nat
  BY TicketsFinite
<1>4. Cardinality(Tickets(T) \intersect Tickets(U)) = 0
  BY <1>2, FS_EmptySet
<1>5. Cardinality(Tickets(T) \union Tickets(U))
        = Cardinality(Tickets(T)) + Cardinality(Tickets(U))
            - Cardinality(Tickets(T) \intersect Tickets(U))
  BY <1>3, FS_Union
<1>6. Passed(T \union U) = Cardinality(Tickets(T) \union Tickets(U))
  BY <1>1 DEF Passed
<1> QED
  BY <1>3, <1>4, <1>5, <1>6 DEF Passed

LEMMA NonePassed ==
  ASSUME NEW T, \A t \in T : through[t] = 0
  PROVE  Passed(T) = 0
<1>1. \A t \in T : {t} \X (1..through[t]) = {}
  <2>1. 1..0 = {}
    OBVIOUS
  <2>2. \A t \in T : {t} \X (1..through[t]) = {t} \X (1..0)
    OBVIOUS
  <2>3. \A t : {t} \X {} = {}
    OBVIOUS
  <2> QED
    BY <2>1, <2>2, <2>3
<1>2. Tickets(T) = {}
  BY <1>1, Zenon DEF Tickets
<1> QED
  BY <1>2, FS_EmptySet DEF Passed

(* A step lets one more request through, forgets some, or does neither.    *)
LEMMA OneMorePassed ==
  ASSUME TypeOK, NEW c \in Clients, stamp[c] # None, LetThrough(c), NEW T \in SUBSET Times
  PROVE  Passed(T)' = IF stamp[c] \in T THEN Passed(T) + 1 ELSE Passed(T)
<1> DEFINE u == stamp[c]
           k == <<u, through[u] + 1>>
<1>1. u \in Times /\ \A t \in Times : through[t] \in Nat
  BY DEF TypeOK
<1>2. \A t \in Times : through'[t] = IF t = u THEN through[t] + 1 ELSE through[t]
  BY <1>1 DEF LetThrough, TypeOK
<1>3. CASE u \in T
  <2>1. Tickets(T)' = Tickets(T) \union {k}
    <3>1. ASSUME NEW p \in Tickets(T)' PROVE p \in Tickets(T) \union {k}
      <4>1. PICK t \in T : \E n \in 1..through'[t] : p = <<t, n>>
        BY DEF Tickets
      <4> QED
        BY <1>1, <1>2, <4>1 DEF Tickets
    <3>2. ASSUME NEW p \in Tickets(T) \union {k} PROVE p \in Tickets(T)'
      <4>1. \E t \in T : \E n \in 1..through'[t] : p = <<t, n>>
        <5>1. CASE p = k
          <6>1. through[u] + 1 \in 1..through'[u]
            BY <1>1, <1>2
          <6> QED
            BY <1>3, <5>1, <6>1
        <5>2. CASE p \in Tickets(T)
          <6>1. PICK t \in T : \E n \in 1..through[t] : p = <<t, n>>
            BY <5>2 DEF Tickets
          <6>2. 1..through[t] \subseteq 1..through'[t]
            BY <1>1, <1>2
          <6> QED
            BY <6>1, <6>2
        <5> QED
          BY <5>1, <5>2
      <4>2. PICK t \in T : \E n \in 1..through'[t] : p = <<t, n>>
        BY <4>1
      <4> QED
        BY <4>2 DEF Tickets
    <3> QED
      BY <3>1, <3>2
  <2>2. k \notin Tickets(T)
    BY <1>1 DEF Tickets
  <2>3. Cardinality(Tickets(T) \union {k}) = Cardinality(Tickets(T)) + 1
    BY <2>2, TicketsFinite, FS_AddElement
  <2> QED
    BY <1>3, <2>1, <2>3 DEF Passed
<1>4. CASE u \notin T
  <2>1. \A t \in T : through'[t] = through[t]
    BY <1>2, <1>4
  <2>2. Tickets(T)' = Tickets(T)
    BY <2>1 DEF Tickets
  <2> QED
    BY <1>4, <2>2 DEF Passed
<1> QED
  BY <1>3, <1>4

LEMMA Forgotten ==
  ASSUME TypeOK, NEW T \in SUBSET Times, \A t \in Times : through'[t] \in {0, through[t]}
  PROVE  Passed(T)' <= Passed(T)
<1>1. Tickets(T)' \subseteq Tickets(T)
  BY DEF Tickets, TypeOK
<1>2. Cardinality(Tickets(T)') <= Cardinality(Tickets(T))
  BY <1>1, TicketsFinite, FS_Subset
<1> QED
  BY <1>2 DEF Passed

LEMMA UnderWayTyped ==
  ASSUME NEW s
  PROVE  /\ UnderWay(s) \in Nat /\ AtOnce \in Nat \ {0} /\ UnderWay(s) <= AtOnce
         /\ \A c \in Clients \ UnderWayIn(s) : UnderWay(s) < AtOnce
<1>1. IsFiniteSet(Clients) /\ Clients # {}
  BY RateLimiterAssumption
<1>2. UnderWayIn(s) \subseteq Clients
  BY DEF UnderWayIn
<1>3. /\ IsFiniteSet(UnderWayIn(s)) /\ UnderWay(s) \in Nat /\ AtOnce \in Nat
      /\ UnderWay(s) <= AtOnce /\ (UnderWay(s) = AtOnce => UnderWayIn(s) = Clients)
  BY <1>1, <1>2, FS_Subset, FS_CardinalityType DEF UnderWay, AtOnce
<1>4. AtOnce # 0
  BY <1>1, FS_EmptySet DEF AtOnce
<1> QED
  BY <1>3, <1>4

LEMMA UnderWayNone ==
  ASSUME NEW s, UnderWayIn(s) = {}
  PROVE  UnderWay(s) = 0
BY FS_EmptySet DEF UnderWay

LEMMA OneLessUnderWay ==
  ASSUME TypeOK, NEW c \in Clients, stamp[c] # None, stamp' = [stamp EXCEPT ![c] = None],
         NEW s
  PROVE  UnderWay(s)' = IF slot(stamp[c]) = s THEN UnderWay(s) - 1 ELSE UnderWay(s)
<1>1. \A d \in Clients : stamp'[d] = IF d = c THEN None ELSE stamp[d]
  BY DEF TypeOK
<1>2. \A t : slot(t)' = slot(t)
  BY DEF slot
<1>3. UnderWayIn(s)' = UnderWayIn(s) \ {c}
  BY <1>1 DEF UnderWayIn, slot
<1>4. c \in UnderWayIn(s) <=> slot(stamp[c]) = s
  BY DEF UnderWayIn
<1>5. IsFiniteSet(UnderWayIn(s))
  BY RateLimiterAssumption, FS_Subset DEF UnderWayIn
<1>6. Cardinality(UnderWayIn(s) \ {c})
        = IF c \in UnderWayIn(s) THEN Cardinality(UnderWayIn(s)) - 1
                                 ELSE Cardinality(UnderWayIn(s))
  BY <1>5, FS_RemoveElement
<1> QED
  BY <1>3, <1>4, <1>6 DEF UnderWay

LEMMA UnderWayAsBefore ==
  ASSUME NEW s, \A c \in Clients : stamp'[c] # stamp[c] =>
           (stamp[c] = None \/ slot(stamp[c]) # s) /\ (stamp'[c] = None \/ slot(stamp'[c]) # s)
  PROVE  UnderWay(s)' = UnderWay(s)
<1>1. UnderWayIn(s)' = UnderWayIn(s)
  BY DEF UnderWayIn, slot
<1> QED
  BY <1>1 DEF UnderWay

-----------------------------------------------------------------------------
(* The arithmetic of two neighbouring slots.                               *)

LEMMA TimesKeepsOrder ==
  ASSUME NEW x \in Int, NEW y \in Int, NEW w \in Nat, x <= y
  PROVE  x * w <= y * w /\ x * w \in Int /\ y * w \in Int
OBVIOUS

\* What is known of P requests of a slot and Q of the next that were let
\* through, F of the first slot being under way, by C callers, with a limit of
\* L in a window of W: when the last of the Q was judged, up to e into its slot,
\* no more than C - 1 - F of the P were still to come.
Near(L, W, C, P, Q, F, e) ==
  Q > 0 => F < C /\ (P + F + 1 - C) * (W - e) + Q * W < (L + 1) * W

\* The same of q requests judged while one more than the P was counted: late
\* enough for none of the first slot to be under way, or within D of its end.
Tight(L, W, C, D, P, F, e, q) ==
  \/ F = 0 /\ (P + 1) * (W - e) + q * W < (L + 1) * W
  \/ (P + 2 + F - C) * (W - D) + q * W < (L + 1) * W

(* Either way P and Q are few enough for two stamps d > e apart.           *)
LEMMA NearBounds ==
  ASSUME NEW L \in Nat \ {0}, NEW W \in Nat \ {0}, NEW C \in Nat \ {0},
         NEW P \in Nat, NEW Q \in Nat, NEW F \in Nat, NEW e \in Nat, NEW d \in Nat \ {0},
         e < W, e <= d, P <= L, Q <= L, Near(L, W, C, P, Q, F, e)
  PROVE  (P + Q) * W < (L + C) * W + L * d
<1>0. L * d \in Nat /\ L * d > 0 /\ C * W \in Nat /\ C * W > 0
  OBVIOUS
<1>a. P * W <= L * W /\ Q * W <= L * W
  BY TimesKeepsOrder
<1>b. (P + Q) * W = P * W + Q * W /\ (L + C) * W = L * W + C * W
  OBVIOUS
<1>1. CASE Q = 0
  <2>1. Q * W = 0
    BY <1>1
  <2> QED
    BY <1>0, <1>a, <1>b, <2>1
<1>2. CASE Q > 0
  <2> DEFINE x == P + F + 1 - C
  <2>1. F < C /\ x * (W - e) + Q * W < (L + 1) * W
    BY <1>2 DEF Near
  <2>2. x \in Int /\ x <= L /\ P <= x + (C - 1)
    BY <2>1
  <2> HIDE DEF x
  <2>3. P * W <= (x + (C - 1)) * W
    BY <2>2, TimesKeepsOrder
  <2>4. (x + (C - 1)) * W = x * W + C * W - W
    BY <2>2
  <2>5. x * (W - e) = x * W - x * e /\ (L + 1) * W = L * W + W
    BY <2>2
  <2>6. x * e <= L * e
    BY <2>2, TimesKeepsOrder
  <2>7. e * L <= d * L
    BY TimesKeepsOrder
  <2>8. e * L = L * e /\ d * L = L * d
    OBVIOUS
  <2>9. {x * W, x * e, L * e, L * d, L * W, C * W, Q * W, P * W} \subseteq Int
    BY <2>2
  <2> QED
    BY <1>b, <2>1, <2>3, <2>4, <2>5, <2>6, <2>7, <2>8, <2>9
<1> QED
  BY <1>1, <1>2

LEMMA TightBounds ==
  ASSUME NEW L \in Nat \ {0}, NEW W \in Nat \ {0}, NEW C \in Nat \ {0}, NEW D \in Nat,
         NEW P \in Nat, NEW Q \in Nat, NEW F \in Nat, NEW e \in Nat, NEW d \in Nat \ {0},
         NEW q \in Int, Q <= q + C,
         e < W, e <= d, W - D + 1 <= d, 3 * D <= W, P + 1 <= L, Q <= L,
         q > 0 => Tight(L, W, C, D, P, F, e, q)
  PROVE  (P + Q) * W < (L + C) * W + L * d
<1>0. L * d \in Nat /\ L * d > 0 /\ C * W \in Nat /\ C * W > 0 /\ L * W \in Nat
  OBVIOUS
<1>a. (P + 1) * W <= L * W /\ Q * W <= L * W /\ Q * W <= (q + C) * W
  BY TimesKeepsOrder
<1>b. /\ (P + Q) * W = P * W + Q * W /\ (L + C) * W = L * W + C * W
      /\ (P + 1) * W = P * W + W /\ (q + C) * W = q * W + C * W
      /\ (L + 1) * W = L * W + W
  OBVIOUS
<1>c. {P * W, Q * W, q * W, L * W, C * W, L * d} \subseteq Int
  OBVIOUS
<1>d. L * e <= L * d
  <2>1. e * L <= d * L
    BY TimesKeepsOrder
  <2> QED
    BY <2>1
<1>1. CASE q <= 0
  <2>1. q * W <= 0 * W
    BY <1>1, TimesKeepsOrder
  <2> QED
    BY <1>0, <1>a, <1>b, <1>c, <2>1
<1>2. CASE q > 0 /\ (P + 1) * (W - e) + q * W < (L + 1) * W
  <2>1. (P + 1) * (W - e) = (P + 1) * W - (P + 1) * e
    OBVIOUS
  <2>2. (P + 1) * e <= L * e
    BY TimesKeepsOrder
  <2>3. {(P + 1) * e, L * e} \subseteq Int
    OBVIOUS
  <2> QED
    BY <1>0, <1>a, <1>b, <1>c, <1>d, <1>2, <2>1, <2>2, <2>3
<1>3. CASE q > 0 /\ (P + 2 + F - C) * (W - D) + q * W < (L + 1) * W
  <2> DEFINE x == P + 2 - C
             v == W - D
  <2>1. x \in Int /\ v \in Nat
    OBVIOUS
  <2>2. x * v + q * W < (L + 1) * W
    <3>1. x * v <= (P + 2 + F - C) * v /\ x * v \in Int /\ (P + 2 + F - C) * v \in Int
      BY <2>1, TimesKeepsOrder
    <3> QED
      BY <1>3, <1>b, <1>c, <3>1
  <2>3. CASE x <= 0
    <3>1. (P + 2) * W <= C * W
      BY <2>3, TimesKeepsOrder
    <3>2. (P + 2) * W = P * W + 2 * W
      OBVIOUS
    <3> QED
      BY <1>0, <1>a, <1>b, <1>c, <3>1, <3>2
  <2>4. CASE 3 * C >= L
    <3>1. L * W <= (3 * C) * W /\ (3 * C) * W = 3 * (C * W)
      BY <2>4, TimesKeepsOrder
    <3>2. (2 * W + 3) * L <= (3 * d) * L
      BY TimesKeepsOrder
    <3>3. (2 * W + 3) * L = 2 * (L * W) + 3 * L /\ (3 * d) * L = 3 * (L * d)
      OBVIOUS
    <3> QED
      BY <1>0, <1>a, <1>b, <1>c, <3>1, <3>2, <3>3
  <2>5. CASE x > 0 /\ 3 * C < L
    <3>1. x * v = x * W - x * D
      OBVIOUS
    <3>2. x * W = P * W + 2 * W - C * W
      OBVIOUS
    <3>3. x * D <= L * D
      BY TimesKeepsOrder
    <3>4. (3 * D) * L <= W * L /\ (3 * D) * L = 3 * (L * D) /\ W * L = L * W
      BY TimesKeepsOrder
    <3>5. (3 * C) * W <= L * W /\ (3 * C) * W = 3 * (C * W)
      BY <2>5, TimesKeepsOrder
    <3>6. (2 * W + 3) * L <= (3 * d) * L
      BY TimesKeepsOrder
    <3>7. (2 * W + 3) * L = 2 * (L * W) + 3 * L /\ (3 * d) * L = 3 * (L * d)
      OBVIOUS
    <3>8. {x * W, x * D, x * v, L * D} \subseteq Int
      OBVIOUS
    <3> HIDE DEF x, v
    <3> QED
      BY <1>a, <1>b, <1>c, <2>2, <3>1, <3>2, <3>3, <3>4, <3>5, <3>6, <3>7, <3>8
  <2> QED
    BY <2>3, <2>4, <2>5
<1> QED
  BY <1>1, <1>2, <1>3 DEF Tight

(* Both last when less is let through.                                     *)
LEMMA NearLess ==
  ASSUME NEW L \in Nat, NEW W \in Nat, NEW C \in Nat,
         NEW P \in Nat, NEW Q \in Nat, NEW F \in Nat, NEW e \in Nat, e < W,
         NEW p \in Nat, NEW q \in Nat, NEW f \in Nat, p + f <= P + F, q <= Q, f <= F,
         Near(L, W, C, P, Q, F, e)
  PROVE  Near(L, W, C, p, q, f, e)
<1> SUFFICES ASSUME q > 0
             PROVE  f < C /\ (p + f + 1 - C) * (W - e) + q * W < (L + 1) * W
  BY DEF Near
<1> DEFINE x == P + F + 1 - C
           y == p + f + 1 - C
           v == W - e
<1>1. F < C /\ x * v + Q * W < (L + 1) * W
  BY DEF Near
<1>2. x \in Int /\ y \in Int /\ v \in Nat /\ y <= x
  OBVIOUS
<1> HIDE DEF x, y, v
<1>3. y * v <= x * v /\ y * v \in Int /\ x * v \in Int
  BY <1>2, TimesKeepsOrder
<1>4. q * W <= Q * W /\ q * W \in Int /\ Q * W \in Int /\ (L + 1) * W \in Int
  BY TimesKeepsOrder
<1>5. y * v + q * W < (L + 1) * W
  BY <1>1, <1>3, <1>4
<1> QED
  BY <1>1, <1>5 DEF y, v

LEMMA TightLess ==
  ASSUME NEW L \in Nat, NEW W \in Nat, NEW C \in Nat, NEW D \in Nat, D <= W,
         NEW P \in Nat, NEW Q \in Int, NEW F \in Nat, NEW e \in Nat, e < W,
         NEW p \in Nat, NEW q \in Int, NEW f \in Nat, p + f <= P + F, q <= Q, f <= F,
         Tight(L, W, C, D, P, F, e, Q)
  PROVE  Tight(L, W, C, D, p, f, e, q)
<1> DEFINE v == W - e
           w == W - D
<1>1. v \in Nat /\ w \in Nat
  OBVIOUS
<1>2. q * W <= Q * W /\ q * W \in Int /\ Q * W \in Int /\ (L + 1) * W \in Int
  BY TimesKeepsOrder
<1>3. CASE F = 0 /\ (P + 1) * v + Q * W < (L + 1) * W
  <2>1. (p + 1) * v <= (P + 1) * v /\ (p + 1) * v \in Int /\ (P + 1) * v \in Int
    <3> HIDE DEF v
    <3> QED
      BY <1>1, <1>3, TimesKeepsOrder
  <2> HIDE DEF v
  <2>2. f = 0 /\ (p + 1) * v + q * W < (L + 1) * W
    BY <1>2, <1>3, <2>1
  <2> QED
    BY <2>2 DEF Tight, v
<1>4. CASE (P + 2 + F - C) * w + Q * W < (L + 1) * W
  <2>1. /\ (p + 2 + f - C) * w <= (P + 2 + F - C) * w
        /\ (p + 2 + f - C) * w \in Int /\ (P + 2 + F - C) * w \in Int
    <3> HIDE DEF w
    <3> QED
      BY <1>1, TimesKeepsOrder
  <2> HIDE DEF w
  <2>2. (p + 2 + f - C) * w + q * W < (L + 1) * W
    BY <1>2, <1>4, <2>1
  <2> QED
    BY <2>2 DEF Tight, w
<1> QED
  BY <1>3, <1>4 DEF Tight

\* One more of the later slot was let through: n in the earlier slot and m in
\* the later one had been counted, at x of it.
LEMMA LetInNear ==
  ASSUME NEW L \in Nat, NEW W \in Nat, NEW C \in Nat,
         NEW P \in Nat, NEW Q \in Nat, NEW F \in Nat, NEW e \in Nat, e < W,
         NEW n \in Nat, NEW m \in Nat, NEW x \in Nat, x <= e, P <= n, Q <= m, F < C,
         n * (W - x) + m * W < L * W
  PROVE  Near(L, W, C, P, Q + 1, F, e)
<1> DEFINE y == P + F + 1 - C
           v == W - e
           u == W - x
<1>1. y \in Int /\ v \in Nat /\ u \in Nat /\ y <= n /\ v <= u
  OBVIOUS
<1>a. n * u + m * W < L * W
  OBVIOUS
<1> HIDE DEF y, v, u
<1>2. y * v <= n * v /\ y * v \in Int /\ n * v \in Int
  BY <1>1, TimesKeepsOrder
<1>3. v * n <= u * n /\ v * n = n * v /\ u * n = n * u /\ n * u \in Int
  BY <1>1, TimesKeepsOrder
<1>4. Q * W <= m * W /\ Q * W \in Int /\ m * W \in Int /\ L * W \in Int
  BY TimesKeepsOrder
<1>5. (Q + 1) * W = Q * W + W /\ (L + 1) * W = L * W + W
  OBVIOUS
<1>6. y * v + (Q + 1) * W < (L + 1) * W
  BY <1>a, <1>2, <1>3, <1>4, <1>5
<1> QED
  BY <1>6 DEF Near, y, v

LEMMA LetInTight ==
  ASSUME NEW L \in Nat, NEW W \in Nat, NEW C \in Nat, NEW D \in Nat, D <= W,
         NEW P \in Nat, NEW Q \in Nat, NEW F \in Nat, NEW e \in Nat, e < W,
         NEW n \in Nat, NEW m \in Nat, NEW x \in Nat, x <= e, P + 1 <= n, Q <= m, F < C,
         x > D => F = 0,
         n * (W - x) + m * W < L * W
  PROVE  Tight(L, W, C, D, P, F, e, Q + 1)
<1> DEFINE u == W - x
<1>1. u \in Nat
  OBVIOUS
<1>2. n * u + m * W < L * W
  OBVIOUS
<1> HIDE DEF u
<1>3. Q * W <= m * W /\ Q * W \in Int /\ m * W \in Int /\ L * W \in Int /\ n * u \in Int
  BY <1>1, TimesKeepsOrder
<1>4. (Q + 1) * W = Q * W + W /\ (L + 1) * W = L * W + W
  OBVIOUS
<1>5. ASSUME NEW y \in Int, NEW v \in Nat, y <= n, v <= u
      PROVE  y * v + (Q + 1) * W < (L + 1) * W
  <2>1. y * v <= n * v /\ y * v \in Int /\ n * v \in Int
    BY <1>5, TimesKeepsOrder
  <2>2. v * n <= u * n /\ v * n = n * v /\ u * n = n * u
    BY <1>1, <1>5, TimesKeepsOrder
  <2> QED
    BY <1>2, <1>3, <1>4, <2>1, <2>2
<1>6. CASE x > D
  <2>1. P + 1 \in Int /\ W - e \in Nat /\ W - e <= u
    BY DEF u
  <2> QED
    BY <1>5, <1>6, <2>1 DEF Tight
<1>7. CASE x <= D
  <2>1. P + 2 + F - C \in Int /\ P + 2 + F - C <= n /\ W - D \in Nat /\ W - D <= u
    BY <1>7 DEF u
  <2> QED
    BY <1>5, <2>1 DEF Tight
<1> QED
  BY <1>6, <1>7

-----------------------------------------------------------------------------
(* The invariant.                                                          *)

\* A call ends well within a window.
SoonOver == 3 * MaxDelay <= Window

\* What was let through was counted, where it still is; no call is overdue.
CountsKept ==
  /\ \A s \in Slots : key[s].count > 0 => key[s].expires >= (s + 2) * Window
  /\ \A t \in Times : through[t] > 0 => t <= now
  /\ \A c \in Clients : stamp[c] # None => stamp[c] <= now /\ now <= stamp[c] + MaxDelay
  /\ \A s \in Slots : Passed(InSlot(s)) <= key[s].count

\* The counter of the slot of from may be forgotten while requests stamped at
\* to and before are under way.
Forgetful(from, to) ==
  key[slot(from)].count > 0 /\ key[slot(from)].expires <= to + MaxDelay

\* Of those stamped up to to, at least so many were judged while that counter was there.
Heard(from, to) ==
  IF now < key[slot(from)].expires THEN Passed(UpTo(to))
  ELSE Passed(UpTo(to)) + UnderWay(slot(to)) - AtOnce

\* What two stamps of neighbouring slots may still come to.
PairKept(from, to) ==
  /\ ~Forgetful(from, to) =>
       Near(Limit, Window, AtOnce, Passed(Since(from)), Passed(UpTo(to)),
            UnderWay(slot(from)), elapsed(to))
  /\ Forgetful(from, to) =>
       /\ Passed(Since(from)) + 1 <= key[slot(from)].count
       /\ Heard(from, to) > 0 =>
            Tight(Limit, Window, AtOnce, MaxDelay, Passed(Since(from)),
                  UnderWay(slot(from)), elapsed(to), Heard(from, to))

\* In neighbouring slots, less than a window apart.
Neighboured(from, to) == slot(to) = slot(from) + 1 /\ to - from < Window

BurstInv ==
  /\ TypeOK /\ CountsKept
  /\ \A from, to \in Times : Neighboured(from, to) => PairKept(from, to)

LEMMA Numbers ==
  ASSUME TypeOK, SoonOver
  PROVE  /\ Window \in Nat \ {0} /\ Limit \in Nat \ {0} /\ MaxDelay \in Nat
         /\ MaxDelay <= Window /\ AtOnce \in Nat \ {0} /\ now \in Nat
<1>1. Window \in Nat \ {0} /\ Limit \in Nat \ {0} /\ MaxDelay \in Nat
  BY RateLimiterAssumption
<1>2. MaxDelay <= Window
  BY <1>1 DEF SoonOver
<1>3. AtOnce \in Nat \ {0}
  <2>1. UnderWay(0) <= AtOnce /\ AtOnce \in Nat \ {0}
    BY UnderWayTyped
  <2> QED
    BY <2>1
<1>4. now \in Nat
  BY DEF TypeOK, Times
<1> QED
  BY <1>1, <1>2, <1>3, <1>4

LEMMA SlotBorders ==
  ASSUME NEW t \in Times
  PROVE  /\ slot(t) * Window <= t /\ t < (slot(t) + 1) * Window
         /\ t = slot(t) * Window + elapsed(t)
         /\ slot(t) \in Slots /\ slot(t) \in Nat /\ t \in Nat
         /\ elapsed(t) \in Nat /\ elapsed(t) < Window
<1>1. Window \in Nat \ {0}
  BY RateLimiterAssumption
<1>2. t \in Nat /\ slot(t) \in Slots
  BY TimesHaveSlots
<1>3. slot(t) \in Nat /\ elapsed(t) \in Nat /\ elapsed(t) < Window
      /\ t = slot(t) * Window + elapsed(t)
  BY <1>2, Clockwork
<1> DEFINE q == slot(t)
<1>4. q \in Nat /\ (q + 1) * Window = q * Window + Window /\ q * Window \in Nat
  <2>1. q \in Nat
    BY <1>3
  <2> HIDE DEF q
  <2> QED
    BY <1>1, <2>1
<1> QED
  BY <1>1, <1>2, <1>3, <1>4

LEMMA SlotOrder ==
  ASSUME NEW m \in Nat, NEW n \in Nat, m <= n
  PROVE  m * Window <= n * Window /\ m * Window \in Nat /\ n * Window \in Nat
<1>1. Window \in Nat
  BY RateLimiterAssumption
<1> QED
  BY <1>1, TimesKeepsOrder

(* Two stamps less than a window apart lie in one slot or in neighbours.   *)
LEMMA Neighbours ==
  ASSUME NEW from \in Times, NEW to \in Times, from <= to, to - from < Window
  PROVE  /\ slot(to) = slot(from) \/ slot(to) = slot(from) + 1
         /\ slot(to) = slot(from) + 1 =>
              elapsed(to) + 1 <= to - from /\ to - from \in Nat \ {0}
<1> DEFINE r == slot(from)
           s == slot(to)
<1>1. /\ r \in Nat /\ s \in Nat /\ from \in Nat /\ to \in Nat /\ Window \in Nat \ {0}
      /\ from = r * Window + elapsed(from) /\ to = s * Window + elapsed(to)
      /\ elapsed(from) \in Nat /\ elapsed(to) \in Nat
      /\ elapsed(from) < Window /\ elapsed(to) < Window /\ r <= s
  <2>1. r <= s
    BY SlotsOrdered, SlotBorders
  <2>2. Window \in Nat \ {0}
    BY RateLimiterAssumption
  <2> QED
    BY <2>1, <2>2, SlotBorders
<1> HIDE DEF r, s
<1>2. s <= r + 1
  <2> SUFFICES ASSUME r + 2 <= s PROVE FALSE
    BY <1>1
  <2>1. (r + 2) * Window <= s * Window /\ (r + 2) * Window \in Nat /\ s * Window \in Nat
    BY <1>1, SlotOrder
  <2>2. (r + 2) * Window = r * Window + 2 * Window /\ r * Window \in Nat
    BY <1>1
  <2> QED
    BY <1>1, <2>1, <2>2
<1>3. s = r + 1 => s * Window = r * Window + Window /\ r * Window \in Nat
  BY <1>1
<1>4. s = r + 1 => elapsed(to) + 1 <= to - from /\ to - from \in Nat \ {0}
  BY <1>1, <1>3
<1> QED
  BY <1>1, <1>2, <1>4 DEF r, s

LEMMA Between ==
  ASSUME NEW from \in Times, NEW to \in Times, NEW t \in from..to
  PROVE  t \in Times /\ from <= t /\ t <= to
<1>1. MaxTime \in Nat
  BY RateLimiterAssumption
<1> QED
  BY <1>1 DEF Times

LEMMA Measured ==
  ASSUME TypeOK, NEW from \in Times, NEW to \in Times
  PROVE  /\ Since(from) \in SUBSET Times /\ UpTo(to) \in SUBSET Times
         /\ Passed(Since(from)) \in Nat /\ Passed(UpTo(to)) \in Nat
         /\ UnderWay(slot(from)) \in Nat /\ UnderWay(slot(to)) \in Nat
         /\ UnderWay(slot(from)) <= AtOnce /\ UnderWay(slot(to)) <= AtOnce
         /\ key[slot(from)].count \in 0..Limit /\ key[slot(from)].expires \in Nat
         /\ key[slot(to)].count \in 0..Limit
<1>1. Since(from) \in SUBSET Times /\ UpTo(to) \in SUBSET Times
  BY DEF Since, UpTo, InSlot
<1>2. key[slot(from)] \in KeyType /\ key[slot(to)] \in KeyType
  BY SlotBorders DEF TypeOK, KeyType
<1> QED
  BY <1>1, <1>2, TicketsFinite, UnderWayTyped DEF KeyType

LEMMA WithinCounts ==
  ASSUME TypeOK, CountsKept, NEW from \in Times, NEW to \in Times
  PROVE  /\ Passed(Since(from)) <= key[slot(from)].count
         /\ Passed(UpTo(to)) <= key[slot(to)].count
<1>1. /\ Passed(InSlot(slot(from))) <= key[slot(from)].count
      /\ Passed(InSlot(slot(to))) <= key[slot(to)].count
  BY SlotBorders DEF CountsKept
<1>2. /\ InSlot(slot(from)) \in SUBSET Times /\ InSlot(slot(to)) \in SUBSET Times
      /\ Since(from) \in SUBSET InSlot(slot(from)) /\ UpTo(to) \in SUBSET InSlot(slot(to))
  BY DEF InSlot, Since, UpTo
<1>3. /\ Passed(Since(from)) <= Passed(InSlot(slot(from)))
      /\ Passed(UpTo(to)) <= Passed(InSlot(slot(to)))
  BY <1>2, FewerStamps
<1>4. /\ Passed(InSlot(slot(from))) \in Nat /\ Passed(InSlot(slot(to))) \in Nat
  BY <1>2, TicketsFinite
<1> QED
  BY <1>1, <1>3, <1>4, Measured
-----------------------------------------------------------------------------
(* What the invariant is for.                                              *)

LEMMA BurstBounded ==
  ASSUME BurstInv, SoonOver
  PROVE  NoBurst
<1>0. TypeOK /\ CountsKept
  BY DEF BurstInv
<1>n. /\ Window \in Nat \ {0} /\ Limit \in Nat \ {0} /\ MaxDelay \in Nat
      /\ MaxDelay <= Window /\ AtOnce \in Nat \ {0} /\ now \in Nat
  BY <1>0, Numbers
<1> SUFFICES ASSUME NEW from \in Times, NEW to \in Times, from <= to, to - from < Window
             PROVE  Passed(from..to) * Window
                      < (Limit + AtOnce) * Window + Limit * (to - from)
  BY <1>0 DEF NoBurst, AtOnce
<1> DEFINE P == Passed(Since(from))
           Q == Passed(UpTo(to))
           d == to - from
<1>1. /\ P \in Nat /\ Q \in Nat /\ P <= Limit /\ Q <= Limit /\ d \in Nat
  <2>1. from \in Nat /\ to \in Nat
    BY SlotBorders
  <2>2. d \in Nat
    BY <2>1
  <2> HIDE DEF d
  <2> QED
    BY <1>0, <1>n, <2>2, Measured, WithinCounts
<1>2. CASE slot(to) = slot(from)
  <2>1. from..to \in SUBSET InSlot(slot(to))
    <3> SUFFICES ASSUME NEW t \in from..to PROVE t \in Times /\ slot(t) = slot(to)
      BY DEF InSlot
    <3>1. t \in Times /\ from <= t /\ t <= to
      BY Between
    <3>2. slot(from) <= slot(t) /\ slot(t) <= slot(to)
      BY <3>1, SlotBorders, SlotsOrdered
    <3> QED
      BY <1>2, <3>1, <3>2, SlotBorders
  <2>2. Passed(from..to) <= Q /\ Passed(from..to) \in Nat
    <3>1. from..to \in SUBSET UpTo(to)
      BY <2>1, SlotBorders DEF UpTo
    <3>2. UpTo(to) \in SUBSET Times /\ from..to \in SUBSET Times
      BY <1>0, <3>1, Measured
    <3>3. Passed(from..to) \in Nat
      BY <1>0, <3>2, TicketsFinite
    <3>4. Passed(from..to) <= Passed(UpTo(to))
      BY <1>0, <3>1, <3>2, FewerStamps
    <3> QED
      BY <3>3, <3>4
  <2> DEFINE n == Passed(from..to)
  <2>a. n <= Q /\ n \in Nat
    BY <2>2
  <2> HIDE DEF n, d, P, Q
  <2>3. n \in Nat /\ n <= Limit
    BY <1>1, <1>n, <2>a
  <2>4. n * Window <= Limit * Window /\ n * Window \in Int
    BY <1>n, <2>3, TimesKeepsOrder
  <2>5. (Limit + AtOnce) * Window = Limit * Window + AtOnce * Window
        /\ AtOnce * Window > 0 /\ Limit * d >= 0
        /\ {AtOnce * Window, Limit * Window, Limit * d} \subseteq Int
    BY <1>1, <1>n
  <2> QED
    BY <2>4, <2>5 DEF n, d
<1>3. CASE slot(to) = slot(from) + 1
  <2> DEFINE F == UnderWay(slot(from))
             e == elapsed(to)
  <2>1. Passed(from..to) = P + Q
    <3>1. from..to = Since(from) \union UpTo(to)
      <4>1. ASSUME NEW t \in from..to PROVE t \in Since(from) \union UpTo(to)
        <5>1. t \in Times /\ from <= t /\ t <= to
          BY Between
        <5>2. slot(from) <= slot(t) /\ slot(t) <= slot(to)
          BY <5>1, SlotBorders, SlotsOrdered
        <5>3. slot(t) = slot(from) \/ slot(t) = slot(to)
          BY <1>3, <5>1, <5>2, SlotBorders
        <5> QED
          BY <5>1, <5>3 DEF Since, UpTo, InSlot
      <4>2. ASSUME NEW t \in Since(from) PROVE t \in from..to
        <5>1. t \in Times /\ slot(t) = slot(from) /\ from <= t
          BY DEF Since, InSlot
        <5>2. t <= to
          <6> SUFFICES ASSUME to < t PROVE FALSE
            BY <5>1, SlotBorders
          <6>1. slot(to) <= slot(t)
            BY <5>1, SlotsOrdered, SlotBorders
          <6> QED
            BY <1>3, <5>1, <6>1, SlotBorders
        <5> QED
          BY <5>1, <5>2, SlotBorders
      <4>3. ASSUME NEW t \in UpTo(to) PROVE t \in from..to
        <5>1. t \in Times /\ slot(t) = slot(to) /\ t <= to
          BY DEF UpTo, InSlot
        <5>2. from <= t
          <6> SUFFICES ASSUME t < from PROVE FALSE
            BY <5>1, SlotBorders
          <6>1. slot(t) <= slot(from)
            BY <5>1, SlotsOrdered, SlotBorders
          <6> QED
            BY <1>3, <5>1, <6>1, SlotBorders
        <5> QED
          BY <5>1, <5>2, SlotBorders
      <4> QED
        BY <4>1, <4>2, <4>3
    <3>2. Since(from) \intersect UpTo(to) = {}
      <4> SUFFICES ASSUME NEW t \in Since(from), t \in UpTo(to) PROVE FALSE
        OBVIOUS
      <4> QED
        BY <1>3, SlotBorders DEF Since, UpTo, InSlot
    <3> QED
      BY <1>0, <3>1, <3>2, Measured, StampsApart
  <2>2. e \in Nat /\ e < Window /\ e + 1 <= d /\ d \in Nat \ {0}
    BY <1>3, Neighbours, SlotBorders
  <2>a. e <= d
    <3> HIDE DEF e, d
    <3> QED
      BY <2>2
  <2>b. F \in Nat
    BY <1>0, Measured
  <2>3. PairKept(from, to)
    BY <1>3 DEF BurstInv, Neighboured
  <2>4. CASE ~Forgetful(from, to)
    <3>1. Near(Limit, Window, AtOnce, P, Q, F, e)
      BY <2>3, <2>4 DEF PairKept
    <3> HIDE DEF P, Q, F, d, e
    <3>2. (P + Q) * Window < (Limit + AtOnce) * Window + Limit * d
      BY ONLY <1>1, <1>n, <2>2, <2>a, <2>b, <3>1, NearBounds
    <3> QED
      BY <2>1, <3>2 DEF P, Q, d
  <2>5. CASE Forgetful(from, to)
    <3> DEFINE q == Heard(from, to)
    <3>1. q > 0 => Tight(Limit, Window, AtOnce, MaxDelay, P, F, e, q)
      BY <2>3, <2>5 DEF PairKept
    <3>2. P + 1 <= Limit
      <4>1. P + 1 <= key[slot(from)].count
        BY <2>3, <2>5 DEF PairKept
      <4>2. key[slot(from)].count \in 0..Limit
        BY <1>0, Measured
      <4> HIDE DEF P
      <4> QED
        BY <1>1, <1>n, <4>1, <4>2
    <3>3. q \in Int /\ Q <= q + AtOnce
      BY <1>0, <1>n, Measured DEF Heard
    <3>4. Window - MaxDelay + 1 <= d
      <4>1. key[slot(from)].expires >= (slot(from) + 2) * Window
            /\ key[slot(from)].expires <= to + MaxDelay
        BY <1>0, <2>5, SlotBorders DEF CountsKept, Forgetful
      <4>2. to = slot(to) * Window + e
        BY SlotBorders
      <4> DEFINE r == slot(from)
      <4>3. (r + 2) * Window = (r + 1) * Window + Window /\ (r + 1) * Window \in Nat
        <5>1. r \in Nat
          BY SlotBorders
        <5> HIDE DEF r
        <5> QED
          BY <1>n, <5>1
      <4>4. key[slot(from)].expires \in Nat /\ slot(to) = r + 1 /\ to \in Nat
        BY <1>0, <1>3, Measured, SlotBorders
      <4>a. /\ key[slot(from)].expires >= (r + 1) * Window + Window
            /\ to = (r + 1) * Window + e
        BY <4>1, <4>2, <4>3, <4>4
      <4>5. e \in Nat /\ e + 1 <= d
        BY <2>2
      <4> DEFINE k == key[slot(from)].expires
                 w == (r + 1) * Window
      <4>6. k >= w + Window /\ to = w + e /\ k <= to + MaxDelay /\ k \in Nat /\ w \in Nat
        BY <4>1, <4>3, <4>4, <4>a
      <4> HIDE DEF k, w, e, d
      <4> QED
        BY <1>1, <1>n, <4>4, <4>5, <4>6
    <3>5. 3 * MaxDelay <= Window
      BY DEF SoonOver
    <3> HIDE DEF P, Q, F, d, e, q
    <3>6. (P + Q) * Window < (Limit + AtOnce) * Window + Limit * d
      BY ONLY <1>1, <1>n, <2>2, <2>a, <2>b, <3>1, <3>2, <3>3, <3>4, <3>5, TightBounds
    <3> QED
      BY <2>1, <3>6 DEF P, Q, d
  <2> QED
    BY <2>4, <2>5
<1> QED
  BY <1>2, <1>3, Neighbours

-----------------------------------------------------------------------------
(* Steps that let nothing of the later slot through.                       *)

LEMMA MeasuredNext ==
  ASSUME NEW from \in Times, NEW to \in Times
  PROVE  TypeOK' =>
         /\ Passed(Since(from))' \in Nat /\ Passed(UpTo(to))' \in Nat
         /\ UnderWay(slot(from))' \in Nat /\ UnderWay(slot(to))' \in Nat
         /\ UnderWay(slot(from))' <= AtOnce /\ UnderWay(slot(to))' <= AtOnce
         /\ key'[slot(from)].count \in 0..Limit /\ key'[slot(from)].expires \in Nat
<1> DEFINE M ==
             /\ Passed(Since(from)) \in Nat /\ Passed(UpTo(to)) \in Nat
             /\ UnderWay(slot(from)) \in Nat /\ UnderWay(slot(to)) \in Nat
             /\ UnderWay(slot(from)) <= AtOnce /\ UnderWay(slot(to)) <= AtOnce
             /\ key[slot(from)].count \in 0..Limit /\ key[slot(from)].expires \in Nat
<1>1. TypeOK => M
  BY Measured
<1> HIDE DEF M
<1>2. TypeOK' => M'
  BY <1>1, PTL
<1> QED
  BY <1>2 DEF M, AtOnce, slot

(* A step that lets no later request through.                              *)
LEMMA PairLess ==
  ASSUME TypeOK, TypeOK', SoonOver, NEW from \in Times, NEW to \in Times,
         PairKept(from, to), now <= now',
         key'[slot(from)].expires = key[slot(from)].expires,
         key'[slot(from)].count > 0 <=> key[slot(from)].count > 0,
         Passed(Since(from))' + key[slot(from)].count
           <= Passed(Since(from)) + key'[slot(from)].count,
         Passed(Since(from))' + UnderWay(slot(from))'
           <= Passed(Since(from)) + UnderWay(slot(from)),
         UnderWay(slot(from))' <= UnderWay(slot(from)),
         Passed(UpTo(to))' <= Passed(UpTo(to)),
         \/ UnderWay(slot(to))' <= UnderWay(slot(to))
         \/ key[slot(from)].count > 0 => now' < key[slot(from)].expires
  PROVE  PairKept(from, to)'
<1> DEFINE P == Passed(Since(from))
           Q == Passed(UpTo(to))
           F == UnderWay(slot(from))
           G == UnderWay(slot(to))
           e == elapsed(to)
           k == key[slot(from)]
           h == Heard(from, to)
<1>0. /\ Window \in Nat \ {0} /\ Limit \in Nat \ {0} /\ MaxDelay \in Nat
      /\ MaxDelay <= Window /\ AtOnce \in Nat \ {0} /\ now \in Nat /\ now' \in Nat
  BY Numbers DEF TypeOK, Times
<1>1. /\ P \in Nat /\ Q \in Nat /\ F \in Nat /\ G \in Nat /\ G <= AtOnce
      /\ k.count \in Nat /\ k.expires \in Nat /\ e \in Nat /\ e < Window
  <2>1. k.count \in 0..Limit
    BY Measured
  <2>2. k.count \in Nat
    BY <1>0, <2>1
  <2> QED
    BY <2>2, Measured, SlotBorders
<1>2. /\ P' \in Nat /\ Q' \in Nat /\ F' \in Nat /\ G' \in Nat /\ G' <= AtOnce
      /\ k'.count \in Nat
  <2>1. k'.count \in 0..Limit
    BY MeasuredNext
  <2>2. k'.count \in Nat
    BY <1>0, <2>1
  <2> QED
    BY <2>2, MeasuredNext
<1>3. /\ P' + k.count <= P + k'.count /\ P' + F' <= P + F /\ F' <= F /\ Q' <= Q
      /\ G' <= G \/ (k.count > 0 => now' < k.expires)
      /\ k'.expires = k.expires /\ (k'.count > 0 <=> k.count > 0)
  OBVIOUS
<1>4. Forgetful(from, to)' <=> Forgetful(from, to)
  BY <1>3 DEF Forgetful, slot
<1>5. /\ now < k.expires => h = Q
      /\ ~(now < k.expires) => h = Q + G - AtOnce
      /\ now' < k'.expires => h' = Q'
      /\ ~(now' < k'.expires) => h' = Q' + G' - AtOnce
  BY DEF Heard, slot, AtOnce
<1>6. AtOnce' = AtOnce /\ e' = e
  BY DEF AtOnce, elapsed
<1> HIDE DEF P, Q, F, G, e, h, k
<1>7. h \in Int /\ h' \in Int /\ (k.count > 0 => h' <= h)
  BY <1>0, <1>1, <1>2, <1>3, <1>5
<1>8. CASE ~Forgetful(from, to)
  <2>1. Near(Limit, Window, AtOnce, P, Q, F, e)
    BY <1>8 DEF PairKept, P, Q, F, e
  <2>2. Near(Limit, Window, AtOnce, P', Q', F', e)
    BY ONLY <1>0, <1>1, <1>2, <1>3, <2>1, NearLess
  <2>3. Near(Limit, Window, AtOnce, P, Q, F, e)'
    BY <1>6, <2>2 DEF Near
  <2> QED
    BY <1>4, <1>8, <2>3 DEF PairKept, P, Q, F, e
<1>9. CASE Forgetful(from, to)
  <2>1. P + 1 <= k.count /\ (h > 0 => Tight(Limit, Window, AtOnce, MaxDelay, P, F, e, h))
    BY <1>9 DEF PairKept, P, F, e, h, k
  <2>2. P' + 1 <= k'.count
    BY <1>1, <1>2, <1>3, <2>1
  <2>3. h' > 0 => Tight(Limit, Window, AtOnce, MaxDelay, P', F', e, h')
    <3> SUFFICES ASSUME h' > 0
                 PROVE  Tight(Limit, Window, AtOnce, MaxDelay, P', F', e, h')
      OBVIOUS
    <3>1. h' <= h /\ h > 0
      BY <1>7, <1>9 DEF Forgetful, k
    <3>2. Tight(Limit, Window, AtOnce, MaxDelay, P, F, e, h)
      BY <2>1, <3>1
    <3> QED
      BY ONLY <1>0, <1>1, <1>2, <1>3, <1>7, <3>1, <3>2, TightLess
  <2>4. Tight(Limit, Window, AtOnce, MaxDelay, P', F', e, h')
          <=> Tight(Limit, Window, AtOnce, MaxDelay, P, F, e, h)'
    BY <1>6 DEF Tight
  <2> QED
    BY <1>4, <1>9, <2>2, <2>3, <2>4 DEF PairKept, P, F, e, h, k, slot
<1> QED
  BY <1>8, <1>9

(* Before anything of the later slot is let through.                       *)
LEMMA PairEmpty ==
  ASSUME TypeOK', SoonOver, NEW from \in Times, NEW to \in Times,
         Passed(UpTo(to))' = 0,
         Forgetful(from, to)' => Passed(Since(from))' + 1 <= key'[slot(from)].count
  PROVE  PairKept(from, to)'
<1> DEFINE Q == Passed(UpTo(to))
           G == UnderWay(slot(to))
           h == Heard(from, to)
<1>1. AtOnce \in Nat /\ G' \in Nat /\ G' <= AtOnce /\ Q' = 0
  BY MeasuredNext, UnderWayTyped
<1>2. h' = Q' \/ h' = Q' + G' - AtOnce
  BY DEF Heard, slot, AtOnce
<1> HIDE DEF Q, G, h
<1>3. ~(h' > 0)
  BY <1>1, <1>2
<1>4. ~(Q' > 0)
  BY <1>1
<1>5. Near(Limit, Window, AtOnce, Passed(Since(from)), Q, UnderWay(slot(from)), elapsed(to))'
  BY <1>4 DEF Near
<1> QED
  BY <1>3, <1>5 DEF PairKept, Q, h, slot

LEMMA TicketsNext ==
  ASSUME NEW T \in SUBSET Times
  PROVE  TypeOK' => Passed(T)' \in Nat
<1> DEFINE M == Passed(T) \in Nat
<1>1. TypeOK => M
  BY TicketsFinite
<1> HIDE DEF M
<1>2. TypeOK' => M'
  BY <1>1, PTL
<1> QED
  BY <1>2 DEF M

LEMMA InitBurstInv == Init /\ TypeOK /\ SoonOver => BurstInv
<1> SUFFICES ASSUME Init, TypeOK, SoonOver PROVE BurstInv
  OBVIOUS
<1>1. \A T \in SUBSET Times : Passed(T) = 0
  BY NonePassed DEF Init
<1>2. CountsKept
  <2>1. \A s \in Slots : InSlot(s) \in SUBSET Times
    BY DEF InSlot
  <2> QED
    BY <1>1, <2>1 DEF CountsKept, Init
<1>3. ASSUME NEW from \in Times, NEW to \in Times
      PROVE  PairKept(from, to)
  <2>1. Passed(Since(from)) = 0 /\ Passed(UpTo(to)) = 0
    BY <1>1, Measured
  <2>2. ~Forgetful(from, to)
    BY SlotBorders DEF Init, Forgetful
  <2> QED
    BY <2>1, <2>2 DEF PairKept, Near
<1> QED
  BY <1>2, <1>3 DEF BurstInv

(* Nothing is judged, and nothing that was let through is forgotten.       *)
LEMMA SameCounts ==
  ASSUME TypeOK, TypeOK', CountsKept, UNCHANGED <<now, key, through>>,
         \A c \in Clients : stamp'[c] \in {None, now, stamp[c]}
  PROVE  CountsKept'
<1>1. \A s \in Slots : Passed(InSlot(s))' = Passed(InSlot(s))
  BY DEF Passed, Tickets, InSlot, slot
<1>2. now \in Nat /\ MaxDelay \in Nat
  BY RateLimiterAssumption DEF TypeOK, Times
<1>3. \A c \in Clients : stamp'[c] # None =>
         stamp'[c] <= now /\ now <= stamp'[c] + MaxDelay
  BY <1>2 DEF CountsKept
<1> QED
  BY <1>1, <1>3 DEF CountsKept

LEMMA OthersUnderWay ==
  ASSUME TypeOK, NEW c \in Clients, stamp[c] = None, stamp' = [stamp EXCEPT ![c] = now],
         NEW s, slot(now) # s
  PROVE  UnderWay(s)' = UnderWay(s)
<1>1. \A d \in Clients : stamp'[d] = IF d = c THEN now ELSE stamp[d]
  BY DEF TypeOK
<1> QED
  BY <1>1, UnderWayAsBefore DEF slot

(* A new request is under way in the slot of the clock, where none of a    *)
(* later slot has been let through and the counter before is still there.  *)
LEMMA ArriveKeepsBurstInv ==
  ASSUME TypeOK', SoonOver, BurstInv, NEW c \in Clients, Arrive(c)
  PROVE  BurstInv'
<1>0. /\ TypeOK /\ CountsKept
      /\ stamp[c] = None /\ stamp' = [stamp EXCEPT ![c] = now]
      /\ now' = now /\ key' = key /\ through' = through
  BY DEF BurstInv, Arrive
<1>1. CountsKept'
  <2>1. \A d \in Clients : stamp'[d] \in {None, now, stamp[d]}
    BY <1>0 DEF TypeOK
  <2> QED
    BY <1>0, <2>1, SameCounts
<1>2. ASSUME NEW from \in Times, NEW to \in Times, Neighboured(from, to)
      PROVE  PairKept(from, to)'
  <2>1. PairKept(from, to) /\ slot(to) = slot(from) + 1
    BY <1>2 DEF BurstInv, Neighboured
  <2>2. /\ Passed(Since(from))' = Passed(Since(from))
        /\ Passed(UpTo(to))' = Passed(UpTo(to))
    BY <1>0 DEF Passed, Tickets, Since, UpTo, InSlot, slot
  <2>3. /\ now \in Times /\ now \in Nat /\ slot(now) \in Nat /\ slot(from) \in Nat
    BY <1>0, SlotBorders DEF TypeOK
  <2>4. /\ Passed(Since(from)) \in Nat /\ Passed(UpTo(to)) \in Nat
        /\ UnderWay(slot(from)) \in Nat /\ UnderWay(slot(to)) \in Nat
        /\ key[slot(from)].count \in Int
    <3>1. key[slot(from)].count \in 0..Limit
      BY <1>0, Measured
    <3> QED
      BY <1>0, <3>1, Measured
  <2>5. CASE slot(now) = slot(from)
    <3>1. \A u \in UpTo(to) : through[u] = 0
      <4> SUFFICES ASSUME NEW u \in Times, slot(u) = slot(to), through[u] > 0 PROVE FALSE
        BY <1>0 DEF UpTo, InSlot, TypeOK
      <4>1. u <= now
        BY <1>0 DEF CountsKept
      <4>2. slot(u) <= slot(now)
        BY <2>3, <4>1, SlotsOrdered, SlotBorders
      <4> QED
        BY <2>1, <2>3, <2>5, <4>2
    <3>2. Passed(UpTo(to))' = 0
      BY <2>2, <3>1, NonePassed
    <3>3. Forgetful(from, to)' => Passed(Since(from))' + 1 <= key'[slot(from)].count
      BY <1>0, <2>1, <2>2 DEF PairKept, Forgetful, slot
    <3> QED
      BY <3>2, <3>3, PairEmpty
  <2>6. CASE slot(now) # slot(from)
    <3>1. UnderWay(slot(from))' = UnderWay(slot(from))
      BY <1>0, <2>6, OthersUnderWay
    <3>2. \/ UnderWay(slot(to))' <= UnderWay(slot(to))
          \/ key[slot(from)].count > 0 => now' < key[slot(from)].expires
      <4>1. CASE slot(now) # slot(to)
        <5>1. UnderWay(slot(to))' = UnderWay(slot(to))
          BY <1>0, <4>1, OthersUnderWay
        <5> QED
          BY <2>4, <5>1
      <4>2. CASE slot(now) = slot(to)
        <5> SUFFICES ASSUME key[slot(from)].count > 0
                     PROVE  now < key[slot(from)].expires
          BY <1>0
        <5>1. key[slot(from)].expires >= (slot(from) + 2) * Window
          BY <1>0, SlotBorders DEF CountsKept
        <5>2. now < (slot(now) + 1) * Window
          BY <2>3, SlotBorders
        <5>3. slot(now) + 1 = slot(from) + 2
          BY <2>1, <2>3, <4>2
        <5>4. (slot(from) + 2) * Window \in Nat /\ key[slot(from)].expires \in Nat
          <6> DEFINE n == slot(from) + 2
          <6>1. n \in Nat /\ n <= n
            BY <2>3
          <6> HIDE DEF n
          <6>2. n * Window \in Nat
            BY <6>1, SlotOrder
          <6> QED
            BY <1>0, <6>2, Measured DEF n
        <5> QED
          BY <2>3, <5>1, <5>2, <5>3, <5>4
      <4> QED
        BY <4>1, <4>2
    <3> QED
      BY <1>0, <2>1, <2>2, <2>3, <2>4, <3>1, <3>2, PairLess
  <2> QED
    BY <2>5, <2>6
<1> QED
  BY <1>0, <1>1, <1>2 DEF BurstInv, Neighboured, slot

(* Nothing happens to the counters, and no one arrives.                    *)
LEMMA LeaveKeepsBurstInv ==
  ASSUME TypeOK', SoonOver, BurstInv, UNCHANGED <<now, key, through>>,
         \A s : UnderWay(s)' \in {UnderWay(s), UnderWay(s) - 1},
         \A c \in Clients : stamp'[c] \in {None, stamp[c]}
  PROVE  BurstInv'
<1>0. TypeOK /\ CountsKept
  BY DEF BurstInv
<1>1. CountsKept'
  BY <1>0, SameCounts
<1>2. ASSUME NEW from \in Times, NEW to \in Times, Neighboured(from, to)
      PROVE  PairKept(from, to)'
  <2>1. PairKept(from, to)
    BY <1>2 DEF BurstInv, Neighboured
  <2>2. /\ Passed(Since(from))' = Passed(Since(from))
        /\ Passed(UpTo(to))' = Passed(UpTo(to))
    BY <1>0 DEF Passed, Tickets, Since, UpTo, InSlot, slot
  <2>3. /\ Passed(Since(from)) \in Nat /\ Passed(UpTo(to)) \in Nat
        /\ UnderWay(slot(from)) \in Nat /\ UnderWay(slot(to)) \in Nat
        /\ key[slot(from)].count \in Int /\ now \in Int
    <3>1. key[slot(from)].count \in 0..Limit
      BY <1>0, Measured
    <3>2. now \in Int
      BY <1>0 DEF TypeOK, Times
    <3> QED
      BY <1>0, <3>1, <3>2, Measured
  <2>4. /\ UnderWay(slot(from))' \in {UnderWay(slot(from)), UnderWay(slot(from)) - 1}
        /\ UnderWay(slot(to))' \in {UnderWay(slot(to)), UnderWay(slot(to)) - 1}
    OBVIOUS
  <2> QED
    BY <1>0, <2>1, <2>2, <2>3, <2>4, PairLess
<1> QED
  BY <1>0, <1>1, <1>2 DEF BurstInv, Neighboured, slot

(* A call that nothing is counted for.                                     *)
LEMMA UncountedKeepsBurstInv ==
  ASSUME TypeOK', SoonOver, BurstInv, NEW c \in Clients, Judged(c),
         UNCHANGED <<now, key, through>>
  PROVE  BurstInv'
<1>0. TypeOK
  BY DEF BurstInv
<1>1. \A s : UnderWay(s)' \in {UnderWay(s), UnderWay(s) - 1}
  BY <1>0, OneLessUnderWay DEF Judged
<1>2. \A d \in Clients : stamp'[d] \in {None, stamp[d]}
  BY <1>0 DEF Judged, TypeOK
<1> QED
  BY <1>1, <1>2, LeaveKeepsBurstInv

LEMMA IdleKeepsBurstInv ==
  ASSUME TypeOK', SoonOver, BurstInv, UNCHANGED <<now, key, stamp, through>>
  PROVE  BurstInv'
<1>1. \A s : UnderWay(s)' = UnderWay(s)
  BY UnderWayAsBefore
<1> QED
  BY <1>1, LeaveKeepsBurstInv

(* Time passes: what is forgotten was let through long ago.                *)
LEMMA TickKeepsBurstInv ==
  ASSUME TypeOK', SoonOver, BurstInv, Tick
  PROVE  BurstInv'
<1>0. /\ TypeOK /\ CountsKept /\ now \in Nat /\ now' = now + 1
      /\ UNCHANGED <<key, stamp>> /\ MaxDelay \in Nat
  BY RateLimiterAssumption DEF BurstInv, Tick, TypeOK, Times
<1>1. \A t \in Times : through'[t] \in {0, through[t]}
  BY DEF Tick
<1>2. \A T \in SUBSET Times : Passed(T)' <= Passed(T)
  BY <1>0, <1>1, Forgotten
<1>3. CountsKept'
  <2>1. \A t \in Times : through'[t] > 0 => t <= now'
    <3> SUFFICES ASSUME NEW t \in Times, through'[t] > 0 PROVE t <= now + 1
      BY <1>0
    <3>1. through[t] > 0 /\ t \in Nat
      BY <1>1, SlotBorders
    <3> QED
      BY <1>0, <3>1 DEF CountsKept
  <2>2. \A c \in Clients : stamp[c] # None => stamp[c] <= now' /\ now' <= stamp[c] + MaxDelay
    <3> SUFFICES ASSUME NEW c \in Clients, stamp[c] # None
                 PROVE  stamp[c] <= now + 1 /\ now + 1 <= stamp[c] + MaxDelay
      BY <1>0
    <3>1. stamp[c] \in Nat /\ stamp[c] <= now /\ now < stamp[c] + MaxDelay
      BY <1>0, Constants DEF CountsKept, TypeOK, Tick
    <3> QED
      BY <1>0, <3>1
  <2>3. ASSUME NEW s \in Slots
        PROVE  Passed(InSlot(s))' <= key[s].count
    <3>1. InSlot(s) \in SUBSET Times
      BY DEF InSlot
    <3>2. Passed(InSlot(s))' <= Passed(InSlot(s)) /\ Passed(InSlot(s)) <= key[s].count
      BY <1>0, <1>2, <3>1 DEF CountsKept, InSlot, slot
    <3>3. Passed(InSlot(s)) \in Nat /\ Passed(InSlot(s))' \in Nat
      BY <1>0, <3>1, TicketsFinite, TicketsNext DEF InSlot, slot
    <3>4. key[s].count \in Nat
      <4>1. key[s].count \in 0..Limit
        BY <1>0 DEF TypeOK
      <4> QED
        BY <4>1, Constants
    <3> QED
      BY <3>2, <3>3, <3>4
  <2>4. \A s \in Slots : key[s].count > 0 => key[s].expires >= (s + 2) * Window
    BY <1>0 DEF CountsKept
  <2> QED
    BY <1>0, <2>1, <2>2, <2>3, <2>4 DEF CountsKept, InSlot, slot
<1>4. ASSUME NEW from \in Times, NEW to \in Times, Neighboured(from, to)
      PROVE  PairKept(from, to)'
  <2>1. PairKept(from, to)
    BY <1>4 DEF BurstInv, Neighboured
  <2>2. /\ Passed(Since(from))' <= Passed(Since(from))
        /\ Passed(UpTo(to))' <= Passed(UpTo(to))
    BY <1>0, <1>2, Measured DEF Since, UpTo, InSlot, slot
  <2>3. /\ Passed(Since(from)) \in Nat /\ Passed(UpTo(to)) \in Nat
        /\ Passed(Since(from))' \in Nat /\ Passed(UpTo(to))' \in Nat
        /\ UnderWay(slot(from)) \in Nat /\ UnderWay(slot(to)) \in Nat
        /\ key[slot(from)].count \in Nat
    <3>1. key[slot(from)].count \in 0..Limit
      BY <1>0, Measured
    <3>2. key[slot(from)].count \in Nat
      BY <3>1, Constants
    <3> QED
      BY <1>0, <3>2, Measured, MeasuredNext
  <2>4. \A s : UnderWay(s)' = UnderWay(s)
    BY <1>0, UnderWayAsBefore
  <2>5. /\ UnderWay(slot(from))' = UnderWay(slot(from))
        /\ UnderWay(slot(to))' = UnderWay(slot(to))
    BY <2>4
  <2>6. now <= now'
    BY <1>0
  <2>7. key' = key
    BY <1>0
  <2>8. Passed(Since(from))' + key[slot(from)].count
          <= Passed(Since(from)) + key[slot(from)].count
    BY <2>2, <2>3
  <2>9. /\ Passed(Since(from))' + UnderWay(slot(from))
             <= Passed(Since(from)) + UnderWay(slot(from))
        /\ UnderWay(slot(from)) <= UnderWay(slot(from))
        /\ UnderWay(slot(to)) <= UnderWay(slot(to))
    BY <2>2, <2>3
  <2> QED
    BY <1>0, <2>1, <2>2, <2>5, <2>6, <2>7, <2>8, <2>9, PairLess
<1> QED
  BY <1>0, <1>3, <1>4 DEF BurstInv, Neighboured, slot

-----------------------------------------------------------------------------
(* The step that counts a request.                                         *)

\* The request of c is let in by the script and counted.
CountedAt(c) ==
  /\ Judged(c) /\ Allows(stamp[c]) /\ Incr(stamp[c]) /\ now' = now
  /\ LetThrough(c) \/ UNCHANGED through

(* While a request is under way nothing its slot has counted is forgotten. *)
LEMMA StillThere ==
  ASSUME TypeOK, CountsKept, SoonOver, NEW c \in Clients, stamp[c] # None
  PROVE  /\ stamp[c] \in Times /\ stamp[c] <= now /\ now <= stamp[c] + MaxDelay
         /\ now < (slot(stamp[c]) + 1) * Window + MaxDelay
         /\ GetCounter(slot(stamp[c])) = key[slot(stamp[c])].count
<1> DEFINE t == stamp[c]
           r == slot(t)
<1>1. t \in Times /\ t <= now /\ now <= t + MaxDelay
  BY DEF TypeOK, CountsKept
<1> HIDE DEF t
<1>2. /\ t \in Nat /\ r \in Nat /\ r \in Slots /\ t < (r + 1) * Window
  BY <1>1, SlotBorders
<1>3. /\ Window \in Nat /\ MaxDelay \in Nat /\ MaxDelay <= Window /\ now \in Nat
  BY Numbers
<1>4. key[r].count \in Nat /\ key[r].expires \in Nat
  <2>1. key[r].count \in 0..Limit /\ key[r].expires \in Nat
    BY <1>2 DEF TypeOK
  <2> QED
    BY <2>1, Constants
<1>5. key[r].count > 0 => key[r].expires >= (r + 2) * Window
  BY <1>2 DEF CountsKept
<1> HIDE DEF r
<1>6. (r + 2) * Window = (r + 1) * Window + Window /\ (r + 1) * Window \in Nat
  BY <1>2, <1>3
<1>7. now < (r + 1) * Window + MaxDelay
  BY <1>1, <1>2, <1>3, <1>6
<1>8. key[r].count > 0 => key[r].expires > now
  BY <1>3, <1>4, <1>5, <1>6, <1>7
<1>9. GetCounter(r) = key[r].count
  BY <1>2, <1>4, <1>8 DEF GetCounter
<1> QED
  BY <1>1, <1>7, <1>9 DEF r, t

(* What the script does, said of the counts alone.                         *)
LEMMA CountedStep ==
  ASSUME TypeOK, CountsKept, SoonOver, NEW c \in Clients, CountedAt(c)
  PROVE  /\ \A s \in Slots \ {slot(stamp[c])} : key'[s] = key[s]
         /\ key'[slot(stamp[c])].count = key[slot(stamp[c])].count + 1
         /\ key'[slot(stamp[c])].expires =
              IF key[slot(stamp[c])].count = 0 THEN now + 2 * Window
              ELSE key[slot(stamp[c])].expires
         /\ \A T \in SUBSET Times :
              /\ Passed(T) \in Nat
              /\ Passed(T)' = Passed(T) \/ (stamp[c] \in T /\ Passed(T)' = Passed(T) + 1)
<1> DEFINE t == stamp[c]
           r == slot(t)
<1>1. t \in Times /\ GetCounter(r) = key[r].count /\ r \in Slots /\ stamp[c] # None
  BY StillThere, SlotBorders DEF CountedAt, Judged
<1>2. ASSUME NEW T \in SUBSET Times
      PROVE  /\ Passed(T) \in Nat
             /\ Passed(T)' = Passed(T) \/ (stamp[c] \in T /\ Passed(T)' = Passed(T) + 1)
  <2>1. Passed(T) \in Nat
    BY TicketsFinite
  <2>2. CASE LetThrough(c)
    BY <1>1, <2>1, <2>2, OneMorePassed
  <2>3. CASE UNCHANGED through
    <3>1. Passed(T)' = Passed(T)
      BY <2>3 DEF Passed, Tickets
    <3> QED
      BY <2>1, <3>1
  <2> QED
    BY <2>2, <2>3 DEF CountedAt
<1>3. key \in [Slots -> KeyType]
  BY DEF TypeOK, KeyType
<1>4. key' = [key EXCEPT ![r] =
               IF key[r].count = 0 THEN [count |-> 1, expires |-> now + 2 * Window]
               ELSE [count |-> key[r].count + 1, expires |-> key[r].expires]]
  <2>1. Window * 2 = 2 * Window
    BY RateLimiterAssumption
  <2> QED
    BY <1>1, <2>1 DEF CountedAt, Incr, keyTTL
<1>5. \A s \in Slots \ {r} : key'[s] = key[s]
  BY <1>3, <1>4
<1>6. key'[r] = IF key[r].count = 0 THEN [count |-> 1, expires |-> now + 2 * Window]
                ELSE [count |-> key[r].count + 1, expires |-> key[r].expires]
  BY <1>1, <1>3, <1>4
<1>7. key'[r].count = key[r].count + 1
  <2>1. key[r].count = 0 => key'[r].count = 0 + 1
    BY <1>6
  <2>2. key[r].count # 0 => key'[r].count = key[r].count + 1
    BY <1>6
  <2> QED
    BY <2>1, <2>2
<1>8. key'[r].expires = IF key[r].count = 0 THEN now + 2 * Window ELSE key[r].expires
  BY <1>6
<1> QED
  BY <1>2, <1>5, <1>7, <1>8

LEMMA CountedKeepsCounts ==
  ASSUME TypeOK, TypeOK', CountsKept, SoonOver, NEW c \in Clients, CountedAt(c)
  PROVE  CountsKept'
<1> DEFINE t == stamp[c]
           r == slot(t)
<1>1. /\ t \in Times /\ t <= now /\ stamp[c] # None /\ now' = now /\ r \in Slots
      /\ t \in Nat /\ r \in Nat /\ r * Window <= t /\ now \in Nat /\ Window \in Nat
      /\ r * Window \in Nat
  <2>1. t \in Times /\ t <= now /\ stamp[c] # None /\ now' = now
    BY StillThere DEF CountedAt, Judged
  <2>2. r \in Slots /\ t \in Nat /\ r \in Nat /\ r * Window <= t
    BY <2>1, SlotBorders
  <2>3. now \in Nat /\ Window \in Nat
    BY Numbers
  <2> HIDE DEF r
  <2>4. r * Window \in Nat
    BY <2>2, <2>3
  <2> QED
    BY <2>1, <2>2, <2>3, <2>4
<1>2. \A s \in Slots : key[s].count \in Nat /\ key[s].expires \in Nat
  <2>1. \A s \in Slots : key[s].count \in 0..Limit /\ key[s].expires \in Nat
    BY DEF TypeOK
  <2> QED
    BY <2>1, Constants
<1> HIDE DEF t, r
<1>3. /\ \A s \in Slots \ {r} : key'[s] = key[s]
      /\ key'[r].count = key[r].count + 1
      /\ key[r].count = 0 => key'[r].expires = now + 2 * Window
      /\ key[r].count # 0 => key'[r].expires = key[r].expires
      /\ \A T \in SUBSET Times :
           /\ Passed(T) \in Nat
           /\ Passed(T)' = Passed(T) \/ (t \in T /\ Passed(T)' = Passed(T) + 1)
  BY CountedStep DEF t, r
<1>4. ASSUME NEW s \in Slots, key'[s].count > 0
      PROVE  key'[s].expires >= (s + 2) * Window
  <2>1. CASE s # r
    BY <1>3, <1>4, <2>1 DEF CountsKept
  <2>2. CASE s = r /\ key[r].count # 0
    BY <1>1, <1>2, <1>3, <2>2 DEF CountsKept
  <2>3. CASE s = r /\ key[r].count = 0
    <3>1. (r + 2) * Window = r * Window + 2 * Window
      BY <1>1
    <3> QED
      BY <1>1, <1>3, <2>3, <3>1
  <2> QED
    BY <2>1, <2>2, <2>3
<1>5. ASSUME NEW u \in Times, through'[u] > 0
      PROVE  u <= now
  <2>1. u = t \/ through'[u] = through[u]
    BY DEF CountedAt, LetThrough, TypeOK, t
  <2> QED
    BY <1>1, <1>5, <2>1 DEF CountsKept
<1>6. \A d \in Clients : stamp'[d] # None => stamp'[d] = stamp[d]
  BY DEF CountedAt, Judged, TypeOK
<1>7. ASSUME NEW s \in Slots
      PROVE  Passed(InSlot(s))' <= key'[s].count
  <2>1. InSlot(s) \in SUBSET Times /\ (t \in InSlot(s) => s = r)
    BY DEF InSlot, r
  <2>2. Passed(InSlot(s)) <= key[s].count
    BY DEF CountsKept
  <2>3. /\ Passed(InSlot(s)) \in Nat
        /\ \/ Passed(InSlot(s))' = Passed(InSlot(s))
           \/ s = r /\ Passed(InSlot(s))' = Passed(InSlot(s)) + 1
    BY <1>3, <2>1 DEF InSlot, slot
  <2> QED
    BY <1>2, <1>3, <2>2, <2>3
<1> QED
  BY <1>1, <1>4, <1>5, <1>6, <1>7 DEF CountsKept, InSlot, slot

(* The request that is let in was stamped in the slot of from.             *)
LEMMA CountedEarlier ==
  ASSUME TypeOK, TypeOK', SoonOver, BurstInv, NEW c \in Clients, CountedAt(c),
         NEW from \in Times, NEW to \in Times, Neighboured(from, to),
         slot(stamp[c]) = slot(from)
  PROVE  PairKept(from, to)'
<1> DEFINE t == stamp[c]
           k == key[slot(from)]
           P == Passed(Since(from))
           Q == Passed(UpTo(to))
           F == UnderWay(slot(from))
           G == UnderWay(slot(to))
<1>0. /\ TypeOK /\ CountsKept /\ PairKept(from, to) /\ slot(to) = slot(from) + 1
      /\ to - from < Window /\ now' = now /\ stamp[c] # None
      /\ stamp' = [stamp EXCEPT ![c] = None]
  BY DEF BurstInv, Neighboured, CountedAt, Judged
<1>1. /\ P \in Nat /\ Q \in Nat /\ F \in Nat /\ G \in Nat /\ k.count \in Nat
      /\ from \in Nat /\ to \in Nat /\ now \in Nat /\ Window \in Nat \ {0}
      /\ MaxDelay \in Nat /\ MaxDelay <= Window /\ slot(from) \in Nat /\ slot(to) \in Nat
  <2>1. k.count \in 0..Limit
    BY Measured
  <2>2. k.count \in Nat
    BY <2>1, Constants
  <2> QED
    BY <2>2, Measured, SlotBorders, Numbers
<1>2. t \in Times /\ t <= now /\ slot(t) = slot(from) /\ t \in Nat
  BY <1>0, StillThere, SlotBorders
<1>3. /\ k'.count = k.count + 1
      /\ k.count = 0 => k'.expires = now + 2 * Window
      /\ k.count # 0 => k'.expires = k.expires
      /\ P' = P \/ (t \in Since(from) /\ P' = P + 1)
      /\ Q' = Q
  <2>1. Since(from) \in SUBSET Times /\ UpTo(to) \in SUBSET Times /\ t \notin UpTo(to)
    BY <1>0, <1>1, <1>2, Measured DEF UpTo, InSlot
  <2>2. /\ key'[slot(t)].count = key[slot(t)].count + 1
        /\ key'[slot(t)].expires =
             IF key[slot(t)].count = 0 THEN now + 2 * Window ELSE key[slot(t)].expires
        /\ \A T \in SUBSET Times :
             Passed(T)' = Passed(T) \/ (t \in T /\ Passed(T)' = Passed(T) + 1)
    BY <1>0, CountedStep
  <2>3. /\ P' = P \/ (t \in Since(from) /\ P' = P + 1)
        /\ Q' = Q
    BY <2>1, <2>2 DEF Since, UpTo, InSlot, slot
  <2> HIDE DEF P, Q, t
  <2>4. k'.count = k.count + 1
    BY <1>2, <2>2 DEF slot
  <2>5. k'.expires = IF k.count = 0 THEN now + 2 * Window ELSE k.expires
    BY <1>2, <2>2 DEF slot
  <2> QED
    BY <2>3, <2>4, <2>5
<1>4. F' = F - 1 /\ G' = G
  <2>1. \A s : UnderWay(s)' = IF slot(t) = s THEN UnderWay(s) - 1 ELSE UnderWay(s)
    BY <1>0, OneLessUnderWay
  <2> HIDE DEF t
  <2>2. slot(t) # slot(to)
    BY <1>0, <1>1, <1>2
  <2> QED
    BY <1>2, <2>1, <2>2 DEF slot
<1> HIDE DEF t
<1>5. CASE k.count > 0
  <2>1. /\ (k'.count > 0 <=> k.count > 0) /\ k'.expires = k.expires
        /\ P' + k.count <= P + k'.count /\ P' + F' <= P + F /\ F' <= F
        /\ Q' <= Q /\ G' <= G /\ now <= now'
    <3> HIDE DEF k, P, Q, F, G
    <3> QED
      BY <1>0, <1>1, <1>3, <1>4, <1>5
  <2> QED
    BY <1>0, <2>1, PairLess DEF slot
<1>7. CASE k.count = 0 /\ ~Forgetful(from, to)'
  <2> DEFINE e == elapsed(to)
  <2>1. Near(Limit, Window, AtOnce, P, Q, F, e)
    BY <1>0, <1>7 DEF PairKept, Forgetful
  <2>2. /\ P' + F' <= P + F /\ Q' <= Q /\ F' <= F
        /\ P' \in Nat /\ Q' \in Nat /\ F' \in Nat
    <3>1. P' \in Nat /\ Q' \in Nat /\ F' \in Nat
      BY MeasuredNext
    <3> HIDE DEF P, Q, F, G, k
    <3>2. P' <= P + 1 /\ Q' = Q /\ F' = F - 1
      BY <1>1, <1>3, <1>4
    <3>3. P \in Nat /\ F \in Nat /\ Q \in Nat
      BY <1>1
    <3>4. ASSUME NEW p \in Nat, NEW q \in Nat, NEW f \in Nat,
                 p <= P + 1, q = Q, f = F - 1
          PROVE  p + f <= P + F /\ q <= Q /\ f <= F
      BY ONLY <3>3, <3>4
    <3> QED
      BY <3>1, <3>2, <3>4
  <2>3. /\ Limit \in Nat /\ AtOnce \in Nat /\ e \in Nat /\ e < Window
    BY Constants, UnderWayTyped, SlotBorders
  <2> HIDE DEF P, Q, F, e
  <2>4. Near(Limit, Window, AtOnce, P', Q', F', e)
    BY ONLY <1>1, <2>1, <2>2, <2>3, NearLess
  <2>5. Near(Limit, Window, AtOnce, P, Q, F, e)'
    BY <2>4 DEF Near, AtOnce, e, elapsed
  <2> QED
    BY <1>7, <2>5 DEF PairKept, P, Q, F, e
<1>6. CASE k.count = 0 /\ Forgetful(from, to)'
  <2>1. now + 2 * Window <= to + MaxDelay
    BY <1>3, <1>6 DEF Forgetful, slot
  <2>2. now < from
    BY <1>0, <1>1, <2>1
  <2>3. t \notin Since(from)
    BY <1>1, <1>2, <2>2 DEF Since
  <2>4. P <= k.count
    BY <1>0, WithinCounts
  <2>5. P' + 1 <= k'.count
    BY <1>1, <1>3, <1>6, <2>3, <2>4
  <2>6. \A u \in UpTo(to) : through[u] = 0
    <3> SUFFICES ASSUME NEW u \in Times, slot(u) = slot(to), through[u] > 0 PROVE FALSE
      BY <1>0 DEF UpTo, InSlot, TypeOK
    <3>1. u <= now /\ u \in Nat
      BY <1>0, SlotBorders DEF CountsKept
    <3>2. slot(u) <= slot(from)
      BY <1>1, <2>2, <3>1, SlotsOrdered
    <3> QED
      BY <1>0, <1>1, <3>2
  <2>7. Q' = 0
    BY <1>3, <2>6, NonePassed
  <2> QED
    BY <1>0, <2>5, <2>7, PairEmpty
<1> QED
  BY <1>1, <1>5, <1>6, <1>7

(* The request that is let in was stamped in the slot of to.               *)
LEMMA CountedLater ==
  ASSUME TypeOK, TypeOK', SoonOver, BurstInv, NEW c \in Clients, CountedAt(c),
         NEW from \in Times, NEW to \in Times, Neighboured(from, to),
         slot(stamp[c]) = slot(to)
  PROVE  PairKept(from, to)'
<1> DEFINE t == stamp[c]
           x == elapsed(t)
           e == elapsed(to)
           k == key[slot(from)]
           m == key[slot(to)].count
           P == Passed(Since(from))
           Q == Passed(UpTo(to))
           F == UnderWay(slot(from))
           G == UnderWay(slot(to))
<1>0. /\ TypeOK /\ CountsKept /\ PairKept(from, to) /\ slot(to) = slot(from) + 1
      /\ now' = now /\ stamp[c] # None /\ stamp' = [stamp EXCEPT ![c] = None]
  BY DEF BurstInv, Neighboured, CountedAt, Judged
<1>n. /\ Window \in Nat \ {0} /\ Limit \in Nat \ {0} /\ MaxDelay \in Nat
      /\ MaxDelay <= Window /\ AtOnce \in Nat \ {0} /\ now \in Nat
  BY Numbers
<1>1. /\ P \in Nat /\ Q \in Nat /\ F \in Nat /\ G \in Nat /\ k.count \in Nat
      /\ m \in Nat /\ k.expires \in Nat /\ P <= k.count /\ Q <= m
      /\ slot(from) \in Nat /\ slot(to) \in Nat /\ slot(from) \in Slots
  <2>1. k.count \in 0..Limit /\ m \in 0..Limit
    BY Measured
  <2>2. k.count \in Nat /\ m \in Nat
    BY <2>1, Constants
  <2> QED
    BY <1>0, <2>2, Measured, SlotBorders, WithinCounts
<1>2. /\ t \in Times /\ t <= now /\ now <= t + MaxDelay /\ slot(t) = slot(to) /\ t \in Nat
      /\ GetCounter(slot(t)) = m
  BY <1>0, StillThere, SlotBorders
<1>3. /\ k' = k
      /\ P' = P
      /\ Q' = Q \/ (t <= to /\ Q' = Q + 1)
  <2>1. Since(from) \in SUBSET Times /\ UpTo(to) \in SUBSET Times /\ t \notin Since(from)
        /\ (t \in UpTo(to) => t <= to)
    BY <1>0, <1>1, <1>2, Measured DEF Since, UpTo, InSlot
  <2>2. /\ \A s \in Slots \ {slot(t)} : key'[s] = key[s]
        /\ \A T \in SUBSET Times :
             Passed(T)' = Passed(T) \/ (t \in T /\ Passed(T)' = Passed(T) + 1)
    BY <1>0, CountedStep
  <2> HIDE DEF t
  <2>3. P' = P /\ (Q' = Q \/ (t <= to /\ Q' = Q + 1))
    BY <2>1, <2>2 DEF Since, UpTo, InSlot, slot
  <2>4. slot(from) # slot(t)
    BY <1>0, <1>1, <1>2
  <2> QED
    BY <1>1, <2>2, <2>3, <2>4 DEF slot
<1>4. F' = F /\ G' = G - 1 /\ F < AtOnce
  <2>1. \A s : UnderWay(s)' = IF slot(t) = s THEN UnderWay(s) - 1 ELSE UnderWay(s)
    BY <1>0, OneLessUnderWay
  <2>2. slot(t) # slot(from)
    BY <1>0, <1>1, <1>2
  <2>3. c \notin UnderWayIn(slot(from))
    BY <2>2 DEF UnderWayIn
  <2>4. F < AtOnce
    BY <2>3, UnderWayTyped
  <2> HIDE DEF t
  <2> QED
    BY <1>2, <2>1, <2>2, <2>4 DEF slot
<1>5. Allows(t)
  BY DEF CountedAt
<1>6. x \in Nat /\ e \in Nat /\ e < Window /\ (t <= to => x <= e)
  BY <1>2, SlotBorders, SlotsOrdered
<1> HIDE DEF t, x, e, k, m, P, Q, F, G
<1>7. now < k.expires \/ k.count = 0 => k.count * (Window - x) + m * Window < Limit * Window
  <2>1. slot(t) - 1 = slot(from)
    BY <1>0, <1>1, <1>2
  <2>2. now < k.expires \/ k.count = 0 => GetCounter(slot(t) - 1) = k.count
    BY <1>1, <1>n, <2>1 DEF GetCounter, k
  <2> QED
    BY <1>2, <1>5, <2>2 DEF Allows, used, x
<1>8. CASE Q' = Q
  <2>1. /\ (k'.count > 0 <=> k.count > 0) /\ k'.expires = k.expires
        /\ P' + k.count <= P + k'.count /\ P' + F' <= P + F /\ F' <= F
        /\ Q' <= Q /\ G' <= G /\ now <= now'
    BY <1>0, <1>n, <1>1, <1>3, <1>4, <1>8
  <2> QED
    BY <1>0, <2>1, PairLess DEF slot, k, P, Q, F, G
<1>9. CASE t <= to /\ Q' = Q + 1 /\ ~Forgetful(from, to)
  <2>1. now < k.expires \/ k.count = 0
    BY <1>n, <1>1, <1>2, <1>9, SlotBorders DEF Forgetful, k
  <2>2. k.count * (Window - x) + m * Window < Limit * Window
    BY <1>7, <2>1
  <2>3. x <= e
    BY <1>6, <1>9
  <2>4. Near(Limit, Window, AtOnce, P, Q + 1, F, e)
    BY ONLY <1>n, <1>1, <1>4, <1>6, <2>2, <2>3, LetInNear
  <2>5. Near(Limit, Window, AtOnce, P', Q', F', e)
    BY <1>3, <1>4, <1>9, <2>4
  <2>6. Near(Limit, Window, AtOnce, P, Q, F, e)'
    BY <2>5 DEF Near, AtOnce, e, elapsed
  <2>7. ~Forgetful(from, to)'
    BY <1>3, <1>9 DEF Forgetful, slot, k
  <2> QED
    BY <2>6, <2>7 DEF PairKept, P, Q, F, e
<1>10. CASE t <= to /\ Q' = Q + 1 /\ Forgetful(from, to)
  <2> DEFINE h == Heard(from, to)
  <2>1. /\ now < k.expires => h' = Q + 1
        /\ ~(now < k.expires) => h' = Q + G - AtOnce /\ h = h'
    <3>1. /\ now < k.expires => h' = Q'
          /\ ~(now < k.expires) => h' = Q' + G' - AtOnce /\ h = Q + G - AtOnce
      BY <1>0, <1>3 DEF Heard, slot, AtOnce, k, Q, G
    <3> HIDE DEF h
    <3> QED
      BY <1>n, <1>1, <1>4, <1>10, <3>1
  <2>2. /\ P + 1 <= k.count
        /\ h > 0 => Tight(Limit, Window, AtOnce, MaxDelay, P, F, e, h)
    BY <1>0, <1>10 DEF PairKept, k, P, F, e
  <2>3. h' > 0 => Tight(Limit, Window, AtOnce, MaxDelay, P, F, e, h')
    <3>1. CASE ~(now < k.expires)
      BY <2>1, <2>2, <3>1
    <3>2. CASE now < k.expires
      <4>1. k.count * (Window - x) + m * Window < Limit * Window
        BY <1>7, <3>2
      <4>2. x > MaxDelay => F = 0
        <5> SUFFICES ASSUME x > MaxDelay, NEW d \in UnderWayIn(slot(from)) PROVE FALSE
          BY UnderWayNone DEF F
        <5>1. stamp[d] # None /\ slot(stamp[d]) = slot(from)
          BY DEF UnderWayIn
        <5>2. now < (slot(from) + 1) * Window + MaxDelay
          BY <1>0, <5>1, StillThere DEF UnderWayIn
        <5>3. t = slot(to) * Window + x
          BY <1>2, SlotBorders DEF x
        <5> DEFINE w == slot(to) * Window
        <5>4. now < w + MaxDelay /\ t = w + x /\ w \in Nat
          BY <1>0, <1>n, <1>1, <5>2, <5>3
        <5> HIDE DEF w
        <5> QED
          BY <1>n, <1>2, <1>6, <5>4
      <4>3. x <= e /\ MaxDelay <= Window
        BY <1>n, <1>6, <1>10
      <4>4. Tight(Limit, Window, AtOnce, MaxDelay, P, F, e, Q + 1)
        BY ONLY <1>n, <1>1, <1>4, <1>6, <2>2, <4>1, <4>2, <4>3, LetInTight
      <4> QED
        BY <2>1, <3>2, <4>4
    <3> QED
      BY <3>1, <3>2
  <2>4. Tight(Limit, Window, AtOnce, MaxDelay, P', F', e, h')
          <=> Tight(Limit, Window, AtOnce, MaxDelay, P, F, e, h)'
    BY DEF Tight, AtOnce, e, elapsed
  <2>5. h' > 0 => Tight(Limit, Window, AtOnce, MaxDelay, P, F, e, h)'
    BY <1>3, <1>4, <2>3, <2>4
  <2>6. Forgetful(from, to)' /\ P' + 1 <= k'.count
    BY <1>3, <1>10, <2>2 DEF Forgetful, slot, k
  <2> QED
    BY <2>5, <2>6 DEF PairKept, P, F, e, k, slot
<1> QED
  BY <1>3, <1>8, <1>9, <1>10

LEMMA CountedKeepsBurstInv ==
  ASSUME TypeOK', SoonOver, BurstInv, NEW c \in Clients, CountedAt(c)
  PROVE  BurstInv'
<1>0. /\ TypeOK /\ CountsKept /\ now' = now /\ stamp[c] # None
      /\ stamp' = [stamp EXCEPT ![c] = None]
  BY DEF BurstInv, CountedAt, Judged
<1>1. CountsKept'
  BY <1>0, CountedKeepsCounts
<1>2. ASSUME NEW from \in Times, NEW to \in Times, Neighboured(from, to)
      PROVE  PairKept(from, to)'
  <2> DEFINE t == stamp[c]
             P == Passed(Since(from))
             Q == Passed(UpTo(to))
             F == UnderWay(slot(from))
             G == UnderWay(slot(to))
  <2>1. CASE slot(t) = slot(from) \/ slot(t) = slot(to)
    BY <1>0, <1>2, <2>1, CountedEarlier, CountedLater
  <2>2. CASE slot(t) # slot(from) /\ slot(t) # slot(to)
    <3>1. PairKept(from, to) /\ slot(from) \in Slots
      BY <1>2, SlotBorders DEF BurstInv, Neighboured
    <3>2. /\ P \in Nat /\ Q \in Nat /\ F \in Nat /\ G \in Nat
          /\ key[slot(from)].count \in Nat /\ now \in Nat
      <4>1. key[slot(from)].count \in 0..Limit
        BY <1>0, Measured
      <4>2. key[slot(from)].count \in Nat
        BY <4>1, Constants
      <4> QED
        BY <1>0, <4>2, Measured, Numbers
    <3>3. F' = F /\ G' = G
      <4>1. \A s : UnderWay(s)' = IF slot(t) = s THEN UnderWay(s) - 1 ELSE UnderWay(s)
        BY <1>0, OneLessUnderWay
      <4> HIDE DEF t
      <4> QED
        BY <2>2, <4>1 DEF slot
    <3>4. /\ \A s \in Slots \ {slot(t)} : key'[s] = key[s]
          /\ \A T \in SUBSET Times :
               Passed(T)' = Passed(T) \/ (t \in T /\ Passed(T)' = Passed(T) + 1)
      BY <1>0, CountedStep
    <3> HIDE DEF t
    <3>5. key'[slot(from)] = key[slot(from)]
      BY <2>2, <3>1, <3>4
    <3>6. /\ Since(from) \in SUBSET Times /\ UpTo(to) \in SUBSET Times
          /\ t \notin Since(from) /\ t \notin UpTo(to)
      BY <2>2 DEF Since, UpTo, InSlot
    <3>7. P' = P /\ Q' = Q
      BY <3>4, <3>6 DEF Since, UpTo, InSlot, slot
    <3> HIDE DEF P, Q, F, G
    <3>8. /\ P' + key[slot(from)].count <= P + key'[slot(from)].count
          /\ P' + F' <= P + F /\ F' <= F /\ Q' <= Q /\ G' <= G /\ now <= now'
      BY <1>0, <3>2, <3>3, <3>5, <3>7
    <3> QED
      BY <1>0, <3>1, <3>5, <3>8, PairLess DEF P, Q, F, G, slot
  <2> QED
    BY <2>1, <2>2
<1> QED
  BY <1>0, <1>1, <1>2 DEF BurstInv, Neighboured, slot

(* Every step keeps the invariant.                                         *)
LEMMA NextBurstInv ==
  ASSUME ~FailOpen, SoonOver, BurstInv, TypeOK', [Next]_vars
  PROVE  BurstInv'
<1>1. CASE Tick
  BY <1>1, TickKeepsBurstInv
<1>2. CASE Outage \/ Recover \/ UNCHANGED vars
  BY <1>2, IdleKeepsBurstInv DEF Outage, Recover, vars
<1>3. ASSUME NEW c \in Clients, Arrive(c)
      PROVE  BurstInv'
  BY <1>3, ArriveKeepsBurstInv
<1>4. ASSUME NEW c \in Clients, Check(c)
      PROVE  BurstInv'
  <2>1. CASE Allows(stamp[c])
    <3>1. CountedAt(c)
      BY <1>4, <2>1 DEF Check, CountedAt
    <3> QED
      BY <3>1, CountedKeepsBurstInv
  <2>2. CASE ~Allows(stamp[c])
    BY <1>4, <2>2, UncountedKeepsBurstInv DEF Check
  <2> QED
    BY <2>1, <2>2
<1>5. ASSUME NEW c \in Clients, CheckUnreachable(c)
      PROVE  BurstInv'
  BY <1>5, UncountedKeepsBurstInv DEF CheckUnreachable, OnError
<1>6. ASSUME NEW c \in Clients, CheckUnheard(c)
      PROVE  BurstInv'
  <2>1. CountedAt(c)
    BY <1>6 DEF CheckUnheard, CountedAt, OnError
  <2> QED
    BY <2>1, CountedKeepsBurstInv
<1> QED
  BY <1>1, <1>2, <1>3, <1>4, <1>5, <1>6 DEF Next

(* No burst at the border of two slots, nor by way of an outage, for every *)
(* limit and window and any number of callers, as long as the limiter      *)
(* fails closed and no call to Redis outlasts a third of a window.         *)
THEOREM NoBurstEver ==
  ASSUME ~FailOpen, SoonOver
  PROVE  Spec => []NoBurst
<1>1. Init => BurstInv
  <2>1. Init => TypeOK
    BY InitHeaderInv DEF HeaderInv
  <2> QED
    BY <2>1, InitBurstInv
<1>2. BurstInv /\ TypeOK' /\ [Next]_vars => BurstInv'
  BY NextBurstInv
<1>3. BurstInv => NoBurst
  BY BurstBounded
<1> QED
  BY <1>1, <1>2, <1>3, LimiterTyped, PTL DEF Spec
=============================================================================
