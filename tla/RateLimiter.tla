---------------------------- MODULE RateLimiter ----------------------------
(***************************************************************************)
(* The sliding-window rate limiter (middleware/rate_limit.go): one bucket, *)
(* that is one rule for one caller, counted in Redis per slot of the       *)
(* window's length.  A request is stamped by the server and judged by the  *)
(* Lua script when Redis comes to it, so requests under way at the same    *)
(* time may be judged in another order than they were stamped.             *)
(*                                                                         *)
(* The script's fractions are multiplied out.  Server and Redis share a    *)
(* clock, and Redis keeps its data over an outage (appendonly).            *)
(***************************************************************************)
EXTENDS Integers, FiniteSets, FiniteSetsExt

CONSTANTS
  Clients,   \* requests that may be under way at the same time
  None,      \* no request under way
  Limit,     \* Rule.Limit
  Window,    \* Rule.Window, in ticks of the clock
  Second,    \* ticks of a second, the unit of Retry-After
  FailOpen,  \* cfg.FailOpen
  MaxDelay,  \* ticks after which a call to Redis has timed out
  MaxTime    \* bound of the clock

ASSUME RateLimiterAssumption ==
  /\ {Limit, Window, Second} \subseteq Nat \ {0}
  /\ {MaxDelay, MaxTime} \subseteq Nat /\ FailOpen \in BOOLEAN /\ None \notin Nat
  /\ IsFiniteSet(Clients) /\ Clients # {}

Times == 0..MaxTime
Slots == 0..(MaxTime \div Window)

VARIABLES
  now,      \* the clock
  up,       \* Redis can be reached
  key,      \* the counter of a slot and when Redis forgets it
  stamp,    \* when the request of a client was stamped
  through,  \* how many requests of a recent stamp were let through
  header    \* what the last answer has promised

vars == <<now, up, key, stamp, through, header>>

NoHeader == [at |-> 0, room |-> 0, until |-> MaxTime]

Init ==
  /\ now = 0 /\ up = TRUE
  /\ key = [s \in Slots |-> [count |-> 0, expires |-> 0]]
  /\ stamp = [c \in Clients |-> None]
  /\ through = [t \in Times |-> 0]
  /\ header = NoHeader

-----------------------------------------------------------------------------
(* The script.                                                             *)

slot(t) == t \div Window
elapsed(t) == t % Window

GetCounter(s) == IF s \in Slots /\ key[s].expires > now THEN key[s].count ELSE 0

\* Mutant: a plain counter per slot.
fixedWindow(t) == GetCounter(slot(t)) * Window

\* Window times the requests that count against the limit at t.
used(t) ==
  GetCounter(slot(t) - 1) * (Window - elapsed(t)) + GetCounter(slot(t)) * Window

Allows(t) == used(t) < Limit * Window

\* Mutant: what is left is computed from the count before this request.
remainingBefore(t) == Max({0, (Limit * Window - used(t)) \div Window})

remaining(t) == Max({0, (Limit * Window - used(t) - Window) \div Window})

retry(t) == (Window - elapsed(t) + Second - 1) \div Second

keyTTL == Window * 2

Incr(t) ==
  key' = [key EXCEPT ![slot(t)] =
            IF GetCounter(slot(t)) = 0 THEN [count |-> 1, expires |-> now + keyTTL]
            ELSE [count |-> @.count + 1, expires |-> @.expires]]

(* The headers of the answer; one that a request stamped earlier has made  *)
(* stale promises nothing.                                                 *)
Promise(t) ==
  header' = IF t < header.at
            THEN IF Allows(t) THEN [NoHeader EXCEPT !.at = header.at] ELSE header
            ELSE IF Allows(t) THEN [at |-> t, room |-> remaining(t), until |-> MaxTime]
            ELSE [at |-> t, room |-> 0, until |-> t + retry(t) * Second]
-----------------------------------------------------------------------------

(* No call outlasts its timeout; what no window reaches any more is        *)
(* forgotten.                                                              *)
Tick ==
  /\ now < MaxTime /\ \A c \in Clients : stamp[c] # None => now < stamp[c] + MaxDelay
  /\ now' = now + 1
  /\ through' = [t \in Times |-> IF t + Window + MaxDelay > now THEN through[t] ELSE 0]
  /\ UNCHANGED <<up, key, stamp, header>>

Arrive(c) ==
  /\ stamp[c] = None
  /\ stamp' = [stamp EXCEPT ![c] = now]
  /\ UNCHANGED <<now, up, key, through, header>>

Judged(c) == stamp[c] # None /\ stamp' = [stamp EXCEPT ![c] = None]
LetThrough(c) == through' = [through EXCEPT ![stamp[c]] = @ + 1]

(* Limit's handler with an answer of the script.                           *)
Check(c) ==
  /\ up /\ Judged(c)
  /\ IF Allows(stamp[c]) THEN Incr(stamp[c]) /\ LetThrough(c)
                         ELSE UNCHANGED <<key, through>>
  /\ Promise(stamp[c])
  /\ UNCHANGED <<now, up>>

OnError(c) == IF FailOpen THEN LetThrough(c) ELSE UNCHANGED through

(* No answer: Redis is down, or goes down once it has counted the request. *)
CheckUnreachable(c) ==
  /\ ~up /\ Judged(c) /\ OnError(c)
  /\ UNCHANGED <<now, up, key, header>>

CheckUnheard(c) ==
  /\ up /\ Judged(c) /\ Allows(stamp[c])
  /\ Incr(stamp[c]) /\ OnError(c)
  /\ up' = FALSE
  /\ header' = [NoHeader EXCEPT !.at = Max({header.at, stamp[c]})]
  /\ UNCHANGED now

Outage == up /\ up' = FALSE /\ UNCHANGED <<now, key, stamp, through, header>>
Recover == ~up /\ up' = TRUE /\ UNCHANGED <<now, key, stamp, through, header>>

Next ==
  \/ Tick \/ Outage \/ Recover
  \/ \E c \in Clients : Arrive(c) \/ Check(c) \/ CheckUnreachable(c) \/ CheckUnheard(c)

Spec == Init /\ [][Next]_vars
-----------------------------------------------------------------------------
(* Properties.                                                             *)

(* The type invariant.                                                     *)
TypeOK ==
  /\ now \in Times /\ up \in BOOLEAN
  /\ key \in [Slots -> [count : 0..Limit, expires : Nat]]
  /\ stamp \in [Clients -> Times \union {None}]
  /\ through \in [Times -> Nat]
  /\ header \in [at : Times, room : 0..Limit, until : Nat]

\* The requests stamped at one of T that were let through, each a number of
\* its own, and how many they are.
Tickets(T) == UNION {{t} \X (1..through[t]) : t \in T}
Passed(T) == Cardinality(Tickets(T))

(* No burst at the border of two slots, and none by way of an outage: in   *)
(* any d ticks no more than the limit, the share of it that d earns, one   *)
(* for the rounding, and the requests judged out of order.  No counter     *)
(* passes the limit (the types).                                           *)
NoBurst ==
  /\ TypeOK
  /\ \A from, to \in Times :
       from <= to /\ to - from < Window =>
         Passed(from..to) * Window
           < (Limit + Cardinality(Clients)) * Window + Limit * (to - from)

(* The headers are honest: with room left the next request is let through  *)
(* and takes no more than one of it, and whoever waits longer than told is *)
(* let through.                                                            *)
HeadersHonest ==
  [][\A c \in Clients :
       LET t == stamp[c] IN
       /\ t # None /\ stamp'[c] = None /\ up /\ up'
       /\ t >= header.at /\ (header.room > 0 \/ t > header.until)
       => /\ through' # through
          /\ header'.room >= header.room - 1]_vars
=============================================================================
