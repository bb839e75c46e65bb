-------------------------------- MODULE Txn --------------------------------
(***************************************************************************)
(* The transaction runner (core/txn/txn.go) on a pool of connections: what *)
(* a request does inside is a script of the rows it locks, in order, and   *)
(* of the places where it asks for a second connection, as startSession    *)
(* does for the plan's device limit.                                       *)
(*                                                                         *)
(* PostgreSQL breaks a cycle of lock waits by failing one transaction of   *)
(* it.  Nobody breaks a wait for a connection but the client that hangs    *)
(* up: the request context has no deadline.                                *)
(***************************************************************************)
EXTENDS Integers, Sequences, FiniteSets

CONSTANTS
  Requests,      \* calls of txn.Run
  Rows,          \* rows their transactions lock
  Script,        \* per request, its rows and connections in order
  Serializable,  \* the requests that use RunSerializable
  MaxConns,      \* connections of the pool
  MaxAttempts,   \* maxAttempts
  Failures,      \* the errors that statements, functions and contexts end in
  NoOne          \* owner of a free row

Conn == "conn"   \* in a script: a query on a second connection

(* Errors: SQLSTATEs, a lost connection, a context that ends, an error of  *)
(* the function itself and a panic.                                        *)
Serialization == {"40001", "40P01"}
\* The connection is closed without an answer from the server.
Silent == {"lost", "deadline", "hangup"}
Errors == Serialization \union Silent \union {"23505", "57014", "53300", "domain", "panic"}

ASSUME TxnAssumption ==
  /\ IsFiniteSet(Requests)
  /\ Conn \notin Rows /\ NoOne \notin Requests
  /\ Script \in [Requests -> Seq(Rows \union {Conn})]
  /\ Serializable \subseteq Requests
  /\ Failures \subseteq Errors \ Serialization
  /\ {MaxConns, MaxAttempts} \subseteq Nat \ {0}

VARIABLES
  phase,      \* where a request stands
  pc,         \* the entry of its script it comes to
  attempt,    \* its tries so far
  owner,      \* who holds the lock of a row
  inUse,      \* connections taken from the pool
  committed,  \* how often the effects of a request were committed
  answer      \* what its caller is told

vars == <<phase, pc, attempt, owner, inUse, committed, answer>>

Init ==
  /\ phase = [r \in Requests |-> "new"]
  /\ pc = [r \in Requests |-> 1]
  /\ attempt = [r \in Requests |-> 0]
  /\ owner = [x \in Rows |-> NoOne]
  /\ inUse = 0
  /\ committed = [r \in Requests |-> 0]
  /\ answer = [r \in Requests |-> "none"]

-----------------------------------------------------------------------------
\* Mutant: a lost connection is tried again as well.
AlsoSilent(e) == e \in Serialization \union Silent

isRetryable(e) == e \in Serialization

Translate(e) ==
  CASE e = "23505" -> "DUPLICATE"
    [] e \in Serialization -> "CONFLICT"
    [] e \in {"57014", "deadline"} -> "TIMEOUT"
    [] e = "hangup" -> "CANCELLED"
    [] e = "53300" -> "UNAVAILABLE"
    [] e = "lost" -> "DATABASE"
    [] e = "panic" -> "INTERNAL"
    [] e = "domain" -> "DOMAIN"
-----------------------------------------------------------------------------

Open(r) == phase[r] \in {"open", "nested"}
Held(r) == IF phase[r] = "nested" THEN 2 ELSE IF phase[r] = "open" THEN 1 ELSE 0
AtEnd(r) == phase[r] = "open" /\ pc[r] > Len(Script[r])
Wants(r, x) == phase[r] = "open" /\ pc[r] <= Len(Script[r]) /\ Script[r][pc[r]] = x

\* Mutant: the rollback leaves the connection with the transaction.
KeptConnection(r) ==
  /\ owner' = [x \in Rows |-> IF owner[x] = r THEN NoOne ELSE owner[x]]
  /\ UNCHANGED inUse

\* Commit and rollback end the transaction and give its connections back.
Release(r) ==
  /\ owner' = [x \in Rows |-> IF owner[x] = r THEN NoOne ELSE owner[x]]
  /\ inUse' = inUse - Held(r)

Finish(r, a) ==
  /\ phase' = [phase EXCEPT ![r] = "done"]
  /\ answer' = [answer EXCEPT ![r] = a]

\* The end of an attempt that failed with e: another one, or the answer.
Settle(r, e) ==
  IF isRetryable(e) /\ attempt[r] < MaxAttempts
  THEN phase' = [phase EXCEPT ![r] = "backoff"] /\ UNCHANGED answer
  ELSE Finish(r, Translate(e))

Begin(r) ==
  /\ phase[r] \in {"new", "backoff"} /\ inUse < MaxConns
  /\ inUse' = inUse + 1
  /\ phase' = [phase EXCEPT ![r] = "open"]
  /\ pc' = [pc EXCEPT ![r] = 1]
  /\ attempt' = [attempt EXCEPT ![r] = @ + 1]
  /\ UNCHANGED <<owner, committed, answer>>

(* The context ends while a transaction waits for a connection, or between *)
(* two attempts, where a hang-up is answered as a timeout as well.         *)
GiveUpOutside(r) ==
  /\ phase[r] \in {"new", "backoff"}
  /\ \E e \in {"deadline", "hangup"} \intersect Failures : Finish(r, Translate(e))
  /\ UNCHANGED <<pc, attempt, owner, inUse, committed>>

LockRow(r) ==
  \E x \in Rows :
    /\ Wants(r, x) /\ owner[x] \in {NoOne, r}
    /\ owner' = [owner EXCEPT ![x] = r]
    /\ pc' = [pc EXCEPT ![r] = @ + 1]
    /\ UNCHANGED <<phase, attempt, inUse, committed, answer>>

AskConnection(r) ==
  /\ Wants(r, Conn) /\ inUse < MaxConns
  /\ inUse' = inUse + 1
  /\ phase' = [phase EXCEPT ![r] = "nested"]
  /\ UNCHANGED <<pc, attempt, owner, committed, answer>>

ReturnConnection(r) ==
  /\ phase[r] = "nested"
  /\ inUse' = inUse - 1
  /\ phase' = [phase EXCEPT ![r] = "open"]
  /\ pc' = [pc EXCEPT ![r] = @ + 1]
  /\ UNCHANGED <<attempt, owner, committed, answer>>

(* Transactions that wait for each other's rows: PostgreSQL fails one.     *)
InCycle(r) ==
  \E C \in SUBSET Requests :
    /\ r \in C
    /\ \A q \in C : \E x \in Rows : Wants(q, x) /\ owner[x] \in C \ {q}

RollBack(r, e) ==
  /\ Release(r) /\ Settle(r, e)
  /\ UNCHANGED <<pc, attempt, committed>>

Deadlocked(r) == InCycle(r) /\ RollBack(r, "40P01")

SerializationFails(r) == Open(r) /\ r \in Serializable /\ RollBack(r, "40001")

\* A statement or the function fails, panics, or its context is cancelled.
Fail(r) == Open(r) /\ \E e \in Failures : RollBack(r, e)

Commit(r) ==
  /\ AtEnd(r)
  /\ committed' = [committed EXCEPT ![r] = @ + 1]
  /\ Release(r) /\ Finish(r, "OK")
  /\ UNCHANGED <<pc, attempt>>

(* The connection is gone while COMMIT is on its way: the transaction has  *)
(* committed, and the caller is told of an error.                          *)
CommitUnheard(r) ==
  /\ AtEnd(r)
  /\ committed' = [committed EXCEPT ![r] = @ + 1]
  /\ Release(r) /\ \E e \in Silent \intersect Failures : Settle(r, e)
  /\ UNCHANGED <<pc, attempt>>

Progress(r) ==
  Begin(r) \/ LockRow(r) \/ AskConnection(r) \/ ReturnConnection(r) \/ Commit(r)

Next ==
  \E r \in Requests :
    \/ Progress(r) \/ Deadlocked(r)
    \/ GiveUpOutside(r) \/ SerializationFails(r) \/ Fail(r) \/ CommitUnheard(r)

Spec == Init /\ [][Next]_vars

(* What a request can do it does, and PostgreSQL looks for deadlocks; no   *)
(* client hangs up, no statement fails unless it must.                     *)
Fairness == \A r \in Requests : WF_vars(Progress(r)) /\ WF_vars(Deadlocked(r))
LiveSpec == Spec /\ Fairness
-----------------------------------------------------------------------------
(* Properties.                                                             *)

(* The type invariant.                                                     *)
TypeOK ==
  /\ phase \in [Requests -> {"new", "open", "nested", "backoff", "done"}]
  /\ pc \in [Requests -> Nat \ {0}]
  /\ attempt \in [Requests -> 0..MaxAttempts]
  /\ owner \in [Rows -> Requests \union {NoOne}]
  /\ inUse \in 0..MaxConns
  /\ committed \in [Requests -> Nat]
  /\ answer \in [Requests -> {"none", "OK"} \union {Translate(e) : e \in Errors}]

(* However often the runner tries, the effects happen at most once: it     *)
(* never tries again what may have committed.                              *)
AtMostOnce == \A r \in Requests : committed[r] <= 1

(* And the answer tells the truth: success means committed, and an error   *)
(* that invites a retry or names a cause means nothing has happened.  Only *)
(* the answers for a connection that went away leave the caller in the     *)
(* dark.                                                                   *)
AnswerTruthful ==
  /\ AtMostOnce
  /\ \A r \in Requests :
    /\ answer[r] = "OK" => committed[r] = 1
    /\ answer[r] \notin {"OK"} \union {Translate(e) : e \in Silent} => committed[r] = 0

Opened == {r \in Requests : Open(r)}
Nested == {r \in Requests : phase[r] = "nested"}

(* Nothing leaks: rows are locked by open transactions only, and every     *)
(* connection that is out is one an open transaction holds.                *)
NothingLeaks ==
  /\ \A x \in Rows : owner[x] # NoOne => Open(owner[x])
  /\ inUse = Cardinality(Opened) + Cardinality(Nested)

\* Every connection of the pool is held by a transaction that wants another.
Starved == Cardinality({r \in Requests : Wants(r, Conn)}) = MaxConns

(* With no client hanging up every request ends, waits for rows by a       *)
(* commit or by the deadlock detector, waits for the pool by a release,    *)
(* unless as many transactions as there are connections ask for a second   *)
(* one, as sign-ins do: then none of them goes on, nor anybody behind.     *)
EveryRequestEnds ==
  \A r \in Requests : <>(phase[r] = "done") \/ <>[]Starved
=============================================================================
