------------------------------ MODULE TxnProofs ------------------------------
(***************************************************************************)
(* Theorems about Txn, for any number of requests, rows and connections,   *)
(* any scripts and any limit of attempts.                                  *)
(*                                                                         *)
(* An attempt either goes on, ends without a commit or ends with one; what *)
(* it holds is given back in the same step in which it stops being open    *)
(* (Released), and it is tried again only when nothing was committed       *)
(* (Uncommitted).                                                          *)
(***************************************************************************)
EXTENDS Txn, FiniteSetTheorems, TLAPS

\* No attempt is left over once a request is open, none is lost before.
AttemptsLeft ==
  \A r \in Requests :
    /\ phase[r] = "new" => attempt[r] = 0
    /\ phase[r] = "backoff" => attempt[r] < MaxAttempts

\* Until it is done a request has no effect and no answer.
Uncommitted ==
  \A r \in Requests :
    phase[r] # "done" => committed[r] = 0 /\ answer[r] = "none"

IInv == TypeOK /\ AttemptsLeft /\ Uncommitted /\ NothingLeaks /\ AnswerTruthful
-----------------------------------------------------------------------------
LEMMA Limits == MaxConns \in Nat \ {0} /\ MaxAttempts \in Nat \ {0}
BY TxnAssumption

(* Errors and answers.                                                     *)

Answers == {Translate(e) : e \in Errors}

LEMMA ErrorsTold ==
  ASSUME NEW e \in Errors
  PROVE  Translate(e) \in Answers /\ Translate(e) # "OK"
BY DEF Answers, Errors, Serialization, Silent, Translate

LEMMA SilentEnds ==
  ASSUME NEW e \in Silent
  PROVE  e \in Errors /\ ~isRetryable(e)
BY DEF Silent, Errors, isRetryable, Serialization
-----------------------------------------------------------------------------
(* Counting connections.                                                   *)

LEMMA Finite ==
  /\ IsFiniteSet(Opened) /\ IsFiniteSet(Nested)
  /\ Cardinality(Opened) \in Nat /\ Cardinality(Nested) \in Nat
BY TxnAssumption, FS_Subset, FS_CardinalityType DEF Opened, Nested

\* A request that stops being open gives back what it holds, no more, no less.
LEMMA Released ==
  ASSUME TypeOK, NothingLeaks, NEW r \in Requests, Open(r), Release(r),
         NEW p \in {"backoff", "done"}, phase' = [phase EXCEPT ![r] = p]
  PROVE  /\ NothingLeaks'
         /\ inUse' \in 0..MaxConns
         /\ owner' \in [Rows -> Requests \union {NoOne}]
<1>1. /\ Opened' = Opened \ {r} /\ Nested' = Nested \ {r} /\ r \in Opened
      /\ Held(r) = 1 + (IF r \in Nested THEN 1 ELSE 0)
  BY DEF Opened, Nested, Open, TypeOK, Held
<1>2. /\ Cardinality(Opened') = Cardinality(Opened) - 1
      /\ Cardinality(Nested') = Cardinality(Nested) - (IF r \in Nested THEN 1 ELSE 0)
  <2>1. /\ Cardinality(Opened \ {r}) = Cardinality(Opened) - 1
        /\ Cardinality(Nested \ {r})
             = IF r \in Nested THEN Cardinality(Nested) - 1 ELSE Cardinality(Nested)
    BY <1>1, Finite, FS_RemoveElement
  <2>2. QED
    BY <1>1, <2>1, Finite
<1>3. inUse = Cardinality(Opened) + Cardinality(Nested)
  BY DEF NothingLeaks
<1>4. Cardinality(Opened') \in Nat /\ Cardinality(Nested') \in Nat
  <2>1. IsFiniteSet(Opened') /\ IsFiniteSet(Nested')
    BY <1>1, Finite, FS_RemoveElement
  <2>2. QED
    BY <2>1, FS_CardinalityType
<1>5. inUse' = Cardinality(Opened') + Cardinality(Nested') /\ inUse' \in 0..MaxConns
  BY <1>1, <1>2, <1>3, <1>4, Finite, Limits DEF Release, TypeOK
<1>6. /\ owner' \in [Rows -> Requests \union {NoOne}]
      /\ \A x \in Rows : owner'[x] # NoOne => owner'[x] = owner[x] /\ owner[x] # r
  BY DEF Release, TypeOK
<1>7. \A x \in Rows : owner'[x] # NoOne => Open(owner[x])'
  BY <1>6 DEF NothingLeaks, Open, TypeOK
<1>8. QED
  BY <1>5, <1>6, <1>7 DEF NothingLeaks
-----------------------------------------------------------------------------
(* The ways an attempt ends.                                               *)

LEMMA RolledBack ==
  ASSUME IInv, NEW r \in Requests, NEW e \in Errors, Open(r), RollBack(r, e)
  PROVE  IInv'
<1>1. /\ phase[r] # "done" /\ committed[r] = 0 /\ committed' = committed
      /\ attempt' = attempt /\ pc' = pc
  BY DEF IInv, Uncommitted, Open, RollBack
<1>2. CASE isRetryable(e) /\ attempt[r] < MaxAttempts
  <2>1. phase' = [phase EXCEPT ![r] = "backoff"] /\ answer' = answer
    BY <1>2 DEF RollBack, Settle
  <2>2. /\ NothingLeaks' /\ inUse' \in 0..MaxConns
        /\ owner' \in [Rows -> Requests \union {NoOne}]
    BY <2>1, Released DEF IInv, RollBack
  <2>3. TypeOK'
    BY <1>1, <2>1, <2>2 DEF IInv, TypeOK
  <2>4. AttemptsLeft'
    BY <1>1, <1>2, <2>1 DEF IInv, AttemptsLeft, TypeOK
  <2>5. Uncommitted' /\ AnswerTruthful'
    BY <1>1, <2>1 DEF IInv, Uncommitted, AnswerTruthful, AtMostOnce, TypeOK
  <2>6. QED
    BY <2>2, <2>3, <2>4, <2>5 DEF IInv
<1>3. CASE ~(isRetryable(e) /\ attempt[r] < MaxAttempts)
  <2>1. /\ phase' = [phase EXCEPT ![r] = "done"]
        /\ answer' = [answer EXCEPT ![r] = Translate(e)]
    BY <1>3 DEF RollBack, Settle, Finish
  <2>2. /\ NothingLeaks' /\ inUse' \in 0..MaxConns
        /\ owner' \in [Rows -> Requests \union {NoOne}]
    BY <2>1, Released DEF IInv, RollBack
  <2>3. TypeOK'
    BY <1>1, <2>1, <2>2, ErrorsTold DEF IInv, TypeOK, Answers
  <2>4. AttemptsLeft'
    BY <1>1, <2>1 DEF IInv, AttemptsLeft, TypeOK
  <2>5. Uncommitted' /\ AnswerTruthful'
    BY <1>1, <2>1, ErrorsTold DEF IInv, Uncommitted, AnswerTruthful, AtMostOnce, TypeOK
  <2>6. QED
    BY <2>2, <2>3, <2>4, <2>5 DEF IInv
<1>4. QED
  BY <1>2, <1>3

\* The commit is the last thing a request does, heard of or not.
LEMMA Committed ==
  ASSUME IInv, NEW r \in Requests, NEW a \in {"OK"} \union {Translate(e) : e \in Silent},
         AtEnd(r), Release(r), Finish(r, a),
         committed' = [committed EXCEPT ![r] = @ + 1], UNCHANGED <<pc, attempt>>
  PROVE  IInv'
<1>1. /\ Open(r) /\ phase[r] # "done" /\ committed[r] = 0
      /\ phase' = [phase EXCEPT ![r] = "done"] /\ answer' = [answer EXCEPT ![r] = a]
      /\ a \in {"OK"} \union Answers
  BY SilentEnds DEF IInv, Uncommitted, AtEnd, Open, Finish, Answers
<1>2. /\ NothingLeaks' /\ inUse' \in 0..MaxConns
      /\ owner' \in [Rows -> Requests \union {NoOne}]
  BY <1>1, Released DEF IInv
<1>3. TypeOK'
  BY <1>1, <1>2 DEF IInv, TypeOK, Answers
<1>4. AttemptsLeft' /\ Uncommitted'
  BY <1>1 DEF IInv, AttemptsLeft, Uncommitted, TypeOK
<1>5. AnswerTruthful'
  BY <1>1 DEF IInv, AnswerTruthful, AtMostOnce, TypeOK
<1>6. QED
  BY <1>2, <1>3, <1>4, <1>5 DEF IInv
-----------------------------------------------------------------------------
LEMMA InitIInv == Init => IInv
<1> SUFFICES ASSUME Init PROVE IInv
  OBVIOUS
<1>1. TypeOK
  BY Limits DEF Init, TypeOK
<1>2. Opened = {} /\ Nested = {}
  BY DEF Init, Opened, Nested, Open
<1>3. NothingLeaks
  BY <1>2, FS_EmptySet DEF Init, NothingLeaks
<1>4. AttemptsLeft /\ Uncommitted /\ AnswerTruthful
  BY DEF Init, AttemptsLeft, Uncommitted, AnswerTruthful, AtMostOnce
<1>5. QED
  BY <1>1, <1>3, <1>4 DEF IInv

LEMMA NextIInv == IInv /\ [Next]_vars => IInv'
<1> SUFFICES ASSUME IInv, [Next]_vars PROVE IInv'
  OBVIOUS
<1>1. CASE UNCHANGED vars
  BY <1>1 DEF vars, IInv, TypeOK, AttemptsLeft, Uncommitted, NothingLeaks, AnswerTruthful,
              AtMostOnce, Opened, Nested, Open
<1>2. ASSUME NEW r \in Requests, Begin(r) PROVE IInv'
  <2>1. /\ r \notin Opened /\ Opened' = Opened \union {r} /\ Nested' = Nested
        /\ attempt[r] < MaxAttempts
    BY <1>2, Limits DEF Begin, Opened, Nested, Open, IInv, TypeOK, AttemptsLeft
  <2>2. TypeOK' /\ AttemptsLeft'
    BY <1>2, <2>1, Limits DEF Begin, IInv, TypeOK, AttemptsLeft
  <2>3. Uncommitted' /\ AnswerTruthful'
    BY <1>2 DEF Begin, IInv, TypeOK, Uncommitted, AnswerTruthful, AtMostOnce
  <2>4. Cardinality(Opened') = Cardinality(Opened) + 1
    BY <2>1, Finite, FS_AddElement
  <2>5. NothingLeaks'
    BY <1>2, <2>1, <2>4, Finite DEF Begin, IInv, TypeOK, NothingLeaks, Open
  <2>6. QED
    BY <2>2, <2>3, <2>5 DEF IInv
<1>3. ASSUME NEW r \in Requests, GiveUpOutside(r) PROVE IInv'
  <2>1. PICK e \in {"deadline", "hangup"} : Finish(r, Translate(e))
    BY <1>3 DEF GiveUpOutside
  <2>2. e \in Errors /\ Translate(e) \in Answers /\ Translate(e) # "OK"
    BY <2>1, ErrorsTold DEF Errors, Silent
  <2>3. Opened' = Opened /\ Nested' = Nested
    BY <1>3, <2>1 DEF GiveUpOutside, Finish, Opened, Nested, Open, IInv, TypeOK
  <2>4. TypeOK' /\ AttemptsLeft' /\ Uncommitted'
    BY <1>3, <2>1, <2>2 DEF GiveUpOutside, Finish, IInv, TypeOK, AttemptsLeft, Uncommitted, Answers
  <2>5. AnswerTruthful'
    BY <1>3, <2>1, <2>2 DEF GiveUpOutside, Finish, IInv, TypeOK, Uncommitted, AnswerTruthful, AtMostOnce
  <2>6. NothingLeaks'
    BY <1>3, <2>1, <2>3 DEF GiveUpOutside, Finish, IInv, TypeOK, NothingLeaks, Open
  <2>7. QED
    BY <2>4, <2>5, <2>6 DEF IInv
<1>4. ASSUME NEW r \in Requests, LockRow(r) PROVE IInv'
  <2>1. PICK x \in Rows : /\ Wants(r, x) /\ owner' = [owner EXCEPT ![x] = r]
                          /\ pc' = [pc EXCEPT ![r] = @ + 1]
                          /\ UNCHANGED <<phase, attempt, inUse, committed, answer>>
    BY <1>4 DEF LockRow
  <2>2. TypeOK' /\ AttemptsLeft' /\ Uncommitted' /\ AnswerTruthful'
    BY <2>1 DEF IInv, TypeOK, AttemptsLeft, Uncommitted, AnswerTruthful, AtMostOnce
  <2>3. NothingLeaks'
    BY <2>1 DEF Wants, IInv, TypeOK, NothingLeaks, Opened, Nested, Open
  <2>4. QED
    BY <2>2, <2>3 DEF IInv
<1>5. ASSUME NEW r \in Requests, AskConnection(r) PROVE IInv'
  <2>1. r \notin Nested /\ Nested' = Nested \union {r} /\ Opened' = Opened
    BY <1>5 DEF AskConnection, Wants, Opened, Nested, Open, IInv, TypeOK
  <2>2. TypeOK' /\ AttemptsLeft' /\ Uncommitted' /\ AnswerTruthful'
    BY <1>5, Limits DEF AskConnection, Wants, IInv, TypeOK, AttemptsLeft, Uncommitted,
                        AnswerTruthful, AtMostOnce
  <2>3. Cardinality(Nested') = Cardinality(Nested) + 1
    BY <2>1, Finite, FS_AddElement
  <2>4. NothingLeaks'
    BY <1>5, <2>1, <2>3, Finite DEF AskConnection, IInv, TypeOK, NothingLeaks, Open
  <2>5. QED
    BY <2>2, <2>4 DEF IInv
<1>6. ASSUME NEW r \in Requests, ReturnConnection(r) PROVE IInv'
  <2>1. r \in Nested /\ Nested' = Nested \ {r} /\ Opened' = Opened
    BY <1>6 DEF ReturnConnection, Opened, Nested, Open, IInv, TypeOK
  <2>2. Cardinality(Nested') = Cardinality(Nested) - 1
    BY <2>1, Finite, FS_RemoveElement
  <2>3. Cardinality(Nested') \in Nat
    BY <2>1, Finite, FS_RemoveElement, FS_CardinalityType
  <2>4. NothingLeaks' /\ inUse' \in 0..MaxConns
    BY <1>6, <2>1, <2>2, <2>3, Finite, Limits
       DEF ReturnConnection, IInv, TypeOK, NothingLeaks, Open
  <2>5. TypeOK' /\ AttemptsLeft' /\ Uncommitted' /\ AnswerTruthful'
    BY <1>6, <2>4 DEF ReturnConnection, IInv, TypeOK, AttemptsLeft, Uncommitted,
                      AnswerTruthful, AtMostOnce
  <2>6. QED
    BY <2>4, <2>5 DEF IInv
<1>7. ASSUME NEW r \in Requests, Commit(r) PROVE IInv'
  BY <1>7, Committed DEF Commit
<1>8. ASSUME NEW r \in Requests, CommitUnheard(r) PROVE IInv'
  <2>1. PICK e \in Silent : Settle(r, e)
    BY <1>8 DEF CommitUnheard
  <2>2. Finish(r, Translate(e))
    BY <2>1, SilentEnds DEF Settle
  <2>3. QED
    BY <1>8, <2>2, Committed DEF CommitUnheard
<1>9. ASSUME NEW r \in Requests, Deadlocked(r) PROVE IInv'
  <2>1. phase[r] = "open"
    BY <1>9 DEF Deadlocked, InCycle, Wants
  <2>2. QED
    BY <1>9, <2>1, RolledBack DEF Deadlocked, Open, Errors, Serialization
<1>10. ASSUME NEW r \in Requests, SerializationFails(r) PROVE IInv'
  BY <1>10, RolledBack DEF SerializationFails, Errors, Serialization
<1>11. ASSUME NEW r \in Requests, Fail(r) PROVE IInv'
  BY <1>11, RolledBack, TxnAssumption DEF Fail
<1>12. QED
  BY <1>1, <1>2, <1>3, <1>4, <1>5, <1>6, <1>7, <1>8, <1>9, <1>10, <1>11 DEF Next, Progress

LEMMA Invariant == Spec => []IInv
BY InitIInv, NextIInv, PTL DEF Spec

(* Every variable keeps its type: the pool is never overdrawn and no       *)
(* request is tried more often than maxAttempts (RunWith).                 *)
THEOREM TypeCorrect == Spec => []TypeOK
<1>1. IInv => TypeOK
  BY DEF IInv
<1>2. QED
  BY <1>1, Invariant, PTL

(* Whatever fails, the effects of a request are committed at most once and *)
(* its caller is told the truth about them (RunWith, attemptOnce).         *)
THEOREM TruthTold == Spec => []AnswerTruthful
<1>1. IInv => AnswerTruthful
  BY DEF IInv
<1>2. QED
  BY <1>1, Invariant, PTL

(* Commit, rollback and panic give back every row lock and connection of   *)
(* their transaction, and nobody else's (attemptOnce, rollback).           *)
THEOREM NothingIsLeaked == Spec => []NothingLeaks
<1>1. IInv => NothingLeaks
  BY DEF IInv
<1>2. QED
  BY <1>1, Invariant, PTL
=============================================================================
