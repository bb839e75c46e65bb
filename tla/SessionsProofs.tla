--------------------------- MODULE SessionsProofs ---------------------------
(***************************************************************************)
(* Theorems about Sessions, for every number of sessions, requests and     *)
(* devices, and every lifetime.                                            *)
(*                                                                         *)
(* Whatever a request does to the table is one of three things: it ends    *)
(* sessions, starts one, or replaces one by its successor (RowStep).  The  *)
(* invariant and the refinement follow from these three; that a request    *)
(* does no more rests on what it remembers between its steps (NewApart,    *)
(* VictimsStored).                                                         *)
(*                                                                         *)
(* The second half is about what two requests can do to each other.  Each  *)
(* property that fails when they overlap is proved for every run in which  *)
(* the two that matter do not: a sign-in beside a sign-in or a refresh     *)
(* (SignInsApart), a cutoff beside a cutoff (CutoffsApart).  One client    *)
(* alone meets both.                                                       *)
(***************************************************************************)
EXTENDS Sessions, FiniteSetTheorems, TLAPS

\* A family is named by its first session, which stays in the table.
Rooted == \A s \in Stored : row[s].family \in Stored

\* The id a transaction is about to insert is its own.
NewApart ==
  \A c \in Clients : Holds(c) =>
    /\ op[c].new \notin Stored
    /\ \A d \in Clients : Holds(d) /\ op[d].new = op[c].new => d = c

\* A statement revokes rows that are there, or the one its transaction inserts.
VictimsStored ==
  \A c \in Clients :
    /\ At(c, "swept") => op[c].victims \subseteq Stored
    /\ At(c, "trimmed") => op[c].victims \subseteq Stored \union {op[c].new}

IInv == TypeOK /\ Rooted /\ NewApart /\ VictimsStored /\ OneLivePerFamily

Ends == \E R \in SUBSET Stored : row' = Revoked(R)

Inserts(n, V, state, f) ==
  \E at \in Nat : row' = [Revoked(V) EXCEPT ![n] = Row(state, f, at)]

Starts ==
  \E n \in SessionIds \ Stored : \E state \in {"live", "revoked"} :
    \E V \in SUBSET (Stored \union {n}) : Inserts(n, V, state, n)

Rotates ==
  \E old \in Live : \E n \in SessionIds \ Stored :
    Inserts(n, {old}, "live", row[old].family)

RowStep == row' = row \/ Ends \/ Starts \/ Rotates

RowType == [state : {"none", "live", "revoked"}, family : SessionIds, at : Nat]
-----------------------------------------------------------------------------
(* What the three steps do to the table.                                   *)

LEMMA EndsRows ==
  ASSUME row \in [SessionIds -> RowType], NEW R \in SUBSET Stored, row' = Revoked(R)
  PROVE  /\ row' \in [SessionIds -> RowType]
         /\ Stored' = Stored /\ Live' = Live \ R
         /\ \A s \in SessionIds : row'[s].family = row[s].family
<1>2. row' = [s \in SessionIds |-> row'[s]]
  BY DEF Revoked
<1>a. ASSUME NEW s \in SessionIds
      PROVE  /\ row'[s] \in RowType /\ row'[s].family = row[s].family
             /\ s \in R => row'[s].state = "revoked"
             /\ s \notin R => row'[s].state = row[s].state
  <2>1. row[s] \in RowType
    OBVIOUS
  <2>2. CASE s \in R
    <3>1. row'[s] = [state |-> "revoked", family |-> row[s].family, at |-> row[s].at]
      BY <2>2 DEF Revoked, Row
    <3> QED
      BY <2>1, <2>2, <3>1 DEF RowType
  <2>3. CASE s \notin R
    <3>1. row'[s] = row[s]
      BY <2>3 DEF Revoked
    <3> QED
      BY <2>1, <2>3, <3>1
  <2> QED
    BY <2>2, <2>3
<1>3. \A s \in SessionIds : row'[s] \in RowType /\ row'[s].family = row[s].family
  BY <1>a
<1>4. \A s \in SessionIds : /\ s \in R => row'[s].state = "revoked"
                            /\ s \notin R => row'[s].state = row[s].state
  BY <1>a
<1>5. Stored' = Stored
  BY <1>4 DEF Stored
<1>6. Live' = Live \ R
  BY <1>4 DEF Live
<1> QED
  BY <1>2, <1>3, <1>5, <1>6

\* What is in the table once a row has been inserted and V revoked.
Inserted(n, V, state, f) ==
  /\ row' \in [SessionIds -> RowType]
  /\ Stored' = Stored \union {n}
  /\ \A s \in Live' : s = n \/ (s \in Live /\ s \notin V)
  /\ state = "live" => n \in Live'
  /\ \A s \in SessionIds \ {n} : row'[s].family = row[s].family
  /\ row'[n].family = f

LEMMA InsertsRows ==
  ASSUME row \in [SessionIds -> RowType],
         NEW n \in SessionIds \ Stored, NEW V \in SUBSET (Stored \union {n}),
         NEW state \in {"live", "revoked"}, NEW f \in SessionIds, Inserts(n, V, state, f)
  PROVE  Inserted(n, V, state, f)
<1>1. PICK at \in Nat : row' = [Revoked(V) EXCEPT ![n] = Row(state, f, at)]
  BY DEF Inserts
<1>2. row'[n] = Row(state, f, at) /\ row' = [s \in SessionIds |-> row'[s]]
  BY <1>1 DEF Revoked
<1>a. ASSUME NEW s \in SessionIds \ {n}
      PROVE  /\ row'[s] \in RowType /\ row'[s].family = row[s].family
             /\ s \in V => row'[s].state = "revoked"
             /\ s \notin V => row'[s].state = row[s].state
  <2>1. row[s] \in RowType
    OBVIOUS
  <2>2. CASE s \in V
    <3>1. row'[s] = [state |-> "revoked", family |-> row[s].family, at |-> row[s].at]
      BY <1>1, <2>2 DEF Revoked, Row
    <3> QED
      BY <2>1, <2>2, <3>1 DEF RowType
  <2>3. CASE s \notin V
    <3>1. row'[s] = row[s]
      BY <1>1, <2>3 DEF Revoked
    <3> QED
      BY <2>1, <2>3, <3>1
  <2> QED
    BY <2>2, <2>3
<1>3. \A s \in SessionIds \ {n} : row'[s] \in RowType /\ row'[s].family = row[s].family
  BY <1>a
<1>4. \A s \in SessionIds \ {n} : /\ s \in V => row'[s].state = "revoked"
                                  /\ s \notin V => row'[s].state = row[s].state
  BY <1>a
<1>5. row'[n] \in RowType /\ row'[n].state = state /\ row'[n].family = f
  BY <1>2 DEF Row, RowType
<1>6. Stored' = Stored \union {n}
  BY <1>4, <1>5 DEF Stored
<1>7. /\ \A s \in Live' : s = n \/ (s \in Live /\ s \notin V)
      /\ state = "live" => n \in Live'
  BY <1>4, <1>5 DEF Live
<1>8. row' \in [SessionIds -> RowType]
  BY <1>2, <1>3, <1>5
<1> QED
  BY <1>3, <1>5, <1>6, <1>7, <1>8 DEF Inserted

(* The root of a family never leaves the table.                            *)
LEMMA RowStepRooted ==
  ASSUME row \in [SessionIds -> RowType], Rooted, RowStep
  PROVE  Rooted' /\ row' \in [SessionIds -> RowType] /\ Stored \subseteq Stored'
<1>1. CASE row' = row
  BY <1>1 DEF Rooted, Stored
<1>2. CASE Ends
  BY <1>2, EndsRows DEF Ends, Rooted, Stored
<1>3. CASE Starts
  <2>1. PICK n \in SessionIds \ Stored : \E state \in {"live", "revoked"} :
          \E V \in SUBSET (Stored \union {n}) : Inserts(n, V, state, n)
    BY <1>3 DEF Starts
  <2>a. PICK state \in {"live", "revoked"} :
          \E V \in SUBSET (Stored \union {n}) : Inserts(n, V, state, n)
    BY <2>1
  <2>b. PICK V \in SUBSET (Stored \union {n}) : Inserts(n, V, state, n)
    BY <2>a
  <2>2. Inserted(n, V, state, n)
    BY <2>b, InsertsRows
  <2> QED
    BY <2>2 DEF Rooted, Stored, Inserted
<1>4. CASE Rotates
  <2>1. PICK old \in Live, n \in SessionIds \ Stored :
          Inserts(n, {old}, "live", row[old].family)
    BY <1>4 DEF Rotates
  <2>2. old \in Stored /\ row[old].family \in SessionIds /\ row[old].family \in Stored
    BY DEF Live, Stored, Rooted, RowType
  <2> DEFINE V == {old}
             f == row[old].family
  <2>a. V \in SUBSET (Stored \union {n}) /\ f \in SessionIds /\ Inserts(n, V, "live", f)
    BY <2>1, <2>2
  <2> HIDE DEF V, f
  <2>3. Inserted(n, V, "live", f)
    BY <2>a, InsertsRows
  <2> QED
    BY <2>2, <2>3 DEF f, Rooted, Stored, Inserted
<1> QED
  BY <1>1, <1>2, <1>3, <1>4 DEF RowStep

(* Only a rotation adds a live session to a family, and it takes the one   *)
(* that was there.                                                         *)
LEMMA RowStepOneLive ==
  ASSUME row \in [SessionIds -> RowType], Rooted, OneLivePerFamily, RowStep
  PROVE  OneLivePerFamily'
<1>1. CASE row' = row
  BY <1>1 DEF OneLivePerFamily, Live
<1>2. CASE Ends
  <2>1. Live' \subseteq Live /\ \A s \in SessionIds : row'[s].family = row[s].family
    BY <1>2, EndsRows DEF Ends
  <2> QED
    BY <2>1 DEF OneLivePerFamily, Live
<1>3. CASE Starts
  <2>1. PICK n \in SessionIds \ Stored : \E state \in {"live", "revoked"} :
          \E V \in SUBSET (Stored \union {n}) : Inserts(n, V, state, n)
    BY <1>3 DEF Starts
  <2>a. PICK state \in {"live", "revoked"} :
          \E V \in SUBSET (Stored \union {n}) : Inserts(n, V, state, n)
    BY <2>1
  <2>b. PICK V \in SUBSET (Stored \union {n}) : Inserts(n, V, state, n)
    BY <2>a
  <2>2. Inserted(n, V, state, n)
    BY <2>b, InsertsRows
  <2>3. \A s \in Live : s # n /\ row[s].family # n
    BY DEF Live, Stored, Rooted
  <2> QED
    BY <2>2, <2>3 DEF OneLivePerFamily, Live, Inserted
<1>4. CASE Rotates
  <2>1. PICK old \in Live, n \in SessionIds \ Stored :
          Inserts(n, {old}, "live", row[old].family)
    BY <1>4 DEF Rotates
  <2>2. old \in Stored /\ row[old].family \in SessionIds
    BY DEF Live, Stored, RowType
  <2> DEFINE V == {old}
             f == row[old].family
  <2>a. V \in SUBSET (Stored \union {n}) /\ f \in SessionIds /\ Inserts(n, V, "live", f)
    BY <2>1, <2>2
  <2> HIDE DEF V, f
  <2>3. Inserted(n, V, "live", f)
    BY <2>a, InsertsRows
  <2>4. \A s \in Live : s # n /\ s \in SessionIds
    BY DEF Live, Stored
  <2> QED
    BY <2>3, <2>4 DEF OneLivePerFamily, V, f, Inserted
<1> QED
  BY <1>1, <1>2, <1>3, <1>4 DEF RowStep
-----------------------------------------------------------------------------
(* What a request remembers.                                               *)

LEMMA OpTyped ==
  ASSUME TypeOK, NEW c \in Clients
  PROVE  /\ At(c, "starting") => op[c] \in StartingType
         /\ At(c, "trimmed") => op[c] \in TrimmedType
         /\ At(c, "rotating") => op[c] \in RotatingType
         /\ At(c, "refresh") \/ At(c, "logout") \/ At(c, "revoke") \/ At(c, "deny")
              => op[c] \in SessionType
         /\ At(c, "sweep") => op[c] \in SweepType
         /\ At(c, "swept") => op[c] \in SweptType
         /\ At(c, "cutoff") => op[c] \in CutoffType
         /\ At(c, "send") => op[c] \in SendType
<1>1. op[c] \in OpType
  BY DEF TypeOK
<1> QED
  BY <1>1 DEF OpType, At, StartingType, TrimmedType, RotatingType, SessionType,
              SweepType, SweptType, CutoffType, SendType

PlainOK ==
  /\ now \in Nat
  /\ issued \in [SessionIds -> Nat]
  /\ account \in {"active", "deleted"}
  /\ changedAt \in Nat
  /\ spared \in SUBSET SessionIds
  /\ denied \in [SessionIds -> Nat]
  /\ cutoff \in [second : Nat, until : Nat]

\* o may be what the request of c remembers.
Remembers(c, o) ==
  /\ o # None /\ o.at \in {"starting", "trimmed", "rotating"} =>
       /\ o.new \notin Stored'
       /\ \A d \in Clients \ {c} : Holds(d) => op[d].new # o.new
  /\ o # None /\ o.at = "swept" => o.victims \subseteq Stored'
  /\ o # None /\ o.at = "trimmed" => o.victims \subseteq Stored' \union {o.new}

LEMMA Moved ==
  ASSUME IInv, NEW c \in Clients, NEW o \in OpType, Proceed(c, o),
         RowStep, PlainOK', Remembers(c, o),
         \A d \in Clients \ {c} : Holds(d) => op[d].new \notin Stored'
  PROVE  IInv'
<1>1. row \in [SessionIds -> RowType] /\ Rooted /\ OneLivePerFamily
  BY DEF IInv, TypeOK, RowType
<1>2. Rooted' /\ OneLivePerFamily' /\ row' \in [SessionIds -> RowType] /\ Stored \subseteq Stored'
  BY <1>1, RowStepRooted, RowStepOneLive
<1>3. op \in [Clients -> OpType] /\ op' = [op EXCEPT ![c] = o]
  BY DEF IInv, TypeOK, Proceed
<1>4. op'[c] = o /\ \A d \in Clients \ {c} : op'[d] = op[d]
  BY <1>3
<1>5. TypeOK'
  <2>1. op' \in [Clients -> OpType]
    BY <1>3
  <2> QED
    BY <2>1, <1>2 DEF TypeOK, PlainOK, RowType
<1>6. NewApart'
  <2>1. ASSUME NEW d \in Clients, Holds(d)'
        PROVE  /\ op'[d].new \notin Stored'
               /\ \A e \in Clients : Holds(e)' /\ op'[e].new = op'[d].new => e = d
    <3>1. NewApart
      BY DEF IInv
    <3>2. CASE d = c
      BY <2>1, <3>2, <1>4 DEF Holds, Remembers
    <3>3. CASE d # c
      <4>1. Holds(d) /\ op'[d] = op[d]
        BY <2>1, <3>3, <1>4 DEF Holds
      <4>2. op'[d].new \notin Stored'
        BY <4>1, <3>3
      <4>3. ASSUME NEW e \in Clients, Holds(e)', op'[e].new = op'[d].new
            PROVE  e = d
        <5>1. CASE e = c
          BY <5>1, <4>3, <4>1, <3>3, <1>4 DEF Holds, Remembers
        <5>2. CASE e # c
          BY <5>2, <4>3, <4>1, <3>1, <1>4 DEF Holds, NewApart
        <5> QED
          BY <5>1, <5>2
      <4> QED
        BY <4>2, <4>3
    <3> QED
      BY <3>2, <3>3
  <2> QED
    BY <2>1 DEF NewApart
<1>7. VictimsStored'
  <2>1. VictimsStored
    BY DEF IInv
  <2>2. ASSUME NEW d \in Clients
        PROVE  /\ At(d, "swept")' => op'[d].victims \subseteq Stored'
               /\ At(d, "trimmed")' => op'[d].victims \subseteq Stored' \union {op'[d].new}
    <3>1. CASE d = c
      BY <3>1, <1>4 DEF At, Remembers
    <3>2. CASE d # c
      BY <3>2, <1>2, <1>4, <2>1 DEF At, VictimsStored
    <3> QED
      BY <3>1, <3>2
  <2> QED
    BY <2>2 DEF VictimsStored
<1> QED
  BY <1>2, <1>5, <1>6, <1>7 DEF IInv

(* The common case: the request moves on and the table stays.              *)
LEMMA MovedQuietly ==
  ASSUME IInv, NEW c \in Clients, NEW o \in OpType, Proceed(c, o),
         row' = row, PlainOK', Remembers(c, o)
  PROVE  IInv'
<1>1. Stored' = Stored
  BY DEF Stored
<1>2. \A d \in Clients \ {c} : Holds(d) => op[d].new \notin Stored'
  BY <1>1 DEF IInv, NewApart
<1> QED
  BY <1>2, Moved DEF RowStep

(* The request ends sessions.                                              *)
LEMMA MovedEnding ==
  ASSUME IInv, NEW c \in Clients, NEW o \in OpType, Proceed(c, o),
         NEW R \in SUBSET Stored, row' = Revoked(R), PlainOK',
         o # None => o.at \notin {"starting", "trimmed", "rotating", "swept"}
  PROVE  IInv'
<1>1. row \in [SessionIds -> RowType]
  BY DEF IInv, TypeOK, RowType
<1>2. Stored' = Stored
  BY <1>1, EndsRows
<1>3. \A d \in Clients \ {c} : Holds(d) => op[d].new \notin Stored'
  BY <1>2 DEF IInv, NewApart
<1>4. RowStep
  BY DEF RowStep, Ends
<1> QED
  BY <1>3, <1>4, Moved DEF Remembers

(* The request inserts the row it holds.                                   *)
LEMMA MovedInserting ==
  ASSUME IInv, NEW c \in Clients, Proceed(c, None), Holds(c),
         NEW V, NEW state, NEW f, Inserted(op[c].new, V, state, f), RowStep, PlainOK'
  PROVE  IInv'
<1>1. Stored' = Stored \union {op[c].new}
  BY DEF Inserted
<1>2. \A d \in Clients \ {c} : Holds(d) => op[d].new \notin Stored'
  BY <1>1 DEF IInv, NewApart
<1>3. Remembers(c, None) /\ None \in OpType
  BY DEF Remembers, OpType
<1> QED
  BY <1>2, <1>3, Moved
-----------------------------------------------------------------------------
(* Every step keeps the invariant.                                         *)

LEMMA Durations ==
  ASSUME TypeOK
  PROVE  Second(now) \in Nat /\ now + EntryTTL \in Nat
<1>1. now \in Nat /\ PerSecond \in Nat \ {0} /\ AccessTTL \in Nat /\ Margin \in Nat
  BY SessionsAssumption DEF TypeOK
<1>2. Second(now) \in Nat
  BY <1>1 DEF Second
<1>3. (AccessTTL + Margin) * PerSecond \in Nat
  BY <1>1
<1> QED
  BY <1>1, <1>2, <1>3 DEF EntryTTL

LEMMA PlainKept ==
  ASSUME TypeOK, UNCHANGED <<issued, account, changedAt, spared, denied, cutoff>>,
         now' = now \/ now' = now + 1
  PROVE  PlainOK'
BY DEF TypeOK, PlainOK

LEMMA OpenSweepIInv ==
  ASSUME IInv, NEW c \in Clients, NEW kind \in Kinds, NEW s \in SessionIds \union {None},
         OpenSweep(c, kind, s)
  PROVE  IInv'
<1> DEFINE o == [at |-> "sweep", kind |-> kind, session |-> s, began |-> now]
<1>1. TypeOK
  BY DEF IInv
<1>2. o \in OpType /\ Remembers(c, o)
  BY <1>1 DEF OpType, SweepType, Remembers, TypeOK
<1>3. Proceed(c, o) /\ row' = row /\ PlainOK'
  BY <1>1, PlainKept DEF OpenSweep, Begin, tables, redis
<1> HIDE DEF o
<1> QED
  BY <1>2, <1>3, MovedQuietly

LEMMA RequestIInv ==
  ASSUME IInv, NEW c \in Clients, Request(c)
  PROVE  IInv'
<1>1. TypeOK
  BY DEF IInv
<1>2. CASE Login(c)
  <2> DEFINE o == [at |-> "login"]
  <2>1. o \in OpType /\ Remembers(c, o)
    BY DEF OpType, Remembers
  <2>2. Proceed(c, o) /\ row' = row /\ PlainOK'
    BY <1>1, <1>2, PlainKept DEF Login, tables, redis
  <2> HIDE DEF o
  <2> QED
    BY <2>1, <2>2, MovedQuietly
<1>3. CASE ResetPassword(c)
  BY <1>3, OpenSweepIInv DEF ResetPassword, Kinds, UserWriters
<1>4. ASSUME NEW s \in SessionIds,
             \/ RefreshReused(c, s) \/ LogoutAll(c, s)
             \/ ChangePassword(c, s) \/ DeleteAccount(c, s)
      PROVE  IInv'
  BY <1>4, OpenSweepIInv
     DEF RefreshReused, LogoutAll, ChangePassword, DeleteAccount, Kinds, UserWriters
<1>5. ASSUME NEW phase \in {"refresh", "logout", "revoke"}, NEW s \in SessionIds,
             Proceed(c, [at |-> phase, session |-> s]), UNCHANGED <<now, tables, redis>>
      PROVE  IInv'
  <2> DEFINE o == [at |-> phase, session |-> s]
  <2>1. o \in OpType /\ Remembers(c, o)
    BY DEF OpType, SessionType, Remembers
  <2>2. Proceed(c, o) /\ row' = row /\ PlainOK'
    BY <1>1, <1>5, PlainKept DEF tables, redis
  <2> HIDE DEF o
  <2> QED
    BY <2>1, <2>2, MovedQuietly
<1>6. ASSUME NEW s \in SessionIds, Refresh(c, s) \/ Logout(c, s)
      PROVE  IInv'
  BY <1>5, <1>6 DEF Refresh, Logout
<1>7. ASSUME NEW s \in SessionIds, NEW r \in SessionIds, RevokeSession(c, s, r)
      PROVE  IInv'
  BY <1>5, <1>7 DEF RevokeSession
<1>8. ASSUME NEW s \in SessionIds, NEW r \in SessionIds, LogoutByToken(c, s, r)
      PROVE  IInv'
  <2> DEFINE o == [at |-> "deny", session |-> IF r \in Live THEN r ELSE s]
             R == {r} \intersect Live
  <2>1. o \in OpType /\ o.at = "deny"
    BY DEF OpType, SessionType
  <2>2. R \in SUBSET Stored
    BY DEF Live, Stored
  <2>3. Proceed(c, o) /\ row' = Revoked(R) /\ PlainOK'
    BY <1>1, <1>8, PlainKept DEF LogoutByToken, redis
  <2> HIDE DEF o, R
  <2> QED
    BY <2>1, <2>2, <2>3, MovedEnding
<1> QED
  BY <1>2, <1>3, <1>4, <1>6, <1>7, <1>8 DEF Request

(* The transactions that insert a session.                                 *)
LEMMA InsertingIInv ==
  ASSUME IInv, NEW c \in Clients,
         \/ \E s \in SessionIds : CreateSession(c, s) \/ OpenRotation(c, s)
         \/ TrimSessions(c) \/ StartSession(c) \/ RotateSession(c)
  PROVE  IInv'
<1>1. TypeOK /\ NewApart /\ VictimsStored /\ Rooted
  BY DEF IInv
<1>2. row \in [SessionIds -> RowType] /\ now \in Nat /\ Second(now) \in Nat
  BY <1>1, Durations DEF TypeOK, RowType
<1>3. ASSUME NEW s \in SessionIds, CreateSession(c, s)
      PROVE  IInv'
  <2> DEFINE o == [at |-> "starting", new |-> s, began |-> now]
  <2>1. o \in OpType
    BY <1>2 DEF OpType, StartingType
  <2>2. Proceed(c, o) /\ row' = row /\ PlainOK'
    BY <1>1, <1>3, PlainKept DEF CreateSession, Begin, tables, redis
  <2>3. Remembers(c, o)
    BY <2>2, <1>3 DEF CreateSession, Fresh, Remembers, Stored
  <2> HIDE DEF o
  <2> QED
    BY <2>1, <2>2, <2>3, MovedQuietly
<1>4. ASSUME NEW s \in SessionIds, OpenRotation(c, s)
      PROVE  IInv'
  <2> DEFINE o == [at |-> "rotating", session |-> op[c].session, new |-> s, began |-> now]
  <2>1. op[c] \in SessionType
    BY <1>1, <1>4, OpTyped DEF OpenRotation
  <2>2. o \in OpType
    BY <2>1, <1>2 DEF OpType, RotatingType, SessionType
  <2>3. Proceed(c, o) /\ row' = row /\ PlainOK'
    BY <1>1, <1>4, PlainKept DEF OpenRotation, Begin, tables, redis
  <2>4. Remembers(c, o)
    BY <2>3, <1>4 DEF OpenRotation, Fresh, Remembers, Stored
  <2> HIDE DEF o
  <2> QED
    BY <2>2, <2>3, <2>4, MovedQuietly
<1>5. CASE TrimSessions(c)
  <2> DEFINE p == op[c]
             listed == Listed(p.began) \union {p.new}
             used == [s \in listed |-> IF s = p.new THEN p.began ELSE row[s].at]
             V == BeyondLimit(listed, used)
             o == [at |-> "trimmed", new |-> p.new, began |-> p.began, victims |-> V]
  <2>1. p \in StartingType /\ Holds(c)
    BY <1>1, <1>5, OpTyped DEF TrimSessions, At, Holds
  <2>2. listed \subseteq Stored \union {p.new} /\ listed \subseteq SessionIds
    BY <2>1 DEF Listed, Live, Stored, StartingType
  <2>3. V \subseteq listed
    BY DEF BeyondLimit
  <2>4. Proceed(c, o)
    BY <1>5 DEF TrimSessions
  <2>5. row' = row /\ PlainOK'
    BY <1>1, <1>5, PlainKept DEF TrimSessions, tables, redis
  <2> HIDE DEF V, used
  <2>6. o \in OpType
    BY <2>1, <2>2, <2>3 DEF OpType, TrimmedType, StartingType
  <2>7. /\ p.new \notin Stored'
        /\ \A d \in Clients \ {c} : Holds(d) => op[d].new # p.new
    BY <2>1, <2>5, <1>1 DEF NewApart, Stored
  <2>8. Remembers(c, o)
    <3>1. V \subseteq Stored' \union {p.new}
      BY <2>2, <2>3, <2>5 DEF Stored
    <3> HIDE DEF listed, p
    <3>2. o.new = p.new /\ o.at = "trimmed" /\ o.victims = V
      OBVIOUS
    <3> QED
      BY <3>1, <3>2, <2>7 DEF Remembers
  <2> HIDE DEF o
  <2> QED
    BY <2>4, <2>5, <2>6, <2>8, MovedQuietly
<1>6. CASE StartSession(c)
  <2> DEFINE p == op[c]
             n == p.new
             V == p.victims
             state == IF n \in V THEN "revoked" ELSE "live"
  <2>1. p \in TrimmedType /\ Holds(c)
    BY <1>1, <1>6, OpTyped DEF StartSession, At, Holds
  <2>2. n \in SessionIds \ Stored /\ V \in SUBSET (Stored \union {n}) /\ p.began \in Nat
    BY <2>1, <1>1, <1>6 DEF TrimmedType, NewApart, VictimsStored, StartSession
  <2>3. state \in {"live", "revoked"}
    OBVIOUS
  <2>4. Inserts(n, V, state, n)
    BY <1>6, <2>2 DEF StartSession, Inserts
  <2>5. Proceed(c, None) /\ PlainOK'
    BY <1>1, <1>2, <1>6, <2>2 DEF StartSession, PlainOK, TypeOK, redis
  <2> HIDE DEF state, V
  <2>6. Inserted(n, V, state, n)
    BY <1>2, <2>2, <2>3, <2>4, InsertsRows
  <2>7. RowStep
    BY <2>2, <2>3, <2>4 DEF RowStep, Starts
  <2> QED
    BY <2>1, <2>5, <2>6, <2>7, MovedInserting
<1>7. CASE RotateSession(c)
  <2> DEFINE p == op[c]
             n == p.new
             old == p.session
  <2>1. p \in RotatingType /\ Holds(c)
    BY <1>1, <1>7, OpTyped DEF RotateSession, At, Holds
  <2>2. n \in SessionIds \ Stored /\ old \in SessionIds /\ p.began \in Nat
    BY <2>1, <1>1 DEF RotatingType, NewApart
  <2>3. Proceed(c, None) /\ PlainOK'
    <3>1. issued' \in [SessionIds -> Nat]
      BY <1>1, <1>2, <1>7, <2>2 DEF RotateSession, TypeOK
    <3> QED
      BY <1>1, <1>7, <3>1 DEF RotateSession, PlainOK, TypeOK, redis
  <2>4. CASE StillLive(old)
    <3> DEFINE V == {old}
               f == row[old].family
    <3>1. old \in Live /\ V \in SUBSET (Stored \union {n}) /\ f \in SessionIds
      BY <2>2, <2>4, <1>2 DEF StillLive, Live, Stored, RowType
    <3>2. Inserts(n, V, "live", f)
      BY <2>2, <2>4, <1>7 DEF RotateSession, Inserts
    <3>3. RowStep
      BY <2>2, <3>1, <3>2 DEF RowStep, Rotates
    <3> HIDE DEF V, f
    <3>4. Inserted(n, V, "live", f)
      BY <1>2, <2>2, <3>1, <3>2, InsertsRows
    <3> QED
      BY <2>1, <2>3, <3>3, <3>4, MovedInserting
  <2>5. CASE ~StillLive(old)
    <3>1. row' = row
      BY <2>5, <1>7 DEF RotateSession
    <3>2. None \in OpType /\ Remembers(c, None)
      BY DEF OpType, Remembers
    <3> QED
      BY <2>3, <3>1, <3>2, MovedQuietly
  <2> QED
    BY <2>4, <2>5
<1> QED
  BY <1>3, <1>4, <1>5, <1>6, <1>7

LEMMA SparesFamilies ==
  ASSUME TypeOK, NEW c \in Clients
  PROVE  Spares(c) \in SUBSET SessionIds
<1>1. \A s \in SessionIds : row[s].family \in SessionIds
  BY DEF TypeOK
<1>2. \A d \in Clients :
        At(d, "refresh") \/ At(d, "rotating") => op[d].session \in SessionIds
  BY OpTyped DEF SessionType, RotatingType
<1> QED
  BY <1>1, <1>2 DEF Spares, Live

(* The steps that end sessions and write the denylist.                     *)
LEMMA EndingIInv ==
  ASSUME IInv, NEW c \in Clients,
         \/ SweepRows(c) \/ CommitSweep(c) \/ BurnFails(c)
         \/ ReadCutoff(c) \/ RevokeAllForUser(c)
         \/ EndSession(c) \/ DenySession(c) \/ Abort(c)
  PROVE  IInv'
<1>1. TypeOK /\ VictimsStored
  BY DEF IInv
<1>2. now \in Nat /\ Second(now) \in Nat /\ now + EntryTTL \in Nat
  BY <1>1, Durations DEF TypeOK
<1>3. None \in OpType /\ Remembers(c, None)
  BY DEF OpType, Remembers
<1>4. CASE SweepRows(c)
  <2> DEFINE p == op[c]
             V == Swept(p.kind, p.session)
             o == [at |-> "swept", kind |-> p.kind, session |-> p.session,
                   began |-> p.began, victims |-> V]
  <2>1. p \in SweepType
    BY <1>1, <1>4, OpTyped DEF SweepRows
  <2>2. V \subseteq Live /\ Live \subseteq Stored /\ Stored \subseteq SessionIds
    BY DEF Swept, Family, Live, Stored
  <2>3. row' = row /\ PlainOK'
    BY <1>1, <1>4, PlainKept DEF SweepRows, tables, redis
  <2>4. Proceed(c, None) \/ Proceed(c, o)
    BY <1>4 DEF SweepRows
  <2> HIDE DEF V
  <2>5. o \in OpType
    BY <2>1, <2>2 DEF OpType, SweepType, SweptType
  <2>6. Remembers(c, o)
    BY <2>2, <2>3 DEF Remembers, Stored
  <2> HIDE DEF o
  <2> QED
    BY <2>3, <2>4, <2>5, <2>6, <1>3, MovedQuietly
<1>5. CASE CommitSweep(c)
  <2> DEFINE p == op[c]
             V == p.victims
             o == IF p.kind = "change" THEN None ELSE [at |-> "cutoff", kind |-> p.kind]
  <2>1. p \in SweptType /\ V \in SUBSET Stored
    BY <1>1, <1>5, OpTyped DEF CommitSweep, VictimsStored
  <2>2. row' = Revoked(V) /\ Proceed(c, o)
    BY <1>5 DEF CommitSweep, AfterSweep
  <2>3. PlainOK'
    <3>1. spared' \in SUBSET SessionIds
      BY <1>1, <1>5, SparesFamilies DEF CommitSweep, TypeOK
    <3> QED
      BY <2>1, <3>1, <1>1, <1>5 DEF CommitSweep, PlainOK, TypeOK, SweptType, redis
  <2>4. o \in OpType /\ (o # None => o.at \notin {"starting", "trimmed", "rotating", "swept"})
    BY <2>1 DEF OpType, SweptType, CutoffType
  <2> HIDE DEF o, V
  <2> QED
    BY <2>1, <2>2, <2>3, <2>4, MovedEnding
<1>6. CASE BurnFails(c)
  <2> DEFINE o == [at |-> "cutoff", kind |-> "reuse"]
  <2>1. o \in OpType /\ Remembers(c, o)
    BY DEF OpType, CutoffType, Kinds, UserWriters, Remembers
  <2>2. Proceed(c, o) /\ row' = row /\ PlainOK'
    BY <1>1, <1>6, PlainKept DEF BurnFails, tables, redis
  <2> HIDE DEF o
  <2> QED
    BY <2>1, <2>2, MovedQuietly
<1>7. CASE ReadCutoff(c)
  <2> DEFINE o == [at |-> "send", kind |-> op[c].kind, second |-> Second(now)]
  <2>1. op[c] \in CutoffType
    BY <1>1, <1>7, OpTyped DEF ReadCutoff
  <2>2. o \in OpType /\ Remembers(c, o)
    BY <2>1, <1>2 DEF OpType, CutoffType, SendType, Remembers
  <2>3. Proceed(c, o) /\ row' = row /\ PlainOK'
    BY <1>1, <1>7, PlainKept DEF ReadCutoff, tables, redis
  <2> HIDE DEF o
  <2> QED
    BY <2>2, <2>3, MovedQuietly
<1>8. CASE RevokeAllForUser(c)
  <2>1. op[c] \in SendType
    BY <1>1, <1>8, OpTyped DEF RevokeAllForUser
  <2>2. cutoff' \in [second : Nat, until : Nat]
    BY <2>1, <1>2, <1>8 DEF RevokeAllForUser, SendType
  <2>3. Proceed(c, None) /\ row' = row /\ PlainOK'
    BY <2>2, <1>1, <1>8 DEF RevokeAllForUser, tables, PlainOK, TypeOK
  <2> QED
    BY <2>3, <1>3, MovedQuietly
<1>9. CASE EndSession(c)
  <2> DEFINE s == op[c].session
             R == {s} \intersect Live
             o == IF At(c, "revoke") /\ s \notin Live THEN None
                  ELSE [at |-> "deny", session |-> s]
  <2>1. op[c] \in SessionType
    BY <1>1, <1>9, OpTyped DEF EndSession
  <2>2. R \in SUBSET Stored
    BY DEF Live, Stored
  <2>3. row' = Revoked(R) /\ Proceed(c, o)
    BY <1>9 DEF EndSession
  <2>4. PlainOK'
    BY <1>1, <1>9, PlainKept DEF EndSession, redis
  <2>5. o \in OpType /\ (o # None => o.at \notin {"starting", "trimmed", "rotating", "swept"})
    BY <2>1 DEF OpType, SessionType
  <2> HIDE DEF o, R
  <2> QED
    BY <2>2, <2>3, <2>4, <2>5, MovedEnding
<1>10. CASE DenySession(c)
  <2>1. op[c] \in SessionType
    BY <1>1, <1>10, OpTyped DEF DenySession
  <2>2. denied' \in [SessionIds -> Nat]
    BY <2>1, <1>1, <1>2, <1>10 DEF DenySession, SessionType, TypeOK
  <2>3. Proceed(c, None) /\ row' = row /\ PlainOK'
    BY <2>2, <1>1, <1>10 DEF DenySession, tables, PlainOK, TypeOK
  <2> QED
    BY <2>3, <1>3, MovedQuietly
<1>11. CASE Abort(c)
  <2>1. Proceed(c, None) /\ row' = row /\ PlainOK'
    BY <1>1, <1>11, PlainKept DEF Abort, tables, redis
  <2> QED
    BY <2>1, <1>3, MovedQuietly
<1> QED
  BY <1>4, <1>5, <1>6, <1>7, <1>8, <1>9, <1>10, <1>11

LEMMA StillIInv ==
  ASSUME IInv, UNCHANGED <<tables, redis, op>>, now' = now \/ now' = now + 1
  PROVE  IInv'
<1>1. TypeOK' /\ row' = row /\ op' = op
  BY DEF IInv, TypeOK, tables, redis
<1> QED
  BY <1>1 DEF IInv, Rooted, NewApart, VictimsStored, OneLivePerFamily, Stored, Live, Holds, At

LEMMA NextIInv == IInv /\ [Next]_vars => IInv'
<1> SUFFICES ASSUME IInv, [Next]_vars PROVE IInv'
  OBVIOUS
<1>1. CASE Tick
  BY <1>1, StillIInv DEF Tick
<1>2. CASE UNCHANGED vars
  BY <1>2, StillIInv DEF vars, tables, redis
<1>3. ASSUME NEW c \in Clients, Request(c) \/ Step(c)
      PROVE  IInv'
  BY <1>3, RequestIInv, InsertingIInv, EndingIInv DEF Step
<1> QED
  BY <1>1, <1>2, <1>3 DEF Next

LEMMA InitIInv == Init => IInv
<1> SUFFICES ASSUME Init PROVE IInv
  OBVIOUS
<1>1. TypeOK
  BY DEF Init, TypeOK, Row, OpType
<1>2. Stored = {} /\ Live = {}
  BY DEF Init, Stored, Live, Row
<1>3. \A c \in Clients : op[c] = None
  BY DEF Init
<1> QED
  BY <1>1, <1>2, <1>3 DEF IInv, Rooted, NewApart, VictimsStored, OneLivePerFamily, Holds, At

-----------------------------------------------------------------------------
(* The strengthened invariant holds in every reachable state.              *)
THEOREM SessionsInductive == Spec => []IInv
<1> QED
  BY InitIInv, NextIInv, PTL DEF Spec

(* Every variable keeps its type: what a request remembers between its     *)
(* steps is always a row it may write.                                     *)
THEOREM SessionsTyped == Spec => []TypeOK
<1>1. IInv => TypeOK
  BY DEF IInv
<1> QED
  BY <1>1, SessionsInductive, PTL

(* A refresh token has at most one live successor: no interleaving of      *)
(* refreshes, sign-ins, logouts and theft responses leaves a family with   *)
(* two live sessions.                                                      *)
THEOREM OneSuccessor == Spec => []OneLivePerFamily
<1>1. IInv => OneLivePerFamily
  BY DEF IInv
<1> QED
  BY <1>1, SessionsInductive, PTL

-----------------------------------------------------------------------------
(* Sessions implements DeviceLife.                                         *)

Born(f) == \E s \in Stored : row[s].family = f
In(f) == \E s \in Live : row[s].family = f

LEMMA NextRowStep ==
  ASSUME IInv, [Next]_vars
  PROVE  RowStep
<1>1. TypeOK /\ NewApart /\ VictimsStored
  BY DEF IInv
<1>2. CASE Tick \/ UNCHANGED vars
  BY <1>2 DEF Tick, vars, tables, RowStep
<1>3. ASSUME NEW c \in Clients, Request(c)
      PROVE  RowStep
  <2>1. ASSUME NEW s \in SessionIds, NEW r \in SessionIds, LogoutByToken(c, s, r)
        PROVE  RowStep
    <3> DEFINE R == {r} \intersect Live
    <3>1. R \in SUBSET Stored /\ row' = Revoked(R)
      BY <2>1 DEF LogoutByToken, Live, Stored
    <3> HIDE DEF R
    <3> QED
      BY <3>1 DEF RowStep, Ends
  <2> QED
    BY <1>3, <2>1 DEF Request, Login, ResetPassword, Refresh, RefreshReused, Logout, LogoutAll,
         ChangePassword, DeleteAccount, RevokeSession, OpenSweep, tables, RowStep
<1>4. ASSUME NEW c \in Clients, Step(c)
      PROVE  RowStep
  <2>1. CASE StartSession(c)
    <3> DEFINE n == op[c].new
               V == op[c].victims
               state == IF n \in V THEN "revoked" ELSE "live"
    <3>1. op[c] \in TrimmedType /\ Holds(c)
      BY <1>1, <2>1, OpTyped DEF StartSession, At, Holds
    <3>2. n \in SessionIds \ Stored /\ V \in SUBSET (Stored \union {n}) /\ op[c].began \in Nat
      BY <3>1, <1>1, <2>1 DEF TrimmedType, NewApart, VictimsStored, StartSession
    <3>3. Inserts(n, V, state, n) /\ state \in {"live", "revoked"}
      BY <2>1, <3>2 DEF StartSession, Inserts
    <3> HIDE DEF n, V, state
    <3> QED
      BY <3>2, <3>3 DEF RowStep, Starts
  <2>2. CASE RotateSession(c)
    <3> DEFINE n == op[c].new
               old == op[c].session
    <3>1. op[c] \in RotatingType /\ Holds(c)
      BY <1>1, <2>2, OpTyped DEF RotateSession, At, Holds
    <3>2. n \in SessionIds \ Stored /\ old \in SessionIds /\ op[c].began \in Nat
      BY <3>1, <1>1 DEF RotatingType, NewApart
    <3>3. CASE StillLive(old)
      <4>1. old \in Live /\ Inserts(n, {old}, "live", row[old].family)
        BY <2>2, <3>2, <3>3 DEF RotateSession, StillLive, Live, Inserts
      <4> HIDE DEF n, old
      <4> QED
        BY <3>2, <4>1 DEF RowStep, Rotates
    <3>4. CASE ~StillLive(old)
      BY <2>2, <3>4 DEF RotateSession, RowStep
    <3> QED
      BY <3>3, <3>4
  <2>3. CASE CommitSweep(c)
    <3>1. op[c].victims \in SUBSET Stored /\ row' = Revoked(op[c].victims)
      BY <1>1, <2>3 DEF CommitSweep, VictimsStored
    <3> QED
      BY <3>1 DEF RowStep, Ends
  <2>4. CASE EndSession(c)
    <3> DEFINE R == {op[c].session} \intersect Live
    <3>1. R \in SUBSET Stored /\ row' = Revoked(R)
      BY <2>4 DEF EndSession, Live, Stored
    <3> HIDE DEF R
    <3> QED
      BY <3>1 DEF RowStep, Ends
  <2> QED
    BY <1>4, <2>1, <2>2, <2>3, <2>4 DEF Step, CreateSession, OpenRotation, TrimSessions,
         SweepRows, BurnFails, ReadCutoff, RevokeAllForUser, DenySession, Abort, tables, RowStep
<1> QED
  BY <1>2, <1>3, <1>4 DEF Next

LifeReads ==
  \A f \in SessionIds :
    /\ ~Born(f) => LifeOf(f) = "new"
    /\ Born(f) /\ In(f) => LifeOf(f) = "in"
    /\ Born(f) /\ ~In(f) => LifeOf(f) = "out"

LEMMA LifeCases == LifeReads
<1> SUFFICES ASSUME NEW f \in SessionIds
             PROVE  /\ ~Born(f) => LifeOf(f) = "new"
                    /\ Born(f) /\ In(f) => LifeOf(f) = "in"
                    /\ Born(f) /\ ~In(f) => LifeOf(f) = "out"
  BY DEF LifeReads
<1>1. Live \subseteq Stored
  BY DEF Live, Stored
<1>2. ({s \in Stored : row[s].family = f} = {}) <=> ~Born(f)
  BY DEF Born
<1>3. ({s \in Stored : row[s].family = f} \intersect Live # {}) <=> In(f)
  BY <1>1 DEF In
<1> QED
  BY <1>2, <1>3 DEF LifeOf

(* A family is founded once, and after it has ended it stays so: a sign-in *)
(* founds its own, a rotation goes on only from a live session.            *)
LEMMA FamilyStep ==
  ASSUME row \in [SessionIds -> RowType], Rooted, RowStep
  PROVE  \/ \A f \in SessionIds : (Born(f)' <=> Born(f)) /\ (In(f)' => In(f))
         \/ \E n \in SessionIds :
              /\ ~Born(n) /\ Born(n)'
              /\ \A f \in SessionIds \ {n} : (Born(f)' <=> Born(f)) /\ (In(f)' => In(f))
<1>1. CASE row' = row
  BY <1>1 DEF Born, In, Stored, Live
<1>2. CASE Ends
  <2>1. Stored' = Stored /\ Live' \subseteq Live
        /\ \A s \in SessionIds : row'[s].family = row[s].family
    BY <1>2, EndsRows DEF Ends
  <2>2. Stored \subseteq SessionIds /\ Live \subseteq SessionIds
    BY DEF Stored, Live
  <2> QED
    BY <2>1, <2>2 DEF Born, In
<1>3. CASE Starts
  <2>1. PICK n \in SessionIds \ Stored : \E state \in {"live", "revoked"} :
          \E V \in SUBSET (Stored \union {n}) : Inserts(n, V, state, n)
    BY <1>3 DEF Starts
  <2>2. PICK state \in {"live", "revoked"} :
          \E V \in SUBSET (Stored \union {n}) : Inserts(n, V, state, n)
    BY <2>1
  <2>3. PICK V \in SUBSET (Stored \union {n}) : Inserts(n, V, state, n)
    BY <2>2
  <2>4. Inserted(n, V, state, n)
    BY <2>3, InsertsRows
  <2>5. ~Born(n) /\ Stored \subseteq SessionIds /\ Live \subseteq Stored
    BY DEF Born, Rooted, Stored, Live
  <2>6. Born(n)'
    BY <2>4 DEF Born, Inserted
  <2>7. \A f \in SessionIds \ {n} : (Born(f)' <=> Born(f)) /\ (In(f)' => In(f))
    BY <2>4, <2>5 DEF Born, In, Inserted
  <2> QED
    BY <2>5, <2>6, <2>7
<1>4. CASE Rotates
  <2>1. PICK old \in Live, n \in SessionIds \ Stored :
          Inserts(n, {old}, "live", row[old].family)
    BY <1>4 DEF Rotates
  <2> DEFINE V == {old}
             g == row[old].family
  <2>2. V \in SUBSET (Stored \union {n}) /\ g \in SessionIds /\ Inserts(n, V, "live", g)
    BY <2>1 DEF Live, Stored, RowType
  <2> HIDE DEF V, g
  <2>3. Inserted(n, V, "live", g)
    BY <2>2, InsertsRows
  <2>4. Stored \subseteq SessionIds /\ Live \subseteq Stored /\ old \in Live /\ row[old].family = g
    BY DEF Stored, Live, g
  <2>5. Born(g) /\ In(g)
    BY <2>4 DEF Born, In
  <2>6. \A f \in SessionIds : (Born(f)' <=> Born(f)) /\ (In(f)' => In(f))
    BY <2>3, <2>4, <2>5 DEF Born, In, Inserted
  <2> QED
    BY <2>6
<1> QED
  BY <1>1, <1>2, <1>3, <1>4 DEF RowStep

LEMMA LifeStep ==
  ASSUME IInv, [Next]_vars
  PROVE  Device!Next
<1> DEFINE life == [f \in SessionIds |-> LifeOf(f)]
<1>1. row \in [SessionIds -> RowType] /\ Rooted
  BY DEF IInv, TypeOK, RowType
<1>2. RowStep
  BY NextRowStep
<1>3. LifeReads /\ LifeReads'
  BY LifeCases, PTL
<1>4. life' \in [SessionIds -> {"new", "in", "out"}]
  BY <1>3 DEF LifeReads
<1>5. ASSUME NEW f \in SessionIds, Born(f)' <=> Born(f), In(f)' => In(f)
      PROVE  LifeOf(f)' = LifeOf(f) \/ (LifeOf(f) = "in" /\ LifeOf(f)' = "out")
  BY <1>3, <1>5 DEF LifeReads
<1>6. ASSUME NEW n \in SessionIds, ~Born(n), Born(n)'
      PROVE  LifeOf(n) = "new" /\ LifeOf(n)' \in {"in", "out"}
  BY <1>3, <1>6 DEF LifeReads
<1> QED
  BY <1>1, <1>2, <1>4, <1>5, <1>6, FamilyStep
     DEF Device!Next, Device!SignOut, Device!SignIn, Device!Keeps

(* Sessions implements DeviceLife: through every rotation, theft response, *)
(* logout and device limit, a sign-in that is out stays out.               *)
THEOREM SignedOutForGood == Spec => DeviceSpec
<1>1. Init => Device!Init
  <2> SUFFICES ASSUME Init PROVE Device!Init
    OBVIOUS
  <2>1. Stored = {}
    BY DEF Init, Stored, Row
  <2>2. \A f \in SessionIds : LifeOf(f) = "new"
    BY <2>1 DEF LifeOf
  <2> QED
    BY <2>2 DEF Device!Init
<1>2. IInv /\ [Next]_vars => [Device!Next]_([f \in SessionIds |-> LifeOf(f)])
  BY LifeStep
<1> QED
  BY <1>1, <1>2, SessionsInductive, PTL DEF Spec, DeviceSpec, Device!Spec
-----------------------------------------------------------------------------
(* What BeyondLimit leaves.                                                *)

(* A finite set has a member that was used first.                          *)
LEMMA UsedFirst ==
  ASSUME NEW K, IsFiniteSet(K), K # {}, NEW used \in [K -> Nat]
  PROVE  \E s \in K : \A r \in K : used[s] <= used[r]
<1> DEFINE Earlier(s) == {r \in K : used[r] < used[s]}
           Sets == {Earlier(s) : s \in K}
           R == StrictSubsetOrdering(K)
<1>1. FiniteSubsetsOf(K) = SUBSET K
  BY FS_FiniteSubsetsOfFinite
<1>2. IsWellFoundedOn(R, SUBSET K)
  BY <1>1, FS_StrictSubsetOrderingWellFounded
<1>3. Sets \subseteq SUBSET K /\ Sets # {}
  <2>1. \A s \in K : Earlier(s) \in SUBSET K /\ Earlier(s) \in Sets
    OBVIOUS
  <2>2. \A S \in Sets : \E s \in K : S = Earlier(s)
    OBVIOUS
  <2> HIDE DEF Earlier, Sets
  <2> QED
    BY <2>1, <2>2
<1>4. \A S, T \in SUBSET K : S \subseteq T /\ S # T => <<S, T>> \in R
  BY DEF StrictSubsetOrdering
<1>5. \A s \in K : \A r \in Earlier(s) :
        r \in K /\ r \notin Earlier(r) /\ Earlier(r) \in SUBSET Earlier(s)
  OBVIOUS
<1>6. \A s \in K : Earlier(s) = {} => \A r \in K : used[s] <= used[r]
  OBVIOUS
<1>a. \A s \in K : Earlier(s) \in Sets
  OBVIOUS
<1>b. \A S \in Sets : \E s \in K : S = Earlier(s)
  OBVIOUS
<1> HIDE DEF R, Sets
<1>7. PICK S \in Sets : \A T \in Sets : ~(<<T, S>> \in R)
  BY <1>2, <1>3, WFMin
<1>8. PICK s \in K : S = Earlier(s)
  BY <1>7, <1>b
<1> HIDE DEF Earlier
<1>9. ASSUME NEW r \in Earlier(s)
      PROVE  FALSE
  <2>1. r \in K /\ r \notin Earlier(r) /\ Earlier(r) \in SUBSET Earlier(s) /\ Earlier(r) \in Sets
    BY <1>5, <1>9, <1>a
  <2>2. Earlier(r) # Earlier(s) /\ Earlier(r) \in SUBSET K /\ S \in SUBSET K
    BY <1>3, <1>7, <1>9, <2>1
  <2>3. <<Earlier(r), S>> \in R
    BY <1>4, <1>8, <2>1, <2>2
  <2> QED
    BY <1>7, <2>1, <2>3
<1>10. Earlier(s) = {}
  BY <1>9
<1> QED
  BY <1>6, <1>10

(* As many as there are places, if no two were used at the same instant.   *)
LEMMA PlacesFilled ==
  ASSUME NEW S, IsFiniteSet(S), NEW used \in [S -> Nat],
         \A r, s \in S : used[r] = used[s] => r = s
  PROVE  Cardinality(S \ BeyondLimit(S, used)) <= MaxDevices
<1> DEFINE Later(s) == {r \in S : used[r] > used[s]}
           K == S \ BeyondLimit(S, used)
<1>1. IsFiniteSet(K) /\ Cardinality(K) \in Nat /\ K \subseteq S
  <2>1. K \in SUBSET S
    OBVIOUS
  <2> QED
    BY <2>1, FS_Subset, FS_CardinalityType
<1>2. \A s \in S : IsFiniteSet(Later(s)) /\ Cardinality(Later(s)) \in Nat
  <2>1. \A s \in S : Later(s) \in SUBSET S
    OBVIOUS
  <2> HIDE DEF Later
  <2> QED
    BY <2>1, FS_Subset, FS_CardinalityType
<1>3. \A s \in K : Cardinality(Later(s)) < MaxDevices
  BY <1>2, SessionsAssumption DEF BeyondLimit
<1>4. CASE K = {}
  BY <1>4, FS_EmptySet, SessionsAssumption
<1>5. CASE K # {}
  <2> DEFINE first == [s \in K |-> used[s]]
  <2>1. first \in [K -> Nat]
    BY <1>1
  <2>2. \E s \in K : \A r \in K : first[s] <= first[r]
    BY <1>1, <1>5, <2>1, UsedFirst
  <2>3. PICK s \in K : \A r \in K : used[s] <= used[r]
    BY <2>2
  <2>4. s \in S /\ K \ {s} \in SUBSET Later(s)
    <3>1. ASSUME NEW r \in K \ {s}
          PROVE  r \in Later(s)
      <4>1. r \in S /\ s \in S /\ used[r] # used[s] /\ used[s] <= used[r]
        BY <1>1, <2>3
      <4> QED
        BY <4>1
    <3> QED
      BY <1>1, <3>1
  <2> HIDE DEF Later, K
  <2>5. Cardinality(K \ {s}) = Cardinality(K) - 1
    BY <1>1, <2>3, FS_RemoveElement
  <2>6. Cardinality(K \ {s}) <= Cardinality(Later(s))
    BY <1>2, <2>4, FS_Subset
  <2> QED
    BY <1>1, <1>2, <1>3, <2>4, <2>5, <2>6, SessionsAssumption DEF K
<1> QED
  BY <1>4, <1>5

(* Whoever was used last.                                                  *)
LEMMA LastStays ==
  ASSUME NEW S, NEW used \in [S -> Nat], NEW s \in S, \A r \in S : used[r] <= used[s]
  PROVE  s \notin BeyondLimit(S, used)
<1>1. {r \in S : used[r] > used[s]} = {}
  OBVIOUS
<1> QED
  BY <1>1, FS_EmptySet, SessionsAssumption DEF BeyondLimit

(* Whoever was used after one that goes.                                   *)
LEMMA OldestBeyond ==
  ASSUME NEW S, IsFiniteSet(S), NEW used \in [S -> Nat],
         NEW s \in BeyondLimit(S, used), NEW r \in S \ BeyondLimit(S, used)
  PROVE  used[r] > used[s]
<1> DEFINE Later(t) == {x \in S : used[x] > used[t]}
<1>1. r \in S /\ s \in S /\ used[r] \in Nat /\ used[s] \in Nat
  BY DEF BeyondLimit
<1>2. Later(r) \in SUBSET S /\ Later(s) \in SUBSET S
  OBVIOUS
<1>3. Cardinality(Later(s)) >= MaxDevices /\ ~(Cardinality(Later(r)) >= MaxDevices)
  BY DEF BeyondLimit
<1>4. used[r] <= used[s] => Later(s) \in SUBSET Later(r)
  BY <1>1
<1> HIDE DEF Later
<1>5. /\ IsFiniteSet(Later(r)) /\ Cardinality(Later(r)) \in Nat
      /\ Cardinality(Later(s)) \in Nat
  BY <1>2, FS_Subset, FS_CardinalityType
<1>6. ~(used[r] <= used[s])
  BY <1>3, <1>4, <1>5, FS_Subset, SessionsAssumption
<1> QED
  BY <1>1, <1>6

-----------------------------------------------------------------------------
(* What a request goes on to remember when it inserts no session (Moves).  *)

Makes(o) == o # None /\ o.at \in {"starting", "trimmed", "rotating"}
SigningIn(o) == o # None /\ o.at \in {"starting", "trimmed"}
Refreshing(o) == o # None /\ o.at \in {"refresh", "rotating"}
Changes(o) == o # None /\ o.at \in {"sweep", "swept"} /\ o.kind \in {"change", "reset"}

\* The dates by which o ranks S: its own session was never used before.
UsedIn(S, o) == [s \in S |-> IF s = o.new THEN o.began ELSE row[s].at]
Ranked(o) == Listed(o.began) \union {o.new}

\* A transaction opens: the request has the timestamp to itself.
Opens(o) == o.began = now /\ now' = now + 1

Moves(c, o) ==
  \/ o = None
  \/ o.at \in {"login", "logout", "revoke", "deny", "cutoff", "send"}
  \/ o.at = "refresh" /\ o.session \in SessionIds /\ MayRefresh(o.session)
  \/ o.at = "rotating" /\ Opens(o) /\ At(c, "refresh") /\ o.session = op[c].session
  \/ o.at = "starting" /\ Opens(o)
  \/ /\ o.at = "trimmed" /\ At(c, "starting") /\ o.new = op[c].new /\ o.began = op[c].began
     /\ o.victims = BeyondLimit(Ranked(o), UsedIn(Ranked(o), o))
  \/ o.at = "sweep" /\ Opens(o) /\ (o.kind = "change" => o.session \in Stored)
  \/ /\ o.at = "swept" /\ At(c, "sweep") /\ o.kind = op[c].kind /\ o.session = op[c].session
     /\ o.began = op[c].began /\ o.victims = Swept(o.kind, o.session)

Quiet(c) ==
  /\ row' = row \/ \E R \in SUBSET Stored : row' = Revoked(R)
  /\ now' = now \/ now' = now + 1
  /\ \E o : Proceed(c, o) /\ Moves(c, o)

\* Sessions end, or nothing happens to them.
NoneAdded ==
  /\ Stored' = Stored /\ Live' \subseteq Live
  /\ \A s \in Stored : row'[s].at = row[s].at /\ row'[s].family = row[s].family

LEMMA EndingAddsNone ==
  ASSUME IInv, row' = row \/ \E R \in SUBSET Stored : row' = Revoked(R)
  PROVE  NoneAdded
<1>1. row \in [SessionIds -> RowType]
  BY DEF IInv, TypeOK, RowType
<1>2. CASE row' = row
  BY <1>2 DEF NoneAdded, Stored, Live
<1>3. ASSUME NEW R \in SUBSET Stored, row' = Revoked(R)
      PROVE  NoneAdded
  <2>1. /\ Stored' = Stored /\ Live' = Live \ R
        /\ \A s \in SessionIds : row'[s].family = row[s].family
    BY <1>1, <1>3, EndsRows
  <2>2. ASSUME NEW s \in SessionIds
        PROVE  row'[s].at = row[s].at
    <3>1. row'[s] = IF s \in R THEN Row("revoked", row[s].family, row[s].at) ELSE row[s]
      BY <1>3 DEF Revoked
    <3>2. Row("revoked", row[s].family, row[s].at).at = row[s].at
      BY DEF Row
    <3> QED
      BY <3>1, <3>2
  <2> QED
    BY <2>1, <2>2 DEF NoneAdded, Stored
<1> QED
  BY <1>2, <1>3

LEMMA QuietlyOn ==
  ASSUME NEW c, NEW o, Proceed(c, o), Moves(c, o), now' = now \/ now' = now + 1,
         row' = row \/ \E R \in SUBSET Stored : row' = Revoked(R)
  PROVE  Quiet(c)
BY DEF Quiet

LEMMA OpeningQuiet ==
  ASSUME NEW c \in Clients, NEW kind, NEW s, OpenSweep(c, kind, s),
         kind = "change" => s \in Stored
  PROVE  Quiet(c) /\ UNCHANGED <<changedAt, spared>>
<1> DEFINE o == [at |-> "sweep", kind |-> kind, session |-> s, began |-> now]
<1>1. Proceed(c, o) /\ now' = now + 1 /\ UNCHANGED <<row, changedAt, spared>>
  BY DEF OpenSweep, Begin, tables
<1>2. Moves(c, o)
  BY <1>1 DEF Moves, Opens
<1> HIDE DEF o
<1> QED
  BY <1>1, <1>2, QuietlyOn

LEMMA RequestQuiet ==
  ASSUME NEW c \in Clients, Request(c)
  PROVE  Quiet(c) /\ UNCHANGED <<changedAt, spared>>
<1>1. CASE Login(c)
  <2> DEFINE o == [at |-> "login"]
  <2>1. Proceed(c, o) /\ UNCHANGED <<now, row, changedAt, spared>>
    BY <1>1 DEF Login, tables
  <2>2. Moves(c, o)
    BY DEF Moves
  <2> HIDE DEF o
  <2> QED
    BY <2>1, <2>2, QuietlyOn
<1>2. CASE ResetPassword(c)
  BY <1>2, OpeningQuiet DEF ResetPassword
<1>3. ASSUME NEW s \in SessionIds,
             \/ RefreshReused(c, s) \/ LogoutAll(c, s)
             \/ ChangePassword(c, s) \/ DeleteAccount(c, s)
      PROVE  Quiet(c) /\ UNCHANGED <<changedAt, spared>>
  BY <1>3, OpeningQuiet
     DEF RefreshReused, LogoutAll, ChangePassword, DeleteAccount, Accepted, Unexpired
<1>4. ASSUME NEW phase \in {"refresh", "logout", "revoke"}, NEW s \in SessionIds,
             Proceed(c, [at |-> phase, session |-> s]), UNCHANGED <<now, tables, redis>>,
             phase = "refresh" => MayRefresh(s)
      PROVE  Quiet(c) /\ UNCHANGED <<changedAt, spared>>
  <2> DEFINE o == [at |-> phase, session |-> s]
  <2>1. Proceed(c, o) /\ UNCHANGED <<now, row, changedAt, spared>>
    BY <1>4 DEF tables
  <2>2. Moves(c, o)
    BY <1>4 DEF Moves
  <2> HIDE DEF o
  <2> QED
    BY <2>1, <2>2, QuietlyOn
<1>5. ASSUME NEW s \in SessionIds, Refresh(c, s) \/ Logout(c, s)
      PROVE  Quiet(c) /\ UNCHANGED <<changedAt, spared>>
  BY <1>4, <1>5 DEF Refresh, Logout
<1>6. ASSUME NEW s \in SessionIds, NEW r \in SessionIds, RevokeSession(c, s, r)
      PROVE  Quiet(c) /\ UNCHANGED <<changedAt, spared>>
  BY <1>4, <1>6 DEF RevokeSession
<1>7. ASSUME NEW s \in SessionIds, NEW r \in SessionIds, LogoutByToken(c, s, r)
      PROVE  Quiet(c) /\ UNCHANGED <<changedAt, spared>>
  <2> DEFINE o == [at |-> "deny", session |-> IF r \in Live THEN r ELSE s]
             R == {r} \intersect Live
  <2>1. R \in SUBSET Stored
    BY DEF Live, Stored
  <2>2. Proceed(c, o) /\ row' = Revoked(R) /\ UNCHANGED <<now, changedAt, spared>>
    BY <1>7 DEF LogoutByToken
  <2>3. Moves(c, o)
    BY DEF Moves
  <2> HIDE DEF o, R
  <2> QED
    BY <2>1, <2>2, <2>3, QuietlyOn
<1> QED
  BY <1>1, <1>2, <1>3, <1>5, <1>6, <1>7 DEF Request

LEMMA StepQuiet ==
  ASSUME IInv, NEW c \in Clients, Step(c), ~StartSession(c),
         RotateSession(c) => ~StillLive(op[c].session)
  PROVE  Quiet(c) /\ (UNCHANGED <<changedAt, spared>> \/ (CommitSweep(c) /\ Changes(op[c])))
<1>1. VictimsStored /\ Live \subseteq Stored
  BY DEF IInv, Live, Stored
<1>2. ASSUME NEW s \in SessionIds, CreateSession(c, s) \/ OpenRotation(c, s)
      PROVE  Quiet(c) /\ UNCHANGED <<changedAt, spared>>
  <2> DEFINE o == [at |-> "starting", new |-> s, began |-> now]
             q == [at |-> "rotating", session |-> op[c].session, new |-> s, began |-> now]
  <2>1. /\ now' = now + 1 /\ UNCHANGED <<row, changedAt, spared>>
        /\ Proceed(c, o) \/ (At(c, "refresh") /\ Proceed(c, q))
    BY <1>2 DEF CreateSession, OpenRotation, Begin, tables
  <2>2. Moves(c, o) /\ (At(c, "refresh") => Moves(c, q))
    BY <2>1 DEF Moves, Opens
  <2> HIDE DEF o, q
  <2> QED
    BY <2>1, <2>2, QuietlyOn
<1>3. CASE TrimSessions(c)
  <2> DEFINE p == op[c]
             S == Listed(p.began) \union {p.new}
             V == BeyondLimit(S, [s \in S |-> IF s = p.new THEN p.began ELSE row[s].at])
             o == [at |-> "trimmed", new |-> p.new, began |-> p.began, victims |-> V]
  <2>1. At(c, "starting") /\ Proceed(c, o) /\ UNCHANGED <<now, row, changedAt, spared>>
    BY <1>3 DEF TrimSessions, tables
  <2>2. Ranked(o) = S /\ UsedIn(S, o) = [s \in S |-> IF s = p.new THEN p.began ELSE row[s].at]
    BY DEF Ranked, UsedIn
  <2> HIDE DEF S
  <2>3. Moves(c, o)
    BY <2>1, <2>2 DEF Moves
  <2> HIDE DEF o
  <2> QED
    BY <2>1, <2>3, QuietlyOn
<1>4. CASE RotateSession(c) \/ RevokeAllForUser(c) \/ DenySession(c) \/ Abort(c)
  <2>1. Proceed(c, None) /\ UNCHANGED <<now, row, changedAt, spared>>
    BY <1>4 DEF RotateSession, RevokeAllForUser, DenySession, Abort, tables
  <2> QED
    BY <2>1, QuietlyOn DEF Moves
<1>5. CASE SweepRows(c)
  <2> DEFINE p == op[c]
             o == [at |-> "swept", kind |-> p.kind, session |-> p.session,
                   began |-> p.began, victims |-> Swept(p.kind, p.session)]
  <2>1. /\ UNCHANGED <<now, row, changedAt, spared>> /\ At(c, "sweep")
        /\ Proceed(c, None) \/ Proceed(c, o)
    BY <1>5 DEF SweepRows, tables
  <2>2. Moves(c, None) /\ Moves(c, o)
    BY <2>1 DEF Moves
  <2> HIDE DEF o
  <2> QED
    BY <2>1, <2>2, QuietlyOn
<1>6. CASE CommitSweep(c)
  <2> DEFINE V == op[c].victims
             o == AfterSweep(op[c].kind)
  <2>1. /\ V \in SUBSET Stored /\ row' = Revoked(V) /\ now' = now /\ Proceed(c, o)
        /\ UNCHANGED <<changedAt, spared>> \/ Changes(op[c])
    BY <1>1, <1>6 DEF CommitSweep, VictimsStored, Changes, At
  <2>2. Moves(c, o)
    BY DEF Moves, AfterSweep
  <2> HIDE DEF V, o
  <2> QED
    BY <1>6, <2>1, <2>2, QuietlyOn
<1>7. CASE BurnFails(c) \/ ReadCutoff(c)
  <2> DEFINE o == [at |-> "cutoff", kind |-> "reuse"]
             q == [at |-> "send", kind |-> op[c].kind, second |-> Second(now)]
  <2>1. UNCHANGED <<now, row, changedAt, spared>> /\ (Proceed(c, o) \/ Proceed(c, q))
    BY <1>7 DEF BurnFails, ReadCutoff, tables
  <2>2. Moves(c, o) /\ Moves(c, q)
    BY DEF Moves
  <2> HIDE DEF o, q
  <2> QED
    BY <2>1, <2>2, QuietlyOn
<1>8. CASE EndSession(c)
  <2> DEFINE s == op[c].session
             R == {s} \intersect Live
             o == IF At(c, "revoke") /\ s \notin Live THEN None
                  ELSE [at |-> "deny", session |-> s]
  <2>1. R \in SUBSET Stored
    BY <1>1
  <2>2. Proceed(c, o) /\ row' = Revoked(R) /\ UNCHANGED <<now, changedAt, spared>>
    BY <1>8 DEF EndSession
  <2>3. Moves(c, o)
    BY DEF Moves
  <2> HIDE DEF s, R, o
  <2> QED
    BY <2>1, <2>2, <2>3, QuietlyOn
<1> QED
  BY <1>2, <1>3, <1>4, <1>5, <1>6, <1>7, <1>8 DEF Step
-----------------------------------------------------------------------------
(* The steps that insert a session.                                        *)

\* The session n is inserted with the timestamp b, and V revoked.
NewRow(n, V, state, f, b) ==
  /\ n \in SessionIds \ Stored /\ V \in SUBSET (Stored \union {n})
  /\ state \in {"live", "revoked"} /\ f \in SessionIds /\ b \in Nat
  /\ row' = [Revoked(V) EXCEPT ![n] = Row(state, f, b)]

LEMMA NewRowAt ==
  ASSUME IInv, NEW n, NEW V, NEW state, NEW f, NEW b, NewRow(n, V, state, f, b)
  PROVE  /\ Stored' = Stored \union {n}
         /\ row'[n].at = b /\ row'[n].family = f
         /\ \A s \in Stored : row'[s].at = row[s].at /\ row'[s].family = row[s].family
         /\ \A s \in Live' : IF s = n THEN state = "live" ELSE s \in Live /\ s \notin V
         /\ state = "live" => n \in Live'
         /\ \A s \in Live : s \notin V => s \in Live'
<1>1. row \in [SessionIds -> RowType] /\ n \in SessionIds \ Stored /\ V \subseteq Stored \union {n}
  BY DEF IInv, TypeOK, RowType, NewRow
<1>2. ASSUME NEW s \in SessionIds \ {n}
      PROVE  /\ row'[s].at = row[s].at /\ row'[s].family = row[s].family
             /\ s \in V => row'[s].state = "revoked"
             /\ s \notin V => row'[s].state = row[s].state
  <2>1. row[s] \in RowType
    BY <1>1
  <2>2. CASE s \in V
    <3>1. row'[s] = [state |-> "revoked", family |-> row[s].family, at |-> row[s].at]
      BY <2>2 DEF NewRow, Revoked, Row
    <3> QED
      BY <2>1, <2>2, <3>1 DEF RowType
  <2>3. CASE s \notin V
    <3>1. row'[s] = row[s]
      BY <2>3 DEF NewRow, Revoked
    <3> QED
      BY <2>1, <2>3, <3>1
  <2> QED
    BY <2>2, <2>3
<1>3. row'[n].at = b /\ row'[n].family = f /\ row'[n].state = state
  <2>1. row'[n] = Row(state, f, b)
    BY <1>1 DEF NewRow, Revoked
  <2> QED
    BY <2>1 DEF Row
<1>4. Stored' = Stored \union {n}
  BY <1>1, <1>2, <1>3 DEF Stored, NewRow
<1>5. /\ \A s \in Live' : IF s = n THEN state = "live" ELSE s \in Live /\ s \notin V
      /\ state = "live" => n \in Live'
      /\ \A s \in Live : s \notin V => s \in Live'
  BY <1>1, <1>2, <1>3 DEF Live, Stored
<1>6. \A s \in Stored : row'[s].at = row[s].at /\ row'[s].family = row[s].family
  BY <1>1, <1>2 DEF Stored
<1> QED
  BY <1>3, <1>4, <1>5, <1>6

-----------------------------------------------------------------------------
(* Sign-ins that keep out of each other's way, among any number of other   *)
(* requests.  TrimSessions lists and counts the devices and StartSession   *)
(* inserts the new one: nobody may sign in or refresh between the two, or  *)
(* both miss what the other does.                                          *)

\* While one client signs in no other does, and none refreshes.
SignInsApart ==
  \A c, d \in Clients : SigningIn(op[c]) /\ (SigningIn(op[d]) \/ Refreshing(op[d])) => c = d

Refreshes(o, s) == Refreshing(o) /\ o.session = s

\* Those a refresh may still find.
Current == {s \in Live : ExpiresAt(s) >= now}

\* The sessions that take a place: the current ones, and those that are
\* being replaced, even when they expire on the way.
Seats == {s \in Live : s \in Current \/ \E c \in Clients : Refreshes(op[c], s)}

\* What TrimSessions ranked was all there is, and still is.
TrimKnown(o) ==
  o # None /\ o.at = "trimmed" =>
    \E S \in SUBSET (Stored \union {o.new}) :
      /\ Current \subseteq S /\ o.new \in S
      /\ o.victims = BeyondLimit(S, UsedIn(S, o))

\* No two sessions are inserted with the same timestamp, and a sign-in's is
\* the latest.
InTurn(o) ==
  /\ Makes(o) => o.began < now /\ \A s \in Stored : row[s].at # o.began
  /\ SigningIn(o) => \A s \in Stored : row[s].at < o.began
  /\ Refreshing(o) => o.session \in Stored

SignInInv ==
  /\ IsFiniteSet(Stored)
  /\ \A s \in Stored : row[s].at < now
  /\ \A r, s \in Stored : row[r].at = row[s].at => r = s
  /\ \A c \in Clients : InTurn(op[c]) /\ TrimKnown(op[c])
  /\ \A c, d \in Clients :
       Makes(op[c]) /\ Makes(op[d]) /\ op[c].began = op[d].began => c = d
  /\ Cardinality(Seats) <= MaxDevices

LEMMA SeatsFinite ==
  ASSUME SignInInv
  PROVE  IsFiniteSet(Live) /\ IsFiniteSet(Seats) /\ Cardinality(Seats) \in Nat
<1>1. Live \in SUBSET Stored /\ Seats \in SUBSET Live
  BY DEF Live, Stored, Seats
<1> QED
  BY <1>1, FS_Subset, FS_CardinalityType DEF SignInInv

\* Where sessions only end, fewer seats are taken.
LEMMA FewerSeats ==
  ASSUME SignInInv, Seats' \in SUBSET Seats
  PROVE  Cardinality(Seats') <= MaxDevices
<1>1. IsFiniteSet(Seats) /\ Cardinality(Seats) \in Nat /\ Cardinality(Seats) <= MaxDevices
  BY SeatsFinite DEF SignInInv
<1>2. Cardinality(Seats') \in Nat /\ Cardinality(Seats') <= Cardinality(Seats)
  BY <1>1, FS_Subset, FS_CardinalityType
<1> QED
  BY <1>1, <1>2, SessionsAssumption

\* A ranking stays what it was, whatever ends meanwhile.
LEMMA TrimKept ==
  ASSUME NoneAdded, Current' \subseteq Current, NEW o, TrimKnown(o)
  PROVE  o # None /\ o.at = "trimmed" =>
           \E S \in SUBSET (Stored' \union {o.new}) :
             /\ Current' \subseteq S /\ o.new \in S
             /\ o.victims = BeyondLimit(S, UsedIn(S, o)')
<1> SUFFICES ASSUME o # None, o.at = "trimmed"
             PROVE  \E S \in SUBSET (Stored' \union {o.new}) :
                      /\ Current' \subseteq S /\ o.new \in S
                      /\ o.victims = BeyondLimit(S, UsedIn(S, o)')
  OBVIOUS
<1>1. PICK S \in SUBSET (Stored \union {o.new}) :
        /\ Current \subseteq S /\ o.new \in S
        /\ o.victims = BeyondLimit(S, UsedIn(S, o))
  BY DEF TrimKnown
<1>2. UsedIn(S, o)' = UsedIn(S, o)
  <2>1. \A s \in S : s = o.new \/ row'[s].at = row[s].at
    BY <1>1 DEF NoneAdded
  <2> QED
    BY <2>1 DEF UsedIn
<1>3. S \in SUBSET (Stored' \union {o.new}) /\ Current' \subseteq S
  BY <1>1 DEF NoneAdded
<1> QED
  BY <1>1, <1>2, <1>3

\* What c remembers next, and whose date it is.
Sits(c, o) ==
  /\ Makes(o) => Opens(o) \/ (Makes(op[c]) /\ o.began = op[c].began)
  /\ SigningIn(o) => Opens(o) \/ (SigningIn(op[c]) /\ o.began = op[c].began)
  /\ \A s : Refreshes(o, s) => s \in Stored /\ (s \in Live => s \in Seats)
  /\ TrimKnown(o)

LEMMA SitsOn ==
  ASSUME IInv, SignInInv, NEW c \in Clients, Moves(c, op'[c]) \/ op'[c] = op[c]
  PROVE  Sits(c, op'[c])
<1> DEFINE o == op'[c]
<1>1. /\ InTurn(op[c]) /\ TrimKnown(op[c]) /\ now \in Nat /\ RefreshTTL \in Nat
      /\ \A s \in Stored : row[s].at \in Nat
      /\ Live \subseteq Stored
  BY SessionsAssumption DEF SignInInv, IInv, TypeOK, Stored, Live
<1>2. \A s : Refreshes(op[c], s) => s \in Stored /\ (s \in Live => s \in Seats)
  BY <1>1 DEF InTurn, Refreshes, Seats
<1>3. CASE o = op[c]
  BY <1>1, <1>2, <1>3 DEF Sits
<1> SUFFICES ASSUME Moves(c, o), o # None PROVE Sits(c, o)
  BY <1>3 DEF Sits, Makes, SigningIn, Refreshes, Refreshing, TrimKnown
<1>4. CASE o.at \in {"login", "logout", "revoke", "deny", "cutoff", "send", "sweep", "swept"}
  BY <1>4 DEF Sits, Makes, SigningIn, Refreshes, Refreshing, TrimKnown
<1>5. CASE o.at = "refresh"
  <2>1. o.session \in Live /\ o.session \in Current
    BY <1>5 DEF Moves, MayRefresh, Live, Current
  <2> QED
    BY <1>1, <1>5, <2>1 DEF Sits, Makes, SigningIn, Refreshes, Refreshing, TrimKnown, Seats
<1>6. CASE o.at = "rotating"
  <2>1. Opens(o) /\ Refreshing(op[c]) /\ o.session = op[c].session
    BY <1>6 DEF Moves, At, Refreshing
  <2> QED
    BY <1>2, <1>6, <2>1 DEF Sits, Makes, SigningIn, Refreshes, Refreshing, TrimKnown
<1>7. CASE o.at = "starting"
  BY <1>7 DEF Moves, Sits, Makes, SigningIn, Refreshes, Refreshing, TrimKnown
<1>8. CASE o.at = "trimmed"
  <2>1. /\ SigningIn(op[c]) /\ Makes(op[c]) /\ o.began = op[c].began /\ o.new = op[c].new
        /\ o.victims = BeyondLimit(Ranked(o), UsedIn(Ranked(o), o))
        /\ op[c] \in StartingType
    BY <1>8, OpTyped DEF Moves, At, SigningIn, Makes, IInv
  <2>2. o.began \in Nat /\ o.began < now
    BY <1>1, <2>1 DEF InTurn, StartingType
  <2>3. Current \subseteq Ranked(o) /\ o.new \in Ranked(o)
    BY <1>1, <2>2 DEF Current, Ranked, Listed, ExpiresAt
  <2>4. Ranked(o) \in SUBSET (Stored \union {o.new})
    BY <1>1 DEF Ranked, Listed
  <2>5. TrimKnown(o)
    BY <2>1, <2>3, <2>4 DEF TrimKnown
  <2> QED
    BY <1>8, <2>1, <2>5 DEF Sits, Makes, SigningIn, Refreshes, Refreshing
<1> QED
  BY <1>4, <1>5, <1>6, <1>7, <1>8 DEF Moves

(* The steps that insert no session.                                       *)
LEMMA QuietSignIns ==
  ASSUME IInv, SignInInv, NoneAdded, now' = now \/ now' = now + 1,
         \A c \in Clients : Sits(c, op'[c]),
         \A c, d \in Clients : c # d => op'[c] = op[c] \/ op'[d] = op[d]
  PROVE  SignInInv'
<1>1. /\ now \in Nat /\ now' \in Nat /\ now <= now' /\ RefreshTTL \in Nat
      /\ \A s \in Stored : row[s].at \in Nat
      /\ Stored' = Stored /\ Live' \subseteq Live /\ Live \subseteq Stored
      /\ \A s \in Stored : row'[s].at = row[s].at
  BY SessionsAssumption DEF IInv, TypeOK, Stored, Live, NoneAdded
<1>2. Current' \subseteq Current
  BY <1>1 DEF Current, ExpiresAt
<1>3. Cardinality(Seats') <= MaxDevices
  <2>1. ASSUME NEW s \in Seats'
        PROVE  s \in Seats
    <3>1. s \in Live' /\ s \in Live
      BY <1>1, <2>1 DEF Seats
    <3>2. CASE s \in Current'
      BY <1>2, <3>1, <3>2 DEF Seats
    <3>3. CASE \E c \in Clients : Refreshes(op'[c], s)
      BY <3>1, <3>3 DEF Sits
    <3> QED
      BY <2>1, <3>2, <3>3 DEF Seats, Refreshes, Refreshing
  <2> QED
    BY <2>1, FewerSeats
<1>4. \A c \in Clients : Makes(op[c]) => op[c].began \in Nat /\ op[c].began < now
  <2>1. ASSUME NEW c \in Clients, Makes(op[c])
        PROVE  op[c].began \in Nat
    <3>1. At(c, "starting") \/ At(c, "trimmed") \/ At(c, "rotating")
      BY <2>1 DEF Makes, At
    <3> QED
      BY <3>1, OpTyped DEF IInv, StartingType, TrimmedType, RotatingType
  <2> QED
    BY <2>1 DEF SignInInv, InTurn
<1>5. ASSUME NEW c \in Clients
      PROVE  InTurn(op[c])' /\ TrimKnown(op[c])'
  <2> DEFINE o == op'[c]
  <2>1. Sits(c, o) /\ InTurn(op[c])
    BY DEF SignInInv
  <2>2. Makes(o) => o.began < now' /\ \A s \in Stored : row[s].at # o.began
    BY <1>1, <1>4, <2>1 DEF Sits, Opens, InTurn, SignInInv
  <2>3. SigningIn(o) => \A s \in Stored : row[s].at < o.began
    BY <1>1, <2>1 DEF Sits, Opens, InTurn, SignInInv
  <2>4. Refreshing(o) => o.session \in Stored
    BY <2>1 DEF Sits, Refreshes
  <2>5. InTurn(op[c])'
    BY <1>1, <2>2, <2>3, <2>4 DEF InTurn, Makes, SigningIn, Refreshing
  <2>6. TrimKnown(op[c])'
    BY <1>2, <2>1, TrimKept DEF Sits, TrimKnown, UsedIn
  <2> QED
    BY <2>5, <2>6
<1>6. ASSUME NEW c \in Clients, NEW d \in Clients, Makes(op'[c]), Makes(op'[d]),
             op'[c].began = op'[d].began, c # d
      PROVE  FALSE
  <2>1. Sits(c, op'[c]) /\ Sits(d, op'[d]) /\ (op'[c] = op[c] \/ op'[d] = op[d])
    BY <1>6
  <2>2. /\ (op'[c].began = now \/ (op'[c].began = op[c].began /\ Makes(op[c])))
        /\ (op'[d].began = now \/ (op'[d].began = op[d].began /\ Makes(op[d])))
    BY <1>6, <2>1 DEF Sits, Opens
  <2>3. Makes(op[c]) /\ Makes(op[d]) => op[c].began # op[d].began
    BY <1>6 DEF SignInInv
  <2>4. CASE op'[c] = op[c]
    BY <1>1, <1>4, <1>6, <2>2, <2>3, <2>4
  <2>5. CASE op'[d] = op[d]
    BY <1>1, <1>4, <1>6, <2>2, <2>3, <2>5
  <2> QED
    BY <2>1, <2>4, <2>5
<1>7. \A c, d \in Clients :
        Makes(op[c])' /\ Makes(op[d])' /\ op'[c].began = op'[d].began => c = d
  BY <1>6 DEF Makes
<1>8. /\ IsFiniteSet(Stored') /\ \A s \in Stored' : row'[s].at < now'
      /\ \A r, s \in Stored' : row'[r].at = row'[s].at => r = s
  BY <1>1 DEF SignInInv
<1> QED
  BY <1>3, <1>5, <1>7, <1>8 DEF SignInInv

(* The steps that insert a session, when no other client signs in.         *)
LEMMA InsertedSignIns ==
  ASSUME IInv, SignInInv, NEW c \in Clients, Makes(op[c]), Proceed(c, None),
         NEW n, NEW V, NEW state, NEW f, NewRow(n, V, state, f, op[c].began),
         now' = now, \A d \in Clients : SigningIn(op[d]) => d = c,
         Cardinality(Seats') <= MaxDevices
  PROVE  SignInInv'
<1> DEFINE b == op[c].began
<1>1. /\ Stored' = Stored \union {n} /\ row'[n].at = b /\ n \notin Stored
      /\ \A s \in Stored : row'[s].at = row[s].at
  <2>1. n \notin Stored
    BY DEF NewRow
  <2> QED
    BY <2>1, NewRowAt
<1>2. b < now /\ \A s \in Stored : row[s].at # b
  BY DEF SignInInv, InTurn
<1>3. op'[c] = None /\ \A d \in Clients \ {c} : op'[d] = op[d]
  BY DEF IInv, TypeOK, Proceed
<1>4. IsFiniteSet(Stored')
  BY <1>1, FS_AddElement DEF SignInInv
<1>5. \A s \in Stored' : row'[s].at < now'
  BY <1>1, <1>2 DEF SignInInv
<1>6. \A r, s \in Stored' : row'[r].at = row'[s].at => r = s
  BY <1>1, <1>2 DEF SignInInv
<1>7. ASSUME NEW d \in Clients
      PROVE  InTurn(op[d])' /\ TrimKnown(op[d])'
  <2>1. CASE d = c
    BY <1>3, <2>1 DEF InTurn, TrimKnown, Makes, SigningIn, Refreshing
  <2>2. CASE d # c
    <3>1. op'[d] = op[d] /\ InTurn(op[d]) /\ ~SigningIn(op[d])
      BY <1>3, <2>2 DEF SignInInv
    <3>2. Makes(op[d]) => op[d].began # b
      BY <2>2 DEF SignInInv
    <3>3. InTurn(op[d])'
      BY <1>1, <3>1, <3>2 DEF InTurn, Makes, SigningIn, Refreshing
    <3>4. TrimKnown(op[d])'
      BY <3>1 DEF TrimKnown, SigningIn
    <3> QED
      BY <3>3, <3>4
  <2> QED
    BY <2>1, <2>2
<1>8. \A d, e \in Clients :
        Makes(op[d])' /\ Makes(op[e])' /\ op'[d].began = op'[e].began => d = e
  BY <1>3 DEF SignInInv, Makes
<1> QED
  BY <1>4, <1>5, <1>6, <1>7, <1>8 DEF SignInInv

(* A sign-in ends what is beyond the limit, itself included.               *)
LEMMA StartRanks ==
  ASSUME IInv, SignInInv, SignInsApart, NEW c \in Clients, StartSession(c)
  PROVE  LET o == op[c]
             state == IF o.new \in o.victims THEN "revoked" ELSE "live"
         IN  /\ Makes(o) /\ SigningIn(o) /\ o.new \notin Stored /\ o.began \in Nat
             /\ NewRow(o.new, o.victims, state, o.new, o.began)
             /\ now' = now /\ Proceed(c, None)
             /\ \A d \in Clients : SigningIn(op[d]) \/ Refreshing(op[d]) => d = c
             /\ \E S \in SUBSET (Stored \union {o.new}) :
                  /\ Current \subseteq S /\ o.new \in S /\ IsFiniteSet(S)
                  /\ o.victims = BeyondLimit(S, UsedIn(S, o))
                  /\ UsedIn(S, o) \in [S -> Nat]
                  /\ \A r, s \in S : UsedIn(S, o)[r] = UsedIn(S, o)[s] => r = s
                  /\ \A s \in S : UsedIn(S, o)[s] <= o.began
<1> DEFINE p == op[c]
           n == p.new
           b == p.began
           V == p.victims
           state == IF n \in V THEN "revoked" ELSE "live"
<1>1. p \in TrimmedType /\ Holds(c) /\ p # None /\ p.at = "trimmed"
  BY OpTyped DEF IInv, StartSession, At, Holds
<1>2. Makes(p) /\ SigningIn(p)
  BY <1>1 DEF Makes, SigningIn
<1>3. n \in SessionIds \ Stored /\ V \in SUBSET (Stored \union {n}) /\ b \in Nat
  BY <1>1 DEF IInv, TrimmedType, NewApart, VictimsStored, At
<1>4. NewRow(n, V, state, n, b) /\ now' = now /\ Proceed(c, None)
  BY <1>3 DEF StartSession, NewRow
<1>5. \A d \in Clients : SigningIn(op[d]) \/ Refreshing(op[d]) => d = c
  BY <1>2 DEF SignInsApart
<1>6. /\ \A s \in Stored : row[s].at < b /\ row[s].at \in Nat
      /\ \A r, s \in Stored : row[r].at = row[s].at => r = s
      /\ IsFiniteSet(Stored)
  BY <1>2 DEF SignInInv, InTurn, IInv, TypeOK, Stored
<1>7. PICK S \in SUBSET (Stored \union {n}) :
        Current \subseteq S /\ n \in S /\ V = BeyondLimit(S, UsedIn(S, p))
  BY <1>1 DEF SignInInv, TrimKnown
<1>8. IsFiniteSet(S)
  BY <1>6, <1>7, FS_AddElement, FS_Subset
<1> DEFINE used == UsedIn(S, p)
<1>9. used = [s \in S |-> IF s = n THEN b ELSE row[s].at]
  BY DEF UsedIn
<1> HIDE DEF used, n, b, V
<1>10. /\ used \in [S -> Nat] /\ \A r, s \in S : used[r] = used[s] => r = s
       /\ \A s \in S : used[s] <= b
  BY <1>3, <1>6, <1>7, <1>9
<1> QED
  BY <1>2, <1>3, <1>4, <1>5, <1>7, <1>8, <1>10 DEF used, n, b, V

LEMMA StartSignIns ==
  ASSUME IInv, SignInInv, SignInsApart, NEW c \in Clients, StartSession(c)
  PROVE  SignInInv'
<1> DEFINE p == op[c]
           n == p.new
           b == p.began
           V == p.victims
           state == IF n \in V THEN "revoked" ELSE "live"
<1>1. /\ Makes(p) /\ n \notin Stored
      /\ NewRow(n, V, state, n, b) /\ now' = now /\ Proceed(c, None)
      /\ \A d \in Clients : SigningIn(op[d]) \/ Refreshing(op[d]) => d = c
  BY StartRanks
<1>2. PICK S \in SUBSET (Stored \union {n}) :
        /\ Current \subseteq S /\ n \in S /\ IsFiniteSet(S)
        /\ V = BeyondLimit(S, UsedIn(S, p)) /\ UsedIn(S, p) \in [S -> Nat]
        /\ \A r, s \in S : UsedIn(S, p)[r] = UsedIn(S, p)[s] => r = s
  BY StartRanks
<1>3. op'[c] = None /\ \A d \in Clients \ {c} : op'[d] = op[d]
  BY <1>1 DEF IInv, TypeOK, Proceed
<1>4. \A d \in Clients : ~Refreshing(op'[d])
  BY <1>1, <1>3 DEF Refreshing
<1> HIDE DEF p, n, b, V, state
<1>5. Cardinality(S \ V) <= MaxDevices
  BY <1>2, PlacesFilled
<1>6. Seats' \in SUBSET (S \ V)
  <2>1. ASSUME NEW s \in Seats'
        PROVE  s \in S \ V
    <3>1. s \in Live' /\ row'[s].at + RefreshTTL >= now
      BY <1>1, <1>4, <2>1 DEF Seats, Refreshes, Current, ExpiresAt
    <3>2. CASE s = n
      <4>1. state = "live"
        BY <1>1, <3>1, <3>2, NewRowAt
      <4> QED
        BY <1>2, <3>2, <4>1 DEF state
    <3>3. CASE s # n
      <4>1. s \in Live /\ s \in Stored /\ s \notin V
        BY <1>1, <3>1, <3>3, NewRowAt DEF Live, Stored
      <4>2. row'[s].at = row[s].at
        BY <1>1, <4>1, NewRowAt
      <4>3. s \in Current
        BY <3>1, <4>1, <4>2 DEF Current, ExpiresAt
      <4> QED
        BY <1>2, <4>1, <4>3
    <3> QED
      BY <3>2, <3>3
  <2> QED
    BY <2>1
<1>7. Cardinality(Seats') <= MaxDevices
  <2>1. S \ V \in SUBSET S
    OBVIOUS
  <2>2. IsFiniteSet(S \ V) /\ Cardinality(S \ V) \in Nat
    BY <1>2, <2>1, FS_Subset, FS_CardinalityType
  <2>3. Cardinality(Seats') \in Nat /\ Cardinality(Seats') <= Cardinality(S \ V)
    BY <1>6, <2>2, FS_Subset, FS_CardinalityType
  <2> QED
    BY <1>5, <2>2, <2>3, SessionsAssumption
<1> QED
  BY <1>1, <1>7, InsertedSignIns DEF p, b

(* A rotation takes the place of the session it replaces.                  *)
LEMMA RotateSignIns ==
  ASSUME IInv, SignInInv, SignInsApart, NEW c \in Clients, RotateSession(c),
         StillLive(op[c].session)
  PROVE  SignInInv'
<1> DEFINE p == op[c]
           n == p.new
           b == p.began
           old == p.session
           f == row[old].family
<1>1. p \in RotatingType /\ Holds(c) /\ Makes(p) /\ Refreshing(p) /\ Refreshes(p, old) /\ ~SigningIn(p)
  BY OpTyped DEF IInv, RotateSession, At, Holds, Makes, Refreshing, Refreshes, SigningIn
<1>2. n \in SessionIds \ Stored /\ b \in Nat
  BY <1>1 DEF IInv, RotatingType, NewApart
<1>3. old \in Stored /\ old \in Live /\ old \in Seats /\ f \in SessionIds
  <2>1. old \in SessionIds
    BY <1>1 DEF RotatingType
  <2> QED
    BY <1>1, <2>1 DEF StillLive, Live, Stored, Seats, IInv, TypeOK
<1>4. now' = now /\ Proceed(c, None) /\ NewRow(n, {old}, "live", f, b)
  BY <1>2, <1>3 DEF RotateSession, NewRow
<1>5. \A d \in Clients : ~SigningIn(op[d])
  BY <1>1 DEF SignInsApart
<1>6. op'[c] = None /\ \A d \in Clients \ {c} : op'[d] = op[d]
  BY <1>4 DEF IInv, TypeOK, Proceed
<1> HIDE DEF n, b, old, f
<1>7. Seats' \in SUBSET ((Seats \ {old}) \union {n})
  <2>1. ASSUME NEW s \in Seats', s # n
        PROVE  s \in Seats \ {old}
    <3>1. s \in Live'
      BY <2>1 DEF Seats
    <3>2. s \in Live /\ s # old /\ s \in Stored
      BY <1>4, <2>1, <3>1, NewRowAt DEF Live, Stored
    <3>3. row'[s].at = row[s].at
      BY <1>4, <3>2, NewRowAt
    <3>4. CASE s \in Current'
      BY <1>4, <3>2, <3>3, <3>4 DEF Current, ExpiresAt, Seats
    <3>5. CASE \E d \in Clients : Refreshes(op'[d], s)
      BY <1>6, <3>2, <3>5 DEF Seats, Refreshes, Refreshing
    <3> QED
      BY <2>1, <3>4, <3>5 DEF Seats, Refreshes, Refreshing
  <2> QED
    BY <2>1
<1>8. Cardinality(Seats') <= MaxDevices
  <2>1. IsFiniteSet(Seats) /\ Cardinality(Seats) \in Nat /\ Cardinality(Seats) <= MaxDevices
    BY SeatsFinite DEF SignInInv
  <2>2. IsFiniteSet(Seats \ {old}) /\ Cardinality(Seats \ {old}) = Cardinality(Seats) - 1
    BY <1>3, <2>1, FS_RemoveElement
  <2>3. n \notin Seats \ {old}
    BY <1>2 DEF Seats, Live, Stored
  <2>4. /\ IsFiniteSet((Seats \ {old}) \union {n})
        /\ Cardinality((Seats \ {old}) \union {n}) = Cardinality(Seats \ {old}) + 1
    BY <2>2, <2>3, FS_AddElement
  <2>5. Cardinality(Seats') \in Nat /\ Cardinality(Seats') <= Cardinality(Seats)
    BY <1>7, <2>1, <2>2, <2>4, FS_Subset, FS_CardinalityType
  <2> QED
    BY <2>1, <2>5, SessionsAssumption
<1> QED
  BY <1>1, <1>4, <1>5, <1>8, InsertedSignIns DEF b

LEMMA NextSignIns == IInv /\ SignInInv /\ SignInsApart /\ [Next]_vars => SignInInv'
<1> SUFFICES ASSUME IInv, SignInInv, SignInsApart, [Next]_vars PROVE SignInInv'
  OBVIOUS
<1>1. CASE UNCHANGED <<op, row>> /\ (now' = now \/ now' = now + 1)
  <2>1. \A c \in Clients : Sits(c, op'[c])
    BY <1>1, SitsOn
  <2> QED
    BY <1>1, <2>1, EndingAddsNone, QuietSignIns
<1>2. ASSUME NEW c \in Clients, Quiet(c)
      PROVE  SignInInv'
  <2>1. PICK o : Proceed(c, o) /\ Moves(c, o)
    BY <1>2 DEF Quiet
  <2>2. op'[c] = o /\ \A d \in Clients \ {c} : op'[d] = op[d]
    BY <2>1 DEF IInv, TypeOK, Proceed
  <2>3. \A d \in Clients : Sits(d, op'[d])
    BY <2>1, <2>2, SitsOn
  <2>4. NoneAdded /\ (now' = now \/ now' = now + 1)
    BY <1>2, EndingAddsNone DEF Quiet
  <2> QED
    BY <2>2, <2>3, <2>4, QuietSignIns
<1>3. ASSUME NEW c \in Clients, Request(c) \/ Step(c)
      PROVE  SignInInv'
  BY <1>2, <1>3, RequestQuiet, StepQuiet, StartSignIns, RotateSignIns
<1> QED
  BY <1>1, <1>3 DEF Next, Tick, vars, tables

LEMMA InitSignIns == Init => SignInInv
<1> SUFFICES ASSUME Init PROVE SignInInv
  OBVIOUS
<1>1. Stored = {} /\ Live = {} /\ Seats = {}
  BY DEF Init, Stored, Live, Seats, Row
<1>2. IsFiniteSet({}) /\ Cardinality({}) = 0
  BY FS_EmptySet
<1>3. \A c \in Clients : op[c] = None
  BY DEF Init
<1>4. MaxDevices >= 0
  BY SessionsAssumption
<1> QED
  BY <1>1, <1>2, <1>3, <1>4 DEF SignInInv, InTurn, TrimKnown, Makes, SigningIn, Refreshing

LEMMA SignInsInductive == Spec /\ []SignInsApart => []SignInInv
<1>1. IInv /\ SignInInv /\ SignInsApart /\ [Next]_vars => SignInInv'
  BY NextSignIns
<1> QED
  BY <1>1, InitSignIns, SessionsInductive, PTL DEF Spec

(* Where no sign-in runs beside another or beside a refresh, a user keeps  *)
(* to the device limit: TrimSessions counts what Login is about to add,    *)
(* and a rotation only takes the place of the session it replaces.         *)
THEOREM DevicesLimited == Spec /\ []SignInsApart => []DeviceLimit
<1>1. IInv /\ SignInInv => DeviceLimit
  <2> SUFFICES ASSUME IInv, SignInInv PROVE DeviceLimit
    OBVIOUS
  <2>1. now \in Nat /\ RefreshTTL \in Nat /\ \A s \in Live : row[s].at \in Nat
    BY SessionsAssumption DEF IInv, TypeOK, Live
  <2>2. Listed(now) \in SUBSET Seats
    BY <2>1 DEF Listed, Seats, Current, ExpiresAt
  <2>3. IsFiniteSet(Seats) /\ Cardinality(Seats) \in Nat /\ Cardinality(Seats) <= MaxDevices
    BY SeatsFinite DEF SignInInv
  <2>4. Cardinality(Listed(now)) \in Nat /\ Cardinality(Listed(now)) <= Cardinality(Seats)
    BY <2>2, <2>3, FS_Subset, FS_CardinalityType
  <2> QED
    BY <2>3, <2>4, SessionsAssumption DEF DeviceLimit
<1> QED
  BY <1>1, SessionsInductive, SignInsInductive, PTL

\* The session a transaction is about to insert is inserted by no other.
LEMMA OnlyStarts ==
  ASSUME IInv, [Next]_vars, NEW c \in Clients, At(c, "trimmed"),
         row'[op[c].new] # row[op[c].new]
  PROVE  StartSession(c)
<1> DEFINE n == op[c].new
<1>1. n \in SessionIds \ Stored /\ Holds(c) /\ op[c].at = "trimmed"
  <2>1. Holds(c) /\ op[c] \in TrimmedType
    BY OpTyped DEF At, Holds, IInv
  <2> QED
    BY <2>1 DEF IInv, NewApart, TrimmedType, At
<1>2. ASSUME NEW V \in SUBSET Stored, row' = Revoked(V)
      PROVE  FALSE
  BY <1>1, <1>2 DEF Revoked
<1>3. ASSUME NEW d \in Clients, Quiet(d)
      PROVE  FALSE
  BY <1>2, <1>3 DEF Quiet
<1>4. ASSUME NEW d \in Clients, d # c, NEW V, NEW state, NEW f, NEW b,
             Holds(d), NewRow(op[d].new, V, state, f, b), V \subseteq Stored \union {op[d].new}
      PROVE  FALSE
  <2>1. op[d].new # n
    BY <1>1, <1>4 DEF IInv, NewApart
  <2>2. n \notin V
    BY <1>1, <1>4, <2>1
  <2> QED
    BY <1>1, <1>4, <2>1, <2>2 DEF NewRow, Revoked
<1>5. ASSUME NEW d \in Clients, d # c, StartSession(d)
      PROVE  FALSE
  <2> DEFINE V == op[d].victims
             state == IF op[d].new \in V THEN "revoked" ELSE "live"
  <2>1. Holds(d) /\ op[d] \in TrimmedType
    BY <1>5, OpTyped DEF StartSession, At, Holds, IInv
  <2>2. V \subseteq Stored \union {op[d].new}
    BY <1>5 DEF StartSession, IInv, VictimsStored
  <2>3. NewRow(op[d].new, V, state, op[d].new, op[d].began)
    BY <1>5, <2>1, <2>2 DEF StartSession, NewRow, IInv, NewApart, TrimmedType
  <2> QED
    BY <1>4, <1>5, <2>1, <2>2, <2>3
<1>6. ASSUME NEW d \in Clients, RotateSession(d), StillLive(op[d].session)
      PROVE  FALSE
  <2> DEFINE old == op[d].session
  <2>1. Holds(d) /\ op[d] \in RotatingType /\ d # c
    BY <1>1, <1>6, OpTyped DEF RotateSession, At, Holds, IInv
  <2>2. old \in Stored /\ row[old].family \in SessionIds
    BY <1>6, <2>1 DEF StillLive, RotatingType, Stored, IInv, TypeOK
  <2>3. NewRow(op[d].new, {old}, "live", row[old].family, op[d].began)
    BY <1>6, <2>1, <2>2 DEF RotateSession, NewRow, IInv, NewApart, RotatingType
  <2> QED
    BY <1>4, <2>1, <2>2, <2>3
<1>7. ASSUME NEW d \in Clients, Request(d) \/ Step(d), ~StartSession(c)
      PROVE  FALSE
  BY <1>3, <1>5, <1>6, <1>7, RequestQuiet, StepQuiet
<1> QED
  BY <1>7 DEF Next, Tick, vars, tables

LEMMA StartEndsOldest ==
  ASSUME IInv, SignInInv, SignInsApart, NEW c \in Clients, StartSession(c)
  PROVE  \A s \in (Listed(op[c].began) \union {op[c].new}) \ Live' :
           /\ s # op[c].new
           /\ \A r \in Listed(now)' : row'[r].at > row'[s].at
<1> DEFINE p == op[c]
           n == p.new
           b == p.began
           V == p.victims
           state == IF n \in V THEN "revoked" ELSE "live"
<1>1. /\ NewRow(n, V, state, n, b) /\ now' = now /\ n \notin Stored /\ b \in Nat
      /\ Live \subseteq Stored
  BY StartRanks DEF Live, Stored
<1>2. PICK S \in SUBSET (Stored \union {n}) :
        /\ Current \subseteq S /\ n \in S /\ IsFiniteSet(S)
        /\ V = BeyondLimit(S, UsedIn(S, p)) /\ UsedIn(S, p) \in [S -> Nat]
        /\ \A s \in S : UsedIn(S, p)[s] <= b
  BY StartRanks
<1> DEFINE used == UsedIn(S, p)
<1>3. used = [s \in S |-> IF s = n THEN b ELSE row[s].at]
  BY DEF UsedIn
<1>4. /\ now \in Nat /\ RefreshTTL \in Nat /\ \A s \in Live : row[s].at \in Nat
  BY SessionsAssumption DEF IInv, TypeOK, Live
<1> HIDE DEF p, n, b, V, state, used
<1>5. n \notin V
  <2>1. used \in [S -> Nat] /\ V = BeyondLimit(S, used) /\ \A r \in S : used[r] <= used[n]
    BY <1>2, <1>3 DEF used
  <2> QED
    BY <1>2, <2>1, LastStays
<1>6. n \in Live' /\ \A s \in Live : s \notin V => s \in Live'
  BY <1>1, <1>5, NewRowAt DEF state
<1>7. V \subseteq S
  BY <1>2 DEF BeyondLimit
<1>8. ASSUME NEW s \in (Listed(b) \union {n}) \ Live'
      PROVE  s # n /\ s \in V /\ row'[s].at = used[s]
  <2>1. s # n /\ s \in Live /\ s \in Stored /\ s \in V
    BY <1>1, <1>6 DEF Listed
  <2>2. row'[s].at = row[s].at
    BY <1>1, <2>1, NewRowAt
  <2> QED
    BY <1>3, <1>7, <2>1, <2>2
<1>9. ASSUME NEW r \in Listed(now)'
      PROVE  r \in S \ V /\ row'[r].at = used[r]
  <2>1. r \in Live' /\ row'[r].at + RefreshTTL > now
    BY <1>1 DEF Listed, ExpiresAt
  <2>2. CASE r = n
    <3>1. row'[n].at = b
      BY <1>1, NewRowAt
    <3> QED
      BY <1>2, <1>3, <1>5, <2>2, <3>1
  <2>3. CASE r # n
    <3>1. r \in Live /\ r \notin V
      BY <1>1, <2>1, <2>3, NewRowAt
    <3>2. row'[r].at = row[r].at
      BY <1>1, <3>1, NewRowAt
    <3>3. r \in Current
      BY <1>4, <2>1, <3>1, <3>2 DEF Current, ExpiresAt
    <3> QED
      BY <1>2, <1>3, <2>3, <3>1, <3>2, <3>3
  <2> QED
    BY <2>2, <2>3
<1>10. ASSUME NEW s \in (Listed(b) \union {n}) \ Live', NEW r \in Listed(now)'
       PROVE  row'[r].at > row'[s].at
  <2>1. s \in BeyondLimit(S, used) /\ r \in S \ BeyondLimit(S, used)
    BY <1>2, <1>8, <1>9 DEF used
  <2>2. used[r] > used[s]
    BY <1>2, <2>1, OldestBeyond DEF used
  <2> QED
    BY <1>8, <1>9, <2>2
<1> QED
  BY <1>8, <1>10 DEF p, n, b

(* Where no sign-in runs beside another or beside a refresh, it ends the   *)
(* sessions used longest ago: never its own, and never one that was used   *)
(* after one it leaves.                                                    *)
THEOREM OldestAreTrimmed == Spec /\ []SignInsApart => OldestGo
<1> DEFINE Oldest ==
      \A c \in Clients : At(c, "trimmed") /\ row'[op[c].new] # row[op[c].new] =>
        \A s \in (Listed(op[c].began) \union {op[c].new}) \ Live' :
          /\ s # op[c].new
          /\ \A r \in Listed(now)' : row'[r].at > row'[s].at
<1>1. IInv /\ SignInInv /\ SignInsApart /\ [Next]_vars => [Oldest]_vars
  <2> SUFFICES ASSUME IInv, SignInInv, SignInsApart, [Next]_vars, NEW c \in Clients,
                      At(c, "trimmed"), row'[op[c].new] # row[op[c].new]
               PROVE  \A s \in (Listed(op[c].began) \union {op[c].new}) \ Live' :
                        /\ s # op[c].new
                        /\ \A r \in Listed(now)' : row'[r].at > row'[s].at
    OBVIOUS
  <2>1. StartSession(c)
    BY OnlyStarts
  <2> QED
    BY <2>1, StartEndsOldest
<1> QED
  BY <1>1, SessionsInductive, SignInsInductive, PTL DEF Spec, OldestGo
-----------------------------------------------------------------------------
(* The change of a password, among any number of other requests.  What is  *)
(* across it signed in after it or is of a spared family (MayCross): so is *)
(* whatever a refresh under way found in order, for a change that commits  *)
(* beside a refresh spares its family (InForce).  That no two transactions *)
(* have the same timestamp (Timely) makes a row that is not older than the *)
(* change a newer one.                                                     *)

MayCross(f) == row[f].at > changedAt \/ f \in spared

Timely(o) ==
  /\ Makes(o) \/ Changes(o) => o.began < now
  /\ Makes(o) => o.began # changedAt
  /\ Changes(o) => \A s \in Stored : row[s].at # o.began

InForce(o) ==
  Refreshing(o) => o.session \in Stored /\ MayCross(row[o.session].family)

AcrossInv ==
  /\ changedAt < now
  /\ \A s \in Stored : row[s].at < now /\ row[s].at # changedAt
  /\ \A c \in Clients : Timely(op[c]) /\ InForce(op[c])
  /\ \A c, d \in Clients : Makes(op[c]) /\ Changes(op[d]) => op[c].began # op[d].began
  /\ NoSessionAcrossChange

\* c may go on to remember o.
Follows(c, o) ==
  /\ Makes(o) => Opens(o) \/ (Makes(op[c]) /\ o.began = op[c].began)
  /\ Changes(o) => Opens(o) \/ (Changes(op[c]) /\ o.began = op[c].began)
  /\ InForce(o)

LEMMA FollowsOn ==
  ASSUME IInv, AcrossInv, NEW c \in Clients, Moves(c, op'[c]) \/ op'[c] = op[c]
  PROVE  Follows(c, op'[c])
<1> DEFINE o == op'[c]
           p == op[c]
<1>1. /\ InForce(p) /\ changedAt \in Nat
      /\ \A s \in Stored : row[s].at \in Nat /\ row[s].at # changedAt
  BY DEF AcrossInv, IInv, TypeOK, Stored
<1>2. CASE o = p
  BY <1>1, <1>2 DEF Follows
<1> SUFFICES ASSUME Moves(c, o), o # None PROVE Follows(c, o)
  BY <1>2 DEF Follows, InForce, Makes, Changes, Refreshing
<1>3. CASE o.at \in {"login", "logout", "revoke", "deny", "cutoff", "send"}
  BY <1>3 DEF Follows, InForce, Makes, Changes, Refreshing
<1>4. CASE o.at = "refresh"
  <2> DEFINE s == o.session
  <2>1. s \in Live /\ s \in Stored /\ changedAt <= row[s].at
    BY <1>4 DEF Moves, MayRefresh, Live, Stored
  <2>2. changedAt < row[s].at
    BY <1>1, <2>1
  <2>3. MayCross(row[s].family)
    BY <2>1, <2>2 DEF AcrossInv, NoSessionAcrossChange, MayCross
  <2> QED
    BY <1>4, <2>1, <2>3 DEF Follows, InForce, Makes, Changes
<1>5. CASE o.at = "rotating"
  <2>1. Opens(o) /\ Refreshing(p) /\ o.session = p.session
    BY <1>5 DEF Moves, At, Refreshing
  <2> QED
    BY <1>1, <1>5, <2>1 DEF Follows, InForce, Makes, Changes
<1>6. CASE o.at \in {"starting", "trimmed"}
  <2>1. Opens(o) \/ (Makes(p) /\ o.began = p.began)
    BY <1>6 DEF Moves, At, Makes
  <2> QED
    BY <1>6, <2>1 DEF Follows, InForce, Makes, Changes, Refreshing
<1>7. CASE o.at = "sweep"
  BY <1>7 DEF Moves, Follows, InForce, Makes, Changes, Refreshing
<1>8. CASE o.at = "swept"
  <2>1. At(c, "sweep") /\ o.kind = p.kind /\ o.began = p.began
    BY <1>8 DEF Moves
  <2> QED
    BY <1>8, <2>1 DEF Follows, InForce, Makes, Changes, Refreshing, At
<1> QED
  BY <1>3, <1>4, <1>5, <1>6, <1>7, <1>8 DEF Moves

(* The steps that add no row and do not change the password.               *)
LEMMA AcrossMoves ==
  ASSUME IInv, AcrossInv, NoneAdded,
         \A c \in Clients : Follows(c, op'[c]),
         \A c, d \in Clients : c # d => op'[c] = op[c] \/ op'[d] = op[d],
         now' = now \/ now' = now + 1, UNCHANGED <<changedAt, spared>>
  PROVE  AcrossInv'
<1>1. /\ now \in Nat /\ now' \in Nat /\ now <= now' /\ changedAt \in Nat
      /\ \A s \in Stored : row[s].at \in Nat /\ row[s].family \in Stored
      /\ Stored' = Stored /\ Live' \subseteq Live /\ Live \subseteq Stored
      /\ \A s \in Stored : row'[s].at = row[s].at /\ row'[s].family = row[s].family
      /\ \A c \in Clients : Makes(op[c]) \/ Changes(op[c]) => op[c].began \in Nat
  <2>1. ASSUME NEW c \in Clients, Makes(op[c]) \/ Changes(op[c])
        PROVE  op[c].began \in Nat
    <3>1. /\ At(c, "starting") \/ At(c, "trimmed") \/ At(c, "rotating")
             \/ At(c, "sweep") \/ At(c, "swept")
      BY <2>1 DEF Makes, Changes, At
    <3> QED
      BY <3>1, OpTyped DEF IInv, StartingType, TrimmedType, RotatingType, SweepType, SweptType
  <2> QED
    BY <2>1 DEF IInv, TypeOK, Stored, Live, NoneAdded, Rooted
<1>2. \A f \in Stored : MayCross(f) => MayCross(f)'
  BY <1>1 DEF MayCross
<1>3. ASSUME NEW c \in Clients
      PROVE  InForce(op[c])'
  <2>1. InForce(op'[c])
    BY DEF Follows
  <2> QED
    BY <1>1, <1>2, <2>1 DEF InForce, Refreshing
<1>4. ASSUME NEW c \in Clients
      PROVE  Timely(op[c])'
  <2> DEFINE o == op'[c]
  <2>1. Follows(c, o) /\ Timely(op[c])
    BY DEF AcrossInv
  <2>2. Makes(o) \/ Changes(o) => o.began < now'
    BY <1>1, <2>1 DEF Follows, Opens, Timely
  <2>3. Makes(o) => o.began # changedAt
    BY <1>1, <2>1 DEF Follows, Opens, Timely, AcrossInv
  <2>4. Changes(o) => \A s \in Stored : row[s].at # o.began
    BY <1>1, <2>1 DEF Follows, Opens, Timely, AcrossInv
  <2> QED
    BY <1>1, <2>2, <2>3, <2>4 DEF Timely, Makes, Changes
<1>5. ASSUME NEW c \in Clients, NEW d \in Clients, Makes(op'[c]), Changes(op'[d])
      PROVE  op'[c].began # op'[d].began
  <2>1. c # d
    BY <1>5 DEF Makes, Changes
  <2>2. /\ Follows(c, op'[c]) /\ Follows(d, op'[d])
        /\ op'[c] = op[c] \/ op'[d] = op[d]
    BY <2>1
  <2>3. /\ \/ op'[c].began = now /\ now' = now + 1
           \/ op'[c].began = op[c].began /\ Makes(op[c])
        /\ \/ op'[d].began = now /\ now' = now + 1
           \/ op'[d].began = op[d].began /\ Changes(op[d])
    BY <1>5, <2>2 DEF Follows, Opens
  <2>4. /\ Makes(op[c]) => op[c].began < now /\ op[c].began \in Nat
        /\ Changes(op[d]) => op[d].began < now /\ op[d].began \in Nat
        /\ Makes(op[c]) /\ Changes(op[d]) => op[c].began # op[d].began
    BY <1>1 DEF AcrossInv, Timely
  <2>5. Makes(op[c]) \/ Changes(op[d])
    BY <1>5, <2>2
  <2>6. CASE op'[c] = op[c]
    BY <1>1, <1>5, <2>3, <2>4, <2>6
  <2>7. CASE op'[d] = op[d]
    BY <1>1, <1>5, <2>3, <2>4, <2>7
  <2> QED
    BY <2>2, <2>6, <2>7
<1>6. NoSessionAcrossChange'
  <2>1. ASSUME NEW s \in Live', row'[s].at > changedAt'
        PROVE  row'[row'[s].family].at > changedAt' \/ row'[s].family \in spared'
    <3>1. s \in Live /\ s \in Stored /\ row[s].at > changedAt
      BY <1>1, <2>1
    <3>2. MayCross(row[s].family)
      BY <3>1 DEF AcrossInv, NoSessionAcrossChange, MayCross
    <3>3. MayCross(row[s].family)' /\ row'[s].family = row[s].family
      BY <1>1, <1>2, <3>1, <3>2 DEF MayCross
    <3> QED
      BY <3>3 DEF MayCross
  <2> QED
    BY <2>1 DEF NoSessionAcrossChange
<1>7. changedAt' < now' /\ \A s \in Stored' : row'[s].at < now' /\ row'[s].at # changedAt'
  BY <1>1 DEF AcrossInv
<1>8. \A c, d \in Clients :
        Makes(op[c])' /\ Changes(op[d])' => op'[c].began # op'[d].began
  BY <1>5 DEF Makes, Changes
<1> QED
  BY <1>3, <1>4, <1>6, <1>7, <1>8 DEF AcrossInv

(* The steps that insert a session.                                        *)
LEMMA AcrossInserts ==
  ASSUME IInv, AcrossInv, NEW c \in Clients, Proceed(c, None), Makes(op[c]),
         NEW n, NEW V, NEW state, NEW f, NewRow(n, V, state, f, op[c].began),
         now' = now, UNCHANGED <<changedAt, spared>>,
         f = n \/ (Refreshing(op[c]) /\ f = row[op[c].session].family)
  PROVE  AcrossInv'
<1> DEFINE b == op[c].began
<1>1. /\ Stored' = Stored \union {n} /\ row'[n].at = b /\ row'[n].family = f
      /\ \A s \in Stored : row'[s].at = row[s].at /\ row'[s].family = row[s].family
      /\ Live' \subseteq Live \union {n} /\ Live \subseteq Stored /\ n \notin Stored
      /\ b \in Nat /\ changedAt \in Nat /\ now \in Nat
      /\ \A s \in Stored : row[s].family \in Stored
  <2>1. /\ Stored' = Stored \union {n} /\ row'[n].at = b /\ row'[n].family = f
        /\ \A s \in Stored : row'[s].at = row[s].at /\ row'[s].family = row[s].family
        /\ \A s \in Live' : s # n => s \in Live
    BY NewRowAt
  <2>2. n \notin Stored /\ b \in Nat
    BY DEF NewRow
  <2>3. Live \subseteq Stored
    BY DEF Live, Stored
  <2>4. changedAt \in Nat /\ now \in Nat /\ \A s \in Stored : row[s].family \in Stored
    BY DEF IInv, TypeOK, Rooted
  <2> QED
    BY <2>1, <2>2, <2>3, <2>4
<1>2. /\ b < now /\ b # changedAt /\ InForce(op[c])
      /\ \A d \in Clients : Changes(op[d]) => op[d].began # b
  BY DEF AcrossInv, Timely
<1>3. op'[c] = None /\ \A d \in Clients \ {c} : op'[d] = op[d]
  BY DEF IInv, TypeOK, Proceed
<1> HIDE DEF b
<1>4. \A g \in Stored : MayCross(g) => MayCross(g)'
  BY <1>1 DEF MayCross
<1>5. ASSUME NEW d \in Clients
      PROVE  Timely(op[d])' /\ InForce(op[d])'
  <2>1. CASE d = c
    BY <1>3, <2>1 DEF Timely, InForce, Makes, Changes, Refreshing
  <2>2. CASE d # c
    <3>1. Timely(op[d]) /\ InForce(op[d]) /\ op'[d] = op[d]
      BY <1>3, <2>2 DEF AcrossInv
    <3>2. Timely(op[d])'
      BY <1>1, <1>2, <3>1 DEF Timely, Makes, Changes
    <3>3. InForce(op[d])'
      BY <1>1, <1>4, <3>1 DEF InForce, Refreshing
    <3> QED
      BY <3>2, <3>3
  <2> QED
    BY <2>1, <2>2
<1>6. \A d, e \in Clients :
        Makes(op[d])' /\ Changes(op[e])' => op'[d].began # op'[e].began
  BY <1>3 DEF AcrossInv, Makes, Changes
<1>7. NoSessionAcrossChange'
  <2>1. ASSUME NEW s \in Live', row'[s].at > changedAt'
        PROVE  row'[row'[s].family].at > changedAt' \/ row'[s].family \in spared'
    <3>1. CASE s # n
      <4>1. s \in Live /\ row'[s].at = row[s].at /\ row'[s].family = row[s].family
        BY <1>1, <2>1, <3>1
      <4>2. MayCross(row[s].family)
        BY <2>1, <4>1 DEF AcrossInv, NoSessionAcrossChange, MayCross
      <4> QED
        BY <1>1, <1>4, <4>1, <4>2 DEF MayCross
    <3>2. CASE s = n /\ f = n
      BY <1>1, <2>1, <3>2
    <3>3. CASE s = n /\ f # n
      <4>1. MayCross(f) /\ f \in Stored
        BY <1>1, <1>2, <3>3 DEF InForce
      <4> QED
        BY <1>1, <1>4, <3>3, <4>1 DEF MayCross
    <3> QED
      BY <3>1, <3>2, <3>3
  <2> QED
    BY <2>1 DEF NoSessionAcrossChange
<1>8. changedAt' < now' /\ \A s \in Stored' : row'[s].at < now' /\ row'[s].at # changedAt'
  BY <1>1, <1>2 DEF AcrossInv
<1> QED
  BY <1>5, <1>6, <1>7, <1>8 DEF AcrossInv

(* The commit of a change or a reset.                                      *)
LEMMA AcrossChanges ==
  ASSUME IInv, AcrossInv, NEW c \in Clients, CommitSweep(c), Changes(op[c])
  PROVE  AcrossInv'
<1> DEFINE p == op[c]
           V == p.victims
           b == p.began
<1>1. /\ row' = Revoked(V) /\ changedAt' = b /\ now' = now /\ spared' = Spares(c)
      /\ At(c, "swept") /\ Proceed(c, AfterSweep(p.kind))
  BY DEF CommitSweep, Changes
<1>2. V \in SUBSET Stored /\ p \in SweptType
  BY <1>1, OpTyped DEF IInv, VictimsStored
<1>3. b \in Nat /\ now \in Nat /\ b < now /\ \A s \in Stored : row[s].at # b
  BY <1>1, <1>2 DEF SweptType, IInv, TypeOK, AcrossInv, Timely
<1>4. op'[c] = AfterSweep(p.kind) /\ \A d \in Clients \ {c} : op'[d] = op[d]
  BY <1>1 DEF IInv, TypeOK, Proceed
<1>5. AfterSweep(p.kind) = None \/ AfterSweep(p.kind).at = "cutoff"
  BY DEF AfterSweep
<1>6. /\ \A s \in Live \ V : row[s].at > b => row[s].family \in Spares(c)
      /\ \A d \in Clients : Refreshing(op[d]) => row[op[d].session].family \in Spares(c)
  <2>1. \A d \in Clients : Refreshing(op[d]) => At(d, "refresh") \/ At(d, "rotating")
    BY DEF Refreshing, At
  <2> QED
    BY <2>1 DEF Spares
<1> HIDE DEF p, V, b
<1>7. /\ Stored' = Stored /\ Live' = Live \ V /\ Live \subseteq Stored
      /\ \A s \in Stored : row'[s].at = row[s].at /\ row'[s].family = row[s].family
  <2>1. NoneAdded
    BY <1>1, <1>2, EndingAddsNone
  <2>2. Live' = Live \ V
    BY <1>1, <1>2, EndsRows DEF IInv, TypeOK, RowType
  <2> QED
    BY <2>1, <2>2 DEF NoneAdded, Live, Stored
<1>8. ASSUME NEW d \in Clients
      PROVE  Timely(op[d])' /\ InForce(op[d])'
  <2>1. CASE d = c
    <3>1. ~Makes(op[d])' /\ ~Changes(op[d])' /\ ~Refreshing(op[d])'
      BY <1>4, <1>5, <2>1 DEF Makes, Changes, Refreshing
    <3> QED
      BY <3>1 DEF Timely, InForce
  <2>2. CASE d # c
    <3>1. /\ Timely(op[d]) /\ InForce(op[d]) /\ op'[d] = op[d]
          /\ Makes(op[d]) => op[d].began # b
      BY <1>4, <2>2 DEF AcrossInv, p, b
    <3>2. Timely(op[d])'
      BY <1>1, <1>7, <3>1 DEF Timely, Makes, Changes
    <3>3. InForce(op[d])'
      BY <1>1, <1>6, <1>7, <3>1 DEF InForce, Refreshing, MayCross
    <3> QED
      BY <3>2, <3>3
  <2> QED
    BY <2>1, <2>2
<1>9. \A d, e \in Clients :
        Makes(op[d])' /\ Changes(op[e])' => op'[d].began # op'[e].began
  BY <1>4, <1>5 DEF AcrossInv, Makes, Changes
<1>10. NoSessionAcrossChange'
  <2>1. ASSUME NEW s \in Live', row'[s].at > b
        PROVE  row'[s].family \in spared'
    BY <1>1, <1>6, <1>7, <2>1
  <2> QED
    BY <1>1, <2>1 DEF NoSessionAcrossChange
<1>11. changedAt' < now' /\ \A s \in Stored' : row'[s].at < now' /\ row'[s].at # changedAt'
  BY <1>1, <1>3, <1>7 DEF AcrossInv
<1> QED
  BY <1>8, <1>9, <1>10, <1>11 DEF AcrossInv

LEMMA NextAcross == IInv /\ AcrossInv /\ [Next]_vars => AcrossInv'
<1> SUFFICES ASSUME IInv, AcrossInv, [Next]_vars PROVE AcrossInv'
  OBVIOUS
<1>1. CASE UNCHANGED <<op, row, changedAt, spared>> /\ (now' = now \/ now' = now + 1)
  <2>1. \A c \in Clients : Follows(c, op'[c])
    BY <1>1, FollowsOn
  <2> QED
    BY <1>1, <2>1, EndingAddsNone, AcrossMoves
<1>2. ASSUME NEW c \in Clients, Quiet(c), UNCHANGED <<changedAt, spared>>
      PROVE  AcrossInv'
  <2>1. PICK o : Proceed(c, o) /\ Moves(c, o)
    BY <1>2 DEF Quiet
  <2>2. op'[c] = o /\ \A d \in Clients \ {c} : op'[d] = op[d]
    BY <2>1 DEF IInv, TypeOK, Proceed
  <2>3. \A d \in Clients : Follows(d, op'[d])
    BY <2>1, <2>2, FollowsOn
  <2>4. NoneAdded /\ (now' = now \/ now' = now + 1)
    BY <1>2, EndingAddsNone DEF Quiet
  <2> QED
    BY <1>2, <2>2, <2>3, <2>4, AcrossMoves
<1>3. ASSUME NEW c \in Clients, StartSession(c)
      PROVE  AcrossInv'
  <2> DEFINE n == op[c].new
             V == op[c].victims
             state == IF n \in V THEN "revoked" ELSE "live"
  <2>1. op[c] \in TrimmedType /\ Holds(c) /\ Makes(op[c])
    BY <1>3, OpTyped DEF StartSession, At, Holds, Makes, IInv
  <2>2. NewRow(n, V, state, n, op[c].began)
    BY <1>3, <2>1 DEF IInv, NewApart, VictimsStored, StartSession, TrimmedType, NewRow
  <2>3. Proceed(c, None) /\ UNCHANGED <<now, changedAt, spared>>
    BY <1>3 DEF StartSession
  <2> HIDE DEF n, V, state
  <2> QED
    BY <2>1, <2>2, <2>3, AcrossInserts
<1>4. ASSUME NEW c \in Clients, RotateSession(c), StillLive(op[c].session)
      PROVE  AcrossInv'
  <2> DEFINE n == op[c].new
             old == op[c].session
             f == row[old].family
  <2>1. op[c] \in RotatingType /\ Holds(c) /\ Makes(op[c]) /\ Refreshing(op[c])
    BY <1>4, OpTyped DEF RotateSession, At, Holds, Makes, Refreshing, IInv
  <2>2. n \in SessionIds \ Stored /\ old \in Live /\ f \in SessionIds
    BY <1>4, <2>1 DEF IInv, NewApart, RotatingType, TypeOK, StillLive, Live
  <2>3. NewRow(n, {old}, "live", f, op[c].began)
    BY <1>4, <2>1, <2>2 DEF RotateSession, NewRow, RotatingType, Live, Stored
  <2>4. Proceed(c, None) /\ UNCHANGED <<now, changedAt, spared>>
    BY <1>4 DEF RotateSession
  <2> HIDE DEF n
  <2> QED
    BY <2>1, <2>3, <2>4, AcrossInserts
<1>5. ASSUME NEW c \in Clients, Request(c) \/ Step(c)
      PROVE  AcrossInv'
  BY <1>2, <1>3, <1>4, <1>5, RequestQuiet, StepQuiet, AcrossChanges
<1> QED
  BY <1>1, <1>5 DEF Next, Tick, vars, tables

LEMMA InitAcross == Init => AcrossInv
<1> SUFFICES ASSUME Init PROVE AcrossInv
  OBVIOUS
<1>1. Stored = {} /\ Live = {} /\ now = 1 /\ changedAt = 0 /\ \A c \in Clients : op[c] = None
  BY DEF Init, Stored, Live, Row
<1> QED
  BY <1>1 DEF AcrossInv, Timely, InForce, Makes, Changes, Refreshing, NoSessionAcrossChange

(* Whoever signed in before a change or reset of the password, however     *)
(* many requests are under way, gets no session after it by refreshing,    *)
(* except in the family of the session the change was made with and in     *)
(* those that were refreshed beside it.                                    *)
THEOREM NothingAcrossChange == Spec => []NoSessionAcrossChange
<1>1. IInv /\ AcrossInv /\ [Next]_vars => AcrossInv'
  BY NextAcross
<1>2. AcrossInv => NoSessionAcrossChange
  BY DEF AcrossInv
<1> QED
  BY <1>1, <1>2, InitAcross, SessionsInductive, PTL DEF Spec
-----------------------------------------------------------------------------
(* What takes an access token back.                                        *)

ExpiryOf(s) == (issued[s] + AccessTTL + Leeway) * PerSecond

\* A cutoff that is sent is not of a second to come.
Sends(o) ==
  o # None /\ o.at = "send" => o.second \in 0..Second(now)

\* Only sessions that exist are put on the denylist.
Names(o) ==
  o # None /\ o.at \in {"logout", "revoke", "deny"} => o.session \in Stored

\* What a request may go on to remember, for the denylist.
Fits(o) == Sends(o) /\ Names(o)

\* No entry disappears before the tokens it takes back have expired.
TokenInv ==
  /\ now > 0 /\ cutoff.second <= Second(now)
  /\ \A c \in Clients : Fits(op[c])
  /\ \A s \in SessionIds \ Stored : denied[s] = 0
  /\ \A s \in Stored :
       /\ issued[s] <= Second(now)
       /\ denied[s] # 0 => ExpiryOf(s) <= denied[s]
       /\ issued[s] < cutoff.second => ExpiryOf(s) <= cutoff.until

\* What no step undoes.
TokenStep ==
  /\ now <= now' /\ Stored \subseteq Stored'
  /\ \A s \in Stored : issued'[s] = issued[s] /\ (denied[s] # 0 => denied'[s] # 0)

(* The others remember what they did.                                      *)
LEMMA AllFit ==
  ASSUME IInv, TokenInv, NEW c \in Clients, NEW o, Proceed(c, o), Fits(o)
  PROVE  \A d \in Clients : Fits(op'[d])
<1>1. op'[c] = o /\ \A d \in Clients \ {c} : op'[d] = op[d]
  BY DEF IInv, TypeOK, Proceed
<1> QED
  BY <1>1 DEF TokenInv

LEMMA Seconds ==
  ASSUME NEW t \in Nat
  PROVE  /\ Second(t) \in Nat /\ Second(t) * PerSecond <= t
         /\ \A u \in Nat : t <= u => Second(t) <= Second(u)
BY SessionsAssumption DEF Second

(* An entry outlives every token signed before it was written.             *)
LEMMA EntryOutlives ==
  ASSUME Leeway <= Margin, NEW i \in Nat, NEW t \in Nat, i <= Second(t)
  PROVE  (i + AccessTTL + Leeway) * PerSecond <= t + EntryTTL
<1> DEFINE A == AccessTTL + Leeway
           B == AccessTTL + Margin
<1>1. PerSecond \in Nat /\ A \in Nat /\ B \in Nat /\ A <= B
  BY SessionsAssumption
<1>2. Second(t) \in Nat /\ Second(t) * PerSecond <= t
  BY Seconds
<1>3. /\ i + AccessTTL + Leeway = i + A
      /\ EntryTTL = B * PerSecond
  BY SessionsAssumption DEF EntryTTL
<1> HIDE DEF A, B
<1>4. A * PerSecond <= B * PerSecond /\ A * PerSecond \in Nat /\ B * PerSecond \in Nat
  BY <1>1
<1>5. i * PerSecond <= Second(t) * PerSecond /\ i * PerSecond \in Nat
  BY <1>1, <1>2
<1>6. (i + A) * PerSecond = i * PerSecond + A * PerSecond
  BY <1>1
<1>7. Second(t) * PerSecond \in Nat
  BY <1>1, <1>2
<1> QED
  BY <1>2, <1>3, <1>4, <1>5, <1>6, <1>7

(* Once refused, a token stays refused, but for an older cutoff.           *)
LEMMA RefusedSteps ==
  ASSUME IInv, TokenInv', TokenStep, TypeOK',
         NEW s \in Stored, ~Accepted(s), Accepted(s)'
  PROVE  cutoff'.second < cutoff.second
<1> SUFFICES ASSUME cutoff.second <= cutoff'.second
             PROVE  FALSE
  BY DEF IInv, TypeOK
<1>1. /\ s \in Stored' /\ issued'[s] = issued[s] /\ now <= now'
      /\ denied[s] # 0 => denied'[s] # 0
  BY DEF TokenStep
<1>2. /\ now \in Nat /\ now' \in Nat /\ denied[s] \in Nat /\ denied'[s] \in Nat
      /\ cutoff.second \in Nat /\ cutoff'.second \in Nat /\ issued[s] \in Nat
      /\ cutoff'.until \in Nat /\ ExpiryOf(s) \in Nat
  BY SessionsAssumption DEF IInv, TypeOK, Stored, ExpiryOf
<1>3. ExpiryOf(s)' = ExpiryOf(s)
  BY <1>1 DEF ExpiryOf
<1>4. now' < ExpiryOf(s)
  BY <1>1, <1>3 DEF Accepted, Unexpired, ExpiryOf
<1>5. Unexpired(s)
  BY <1>1, <1>2, <1>4 DEF Unexpired, ExpiryOf
<1>6. CASE OnDenylist(s)
  <2>1. denied[s] # 0
    BY <1>2, <1>6 DEF OnDenylist
  <2>2. ExpiryOf(s) <= denied'[s]
    BY <1>1, <1>3, <2>1 DEF TokenInv
  <2>3. now' < denied'[s]
    BY <1>2, <1>4, <2>2
  <2> QED
    BY <2>3 DEF Accepted, OnDenylist
<1>7. CASE CutOff(s)
  <2>1. issued'[s] < cutoff'.second
    BY <1>1, <1>2, <1>7 DEF CutOff
  <2>2. ExpiryOf(s) <= cutoff'.until
    BY <1>1, <1>3, <2>1 DEF TokenInv
  <2>3. now' < cutoff'.until
    BY <1>2, <1>4, <2>2
  <2> QED
    BY <2>1, <2>3 DEF Accepted, CutOff
<1> QED
  BY <1>5, <1>6, <1>7 DEF Accepted

(* A step that neither inserts a session nor writes to Redis.              *)
LEMMA TokenMoves ==
  ASSUME IInv, TokenInv, UNCHANGED <<issued, redis>>,
         now' = now \/ now' = now + 1,
         row' = row \/ \E R \in SUBSET Stored : row' = Revoked(R),
         \A d \in Clients : Fits(op'[d])
  PROVE  TokenInv' /\ TokenStep
<1>1. Stored' = Stored
  BY EndingAddsNone DEF NoneAdded
<1>2. now \in Nat /\ now' \in Nat /\ now <= now' /\ cutoff.second \in Nat
      /\ \A s \in Stored : issued[s] \in Nat
  BY DEF IInv, TypeOK, Stored
<1>3. Second(now) \in Nat /\ Second(now') \in Nat /\ Second(now) <= Second(now')
  BY <1>2, Seconds
<1>4. cutoff' = cutoff /\ denied' = denied /\ issued' = issued
  BY DEF redis
<1>5. Second(now)' = Second(now')
  BY DEF Second
<1>6. \A d \in Clients : Fits(op[d])'
  BY <1>1, <1>2, <1>3, <1>4, <1>5 DEF Fits, Sends, Names
<1> QED
  BY <1>1, <1>2, <1>3, <1>4, <1>5, <1>6 DEF TokenInv, TokenStep, ExpiryOf

(* The step that inserts a session signs its first access token.           *)
LEMMA TokenInserts ==
  ASSUME IInv, TokenInv, NEW n \in SessionIds \ Stored, Stored' = Stored \union {n},
         issued' = [issued EXCEPT ![n] = Second(now)], UNCHANGED <<now, redis>>,
         \A d \in Clients : Fits(op'[d])
  PROVE  TokenInv' /\ TokenStep
<1>1. /\ now \in Nat /\ cutoff.second \in Nat /\ Second(now) \in Nat
      /\ issued \in [SessionIds -> Nat] /\ Stored \subseteq SessionIds
  BY Seconds DEF IInv, TypeOK, Stored
<1>2. /\ issued'[n] = Second(now) /\ \A s \in Stored : issued'[s] = issued[s]
      /\ cutoff' = cutoff /\ denied' = denied /\ now' = now
  BY <1>1 DEF redis
<1>3. Second(now)' = Second(now) /\ denied[n] = 0 /\ ~(issued'[n] < cutoff.second)
  BY <1>1, <1>2 DEF Second, TokenInv
<1>4. \A d \in Clients : Fits(op[d])'
  BY <1>1, <1>3 DEF Fits, Sends, Names
<1> QED
  BY <1>1, <1>2, <1>3, <1>4 DEF TokenInv, TokenStep, ExpiryOf

LEMMA DenyTokens ==
  ASSUME Leeway <= Margin, IInv, TokenInv, NEW c \in Clients, DenySession(c)
  PROVE  TokenInv' /\ TokenStep
<1> DEFINE t == op[c].session
<1>1. t \in Stored /\ op[c] \in SessionType
  BY OpTyped DEF TokenInv, Fits, Names, DenySession, At, IInv
<1>2. /\ now \in Nat /\ cutoff.second \in Nat /\ now + EntryTTL \in Nat
      /\ denied \in [SessionIds -> Nat] /\ Stored \subseteq SessionIds
      /\ \A s \in Stored : issued[s] \in Nat
  BY Durations DEF IInv, TypeOK, Stored
<1>3. /\ now' = now /\ issued' = issued /\ cutoff' = cutoff /\ row' = row
      /\ denied' = [denied EXCEPT ![t] = now + EntryTTL]
  BY DEF DenySession, tables
<1>4. \A d \in Clients : Fits(op'[d])
  BY AllFit DEF DenySession, Fits, Sends, Names
<1>5. ExpiryOf(t) <= now + EntryTTL
  BY <1>1, <1>2, EntryOutlives DEF TokenInv, ExpiryOf
<1>6. Stored' = Stored /\ Second(now)' = Second(now) /\ \A s \in Stored : ExpiryOf(s)' = ExpiryOf(s)
  BY <1>3 DEF Stored, Second, ExpiryOf
<1>7. now + EntryTTL # 0
  <2>1. PerSecond \in Nat \ {0} /\ AccessTTL + Margin \in Nat /\ now > 0
    BY SessionsAssumption DEF TokenInv
  <2>2. EntryTTL \in Nat
    BY <2>1 DEF EntryTTL
  <2> QED
    BY <1>2, <2>1, <2>2
<1>8. \A d \in Clients : Fits(op[d])'
  BY <1>4, <1>6 DEF Fits, Sends, Names
<1> HIDE DEF t
<1>9. denied'[t] = now + EntryTTL /\ \A s \in SessionIds \ {t} : denied'[s] = denied[s]
  BY <1>1, <1>2, <1>3
<1> QED
  BY <1>1, <1>2, <1>3, <1>5, <1>6, <1>7, <1>8, <1>9 DEF TokenInv, TokenStep

LEMMA CutoffTokens ==
  ASSUME Leeway <= Margin, IInv, TokenInv, NEW c \in Clients, RevokeAllForUser(c)
  PROVE  TokenInv' /\ TokenStep
<1> DEFINE x == op[c].second
<1>1. x \in Nat /\ x <= Second(now)
  BY OpTyped DEF IInv, TypeOK, TokenInv, Fits, Sends, RevokeAllForUser, At, SendType
<1>2. /\ now \in Nat /\ cutoff.second \in Nat /\ Second(now) \in Nat
      /\ \A s \in Stored : issued[s] \in Nat
  BY Seconds DEF IInv, TypeOK, Stored
<1>3. /\ now' = now /\ issued' = issued /\ denied' = denied /\ row' = row
      /\ cutoff'.second = x /\ cutoff'.until = now + EntryTTL
  BY DEF RevokeAllForUser, tables
<1>4. \A d \in Clients : Fits(op'[d])
  BY AllFit DEF RevokeAllForUser, Fits, Sends, Names
<1>5. \A s \in Stored : ExpiryOf(s) <= now + EntryTTL
  BY <1>2, EntryOutlives DEF TokenInv, ExpiryOf
<1>6. Stored' = Stored /\ Second(now)' = Second(now) /\ \A s \in Stored : ExpiryOf(s)' = ExpiryOf(s)
  BY <1>3 DEF Stored, Second, ExpiryOf
<1>7. \A d \in Clients : Fits(op[d])'
  BY <1>4, <1>6 DEF Fits, Sends, Names
<1> HIDE DEF x
<1> QED
  BY <1>1, <1>2, <1>3, <1>5, <1>6, <1>7 DEF TokenInv, TokenStep

LEMMA RequestTokens ==
  ASSUME IInv, TokenInv, NEW c \in Clients, Request(c)
  PROVE  TokenInv' /\ TokenStep
<1>1. UNCHANGED <<issued, redis>> /\ (now' = now \/ now' = now + 1)
  BY DEF Request, Login, ResetPassword, Refresh, RefreshReused, Logout, LogoutAll,
         ChangePassword, DeleteAccount, LogoutByToken, RevokeSession, OpenSweep, Begin, tables
<1>2. row' = row \/ \E R \in SUBSET Stored : row' = Revoked(R)
  <2>1. ASSUME NEW r, row' = Revoked({r} \intersect Live)
        PROVE  \E R \in SUBSET Stored : row' = Revoked(R)
    <3> DEFINE R == {r} \intersect Live
    <3>1. R \in SUBSET Stored /\ row' = Revoked(R)
      BY <2>1 DEF Live, Stored
    <3> HIDE DEF R
    <3> QED
      BY <3>1
  <2> QED
    BY <2>1 DEF Request, Login, ResetPassword, Refresh, RefreshReused, Logout, LogoutAll,
         ChangePassword, DeleteAccount, LogoutByToken, RevokeSession, OpenSweep, tables
<1>3. \A s : Accepted(s) => s \in Stored
  BY DEF Accepted, Unexpired
<1>4. ASSUME NEW kind, NEW s, OpenSweep(c, kind, s)
      PROVE  \E o : Proceed(c, o) /\ Fits(o)
  BY <1>4 DEF OpenSweep, Fits, Sends, Names
<1>5. Login(c) \/ ResetPassword(c) => \E o : Proceed(c, o) /\ Fits(o)
  BY <1>4 DEF Login, ResetPassword, Fits, Sends, Names
<1>6. ASSUME NEW s \in SessionIds,
             \/ Refresh(c, s) \/ RefreshReused(c, s) \/ LogoutAll(c, s)
             \/ ChangePassword(c, s) \/ DeleteAccount(c, s)
      PROVE  \E o : Proceed(c, o) /\ Fits(o)
  BY <1>4, <1>6 DEF Refresh, RefreshReused, LogoutAll, ChangePassword, DeleteAccount,
                    Fits, Sends, Names
<1>7. ASSUME NEW s \in SessionIds, Logout(c, s)
      PROVE  \E o : Proceed(c, o) /\ Fits(o)
  BY <1>3, <1>7 DEF Logout, Fits, Sends, Names
<1>8. ASSUME NEW s \in SessionIds, NEW r \in SessionIds,
             LogoutByToken(c, s, r) \/ RevokeSession(c, s, r)
      PROVE  \E o : Proceed(c, o) /\ Fits(o)
  <2>1. Live \subseteq Stored /\ Listed(now) \subseteq Stored
    BY DEF Live, Stored, Listed
  <2> QED
    BY <1>3, <1>8, <2>1 DEF LogoutByToken, RevokeSession, Fits, Sends, Names
<1>9. PICK o : Proceed(c, o) /\ Fits(o)
  BY <1>5, <1>6, <1>7, <1>8 DEF Request
<1>10. \A d \in Clients : Fits(op'[d])
  BY <1>9, AllFit
<1> QED
  BY <1>1, <1>2, <1>10, TokenMoves

LEMMA StepTokens ==
  ASSUME Leeway <= Margin, IInv, TokenInv, NEW c \in Clients, Step(c)
  PROVE  TokenInv' /\ TokenStep
<1>1. /\ TypeOK /\ VictimsStored /\ now \in Nat /\ Second(now) \in Nat /\ cutoff.second \in Nat
      /\ Live \subseteq Stored
  BY Seconds DEF IInv, TypeOK, Live, Stored
<1>2. CASE StartSession(c)
  <2> DEFINE n == op[c].new
             V == op[c].victims
             b == op[c].began
             state == IF n \in V THEN "revoked" ELSE "live"
  <2>1. op[c] \in TrimmedType /\ Holds(c)
    BY <1>1, <1>2, OpTyped DEF StartSession, At, Holds
  <2>2. n \in SessionIds \ Stored /\ NewRow(n, V, state, n, b)
    BY <1>1, <1>2, <2>1 DEF IInv, NewApart, VictimsStored, StartSession, TrimmedType, NewRow
  <2>3. issued' = [issued EXCEPT ![n] = Second(now)] /\ UNCHANGED <<now, redis>>
    BY <1>2 DEF StartSession
  <2>4. \A d \in Clients : Fits(op'[d])
    BY <1>2, AllFit DEF StartSession, Fits, Sends, Names
  <2> HIDE DEF n, V, b, state
  <2>5. Stored' = Stored \union {n}
    BY <2>2, NewRowAt
  <2> QED
    BY <2>2, <2>3, <2>4, <2>5, TokenInserts
<1>3. CASE RotateSession(c)
  <2> DEFINE n == op[c].new
             old == op[c].session
             b == op[c].began
             f == row[old].family
  <2>1. op[c] \in RotatingType /\ Holds(c)
    BY <1>1, <1>3, OpTyped DEF RotateSession, At, Holds
  <2>2. UNCHANGED <<now, redis>> /\ \A d \in Clients : Fits(op'[d])
    BY <1>3, AllFit DEF RotateSession, Fits, Sends, Names
  <2>3. CASE ~StillLive(old)
    <3>1. UNCHANGED <<issued, redis>> /\ row' = row /\ now' = now
      BY <1>3, <2>2, <2>3 DEF RotateSession
    <3>2. \A d \in Clients : Fits(op'[d])
      BY <2>2 DEF Fits, Sends, Names
    <3> QED
      BY <3>1, <3>2, TokenMoves
  <2>4. CASE StillLive(old)
    <3>1. n \in SessionIds \ Stored /\ old \in SessionIds /\ f \in SessionIds /\ b \in Nat
      BY <1>1, <2>1 DEF IInv, NewApart, RotatingType, TypeOK
    <3>2. NewRow(n, {old}, "live", f, b)
      BY <1>3, <2>4, <3>1 DEF RotateSession, StillLive, Stored, NewRow
    <3>3. issued' = [issued EXCEPT ![n] = Second(now)]
      BY <1>3, <2>4 DEF RotateSession
    <3> HIDE DEF n, old, b, f
    <3>4. Stored' = Stored \union {n}
      BY <3>2, NewRowAt
    <3> QED
      BY <2>2, <3>1, <3>3, <3>4, TokenInserts
  <2> QED
    BY <2>3, <2>4
<1>4. CASE DenySession(c)
  BY <1>4, DenyTokens
<1>5. CASE RevokeAllForUser(c)
  BY <1>5, CutoffTokens
<1>6. CASE \/ \E s \in SessionIds : CreateSession(c, s) \/ OpenRotation(c, s)
           \/ TrimSessions(c) \/ SweepRows(c) \/ CommitSweep(c) \/ BurnFails(c)
           \/ ReadCutoff(c) \/ EndSession(c) \/ Abort(c)
  <2>1. UNCHANGED <<issued, redis>> /\ (now' = now \/ now' = now + 1)
    BY <1>6 DEF CreateSession, OpenRotation, TrimSessions, SweepRows, CommitSweep, BurnFails,
                ReadCutoff, EndSession, Abort, Begin, tables
  <2>2. row' = row \/ \E R \in SUBSET Stored : row' = Revoked(R)
    <3>1. CASE CommitSweep(c)
      <4>1. op[c].victims \in SUBSET Stored /\ row' = Revoked(op[c].victims)
        BY <1>1, <3>1 DEF CommitSweep, VictimsStored
      <4> QED
        BY <4>1
    <3>2. CASE EndSession(c)
      <4> DEFINE R == {op[c].session} \intersect Live
      <4>1. R \in SUBSET Stored /\ row' = Revoked(R)
        BY <1>1, <3>2 DEF EndSession
      <4> HIDE DEF R
      <4> QED
        BY <4>1
    <3> QED
      BY <1>6, <3>1, <3>2 DEF CreateSession, OpenRotation, TrimSessions, SweepRows, BurnFails,
                              ReadCutoff, Abort, tables
  <2>3. (\E s \in SessionIds : CreateSession(c, s) \/ OpenRotation(c, s))
          => \E o : Proceed(c, o) /\ Fits(o)
    BY DEF CreateSession, OpenRotation, Fits, Sends, Names
  <2>4. TrimSessions(c) \/ SweepRows(c) \/ BurnFails(c) \/ Abort(c)
          => \E o : Proceed(c, o) /\ Fits(o)
    BY DEF TrimSessions, SweepRows, BurnFails, Abort, Fits, Sends, Names
  <2>5. CommitSweep(c) => \E o : Proceed(c, o) /\ Fits(o)
    BY DEF CommitSweep, AfterSweep, Fits, Sends, Names
  <2>6. ReadCutoff(c) => \E o : Proceed(c, o) /\ Fits(o)
    <3> DEFINE o == [at |-> "send", kind |-> op[c].kind, second |-> Second(now)]
    <3>1. Second(now) \in 0..Second(now)
      BY <1>1
    <3>2. Fits(o)
      BY <3>1 DEF Fits, Sends, Names
    <3> QED
      BY <3>2 DEF ReadCutoff
  <2>7. EndSession(c) => \E o : Proceed(c, o) /\ Fits(o)
    <3> SUFFICES ASSUME EndSession(c) PROVE \E o : Proceed(c, o) /\ Fits(o)
      OBVIOUS
    <3>1. op[c].session \in Stored
      BY DEF EndSession, At, TokenInv, Fits, Names
    <3> DEFINE s == op[c].session
               o == IF At(c, "revoke") /\ s \notin Live THEN None
                    ELSE [at |-> "deny", session |-> s]
    <3>2. Fits(o)
      BY <3>1 DEF Fits, Sends, Names
    <3>3. Proceed(c, o)
      BY DEF EndSession
    <3> HIDE DEF o
    <3> QED
      BY <3>2, <3>3
  <2>8. PICK o : Proceed(c, o) /\ Fits(o)
    BY <1>6, <2>3, <2>4, <2>5, <2>6, <2>7
  <2>9. \A d \in Clients : Fits(op'[d])
    BY <2>8, AllFit
  <2> QED
    BY <2>1, <2>2, <2>9, TokenMoves
<1> QED
  BY <1>2, <1>3, <1>4, <1>5, <1>6 DEF Step

LEMMA NextTokens ==
  ASSUME Leeway <= Margin
  PROVE  IInv /\ TokenInv /\ [Next]_vars => TokenInv' /\ TokenStep
<1> SUFFICES ASSUME IInv, TokenInv, [Next]_vars PROVE TokenInv' /\ TokenStep
  OBVIOUS
<1>2. ASSUME UNCHANGED <<tables, redis, op>>, now' = now \/ now' = now + 1
      PROVE  TokenInv' /\ TokenStep
  <2>1. \A d \in Clients : Fits(op'[d])
    BY <1>2 DEF TokenInv
  <2> QED
    BY <1>2, <2>1, TokenMoves DEF tables
<1>3. CASE Tick \/ UNCHANGED vars
  BY <1>2, <1>3 DEF Tick, vars, tables, redis
<1>4. ASSUME NEW c \in Clients, Request(c) \/ Step(c)
      PROVE  TokenInv' /\ TokenStep
  BY <1>4, RequestTokens, StepTokens
<1> QED
  BY <1>3, <1>4 DEF Next

LEMMA InitTokens == Init => TokenInv
<1> SUFFICES ASSUME Init PROVE TokenInv
  OBVIOUS
<1>1. Stored = {} /\ cutoff.second = 0 /\ now = 1 /\ Second(now) \in Nat
  BY Seconds DEF Init, Stored, Row
<1>2. \A s \in SessionIds : denied[s] = 0
  BY DEF Init
<1>3. \A c \in Clients : op[c] = None
  BY DEF Init
<1> QED
  BY <1>1, <1>2, <1>3 DEF TokenInv, Fits, Sends, Names

(* TokenInv holds in every reachable state, whatever overlaps.             *)
LEMMA TokensInductive == ASSUME Leeway <= Margin PROVE Spec => []TokenInv
<1>1. IInv /\ TokenInv /\ [Next]_vars => TokenInv'
  BY NextTokens
<1> QED
  BY <1>1, InitTokens, SessionsInductive, PTL DEF Spec

(* However many requests are under way, a refused token is accepted again  *)
(* only where a cutoff replaces a later one.                               *)
OlderCutoffsRevive ==
  [][\A s \in Stored : ~Accepted(s) /\ Accepted(s)' => cutoff'.second < cutoff.second]_vars

(* However many requests are under way, the one thing that makes a refused *)
(* token good again is a cutoff that replaces a later one: the entries of  *)
(* the denylist and the cutoff outlive the tokens they take back, as long  *)
(* as the margin they are kept for (a minute) is no shorter than the       *)
(* leeway of the verifier (half a minute).                                 *)
THEOREM RevivedByOlderCutoffs == ASSUME Leeway <= Margin PROVE Spec => OlderCutoffsRevive
<1> DEFINE Revived ==
      \A s \in Stored : ~Accepted(s) /\ Accepted(s)' => cutoff'.second < cutoff.second
<1>1. IInv /\ TokenInv /\ [Next]_vars => Revived
  <2> SUFFICES ASSUME IInv, TokenInv, [Next]_vars,
                      NEW s \in Stored, ~Accepted(s), Accepted(s)'
               PROVE  cutoff'.second < cutoff.second
    OBVIOUS
  <2>1. TypeOK'
    BY NextIInv DEF IInv
  <2> QED
    BY <2>1, NextTokens, RefusedSteps
<1>2. IInv /\ TokenInv /\ [Next]_vars => [Revived]_vars
  BY <1>1
<1> QED
  BY <1>2, TokensInductive, SessionsInductive, PTL DEF Spec, OlderCutoffsRevive

\* No two cutoffs are on their way to Redis at once.
CutoffsApart == \A c, d \in Clients : At(c, "send") /\ At(d, "send") => c = d

\* The cutoff that is sent is not older than the one that is there.
CutoffsInOrder == \A c \in Clients : At(c, "send") => cutoff.second <= op[c].second

LEMMA NextCutoffs ==
  ASSUME IInv, TokenInv, CutoffsApart, CutoffsInOrder, [Next]_vars
  PROVE  CutoffsInOrder' /\ cutoff.second <= cutoff'.second
<1>1. /\ cutoff.second \in Nat /\ Second(now) \in Nat /\ cutoff.second <= Second(now)
      /\ op \in [Clients -> OpType]
  BY Seconds DEF IInv, TypeOK, TokenInv
<1>2. ASSUME NEW c \in Clients, RevokeAllForUser(c)
      PROVE  CutoffsInOrder' /\ cutoff.second <= cutoff'.second
  <2>1. cutoff'.second = op[c].second /\ At(c, "send") /\ op' = [op EXCEPT ![c] = None]
    BY <1>2 DEF RevokeAllForUser, Proceed
  <2>2. \A d \in Clients : ~At(d, "send")'
    BY <1>1, <2>1 DEF CutoffsApart, At
  <2> QED
    BY <2>1, <2>2 DEF CutoffsInOrder
<1>3. ASSUME NEW c \in Clients, ReadCutoff(c)
      PROVE  CutoffsInOrder' /\ cutoff.second <= cutoff'.second
  <2>1. /\ cutoff' = cutoff
        /\ op' = [op EXCEPT ![c] = [at |-> "send", kind |-> op[c].kind, second |-> Second(now)]]
    BY <1>3 DEF ReadCutoff, Proceed, redis
  <2>2. op'[c].second = Second(now) /\ \A d \in Clients \ {c} : op'[d] = op[d]
    BY <1>1, <2>1
  <2> QED
    BY <1>1, <2>1, <2>2 DEF CutoffsInOrder, At
<1>4. CASE UNCHANGED cutoff /\ \A d \in Clients : At(d, "send")' => op'[d] = op[d]
  BY <1>1, <1>4 DEF CutoffsInOrder, At
<1>5. ASSUME NEW c \in Clients, Request(c) \/ Step(c), ~ReadCutoff(c), ~RevokeAllForUser(c)
      PROVE  UNCHANGED cutoff /\ \A d \in Clients : At(d, "send")' => op'[d] = op[d]
  <2>1. UNCHANGED cutoff
    BY <1>5 DEF Request, Login, ResetPassword, Refresh, RefreshReused, Logout, LogoutAll,
         ChangePassword, DeleteAccount, LogoutByToken, RevokeSession, OpenSweep, Begin,
         Step, CreateSession, OpenRotation, TrimSessions, StartSession, RotateSession,
         SweepRows, CommitSweep, BurnFails, DenySession, EndSession, Abort, redis
  <2>2. PICK o : Proceed(c, o) /\ (o = None \/ o.at # "send")
    <3>1. ASSUME NEW kind, NEW s, OpenSweep(c, kind, s)
          PROVE  \E o : Proceed(c, o) /\ o.at # "send"
      BY <3>1 DEF OpenSweep
    <3>2. CASE Request(c)
      <4>1. Login(c) \/ ResetPassword(c) => \E o : Proceed(c, o) /\ o.at # "send"
        BY <3>1 DEF Login, ResetPassword
      <4>2. ASSUME NEW s \in SessionIds,
                   \/ Refresh(c, s) \/ RefreshReused(c, s) \/ Logout(c, s)
                   \/ LogoutAll(c, s) \/ ChangePassword(c, s) \/ DeleteAccount(c, s)
            PROVE  \E o : Proceed(c, o) /\ o.at # "send"
        BY <3>1, <4>2 DEF Refresh, RefreshReused, Logout, LogoutAll, ChangePassword, DeleteAccount
      <4>3. ASSUME NEW s \in SessionIds, NEW r \in SessionIds,
                   LogoutByToken(c, s, r) \/ RevokeSession(c, s, r)
            PROVE  \E o : Proceed(c, o) /\ o.at # "send"
        BY <4>3 DEF LogoutByToken, RevokeSession
      <4> QED
        BY <3>2, <4>1, <4>2, <4>3 DEF Request
    <3>3. CASE CommitSweep(c)
      BY <3>3 DEF CommitSweep, AfterSweep
    <3>4. CASE EndSession(c)
      <4> DEFINE p == IF At(c, "revoke") /\ op[c].session \notin Live THEN None
                      ELSE [at |-> "deny", session |-> op[c].session]
      <4>1. Proceed(c, p)
        BY <3>4 DEF EndSession
      <4>2. p = None \/ p.at # "send"
        OBVIOUS
      <4> HIDE DEF p
      <4> QED
        BY <4>1, <4>2
    <3>5. CASE SweepRows(c)
      <4> DEFINE p == [at |-> "swept", kind |-> op[c].kind, session |-> op[c].session,
                       began |-> op[c].began, victims |-> Swept(op[c].kind, op[c].session)]
      <4>1. Proceed(c, None) \/ Proceed(c, p)
        BY <3>5 DEF SweepRows
      <4>2. p.at # "send"
        OBVIOUS
      <4> HIDE DEF p
      <4> QED
        BY <4>1, <4>2
    <3>6. CASE \E s \in SessionIds : CreateSession(c, s) \/ OpenRotation(c, s)
      BY <3>6 DEF CreateSession, OpenRotation
    <3>7. CASE TrimSessions(c) \/ BurnFails(c)
      BY <3>7 DEF TrimSessions, BurnFails
    <3>8. CASE StartSession(c) \/ RotateSession(c) \/ DenySession(c) \/ Abort(c)
      BY <3>8 DEF StartSession, RotateSession, DenySession, Abort
    <3> QED
      BY <1>5, <3>2, <3>3, <3>4, <3>5, <3>6, <3>7, <3>8 DEF Step
  <2>3. ASSUME NEW d \in Clients, At(d, "send")'
        PROVE  op'[d] = op[d]
    <3>1. op'[c] = o /\ (d # c => op'[d] = op[d])
      BY <1>1, <2>2 DEF Proceed
    <3> QED
      BY <2>2, <2>3, <3>1 DEF At
  <2> QED
    BY <2>1, <2>3
<1> QED
  BY <1>2, <1>3, <1>4, <1>5 DEF Next, Tick, vars, redis

(* Where no two cutoffs are on their way at once, among any number of      *)
(* other requests, a refused token is refused until it expires.            *)
THEOREM TakenBackForGood ==
  ASSUME Leeway <= Margin
  PROVE  Spec /\ []CutoffsApart => RefusedStaysRefused
<1> DEFINE Refused == \A s \in Stored : ~Accepted(s) => ~Accepted(s)'
<1>1. Init => CutoffsInOrder
  BY DEF Init, CutoffsInOrder, At
<1>2. IInv /\ TokenInv /\ CutoffsApart /\ CutoffsInOrder /\ [Next]_vars => CutoffsInOrder'
  BY NextCutoffs
<1>3. IInv /\ TokenInv /\ CutoffsApart /\ CutoffsInOrder /\ [Next]_vars => [Refused]_vars
  <2> SUFFICES ASSUME IInv, TokenInv, CutoffsApart, CutoffsInOrder, [Next]_vars,
                      NEW s \in Stored, ~Accepted(s), Accepted(s)'
               PROVE  FALSE
    OBVIOUS
  <2>1. TypeOK'
    BY NextIInv DEF IInv
  <2>2. cutoff'.second < cutoff.second
    BY <2>1, NextTokens, RefusedSteps
  <2>3. cutoff.second <= cutoff'.second /\ cutoff.second \in Nat /\ cutoff'.second \in Nat
    BY <2>1, NextCutoffs DEF IInv, TypeOK
  <2> QED
    BY <2>2, <2>3
<1> QED
  BY <1>1, <1>2, <1>3, TokensInductive, SessionsInductive, PTL DEF Spec, RefusedStaysRefused
=============================================================================
