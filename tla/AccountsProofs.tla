--------------------------- MODULE AccountsProofs ---------------------------
(***************************************************************************)
(* Theorems about Accounts, for any number of codes, passwords and         *)
(* clients, and any cooldown, quota, lifetime and limits.                  *)
(*                                                                         *)
(* What a SaveOTP under way has seen is every older code that still works  *)
(* (SeenAll), so the code it sends leaves none of them; a code's guesses   *)
(* are its attempts as long as it works (TriesCounted); and the counter of *)
(* the users row is the number of wrong passwords (FailuresCounted).       *)
(* QuotaInv counts, for every window, the codes dated in it together with  *)
(* the requests about to date one in it.                                   *)
(***************************************************************************)
EXTENDS Accounts, FiniteSetTheorems, TLAPS

TriesCounted ==
  \A k \in Codes :
    /\ code[k].state = "live" => code[k].guessed = code[k].tries
    /\ code[k].state = "none" => code[k].guessed = 0

\* Nothing was sent or begun after now.
NotAhead ==
  /\ \A k \in Codes : code[k].state = "live" => code[k].at <= now
  /\ \A c \in Clients : At(c, "saving") => op[c].began <= now

SeenAll ==
  \A c \in Clients : At(c, "saving") =>
    \A k \in Live(op[c].purpose) : code[k].saved < op[c].began => k \in op[c].seen

CodesInOrder == TriesCounted /\ NotAhead /\ SeenAll /\ SupersededDead

\* The number was verified, or is about to be.
Verifies ==
  user.verified \/ signedIn \/ \E c \in Clients : At(c, "verifying") \/ At(c, "signing")

Entered == \E k \in Codes : code[k].purpose = "register" /\ code[k].state = "used"

Proven == Verifies => Entered

FailuresCounted == user.failed = wrong.n /\ BurstLocks

IInv == TypeOK /\ CodesInOrder /\ Proven /\ FailuresCounted
-----------------------------------------------------------------------------
(* Rows and requests.                                                      *)

UserRow == [state : {"none", "active", "closed"}, verified : BOOLEAN, password : Passwords,
            stale : BOOLEAN, failed : Nat, lockedUntil : Nat]

CodeRow == [state : {"none", "live", "used", "void"}, purpose : Purposes,
            at : Nat, saved : Nat, tries : Nat, guessed : Nat]

LEMMA Constants == /\ LoginLockWindow \in Nat /\ TTL \in Nat /\ Cooldown \in Nat
                   /\ MaxVerifyTries \in Nat \ {0} /\ MaxLoginAttempts \in Nat \ {0}
BY AccountsAssumption

\* A request of one client goes on.
LEMMA Proceeds ==
  ASSUME TypeOK, NEW c \in Clients, NEW o \in Ops, Proceed(c, o)
  PROVE  /\ op' \in [Clients -> Ops] /\ op'[c] = o
         /\ \A d \in Clients \ {c} : op'[d] = op[d]
BY DEF TypeOK, Proceed

LEMMA NoneIsOp == None \in Ops
BY DEF Ops

LEMMA OpShapes ==
  ASSUME TypeOK, NEW c \in Clients
  PROVE  /\ At(c, "asking") \/ At(c, "issuing") =>
              op[c] \in [at : {"asking", "issuing"}, purpose : Purposes]
         /\ At(c, "saving") =>
              op[c] \in [at : {"saving"}, purpose : Purposes, seen : SUBSET Codes, began : Nat]
         /\ At(c, "changing") => op[c] \in [at : {"changing"}, password : Passwords]
         /\ At(c, "failing") => op[c] \in [at : {"failing"}, failed : Nat]
         /\ At(c, "signing") =>
              op[c] \in [at : {"signing"}, login : {FALSE}]
                        \union [at : {"signing", "stamping", "rehashing"}, login : {TRUE},
                                password : Passwords, stale : BOOLEAN]
         /\ At(c, "stamping") \/ At(c, "rehashing") =>
              op[c] \in [at : {"signing", "stamping", "rehashing"}, login : {TRUE},
                         password : Passwords, stale : BOOLEAN]
<1>1. op[c] \in Ops
  BY DEF TypeOK
<1>2. QED
  BY <1>1 DEF Ops, At

\* No request begins to save a code, and no code changes.
LEMMA OrderKept ==
  ASSUME CodesInOrder, UNCHANGED <<now, code>>,
         \A c \in Clients : At(c, "saving")' => op'[c] = op[c]
  PROVE  CodesInOrder'
<1>1. TriesCounted' /\ SupersededDead'
  BY DEF CodesInOrder, TriesCounted, SupersededDead, Live, Sent
<1>2. \A c \in Clients : At(c, "saving")' => At(c, "saving") /\ op'[c] = op[c]
  BY DEF At
<1>3. NotAhead'
  BY <1>2 DEF CodesInOrder, NotAhead
<1>4. SeenAll'
  BY <1>2 DEF CodesInOrder, SeenAll, Live, Sent
<1>5. QED
  BY <1>1, <1>3, <1>4 DEF CodesInOrder

LEMMA ProvenKept ==
  ASSUME Proven, UNCHANGED code, Verifies' => Verifies
  PROVE  Proven'
BY DEF Proven, Entered

LEMMA FailuresKept ==
  ASSUME FailuresCounted, UNCHANGED wrong,
         user'.failed = user.failed, user'.lockedUntil = user.lockedUntil
  PROVE  FailuresCounted'
BY DEF FailuresCounted, BurstLocks
-----------------------------------------------------------------------------
(* Steps that only a request makes.                                        *)

LEMMA OnlyAsks ==
  ASSUME IInv, NEW c \in Clients, NEW o \in Ops, Proceed(c, o), requests' \in Nat,
         UNCHANGED <<now, user, code, signedIn, wrong>>,
         o = None \/ o.at \notin {"saving", "verifying"},
         o = None \/ o.at # "signing" \/ Verifies
  PROVE  IInv'
<1>1. /\ op' \in [Clients -> Ops] /\ op'[c] = o
      /\ \A d \in Clients \ {c} : op'[d] = op[d]
  BY Proceeds DEF IInv
<1>2. TypeOK'
  BY <1>1 DEF IInv, TypeOK
<1>3. CodesInOrder'
  BY <1>1, OrderKept DEF IInv, At
<1>4. Verifies' => Verifies
  BY <1>1 DEF Verifies, At
<1>5. Proven'
  BY <1>4, ProvenKept DEF IInv
<1>6. FailuresCounted'
  BY FailuresKept DEF IInv
<1>7. QED
  BY <1>2, <1>3, <1>5, <1>6 DEF IInv

LEMMA Begins ==
  ASSUME IInv, NEW c \in Clients, Begin(c)
  PROVE  requests' \in Nat
BY DEF Begin, IInv, TypeOK

LEMMA RequestSteps ==
  ASSUME IInv, NEW c \in Clients,
         \/ DropRequest(c) \/ CheckQuota(c)
         \/ \E p \in Purposes : RequestCode(c, p)
         \/ \E pw \in Passwords \union {None} : Login(c, pw)
         \/ \E current, pw \in Passwords : ChangePassword(c, current, pw)
         \/ \E pw \in Passwords : DeleteAccount(c, pw)
  PROVE  IInv'
<1> USE NoneIsOp
<1>1. CASE DropRequest(c)
  BY <1>1, OnlyAsks DEF DropRequest, Done, IInv, TypeOK
<1>2. CASE CheckQuota(c)
  <2>1. PICK lastRead \in BOOLEAN :
          Proceed(c, IF MayIssue(op[c].purpose, lastRead)
                     THEN [op[c] EXCEPT !.at = "issuing"] ELSE None)
    BY <1>2 DEF CheckQuota
  <2> DEFINE o == IF MayIssue(op[c].purpose, lastRead)
                  THEN [op[c] EXCEPT !.at = "issuing"] ELSE None
  <2>2. o \in Ops /\ (o = None \/ o.at = "issuing")
    BY <1>2, OpShapes DEF CheckQuota, Ops, IInv
  <2>3. QED
    BY <1>2, <2>1, <2>2, OnlyAsks DEF CheckQuota, IInv, TypeOK
<1>3. ASSUME NEW p \in Purposes, RequestCode(c, p) PROVE IInv'
  <2>1. Asking(p) \in Ops /\ Asking(p).at = "asking"
    BY DEF Asking, Ops
  <2>2. QED
    BY <1>3, <2>1, OnlyAsks, Begins DEF RequestCode
<1>4. ASSUME NEW pw \in Passwords \union {None}, Login(c, pw) PROVE IInv'
  <2> DEFINE failing == [at |-> "failing", failed |-> user.failed]
             signing == [at |-> "signing", login |-> TRUE, password |-> pw,
                         stale |-> user.stale]
  <2>1. user \in UserRow
    BY DEF IInv, TypeOK, UserRow
  <2>2. CASE pw # user.password
    <3>1. failing \in Ops /\ failing.at = "failing" /\ Proceed(c, failing)
      BY <1>4, <2>1, <2>2 DEF Login, Ops, UserRow
    <3>2. QED
      BY <1>4, <3>1, OnlyAsks, Begins DEF Login
  <2>3. CASE pw = user.password /\ ~user.verified
    <3>1. Asking("register") \in Ops /\ Asking("register").at = "asking"
      BY DEF Asking, Ops, Purposes
    <3>2. QED
      BY <1>4, <2>3, <3>1, OnlyAsks, Begins DEF Login
  <2>4. CASE pw = user.password /\ user.verified
    <3>1. signing \in Ops /\ signing.at = "signing" /\ Proceed(c, signing)
      BY <1>4, <2>1, <2>4 DEF Login, Ops, UserRow
    <3>2. Verifies
      BY <2>4 DEF Verifies
    <3>3. QED
      BY <1>4, <3>1, <3>2, OnlyAsks, Begins DEF Login
  <2>5. QED
    BY <2>1, <2>2, <2>3, <2>4 DEF UserRow
<1>5. ASSUME NEW current \in Passwords, NEW pw \in Passwords, ChangePassword(c, current, pw)
      PROVE  IInv'
  <2> DEFINE o == [at |-> "changing", password |-> pw]
  <2>1. o \in Ops /\ o.at = "changing"
    BY DEF Ops
  <2>2. QED
    BY <1>5, <2>1, OnlyAsks, Begins DEF ChangePassword
<1>6. ASSUME NEW pw \in Passwords, DeleteAccount(c, pw) PROVE IInv'
  <2>1. [at |-> "deleting"] \in Ops
    BY DEF Ops
  <2>2. QED
    BY <1>6, <2>1, OnlyAsks, Begins DEF DeleteAccount
<1>7. QED
  BY <1>1, <1>2, <1>3, <1>4, <1>5, <1>6
-----------------------------------------------------------------------------
(* Steps that write the users row, or start a session.                     *)

\* The row is written; the request goes on to something the row allows.
LEMMA UserWritten ==
  ASSUME IInv, NEW c \in Clients, NEW o \in Ops, Proceed(c, o), requests' \in Nat,
         UNCHANGED <<now, code>>, user' \in UserRow, signedIn' \in BOOLEAN,
         wrong' \in [n : Nat, at : Nat],
         o = None \/ o.at \notin {"saving", "verifying"},
         user'.verified \/ signedIn' \/ (o # None /\ o.at = "signing") => Verifies,
         FailuresCounted'
  PROVE  IInv'
<1>1. /\ op' \in [Clients -> Ops] /\ op'[c] = o
      /\ \A d \in Clients \ {c} : op'[d] = op[d]
  BY Proceeds DEF IInv
<1>2. TypeOK'
  BY <1>1 DEF IInv, TypeOK, UserRow
<1>3. CodesInOrder'
  BY <1>1, OrderKept DEF IInv, At
<1>4. Verifies' => Verifies
  BY <1>1 DEF Verifies, At
<1>5. Proven'
  BY <1>4, ProvenKept DEF IInv
<1>6. QED
  BY <1>2, <1>3, <1>5 DEF IInv

LEMMA Cleared ==
  ASSUME TypeOK, user'.failed = 0, wrong' = NoGuess
  PROVE  FailuresCounted' /\ wrong' \in [n : Nat, at : Nat]
BY Constants DEF FailuresCounted, BurstLocks, NoGuess

LEMMA Failed ==
  ASSUME IInv, NEW c \in Clients, RecordLoginFailure(c)
  PROVE  IInv'
<1>1. user \in UserRow /\ wrong \in [n : Nat, at : Nat] /\ now \in Nat
  BY DEF IInv, TypeOK, UserRow
<1> DEFINE f == user.failed + 1
           l == IF f >= MaxLoginAttempts THEN now + LoginLockWindow ELSE user.lockedUntil
<1>2. /\ user' \in UserRow /\ user'.failed = f /\ user'.verified = user.verified
      /\ user'.lockedUntil = l /\ wrong' = [n |-> wrong.n + 1, at |-> now]
  <2>1. f \in Nat /\ l \in Nat
    BY <1>1, Constants DEF UserRow
  <2>2. /\ user' = [user EXCEPT !.failed = f, !.lockedUntil = l]
        /\ wrong' = [n |-> wrong.n + 1, at |-> now]
    BY DEF RecordLoginFailure, Counted
  <2> HIDE DEF f, l
  <2>3. QED
    BY <1>1, <2>1, <2>2 DEF UserRow
<1>3. FailuresCounted'
  BY <1>1, <1>2 DEF IInv, FailuresCounted, BurstLocks
<1>4. user'.verified \/ signedIn' => Verifies
  BY <1>2 DEF RecordLoginFailure, Verifies
<1>5. QED
  BY <1>1, <1>2, <1>3, <1>4, UserWritten, NoneIsOp
     DEF RecordLoginFailure, Done, IInv, TypeOK

LEMMA UserSteps ==
  ASSUME IInv, NEW c \in Clients,
         \/ MarkPhoneVerified(c) \/ RecordLoginSuccess(c) \/ RehashPassword(c)
         \/ UpdatePassword(c) \/ SoftDelete(c) \/ StartSession(c)
         \/ \E pw \in Passwords : Register(c, pw)
  PROVE  IInv'
<1> USE NoneIsOp
<1>1. /\ user \in UserRow /\ wrong \in [n : Nat, at : Nat] /\ signedIn \in BOOLEAN
      /\ requests \in Nat
  BY DEF IInv, TypeOK, UserRow
<1>2. CASE MarkPhoneVerified(c) /\ Registered
  <2> DEFINE o == [at |-> "signing", login |-> FALSE]
  <2>1. o \in Ops /\ o.at = "signing" /\ Proceed(c, o)
    BY <1>2 DEF MarkPhoneVerified, Ops
  <2>2. /\ user' \in UserRow /\ user'.failed = user.failed
        /\ user'.lockedUntil = user.lockedUntil /\ UNCHANGED <<wrong, now, code, signedIn, requests>>
    BY <1>1, <1>2 DEF MarkPhoneVerified, UserRow
  <2>3. Verifies
    BY <1>2 DEF MarkPhoneVerified, Verifies
  <2>4. FailuresCounted'
    BY <2>2, FailuresKept DEF IInv
  <2>5. QED
    BY <1>1, <2>1, <2>2, <2>3, <2>4, UserWritten
<1>3. CASE MarkPhoneVerified(c) /\ ~Registered
  BY <1>3, OnlyAsks DEF MarkPhoneVerified, Done, IInv, TypeOK
<1>4. CASE RecordLoginSuccess(c)
  <2> DEFINE o == IF op[c].stale THEN [op[c] EXCEPT !.at = "rehashing"] ELSE None
  <2>1. o \in Ops /\ (o = None \/ o.at = "rehashing") /\ Proceed(c, o)
    BY <1>4, OpShapes DEF RecordLoginSuccess, Ops, IInv
  <2>2. user' \in UserRow /\ user'.failed = 0 /\ user'.verified = user.verified
    BY <1>1, <1>4 DEF RecordLoginSuccess, Forgiven, UserRow
  <2>3. FailuresCounted' /\ wrong' \in [n : Nat, at : Nat]
    BY <1>4, <2>2, Cleared DEF RecordLoginSuccess, IInv
  <2>4. user'.verified \/ signedIn' => Verifies
    BY <1>4, <2>2 DEF RecordLoginSuccess, Verifies
  <2>5. QED
    BY <1>1, <1>4, <2>1, <2>2, <2>3, <2>4, UserWritten DEF RecordLoginSuccess
<1>5. CASE RehashPassword(c)
  <2>1. op[c].password \in Passwords
    BY <1>5, OpShapes DEF RehashPassword, IInv
  <2>2. /\ user' \in UserRow /\ user'.failed = user.failed
        /\ user'.lockedUntil = user.lockedUntil /\ user'.verified = user.verified
    BY <1>1, <1>5, <2>1 DEF RehashPassword, UserRow
  <2>3. FailuresCounted'
    BY <1>5, <2>2, FailuresKept DEF IInv, RehashPassword
  <2>4. user'.verified \/ signedIn' => Verifies
    BY <1>5, <2>2 DEF RehashPassword, Verifies
  <2>5. QED
    BY <1>1, <1>5, <2>2, <2>3, <2>4, UserWritten DEF RehashPassword, Done
<1>6. CASE UpdatePassword(c) /\ Registered
  <2>1. op[c].password \in Passwords
    BY <1>6, OpShapes DEF UpdatePassword, IInv
  <2>2. user' \in UserRow /\ user'.failed = 0 /\ user'.verified = user.verified
    <3>1. /\ Forgiven(user) \in UserRow /\ Forgiven(user).failed = 0
          /\ Forgiven(user).verified = user.verified
      BY <1>1 DEF Forgiven, UserRow
    <3>2. user' = [Forgiven(user) EXCEPT !.password = op[c].password, !.stale = FALSE]
      BY <1>6 DEF UpdatePassword
    <3>3. QED
      BY <2>1, <3>1, <3>2 DEF UserRow
  <2>3. FailuresCounted' /\ wrong' \in [n : Nat, at : Nat]
    BY <1>6, <2>2, Cleared DEF UpdatePassword, IInv
  <2>4. user'.verified \/ signedIn' => Verifies
    BY <1>6, <2>2 DEF UpdatePassword, Verifies
  <2>5. QED
    BY <1>1, <1>6, <2>2, <2>3, <2>4, UserWritten DEF UpdatePassword, Done
<1>7. CASE UpdatePassword(c) /\ ~Registered
  BY <1>7, OnlyAsks DEF UpdatePassword, Done, IInv, TypeOK
<1>8. CASE SoftDelete(c)
  <2>1. /\ user' \in UserRow /\ user'.failed = user.failed
        /\ user'.lockedUntil = user.lockedUntil /\ user'.verified = user.verified
    BY <1>1, <1>8 DEF SoftDelete, UserRow
  <2>2. FailuresCounted'
    BY <1>8, <2>1, FailuresKept DEF IInv, SoftDelete
  <2>3. user'.verified \/ signedIn' => Verifies
    BY <1>8, <2>1 DEF SoftDelete, Verifies
  <2>4. QED
    BY <1>1, <1>8, <2>1, <2>2, <2>3, UserWritten DEF SoftDelete, Done
<1>9. CASE StartSession(c)
  <2> DEFINE o == IF op[c].login THEN [op[c] EXCEPT !.at = "stamping"] ELSE None
  <2>1. o \in Ops /\ (o = None \/ o.at = "stamping") /\ Proceed(c, o)
    BY <1>9, OpShapes DEF StartSession, Ops, IInv
  <2>2. Verifies
    BY <1>9 DEF StartSession, Verifies
  <2>3. FailuresCounted'
    BY <1>9, FailuresKept DEF IInv, StartSession
  <2>4. QED
    BY <1>1, <1>9, <2>1, <2>2, <2>3, UserWritten DEF StartSession
<1>10. ASSUME NEW pw \in Passwords, Register(c, pw) PROVE IInv'
  <2>1. Asking("register") \in Ops /\ Asking("register").at = "asking"
    BY DEF Asking, Ops, Purposes
  <2>2. user' \in UserRow /\ user'.failed = 0 /\ user'.verified = FALSE
    BY <1>10 DEF Register, Unregistered, UserRow
  <2>3. FailuresCounted' /\ wrong' \in [n : Nat, at : Nat]
    BY <1>10, <2>2, Cleared DEF Register, IInv
  <2>4. user'.verified \/ signedIn' => Verifies
    BY <1>10, <2>2 DEF Register, Verifies
  <2>5. QED
    BY <1>1, <1>10, <2>1, <2>2, <2>3, <2>4, UserWritten, Begins DEF Register
<1>11. QED
  BY <1>2, <1>3, <1>4, <1>5, <1>6, <1>7, <1>8, <1>9, <1>10

LEMMA CostRaised ==
  ASSUME IInv, RaiseBcryptCost
  PROVE  IInv'
<1>1. /\ user' \in UserRow /\ user'.failed = user.failed
      /\ user'.lockedUntil = user.lockedUntil /\ user'.verified = user.verified
      /\ UNCHANGED <<now, code, signedIn, wrong, op, requests>>
  BY DEF RaiseBcryptCost, IInv, TypeOK, UserRow
<1>2. TypeOK'
  BY <1>1 DEF IInv, TypeOK, UserRow
<1>3. CodesInOrder'
  BY <1>1, OrderKept DEF IInv
<1>4. Proven'
  BY <1>1, ProvenKept DEF IInv, Verifies, At
<1>5. FailuresCounted'
  BY <1>1, FailuresKept DEF IInv
<1>6. QED
  BY <1>2, <1>3, <1>4, <1>5 DEF IInv
-----------------------------------------------------------------------------
(* Time and codes.                                                         *)

LEMMA Ticked ==
  ASSUME IInv, Tick
  PROVE  IInv'
<1>1. now' = now + 1 /\ UNCHANGED <<user, code, signedIn, wrong, op, requests>> /\ now \in Nat
  BY DEF Tick, IInv, TypeOK
<1>2. TypeOK'
  BY <1>1 DEF IInv, TypeOK
<1>3. ASSUME NEW p, NEW k \in Live(p)' PROVE k \in Live(p)
  BY <1>1, <1>3, Constants DEF Live, Sent, IInv, TypeOK
<1>4. TriesCounted' /\ SupersededDead'
  BY <1>1, <1>3 DEF IInv, CodesInOrder, TriesCounted, SupersededDead
<1>5. NotAhead'
  <2>1. \A k \in Codes : code[k].at \in Nat
    BY DEF IInv, TypeOK
  <2>2. \A c \in Clients : At(c, "saving") => op[c].began \in Nat
    BY OpShapes DEF IInv
  <2>3. QED
    BY <1>1, <2>1, <2>2 DEF IInv, CodesInOrder, NotAhead, At
<1>6. SeenAll'
  BY <1>1, <1>3 DEF IInv, CodesInOrder, SeenAll, At
<1>7. Proven' /\ FailuresCounted'
  BY <1>1 DEF IInv, Proven, Verifies, Entered, At, FailuresCounted, BurstLocks
<1>8. QED
  BY <1>2, <1>4, <1>5, <1>6, <1>7 DEF IInv, CodesInOrder

\* What the first statement of a SaveOTP withdraws is all that works.
LEMMA SaveBegun ==
  ASSUME IInv, NEW c \in Clients, SaveOTPBegin(c)
  PROVE  IInv'
<1> DEFINE o == [at |-> "saving", purpose |-> op[c].purpose,
                 seen |-> Withdrawn(op[c].purpose), began |-> now]
<1>1. UNCHANGED <<now, user, code, signedIn, wrong, requests>> /\ Proceed(c, o)
  BY DEF SaveOTPBegin
<1>2. o \in Ops /\ o.at = "saving"
  <2>1. op[c].purpose \in Purposes
    BY OpShapes DEF SaveOTPBegin, IInv
  <2>2. Withdrawn(op[c].purpose) \subseteq Codes
    BY DEF Withdrawn, Live, Sent
  <2>3. QED
    BY <2>1, <2>2 DEF Ops, IInv, TypeOK
<1>3. /\ op' \in [Clients -> Ops] /\ op'[c] = o
      /\ \A d \in Clients \ {c} : op'[d] = op[d]
  BY <1>1, <1>2, Proceeds DEF IInv
<1>4. TypeOK'
  BY <1>1, <1>3 DEF IInv, TypeOK
<1>5. TriesCounted' /\ SupersededDead'
  BY <1>1 DEF IInv, CodesInOrder, TriesCounted, SupersededDead, Live, Sent
<1>6. NotAhead'
  <2>1. o.began <= now
    BY DEF IInv, TypeOK
  <2>2. QED
    BY <1>1, <1>3, <2>1 DEF IInv, CodesInOrder, NotAhead, At
<1>7. SeenAll'
  <2>1. \A p : Live(p)' = Live(p)
    BY <1>1 DEF Live, Sent
  <2>2. o.seen = Live(o.purpose)
    BY DEF Withdrawn
  <2>3. QED
    BY <1>1, <1>3, <2>1, <2>2 DEF IInv, CodesInOrder, SeenAll, At
<1>8. Proven'
  BY <1>1, <1>2, <1>3, ProvenKept DEF IInv, Verifies, At
<1>9. FailuresCounted'
  BY <1>1, FailuresKept DEF IInv
<1>10. QED
  BY <1>4, <1>5, <1>6, <1>7, <1>8, <1>9 DEF IInv, CodesInOrder

LEMMA RowVoided ==
  ASSUME NEW row \in CodeRow
  PROVE  LET after == [row EXCEPT !.state = "void", !.saved = 0] IN
         /\ after \in CodeRow /\ after.state = "void" /\ after.at = row.at
         /\ after.guessed = row.guessed
BY DEF CodeRow

\* The other codes: those that were seen and still work are withdrawn.
LEMMA OthersWithdrawn ==
  ASSUME TypeOK, NEW c \in Clients, NEW k \in Codes, SaveOTPCommit(c, k), NEW j \in Codes \ {k}
  PROVE  /\ code'[j] \in CodeRow /\ code'[j].guessed = code[j].guessed
         /\ \/ code'[j] = code[j] /\ ~(j \in op[c].seen /\ code[j].state = "live")
            \/ code'[j].state = "void" /\ code'[j].at = code[j].at /\ code[j].state = "live"
<1>1. code[j] \in CodeRow
  BY DEF TypeOK, CodeRow
<1>2. code'[j] = IF j \in op[c].seen /\ code[j].state = "live"
                 THEN [code[j] EXCEPT !.state = "void", !.saved = 0] ELSE code[j]
  BY Zenon DEF SaveOTPCommit
<1>3. CASE j \in op[c].seen /\ code[j].state = "live"
  <2>1. code'[j] = [code[j] EXCEPT !.state = "void", !.saved = 0]
    BY <1>2, <1>3
  <2>2. QED
    BY <1>1, <1>3, <2>1, RowVoided
<1>4. CASE ~(j \in op[c].seen /\ code[j].state = "live")
  BY <1>1, <1>2, <1>4
<1>5. QED
  BY <1>3, <1>4

\* The code that is sent is the only one that works and was saved before it.
LEMMA CodeSaved ==
  ASSUME IInv, NEW c \in Clients, NEW k \in Codes, SaveOTPCommit(c, k)
  PROVE  IInv'
<1> DEFINE p == op[c].purpose
<1>1. /\ op[c] \in [at : {"saving"}, purpose : Purposes, seen : SUBSET Codes, began : Nat]
      /\ At(c, "saving") /\ op[c].began <= now
  BY OpShapes DEF SaveOTPCommit, IInv, CodesInOrder, NotAhead
<1>2. /\ op' \in [Clients -> Ops] /\ op'[c] = None
      /\ \A d \in Clients \ {c} : op'[d] = op[d]
      /\ \A d \in Clients : At(d, "saving")' => At(d, "saving") /\ op'[d] = op[d]
  BY Proceeds, NoneIsOp DEF SaveOTPCommit, Done, IInv, At
<1>3. code \in [Codes -> CodeRow] /\ now \in Nat
  BY DEF IInv, TypeOK, CodeRow
<1>4. code'[k] = [state |-> "live", purpose |-> p, at |-> op[c].began, saved |-> now,
                  tries |-> 0, guessed |-> 0]
  BY DEF SaveOTPCommit
<1>5. ASSUME NEW j \in Codes \ {k}
      PROVE  /\ code'[j] \in CodeRow
             /\ \/ code'[j] = code[j] /\ ~(j \in op[c].seen /\ code[j].state = "live")
                \/ code'[j].state = "void" /\ code'[j].at = code[j].at /\ code[j].state = "live"
  BY OthersWithdrawn DEF IInv
<1>6. TypeOK'
  <2>1. code'[k] \in CodeRow
    BY <1>1, <1>3, <1>4 DEF CodeRow
  <2>2. code' \in [Codes -> CodeRow]
    BY <1>5, <2>1 DEF SaveOTPCommit
  <2>3. QED
    BY <1>2, <2>2 DEF IInv, TypeOK, CodeRow, SaveOTPCommit
<1>7. TriesCounted' /\ NotAhead'
  <2>1. \A j \in Codes :
          /\ code'[j].state = "live" => code'[j].guessed = code'[j].tries
          /\ code'[j].state = "none" => code'[j].guessed = 0
    BY <1>4, <1>5 DEF IInv, CodesInOrder, TriesCounted
  <2>2. \A j \in Codes : code'[j].state = "live" => code'[j].at <= now
    BY <1>1, <1>4, <1>5 DEF IInv, CodesInOrder, NotAhead
  <2>3. QED
    BY <1>2, <2>1, <2>2 DEF IInv, CodesInOrder, TriesCounted, NotAhead, SaveOTPCommit
<1>8. ASSUME NEW q, NEW j \in Live(q)', j # k
      PROVE  /\ j \in Live(q) /\ code'[j] = code[j] /\ j \notin op[c].seen
  BY <1>5, <1>8 DEF Live, Sent, SaveOTPCommit
<1>9. SeenAll'
  <2>1. ASSUME NEW d \in Clients, At(d, "saving")', NEW j \in Live(op[d].purpose)',
               code'[j].saved < op'[d].began
        PROVE  j \in op'[d].seen
    <3>1. At(d, "saving") /\ op'[d] = op[d]
      BY <1>2, <2>1
    <3>2. op[d].began \in Nat /\ op[d].began <= now
      BY <3>1, OpShapes DEF IInv, CodesInOrder, NotAhead
    <3>3. j # k
      BY <1>3, <1>4, <2>1, <3>1, <3>2
    <3>4. QED
      BY <1>8, <2>1, <3>1, <3>3 DEF IInv, CodesInOrder, SeenAll
  <2>2. QED
    BY <2>1 DEF SeenAll
<1>10. SupersededDead'
  <2>1. ASSUME NEW q \in Purposes, NEW i \in Live(q)', NEW j \in Live(q)',
               code'[i].saved < code'[j].at, i # j
        PROVE  FALSE
    <3>1. CASE j = k
      <4>1. q = p
        BY <1>4, <2>1, <3>1 DEF Live, Sent
      <4>2. /\ i \in Live(p) /\ code[i].saved < op[c].began /\ i \notin op[c].seen
        BY <1>4, <1>8, <2>1, <3>1, <4>1
      <4>3. QED
        BY <1>1, <4>2 DEF IInv, CodesInOrder, SeenAll
    <3>2. CASE i = k
      <4>1. j \in Codes /\ code'[j] = code[j] /\ code[j].state = "live"
        BY <1>8, <2>1, <3>2 DEF Live, Sent
      <4>2. code[j].at \in Nat /\ code[j].at <= now
        BY <1>3, <4>1 DEF IInv, CodesInOrder, NotAhead, CodeRow
      <4>3. QED
        BY <1>3, <1>4, <2>1, <3>2, <4>1, <4>2
    <3>3. CASE i # k /\ j # k
      BY <1>8, <2>1, <3>3 DEF IInv, CodesInOrder, SupersededDead
    <3>4. QED
      BY <3>1, <3>2, <3>3
  <2>2. QED
    BY <2>1 DEF SupersededDead
<1>11. Proven'
  <2>1. Verifies' => Verifies
    BY <1>2 DEF Verifies, At, SaveOTPCommit
  <2>2. Entered => Entered'
    BY <1>5 DEF Entered, SaveOTPCommit
  <2>3. QED
    BY <2>1, <2>2 DEF IInv, Proven
<1>12. FailuresCounted'
  BY FailuresKept DEF IInv, SaveOTPCommit
<1>13. QED
  BY <1>6, <1>7, <1>9, <1>10, <1>11, <1>12 DEF IInv, CodesInOrder

\* What a guess makes of a code that works: burnt, used or counted.
GuessedTo(row, after) ==
  /\ after \in CodeRow /\ after.purpose = row.purpose /\ after.at = row.at
  /\ after.saved = row.saved
  /\ \/ after.state = "void" /\ after.guessed = row.guessed
     \/ /\ row.guessed < MaxVerifyTries /\ after.state \in {"live", "used"}
        /\ after.guessed = row.guessed + 1
        /\ after.state = "live" => after.guessed = after.tries

LEMMA RowGuessed ==
  ASSUME NEW row \in CodeRow, row.state = "live", row.guessed = row.tries, NEW right \in BOOLEAN
  PROVE  GuessedTo(row, Compared(Attempted(row, right)))
<1> DEFINE tried == Attempted(row, right)
<1>1. CASE row.tries >= MaxVerifyTries
  <2>1. tried = [row EXCEPT !.state = "void"]
    BY <1>1 DEF Attempted
  <2>2. Compared(tried) = tried
    BY <2>1 DEF Compared, CodeRow
  <2>3. QED
    BY <2>1, <2>2 DEF CodeRow, GuessedTo
<1>2. CASE row.tries < MaxVerifyTries
  <2> DEFINE s == IF right THEN "used" ELSE "live"
  <2>1. tried = [row EXCEPT !.tries = row.tries + 1, !.state = s]
    BY <1>2, Constants DEF Attempted, CodeRow
  <2>2. Compared(tried) = [tried EXCEPT !.guessed = row.guessed + 1]
    BY <2>1 DEF Compared, CodeRow
  <2>3. Compared(tried) = [state |-> s, purpose |-> row.purpose, at |-> row.at,
                           saved |-> row.saved, tries |-> row.tries + 1,
                           guessed |-> row.guessed + 1]
    BY <2>1, <2>2 DEF CodeRow
  <2>4. row.tries + 1 \in Nat /\ row.guessed + 1 \in Nat /\ s \in {"live", "used"}
    BY DEF CodeRow
  <2> HIDE DEF s
  <2>5. QED
    BY <1>2, <2>3, <2>4 DEF CodeRow, GuessedTo
<1>3. QED
  BY <1>1, <1>2, Constants DEF CodeRow

LEMMA OneGuess ==
  ASSUME IInv, NEW c \in Clients, NEW p \in Purposes, NEW guess, NEW next \in Ops,
         ConsumeOTP(c, p, guess, next)
  PROVE  \E k \in Codes :
           /\ code[k].state = "live" /\ code[k].purpose = p
           /\ code' = [code EXCEPT ![k] = code'[k]]
           /\ GuessedTo(code[k], code'[k])
           /\ Proceed(c, IF code'[k].state = "used" THEN next ELSE None)
<1>1. PICK k \in LiveCode(p) :
        /\ code' = [code EXCEPT ![k] = Compared(Attempted(@, guess = k))]
        /\ Proceed(c, IF code'[k].state = "used" THEN next ELSE None)
  BY Zenon DEF ConsumeOTP
<1>2. k \in Codes /\ code[k].state = "live" /\ code[k].purpose = p
  BY <1>1 DEF LiveCode, Newest, Live, Sent
<1>3. code \in [Codes -> CodeRow] /\ code[k].guessed = code[k].tries
  BY <1>2 DEF IInv, TypeOK, CodeRow, CodesInOrder, TriesCounted
<1>4. code'[k] = Compared(Attempted(code[k], guess = k))
  BY <1>1, <1>2, <1>3
<1>5. code' = [code EXCEPT ![k] = code'[k]]
  BY <1>1, <1>3, <1>4
<1>6. GuessedTo(code[k], code'[k])
  <2>1. (guess = k) \in BOOLEAN /\ code[k] \in CodeRow
    BY <1>2, <1>3
  <2>2. QED
    BY <1>2, <1>3, <1>4, <2>1, RowGuessed
<1>7. QED
  BY <1>1, <1>2, <1>5, <1>6

LEMMA CodeConsumed ==
  ASSUME IInv, NEW c \in Clients, NEW p \in Purposes, NEW guess, NEW next \in Ops,
         next # None => next.at \in {"verifying", "changing"},
         next # None /\ next.at = "verifying" => p = "register",
         ConsumeOTP(c, p, guess, next)
  PROVE  IInv'
<1>1. PICK k \in Codes :
        /\ code[k].state = "live" /\ code[k].purpose = p
        /\ code' = [code EXCEPT ![k] = code'[k]]
        /\ GuessedTo(code[k], code'[k])
        /\ Proceed(c, IF code'[k].state = "used" THEN next ELSE None)
  BY OneGuess
<1> DEFINE o == IF code'[k].state = "used" THEN next ELSE None
<1>2. /\ UNCHANGED <<now, user, signedIn, wrong>> /\ requests' \in Nat
  BY Begins DEF ConsumeOTP
<1>3. /\ o \in Ops /\ op' \in [Clients -> Ops] /\ op'[c] = o
      /\ \A d \in Clients \ {c} : op'[d] = op[d]
  <2>1. o \in Ops
    BY NoneIsOp
  <2> HIDE DEF o
  <2>2. Proceed(c, o)
    BY <1>1 DEF o
  <2>3. QED
    BY <2>1, <2>2, Proceeds DEF IInv
<1>4. \A d \in Clients : At(d, "saving")' => At(d, "saving") /\ op'[d] = op[d]
  BY <1>3 DEF At
<1>5. code \in [Codes -> CodeRow] /\ code'[k] \in CodeRow
      /\ code'[k].purpose = p /\ code'[k].at = code[k].at /\ code'[k].saved = code[k].saved
  BY <1>1 DEF IInv, TypeOK, CodeRow, GuessedTo
<1>6. \A j \in Codes \ {k} : code'[j] = code[j]
  BY <1>1, <1>5
<1>7. TypeOK'
  <2>1. code' \in [Codes -> CodeRow]
    BY <1>1, <1>5
  <2>2. QED
    BY <1>2, <1>3, <2>1 DEF IInv, TypeOK, CodeRow
<1>8. TriesCounted' /\ NotAhead'
  <2>1. \A j \in Codes :
          /\ code'[j].state = "live" => code'[j].guessed = code'[j].tries
          /\ code'[j].state = "none" => code'[j].guessed = 0
    BY <1>1, <1>6 DEF IInv, CodesInOrder, TriesCounted, GuessedTo
  <2>2. \A j \in Codes : code'[j].state = "live" => code'[j].at <= now
    BY <1>1, <1>5, <1>6 DEF IInv, CodesInOrder, NotAhead
  <2>3. QED
    BY <1>2, <1>4, <2>1, <2>2 DEF IInv, CodesInOrder, TriesCounted, NotAhead
<1>9. ASSUME NEW q, NEW j \in Live(q)'
      PROVE  j \in Live(q) /\ code'[j].saved = code[j].saved /\ code'[j].at = code[j].at
  BY <1>1, <1>2, <1>5, <1>6, <1>9 DEF Live, Sent
<1>10. SupersededDead'
  BY <1>9 DEF IInv, CodesInOrder, SupersededDead
<1>11. SeenAll'
  <2>1. ASSUME NEW d \in Clients, At(d, "saving")', NEW j \in Live(op[d].purpose)',
               code'[j].saved < op'[d].began
        PROVE  j \in op'[d].seen
    <3>1. At(d, "saving") /\ op'[d] = op[d]
      BY <1>4, <2>1
    <3>2. j \in Live(op[d].purpose) /\ code'[j].saved = code[j].saved
      BY <1>9, <2>1, <3>1
    <3>3. QED
      BY <2>1, <3>1, <3>2 DEF IInv, CodesInOrder, SeenAll
  <2>2. QED
    BY <2>1 DEF SeenAll
<1>12. Proven'
  <2>1. Entered => Entered'
    BY <1>1, <1>6 DEF Entered
  <2>2. CASE o # None /\ o.at = "verifying"
    BY <1>1, <1>5, <2>2 DEF Proven, Entered
  <2>3. CASE o = None \/ o.at # "verifying"
    <3>1. Verifies' => Verifies
      BY <1>2, <1>3, <2>3 DEF Verifies, At
    <3>2. QED
      BY <2>1, <3>1 DEF IInv, Proven
  <2>4. QED
    BY <2>2, <2>3
<1>13. FailuresCounted'
  BY <1>2, FailuresKept DEF IInv
<1>14. QED
  BY <1>7, <1>8, <1>10, <1>11, <1>12, <1>13 DEF IInv, CodesInOrder

LEMMA Guesses ==
  ASSUME IInv, NEW c \in Clients,
         \/ \E k \in Codes \union {None} : VerifyPhone(c, k)
         \/ \E k \in Codes \union {None}, pw \in Passwords : ResetPassword(c, k, pw)
  PROVE  IInv'
<1>1. ASSUME NEW k, VerifyPhone(c, k) PROVE IInv'
  <2>1. [at |-> "verifying"] \in Ops /\ "register" \in Purposes
    BY DEF Ops, Purposes
  <2>2. QED
    BY <1>1, <2>1, CodeConsumed DEF VerifyPhone
<1>2. ASSUME NEW k, NEW pw \in Passwords, ResetPassword(c, k, pw) PROVE IInv'
  <2> DEFINE next == [at |-> "changing", password |-> pw]
  <2>1. next \in Ops /\ next.at = "changing" /\ "reset_password" \in Purposes
    BY DEF Ops, Purposes
  <2>2. QED
    BY <1>2, <2>1, CodeConsumed DEF ResetPassword
<1>3. QED
  BY <1>1, <1>2
-----------------------------------------------------------------------------
(* The invariant.                                                          *)

LEMMA InitIInv == Init => IInv
<1> SUFFICES ASSUME Init PROVE IInv
  OBVIOUS
<1>1. TypeOK
  <2>1. op \in [Clients -> Ops] /\ now \in Nat /\ requests \in Nat /\ signedIn \in BOOLEAN
    BY NoneIsOp DEF Init
  <2>2. user \in UserRow
    <3>1. PICK pw \in Passwords : user = Unregistered(pw)
      BY DEF Init
    <3>2. QED
      BY <3>1 DEF Unregistered, UserRow
  <2>3. NoCode \in CodeRow
    BY DEF NoCode, CodeRow, Purposes
  <2>4. code \in [Codes -> CodeRow] /\ wrong \in [n : Nat, at : Nat]
    BY <2>3 DEF Init, NoGuess
  <2>5. QED
    BY <2>1, <2>2, <2>4 DEF TypeOK, UserRow, CodeRow
<1>2. CodesInOrder
  BY DEF Init, CodesInOrder, TriesCounted, NotAhead, SeenAll, SupersededDead, Live, Sent, At,
         NoCode
<1>3. Proven
  BY DEF Init, Proven, Verifies, At, Unregistered
<1>4. FailuresCounted
  BY Constants DEF Init, FailuresCounted, BurstLocks, Unregistered, NoGuess
<1>5. QED
  BY <1>1, <1>2, <1>3, <1>4 DEF IInv

LEMMA NextIInv == IInv /\ [Next]_vars => IInv'
<1> SUFFICES ASSUME IInv, [Next]_vars PROVE IInv'
  OBVIOUS
<1>1. CASE Tick
  BY <1>1, Ticked
<1>2. CASE RaiseBcryptCost
  BY <1>2, CostRaised
<1>3. ASSUME NEW c \in Clients, Answer(c) PROVE IInv'
  BY <1>3, RequestSteps, SaveBegun, CodeSaved, UserSteps, Failed DEF Answer
<1>4. ASSUME NEW c \in Clients,
             \/ DropRequest(c)
             \/ \E p \in Purposes : RequestCode(c, p)
             \/ \E pw \in Passwords \union {None} : Login(c, pw)
             \/ \E current, pw \in Passwords : ChangePassword(c, current, pw)
             \/ \E pw \in Passwords : DeleteAccount(c, pw)
      PROVE  IInv'
  BY <1>4, RequestSteps
<1>5. ASSUME NEW c \in Clients,
             \/ \E k \in Codes \union {None} : VerifyPhone(c, k)
             \/ \E k \in Codes \union {None}, pw \in Passwords : ResetPassword(c, k, pw)
      PROVE  IInv'
  BY <1>5, Guesses
<1>6. ASSUME NEW c \in Clients, \E pw \in Passwords : Register(c, pw) PROVE IInv'
  BY <1>6, UserSteps
<1>7. CASE UNCHANGED vars
  BY <1>7 DEF vars, IInv, TypeOK, CodesInOrder, TriesCounted, NotAhead, SeenAll,
              SupersededDead, Live, Sent, At, Proven, Verifies, Entered, FailuresCounted,
              BurstLocks
<1>8. QED
  BY <1>1, <1>2, <1>3, <1>4, <1>5, <1>6, <1>7 DEF Next

LEMMA Invariant == Spec => []IInv
BY InitIInv, NextIInv, PTL DEF Spec

(* Nobody has a verified number or a session without having entered a      *)
(* registration code (VerifyPhone, Login), and nothing loses its type.     *)
THEOREM NumberProven == Spec => []VerifiedByCode
<1>1. IInv => VerifiedByCode
  BY DEF IInv, Proven, Verifies, Entered, VerifiedByCode, Sent, TypeOK
<1>2. QED
  BY <1>1, Invariant, PTL

(* A code sent before another one was asked for no longer works once that  *)
(* one does, however many SaveOTP run at the same time.                    *)
THEOREM OldCodesDead == Spec => []SupersededDead
<1>1. IInv => SupersededDead
  BY DEF IInv, CodesInOrder
<1>2. QED
  BY <1>1, Invariant, PTL

(* No failure of a parallel burst is lost: the account is locked from the  *)
(* last of MaxLoginAttempts wrong passwords on (RecordLoginFailure).       *)
THEOREM GuessesLock == Spec => []BurstLocks
<1>1. IInv => BurstLocks
  BY DEF IInv, FailuresCounted
<1>2. QED
  BY <1>1, Invariant, PTL
-----------------------------------------------------------------------------
(* The window quota.  CheckQuota and the insert of SaveOTP are two steps,  *)
(* so what counts for a window is the codes dated in it and the requests   *)
(* that are about to date one in it: those that have passed the check      *)
(* belong to the window of this instant, those in a SaveOTP to the windows *)
(* of the instant they began at.                                           *)

InWindow(p, t) == {k \in Sent(p) : code[k].at \in (t - Window + 1)..t}

Underway(p, t) ==
  {c \in Clients : \/ At(c, "saving") /\ op[c].purpose = p
                      /\ op[c].began \in (t - Window + 1)..t
                   \/ At(c, "issuing") /\ op[c].purpose = p /\ t = now}

WithinQuota(p, t) ==
  Cardinality(InWindow(p, t)) + Cardinality(Underway(p, t))
    < MaxPerWindow + Cardinality(Clients)

QuotaInv ==
  /\ \A k \in Codes : code[k].state # "none" => code[k].at <= now
  /\ \A p \in Purposes : IsFiniteSet(Sent(p))
  /\ \A p \in Purposes : \A t \in 0..now : WithinQuota(p, t)

LEMMA QuotaConstants ==
  /\ Window \in Nat /\ MaxPerWindow \in Nat \ {0}
  /\ IsFiniteSet(Clients) /\ Cardinality(Clients) \in Nat
BY AccountsAssumption, FS_CardinalityType

\* What is counted is finite.
LEMMA CountsFinite ==
  ASSUME QuotaInv, NEW p \in Purposes, NEW t
  PROVE  /\ IsFiniteSet(InWindow(p, t)) /\ Cardinality(InWindow(p, t)) \in Nat
         /\ IsFiniteSet(Underway(p, t)) /\ Cardinality(Underway(p, t)) \in Nat
<1>1. InWindow(p, t) \in SUBSET Sent(p) /\ Underway(p, t) \in SUBSET Clients
  BY DEF InWindow, Underway
<1>2. IsFiniteSet(InWindow(p, t)) /\ IsFiniteSet(Underway(p, t))
  BY <1>1, QuotaConstants, FS_Subset DEF QuotaInv
<1> QED
  BY <1>2, FS_CardinalityType

\* A window in which nothing is added stays within the quota.
LEMMA FewerCounted ==
  ASSUME QuotaInv, NEW p \in Purposes, NEW s, WithinQuota(p, s), NEW t,
         InWindow(p, t)' \subseteq InWindow(p, s), Underway(p, t)' \subseteq Underway(p, s)
  PROVE  WithinQuota(p, t)'
<1> DEFINE A == InWindow(p, t)'
           B == Underway(p, t)'
           C == InWindow(p, s)
           D == Underway(p, s)
<1>1. /\ IsFiniteSet(C) /\ Cardinality(C) \in Nat /\ IsFiniteSet(D) /\ Cardinality(D) \in Nat
      /\ A \in SUBSET C /\ B \in SUBSET D
      /\ Cardinality(C) + Cardinality(D) < MaxPerWindow + Cardinality(Clients)
  BY CountsFinite DEF WithinQuota
<1> HIDE DEF A, B, C, D
<1>2. /\ Cardinality(A) \in Nat /\ Cardinality(A) <= Cardinality(C)
      /\ Cardinality(B) \in Nat /\ Cardinality(B) <= Cardinality(D)
  BY <1>1, FS_Subset, FS_CardinalityType
<1>3. Cardinality(A) + Cardinality(B) < MaxPerWindow + Cardinality(Clients)
  BY <1>1, <1>2, QuotaConstants
<1> QED
  BY <1>3 DEF WithinQuota, A, B

\* A step that dates no code and sends no request past the check.
Uncounted ==
  /\ UNCHANGED now
  /\ \A k \in Codes :
       /\ code'[k].state # "none" <=> code[k].state # "none"
       /\ code'[k].at = code[k].at /\ code'[k].purpose = code[k].purpose
  /\ \A c \in Clients : At(c, "saving")' => At(c, "saving") /\ op'[c] = op[c]
  /\ \A c \in Clients : At(c, "issuing")' => At(c, "issuing") /\ op'[c] = op[c]

LEMMA UncountedKeepsQuota ==
  ASSUME QuotaInv, Uncounted
  PROVE  QuotaInv'
<1>1. \A p : Sent(p)' = Sent(p)
  BY DEF Uncounted, Sent
<1>2. ASSUME NEW p \in Purposes, NEW t \in 0..now
      PROVE  WithinQuota(p, t)'
  <2>1. InWindow(p, t)' \subseteq InWindow(p, t)
    BY <1>1 DEF Uncounted, InWindow, Sent
  <2>2. Underway(p, t)' \subseteq Underway(p, t)
    BY DEF Uncounted, Underway, At
  <2> QED
    BY <1>2, <2>1, <2>2, FewerCounted DEF QuotaInv
<1> QED
  BY <1>1, <1>2 DEF QuotaInv, Uncounted

\* The window of the next instant holds nothing that this one's does not.
LEMMA TickKeepsQuota ==
  ASSUME IInv, QuotaInv, Tick
  PROVE  QuotaInv'
<1>1. /\ now \in Nat /\ now' = now + 1 /\ code' = code /\ op' = op
      /\ \A k \in Codes : code[k].at \in Nat
      /\ \A c \in Clients : At(c, "saving") => op[c].began \in Nat /\ op[c].began <= now
  BY OpShapes DEF Tick, IInv, TypeOK, CodesInOrder, NotAhead
<1>2. \A p : Sent(p)' = Sent(p)
  BY <1>1 DEF Sent
<1>3. ASSUME NEW p \in Purposes, NEW t \in 0..now'
      PROVE  WithinQuota(p, t)'
  <2>1. CASE t \in 0..now
    <3>1. t # now'
      BY <1>1, <2>1
    <3>2. InWindow(p, t)' \subseteq InWindow(p, t) /\ Underway(p, t)' \subseteq Underway(p, t)
      BY <1>1, <1>2, <3>1 DEF InWindow, Underway, At
    <3> QED
      BY <2>1, <3>2, FewerCounted DEF QuotaInv
  <2>2. CASE t = now + 1
    <3>1. \A i \in Nat : i <= now /\ i \in (t - Window + 1)..t => i \in (now - Window + 1)..now
      BY <1>1, <2>2, QuotaConstants
    <3>2. InWindow(p, t)' \subseteq InWindow(p, now)
      BY <1>1, <1>2, <3>1 DEF InWindow, Sent, QuotaInv
    <3>3. Underway(p, t)' \subseteq Underway(p, now)
      BY <1>1, <3>1 DEF Underway, At
    <3>4. WithinQuota(p, now)
      BY <1>1 DEF QuotaInv
    <3> QED
      BY <3>2, <3>3, <3>4, FewerCounted
  <2> QED
    BY <1>1, <2>1, <2>2
<1>4. \A k \in Codes : code'[k].state # "none" => code'[k].at <= now'
  BY <1>1 DEF QuotaInv
<1> QED
  BY <1>2, <1>3, <1>4 DEF QuotaInv

\* Who passes the check finds the window of this instant below the quota,
\* and whoever else has passed it is one of the other clients.
LEMMA CheckKeepsQuota ==
  ASSUME IInv, QuotaInv, NEW c \in Clients, CheckQuota(c)
  PROVE  QuotaInv'
<1> DEFINE q == op[c].purpose
<1>1. /\ now \in Nat /\ now' = now /\ code' = code
      /\ op \in [Clients -> Ops]
      /\ \A d \in Clients : d # c => op'[d] = op[d]
      /\ op'[c] # None => CountRecentOTPs(q) < MaxPerWindow
      /\ op'[c] # None => op'[c].at = "issuing" /\ op'[c].purpose = q
  <2>1. op[c] \in [at : {"asking", "issuing"}, purpose : Purposes]
    BY OpShapes DEF CheckQuota, IInv
  <2>2. PICK lastRead \in BOOLEAN :
          Proceed(c, IF MayIssue(q, lastRead) THEN [op[c] EXCEPT !.at = "issuing"] ELSE None)
    BY DEF CheckQuota
  <2> DEFINE o == IF MayIssue(q, lastRead) THEN [op[c] EXCEPT !.at = "issuing"] ELSE None
  <2>3. op \in [Clients -> Ops] /\ op' = [op EXCEPT ![c] = o]
    BY <2>2 DEF IInv, TypeOK, Proceed
  <2>4. o # None =>
          CountRecentOTPs(q) < MaxPerWindow /\ o.at = "issuing" /\ o.purpose = q
    BY <2>1 DEF MayIssue
  <2> HIDE DEF o
  <2>5. op'[c] = o /\ \A d \in Clients : d # c => op'[d] = op[d]
    BY <2>3
  <2> QED
    BY <2>3, <2>4, <2>5 DEF IInv, TypeOK, CheckQuota
<1>2. \A p : Sent(p)' = Sent(p) /\ \A t : InWindow(p, t)' = InWindow(p, t)
  BY <1>1 DEF Sent, InWindow
<1>3. ASSUME NEW p \in Purposes, NEW t \in 0..now, t # now \/ p # q \/ op'[c] = None
      PROVE  WithinQuota(p, t)'
  <2>1. Underway(p, t)' \subseteq Underway(p, t)
    BY <1>1, <1>3 DEF Underway, At
  <2> QED
    BY <1>2, <2>1, FewerCounted DEF QuotaInv
<1>4. ASSUME op'[c] # None, q \in Purposes
      PROVE  WithinQuota(q, now)'
  <2>1. \A k \in Codes : code[k].at \in Nat /\ (code[k].state # "none" => code[k].at <= now)
    BY DEF IInv, TypeOK, QuotaInv
  <2>2. InWindow(q, now) = {k \in Sent(q) : code[k].at > now - Window}
    BY <1>1, <2>1, QuotaConstants DEF InWindow, Sent
  <2>3. Cardinality(InWindow(q, now)) < MaxPerWindow
    BY <1>1, <1>4, <2>2 DEF CountRecentOTPs
  <2> DEFINE n == Cardinality(InWindow(q, now))
             U == Underway(q, now)'
             m == Cardinality(U)
  <2>4. n \in Nat /\ Cardinality(InWindow(q, now)') = n
    BY <1>1, <1>2, <1>4, CountsFinite
  <2>5. m \in Nat /\ m <= Cardinality(Clients)
    <3>1. U \in SUBSET Clients
      BY DEF Underway
    <3> HIDE DEF U
    <3> QED
      BY <3>1, QuotaConstants, FS_Subset, FS_CardinalityType
  <2>6. n + m < MaxPerWindow + Cardinality(Clients)
    <3>1. n < MaxPerWindow
      BY <2>3
    <3> HIDE DEF n, m
    <3> QED
      BY <2>4, <2>5, <3>1, QuotaConstants
  <2> QED
    BY <1>1, <2>4, <2>6 DEF WithinQuota
<1>5. \A p \in Purposes : \A t \in 0..now : WithinQuota(p, t)'
  BY <1>1, <1>3, <1>4
<1> QED
  BY <1>1, <1>2, <1>5 DEF QuotaInv

\* A SaveOTP begins in the window in which its request was counted already.
LEMMA BeginKeepsQuota ==
  ASSUME IInv, QuotaInv, NEW c \in Clients, SaveOTPBegin(c)
  PROVE  QuotaInv'
<1> DEFINE o == [at |-> "saving", purpose |-> op[c].purpose,
                 seen |-> Withdrawn(op[c].purpose), began |-> now]
<1>1. /\ now \in Nat /\ now' = now /\ code' = code /\ op \in [Clients -> Ops]
      /\ At(c, "issuing") /\ op' = [op EXCEPT ![c] = o]
  BY DEF IInv, TypeOK, SaveOTPBegin, Proceed
<1>2. o.at = "saving" /\ o.purpose = op[c].purpose /\ o.began = now
  OBVIOUS
<1> HIDE DEF o
<1>3. op'[c] = o /\ \A d \in Clients : d # c => op'[d] = op[d]
  BY <1>1
<1>4. \A p : Sent(p)' = Sent(p)
  BY <1>1 DEF Sent
<1>5. ASSUME NEW p \in Purposes, NEW t \in 0..now
      PROVE  WithinQuota(p, t)'
  <2>1. now \in (t - Window + 1)..t => t = now
    BY <1>1, QuotaConstants
  <2>2. ASSUME NEW d \in Underway(p, t)'
        PROVE  d \in Underway(p, t)
    <3>1. CASE d = c
      BY <1>1, <1>2, <1>3, <2>1, <2>2, <3>1 DEF Underway, At
    <3>2. CASE d # c
      BY <1>1, <1>3, <2>2, <3>2 DEF Underway, At
    <3> QED
      BY <3>1, <3>2
  <2>3. InWindow(p, t)' \subseteq InWindow(p, t)
    BY <1>1, <1>4 DEF InWindow
  <2> QED
    BY <2>2, <2>3, FewerCounted DEF QuotaInv
<1> QED
  BY <1>1, <1>4, <1>5 DEF QuotaInv

\* The code that is sent takes the place of its request in every window.
LEMMA CommitKeepsQuota ==
  ASSUME IInv, QuotaInv, NEW c \in Clients, NEW k \in Codes, SaveOTPCommit(c, k)
  PROVE  QuotaInv'
<1>1. /\ now \in Nat /\ now' = now /\ op \in [Clients -> Ops] /\ At(c, "saving")
      /\ code[k].state = "none"
      /\ op'[c] = None /\ \A d \in Clients : d # c => op'[d] = op[d]
  BY DEF IInv, TypeOK, SaveOTPCommit, Done, Proceed
<1>2. PICK q \in Purposes, b \in Nat : q = op[c].purpose /\ b = op[c].began /\ b <= now
  BY <1>1, OpShapes DEF IInv, CodesInOrder, NotAhead
<1>3. /\ code'[k].state = "live" /\ code'[k].purpose = q /\ code'[k].at = b
      /\ \A j \in Codes : j # k =>
           /\ code'[j].state # "none" <=> code[j].state # "none"
           /\ code'[j].at = code[j].at /\ code'[j].purpose = code[j].purpose
  <2>1. code'[k].state = "live" /\ code'[k].purpose = q /\ code'[k].at = b
    BY <1>2 DEF SaveOTPCommit
  <2>2. ASSUME NEW j \in Codes, j # k
        PROVE  /\ code'[j].state # "none" <=> code[j].state # "none"
               /\ code'[j].at = code[j].at /\ code'[j].purpose = code[j].purpose
    <3>1. code[j] \in CodeRow
      BY DEF IInv, TypeOK, CodeRow
    <3>2. code'[j] = IF j \in op[c].seen /\ code[j].state = "live"
                     THEN [code[j] EXCEPT !.state = "void", !.saved = 0] ELSE code[j]
      BY <2>2, Zenon DEF SaveOTPCommit
    <3>3. CASE j \in op[c].seen /\ code[j].state = "live"
      BY <3>1, <3>2, <3>3 DEF CodeRow
    <3>4. CASE ~(j \in op[c].seen /\ code[j].state = "live")
      BY <3>2, <3>4
    <3> QED
      BY <3>3, <3>4
  <2> QED
    BY <2>1, <2>2
<1>4. /\ k \notin Sent(q) /\ Sent(q)' = Sent(q) \union {k}
      /\ \A p : p # q => Sent(p)' = Sent(p)
  BY <1>1, <1>3 DEF Sent
<1>5. \A p \in Purposes : IsFiniteSet(Sent(p)')
  BY <1>2, <1>4, FS_AddElement DEF QuotaInv
<1>6. ASSUME NEW p \in Purposes, NEW t \in 0..now, ~(p = q /\ b \in (t - Window + 1)..t)
      PROVE  WithinQuota(p, t)'
  <2>1. InWindow(p, t)' \subseteq InWindow(p, t)
    BY <1>3, <1>4, <1>6 DEF InWindow, Sent
  <2>2. Underway(p, t)' \subseteq Underway(p, t)
    BY <1>1 DEF Underway, At
  <2> QED
    BY <1>6, <2>1, <2>2, FewerCounted DEF QuotaInv
<1>7. ASSUME NEW t \in 0..now, b \in (t - Window + 1)..t
      PROVE  WithinQuota(q, t)'
  <2> DEFINE S == InWindow(q, t)
             U == Underway(q, t)
             V == Underway(q, t)'
  <2>1. k \notin S /\ InWindow(q, t)' = S \union {k}
    BY <1>3, <1>4, <1>7 DEF InWindow, Sent
  <2>2. c \in U /\ V \subseteq U \ {c}
    BY <1>1, <1>2, <1>7 DEF Underway, At
  <2>3. /\ IsFiniteSet(S) /\ Cardinality(S) \in Nat /\ IsFiniteSet(U) /\ Cardinality(U) \in Nat
        /\ Cardinality(S) + Cardinality(U) < MaxPerWindow + Cardinality(Clients)
    BY <1>2, <1>7, CountsFinite DEF QuotaInv, WithinQuota
  <2> HIDE DEF S, U, V
  <2>4. Cardinality(S \union {k}) = Cardinality(S) + 1
    BY <2>1, <2>3, FS_AddElement
  <2>5. IsFiniteSet(U \ {c}) /\ Cardinality(U \ {c}) = Cardinality(U) - 1
    BY <2>2, <2>3, FS_RemoveElement
  <2>6. Cardinality(V) \in Nat /\ Cardinality(V) <= Cardinality(U \ {c})
    BY <2>2, <2>5, FS_Subset, FS_CardinalityType
  <2>7. Cardinality(S \union {k}) + Cardinality(V) < MaxPerWindow + Cardinality(Clients)
    BY <2>3, <2>4, <2>5, <2>6, QuotaConstants
  <2> QED
    BY <2>1, <2>7 DEF WithinQuota, V
<1>8. \A p \in Purposes : \A t \in 0..now : WithinQuota(p, t)'
  BY <1>6, <1>7
<1>9. \A j \in Codes : code'[j].state # "none" => code'[j].at <= now
  BY <1>2, <1>3 DEF QuotaInv
<1> QED
  BY <1>1, <1>5, <1>8, <1>9 DEF QuotaInv

\* Every other step is one the quota does not count.
LEMMA GuessUncounted ==
  ASSUME IInv, NEW c \in Clients, NEW p \in Purposes, NEW guess, NEW next \in Ops,
         next # None => next.at \in {"verifying", "changing"},
         ConsumeOTP(c, p, guess, next)
  PROVE  Uncounted
<1>1. PICK k \in Codes :
        /\ code[k].state = "live" /\ code[k].purpose = p
        /\ code' = [code EXCEPT ![k] = code'[k]]
        /\ GuessedTo(code[k], code'[k])
        /\ Proceed(c, IF code'[k].state = "used" THEN next ELSE None)
  BY OneGuess
<1> DEFINE o == IF code'[k].state = "used" THEN next ELSE None
<1>2. o = None \/ o.at \in {"verifying", "changing"}
  OBVIOUS
<1>3. op \in [Clients -> Ops] /\ op' = [op EXCEPT ![c] = o]
  BY <1>1 DEF IInv, TypeOK, Proceed
<1> HIDE DEF o
<1>4. \A d \in Clients : op'[d] = op[d] \/ op'[d] = None
                          \/ op'[d].at \in {"verifying", "changing"}
  BY <1>2, <1>3
<1>5. code \in [Codes -> CodeRow]
  BY DEF IInv, TypeOK, CodeRow
<1>6. \A j \in Codes : /\ code'[j].state # "none" <=> code[j].state # "none"
                       /\ code'[j].at = code[j].at /\ code'[j].purpose = code[j].purpose
  BY <1>1, <1>5 DEF GuessedTo
<1> QED
  BY <1>4, <1>6 DEF Uncounted, At, ConsumeOTP

LEMMA OthersUncounted ==
  ASSUME IInv, NEW c \in Clients, NEW o, Proceed(c, o), UNCHANGED <<now, code>>,
         o = None \/ o.at \notin {"issuing", "saving"}
  PROVE  Uncounted
<1>1. op \in [Clients -> Ops] /\ op' = [op EXCEPT ![c] = o]
  BY DEF IInv, TypeOK, Proceed
<1>2. \A d \in Clients : op'[d] = op[d] \/ op'[d] = o
  BY <1>1
<1> QED
  BY <1>2 DEF Uncounted, At

LEMMA NextUncounted ==
  ASSUME IInv, [Next]_vars
  PROVE  \/ Uncounted \/ Tick
         \/ \E c \in Clients : CheckQuota(c) \/ SaveOTPBegin(c)
                               \/ \E k \in Codes : SaveOTPCommit(c, k)
<1>1. ASSUME NEW c \in Clients,
             \/ MarkPhoneVerified(c) \/ StartSession(c)
             \/ RecordLoginFailure(c) \/ RecordLoginSuccess(c) \/ RehashPassword(c)
             \/ UpdatePassword(c) \/ SoftDelete(c) \/ DropRequest(c)
      PROVE  Uncounted
  <2>1. CASE MarkPhoneVerified(c)
    BY <2>1, OthersUncounted DEF MarkPhoneVerified, Done
  <2>2. CASE StartSession(c)
    <3>1. op[c].login => [op[c] EXCEPT !.at = "stamping"].at = "stamping"
      BY <2>2, OpShapes DEF StartSession, IInv
    <3> QED
      BY <2>2, <3>1, OthersUncounted DEF StartSession
  <2>3. CASE RecordLoginSuccess(c)
    <3>1. [op[c] EXCEPT !.at = "rehashing"].at = "rehashing"
      BY <2>3, OpShapes DEF RecordLoginSuccess, IInv
    <3> QED
      BY <2>3, <3>1, OthersUncounted DEF RecordLoginSuccess
  <2> QED
    BY <1>1, <2>1, <2>2, <2>3, OthersUncounted
    DEF RecordLoginFailure, RehashPassword, UpdatePassword, SoftDelete, DropRequest, Done
<1>2. ASSUME NEW c \in Clients,
             \/ \E p \in Purposes : RequestCode(c, p)
             \/ \E pw \in Passwords : Register(c, pw) \/ DeleteAccount(c, pw)
             \/ \E pw \in Passwords \union {None} : Login(c, pw)
             \/ \E current, pw \in Passwords : ChangePassword(c, current, pw)
      PROVE  Uncounted
  <2>1. ASSUME NEW p, Proceed(c, Asking(p)), UNCHANGED <<now, code>>
        PROVE  Uncounted
    BY <2>1, OthersUncounted DEF Asking
  <2>2. ASSUME NEW pw \in Passwords \union {None}, Login(c, pw)
        PROVE  Uncounted
    <3>1. CASE pw # user.password
      BY <2>2, <3>1, OthersUncounted DEF Login
    <3>2. CASE pw = user.password /\ ~user.verified
      BY <2>1, <2>2, <3>2 DEF Login
    <3>3. CASE pw = user.password /\ user.verified
      BY <2>2, <3>3, OthersUncounted DEF Login
    <3> QED
      BY <3>1, <3>2, <3>3 DEF IInv, TypeOK
  <2>3. ASSUME NEW pw \in Passwords, DeleteAccount(c, pw)
        PROVE  Uncounted
    BY <2>3, OthersUncounted DEF DeleteAccount
  <2>4. ASSUME NEW current \in Passwords, NEW pw \in Passwords, ChangePassword(c, current, pw)
        PROVE  Uncounted
    BY <2>4, OthersUncounted DEF ChangePassword
  <2> QED
    BY <1>2, <2>1, <2>2, <2>3, <2>4 DEF RequestCode, Register
<1>3. ASSUME NEW c \in Clients,
             \/ \E k \in Codes \union {None} : VerifyPhone(c, k)
             \/ \E k \in Codes \union {None}, pw \in Passwords : ResetPassword(c, k, pw)
      PROVE  Uncounted
  <2>1. ASSUME NEW k, VerifyPhone(c, k)
        PROVE  Uncounted
    <3>1. [at |-> "verifying"] \in Ops /\ "register" \in Purposes
      BY DEF Ops, Purposes
    <3> QED
      BY <2>1, <3>1, GuessUncounted DEF VerifyPhone
  <2>2. ASSUME NEW k, NEW pw \in Passwords, ResetPassword(c, k, pw)
        PROVE  Uncounted
    <3> DEFINE next == [at |-> "changing", password |-> pw]
    <3>1. next \in Ops /\ next.at = "changing" /\ "reset_password" \in Purposes
      BY DEF Ops, Purposes
    <3> QED
      BY <2>2, <3>1, GuessUncounted DEF ResetPassword
  <2> QED
    BY <1>3, <2>1, <2>2
<1>4. CASE RaiseBcryptCost \/ UNCHANGED vars
  BY <1>4 DEF RaiseBcryptCost, vars, Uncounted, At
<1> QED
  BY <1>1, <1>2, <1>3, <1>4 DEF Next, Answer

LEMMA NextQuotaInv ==
  ASSUME IInv, QuotaInv, [Next]_vars
  PROVE  QuotaInv'
BY NextUncounted, UncountedKeepsQuota, TickKeepsQuota, CheckKeepsQuota, BeginKeepsQuota,
   CommitKeepsQuota

LEMMA InitQuotaInv ==
  ASSUME Init
  PROVE  QuotaInv
<1>1. \A p : Sent(p) = {} /\ \A t : InWindow(p, t) = {} /\ Underway(p, t) = {}
  BY DEF Init, Sent, NoCode, InWindow, Underway, At
<1>2. \A p \in Purposes : \A t \in 0..now : WithinQuota(p, t)
  BY <1>1, FS_EmptySet, QuotaConstants DEF WithinQuota
<1> QED
  BY <1>1, <1>2, FS_EmptySet DEF QuotaInv, Init, NoCode

(* However many requests race between the check and the insert, the codes  *)
(* dated in any window exceed the quota by less than the requests that can *)
(* be under way at a time (issueOTP, SaveOTP).                             *)
THEOREM QuotaIsKept == Spec => []QuotaHolds
<1>1. IInv /\ QuotaInv => QuotaHolds
  <2> SUFFICES ASSUME QuotaInv, NEW p \in Purposes, NEW t \in 0..now
               PROVE  Cardinality(InWindow(p, t)) < MaxPerWindow + Cardinality(Clients)
    BY DEF QuotaHolds, InWindow
  <2> QED
    BY CountsFinite, QuotaConstants DEF QuotaInv, WithinQuota
<1>2. Init => IInv /\ QuotaInv
  BY InitIInv, InitQuotaInv
<1>3. IInv /\ QuotaInv /\ [Next]_vars => IInv' /\ QuotaInv'
  BY NextIInv, NextQuotaInv
<1> QED
  BY <1>1, <1>2, <1>3, PTL DEF Spec
-----------------------------------------------------------------------------
(* Accounts implements CodeLife.                                           *)

Fate == [k \in Codes |-> code[k].state]
Guessed == [k \in Codes |-> code[k].guessed]

LEMMA FateTyped ==
  ASSUME TypeOK'
  PROVE  Fate' \in [Codes -> {"none", "live", "used", "void"}]
BY DEF TypeOK, Fate

LEMMA SentOnce ==
  ASSUME IInv, IInv', NEW c \in Clients, NEW k \in Codes, SaveOTPCommit(c, k)
  PROVE  Life!Next
<1>1. Fate[k] = "none" /\ Fate'[k] = "live"
  BY DEF SaveOTPCommit, Fate
<1>2. ASSUME NEW j \in Codes \ {k}
      PROVE  /\ Fate'[j] = Fate[j] \/ (Fate[j] = "live" /\ Fate'[j] = "void")
             /\ Guessed'[j] = Guessed[j]
  BY OthersWithdrawn DEF IInv, Fate, Guessed
<1>3. Guessed'[k] = Guessed[k]
  BY DEF SaveOTPCommit, Guessed, IInv, CodesInOrder, TriesCounted
<1>4. Guessed' = Guessed
  BY <1>2, <1>3 DEF Guessed
<1>5. QED
  BY <1>1, <1>2, <1>4, FateTyped
     DEF IInv, Fate, Guessed, Life!Next, Life!Send, Life!Unvoided

LEMMA GuessedOnce ==
  ASSUME IInv, IInv', NEW c \in Clients, NEW p \in Purposes, NEW guess, NEW next \in Ops,
         ConsumeOTP(c, p, guess, next)
  PROVE  Life!Next
<1>1. PICK k \in Codes :
        /\ code[k].state = "live"
        /\ code' = [code EXCEPT ![k] = code'[k]]
        /\ GuessedTo(code[k], code'[k])
  BY OneGuess
<1>2. code \in [Codes -> CodeRow]
  BY DEF IInv, TypeOK, CodeRow
<1>3. \A j \in Codes \ {k} : Fate'[j] = Fate[j] /\ Guessed'[j] = Guessed[j]
  BY <1>1, <1>2 DEF Fate, Guessed
<1>4. Fate' \in [Codes -> {"none", "live", "used", "void"}]
  BY FateTyped DEF IInv
<1>5. CASE code'[k].state = "void" /\ code'[k].guessed = code[k].guessed
  <2>1. Guessed' = Guessed
    BY <1>3, <1>5 DEF Guessed
  <2>2. \A j \in Codes : Fate'[j] = Fate[j] \/ (Fate[j] = "live" /\ Fate'[j] = "void")
    BY <1>1, <1>3, <1>5 DEF Fate
  <2>3. QED
    BY <1>4, <2>1, <2>2 DEF Fate, Guessed, Life!Next, Life!Void, Life!Unvoided
<1>6. CASE /\ code[k].guessed < MaxVerifyTries /\ code'[k].state \in {"live", "used"}
           /\ code'[k].guessed = code[k].guessed + 1
  <2>1. Guessed' = [Guessed EXCEPT ![k] = @ + 1]
    BY <1>3, <1>6 DEF Guessed
  <2>2. /\ Fate[k] = "live" /\ Guessed[k] < MaxVerifyTries /\ Fate'[k] \in {"live", "used"}
    BY <1>1, <1>6 DEF Fate, Guessed
  <2>3. QED
    BY <1>3, <1>4, <2>1, <2>2 DEF Fate, Guessed, Life!Next, Life!Guess
<1>7. QED
  BY <1>1, <1>5, <1>6 DEF GuessedTo

LEMMA LifeStep ==
  IInv /\ IInv' /\ [Next]_vars => [Life!Next]_<<Fate, Guessed>>
<1> SUFFICES ASSUME IInv, IInv', [Next]_vars PROVE Life!Next \/ UNCHANGED <<Fate, Guessed>>
  OBVIOUS
<1>1. CASE UNCHANGED code
  BY <1>1 DEF Fate, Guessed
<1>2. ASSUME NEW c \in Clients, NEW k \in Codes, SaveOTPCommit(c, k) PROVE Life!Next
  BY <1>2, SentOnce
<1>3. ASSUME NEW c \in Clients, NEW k, VerifyPhone(c, k) PROVE Life!Next
  <2>1. [at |-> "verifying"] \in Ops /\ "register" \in Purposes
    BY DEF Ops, Purposes
  <2>2. QED
    BY <1>3, <2>1, GuessedOnce DEF VerifyPhone
<1>4. ASSUME NEW c \in Clients, NEW k, NEW pw \in Passwords, ResetPassword(c, k, pw)
      PROVE  Life!Next
  <2>1. [at |-> "changing", password |-> pw] \in Ops /\ "reset_password" \in Purposes
    BY DEF Ops, Purposes
  <2>2. QED
    BY <1>4, <2>1, GuessedOnce DEF ResetPassword
<1>5. CASE \/ Tick \/ RaiseBcryptCost \/ UNCHANGED vars
           \/ \E c \in Clients :
                \/ CheckQuota(c) \/ SaveOTPBegin(c) \/ MarkPhoneVerified(c) \/ StartSession(c)
                \/ RecordLoginFailure(c) \/ RecordLoginSuccess(c) \/ RehashPassword(c)
                \/ UpdatePassword(c) \/ SoftDelete(c) \/ DropRequest(c)
                \/ \E p \in Purposes : RequestCode(c, p)
                \/ \E pw \in Passwords : Register(c, pw) \/ DeleteAccount(c, pw)
                \/ \E pw \in Passwords \union {None} : Login(c, pw)
                \/ \E current, pw \in Passwords : ChangePassword(c, current, pw)
  <2>1. UNCHANGED code
    BY <1>5 DEF Tick, RaiseBcryptCost, vars, CheckQuota, SaveOTPBegin, MarkPhoneVerified,
                StartSession, RecordLoginFailure, RecordLoginSuccess, RehashPassword,
                UpdatePassword, SoftDelete, DropRequest, RequestCode, Register,
                DeleteAccount, Login, ChangePassword
  <2>2. QED
    BY <1>1, <2>1
<1>6. QED
  BY <1>2, <1>3, <1>4, <1>5 DEF Next, Answer

(* Accounts implements CodeLife: whatever requests race, a code is good    *)
(* for one use and for MaxVerifyTries guesses, and never again once it was *)
(* used or withdrawn (ConsumeOTP, SaveOTP).                                *)
THEOREM CodesLive == Spec => CodeSpec
<1>1. Init => Life!Init
  BY DEF Init, Life!Init, NoCode
<1>2. IInv /\ IInv' /\ [Next]_vars => [Life!Next]_<<Fate, Guessed>>
  BY LifeStep
<1>3. QED
  BY <1>1, <1>2, Invariant, PTL
     DEF Spec, CodeSpec, Life!Spec, Life!vars, Fate, Guessed
=============================================================================
