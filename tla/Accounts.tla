------------------------------ MODULE Accounts ------------------------------
(***************************************************************************)
(* The account behind one phone number, and the ways to prove it is yours: *)
(* registration, one-time codes, the password, the lock after too many     *)
(* wrong passwords, the background rehash and the closing of the account   *)
(* (auth/service.go, auth/repository.go, user/service.go).                 *)
(*                                                                         *)
(* Requests of several clients interleave at their SQL statements; the     *)
(* client's slot also carries the goroutine a login leaves behind.         *)
(* A transaction that waits for the row lock of another and then finds its *)
(* row gone changes nothing, so such a wait is no step here.               *)
(* A number freed by closing its account is not registered again.          *)
(***************************************************************************)
EXTENDS Integers, FiniteSets

CONSTANTS
  Codes,             \* the random codes that may ever be made
  Passwords,         \* what people choose as a password
  Clients,           \* requests that may be under way at the same time
  None,              \* no request; a code or a password that is none of these
  Cooldown,          \* Cfg.OTP.ResendCooldown
  MaxPerWindow,      \* Cfg.OTP.MaxPerWindow
  Window,            \* Cfg.OTP.Window
  TTL,               \* Cfg.OTP.TTL
  MaxVerifyTries,    \* Cfg.OTP.MaxVerifyTries
  MaxLoginAttempts,  \* Cfg.Auth.MaxLoginAttempts
  LoginLockWindow,   \* Cfg.Auth.LoginLockWindow
  PhoneLength,       \* characters of a phone number as NormalizePhone leaves it
  PhoneColumn,       \* width of users.phone
  MaxRequests,       \* bound of the requests ever made
  MaxTime            \* bound of the clock

ASSUME AccountsAssumption ==
  /\ {Cooldown, Window, TTL, LoginLockWindow, MaxTime, MaxRequests} \subseteq Nat
  /\ {MaxPerWindow, MaxVerifyTries, MaxLoginAttempts} \subseteq Nat \ {0}
  /\ {PhoneLength, PhoneColumn} \subseteq Nat
  /\ IsFiniteSet(Clients)

Purposes == {"register", "reset_password"}

VARIABLES
  now,        \* the clock
  user,       \* the users row of the phone number
  code,       \* otp_codes
  signedIn,   \* a session was started for the account
  wrong,      \* the wrong passwords counted since the counter was cleared
  op,         \* what each client's request has read and does next
  requests    \* how many requests there were

vars == <<now, user, code, signedIn, wrong, op, requests>>

\* How far a number is pushed out of the way when its account is closed.
DeletedSuffix == 19   \* '.deleted.' and the epoch seconds

NoCode == [state |-> "none", purpose |-> "register", at |-> 0, saved |-> 0, tries |-> 0,
           guessed |-> 0]
NoGuess == [n |-> 0, at |-> 0]

Unregistered(pw) ==
  [state |-> "none", verified |-> FALSE, password |-> pw, stale |-> FALSE,
   failed |-> 0, lockedUntil |-> 0]

Init ==
  /\ now = 1
  /\ user \in {Unregistered(pw) : pw \in Passwords}
  /\ code = [k \in Codes |-> NoCode]
  /\ signedIn = FALSE
  /\ wrong = NoGuess
  /\ op = [c \in Clients |-> None]
  /\ requests = 0

-----------------------------------------------------------------------------
(* What the tables say.                                                    *)

Registered == user.state = "active"
IsLocked(u) == u.lockedUntil > now

Sent(p) == {k \in Codes : code[k].state # "none" /\ code[k].purpose = p}
Live(p) == {k \in Sent(p) : code[k].state = "live" /\ code[k].at + TTL > now}
CountRecentOTPs(p) == Cardinality({k \in Sent(p) : code[k].at > now - Window})
CoolingDown(p) == \E k \in Sent(p) : code[k].at + Cooldown > now

\* Mutant: the check of the window quota is gone.
NoQuota(p, lastRead) == lastRead => ~CoolingDown(p)

\* issueOTP goes on only when neither the cooldown nor the quota refuses; a
\* failed read of the last code is taken for no code.
MayIssue(p, lastRead) ==
  (lastRead => ~CoolingDown(p)) /\ CountRecentOTPs(p) < MaxPerWindow

At(c, phase) == op[c] # None /\ op[c].at = phase
Proceed(c, o) == op' = [op EXCEPT ![c] = o]
Done(c) == Proceed(c, None)
Begin(c) == op[c] = None /\ requests < MaxRequests /\ requests' = requests + 1
Asking(p) == [at |-> "asking", purpose |-> p]

Tick == now < MaxTime /\ now' = now + 1 /\ UNCHANGED <<user, code, signedIn, wrong, op, requests>>

(* A request ends early: its context is cancelled, a statement fails, or   *)
(* the server goes down; an open transaction is rolled back.               *)
DropRequest(c) ==
  /\ op[c] # None /\ Done(c)
  /\ UNCHANGED <<now, user, code, signedIn, wrong, requests>>

(* The configured bcrypt cost goes up: the stored hash is of an older one. *)
RaiseBcryptCost ==
  /\ Registered /\ ~user.stale
  /\ user' = [user EXCEPT !.stale = TRUE]
  /\ UNCHANGED <<now, code, signedIn, wrong, op, requests>>
-----------------------------------------------------------------------------
(* One-time codes.                                                         *)

(* POST /auth/register: the account commits before a code is asked for.    *)
Register(c, pw) ==
  /\ Begin(c) /\ user.state = "none"
  /\ user' = [Unregistered(pw) EXCEPT !.state = "active"]
  /\ wrong' = NoGuess
  /\ Proceed(c, Asking("register"))
  /\ UNCHANGED <<now, code, signedIn>>

(* POST /auth/otp/resend and /auth/password/forgot.  A number without an   *)
(* account is answered as if a code had been sent.                         *)
RequestCode(c, p) ==
  /\ Begin(c) /\ Registered
  /\ Proceed(c, Asking(p))
  /\ UNCHANGED <<now, user, code, signedIn, wrong>>

CheckQuota(c) ==
  /\ At(c, "asking")
  /\ \E lastRead \in BOOLEAN :
       Proceed(c, IF MayIssue(op[c].purpose, lastRead)
                  THEN [op[c] EXCEPT !.at = "issuing"] ELSE None)
  /\ UNCHANGED <<now, user, code, signedIn, wrong, requests>>

\* Mutant: only codes that were never guessed at are withdrawn.
WithdrawnUntried(p) == {k \in Live(p) : code[k].tries = 0}

\* The rows the first statement of SaveOTP marks as consumed.
Withdrawn(p) == Live(p)

(* SaveOTP, first statement: the rows its snapshot shows.                  *)
SaveOTPBegin(c) ==
  /\ At(c, "issuing")
  /\ Proceed(c, [at |-> "saving", purpose |-> op[c].purpose,
                 seen |-> Withdrawn(op[c].purpose), began |-> now])
  /\ UNCHANGED <<now, user, code, signedIn, wrong, requests>>

(* SaveOTP, insert and commit; then the code is sent, or fails to be.      *)
SaveOTPCommit(c, k) ==
  /\ At(c, "saving") /\ code[k].state = "none"
  /\ code' = [j \in Codes |->
       IF j = k THEN [state |-> "live", purpose |-> op[c].purpose,
                      at |-> op[c].began, saved |-> now, tries |-> 0,
                      guessed |-> 0]
       ELSE IF j \in op[c].seen /\ code[j].state = "live"
            THEN [code[j] EXCEPT !.state = "void", !.saved = 0] ELSE code[j]]
  /\ Done(c)
  /\ UNCHANGED <<now, user, signedIn, wrong, requests>>

\* Rows a SaveOTP under way has locked.
Withdrawing == UNION {IF At(c, "saving") THEN op[c].seen ELSE {} : c \in Clients}
Newest(K) == {k \in K : \A j \in K : code[j].at <= code[k].at}

\* Mutant: the code is looked up by phone number only.
NewestOfAnyPurpose(p) == Newest(Live("register") \union Live("reset_password"))

\* The row SELECT ... ORDER BY created_at DESC LIMIT 1 FOR UPDATE returns.
LiveCode(p) == Newest(Live(p)) \ Withdrawing

\* Mutant: the attempt counter is not persisted for a wrong code.
VerifiedOnly(row, matched) ==
  IF row.tries >= MaxVerifyTries THEN [row EXCEPT !.state = "void"]
  ELSE IF matched THEN [row EXCEPT !.tries = @ + 1, !.state = "used"] ELSE row

\* A row after a guess: burnt when it was guessed at too often.
Attempted(row, matched) ==
  IF row.tries >= MaxVerifyTries THEN [row EXCEPT !.state = "void"]
  ELSE [row EXCEPT !.tries = @ + 1, !.state = IF matched THEN "used" ELSE @]

\* Unless the row was burnt, the guess was compared with it (auxiliary count).
Compared(row) == IF row.state = "void" THEN row ELSE [row EXCEPT !.guessed = @ + 1]

(* ConsumeOTP for one of the codes, or for something that is none: the     *)
(* request goes on as `next` if it was the right one.                      *)
ConsumeOTP(c, p, guess, next) ==
  /\ Begin(c)
  /\ \E k \in LiveCode(p) :
       /\ code' = [code EXCEPT ![k] = Compared(Attempted(@, guess = k))]
       /\ Proceed(c, IF code'[k].state = "used" THEN next ELSE None)
  /\ UNCHANGED <<now, user, signedIn, wrong>>

VerifyPhone(c, guess) == ConsumeOTP(c, "register", guess, [at |-> "verifying"])

MarkPhoneVerified(c) ==
  /\ At(c, "verifying")
  /\ IF Registered
     THEN user' = [user EXCEPT !.verified = TRUE] /\ Proceed(c, [at |-> "signing", login |-> FALSE])
     ELSE UNCHANGED user /\ Done(c)
  /\ UNCHANGED <<now, code, signedIn, wrong, requests>>

ResetPassword(c, guess, pw) ==
  ConsumeOTP(c, "reset_password", guess, [at |-> "changing", password |-> pw])
-----------------------------------------------------------------------------
(* Passwords.                                                              *)

(* Login on the row it has read: a lock refuses, a wrong password is       *)
(* recorded next, an unverified number gets a code and no session.         *)
Login(c, pw) ==
  /\ Begin(c) /\ Registered /\ ~IsLocked(user)
  /\ Proceed(c,
       IF pw # user.password THEN [at |-> "failing", failed |-> user.failed]
       ELSE IF ~user.verified THEN Asking("register")
       ELSE [at |-> "signing", login |-> TRUE, password |-> pw, stale |-> user.stale])
  /\ UNCHANGED <<now, user, code, signedIn, wrong>>

\* Mutant: the count the login has read is written back.
CountedFromRead(u, read) ==
  [u EXCEPT !.failed = read + 1,
            !.lockedUntil = IF read + 1 >= MaxLoginAttempts THEN now + LoginLockWindow ELSE @]

\* The row after one more failure; `read` is the count the login has seen.
Counted(u, read) ==
  [u EXCEPT !.failed = @ + 1,
            !.lockedUntil = IF u.failed + 1 >= MaxLoginAttempts
                            THEN now + LoginLockWindow ELSE @]

RecordLoginFailure(c) ==
  /\ At(c, "failing")
  /\ user' = Counted(user, op[c].failed)
  /\ wrong' = [n |-> wrong.n + 1, at |-> now]
  /\ Done(c)
  /\ UNCHANGED <<now, code, signedIn, requests>>

StartSession(c) ==
  /\ At(c, "signing")
  /\ signedIn' = TRUE
  /\ Proceed(c, IF op[c].login THEN [op[c] EXCEPT !.at = "stamping"] ELSE None)
  /\ UNCHANGED <<now, user, code, wrong, requests>>

Forgiven(u) == [u EXCEPT !.failed = 0, !.lockedUntil = 0]

(* A hash of an older cost is upgraded by a goroutine, after the answer.   *)
RecordLoginSuccess(c) ==
  /\ At(c, "stamping")
  /\ user' = Forgiven(user) /\ wrong' = NoGuess
  /\ Proceed(c, IF op[c].stale THEN [op[c] EXCEPT !.at = "rehashing"] ELSE None)
  /\ UNCHANGED <<now, code, signedIn, requests>>

RehashPassword(c) ==
  /\ At(c, "rehashing")
  /\ user' = [user EXCEPT !.password = op[c].password, !.stale = FALSE]
  /\ Done(c)
  /\ UNCHANGED <<now, code, signedIn, wrong, requests>>

(* The current password is compared, then the new one is hashed.           *)
ChangePassword(c, current, pw) ==
  /\ Begin(c) /\ signedIn /\ current = user.password
  /\ Proceed(c, [at |-> "changing", password |-> pw])
  /\ UNCHANGED <<now, user, code, signedIn, wrong>>

UpdatePassword(c) ==
  /\ At(c, "changing")
  /\ IF Registered
     THEN /\ user' = [Forgiven(user) EXCEPT !.password = op[c].password, !.stale = FALSE]
          /\ wrong' = NoGuess
     ELSE UNCHANGED <<user, wrong>>
  /\ Done(c)
  /\ UNCHANGED <<now, code, signedIn, requests>>

DeleteAccount(c, pw) ==
  /\ Begin(c) /\ signedIn /\ pw = user.password
  /\ Proceed(c, [at |-> "deleting"])
  /\ UNCHANGED <<now, user, code, signedIn, wrong>>

(* DeleteAccount's transaction.  The number is renamed out of the way; a   *)
(* value too long for its column fails it, and the request with it.        *)
SoftDelete(c) ==
  /\ At(c, "deleting")
  /\ user' = IF PhoneLength + DeletedSuffix <= PhoneColumn
             THEN [user EXCEPT !.state = "closed"] ELSE user
  /\ Done(c)
  /\ UNCHANGED <<now, code, signedIn, wrong, requests>>

Answer(c) ==
  \/ CheckQuota(c) \/ SaveOTPBegin(c) \/ MarkPhoneVerified(c) \/ StartSession(c)
  \/ RecordLoginFailure(c) \/ RecordLoginSuccess(c) \/ RehashPassword(c)
  \/ UpdatePassword(c) \/ SoftDelete(c)
  \/ \E k \in Codes : SaveOTPCommit(c, k)

Next ==
  \/ Tick \/ RaiseBcryptCost
  \/ \E c \in Clients :
       \/ Answer(c) \/ DropRequest(c)
       \/ \E p \in Purposes : RequestCode(c, p)
       \/ \E k \in Codes \union {None} : VerifyPhone(c, k)
       \/ \E k \in Codes \union {None}, pw \in Passwords : ResetPassword(c, k, pw)
       \/ \E pw \in Passwords : Register(c, pw) \/ DeleteAccount(c, pw)
       \/ \E pw \in Passwords \union {None} : Login(c, pw)
       \/ \E current, pw \in Passwords : ChangePassword(c, current, pw)

Spec == Init /\ [][Next]_vars
-----------------------------------------------------------------------------
(* Properties.                                                             *)

Ops ==
  {None} \union [at : {"verifying", "deleting"}]
         \union [at : {"asking", "issuing"}, purpose : Purposes]
         \union [at : {"saving"}, purpose : Purposes, seen : SUBSET Codes, began : Nat]
         \union [at : {"changing"}, password : Passwords]
         \union [at : {"failing"}, failed : Nat]
         \union [at : {"signing"}, login : {FALSE}]
         \union [at : {"signing", "stamping", "rehashing"}, login : {TRUE},
                 password : Passwords, stale : BOOLEAN]

(* The type invariant.                                                     *)
TypeOK ==
  /\ now \in Nat
  /\ requests \in Nat
  /\ user \in [state : {"none", "active", "closed"}, verified : BOOLEAN, password : Passwords,
               stale : BOOLEAN, failed : Nat, lockedUntil : Nat]
  /\ code \in [Codes -> [state : {"none", "live", "used", "void"}, purpose : Purposes,
                         at : Nat, saved : Nat, tries : Nat, guessed : Nat]]
  /\ signedIn \in BOOLEAN
  /\ wrong \in [n : Nat, at : Nat]
  /\ op \in [Clients -> Ops]

(* The life of the codes: each is good for one use, for MaxVerifyTries     *)
(* guesses whatever races, and never again once used or withdrawn.         *)
Life == INSTANCE CodeLife WITH
  MaxTries <- MaxVerifyTries,
  fate <- [k \in Codes |-> code[k].state],
  tries <- [k \in Codes |-> code[k].guessed]

CodeSpec == Life!Spec

(* Nobody has a verified number or a session without having entered a      *)
(* registration code: a reset code proves the number too, but its account  *)
(* stays unverified.  Nothing loses its type on the way.                   *)
VerifiedByCode ==
  /\ TypeOK
  /\ user.verified \/ signedIn \/ (\E c \in Clients : At(c, "verifying"))
       => \E k \in Sent("register") : code[k].state = "used"

(* The codes paid for in any window: the quota, and what the other         *)
(* requests that had passed the check by then may add.                     *)
QuotaHolds ==
  \A p \in Purposes : \A t \in 0..now :
    Cardinality({k \in Sent(p) : code[k].at \in (t - Window + 1)..t})
      < MaxPerWindow + Cardinality(Clients)

(* "An old SMS the user scrolls back to cannot be used after a resend":    *)
(* two codes work at the same time only if they were saved concurrently.   *)
SupersededDead ==
  \A p \in Purposes : \A j, k \in Live(p) : code[j].saved < code[k].at => j = k

(* No guess of a parallel burst is lost: once MaxLoginAttempts wrong       *)
(* passwords were recorded, the account is locked from the last of them.   *)
BurstLocks ==
  wrong.n >= MaxLoginAttempts => user.lockedUntil = wrong.at + LoginLockWindow
=============================================================================
