------------------------------ MODULE Sessions ------------------------------
(***************************************************************************)
(* The sign-ins of one user: the sessions table behind the refresh tokens, *)
(* the stateless access tokens, and the denylist in Redis that takes an    *)
(* access token back (auth/service.go, auth/repository.go,                 *)
(* middleware/auth.go).                                                    *)
(*                                                                         *)
(* Transactions run READ COMMITTED.  An UPDATE of many rows is two steps,  *)
(* the rows its snapshot shows and the commit, so that a row inserted in   *)
(* between stays out of its reach; an UPDATE of one row is one step that   *)
(* looks at the row again.  The access token is signed in memory right     *)
(* after the commit of its session, in the same step.                      *)
(*                                                                         *)
(* now() is the start of a transaction: the steps that open one advance    *)
(* the clock, so that no two rows carry the same instant.                  *)
(***************************************************************************)
EXTENDS Integers, FiniteSets

CONSTANTS
  SessionIds,   \* the rows sessions will ever have; a row is one token pair
  Clients,      \* requests that may be under way at the same time
  None,         \* no request; no session
  PerSecond,    \* instants of the database clock in a second
  AccessTTL,    \* lifetime of an access token, in seconds
  Leeway,       \* what the verifier adds to it (clock skew), in seconds
  Margin,       \* what the denylist adds to it, in seconds
  RefreshTTL,   \* lifetime of a session row, in instants
  MaxDevices,   \* the plan's device limit
  MaxTime       \* bound of the clock

ASSUME SessionsAssumption ==
  /\ {PerSecond, MaxDevices} \subseteq Nat \ {0}
  /\ {AccessTTL, Leeway, Margin, RefreshTTL, MaxTime} \subseteq Nat

VARIABLES
  now,         \* the clock
  row,         \* sessions: state, family, created_at (= last_used_at)
  issued,      \* iat of the access token of a session, in seconds
  account,     \* users.status
  changedAt,   \* users.password_changed_at
  spared,      \* history: the families the last change of it spared
  denied,      \* Redis: when the denylist entry of a session disappears
  cutoff,      \* Redis: the user's cutoff second, and when it disappears
  op           \* what each client's request has read and does next

vars == <<now, row, issued, account, changedAt, spared, denied, cutoff, op>>
tables == <<row, issued, account, changedAt, spared>>
redis == <<denied, cutoff>>

Second(t) == t \div PerSecond

Row(state, family, at) == [state |-> state, family |-> family, at |-> at]

Init ==
  /\ now = 1
  /\ row = [s \in SessionIds |-> Row("none", s, 0)]
  /\ issued = [s \in SessionIds |-> 0]
  /\ account = "active"
  /\ changedAt = 0
  /\ spared = {}
  /\ denied = [s \in SessionIds |-> 0]
  /\ cutoff = [second |-> 0, until |-> 0]
  /\ op = [c \in Clients |-> None]

Tick == now < MaxTime /\ now' = now + 1 /\ UNCHANGED <<tables, redis, op>>

-----------------------------------------------------------------------------
(* What the tables say.                                                    *)

Stored == {s \in SessionIds : row[s].state # "none"}
Live == {s \in SessionIds : row[s].state = "live"}
Family(s) == {r \in Live : row[r].family = row[s].family}

ExpiresAt(s) == row[s].at + RefreshTTL

\* The devices ListSessions shows at t.
Listed(t) == {s \in Live : ExpiresAt(s) > t}

\* Mutant: the change of the password is not looked at.
MayRefreshAnyway(s) ==
  row[s].state = "live" /\ ExpiresAt(s) >= now /\ account = "active"

\* What Refresh requires of a session it found and of its user.
MayRefresh(s) ==
  /\ row[s].state = "live" /\ ExpiresAt(s) >= now
  /\ account = "active" /\ changedAt <= row[s].at

(* What an access token is worth: signed, not expired, and neither its     *)
(* session nor its user on the denylist.                                   *)
Unexpired(s) == s \in Stored /\ now < (issued[s] + AccessTTL + Leeway) * PerSecond
OnDenylist(s) == now < denied[s]
CutOff(s) == now < cutoff.until /\ issued[s] < cutoff.second
Accepted(s) == Unexpired(s) /\ ~OnDenylist(s) /\ ~CutOff(s)

\* Mutant: entries that live no longer than the tokens' own time.
EntryTTLOfToken == AccessTTL * PerSecond

\* How long an entry of the denylist lives.
EntryTTL == (AccessTTL + Margin) * PerSecond
-----------------------------------------------------------------------------
(* The steps of a request.                                                 *)

At(c, phase) == op[c] # None /\ op[c].at = phase
Proceed(c, o) == op' = [op EXCEPT ![c] = o]
Begin == now < MaxTime /\ now' = now + 1

\* A random token and a random id: never one that is taken.
Holds(c) == op[c] # None /\ op[c].at \in {"starting", "trimmed", "rotating"}
Fresh(s) == s \notin Stored /\ \A c \in Clients : Holds(c) => op[c].new # s

Revoked(R) ==
  [s \in SessionIds |-> IF s \in R THEN Row("revoked", row[s].family, row[s].at) ELSE row[s]]

(* Login with the right password, or VerifyPhone with the right code.      *)
Login(c) ==
  /\ op[c] = None /\ account = "active"
  /\ Proceed(c, [at |-> "login"])
  /\ UNCHANGED <<now, tables, redis>>

CreateSession(c, s) ==
  /\ At(c, "login") /\ Fresh(s) /\ Begin
  /\ Proceed(c, [at |-> "starting", new |-> s, began |-> now])
  /\ UNCHANGED <<tables, redis>>

\* Mutants: one device too many; the order the other way round.
BeyondLimitAndOne(S, used) ==
  {s \in S : Cardinality({r \in S : used[r] > used[s]}) > MaxDevices}
BeyondLimitAscending(S, used) ==
  {s \in S : Cardinality({r \in S : used[r] < used[s]}) >= MaxDevices}

(* The rows beyond the limit, newest first: those with MaxDevices or more  *)
(* rows that were used after them.                                         *)
BeyondLimit(S, used) ==
  {s \in S : Cardinality({r \in S : used[r] > used[s]}) >= MaxDevices}

TrimSessions(c) ==
  /\ At(c, "starting")
  /\ LET o == op[c]
         listed == Listed(o.began) \union {o.new}
         used == [s \in listed |-> IF s = o.new THEN o.began ELSE row[s].at]
     IN  Proceed(c, [at |-> "trimmed", new |-> o.new, began |-> o.began,
                     victims |-> BeyondLimit(listed, used)])
  /\ UNCHANGED <<now, tables, redis>>

StartSession(c) ==
  /\ At(c, "trimmed")
  /\ LET o == op[c]
         state == IF o.new \in o.victims THEN "revoked" ELSE "live"
     IN  /\ row' = [Revoked(o.victims) EXCEPT ![o.new] = Row(state, o.new, o.began)]
         /\ issued' = [issued EXCEPT ![o.new] = Second(now)]
  /\ Proceed(c, None)
  /\ UNCHANGED <<now, account, changedAt, spared, redis>>
-----------------------------------------------------------------------------
(* Signing out many rows at once.  A sweep goes from "sweep" (the          *)
(* transaction is open) to "swept" (the statement has seen its rows) to    *)
(* the commit, and then, except after a password change, to Redis.         *)

UserWriters == {"change", "reset", "delete"}
Kinds == UserWriters \union {"logout", "reuse"}

OpenSweep(c, kind, s) ==
  /\ op[c] = None /\ Begin
  /\ Proceed(c, [at |-> "sweep", kind |-> kind, session |-> s, began |-> now])
  /\ UNCHANGED <<tables, redis>>

\* RevokeFamily, or RevokeAllForUser with or without an exception.
Swept(kind, s) == CASE kind = "reuse" -> Family(s)
                    [] kind = "change" -> Live \ {s}
                    [] OTHER -> Live

(* The writers of the users row wait for each other, and find no row once  *)
(* the account is deleted.                                                 *)
SweepRows(c) ==
  /\ At(c, "sweep")
  /\ LET o == op[c] IN
       IF o.kind \in UserWriters /\ account # "active"
       THEN Proceed(c, None)
       ELSE /\ o.kind \in UserWriters =>
                 \A d \in Clients : ~(At(d, "swept") /\ op[d].kind \in UserWriters)
            /\ Proceed(c, [at |-> "swept", kind |-> o.kind, session |-> o.session,
                           began |-> o.began, victims |-> Swept(o.kind, o.session)])
  /\ UNCHANGED <<now, tables, redis>>

\* Mutant: every sweep goes on to the cutoff.
AlwaysCutoff(kind) == [at |-> "cutoff", kind |-> kind]

\* ChangePassword ends with its commit, all others go on to Redis.
AfterSweep(kind) == IF kind = "change" THEN None ELSE [at |-> "cutoff", kind |-> kind]

(* The families that outlive a change or a reset: that of the session a    *)
(* change is made with, and those with a refresh beside the change, under  *)
(* way as it commits or done since it began.                               *)
Spares(c) ==
  LET o == op[c]
      kept == {o.session} \intersect SessionIds
      refreshing == {op[d].session : d \in {d \in Clients : At(d, "refresh") \/ At(d, "rotating")}}
      begunSince == {s \in Live \ o.victims : row[s].at > o.began}
  IN  {row[s].family : s \in kept \union refreshing \union begunSince}

CommitSweep(c) ==
  /\ At(c, "swept")
  /\ LET o == op[c] IN
       /\ row' = Revoked(o.victims)
       /\ changedAt' = IF o.kind \in {"change", "reset"} THEN o.began ELSE changedAt
       /\ spared' = IF o.kind \in {"change", "reset"} THEN Spares(c) ELSE spared
       /\ account' = IF o.kind = "delete" THEN "deleted" ELSE account
       /\ Proceed(c, AfterSweep(o.kind))
  /\ UNCHANGED <<now, issued, redis>>

(* Refresh goes on to the cutoff when the revocation of the family failed. *)
BurnFails(c) ==
  /\ At(c, "sweep") /\ op[c].kind = "reuse"
  /\ Proceed(c, [at |-> "cutoff", kind |-> "reuse"])
  /\ UNCHANGED <<now, tables, redis>>

(* The cutoff is computed in the server and then sent.                     *)
ReadCutoff(c) ==
  /\ At(c, "cutoff")
  /\ Proceed(c, [at |-> "send", kind |-> op[c].kind, second |-> Second(now)])
  /\ UNCHANGED <<now, tables, redis>>

RevokeAllForUser(c) ==
  /\ At(c, "send")
  /\ cutoff' = [second |-> op[c].second, until |-> now + EntryTTL]
  /\ Proceed(c, None)
  /\ UNCHANGED <<now, tables, denied>>
-----------------------------------------------------------------------------
(* Refresh with the token of s.                                            *)

Refresh(c, s) ==
  /\ op[c] = None /\ MayRefresh(s)
  /\ Proceed(c, [at |-> "refresh", session |-> s])
  /\ UNCHANGED <<now, tables, redis>>

RefreshReused(c, s) == row[s].state = "revoked" /\ OpenSweep(c, "reuse", s)

OpenRotation(c, n) ==
  /\ At(c, "refresh") /\ Fresh(n) /\ Begin
  /\ Proceed(c, [at |-> "rotating", session |-> op[c].session, new |-> n, began |-> now])
  /\ UNCHANGED <<tables, redis>>

\* Mutant: a rotation that trusts what it read.
OnceLive(s) == row[s].state # "none"

\* The UPDATE of the old row looks at it again.
StillLive(s) == row[s].state = "live"

RotateSession(c) ==
  /\ At(c, "rotating")
  /\ LET o == op[c]
         old == o.session
     IN  IF StillLive(old)
         THEN /\ row' = [Revoked({old}) EXCEPT ![o.new] = Row("live", row[old].family, o.began)]
              /\ issued' = [issued EXCEPT ![o.new] = Second(now)]
         ELSE UNCHANGED <<row, issued>>
  /\ Proceed(c, None)
  /\ UNCHANGED <<now, account, changedAt, spared, redis>>
-----------------------------------------------------------------------------
(* Requests of a signed-in client, made with the access token of s.        *)

LogoutAll(c, s) == Accepted(s) /\ OpenSweep(c, "logout", None)

ChangePassword(c, s) == Accepted(s) /\ account = "active" /\ OpenSweep(c, "change", s)

DeleteAccount(c, s) == Accepted(s) /\ account = "active" /\ OpenSweep(c, "delete", None)

(* Logout without a body: the session the access token names.              *)
Logout(c, s) ==
  /\ op[c] = None /\ Accepted(s)
  /\ Proceed(c, [at |-> "logout", session |-> s])
  /\ UNCHANGED <<now, tables, redis>>

(* Logout with the refresh token of r: its row, if it is still live; the   *)
(* denylist falls back to the access token's session.                      *)
LogoutByToken(c, s, r) ==
  /\ op[c] = None /\ Accepted(s) /\ r \in Stored
  /\ row' = Revoked({r} \intersect Live)
  /\ Proceed(c, [at |-> "deny", session |-> IF r \in Live THEN r ELSE s])
  /\ UNCHANGED <<now, issued, account, changedAt, spared, redis>>

(* Ending the listed device t.                                             *)
RevokeSession(c, s, t) ==
  /\ op[c] = None /\ Accepted(s) /\ t \in Listed(now)
  /\ Proceed(c, [at |-> "revoke", session |-> t])
  /\ UNCHANGED <<now, tables, redis>>

(* A row that is gone is no error for Logout, and one for RevokeSession.   *)
EndSession(c) ==
  /\ At(c, "logout") \/ At(c, "revoke")
  /\ LET s == op[c].session IN
       /\ row' = Revoked({s} \intersect Live)
       /\ Proceed(c, IF At(c, "revoke") /\ s \notin Live THEN None
                     ELSE [at |-> "deny", session |-> s])
  /\ UNCHANGED <<now, issued, account, changedAt, spared, redis>>

DenySession(c) ==
  /\ At(c, "deny")
  /\ denied' = [denied EXCEPT ![op[c].session] = now + EntryTTL]
  /\ Proceed(c, None)
  /\ UNCHANGED <<now, tables, cutoff>>

(* A reset needs a code, not a token.                                      *)
ResetPassword(c) == account = "active" /\ OpenSweep(c, "reset", None)

(* A transaction rolls back, Redis refuses a write, the process stops.     *)
Abort(c) ==
  /\ op[c] # None
  /\ Proceed(c, None)
  /\ UNCHANGED <<now, tables, redis>>
-----------------------------------------------------------------------------
Request(c) ==
  \/ Login(c) \/ ResetPassword(c)
  \/ \E s \in SessionIds :
       \/ Refresh(c, s) \/ RefreshReused(c, s)
       \/ Logout(c, s) \/ LogoutAll(c, s)
       \/ ChangePassword(c, s) \/ DeleteAccount(c, s)
       \/ \E r \in SessionIds : LogoutByToken(c, s, r) \/ RevokeSession(c, s, r)

Step(c) ==
  \/ \E s \in SessionIds : CreateSession(c, s) \/ OpenRotation(c, s)
  \/ TrimSessions(c) \/ StartSession(c) \/ RotateSession(c)
  \/ SweepRows(c) \/ CommitSweep(c) \/ BurnFails(c)
  \/ ReadCutoff(c) \/ RevokeAllForUser(c)
  \/ EndSession(c) \/ DenySession(c)
  \/ Abort(c)

Next == Tick \/ \E c \in Clients : Request(c) \/ Step(c)

Spec == Init /\ [][Next]_vars
-----------------------------------------------------------------------------
StartingType == [at : {"starting"}, new : SessionIds, began : Nat]
TrimmedType ==
  [at : {"trimmed"}, new : SessionIds, began : Nat, victims : SUBSET SessionIds]
RotatingType == [at : {"rotating"}, session : SessionIds, new : SessionIds, began : Nat]
SessionType == [at : {"refresh", "logout", "revoke", "deny"}, session : SessionIds]
SweepType ==
  [at : {"sweep"}, kind : Kinds, session : SessionIds \union {None}, began : Nat]
SweptType ==
  [at : {"swept"}, kind : Kinds, session : SessionIds \union {None}, began : Nat,
   victims : SUBSET SessionIds]
CutoffType == [at : {"cutoff"}, kind : Kinds \ {"change"}]
SendType == [at : {"send"}, kind : Kinds \ {"change"}, second : Nat]
OpType ==
  {None} \union [at : {"login"}] \union StartingType \union TrimmedType
  \union RotatingType \union SessionType \union SweepType \union SweptType
  \union CutoffType \union SendType

(* The type of the state.                                                  *)
TypeOK ==
  /\ now \in Nat
  /\ row \in [SessionIds -> [state : {"none", "live", "revoked"}, family : SessionIds, at : Nat]]
  /\ issued \in [SessionIds -> Nat]
  /\ account \in {"active", "deleted"}
  /\ changedAt \in Nat
  /\ spared \in SUBSET SessionIds
  /\ denied \in [SessionIds -> Nat]
  /\ cutoff \in [second : Nat, until : Nat]
  /\ op \in [Clients -> OpType]

(* A refresh token is good for one successor: however many requests        *)
(* present the tokens of a family at once, rotate them or burn it, at most *)
(* one session of the family is live.                                      *)
OneLivePerFamily ==
  \A r, s \in Live : row[r].family = row[s].family => r = s

(* A sign-in that ended, by logout, revocation, theft or the device limit, *)
(* is never resumed by a rotation that was under way.                      *)
LifeOf(f) == LET members == {s \in Stored : row[s].family = f}
             IN  IF members = {} THEN "new"
                 ELSE IF members \intersect Live # {} THEN "in" ELSE "out"
Device == INSTANCE DeviceLife WITH
            SignIns <- SessionIds, life <- [f \in SessionIds |-> LifeOf(f)]
DeviceSpec == Device!Spec

(* Sign-ins that do not meet another sign-in or a refresh keep to the      *)
(* device limit, for the sessions that have not expired.                   *)
DeviceLimit == Cardinality(Listed(now)) <= MaxDevices

(* A sign-in beyond the limit ends the sessions used longest ago: none     *)
(* that it ends was used after one that it leaves, and it leaves its own.  *)
OldestGo ==
  [][\A c \in Clients : At(c, "trimmed") /\ row'[op[c].new] # row[op[c].new] =>
       \A s \in (Listed(op[c].began) \union {op[c].new}) \ Live' :
         /\ s # op[c].new
         /\ \A r \in Listed(now)' : row'[r].at > row'[s].at]_vars

(* Logout, revocation and the cutoff take an access token back for good:   *)
(* once refused it is refused until it expires, although the entries of    *)
(* the denylist expire as well, and are overwritten.                       *)
RefusedStaysRefused ==
  [][\A s \in Stored : ~Accepted(s) => ~Accepted(s)']_vars

(* A password changed because somebody else knows it locks them out: who   *)
(* signed in before the last change or reset does not get a new session    *)
(* after it by refreshing, not even a sign-in that committed beside it.    *)
(* Excepted are the session the change was made with, which is to survive  *)
(* (docs/api/03-auth.md:547), and a refresh beside the change.             *)
NoSessionAcrossChange ==
  \A s \in Live : row[s].at > changedAt =>
    row[row[s].family].at > changedAt \/ row[s].family \in spared
=============================================================================
