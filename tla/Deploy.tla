------------------------------- MODULE Deploy -------------------------------
(***************************************************************************)
(* The life of the API's containers on one database: each replica connects,*)
(* migrates the schema under an advisory lock, connects to Redis, serves,  *)
(* drains when it is told to stop, and closes its pool, which waits for    *)
(* the connections that are out; its container starts it again.            *)
(* (cmd/api/main.go, app/app.go, infrastructure/database/migrate.go)       *)
(*                                                                         *)
(* Replicas of several releases run side by side.  Version v of the schema *)
(* is the v-th migration file, and a release knows it by a checksum.       *)
(***************************************************************************)
EXTENDS Integers, Sequences, Functions

CONSTANTS
  Replicas,
  Files,      \* per replica, the checksums of its release's files
  None,       \* no checksum, no owner of the lock
  Lost,       \* owner of a lock whose client is gone
  MaxWork,    \* bound of the requests a replica works on
  MaxConns,   \* size of a replica's pool
  MaxFaults   \* bound of the outages, crashes and failing statements

Versions == UNION {DOMAIN Files[r] : r \in Replicas}

ASSUME DeployAssumption ==
  /\ \A r \in Replicas : Files[r] \in Seq(STRING) /\ Len(Files[r]) > 0
  /\ None # Lost /\ {None, Lost} \intersect (Replicas \union UNION {Range(Files[r]) : r \in Replicas}) = {}
  /\ MaxWork \in Nat /\ MaxConns \in Nat /\ MaxFaults \in Nat

VARIABLES
  up,       \* which of the services can be reached
  legacy,   \* the database is one of the old EnsureSchema() bootstrap
  applied,  \* schema_migrations: the checksum recorded for a version
  ran,      \* how often the body of a version was committed
  lock,     \* whose session holds the advisory lock
  phase,    \* where a replica stands
  seen,     \* what loadApplied has returned to it
  next,     \* the file it comes to
  failure,  \* why its last start failed
  work,     \* the requests it works on
  conns,    \* the connections its pool has given out
  faults    \* how many faults there were

vars == <<up, legacy, applied, ran, lock, phase, seen, next, failure,
          work, conns, faults>>
schema == <<legacy, applied, ran>>
boot == <<seen, next, failure>>
load == <<work, conns>>

Services == {"database", "redis"}
Unapplied == [v \in Versions |-> None]

Init ==
  /\ up = Services
  /\ legacy \in BOOLEAN
  /\ applied = Unapplied
  /\ ran = [v \in Versions |-> 0]
  /\ lock = None
  /\ phase = [r \in Replicas |-> "down"]
  /\ seen = [r \in Replicas |-> Unapplied]
  /\ next = [r \in Replicas |-> 1]
  /\ failure = [r \in Replicas |-> "none"]
  /\ work = [r \in Replicas |-> 0]
  /\ conns = [r \in Replicas |-> 0]
  /\ faults = 0

At(r, p) == phase[r] = p
Goto(r, p) == phase' = [phase EXCEPT ![r] = p]
Fault == faults < MaxFaults /\ faults' = faults + 1

-----------------------------------------------------------------------------
(* PostgreSQL sessions and the migration lock.                             *)

(* A start that fails gives the lock back, like one that succeeds: run     *)
(* returns and the process exits.                                          *)
Unlock(r) == lock' = IF lock = r THEN None ELSE lock
LoseSession(r) == lock' = IF lock = r THEN Lost ELSE lock

ForgetFiles(r) ==
  seen' = [seen EXCEPT ![r] = Unapplied] /\ next' = [next EXCEPT ![r] = 1]

BootEnds(r, why) ==
  /\ Goto(r, "down") /\ failure' = [failure EXCEPT ![r] = why]
  /\ ForgetFiles(r)

BootFails(r, why) == BootEnds(r, why) /\ Unlock(r)

\* Mutant: a lock that is not the session's.
LockOutlives == UNCHANGED lock

EndSession == lock' = None

(* PostgreSQL notices that the client of a session is gone.                *)
SessionEnds ==
  /\ lock = Lost /\ EndSession
  /\ UNCHANGED <<up, schema, phase, boot, load, faults>>

\* Mutant: replicas migrate without waiting for each other.
MayLockAlways == TRUE

MayLock == lock = None
-----------------------------------------------------------------------------
(* Starting: database.Open, Migrate, OpenRedis.                            *)

Open(r) ==
  /\ At(r, "down")
  /\ IF "database" \in up
     THEN /\ Goto(r, "opened")
          /\ failure' = [failure EXCEPT ![r] = "none"]
          /\ UNCHANGED <<seen, next, lock>>
     ELSE BootFails(r, "unreachable")
  /\ UNCHANGED <<up, schema, load, faults>>

AdvisoryLock(r) ==
  /\ At(r, "opened") /\ "database" \in up /\ MayLock
  /\ lock' = r /\ Goto(r, "locked")
  /\ UNCHANGED <<up, schema, boot, load, faults>>

(* pg_advisory_lock waits no longer than statement_timeout.                *)
LockWaitTimesOut(r) ==
  /\ At(r, "opened") /\ "database" \in up /\ lock # None
  /\ BootEnds(r, "waited")
  /\ UNCHANGED <<up, schema, lock, load, faults>>

checkLegacySchema(r) == applied = Unapplied /\ legacy

(* CREATE TABLE IF NOT EXISTS schema_migrations, loadApplied.              *)
LoadApplied(r) ==
  /\ At(r, "locked") /\ "database" \in up
  /\ IF checkLegacySchema(r) THEN BootFails(r, "legacy")
     ELSE /\ Goto(r, "migrating")
          /\ seen' = [seen EXCEPT ![r] = applied]
          /\ UNCHANGED <<next, failure, lock>>
  /\ UNCHANGED <<up, schema, load, faults>>

\* Mutant: an applied file is not compared with the one on record.
NeverChanged(r, v) == FALSE

Changed(r, v) == seen[r][v] # None /\ seen[r][v] # Files[r][v]

HasFile(r) == At(r, "migrating") /\ next[r] \in DOMAIN Files[r]

(* A file that is on record: skipped, or refused when it has changed.      *)
Compare(r) ==
  /\ HasFile(r) /\ seen[r][next[r]] # None
  /\ IF Changed(r, next[r]) THEN BootFails(r, "changed")
     ELSE /\ next' = [next EXCEPT ![r] = @ + 1]
          /\ UNCHANGED <<phase, seen, failure, lock>>
  /\ UNCHANGED <<up, schema, load, faults>>

\* Mutant: the body commits, and the record follows in a transaction of its own.
BodyFirst(r, v) ==
  /\ ran' = [ran EXCEPT ![v] = @ + 1]
  /\ applied' \in {applied, [applied EXCEPT ![v] = Files[r][v]]}

\* Body and record of a file commit together.
CommitFile(r, v) ==
  /\ ran' = [ran EXCEPT ![v] = @ + 1]
  /\ applied' = [applied EXCEPT ![v] = Files[r][v]]

(* A version somebody else has recorded meanwhile fails on its key, and    *)
(* the transaction with it.                                                *)
ApplyOne(r) ==
  /\ HasFile(r) /\ seen[r][next[r]] = None /\ "database" \in up
  /\ IF applied[next[r]] # None
     THEN BootFails(r, "duplicate") /\ UNCHANGED <<applied, ran>>
     ELSE /\ CommitFile(r, next[r])
          /\ next' = [next EXCEPT ![r] = @ + 1]
          /\ UNCHANGED <<phase, seen, failure, lock>>
  /\ UNCHANGED <<up, legacy, load, faults>>

Migrated(r) ==
  /\ At(r, "migrating") /\ next[r] \notin DOMAIN Files[r]
  /\ Goto(r, "migrated") /\ Unlock(r) /\ ForgetFiles(r)
  /\ UNCHANGED <<up, schema, failure, load, faults>>

(* OpenRedis; then the router is built and the server listens.             *)
Serve(r) ==
  /\ At(r, "migrated")
  /\ IF "redis" \in up THEN Goto(r, "serving") /\ UNCHANGED <<boot, lock>>
                       ELSE BootFails(r, "unreachable")
  /\ UNCHANGED <<up, schema, load, faults>>

Booting(r) == phase[r] \in {"opened", "locked", "migrating", "migrated"}

(* A statement of the start fails: a migration takes longer than           *)
(* statement_timeout, the database is out of reach, or SIGTERM cancels the *)
(* boot context, and the connection with it.                               *)
BootInterrupted(r) ==
  /\ Booting(r) /\ Fault /\ BootEnds(r, "interrupted")
  /\ \/ Unlock(r) \/ LoseSession(r)
  /\ UNCHANGED <<up, schema, load>>
-----------------------------------------------------------------------------
(* Serving and stopping.                                                   *)

Running == {"serving", "draining", "closing"}

Request(r) ==
  /\ At(r, "serving") /\ work[r] < MaxWork
  /\ work' = [work EXCEPT ![r] = @ + 1]
  /\ UNCHANGED <<up, schema, lock, phase, boot, conns, faults>>

Respond(r) ==
  /\ phase[r] \in Running /\ work[r] > 0
  /\ work' = [work EXCEPT ![r] = @ - 1]
  /\ UNCHANGED <<up, schema, lock, phase, boot, conns, faults>>

\* Mutant: a pool that is being closed still gives out connections.
MayAcquireAlways(r) == phase[r] \in Running

MayAcquire(r) == phase[r] \in Running \ {"closing"}

(* A request takes a connection of the pool, or a goroutine that a request *)
(* has left behind (go s.repo.TouchLastSeen).                              *)
Acquire(r) ==
  /\ MayAcquire(r) /\ conns[r] < MaxConns
  /\ conns' = [conns EXCEPT ![r] = @ + 1]
  /\ UNCHANGED <<up, schema, lock, phase, boot, work, faults>>

Return(r) ==
  /\ conns[r] > 0
  /\ conns' = [conns EXCEPT ![r] = @ - 1]
  /\ UNCHANGED <<up, schema, lock, phase, boot, work, faults>>

(* SIGTERM to a serving replica: no new request, shutdown waits.           *)
Signal(r) ==
  /\ At(r, "serving") /\ Goto(r, "draining")
  /\ UNCHANGED <<up, schema, lock, boot, load, faults>>

(* The port is taken, or the listener fails later: run returns.            *)
ServerFails(r) ==
  /\ At(r, "serving") /\ Fault /\ Goto(r, "closing")
  /\ UNCHANGED <<up, schema, lock, boot, load>>

(* server.Shutdown returns when no request is left; it does not wait for   *)
(* the goroutines that requests have left behind.                          *)
Drained(r) ==
  /\ At(r, "draining") /\ work[r] = 0 /\ Goto(r, "closing")
  /\ UNCHANGED <<up, schema, lock, boot, load, faults>>

(* The shutdown timeout: server.Close cancels the requests that are left   *)
(* and waits for none of them.                                             *)
ShutdownTimeout(r) ==
  /\ At(r, "draining") /\ work[r] > 0 /\ Goto(r, "closing")
  /\ UNCHANGED <<up, schema, lock, boot, load, faults>>

Down(r) ==
  /\ Goto(r, "down")
  /\ work' = [work EXCEPT ![r] = 0]
  /\ conns' = [conns EXCEPT ![r] = 0]

PoolCloses(r) == conns[r] = 0

(* The deferred Close returns once every connection has come back, and the *)
(* process ends with whatever requests it still has.                       *)
Closed(r) ==
  /\ At(r, "closing") /\ PoolCloses(r) /\ Down(r)
  /\ UNCHANGED <<up, schema, lock, boot, faults>>

(* A crash, or a second signal while stopping: sessions are left behind.   *)
Crash(r) ==
  /\ ~At(r, "down") /\ Fault /\ Down(r)
  /\ LoseSession(r) /\ ForgetFiles(r)
  /\ UNCHANGED <<up, schema, failure>>

Outage(s) == s \in up /\ Fault /\ up' = up \ {s} /\ UNCHANGED <<schema, lock, phase, boot, load>>
Recover(s) == s \notin up /\ up' = up \union {s} /\ UNCHANGED <<schema, lock, phase, boot, load, faults>>

Boot(r) ==
  Open(r) \/ AdvisoryLock(r) \/ LoadApplied(r) \/ Compare(r) \/ ApplyOne(r)
  \/ Migrated(r) \/ Serve(r)

Next ==
  \/ SessionEnds
  \/ \E r \in Replicas :
       \/ Boot(r) \/ LockWaitTimesOut(r) \/ BootInterrupted(r)
       \/ Request(r) \/ Respond(r) \/ Acquire(r) \/ Return(r)
       \/ Signal(r) \/ ServerFails(r) \/ Drained(r) \/ ShutdownTimeout(r)
       \/ Closed(r) \/ Crash(r)
  \/ \E s \in Services : Outage(s) \/ Recover(s)

Spec == Init /\ [][Next]_vars

(* A container is started again (restart: unless-stopped) and starting     *)
(* goes on; advisory locks are granted in turn; PostgreSQL notices lost    *)
(* clients; timeouts fire; outages end.  No request needs to be answered,  *)
(* but a connection comes back: its statement is answered, or cancelled    *)
(* with its request, or ended by statement_timeout.                        *)
Fairness ==
  /\ \A r \in Replicas :
       /\ WF_vars(Boot(r)) /\ SF_vars(AdvisoryLock(r))
       /\ WF_vars(Return(r)) /\ WF_vars(Closed(r))
       /\ WF_vars(Drained(r)) /\ WF_vars(ShutdownTimeout(r))
  /\ WF_vars(SessionEnds) /\ \A s \in Services : WF_vars(Recover(s))

LiveSpec == Spec /\ Fairness
-----------------------------------------------------------------------------
(* Properties.                                                             *)

(* The type invariant.                                                     *)
TypeOK ==
  /\ up \subseteq Services /\ legacy \in BOOLEAN
  /\ applied \in [Versions -> STRING \union {None}]
  /\ ran \in [Versions -> Nat]
  /\ lock \in Replicas \union {None, Lost}
  /\ phase \in [Replicas -> {"down", "opened", "locked", "migrating", "migrated",
                             "serving", "draining", "closing"}]
  /\ seen \in [Replicas -> [Versions -> STRING \union {None}]]
  /\ next \in [Replicas -> Nat \ {0}]
  /\ failure \in [Replicas -> {"none", "unreachable", "legacy", "changed", "duplicate",
                               "waited", "interrupted"}]
  /\ work \in [Replicas -> 0..MaxWork]
  /\ conns \in [Replicas -> 0..MaxConns]
  /\ faults \in 0..MaxFaults

(* Whatever crashes and whoever migrates, the database is on a version: a  *)
(* file has run once if it is on record and never otherwise, and no file   *)
(* has run before one with a lower number.  Nothing loses its type.        *)
OnAVersion ==
  /\ TypeOK
  /\ \A v \in Versions : ran[v] = IF applied[v] = None THEN 0 ELSE 1
  /\ \A v, w \in Versions : v < w /\ applied[w] # None => applied[v] # None
  /\ legacy => applied = Unapplied

(* A replica that serves has the schema it was built for, whatever other   *)
(* releases have done to the database since it looked.                     *)
ServesItsSchema ==
  \A r \in Replicas :
    phase[r] \in Running =>
      ~legacy /\ \A v \in DOMAIN Files[r] : applied[v] = Files[r][v]

\* The database records another file than the replica's for some version.
AnothersRecord(r) ==
  \E v \in DOMAIN Files[r] : applied[v] # None /\ applied[v] # Files[r][v]

(* "Duplicate-index errors and a failed deploy" (migrate.go:23): no start  *)
(* fails on what another one has recorded since it looked, and one that    *)
(* complains of a changed file is on a database that records another file. *)
(* Replicas can still fail each other in two ways: by that record, and by  *)
(* holding the lock for longer than a statement may wait.                  *)
FailsForCause ==
  \A r \in Replicas :
    failure[r] # "duplicate" /\ (failure[r] = "changed" => AnothersRecord(r))

(* "A crashed migrator cannot deadlock the next deploy": a start ends, in  *)
(* service or in a failure, whoever held the lock; and a replica that is   *)
(* told to stop goes down, even if its requests hang: its pool waits for   *)
(* the connections that are out, and gives out no more.                    *)
NothingHangs ==
  \A r \in Replicas :
    /\ At(r, "opened") ~> ~Booting(r)
    /\ At(r, "draining") ~> At(r, "down")
=============================================================================
