---------------------------- MODULE DeployProofs ----------------------------
(***************************************************************************)
(* Theorems about Deploy, for any number of replicas and any releases.     *)
(*                                                                         *)
(* While a replica migrates it holds the lock (LockHeld), so what it has   *)
(* read and done since is still what the database says (StillKnown); once  *)
(* it has migrated its files are on record, and records never change       *)
(* (OnRecord).                                                             *)
(***************************************************************************)
EXTENDS Deploy, TLAPS

LockHeld(r) == phase[r] \in {"locked", "migrating"} => lock = r

\* Behind the file it comes to a replica finds its own, before it what it read.
StillKnown(r) ==
  phase[r] = "migrating" =>
    /\ ~legacy /\ next[r] \in 1..(Len(Files[r]) + 1)
    /\ \A v \in Versions :
         /\ v < next[r] => applied[v] = Files[r][v]
         /\ v >= next[r] => applied[v] = seen[r][v]

OnRecord(r) ==
  phase[r] \in {"migrated"} \union Running =>
    ~legacy /\ \A v \in DOMAIN Files[r] : applied[v] = Files[r][v]

\* A replica that has not begun to migrate starts with the first file.
FromTheStart(r) == phase[r] # "migrating" => next[r] = 1

HasCause(r) ==
  failure[r] # "duplicate" /\ (failure[r] = "changed" => AnothersRecord(r))

RInv(r) ==
  LockHeld(r) /\ StillKnown(r) /\ OnRecord(r) /\ FromTheStart(r) /\ HasCause(r)

IInv == OnAVersion /\ \A r \in Replicas : RInv(r)
-----------------------------------------------------------------------------
LEMMA Owners == None \notin Replicas /\ Lost \notin Replicas /\ None # Lost
BY DeployAssumption

LEMMA FileFacts ==
  ASSUME NEW r \in Replicas
  PROVE  /\ Len(Files[r]) \in Nat /\ Len(Files[r]) > 0
         /\ DOMAIN Files[r] = 1..Len(Files[r])
         /\ \A v \in DOMAIN Files[r] :
              v \in Versions /\ Files[r][v] \in STRING /\ Files[r][v] # None
<1>1. Files[r] \in Seq(STRING) /\ Len(Files[r]) > 0
  BY DeployAssumption
<1>2. None \notin Range(Files[r])
  BY DeployAssumption
<1>3. QED
  BY <1>1, <1>2 DEF Versions, Range

LEMMA VersionsNat == Versions \subseteq Nat \ {0}
BY FileFacts DEF Versions
-----------------------------------------------------------------------------
(* A step that leaves the schema alone.                                    *)

ReplicaTypes ==
  /\ up \subseteq Services
  /\ lock \in Replicas \union {None, Lost}
  /\ phase \in [Replicas -> {"down", "opened", "locked", "migrating", "migrated",
                             "serving", "draining", "closing"}]
  /\ seen \in [Replicas -> [Versions -> STRING \union {None}]]
  /\ next \in [Replicas -> Nat \ {0}]
  /\ failure \in [Replicas -> {"none", "unreachable", "legacy", "changed", "duplicate",
                               "waited", "interrupted"}]
  /\ work \in [Replicas -> 0..MaxWork]
  /\ conns \in [Replicas -> 0..MaxConns]
  /\ faults \in 0..MaxFaults

LEMMA SchemaKept ==
  ASSUME OnAVersion, UNCHANGED schema, ReplicaTypes'
  PROVE  OnAVersion'
BY DEF OnAVersion, TypeOK, ReplicaTypes, schema

\* It is enough to look at the replica that has made the step.
LEMMA OneMoves ==
  ASSUME IInv, UNCHANGED schema, ReplicaTypes', NEW r \in Replicas,
         \A q \in Replicas \ {r} :
           /\ phase'[q] = phase[q] /\ seen'[q] = seen[q] /\ next'[q] = next[q]
           /\ failure'[q] = failure[q] /\ (lock = q => lock' = q),
         RInv(r)'
  PROVE  IInv'
<1>1. OnAVersion'
  BY SchemaKept DEF IInv
<1>2. ASSUME NEW q \in Replicas \ {r} PROVE RInv(q)'
  BY <1>2 DEF IInv, RInv, LockHeld, StillKnown, OnRecord, FromTheStart, HasCause,
       AnothersRecord, Running, schema
<1>3. QED
  BY <1>1, <1>2 DEF IInv

\* No replica moves.
LEMMA NoneMoves ==
  ASSUME IInv, UNCHANGED schema, ReplicaTypes', UNCHANGED <<phase, boot>>,
         \A q \in Replicas : lock = q => lock' = q
  PROVE  IInv'
<1>1. OnAVersion'
  BY SchemaKept DEF IInv
<1>2. ASSUME NEW q \in Replicas PROVE RInv(q)'
  BY <1>2 DEF IInv, RInv, LockHeld, StillKnown, OnRecord, FromTheStart, HasCause,
       AnothersRecord, Running, schema, boot
<1>3. QED
  BY <1>1, <1>2 DEF IInv

LEMMA BootEnded ==
  ASSUME IInv, UNCHANGED schema, NEW r \in Replicas,
         NEW why \in {"unreachable", "legacy", "changed", "waited", "interrupted"},
         BootEnds(r, why), why = "changed" => AnothersRecord(r),
         Unlock(r) \/ LoseSession(r) \/ UNCHANGED lock, UNCHANGED <<up, load>>,
         faults' \in 0..MaxFaults
  PROVE  IInv'
<1>1. ReplicaTypes'
  BY DEF IInv, OnAVersion, TypeOK, ReplicaTypes, BootEnds, Goto, ForgetFiles, Unlock,
         LoseSession, Unapplied, load
<1>2. RInv(r)'
  <2>1. phase'[r] = "down" /\ next'[r] = 1 /\ failure'[r] = why
    BY DEF BootEnds, Goto, ForgetFiles, IInv, OnAVersion, TypeOK
  <2>2. HasCause(r)'
    BY <2>1 DEF HasCause, AnothersRecord, schema
  <2>3. QED
    BY <2>1, <2>2 DEF RInv, LockHeld, StillKnown, OnRecord, FromTheStart, Running
<1>3. \A q \in Replicas \ {r} :
        /\ phase'[q] = phase[q] /\ seen'[q] = seen[q] /\ next'[q] = next[q]
        /\ failure'[q] = failure[q] /\ (lock = q => lock' = q)
  BY DEF BootEnds, Goto, ForgetFiles, Unlock, LoseSession, IInv, OnAVersion, TypeOK
<1>4. QED
  BY <1>1, <1>2, <1>3, OneMoves
-----------------------------------------------------------------------------
(* The file a replica runs is the next one of the schema.                  *)

LEMMA FileApplied ==
  ASSUME IInv, NEW r \in Replicas, ApplyOne(r)
  PROVE  IInv'
<1> DEFINE n == next[r]
<1>1. /\ phase[r] = "migrating" /\ n \in DOMAIN Files[r] /\ n \in Versions
      /\ Files[r][n] \in STRING /\ Files[r][n] # None /\ seen[r][n] = None
  BY FileFacts DEF ApplyOne, HasFile, At
<1>2. /\ ~legacy /\ applied[n] = None /\ ran[n] = 0
      /\ \A v \in Versions : /\ v < n => applied[v] = Files[r][v]
                             /\ v >= n => applied[v] = seen[r][v]
  <2>1. OnAVersion /\ StillKnown(r)
    BY DEF IInv, RInv
  <2>2. /\ ~legacy
        /\ \A v \in Versions : /\ v < n => applied[v] = Files[r][v]
                               /\ v >= n => applied[v] = seen[r][v]
    BY <1>1, <2>1 DEF StillKnown
  <2>3. n \in Versions /\ n >= n
    <3>1. n \in Versions
      BY <1>1
    <3> HIDE DEF n
    <3>2. QED
      BY <3>1, VersionsNat
  <2>4. applied[n] = None
    BY <1>1, <2>2, <2>3
  <2>5. ran[n] = 0
    BY <1>1, <2>1, <2>4 DEF OnAVersion
  <2>6. QED
    BY <2>2, <2>4, <2>5
<1>3. /\ applied' = [applied EXCEPT ![n] = Files[r][n]] /\ ran' = [ran EXCEPT ![n] = @ + 1]
      /\ next' = [next EXCEPT ![r] = n + 1] /\ legacy' = legacy /\ lock' = lock
      /\ phase' = phase /\ seen' = seen /\ failure' = failure
      /\ UNCHANGED <<up, load, faults>>
  BY <1>1, <1>2 DEF ApplyOne, CommitFile, IInv, OnAVersion, TypeOK
<1>4. TypeOK'
  BY <1>1, <1>3, VersionsNat DEF IInv, OnAVersion, TypeOK, load
<1>5. OnAVersion'
  <2>1. \A v \in Versions : ran'[v] = IF applied'[v] = None THEN 0 ELSE 1
    BY <1>1, <1>2, <1>3 DEF IInv, OnAVersion, TypeOK
  <2>2. ASSUME NEW v \in Versions, NEW w \in Versions, v < w, applied'[w] # None
        PROVE  applied'[v] # None
    <3>1. CASE w = n
      <4>1. v \in DOMAIN Files[r]
        BY <1>1, <2>2, <3>1, FileFacts, VersionsNat
      <4>2. applied[v] = Files[r][v] /\ Files[r][v] # None
        BY <1>2, <2>2, <3>1, <4>1, FileFacts
      <4>3. v # n
        BY <2>2, <3>1, VersionsNat
      <4>4. QED
        BY <1>3, <4>2, <4>3 DEF IInv, OnAVersion, TypeOK
    <3>2. CASE w # n
      BY <1>1, <1>3, <2>2, <3>2 DEF IInv, OnAVersion, TypeOK
    <3>3. QED
      BY <3>1, <3>2
  <2>3. QED
    BY <1>2, <1>3, <1>4, <2>1, <2>2 DEF OnAVersion
<1>6. ASSUME NEW q \in Replicas, AnothersRecord(q) PROVE AnothersRecord(q)'
  BY <1>2, <1>3, <1>6, FileFacts DEF AnothersRecord, IInv, OnAVersion, TypeOK
<1>7. RInv(r)'
  <2>1. n \in Nat /\ n <= Len(Files[r])
    BY <1>1, FileFacts, VersionsNat
  <2>2. ASSUME NEW v \in Versions
        PROVE  /\ v < n + 1 => applied'[v] = Files[r][v]
               /\ v >= n + 1 => applied'[v] = seen[r][v]
    <3>1. v \in Nat /\ (v < n + 1 <=> v < n \/ v = n) /\ (v >= n + 1 => v >= n /\ v # n)
      BY <2>1, VersionsNat
    <3>2. applied'[v] = IF v = n THEN Files[r][n] ELSE applied[v]
      BY <1>1, <1>3 DEF IInv, OnAVersion, TypeOK
    <3>3. QED
      BY <1>2, <3>1, <3>2
  <2>3. next'[r] = n + 1 /\ next'[r] \in 1..(Len(Files[r]) + 1)
    BY <1>3, <2>1, FileFacts DEF IInv, OnAVersion, TypeOK
  <2>4. HasCause(r)'
    BY <1>6, <1>3 DEF IInv, RInv, HasCause, AnothersRecord
  <2>5. QED
    BY <1>1, <1>2, <1>3, <2>2, <2>3, <2>4
       DEF IInv, RInv, LockHeld, StillKnown, OnRecord, FromTheStart, Running
<1>8. ASSUME NEW q \in Replicas \ {r} PROVE RInv(q)'
  <2>1. phase[q] # "migrating"
    BY <1>1, Owners DEF IInv, RInv, LockHeld
  <2>2. \A v \in Versions : applied[v] # None => applied'[v] = applied[v]
    BY <1>2, <1>3 DEF IInv, OnAVersion, TypeOK
  <2>3. OnRecord(q)'
    BY <1>2, <1>3, <2>2, FileFacts DEF IInv, RInv, OnRecord
  <2>4. next'[q] = next[q]
    BY <1>3 DEF IInv, OnAVersion, TypeOK
  <2>5. HasCause(q)'
    BY <1>6, <1>3 DEF IInv, RInv, HasCause, AnothersRecord
  <2>6. QED
    BY <1>3, <2>1, <2>3, <2>4, <2>5 DEF IInv, RInv, LockHeld, StillKnown, FromTheStart
<1>9. QED
  BY <1>5, <1>7, <1>8 DEF IInv
-----------------------------------------------------------------------------
(* The other steps that read the schema.                                   *)

LEMMA FilesLoaded ==
  ASSUME IInv, NEW r \in Replicas, LoadApplied(r)
  PROVE  IInv'
<1>1. CASE checkLegacySchema(r)
  BY <1>1, BootEnded DEF LoadApplied, BootFails, IInv, OnAVersion, TypeOK, load
<1>2. CASE ~checkLegacySchema(r)
  <2>1. /\ phase[r] = "locked" /\ phase' = [phase EXCEPT ![r] = "migrating"]
        /\ seen' = [seen EXCEPT ![r] = applied]
        /\ UNCHANGED <<next, failure, lock, up, schema, load, faults>>
    BY <1>2 DEF LoadApplied, At, Goto
  <2>2. ReplicaTypes'
    BY <2>1 DEF IInv, OnAVersion, TypeOK, ReplicaTypes, schema, load
  <2>3. RInv(r)'
    <3>1. phase'[r] = "migrating" /\ seen'[r] = applied /\ next'[r] = 1
      BY <2>1 DEF IInv, OnAVersion, TypeOK, RInv, FromTheStart
    <3>2. applied' = applied /\ legacy' = legacy /\ ~legacy
      BY <1>2, <2>1 DEF schema, checkLegacySchema, IInv, OnAVersion
    <3>3. 1 \in 1..(Len(Files[r]) + 1)
      BY FileFacts
    <3>4. \A v \in Versions : ~(v < 1)
      BY VersionsNat
    <3>5. lock' = r /\ HasCause(r)'
      BY <2>1, <3>2 DEF IInv, RInv, LockHeld, HasCause, AnothersRecord
    <3>6. QED
      BY <3>1, <3>2, <3>3, <3>4, <3>5
         DEF RInv, LockHeld, StillKnown, OnRecord, FromTheStart, Running
  <2>4. QED
    BY <2>1, <2>2, <2>3, OneMoves DEF IInv, OnAVersion, TypeOK
<1>3. QED
  BY <1>1, <1>2

LEMMA FileCompared ==
  ASSUME IInv, NEW r \in Replicas, Compare(r)
  PROVE  IInv'
<1>1. CASE Changed(r, next[r])
  \* What it refuses is what is on record, under the lock it holds.
  <2> DEFINE n == next[r]
  <2>1. /\ phase[r] = "migrating" /\ n \in DOMAIN Files[r]
        /\ seen[r][n] # None /\ seen[r][n] # Files[r][n]
    BY <1>1 DEF Compare, HasFile, At, Changed
  <2>2. n \in Versions /\ n \in Nat
    BY <2>1, FileFacts, VersionsNat
  <2>3. applied[n] = seen[r][n]
    BY <2>1, <2>2 DEF IInv, RInv, StillKnown
  <2>4. AnothersRecord(r)
    BY <2>1, <2>3 DEF AnothersRecord
  <2>5. QED
    BY <1>1, <2>4, BootEnded DEF Compare, BootFails, IInv, OnAVersion, TypeOK
<1>2. CASE ~Changed(r, next[r])
  <2> DEFINE n == next[r]
  <2>1. /\ phase[r] = "migrating" /\ n \in DOMAIN Files[r] /\ seen[r][n] = Files[r][n]
        /\ next' = [next EXCEPT ![r] = n + 1]
        /\ UNCHANGED <<phase, seen, failure, lock, up, schema, load, faults>>
    BY <1>2 DEF Compare, HasFile, At, Changed
  <2>2. n \in Versions /\ n \in Nat \ {0} /\ n <= Len(Files[r])
    BY <2>1, FileFacts, VersionsNat
  <2>3. ReplicaTypes'
    BY <2>1, <2>2 DEF IInv, OnAVersion, TypeOK, ReplicaTypes, schema, load
  <2>4. RInv(r)'
    <3>1. /\ phase'[r] = "migrating" /\ seen' = seen /\ next'[r] = n + 1
          /\ applied' = applied /\ legacy' = legacy /\ lock' = lock /\ failure' = failure
      BY <2>1 DEF IInv, OnAVersion, TypeOK, schema
    <3>2. n + 1 \in 1..(Len(Files[r]) + 1)
      BY <2>2, FileFacts
    <3>3. ASSUME NEW v \in Versions
          PROVE  /\ v < n + 1 => applied[v] = Files[r][v]
                 /\ v >= n + 1 => applied[v] = seen[r][v]
      <4>1. v \in Nat /\ (v < n + 1 <=> v < n \/ v = n) /\ (v >= n + 1 => v >= n)
            /\ (v = n => v >= n)
        BY <2>2, VersionsNat
      <4>2. /\ v < n => applied[v] = Files[r][v]
            /\ v >= n => applied[v] = seen[r][v]
        BY <2>1 DEF IInv, RInv, StillKnown
      <4>3. QED
        BY <2>1, <4>1, <4>2
    <3>4. HasCause(r)'
      BY <3>1 DEF IInv, RInv, HasCause, AnothersRecord
    <3>5. QED
      BY <2>1, <3>1, <3>2, <3>3, <3>4
         DEF IInv, RInv, LockHeld, StillKnown, OnRecord, FromTheStart, Running
  <2>5. QED
    BY <2>1, <2>3, <2>4, OneMoves DEF IInv, OnAVersion, TypeOK
<1>3. QED
  BY <1>1, <1>2

\* The last file is on record: what it found before it is what it has.
LEMMA AllOnRecord ==
  ASSUME IInv, NEW r \in Replicas, Migrated(r)
  PROVE  IInv'
<1>1. /\ phase[r] = "migrating" /\ next[r] \notin DOMAIN Files[r]
      /\ phase' = [phase EXCEPT ![r] = "migrated"] /\ Unlock(r) /\ ForgetFiles(r)
      /\ UNCHANGED <<up, schema, failure, load, faults>>
  BY DEF Migrated, At, Goto
<1>2. ReplicaTypes'
  BY <1>1 DEF IInv, OnAVersion, TypeOK, ReplicaTypes, schema, load, Unlock, ForgetFiles, Unapplied
<1>3. \A v \in DOMAIN Files[r] : v \in Versions /\ v < next[r]
  BY <1>1, FileFacts DEF IInv, RInv, StillKnown
<1>4. RInv(r)'
  <2>1. phase'[r] = "migrated" /\ next'[r] = 1 /\ HasCause(r)'
    BY <1>1 DEF ForgetFiles, IInv, OnAVersion, TypeOK, RInv, HasCause, AnothersRecord, schema
  <2>2. ~legacy' /\ \A v \in DOMAIN Files[r] : applied'[v] = Files[r][v]
    BY <1>1, <1>3 DEF schema, IInv, RInv, StillKnown
  <2>3. QED
    BY <2>1, <2>2 DEF RInv, LockHeld, StillKnown, OnRecord, FromTheStart, Running
<1>5. \A q \in Replicas \ {r} :
        /\ phase'[q] = phase[q] /\ seen'[q] = seen[q] /\ next'[q] = next[q]
        /\ failure'[q] = failure[q] /\ (lock = q => lock' = q)
  BY <1>1 DEF Unlock, ForgetFiles, IInv, OnAVersion, TypeOK
<1>6. QED
  BY <1>1, <1>2, <1>4, <1>5, OneMoves

\* The remaining steps of a replica's start.
LEMMA StartGoesOn ==
  ASSUME IInv, NEW r \in Replicas, Open(r) \/ AdvisoryLock(r) \/ Serve(r)
  PROVE  IInv'
<1>1. CASE Open(r) /\ "database" \in up
  <2>1. ReplicaTypes' /\ UNCHANGED schema
    BY <1>1 DEF Open, Goto, IInv, OnAVersion, TypeOK, ReplicaTypes, load
  <2>2. RInv(r)'
    BY <1>1 DEF Open, At, Goto, schema, IInv, OnAVersion, TypeOK, RInv, LockHeld, StillKnown,
                OnRecord, FromTheStart, HasCause,
                AnothersRecord, Running
  <2>3. QED
    BY <1>1, <2>1, <2>2, OneMoves DEF Open, Goto, IInv, OnAVersion, TypeOK
<1>2. CASE Open(r) /\ "database" \notin up
  BY <1>2, BootEnded DEF Open, BootFails, IInv, OnAVersion, TypeOK
<1>3. CASE AdvisoryLock(r)
  <2>1. ReplicaTypes' /\ UNCHANGED schema
    BY <1>3 DEF AdvisoryLock, Goto, boot, IInv, OnAVersion, TypeOK, ReplicaTypes, load
  <2>2. RInv(r)'
    BY <1>3 DEF AdvisoryLock, At, Goto, boot, schema, IInv, OnAVersion, TypeOK, RInv, LockHeld,
                StillKnown, OnRecord, FromTheStart, HasCause,
                AnothersRecord, Running
  <2>3. QED
    BY <1>3, <2>1, <2>2, OneMoves, Owners
       DEF AdvisoryLock, MayLock, Goto, boot, IInv, OnAVersion, TypeOK
<1>4. CASE Serve(r) /\ "redis" \in up
  <2>1. ReplicaTypes' /\ UNCHANGED schema
    BY <1>4 DEF Serve, Goto, boot, IInv, OnAVersion, TypeOK, ReplicaTypes, load
  <2>2. RInv(r)'
    BY <1>4 DEF Serve, At, Goto, boot, schema, IInv, OnAVersion, TypeOK, RInv, LockHeld,
                StillKnown, OnRecord, FromTheStart, HasCause,
                AnothersRecord, Running
  <2>3. QED
    BY <1>4, <2>1, <2>2, OneMoves DEF Serve, Goto, boot, IInv, OnAVersion, TypeOK
<1>5. CASE Serve(r) /\ "redis" \notin up
  BY <1>5, BootEnded DEF Serve, BootFails, IInv, OnAVersion, TypeOK
<1>6. QED
  BY <1>1, <1>2, <1>3, <1>4, <1>5

LEMMA Interrupted ==
  ASSUME IInv, NEW r \in Replicas, BootInterrupted(r) \/ LockWaitTimesOut(r)
  PROVE  IInv'
<1>1. faults' \in 0..MaxFaults
  BY DeployAssumption DEF BootInterrupted, LockWaitTimesOut, Fault, IInv, OnAVersion, TypeOK
<1>2. QED
  BY <1>1, BootEnded DEF BootInterrupted, LockWaitTimesOut
-----------------------------------------------------------------------------
(* The steps after the start, and those of the services.                   *)

LEMMA ReplicaServes ==
  ASSUME IInv, NEW r \in Replicas, Request(r) \/ Respond(r) \/ Acquire(r) \/ Return(r)
  PROVE  IInv'
<1>1. work' \in [Replicas -> 0..MaxWork] /\ conns' \in [Replicas -> 0..MaxConns]
  <2>1. work[r] \in 0..MaxWork /\ conns[r] \in 0..MaxConns
    BY DEF IInv, OnAVersion, TypeOK
  <2>2. /\ work[r] < MaxWork => work[r] + 1 \in 0..MaxWork
        /\ work[r] > 0 => work[r] - 1 \in 0..MaxWork
        /\ conns[r] < MaxConns => conns[r] + 1 \in 0..MaxConns
        /\ conns[r] > 0 => conns[r] - 1 \in 0..MaxConns
    BY <2>1, DeployAssumption
  <2>3. QED
    BY <2>2 DEF Request, Respond, Acquire, Return, IInv, OnAVersion, TypeOK
<1>2. UNCHANGED <<up, schema, lock, phase, boot, faults>>
  BY DEF Request, Respond, Acquire, Return
<1>3. ReplicaTypes'
  BY <1>1, <1>2 DEF ReplicaTypes, boot, IInv, OnAVersion, TypeOK
<1>4. QED
  BY <1>2, <1>3, NoneMoves

\* A replica that serves or stops goes to another phase of stopping.
LEMMA StopGoesOn ==
  ASSUME IInv, NEW r \in Replicas, phase[r] \in Running,
         NEW p \in {"draining", "closing", "down"}, Goto(r, p),
         UNCHANGED <<up, schema, lock, boot>>,
         UNCHANGED load \/ Down(r), faults' \in 0..MaxFaults
  PROVE  IInv'
<1>1. ReplicaTypes'
  <2>1. work' \in [Replicas -> 0..MaxWork] /\ conns' \in [Replicas -> 0..MaxConns]
    <3>1. 0 \in 0..MaxWork /\ 0 \in 0..MaxConns
      BY DeployAssumption
    <3>2. work \in [Replicas -> 0..MaxWork] /\ conns \in [Replicas -> 0..MaxConns]
      BY DEF IInv, OnAVersion, TypeOK
    <3>3. CASE UNCHANGED load
      BY <3>2, <3>3 DEF load
    <3>4. CASE Down(r)
      BY <3>1, <3>2, <3>4 DEF Down
    <3>5. QED
      BY <3>3, <3>4
  <2>2. QED
    BY <2>1 DEF Goto, boot, IInv, OnAVersion, TypeOK, ReplicaTypes
<1>2. RInv(r)'
  BY DEF Goto, boot, schema, IInv, OnAVersion, TypeOK, RInv, LockHeld, StillKnown,
         OnRecord, FromTheStart, HasCause, AnothersRecord, Running
<1>3. QED
  BY <1>1, <1>2, OneMoves DEF Goto, boot, IInv, OnAVersion, TypeOK

LEMMA ReplicaStops ==
  ASSUME IInv, NEW r \in Replicas,
         \/ Signal(r) \/ ServerFails(r) \/ Drained(r) \/ ShutdownTimeout(r)
         \/ Closed(r) \/ Crash(r)
  PROVE  IInv'
<1>1. faults' \in 0..MaxFaults
  BY DeployAssumption
     DEF Signal, ServerFails, Drained, ShutdownTimeout, Closed, Crash, Fault, IInv, OnAVersion,
         TypeOK
<1>2. CASE Signal(r) \/ ServerFails(r) \/ Drained(r) \/ ShutdownTimeout(r)
  BY <1>1, <1>2, StopGoesOn DEF Signal, ServerFails, Drained, ShutdownTimeout, At, Running
<1>3. CASE Closed(r)
  BY <1>1, <1>3, StopGoesOn DEF Closed, Down, At, Running
<1>4. CASE Crash(r)
  <2>1. Down(r) /\ LoseSession(r) /\ ForgetFiles(r) /\ UNCHANGED <<up, schema, failure>>
    BY <1>4 DEF Crash
  <2>2. ReplicaTypes'
    BY <1>1, <2>1, DeployAssumption
       DEF Down, Goto, LoseSession, ForgetFiles, Unapplied, IInv, OnAVersion, TypeOK,
           ReplicaTypes
  <2>3. RInv(r)'
    BY <2>1 DEF Down, Goto, ForgetFiles, schema, IInv, OnAVersion, TypeOK, RInv, LockHeld,
                StillKnown, OnRecord, FromTheStart, HasCause, AnothersRecord, Running
  <2>4. QED
    BY <2>1, <2>2, <2>3, OneMoves
       DEF Down, Goto, LoseSession, ForgetFiles, IInv, OnAVersion, TypeOK
<1>5. QED
  BY <1>2, <1>3, <1>4

LEMMA ServiceMoves ==
  ASSUME IInv, SessionEnds \/ \E s \in Services : Outage(s) \/ Recover(s)
  PROVE  IInv'
<1>1. CASE SessionEnds
  <2>1. ReplicaTypes' /\ UNCHANGED <<schema, phase, boot>>
    BY <1>1 DEF SessionEnds, EndSession, boot, load, IInv, OnAVersion, TypeOK, ReplicaTypes
  <2>2. \A q \in Replicas : lock = q => lock' = q
    BY <1>1, Owners DEF SessionEnds
  <2>3. QED
    BY <2>1, <2>2, NoneMoves
<1>2. CASE \E s \in Services : Outage(s) \/ Recover(s)
  <2>1. UNCHANGED <<schema, lock, phase, boot, load>> /\ up' \subseteq Services
    BY <1>2 DEF Outage, Recover, IInv, OnAVersion, TypeOK
  <2>2. faults' \in 0..MaxFaults
    BY <1>2, DeployAssumption DEF Outage, Recover, Fault, IInv, OnAVersion, TypeOK
  <2>3. ReplicaTypes'
    BY <2>1, <2>2 DEF boot, load, IInv, OnAVersion, TypeOK, ReplicaTypes
  <2>4. QED
    BY <2>1, <2>3, NoneMoves
<1>3. QED
  BY <1>1, <1>2
-----------------------------------------------------------------------------
(* The invariant.                                                          *)

LEMMA InitIInv == Init => IInv
<1> SUFFICES ASSUME Init PROVE IInv
  OBVIOUS
<1>1. TypeOK
  BY DeployAssumption DEF Init, TypeOK, Unapplied, Services
<1>2. OnAVersion
  BY <1>1 DEF Init, OnAVersion, Unapplied
<1>3. ASSUME NEW r \in Replicas PROVE RInv(r)
  BY <1>3 DEF Init, RInv, LockHeld, StillKnown, OnRecord, FromTheStart, HasCause, Running
<1>4. QED
  BY <1>2, <1>3 DEF IInv

LEMMA NextIInv == IInv /\ [Next]_vars => IInv'
<1> SUFFICES ASSUME IInv, [Next]_vars PROVE IInv'
  OBVIOUS
<1>1. ASSUME NEW r \in Replicas, Boot(r) PROVE IInv'
  BY <1>1, StartGoesOn, FilesLoaded, FileCompared, FileApplied, AllOnRecord DEF Boot
<1>2. ASSUME NEW r \in Replicas, BootInterrupted(r) \/ LockWaitTimesOut(r) PROVE IInv'
  BY <1>2, Interrupted
<1>3. ASSUME NEW r \in Replicas, Request(r) \/ Respond(r) \/ Acquire(r) \/ Return(r)
      PROVE  IInv'
  BY <1>3, ReplicaServes
<1>4. ASSUME NEW r \in Replicas,
             \/ Signal(r) \/ ServerFails(r) \/ Drained(r) \/ ShutdownTimeout(r)
             \/ Closed(r) \/ Crash(r)
      PROVE  IInv'
  BY <1>4, ReplicaStops
<1>5. CASE SessionEnds \/ \E s \in Services : Outage(s) \/ Recover(s)
  BY <1>5, ServiceMoves
<1>6. CASE UNCHANGED vars
  <2>1. ReplicaTypes' /\ UNCHANGED <<schema, lock, phase, boot>>
    BY <1>6 DEF vars, schema, boot, load, ReplicaTypes, IInv, OnAVersion, TypeOK
  <2>2. QED
    BY <2>1, NoneMoves
<1>7. QED
  BY <1>1, <1>2, <1>3, <1>4, <1>5, <1>6 DEF Next

LEMMA Invariant == Spec => []IInv
BY InitIInv, NextIInv, PTL DEF Spec

(* Whatever crashes and whoever migrates, the database is on a version: a  *)
(* file has run once if it is on record and never otherwise, and files run *)
(* in the order of their numbers (migrate.go, apply under the lock).       *)
THEOREM OnAVersionAlways == Spec => []OnAVersion
<1>1. IInv => OnAVersion
  BY DEF IInv
<1>2. QED
  BY <1>1, Invariant, PTL

(* A replica that serves has the schema of its release: what loadApplied   *)
(* returned to it stayed true until its last file was on record.           *)
THEOREM ServedSchema == Spec => []ServesItsSchema
<1>1. IInv => ServesItsSchema
  BY DEF IInv, RInv, OnRecord, ServesItsSchema
<1>2. QED
  BY <1>1, Invariant, PTL

(* The advisory lock keeps deploys apart: no start fails on what another   *)
(* replica has recorded since it looked, and one that is told of a changed *)
(* file is on a database that records another file for that version.       *)
THEOREM DeploysApart == Spec => []FailsForCause
<1>1. IInv => FailsForCause
  BY DEF IInv, RInv, HasCause, FailsForCause
<1>2. QED
  BY <1>1, Invariant, PTL
=============================================================================
