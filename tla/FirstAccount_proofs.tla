------------------------ MODULE FirstAccount_proofs ------------------------
(***************************************************************************)
(* The first administrator and his second factor.  BootstrapService, for   *)
(* every number of tasks, states and handles: a stored factor before the   *)
(* user whoever races, and under the gate one user that keeps the factor   *)
(* it was created with.  File, the coordinator of file-bootstrap.ts, for   *)
(* every lifetime, clock and number of attempts, failures and restarts:    *)
(* one account, projected from an acknowledged attempt that every journal  *)
(* keeps.  SecondFactor, for every clock, window and set of codes: a code  *)
(* that was accepted is spent.                                             *)
(***************************************************************************)
EXTENDS FirstAccount, Sequences, TLAPS, FiniteSetTheorems, WellFoundedInduction

\* What saveTOTPSecret stored is still there: no step takes a secret away.
Factored ==
  /\ totp \in [Handles -> States \cup {None}] /\ now \in 0 .. MaxNow
  /\ given \in [States -> [handle : Handles, stamp : 0 .. MaxNow, step : {1, 2}] \cup {None}]
  /\ at \in [Tasks -> Waits] /\ using \in [Tasks -> States \cup {None}]
  /\ \A k \in Tasks : at[k] \notin {"idle", "initiating"} => using[k] \in States /\ given[using[k]] # None
  /\ \A k \in Tasks : at[k] \in {"createUser", "saveCodes", "audit"} => totp[handleOf(k)] # None
  /\ \A u \in users : u.handle \in Handles /\ totp[u.handle] # None

\* Under the gate: who holds it is the only task inside, past hasUsers it saw no user,
\* and what it has stored so far is its own.
Gated ==
  Serialized =>
    /\ \A k \in Tasks : at[k] # "idle" => gate = k
    /\ \A k \in Tasks : at[k] \in {"verify", "saveTOTP", "getTOTP", "createUser"} => users = {}
    /\ \A k \in Tasks : at[k] \in {"getTOTP", "createUser"} => totp[handleOf(k)] = using[k]
    /\ \A u, v \in users : u = v
    /\ \A u \in users : totp[u.handle] = u.state

IInv == Factored /\ Gated

\* Nothing is stored and every task is idle at the start.
LEMMA InitInv == Init => IInv
BY BootstrapServiceAssumption DEF Init, IInv, Factored, Gated, Waits

\* A handed-out state keeps its handle: only its step changes.
LEMMA ProfileKeeps ==
  ASSUME IInv, NEW s \in States, updateProfile(s)
  PROVE  IInv'
<1>1. given[s] \in [handle : Handles, stamp : 0 .. MaxNow, step : {1, 2}]
  BY DEF IInv, Factored, updateProfile
<1>2. PICK g \in [handle : Handles, stamp : 0 .. MaxNow, step : {1, 2}] :
        given' = [given EXCEPT ![s] = g] /\ g.handle = given[s].handle
  <2>1. [given[s] EXCEPT !.step = 2] \in [handle : Handles, stamp : 0 .. MaxNow, step : {1, 2}]
    BY <1>1
  <2>2. [given[s] EXCEPT !.step = 2].handle = given[s].handle  BY <1>1
  <2>. QED  BY <2>1, <2>2 DEF updateProfile
<1>3. g # None  BY <1>2, <1>1, BootstrapServiceAssumption DEF IInv, Factored, updateProfile
<1>. QED  BY <1>2, <1>3 DEF IInv, Factored, Gated, updateProfile, handleOf

\* Every step keeps the invariant.
LEMMA StepKeeps ==
  ASSUME IInv, [Next]_vars
  PROVE  IInv'
<1>. USE BootstrapServiceAssumption
<1>1. CASE UNCHANGED vars  BY <1>1 DEF vars, IInv, Factored, Gated, handleOf
<1>2. CASE Tick  BY <1>2 DEF Tick, IInv, Factored, Gated, handleOf
<1>3. CASE \E s \in States : updateProfile(s)  BY <1>3, ProfileKeeps
<1>4. ASSUME NEW k \in Tasks, getStatus(k)  PROVE IInv'
  BY <1>4 DEF getStatus, Enter, IInv, Factored, Gated, handleOf, Waits
<1>5. ASSUME NEW k \in Tasks, initiate(k)  PROVE IInv'
  <2>1. PICK s \in States, h \in Handles :
          given[s] = None /\ given' = [given EXCEPT ![s] = [handle |-> h, stamp |-> now, step |-> 1]]
    BY <1>5 DEF initiate
  <2>2. [handle |-> h, stamp |-> now, step |-> 1] \in [handle : Handles, stamp : 0 .. MaxNow, step : {1, 2}]
    BY DEF IInv, Factored
  <2>3. [handle |-> h, stamp |-> now, step |-> 1] # None  BY <2>2
  <2>. QED  BY <1>5, <2>1, <2>2, <2>3 DEF initiate, Leave, IInv, Factored, Gated, handleOf, Waits
<1>6. ASSUME NEW k \in Tasks, complete(k)  PROVE IInv'
  <2>1. PICK s \in States : given[s] # None /\ Enter(k, "hasUsers", s)  BY <1>6 DEF complete
  <2>. QED  BY <1>6, <2>1 DEF complete, Enter, IInv, Factored, Gated, handleOf, Waits
<1>7. ASSUME NEW k \in Tasks, hasUsers(k)  PROVE IInv'
  <2>1. CASE users # {}  BY <1>7, <2>1 DEF hasUsers, Leave, IInv, Factored, Gated, handleOf, Waits
  <2>2. CASE users = {}  BY <1>7, <2>2 DEF hasUsers, Go, IInv, Factored, Gated, handleOf, Waits
  <2>. QED  BY <2>1, <2>2
<1>8. ASSUME NEW k \in Tasks, verifyCode(k)  PROVE IInv'
  <2>1. CASE Go(k, "verify", "saveTOTP") /\ UNCHANGED <<user, users, totp, codes>>
    BY <2>1 DEF Go, IInv, Factored, Gated, handleOf, Waits
  <2>2. CASE at[k] = "verify" /\ Leave(k) /\ UNCHANGED <<given, users, totp, codes, told, now, faults>>
    BY <2>2 DEF Leave, IInv, Factored, Gated, handleOf, Waits
  <2>. QED  BY <1>8, <2>1, <2>2 DEF verifyCode
<1>9. ASSUME NEW k \in Tasks, saveTOTPSecret(k)  PROVE IInv'
  <2>1. using[k] \in States /\ handleOf(k) \in Handles
    BY <1>9 DEF saveTOTPSecret, Go, IInv, Factored, handleOf
  <2>2. Factored'  BY <1>9, <2>1 DEF saveTOTPSecret, Go, IInv, Factored, handleOf, Waits
  <2>3. Gated'  BY <1>9, <2>1 DEF saveTOTPSecret, Go, IInv, Factored, Gated, handleOf, Waits
  <2>. QED  BY <2>2, <2>3 DEF IInv
<1>10. ASSUME NEW k \in Tasks, getTOTPSecret(k)  PROVE IInv'
  BY <1>10 DEF getTOTPSecret, Go, IInv, Factored, Gated, handleOf, Waits
<1>11. ASSUME NEW k \in Tasks, createUser(k)  PROVE IInv'
  <2>1. PICK id : users' = users \cup {[id |-> id, handle |-> handleOf(k), state |-> using[k]]}
    BY <1>11 DEF createUser
  <2>2. UNCHANGED <<totp, given, using, gate, now>> /\ at[k] = "createUser" /\ at' = [at EXCEPT ![k] = "saveCodes"]
    BY <1>11 DEF createUser, Go
  <2>3. handleOf(k) \in Handles /\ totp[handleOf(k)] # None  BY <2>2 DEF IInv, Factored, handleOf
  <2>4. Factored'  BY <2>1, <2>2, <2>3 DEF IInv, Factored, handleOf, Waits
  <2>5. Serialized => users = {} /\ totp[handleOf(k)] = using[k]  BY <2>2 DEF IInv, Gated
  <2>6. Gated'  BY <2>1, <2>2, <2>5 DEF IInv, Factored, Gated, handleOf, Waits
  <2>. QED  BY <2>4, <2>6 DEF IInv
<1>12. ASSUME NEW k \in Tasks, saveBackupCodes(k)  PROVE IInv'
  BY <1>12 DEF saveBackupCodes, Go, IInv, Factored, Gated, handleOf, Waits
<1>13. ASSUME NEW k \in Tasks, Succeed(k) \/ Fail(k)  PROVE IInv'
  BY <1>13 DEF Succeed, Fail, Leave, IInv, Factored, Gated, handleOf, Waits
<1>. QED
  BY <1>1, <1>2, <1>3, <1>4, <1>5, <1>6, <1>7, <1>8, <1>9, <1>10, <1>11, <1>12, <1>13 DEF Next

\* The invariant holds throughout.
LEMMA Invariance == Spec => []IInv
<1>1. IInv /\ [Next]_vars => IInv'  BY StepKeeps
<1>. QED  BY <1>1, InitInv, PTL DEF Spec

\* However many tasks race and whichever storage call throws, no administrator exists
\* without a stored second factor (BootstrapService.complete's order of writes).
THEOREM FactorFirst == Spec => []FactorBeforeUser
<1>1. IInv => FactorBeforeUser  BY DEF IInv, Factored, FactorBeforeUser
<1>. QED  BY <1>1, Invariance, PTL

\* Run under one gate, complete creates one administrator however often any state it
\* handed out is replayed (the hasUsers check of BootstrapService.complete).
THEOREM OneAdministratorUnderGate == Spec => []OneAdministrator
<1>1. ASSUME IInv  PROVE OneAdministrator
  <2>1. SUFFICES ASSUME Serialized  PROVE Cardinality(users) <= 1  BY DEF OneAdministrator
  <2>2. CASE users = {}  BY <2>2, FS_EmptySet
  <2>3. CASE users # {}
    <3>1. PICK u \in users : TRUE  BY <2>3
    <3>2. users = {u}  BY <1>1, <2>1, <3>1 DEF IInv, Gated
    <3>. QED  BY <3>2, FS_Singleton
  <2>. QED  BY <2>2, <2>3
<1>. QED  BY <1>1, Invariance, PTL

\* Run under one gate, that administrator keeps the secret of the state it was created
\* from: neither a replay nor a half-failed attempt replaces it.
THEOREM OwnFactorUnderGate == Spec => []OwnFactor
<1>1. IInv => OwnFactor  BY DEF IInv, Gated, OwnFactor
<1>. QED  BY <1>1, Invariance, PTL

\* The first administrator has a factor whatever races and fails and, under one gate, is
\* the only one and keeps its own (BootstrapService.complete).
THEOREM FirstAdministratorKept == Spec => []FirstAdministrator
<1>1. FactorBeforeUser /\ OneAdministrator /\ OwnFactor => FirstAdministrator  BY DEF FirstAdministrator
<1>. QED  BY <1>1, FactorFirst, OneAdministratorUnderGate, OwnFactorUnderGate, PTL

-----------------------------------------------------------------------------
(* The coordinator of file-bootstrap.ts.                                   *)

\* The record keeps its attempt's account for good.
Settled(r) == r.state \in {"committed", "applied"}

\* Nothing is stored for anybody.
Vacant == admins = {} /\ factor = {} /\ backups = {} /\ created = {} /\ receipts = {}

\* A record a power loss may leave: an attempt that was begun, acknowledged as its record
\* says, and never older than what a browser was shown.
RecordSound(r) ==
  /\ r.state = "none" => r.attempt = 0
  /\ r.state # "none" => r.attempt \in 1 .. begun
  /\ r.ack => r.attempt \in acked
  /\ Settled(r) => r.attempt \in acked /\ r.attempt \in shown
  /\ \A a \in shown : a <= r.attempt

\* Two records that a power loss may leave are of one attempt once one is settled, and
\* of one completion once one is applied.
DiskSound ==
  /\ journal \in disk /\ \A r \in disk : RecordSound(r)
  /\ journal.state = "none" => disk = {journal}
  /\ \A r, q \in disk : Settled(r) => q.attempt = r.attempt /\ q.state # "none"
  /\ \A r, q \in disk : r.state = "applied" => Settled(q) /\ q.completedAt = r.completedAt

\* The stores hold nothing of an attempt before every record is settled, and nothing of
\* another one afterwards.
StoresSound ==
  /\ \A r \in disk : ~Settled(r) =>
       /\ factor = {} /\ backups = {} /\ created = {} /\ receipts = {}
       /\ \A u \in admins : u.id = File!Other
  /\ \A r \in disk : Settled(r) =>
       /\ \A f \in factor : f.id = r.attempt
       /\ \A k \in backups : k.id = r.attempt
       /\ \A u \in admins : u.id = r.attempt
       /\ \A a \in created : a = r.attempt
  /\ \A u, v \in admins : u = v

\* While a record may have to be applied, the account is as the projection left it: the
\* gate lets nobody use it before recovery is through.
ProjectionSound ==
  /\ \A r \in disk : r.state = "committed" =>
       /\ \A u \in admins : u.changed = FALSE
       /\ admins # {} => factor # {} /\ backups # {}
       /\ receipts = {}
       /\ admins # {} /\ ready = TRUE => pc \in {"seal", "sealSync"}
  /\ \A x \in receipts, r \in disk : r.attempt = x.attempt /\ r.completedAt = x.completedAt

\* Where the operation under the gate stands.
PcSound ==
  /\ pc \in {"sync", "factor", "codes", "user", "seal", "sealSync", "writeSync", "recheck"} =>
       rec = journal
  /\ pc \in {"factor", "codes", "user", "seal"} => journal.state = "committed"
  /\ pc \in {"factor", "codes", "user", "seal", "body", "write", "recheck"} => disk = {journal}
  /\ pc \in {"codes", "user", "seal"} => factor # {}
  /\ pc \in {"user", "seal"} => backups # {}
  /\ pc = "seal" => admins # {}
  /\ pc = "sealSync" => journal.state = "applied"
  /\ pc = "body" => journal.state # "committed"
  /\ pc \in {"write", "writeSync"} => Vacant /\ rec.state \in {"pending", "committed"}
  /\ pc = "recheck" => rec.state = "pending"
  /\ pc = "write" => /\ ~Settled(journal) /\ RecordSound(rec)
                     /\ Settled(rec) => journal.attempt = rec.attempt /\ journal.state = "pending"
  /\ req.op \in {"read", "profile", "ack", "complete"} => req.ref \in shown

FileInv == File!TypeOK /\ DiskSound /\ StoresSound /\ ProjectionSound /\ PcSound

\* The five parts of the invariant.
LEMMA FileParts == FileInv => File!TypeOK /\ DiskSound /\ StoresSound /\ ProjectionSound /\ PcSound
BY DEF FileInv

\* The sentinels have their types.
LEMMA NothingTyped ==
  File!NoRecord \in File!Records /\ File!NoRequest \in [op : File!Ops, ref : 0 .. MaxAttempts]
BY FileAssumption DEF File!BootstrapAssumption, File!NoRecord, File!NoRequest, File!Records, File!Ops

\* A record on disk that is not the empty one is of an attempt.
LEMMA OfAnAttempt ==
  ASSUME FileInv, NEW r \in disk, r.state # "none"
  PROVE  r.attempt \in File!Attempts /\ r \in File!Records
BY FileAssumption, FileParts
   DEF File!BootstrapAssumption, File!TypeOK, File!Attempts, DiskSound, RecordSound

\* The invariant holds of the empty installation.
LEMMA FileInit == File!Init => FileInv
<1>. SUFFICES ASSUME File!Init PROVE FileInv  OBVIOUS
<1>1. File!TypeOK
  <2>1. /\ journal \in File!Records /\ rec \in File!Records /\ disk \in SUBSET File!Records
        /\ req \in [op : File!Ops, ref : 0 .. MaxAttempts]
    BY NothingTyped DEF File!Init
  <2>2. /\ wall \in 0 .. MaxWall /\ begun \in 0 .. MaxAttempts /\ ioFaults \in 0 .. MaxIoFaults
        /\ crashes \in 0 .. MaxCrashes /\ pc \in File!PCs /\ ready \in BOOLEAN
    <3>1. MaxWall \in Nat /\ MaxAttempts \in Nat /\ MaxIoFaults \in Nat /\ MaxCrashes \in Nat
      BY FileAssumption DEF File!BootstrapAssumption
    <3>2. wall = 0 /\ begun = 0 /\ ioFaults = 0 /\ crashes = 0  BY DEF File!Init
    <3>3. wall \in 0 .. MaxWall /\ begun \in 0 .. MaxAttempts /\ ioFaults \in 0 .. MaxIoFaults
          /\ crashes \in 0 .. MaxCrashes
      BY <3>1, <3>2
    <3>4. pc \in File!PCs /\ ready \in BOOLEAN  BY DEF File!Init, File!PCs
    <3>. QED  BY <3>3, <3>4
  <2>. QED  BY <2>1, <2>2 DEF File!Init, File!TypeOK
<1>2. DiskSound  BY DEF File!Init, DiskSound, RecordSound, Settled, File!NoRecord
<1>3. StoresSound  BY DEF File!Init, StoresSound, Settled, File!NoRecord
<1>4. ProjectionSound  BY DEF File!Init, ProjectionSound, File!NoRecord
<1>5. PcSound  BY DEF File!Init, PcSound, File!NoRequest
<1>. QED  BY <1>1, <1>2, <1>3, <1>4, <1>5 DEF FileInv

-----------------------------------------------------------------------------
\* A request goes to the gate with a reference its browser was given.
LEMMA StartKeeps ==
  ASSUME FileInv, NEW op \in File!Ops, NEW ref \in 0 .. MaxAttempts, File!Start(op, ref),
         op \in {"read", "profile", "ack", "complete"} => ref \in shown
  PROVE  FileInv'
<1>. USE FileParts DEF File!Start, File!Go, File!stores, File!answers
<1>1. File!TypeOK'  BY DEF File!TypeOK, File!PCs
<1>2. DiskSound'  BY DEF DiskSound, RecordSound, Settled
<1>3. StoresSound'  BY DEF StoresSound, Settled, File!Other
<1>4. ProjectionSound'  BY DEF ProjectionSound
<1>5. PcSound'  BY DEF PcSound
<1>. QED  BY <1>1, <1>2, <1>3, <1>4, <1>5 DEF FileInv

\* An operation ends without touching a record, a store or an answer, and does not open
\* the gate over a projection that is not finished.
LEMMA EndKeeps ==
  ASSUME FileInv, File!Done, UNCHANGED <<journal, disk, File!stores, wall, begun, File!answers>>,
         ioFaults' \in 0 .. MaxIoFaults, crashes' \in 0 .. MaxCrashes, ready' \in BOOLEAN,
         ready' = FALSE \/ (ready' = ready /\ pc \notin {"seal", "sealSync"}) \/ pc = "body"
  PROVE  FileInv'
<1>. USE FileParts DEF File!Done, File!stores, File!answers
<1>1. File!TypeOK'
  <2>1. rec' \in File!Records /\ req' \in [op : File!Ops, ref : 0 .. MaxAttempts]  BY NothingTyped
  <2>2. pc' \in File!PCs  BY DEF File!PCs
  <2>. QED  BY <2>1, <2>2 DEF File!TypeOK, File!Attempts, File!Other
<1>2. DiskSound'  BY DEF DiskSound, RecordSound, Settled
<1>3. StoresSound'  BY DEF StoresSound, Settled, File!Other
<1>4. ProjectionSound'
  <2>1. ASSUME NEW r \in disk, r.state = "committed", admins # {}, ready' = TRUE  PROVE FALSE
    BY <2>1 DEF ProjectionSound, PcSound
  <2>. QED  BY <2>1 DEF ProjectionSound
<1>5. PcSound'  BY DEF PcSound, File!NoRequest
<1>. QED  BY <1>1, <1>2, <1>3, <1>4, <1>5 DEF FileInv

\* The record is read, and recovery goes on to make it durable.
LEMMA ReadKeeps ==
  ASSUME FileInv, File!ReadRecord
  PROVE  FileInv'
<1>. USE FileParts DEF File!ReadRecord, File!Go, File!stores, File!answers
<1>1. File!TypeOK'  BY DEF File!TypeOK, File!PCs
<1>2. DiskSound'  BY DEF DiskSound, RecordSound, Settled
<1>3. StoresSound'  BY DEF StoresSound, Settled, File!Other
<1>4. ProjectionSound'  BY DEF ProjectionSound
<1>5. PcSound'  BY DEF PcSound, DiskSound
<1>. QED  BY <1>1, <1>2, <1>3, <1>4, <1>5 DEF FileInv

\* The directory is synced: the record read is the only one left.
LEMMA SyncKeeps ==
  ASSUME FileInv, File!SyncDirectory
  PROVE  FileInv'
<1>. USE FileParts DEF File!SyncDirectory, File!Go, File!stores, File!answers
<1>1. File!TypeOK'  BY DEF File!TypeOK, File!PCs
<1>2. DiskSound'  BY DEF DiskSound, RecordSound, Settled
<1>3. StoresSound'  BY DEF StoresSound, DiskSound, Settled, File!Other
<1>4. ProjectionSound'  BY DEF ProjectionSound, DiskSound
<1>5. PcSound'  BY DEF PcSound, DiskSound, Vacant, Settled
<1>. QED  BY <1>1, <1>2, <1>3, <1>4, <1>5 DEF FileInv

-----------------------------------------------------------------------------
\* The factor is projected, for the committed attempt alone.
LEMMA FactorKeeps ==
  ASSUME FileInv, File!ProjectFactor
  PROVE  FileInv'
<1>. USE FileParts DEF File!ProjectFactor, File!Go
<1>. DEFINE f == [id |-> rec.attempt, step |-> 0]
<1>1. journal \in disk /\ rec = journal /\ journal.state = "committed" /\ disk = {journal}
  BY DEF PcSound, DiskSound
<1>2. factor' = IF factor = {} THEN {f} ELSE factor  OBVIOUS
<1>3. File!TypeOK'
  <2>1. f \in [id : File!Attempts, step : 0 .. 1]  BY <1>1, OfAnAttempt
  <2>2. factor' \in SUBSET [id : File!Attempts, step : 0 .. 1]  BY <1>2, <2>1 DEF File!TypeOK
  <2>. QED  BY <2>2 DEF File!TypeOK, File!PCs, File!answers
<1>4. DiskSound'  BY DEF DiskSound, RecordSound, Settled, File!answers
<1>5. StoresSound'  BY <1>1 DEF StoresSound, Settled, File!answers, File!Other
<1>6. ProjectionSound'  BY <1>1 DEF ProjectionSound, File!answers
<1>7. PcSound'  BY <1>1 DEF PcSound, File!answers
<1>. QED  BY <1>3, <1>4, <1>5, <1>6, <1>7 DEF FileInv

\* The codes are projected.
LEMMA CodesKeep ==
  ASSUME FileInv, File!ProjectCodes
  PROVE  FileInv'
<1>. USE FileParts DEF File!ProjectCodes, File!Go
<1>. DEFINE k == [id |-> rec.attempt, used |-> FALSE]
<1>1. journal \in disk /\ rec = journal /\ journal.state = "committed" /\ disk = {journal}
  BY DEF PcSound, DiskSound
<1>2. backups' = IF backups = {} THEN {k} ELSE backups  OBVIOUS
<1>3. File!TypeOK'
  <2>1. k \in [id : File!Attempts, used : BOOLEAN]  BY <1>1, OfAnAttempt
  <2>2. backups' \in SUBSET [id : File!Attempts, used : BOOLEAN]  BY <1>2, <2>1 DEF File!TypeOK
  <2>. QED  BY <2>2 DEF File!TypeOK, File!PCs, File!answers
<1>4. DiskSound'  BY DEF DiskSound, RecordSound, Settled, File!answers
<1>5. StoresSound'  BY <1>1 DEF StoresSound, Settled, File!answers, File!Other
<1>6. ProjectionSound'  BY <1>1 DEF ProjectionSound, File!answers
<1>7. PcSound'  BY <1>1 DEF PcSound, File!answers
<1>. QED  BY <1>3, <1>4, <1>5, <1>6, <1>7 DEF FileInv

\* The account comes last, when its factor and codes are there.
LEMMA UserKeeps ==
  ASSUME FileInv, File!ProjectUser
  PROVE  FileInv'
<1>. USE FileParts DEF File!ProjectUser, File!Go
<1>. DEFINE u == [id |-> rec.attempt, changed |-> FALSE]
<1>1. /\ journal \in disk /\ rec = journal /\ journal.state = "committed" /\ disk = {journal}
      /\ factor # {} /\ backups # {}
  BY DEF PcSound, DiskSound
<1>2. admins' = IF admins = {} THEN {u} ELSE admins  OBVIOUS
<1>3. created' = created \cup {rec.attempt}  OBVIOUS
<1>4. File!TypeOK'
  <2>1. rec.attempt \in File!Attempts  BY <1>1, OfAnAttempt
  <2>2. admins' \in SUBSET [id : File!Attempts \cup {File!Other}, changed : BOOLEAN]
    BY <1>2, <2>1 DEF File!TypeOK
  <2>3. created' \in SUBSET File!Attempts  BY <1>3, <2>1 DEF File!TypeOK
  <2>. QED  BY <2>2, <2>3 DEF File!TypeOK, File!PCs, File!answers, File!Other, File!Attempts
<1>5. DiskSound'  BY DEF DiskSound, RecordSound, Settled, File!answers
<1>6. StoresSound'
  <2>1. \A v \in admins' : v.id = journal.attempt  BY <1>1, <1>2 DEF StoresSound, Settled
  <2>2. \A a \in created' : a = journal.attempt  BY <1>1, <1>3 DEF StoresSound, Settled
  <2>3. \A v, w \in admins' : v = w  BY <1>2 DEF StoresSound
  <2>. QED  BY <1>1, <2>1, <2>2, <2>3 DEF StoresSound, Settled, File!answers
<1>7. ProjectionSound'
  <2>1. \A v \in admins' : v.changed = FALSE  BY <1>1, <1>2 DEF ProjectionSound
  <2>. QED  BY <1>1, <2>1 DEF ProjectionSound, File!answers
<1>8. PcSound'  BY <1>1, <1>2 DEF PcSound, File!answers
<1>. QED  BY <1>4, <1>5, <1>6, <1>7, <1>8 DEF FileInv

\* The record is sealed: the committed record it replaces is of the same completion.
LEMMA SealKeeps ==
  ASSUME FileInv, File!Seal
  PROVE  FileInv'
<1>. USE FileParts DEF File!Seal, File!Go, File!Rename
<1>1. /\ journal \in disk /\ rec = journal /\ journal.state = "committed" /\ disk = {journal}
      /\ journal \in File!Records
  BY OfAnAttempt DEF PcSound, DiskSound
<1>2. PICK q \in File!Records, r \in File!Records :
        /\ q = journal /\ r.state = "applied" /\ r.attempt = q.attempt /\ r.ack = q.ack
        /\ r.completedAt = q.completedAt /\ journal' = r /\ rec' = r /\ disk' = {q, r}
  <2>1. [rec EXCEPT !.state = "applied"] \in File!Records  BY <1>1 DEF File!Records
  <2>. QED  BY <1>1, <2>1 DEF File!Records
<1>3. File!TypeOK'  BY <1>1, <1>2 DEF File!TypeOK, File!PCs, File!stores, File!answers
<1>4. DiskSound'
  <2>1. RecordSound(q)  BY <1>1, <1>2 DEF DiskSound
  <2>2. RecordSound(q)' /\ RecordSound(r)'
    BY <1>1, <1>2, <2>1 DEF RecordSound, Settled, File!answers
  <2>. QED  BY <1>1, <1>2, <2>2 DEF DiskSound, Settled
<1>5. StoresSound'  BY <1>1, <1>2 DEF StoresSound, Settled, File!stores, File!answers, File!Other
<1>6. ProjectionSound'  BY <1>1, <1>2 DEF ProjectionSound, File!stores, File!answers
<1>7. PcSound'  BY <1>1, <1>2 DEF PcSound, File!answers
<1>. QED  BY <1>3, <1>4, <1>5, <1>6, <1>7 DEF FileInv

\* The seal is made durable.
LEMMA SealSyncKeeps ==
  ASSUME FileInv, File!SealSync
  PROVE  FileInv'
<1>. USE FileParts DEF File!SealSync, File!Go, File!stores, File!answers
<1>1. File!TypeOK'  BY DEF File!TypeOK, File!PCs
<1>2. DiskSound'  BY DEF DiskSound, RecordSound, Settled
<1>3. StoresSound'  BY DEF StoresSound, DiskSound, Settled, File!Other
<1>4. ProjectionSound'  BY DEF ProjectionSound, PcSound, DiskSound
<1>5. PcSound'  BY DEF PcSound
<1>. QED  BY <1>1, <1>2, <1>3, <1>4, <1>5 DEF FileInv

-----------------------------------------------------------------------------
\* An account created another way finds nothing of an attempt stored.
LEMMA InitializeKeeps ==
  ASSUME FileInv, File!Initialize
  PROVE  FileInv'
<1>. USE FileParts DEF File!Initialize, File!Done
<1>1. journal \in disk /\ disk = {journal} /\ ~Settled(journal) /\ pc' = "idle"
  BY DEF PcSound, DiskSound, File!Reserved, Settled
<1>2. PICK u \in [id : File!Attempts \cup {File!Other}, changed : BOOLEAN] :
        admins' = {u} /\ u.id = File!Other
  <2>1. [id |-> File!Other, changed |-> FALSE]
          \in [id : File!Attempts \cup {File!Other}, changed : BOOLEAN]
    OBVIOUS
  <2>. QED  BY <2>1
<1>3. File!TypeOK'
  <2>1. rec' \in File!Records /\ req' \in [op : File!Ops, ref : 0 .. MaxAttempts]  BY NothingTyped
  <2>. QED  BY <1>2, <2>1 DEF File!TypeOK, File!PCs, File!answers, File!Attempts, File!Other
<1>4. DiskSound'  BY DEF DiskSound, RecordSound, Settled, File!answers
<1>5. StoresSound'  BY <1>1, <1>2 DEF StoresSound, Settled, File!answers, File!Other
<1>6. ProjectionSound'  BY <1>1 DEF ProjectionSound, Settled, File!answers
<1>7. PcSound'  BY <1>1 DEF PcSound, File!NoRequest
<1>. QED  BY <1>3, <1>4, <1>5, <1>6, <1>7 DEF FileInv

\* An attempt is drawn over an empty installation: newer than any that was shown.
LEMMA BeginKeeps ==
  ASSUME FileInv, File!BeginBody
  PROVE  FileInv'
<1>. USE FileParts DEF File!BeginBody, File!Prepare, File!Go
<1>1. /\ journal \in disk /\ disk = {journal} /\ ~Settled(journal) /\ RecordSound(journal)
      /\ factor = {} /\ backups = {} /\ admins = {} /\ created = {} /\ receipts = {}
  BY DEF PcSound, DiskSound, StoresSound, File!Reserved, Settled, File!empty
<1>2. begun \in Nat /\ begun < MaxAttempts /\ begun' = begun + 1 /\ MaxAttempts \in Nat
      /\ wall \in 0 .. MaxWall /\ MaxWall \in Nat
  BY FileAssumption DEF File!BootstrapAssumption, File!TypeOK
<1>3. PICK r \in File!Records :
        /\ rec' = r /\ r.state = "pending" /\ r.attempt = begun + 1 /\ r.ack = FALSE
  <2>1. [File!NoRecord EXCEPT !.state = "pending", !.attempt = begun + 1, !.createdAt = wall]
          \in File!Records
    <3>1. begun + 1 \in 0 .. MaxAttempts  BY <1>2
    <3>. QED  BY <1>2, <3>1, NothingTyped DEF File!Records
  <2>2. File!NoRecord.ack = FALSE /\ File!NoRecord \in File!Records
    BY NothingTyped DEF File!NoRecord
  <2>. QED  BY <2>1, <2>2 DEF File!Records
<1>4. File!TypeOK'
  BY <1>2, <1>3 DEF File!TypeOK, File!PCs, File!stores, File!answers, File!Attempts, File!Other
<1>5. \A a \in shown : a \in Nat /\ a <= begun
  <2>1. ASSUME NEW a \in shown  PROVE a \in Nat /\ a <= begun
    <3>1. a \in Nat  BY DEF File!TypeOK, File!Attempts
    <3>2. a <= journal.attempt  BY <1>1 DEF RecordSound
    <3>3. journal.attempt \in Nat /\ journal.attempt <= begun
      BY <1>1, <1>2 DEF RecordSound
    <3>. QED  BY <3>1, <3>2, <3>3, <1>2
  <2>. QED  BY <2>1
<1>6. DiskSound'
  <2>1. ASSUME NEW r1 \in disk  PROVE RecordSound(r1)'
    BY <1>1, <1>2 DEF DiskSound, RecordSound, Settled, File!answers
  <2>. QED  BY <1>1, <2>1 DEF DiskSound, Settled
<1>7. StoresSound'  BY DEF StoresSound, Settled, File!stores, File!answers, File!Other
<1>8. ProjectionSound'  BY <1>1 DEF ProjectionSound, Settled, File!stores, File!answers
<1>9. PcSound'
  <2>1. RecordSound(rec)'
    <3>1. rec'.attempt \in 1 .. begun' /\ \A a \in shown : a <= rec'.attempt
      BY <1>2, <1>3, <1>5
    <3>. QED  BY <1>3, <3>1 DEF RecordSound, Settled, File!answers
  <2>2. Vacant'  BY <1>1 DEF Vacant, File!stores, File!answers
  <2>. QED  BY <1>1, <1>3, <2>1, <2>2 DEF PcSound, Settled, File!answers
<1>. QED  BY <1>4, <1>6, <1>7, <1>8, <1>9 DEF FileInv

\* What the reference of a live attempt means.
LEMMA BoundMeans ==
  ASSUME FileInv, pc = "body", File!Bound
  PROVE  /\ journal \in disk /\ disk = {journal} /\ journal.state = "pending" /\ RecordSound(journal)
         /\ journal \in File!Records /\ journal.attempt = req.ref /\ journal.attempt \in File!Attempts
         /\ admins = {} /\ factor = {} /\ backups = {} /\ created = {} /\ receipts = {}
<1>. USE FileParts
<1>1. /\ journal \in disk /\ disk = {journal} /\ journal.state = "pending" /\ journal.attempt = req.ref
      /\ admins = {} /\ factor = {} /\ backups = {} /\ created = {} /\ receipts = {}
  BY DEF PcSound, DiskSound, StoresSound, Settled, File!Bound, File!empty
<1>. QED  BY <1>1, OfAnAttempt DEF DiskSound

\* Reading an attempt shows what its journal holds.
LEMMA ReadBodyKeeps ==
  ASSUME FileInv, File!ReadBody
  PROVE  FileInv'
<1>. USE FileParts DEF File!ReadBody, File!Done
<1>1. /\ journal \in disk /\ disk = {journal} /\ journal.state = "pending"
      /\ journal.attempt \in File!Attempts /\ RecordSound(journal)
  BY BoundMeans
<1>2. File!TypeOK'
  <2>1. rec' \in File!Records /\ req' \in [op : File!Ops, ref : 0 .. MaxAttempts]  BY NothingTyped
  <2>2. shown' \in SUBSET File!Attempts  BY <1>1 DEF File!TypeOK
  <2>. QED
    BY <2>1, <2>2 DEF File!TypeOK, File!PCs, File!stores, File!Attempts, File!Other
<1>3. DiskSound'
  BY <1>1 DEF DiskSound, RecordSound, Settled, File!TypeOK, File!Attempts
<1>4. StoresSound'  BY DEF StoresSound, Settled, File!stores, File!Other
<1>5. ProjectionSound'  BY <1>1 DEF ProjectionSound, File!stores
<1>6. PcSound'  BY <1>1 DEF PcSound, File!NoRequest
<1>. QED  BY <1>2, <1>3, <1>4, <1>5, <1>6 DEF FileInv

\* A record that changes the profile, the acknowledgment or, once acknowledged, the
\* state of a live attempt is about that attempt.
LEMMA PreparedKeeps ==
  ASSUME FileInv, pc = "body", File!Bound, NEW r \in File!Records, rec' = r, File!Go("write"),
         UNCHANGED <<journal, disk, File!stores, wall, begun, req, ready, shown, receipts,
                     ioFaults, crashes>>,
         r.attempt = journal.attempt, r.state \in {"pending", "committed"},
         acked' \in {acked, acked \cup {journal.attempt}}, r.ack => r.attempt \in acked',
         r.state = "committed" => r.ack /\ journal.attempt \in shown
  PROVE  FileInv'
<1>. USE FileParts DEF File!Go
<1>1. /\ journal \in disk /\ disk = {journal} /\ journal.state = "pending" /\ RecordSound(journal)
      /\ journal.attempt \in File!Attempts /\ Vacant
  BY BoundMeans DEF Vacant
<1>2. acked' \in SUBSET File!Attempts /\ acked \subseteq acked'  BY <1>1 DEF File!TypeOK
<1>3. File!TypeOK'
  BY <1>2 DEF File!TypeOK, File!PCs, File!stores, File!Attempts, File!Other
<1>4. DiskSound'
  <2>1. ASSUME NEW q \in disk  PROVE RecordSound(q)'
    BY <1>2 DEF DiskSound, RecordSound, Settled
  <2>. QED  BY <2>1 DEF DiskSound, Settled
<1>5. StoresSound'  BY DEF StoresSound, Settled, File!stores, File!Other
<1>6. ProjectionSound'  BY <1>1 DEF ProjectionSound, File!stores
<1>7. PcSound'
  <2>1. RecordSound(rec)'  BY <1>1, <1>2 DEF RecordSound, Settled
  <2>2. Vacant'  BY <1>1 DEF Vacant, File!stores
  <2>. QED  BY <1>1, <2>1, <2>2 DEF PcSound, Settled
<1>. QED  BY <1>3, <1>4, <1>5, <1>6, <1>7 DEF FileInv

\* The profile changes, the codes are acknowledged, the attempt is completed.
LEMMA BodyKeeps ==
  ASSUME FileInv, File!ProfileBody \/ File!AckBody \/ File!CompleteBody
  PROVE  FileInv'
<1>. USE DEF File!Prepare, File!answers
<1>1. /\ pc = "body" /\ File!Bound /\ File!Go("write")
      /\ UNCHANGED <<journal, disk, File!stores, wall, begun, req, ready, shown, receipts,
                     ioFaults, crashes>>
  BY DEF File!ProfileBody, File!AckBody, File!CompleteBody
<1>2. /\ journal \in File!Records /\ journal.state = "pending" /\ RecordSound(journal)
      /\ journal.attempt = req.ref /\ journal \in disk
  BY <1>1, BoundMeans
<1>3. CASE File!ProfileBody
  <2>1. PICK r \in File!Records : rec' = r /\ r.attempt = journal.attempt
          /\ r.state = journal.state /\ r.ack = journal.ack
    <3>1. [journal EXCEPT !.profile = 1 - @] \in File!Records  BY <1>2 DEF File!Records
    <3>. QED  BY <1>2, <1>3, <3>1 DEF File!ProfileBody, File!Records
  <2>. QED  BY <1>1, <1>2, <1>3, <2>1, PreparedKeeps DEF File!ProfileBody, RecordSound
<1>4. CASE File!AckBody
  <2>1. PICK r \in File!Records : rec' = r /\ r.attempt = journal.attempt /\ r.state = journal.state
    <3>1. [journal EXCEPT !.ack = TRUE] \in File!Records  BY <1>2 DEF File!Records
    <3>. QED  BY <1>2, <1>4, <3>1 DEF File!AckBody, File!Records
  <2>. QED  BY <1>1, <1>2, <1>4, <2>1, PreparedKeeps DEF File!AckBody
<1>5. CASE File!CompleteBody
  <2>1. PICK r \in File!Records : rec' = r /\ r.attempt = journal.attempt /\ r.state = "committed"
          /\ r.ack = journal.ack
    <3>1. wall \in 0 .. MaxWall  BY FileParts DEF File!TypeOK
    <3>2. [journal EXCEPT !.state = "committed", !.completedAt = wall] \in File!Records
      BY <1>2, <3>1 DEF File!Records
    <3>. QED  BY <1>2, <1>5, <3>2 DEF File!CompleteBody, File!Records
  <2>2. journal.ack /\ journal.attempt \in shown
    BY <1>2, <1>5, FileParts DEF File!CompleteBody, PcSound
  <2>. QED  BY <1>1, <1>2, <1>5, <2>1, <2>2, PreparedKeeps DEF File!CompleteBody, RecordSound
<1>. QED  BY <1>3, <1>4, <1>5

\* The receipt is the one of the record, which is the only one left.
LEMMA ReceiptKeeps ==
  ASSUME FileInv, File!ReturnReceipt
  PROVE  FileInv'
<1>. USE FileParts DEF File!ReturnReceipt, File!Done
<1>. DEFINE x == [attempt |-> req.ref, completedAt |-> journal.completedAt]
<1>1. /\ journal \in disk /\ disk = {journal} /\ journal.state = "applied" /\ journal.attempt = req.ref
      /\ journal.attempt \in File!Attempts /\ journal \in File!Records
  BY OfAnAttempt DEF PcSound, DiskSound
<1>2. receipts' = receipts \cup {x}  OBVIOUS
<1>3. File!TypeOK'
  <2>1. rec' \in File!Records /\ req' \in [op : File!Ops, ref : 0 .. MaxAttempts]  BY NothingTyped
  <2>2. x \in [attempt : File!Attempts, completedAt : 0 .. MaxWall]  BY <1>1 DEF File!Records
  <2>3. receipts' \in SUBSET [attempt : File!Attempts, completedAt : 0 .. MaxWall]
    BY <1>2, <2>2 DEF File!TypeOK
  <2>. QED  BY <2>1, <2>3 DEF File!TypeOK, File!PCs, File!stores, File!Attempts, File!Other
<1>4. DiskSound'  BY DEF DiskSound, RecordSound, Settled
<1>5. StoresSound'  BY <1>1 DEF StoresSound, Settled, File!stores, File!Other
<1>6. ProjectionSound'  BY <1>1, <1>2 DEF ProjectionSound, File!stores
<1>7. PcSound'  BY <1>1 DEF PcSound, File!NoRequest
<1>. QED  BY <1>3, <1>4, <1>5, <1>6, <1>7 DEF FileInv

-----------------------------------------------------------------------------
\* The record is published beside the one it replaces.
LEMMA WriteKeeps ==
  ASSUME FileInv, File!WriteRecord
  PROVE  FileInv'
<1>. USE FileParts DEF File!WriteRecord, File!Go, File!Rename
<1>1. PICK q \in File!Records, r \in File!Records :
        /\ q = journal /\ r = rec /\ disk = {q} /\ ~Settled(q) /\ RecordSound(q) /\ RecordSound(r)
        /\ Settled(r) => q.attempt = r.attempt /\ q.state = "pending"
        /\ r.state \in {"pending", "committed"} /\ Vacant
  BY DEF PcSound, DiskSound, File!TypeOK
<1>2. journal' = r /\ disk' = {q, r} /\ rec' = r  BY <1>1
<1>3. File!TypeOK'
  BY <1>1, <1>2 DEF File!TypeOK, File!PCs, File!stores, File!answers, File!Attempts, File!Other
<1>4. DiskSound'
  <2>1. RecordSound(q)' /\ RecordSound(r)'  BY <1>1 DEF RecordSound, Settled, File!answers
  <2>. QED  BY <1>1, <1>2, <2>1 DEF DiskSound, Settled
<1>5. StoresSound'  BY <1>1 DEF StoresSound, Vacant, Settled, File!stores, File!answers, File!Other
<1>6. ProjectionSound'  BY <1>1 DEF ProjectionSound, Vacant, File!stores, File!answers
<1>7. PcSound'  BY <1>1, <1>2 DEF PcSound, Vacant, File!stores, File!answers
<1>. QED  BY <1>3, <1>4, <1>5, <1>6, <1>7 DEF FileInv

\* Its rename is made durable, and a committed record goes on to be applied.
LEMMA WriteSyncKeeps ==
  ASSUME FileInv, File!WriteSync
  PROVE  FileInv'
<1>. USE FileParts DEF File!WriteSync, File!Go, File!stores, File!answers
<1>1. File!TypeOK'  BY DEF File!TypeOK, File!PCs
<1>2. DiskSound'  BY DEF DiskSound, RecordSound, Settled
<1>3. StoresSound'  BY DEF StoresSound, DiskSound, Settled, File!Other
<1>4. ProjectionSound'  BY DEF ProjectionSound, PcSound, Vacant
<1>5. PcSound'  BY DEF PcSound
<1>. QED  BY <1>1, <1>2, <1>3, <1>4, <1>5 DEF FileInv

\* The pending record is durable when its attempt is shown.
LEMMA RecheckKeeps ==
  ASSUME FileInv, File!Recheck
  PROVE  FileInv'
<1>. USE FileParts DEF File!Recheck, File!Done
<1>1. /\ journal \in disk /\ disk = {journal} /\ rec = journal /\ journal.state = "pending"
      /\ journal.attempt \in File!Attempts
  BY OfAnAttempt DEF PcSound, DiskSound
<1>2. shown' \in {shown, shown \cup {journal.attempt}}  BY <1>1
<1>3. File!TypeOK'
  <2>1. rec' \in File!Records /\ req' \in [op : File!Ops, ref : 0 .. MaxAttempts]  BY NothingTyped
  <2>2. shown' \in SUBSET File!Attempts  BY <1>1, <1>2 DEF File!TypeOK
  <2>. QED
    BY <2>1, <2>2 DEF File!TypeOK, File!PCs, File!stores, File!Attempts, File!Other
<1>4. DiskSound'
  BY <1>1, <1>2 DEF DiskSound, RecordSound, Settled, File!TypeOK, File!Attempts
<1>5. StoresSound'  BY DEF StoresSound, Settled, File!stores, File!Other
<1>6. ProjectionSound'  BY <1>1 DEF ProjectionSound, File!stores
<1>7. PcSound'  BY <1>1 DEF PcSound, File!NoRequest
<1>. QED  BY <1>3, <1>4, <1>5, <1>6, <1>7 DEF FileInv

-----------------------------------------------------------------------------
\* The account lives on only where no record waits to be applied.
LEMMA AccountKeeps ==
  ASSUME FileInv, File!AccountLives
  PROVE  FileInv'
<1>. USE FileParts DEF File!AccountLives, File!answers
<1>1. \A r \in disk : r.state # "committed"  BY DEF ProjectionSound
<1>2. \A f \in factor' : f \in [id : File!Attempts, step : 0 .. 1] /\ \E g \in factor : f.id = g.id
  <2>1. \A g \in factor : /\ [g EXCEPT !.step = 1] \in [id : File!Attempts, step : 0 .. 1]
                          /\ [g EXCEPT !.step = 1].id = g.id
    BY DEF File!TypeOK
  <2>2. factor' = factor \/ factor' = {[g EXCEPT !.step = 1] : g \in factor}  OBVIOUS
  <2>. QED  BY <2>1, <2>2 DEF File!TypeOK
<1>3. \A k \in backups' : k \in [id : File!Attempts, used : BOOLEAN] /\ \E g \in backups : k.id = g.id
  <2>1. \A g \in backups : /\ [g EXCEPT !.used = TRUE] \in [id : File!Attempts, used : BOOLEAN]
                           /\ [g EXCEPT !.used = TRUE].id = g.id
    BY DEF File!TypeOK
  <2>2. backups' = backups \/ backups' = {[g EXCEPT !.used = TRUE] : g \in backups}  OBVIOUS
  <2>. QED  BY <2>1, <2>2 DEF File!TypeOK
<1>4. \A u \in admins' : /\ u \in [id : File!Attempts \cup {File!Other}, changed : BOOLEAN]
                         /\ \E v \in admins : u.id = v.id
  <2>1. \A v \in admins :
          /\ [v EXCEPT !.changed = TRUE] \in [id : File!Attempts \cup {File!Other}, changed : BOOLEAN]
          /\ [v EXCEPT !.changed = TRUE].id = v.id
    BY DEF File!TypeOK
  <2>2. \/ admins' = admins \/ admins' = {}
        \/ admins' = {[v EXCEPT !.changed = TRUE] : v \in admins}
    OBVIOUS
  <2>. QED  BY <2>1, <2>2 DEF File!TypeOK
<1>5. \A u, v \in admins' : u = v  BY DEF StoresSound
<1>6. File!TypeOK'  BY <1>2, <1>3, <1>4 DEF File!TypeOK, File!Attempts, File!Other
<1>7. DiskSound'  BY DEF DiskSound, RecordSound, Settled
<1>8. StoresSound'  BY <1>2, <1>3, <1>4, <1>5 DEF StoresSound, Settled, File!Other
<1>9. ProjectionSound'  BY <1>1 DEF ProjectionSound
<1>10. PcSound'  BY DEF PcSound
<1>. QED  BY <1>6, <1>7, <1>8, <1>9, <1>10 DEF FileInv

\* A power loss leaves one of the records it may leave.
LEMMA PowerLossKeeps ==
  ASSUME FileInv, File!PowerLoss
  PROVE  FileInv'
<1>. USE FileParts DEF File!PowerLoss, File!Restart, File!Done, File!stores, File!answers
<1>1. PICK r \in disk : journal' = r /\ disk' = {r}  OBVIOUS
<1>2. File!TypeOK'
  <2>1. rec' \in File!Records /\ req' \in [op : File!Ops, ref : 0 .. MaxAttempts]  BY NothingTyped
  <2>2. crashes' \in 0 .. MaxCrashes  BY FileAssumption DEF File!TypeOK, File!BootstrapAssumption
  <2>3. journal' \in File!Records /\ disk' \in SUBSET File!Records  BY <1>1 DEF File!TypeOK
  <2>. QED  BY <2>1, <2>2, <2>3 DEF File!TypeOK, File!PCs, File!Attempts, File!Other
<1>3. DiskSound'  BY <1>1 DEF DiskSound, RecordSound, Settled
<1>4. StoresSound'  BY <1>1 DEF StoresSound, Settled, File!Other
<1>5. ProjectionSound'  BY <1>1 DEF ProjectionSound
<1>6. PcSound'  BY DEF PcSound, File!NoRequest
<1>. QED  BY <1>2, <1>3, <1>4, <1>5, <1>6 DEF FileInv

\* The clock moves, or nothing does.
LEMMA ClockKeeps ==
  ASSUME FileInv, File!ClockMoves \/ UNCHANGED File!vars
  PROVE  FileInv'
<1>. USE FileParts DEF File!ClockMoves, File!vars, File!stores, File!answers
<1>1. File!TypeOK'  BY DEF File!TypeOK, File!Attempts, File!Other
<1>2. DiskSound'  BY DEF DiskSound, RecordSound, Settled
<1>3. StoresSound'  BY DEF StoresSound, Settled, File!Other
<1>4. ProjectionSound'  BY DEF ProjectionSound
<1>5. PcSound'  BY DEF PcSound, Vacant, RecordSound, Settled
<1>. QED  BY <1>1, <1>2, <1>3, <1>4, <1>5 DEF FileInv

\* An operation that ends with an answer that changes nothing, a refusal, a failed call, or
\* with the process.
LEMMA AnyEndKeeps ==
  ASSUME FileInv, \/ File!ApplyConflicts \/ File!Recovered \/ File!Refuse \/ File!TooLate
                  \/ File!IoFails \/ File!ProcessDies
  PROVE  FileInv'
<1>1. ioFaults \in 0 .. MaxIoFaults /\ crashes \in 0 .. MaxCrashes /\ ready \in BOOLEAN
      /\ MaxIoFaults \in Nat /\ MaxCrashes \in Nat
  BY FileParts, FileAssumption DEF File!TypeOK, File!BootstrapAssumption
<1>. USE DEF File!stores, File!answers
<1>2. CASE File!ApplyConflicts  BY <1>1, <1>2, EndKeeps DEF File!ApplyConflicts
<1>3. CASE File!Recovered  BY <1>1, <1>3, EndKeeps DEF File!Recovered
<1>4. CASE File!Refuse  BY <1>1, <1>4, EndKeeps DEF File!Refuse
<1>5. CASE File!TooLate  BY <1>1, <1>5, EndKeeps DEF File!TooLate
<1>6. CASE File!IoFails
  <2>1. ioFaults' \in 0 .. MaxIoFaults  BY <1>1, <1>6 DEF File!IoFails
  <2>. QED  BY <1>1, <1>6, <2>1, EndKeeps DEF File!IoFails
<1>7. CASE File!ProcessDies
  <2>1. crashes' \in 0 .. MaxCrashes  BY <1>1, <1>7 DEF File!ProcessDies, File!Restart
  <2>. QED  BY <1>1, <1>7, <2>1, EndKeeps DEF File!ProcessDies, File!Restart
<1>. QED  BY <1>2, <1>3, <1>4, <1>5, <1>6, <1>7

\* A request carries nothing, or a reference that was shown.
LEMMA RequestKeeps ==
  ASSUME FileInv, File!Request
  PROVE  FileInv'
<1>1. /\ MaxAttempts \in Nat /\ \A a \in shown : a \in 0 .. MaxAttempts
  BY FileParts, FileAssumption DEF File!TypeOK, File!Attempts, File!BootstrapAssumption
<1>2. \E op \in File!Ops, ref \in 0 .. MaxAttempts :
        File!Start(op, ref) /\ (op \in {"read", "profile", "ack", "complete"} => ref \in shown)
  <2>1. 0 \in 0 .. MaxAttempts  BY <1>1
  <2>2. CASE File!recover \/ File!initialize \/ File!begin
    BY <2>1, <2>2 DEF File!recover, File!initialize, File!begin, File!Ops
  <2>3. CASE File!read  BY <1>1, <2>3 DEF File!read, File!Ops
  <2>4. CASE File!updateProfile  BY <1>1, <2>4 DEF File!updateProfile, File!Ops
  <2>5. CASE File!acknowledgeBackupCodes  BY <1>1, <2>5 DEF File!acknowledgeBackupCodes, File!Ops
  <2>6. CASE File!complete  BY <1>1, <2>6 DEF File!complete, File!Ops
  <2>. QED  BY <2>2, <2>3, <2>4, <2>5, <2>6 DEF File!Request
<1>. QED  BY <1>2, StartKeeps

\* Every step keeps the invariant.
LEMMA FileStep == FileInv /\ [File!Next]_(File!vars) => FileInv'
<1>. SUFFICES ASSUME FileInv, File!Next \/ UNCHANGED File!vars  PROVE FileInv'  OBVIOUS
<1>1. CASE File!Request  BY <1>1, RequestKeeps
<1>2. CASE File!Step
  BY <1>2, ReadKeeps, SyncKeeps, FactorKeeps, CodesKeep, UserKeeps, SealKeeps, SealSyncKeeps,
     InitializeKeeps, BeginKeeps, ReadBodyKeeps, BodyKeeps, ReceiptKeeps, WriteKeeps,
     WriteSyncKeeps, RecheckKeeps, AnyEndKeeps
     DEF File!Step
<1>3. CASE File!IoFails \/ File!ProcessDies  BY <1>3, AnyEndKeeps
<1>4. CASE File!AccountLives  BY <1>4, AccountKeeps
<1>5. CASE File!PowerLoss  BY <1>5, PowerLossKeeps
<1>6. CASE File!ClockMoves \/ UNCHANGED File!vars  BY <1>6, ClockKeeps
<1>. QED  BY <1>1, <1>2, <1>3, <1>4, <1>5, <1>6 DEF File!Next

\* It holds of every reachable state.
LEMMA FileInvariance == File!Spec => []FileInv
BY FileInit, FileStep, PTL DEF File!Spec

-----------------------------------------------------------------------------
\* Two things that are the same one are at most one.
LEMMA AtMostOne ==
  ASSUME NEW S, \A x, y \in S : x = y
  PROVE  Cardinality(S) <= 1
<1>1. CASE S = {}  BY <1>1, FS_EmptySet
<1>2. CASE S # {}
  <2>1. PICK x \in S : TRUE  BY <1>2
  <2>2. S = {x}  BY <2>1
  <2>. QED  BY <2>2, FS_Singleton
<1>. QED  BY <1>1, <1>2

\* The cardinality of the instance is the one of FiniteSets.
LEMMA SameCardinality ==
  ASSUME NEW S
  PROVE  File!Cardinality(S) = Cardinality(S)
BY DEF File!Cardinality, Cardinality

\* However attempts, crashes, power losses and an alternative initialization interleave,
\* an installation gets one account from bootstrap, none beside it once it is applied, and
\* never one whose codes were not shown and acknowledged (file-bootstrap.ts).
THEOREM OneFirstAccountEver == File!Spec => []OneFirstAccount
<1>1. ASSUME FileInv  PROVE OneFirstAccount
  <2>. USE <1>1, FileParts
  <2>1. Cardinality(admins) <= 1  BY AtMostOne DEF StoresSound
  <2>2. \A a \in created : Settled(journal) /\ a = journal.attempt
    BY DEF StoresSound, DiskSound
  <2>3. Cardinality(created) <= 1  BY <2>2, AtMostOne
  <2>4. ASSUME NEW u \in admins, u.id = File!Other, NEW r \in disk, r.state = "applied"  PROVE FALSE
    <3>1. r.attempt = File!Other  BY <2>4 DEF StoresSound, Settled
    <3>2. r.attempt \in File!Attempts  BY <2>4, OfAnAttempt
    <3>3. MaxAttempts \in Nat  BY FileAssumption DEF File!BootstrapAssumption
    <3>. QED  BY <3>1, <3>2, <3>3 DEF File!Other, File!Attempts
  <2>5. created \subseteq acked \cap shown  BY <2>2 DEF DiskSound, RecordSound
  <2>6. File!OneAdministrator  BY <2>1, <2>3, <2>4, SameCardinality DEF File!OneAdministrator
  <2>. QED  BY <2>5, <2>6 DEF OneFirstAccount, File!AcknowledgedBeforeCreation
<1>. QED  BY <1>1, FileInvariance, PTL

\* What was projected is owned by every journal a power loss could leave, and a committed
\* record finds the stores as its own projection left them (apply, checkProjection).
THEOREM RecoveryAlwaysFinishes == File!Spec => []RecoveryOwnsStores
<1>1. ASSUME FileInv  PROVE RecoveryOwnsStores
  <2>. USE <1>1, FileParts
  <2>1. File!ProjectionOwned  BY DEF File!ProjectionOwned, StoresSound, Settled
  <2>2. ASSUME NEW r \in disk, r.state = "committed"  PROVE File!checkProjection(r, FALSE)
    <3>1. Cardinality(admins) <= 1  BY AtMostOne DEF StoresSound
    <3>2. /\ \A u \in admins : u.id = r.attempt
          /\ \A f \in factor : f.id = r.attempt
          /\ \A k \in backups : k.id = r.attempt
      BY <2>2 DEF StoresSound, Settled
    <3>3. \A u \in admins : u.changed = FALSE  BY <2>2 DEF ProjectionSound
    <3>4. admins # {} => factor # {} /\ backups # {}  BY <2>2 DEF ProjectionSound
    <3>. QED  BY <3>1, <3>2, <3>3, <3>4, SameCardinality DEF File!checkProjection
  <2>. QED  BY <2>1, <2>2 DEF RecoveryOwnsStores, File!RecoveryNeverConflicts
<1>. QED  BY <1>1, FileInvariance, PTL

\* A secret and codes that were shown, and the one receipt that was given, are those of
\* every journal a power loss could leave (begin, read, complete).
THEOREM ToldForGood == File!Spec => []ToldIsDurable
<1>1. ASSUME FileInv  PROVE ToldIsDurable
  <2>. USE <1>1, FileParts
  <2>1. ASSUME NEW a \in shown, NEW r \in disk  PROVE r.attempt >= a
    <3>1. a <= r.attempt  BY <2>1 DEF DiskSound, RecordSound
    <3>2. a \in Nat /\ r.attempt \in Nat
      BY FileAssumption DEF File!TypeOK, File!Attempts, File!Records, File!BootstrapAssumption
    <3>. QED  BY <3>1, <3>2
  <2>2. ASSUME NEW x \in receipts, NEW r \in disk
        PROVE  r.state = "applied" /\ r.attempt = x.attempt /\ r.completedAt = x.completedAt
    BY <2>2 DEF StoresSound, ProjectionSound, Settled
  <2>. QED  BY <2>1, <2>2 DEF ToldIsDurable, File!ShownIsDurable, File!ReceiptFrozen
<1>. QED  BY <1>1, FileInvariance, PTL

-----------------------------------------------------------------------------
(* The second factor.                                                      *)

\* Where a call can be, and what it carries.  A step derived from the clock is not before
\* the one the code was minted for, and is that one if the clock did not tick in between.
AtRedeem  == \E c \in Codes, s \in {"printed", "compact", "lower"} :
               call = [at |-> "redeem", input |-> [code |-> c, spelling |-> s], set |-> codeSet]
AtDelta   == \E m \in 0 .. clock + Window : call = [at |-> "delta", minted |-> m, last |-> lastStep]
AtStep(inside) ==
  \E m \in 0 .. MaxStep + Window, d \in -Window .. Window :
    /\ call = [at |-> "step", minted |-> m, last |-> lastStep, delta |-> d]
    /\ m <= clock + d /\ (~inside => m = clock + d)
AtPersist(inside) ==
  \E m \in 0 .. MaxStep + Window, s \in 0 .. MaxStep + Window :
    /\ call = [at |-> "persist", minted |-> m, step |-> s]
    /\ m <= s /\ (lastStep # None => lastStep < s) /\ (~inside => m = s)

CallKnown(inside) ==
  call = [at |-> "idle"] \/ AtRedeem \/ AtDelta \/ AtStep(inside) \/ AtPersist(inside)

\* One-time codes: what was accepted is covered by the stored step.
Covered(inside) ==
  /\ clock \in 0 .. MaxStep /\ lastStep \in Nat \cup {None}
  /\ accepted \in [0 .. MaxStep + 2 * Window + 1 -> Nat]
  /\ \A s \in DOMAIN accepted : accepted[s] > 0 => lastStep # None /\ lastStep >= s
  /\ ~inside => \A s \in DOMAIN accepted : accepted[s] <= 1

\* Recovery codes: what was accepted is what is marked used.
Used      == {i \in 1 .. SetSize : codeSet.codes[i].used}
Unused    == {i \in 1 .. SetSize : ~codeSet.codes[i].used}
UsedOf(c) == {i \in 1 .. SetSize : codeSet.codes[i].hash = c /\ codeSet.codes[i].used}
Accepted(c) == {n \in 1 .. Len(redeemed) : redeemed[n] = c}

Marked ==
  /\ codeSet \in [number : Nat, codes : [1 .. SetSize -> [hash : Codes, used : BOOLEAN]]]
  /\ redeemed \in Seq(Codes)
  /\ Len(redeemed) = Cardinality(Used) /\ remaining = Cardinality(Unused)
  /\ \A c \in Codes : Cardinality(Accepted(c)) = Cardinality(UsedOf(c))

CodeInv(inside) == CallKnown(inside) /\ Covered(inside) /\ Marked

LEMMA CodeConstants ==
  /\ SetSize \in Nat \ {0} /\ Threshold \in Nat /\ Window \in Nat /\ MaxStep \in Nat
  /\ MaxSets \in Nat \ {0} /\ None \notin Nat
BY SecondAssumption DEF Second!SecondFactorAssumption

\* The parts of a set are finite.
LEMMA SetsFinite ==
  /\ IsFiniteSet(1 .. SetSize) /\ Cardinality(1 .. SetSize) = SetSize
  /\ \A S \in SUBSET (1 .. SetSize) : IsFiniteSet(S)
<1>1. IsFiniteSet(1 .. SetSize) /\ Cardinality(1 .. SetSize) = SetSize
  BY CodeConstants, FS_Interval
<1>. QED  BY <1>1, FS_Subset

\* A set of codes as it is drawn: none of it is used.
LEMMA FreshSet ==
  ASSUME NEW n \in Nat, NEW v \in [1 .. SetSize -> Codes],
         codeSet = [number |-> n, codes |-> [i \in 1 .. SetSize |-> [hash |-> v[i], used |-> FALSE]]],
         redeemed = <<>>, remaining = SetSize
  PROVE  Marked
<1>1. codeSet \in [number : Nat, codes : [1 .. SetSize -> [hash : Codes, used : BOOLEAN]]]
  OBVIOUS
<1>2. \A i \in 1 .. SetSize : ~codeSet.codes[i].used  OBVIOUS
<1>3. Used = {} /\ Unused = 1 .. SetSize /\ \A c \in Codes : UsedOf(c) = {}
  BY <1>2 DEF Used, Unused, UsedOf
<1>4. Len(redeemed) = 0 /\ redeemed \in Seq(Codes) /\ \A c \in Codes : Accepted(c) = {}
  BY DEF Accepted
<1>. QED  BY <1>1, <1>3, <1>4, SetsFinite, FS_EmptySet DEF Marked

\* The same of a set that replaces another.
LEMMA DrawnFresh ==
  ASSUME NEW inside, NEW n \in Nat, codeSet' \in Second(inside)!Drawn(n),
         redeemed' = <<>>, remaining' = SetSize
  PROVE  Marked'
<1>1. PICK v \in [1 .. SetSize -> Codes] : codeSet' = Second(inside)!createBackupCodeSet(n, v)
  BY DEF Second!Drawn
<1>2. codeSet' = [number |-> n, codes |-> [i \in 1 .. SetSize |-> [hash |-> v[i], used |-> FALSE]]]
  BY <1>1 DEF Second!createBackupCodeSet
<1>3. codeSet' \in [number : Nat, codes : [1 .. SetSize -> [hash : Codes, used : BOOLEAN]]]
  BY <1>2
<1>4. \A i \in 1 .. SetSize : ~codeSet'.codes[i].used  BY <1>2
<1>5. Used' = {} /\ Unused' = 1 .. SetSize /\ \A c \in Codes : UsedOf(c)' = {}
  BY <1>4 DEF Used, Unused, UsedOf
<1>6. Len(redeemed') = 0 /\ redeemed' \in Seq(Codes) /\ \A c \in Codes : Accepted(c)' = {}
  BY DEF Accepted
<1>. QED  BY <1>3, <1>5, <1>6, SetsFinite, FS_EmptySet DEF Marked

\* A set of numbers has a least one.
LEMMA Least ==
  ASSUME NEW S \in SUBSET Nat, S # {}
  PROVE  \E n \in S : \A m \in S : n <= m
<1>. DEFINE R == OpToRel(<, Nat)
<1>1. IsWellFoundedOn(R, Nat)  BY NatLessThanWellFounded
<1>2. \A m, n \in Nat : m < n => <<m, n>> \in R  BY DEF OpToRel
<1>. HIDE DEF R
<1>3. PICK n \in S : \A m \in S : ~(<<m, n>> \in R)  BY <1>1, WFMin
<1>4. \A m \in S : ~(m < n)  BY <1>2, <1>3
<1>. QED  BY <1>4

\* A code that is redeemed marks one that was not used, and of its value.
LEMMA MarksOne ==
  ASSUME NEW inside, Marked, NEW c, c.code \in Codes, Second(inside)!Matches(codeSet, c) # {}
  PROVE  LET i == Second(inside)!First(Second(inside)!Matches(codeSet, c))
         IN  i \in 1 .. SetSize /\ codeSet.codes[i].hash = c.code /\ ~codeSet.codes[i].used
<1>. DEFINE S == Second(inside)!Matches(codeSet, c)
<1>1. DOMAIN codeSet.codes = 1 .. SetSize  BY DEF Marked
<1>2. S = {i \in 1 .. SetSize : codeSet.codes[i].hash = c.code /\ ~codeSet.codes[i].used}
  BY <1>1 DEF Second!Matches, Second!hashBackupCode
<1>3. S \in SUBSET Nat /\ S # {}  BY <1>2
<1>4. \E n \in S : \A m \in S : n <= m  BY <1>3, Least
<1>5. Second(inside)!First(S) \in S  BY <1>4 DEF Second!First
<1>. QED  BY <1>2, <1>5

\* Marking a code and accepting it keep the books.
LEMMA MarkKeeps ==
  ASSUME Marked, NEW i \in 1 .. SetSize, ~codeSet.codes[i].used,
         codeSet' = [codeSet EXCEPT !.codes[i].used = TRUE],
         redeemed' = Append(redeemed, codeSet.codes[i].hash), remaining' = Cardinality(Unused')
  PROVE  Marked'
<1>. DEFINE h == codeSet.codes[i].hash
            n == Len(redeemed) + 1
<1>1. codeSet \in [number : Nat, codes : [1 .. SetSize -> [hash : Codes, used : BOOLEAN]]]
  BY DEF Marked
<1>2. /\ codeSet' \in [number : Nat, codes : [1 .. SetSize -> [hash : Codes, used : BOOLEAN]]]
      /\ codeSet'.codes[i].hash = h /\ codeSet'.codes[i].used /\ h \in Codes
      /\ \A j \in 1 .. SetSize : j # i => codeSet'.codes[j] = codeSet.codes[j]
  BY <1>1
<1>3. /\ Used' = Used \cup {i} /\ i \notin Used /\ i \notin UsedOf(h)
      /\ UsedOf(h)' = UsedOf(h) \cup {i}
      /\ \A c \in Codes : c # h => UsedOf(c)' = UsedOf(c)
  BY <1>2 DEF Used, UsedOf
<1>4. IsFiniteSet(Used) /\ \A c \in Codes : IsFiniteSet(UsedOf(c))
  BY SetsFinite DEF Used, UsedOf
<1>5. Cardinality(Used') = Cardinality(Used) + 1 /\ Cardinality(UsedOf(h)') = Cardinality(UsedOf(h)) + 1
  BY <1>2, <1>3, <1>4, FS_AddElement
<1>6. /\ redeemed \in Seq(Codes) /\ redeemed' \in Seq(Codes) /\ Len(redeemed) \in Nat
      /\ Len(redeemed') = n /\ redeemed'[n] = h
      /\ \A k \in 1 .. Len(redeemed) : redeemed'[k] = redeemed[k]
  BY <1>2 DEF Marked
<1>7. \A k : k \in 1 .. n <=> k \in 1 .. Len(redeemed) \/ k = n  BY <1>6
<1>8. /\ Accepted(h)' = Accepted(h) \cup {n} /\ n \notin Accepted(h)
      /\ \A c \in Codes : c # h => Accepted(c)' = Accepted(c)
  BY <1>6, <1>7 DEF Accepted
<1>9. IsFiniteSet(Accepted(h))
  <2>1. IsFiniteSet(1 .. Len(redeemed))  BY <1>6, FS_Interval
  <2>. QED  BY <2>1, FS_Subset DEF Accepted
<1>10. Cardinality(Accepted(h)') = Cardinality(Accepted(h)) + 1  BY <1>8, <1>9, FS_AddElement
<1>11. \A c \in Codes : Cardinality(Accepted(c)') = Cardinality(UsedOf(c)')
  BY <1>2, <1>3, <1>5, <1>8, <1>10 DEF Marked
<1>. QED  BY <1>2, <1>5, <1>6, <1>11 DEF Marked

\* What is not used is what remains.
LEMMA UsedAndUnused ==
  ASSUME Marked
  PROVE  Cardinality(Used) + Cardinality(Unused) = SetSize
<1>1. IsFiniteSet(Used) /\ IsFiniteSet(Unused)  BY SetsFinite DEF Used, Unused
<1>2. Used \cup Unused = 1 .. SetSize /\ Used \cap Unused = {}  BY DEF Used, Unused
<1>3. Cardinality(Used \cup Unused) = Cardinality(Used) + Cardinality(Unused) - Cardinality(Used \cap Unused)
  BY <1>1, FS_Union
<1>4. Cardinality(Used) \in Nat /\ Cardinality(Unused) \in Nat  BY <1>1, FS_CardinalityType
<1>5. Cardinality(Used \cap Unused) = 0  BY <1>2, FS_EmptySet
<1>6. Cardinality(Used \cup Unused) = SetSize  BY <1>2, SetsFinite
<1>. QED  BY <1>3, <1>4, <1>5, <1>6

\* The instance counts as this module does.
LEMMA SameSize ==
  ASSUME NEW inside, NEW S
  PROVE  Second(inside)!Cardinality(S) = Cardinality(S)
BY DEF Second!Cardinality, Cardinality

\* The count getRemainingCodesCount gives of the stored set.
LEMMA Counted ==
  ASSUME NEW inside, NEW set, DOMAIN set.codes = 1 .. SetSize
  PROVE  Second(inside)!getRemainingCodesCount(set) =
           Cardinality({i \in 1 .. SetSize : ~set.codes[i].used})
BY SameSize DEF Second!getRemainingCodesCount

\* Nothing happens to the codes.
LEMMA MarksStay == Marked /\ UNCHANGED <<codeSet, redeemed, remaining>> => Marked'
<1>. SUFFICES ASSUME Marked, UNCHANGED <<codeSet, redeemed, remaining>> PROVE Marked'  OBVIOUS
<1>1. codeSet' = codeSet /\ redeemed' = redeemed /\ remaining' = remaining  OBVIOUS
<1>2. Used' = Used /\ Unused' = Unused  BY <1>1 DEF Used, Unused
<1>3. \A c : UsedOf(c)' = UsedOf(c) /\ Accepted(c)' = Accepted(c)  BY <1>1 DEF UsedOf, Accepted
<1>. QED  BY <1>1, <1>2, <1>3 DEF Marked

\* The steps about recovery codes.
LEMMA RecoveryMoves ==
  ASSUME NEW inside \in BOOLEAN, CodeInv(inside),
         \/ Second(inside)!regenerate \/ Second(inside)!getBackupCodes
         \/ Second(inside)!saveBackupCodes
  PROVE  CodeInv(inside)'
<1>1. CASE Second(inside)!regenerate
  <2>1. /\ call = [at |-> "idle"] /\ UNCHANGED <<clock, lastStep, call, accepted>>
        /\ codeSet' \in Second(inside)!Drawn(codeSet.number + 1) /\ redeemed' = <<>>
        /\ remaining' = SetSize
    BY <1>1 DEF Second!regenerate, Second!Idle
  <2>2. codeSet.number + 1 \in Nat  BY DEF CodeInv, Marked
  <2>3. Marked'  BY <2>1, <2>2, DrawnFresh
  <2>. QED  BY <2>1, <2>3 DEF CodeInv, CallKnown, Covered
<1>2. CASE Second(inside)!getBackupCodes
  <2>1. /\ UNCHANGED <<clock, lastStep, codeSet, accepted, redeemed, remaining>>
        /\ \E c \in [code : Codes, spelling : {"printed", "compact", "lower"}] :
             call' = [at |-> "redeem", input |-> c, set |-> codeSet]
    BY <1>2 DEF Second!getBackupCodes, Second!Spelling
  <2>2. AtRedeem'
    <3>1. PICK c \in [code : Codes, spelling : {"printed", "compact", "lower"}] :
            call' = [at |-> "redeem", input |-> c, set |-> codeSet]
      BY <2>1
    <3>2. c = [code |-> c.code, spelling |-> c.spelling] /\ c.code \in Codes
          /\ c.spelling \in {"printed", "compact", "lower"}
      OBVIOUS
    <3>. QED  BY <2>1, <3>1, <3>2 DEF AtRedeem
  <2>3. Marked'  BY <2>1, MarksStay DEF CodeInv
  <2>. QED  BY <2>1, <2>2, <2>3 DEF CodeInv, CallKnown, Covered
<1>3. CASE Second(inside)!saveBackupCodes
  <2>1. /\ call.at = "redeem" /\ call' = [at |-> "idle"] /\ UNCHANGED <<clock, lastStep, accepted>>
    BY <1>3 DEF Second!saveBackupCodes, Second!Idle
  <2>2. PICK c \in Codes, s \in {"printed", "compact", "lower"} :
          call = [at |-> "redeem", input |-> [code |-> c, spelling |-> s], set |-> codeSet]
    BY <2>1 DEF CodeInv, CallKnown, AtRedeem, AtDelta, AtStep, AtPersist
  <2>. DEFINE input  == [code |-> c, spelling |-> s]
              result == Second(inside)!verifyBackupCode(codeSet, input)
              M      == Second(inside)!Matches(codeSet, input)
  <2>3. /\ codeSet' = (IF result.valid THEN result.set ELSE codeSet)
        /\ redeemed' = (IF result.valid THEN Append(redeemed, c) ELSE redeemed)
        /\ remaining' = Second(inside)!getRemainingCodesCount(result.set)
    <3>1. call.input = input /\ call.set = codeSet /\ call.input.code = c  BY <2>2
    <3>. QED  BY <1>3, <3>1 DEF Second!saveBackupCodes
  <2>4. Marked  BY DEF CodeInv
  <2>5. CASE M = {}
    <3>1. result = [valid |-> FALSE, set |-> codeSet]  BY <2>5 DEF Second!verifyBackupCode
    <3>2. remaining' = Cardinality(Unused)
      <4>1. DOMAIN codeSet.codes = 1 .. SetSize  BY <2>4 DEF Marked
      <4>2. remaining' = Second(inside)!getRemainingCodesCount(codeSet)  BY <2>3, <3>1
      <4>. QED  BY <4>1, <4>2, Counted DEF Unused
    <3>3. codeSet' = codeSet /\ redeemed' = redeemed /\ remaining' = remaining
      BY <2>3, <2>4, <3>1, <3>2 DEF Marked
    <3>4. Marked'  BY <2>4, <3>3, MarksStay
    <3>. QED  BY <2>1, <3>4 DEF CodeInv, CallKnown, Covered
  <2>6. CASE M # {}
    <3>. DEFINE i == Second(inside)!First(M)
    <3>1. result = [valid |-> TRUE, set |-> [codeSet EXCEPT !.codes[i].used = TRUE]]
      BY <2>6 DEF Second!verifyBackupCode
    <3>2. i \in 1 .. SetSize /\ codeSet.codes[i].hash = c /\ ~codeSet.codes[i].used
      <4>1. input.code = c  OBVIOUS
      <4>. QED  BY <2>4, <2>6, <4>1, MarksOne
    <3>. HIDE DEF i, input
    <3>3. /\ codeSet' = [codeSet EXCEPT !.codes[i].used = TRUE]
          /\ redeemed' = Append(redeemed, c)
          /\ remaining' = Second(inside)!getRemainingCodesCount(codeSet')
      BY <2>3, <3>1
    <3>4. DOMAIN codeSet'.codes = 1 .. SetSize
      <4>1. codeSet \in [number : Nat, codes : [1 .. SetSize -> [hash : Codes, used : BOOLEAN]]]
        BY <2>4 DEF Marked
      <4>. QED  BY <3>2, <3>3, <4>1
    <3>5. remaining' = Cardinality(Unused')
      <4>1. Second(inside)!getRemainingCodesCount(codeSet') =
              Cardinality({j \in 1 .. SetSize : ~codeSet'.codes[j].used})
        BY <3>4, Counted
      <4>. QED  BY <3>3, <4>1 DEF Unused
    <3>6. Marked'  BY <2>4, <3>2, <3>3, <3>5, MarkKeeps
    <3>. QED  BY <2>1, <3>6 DEF CodeInv, CallKnown, Covered
  <2>. QED  BY <2>5, <2>6
<1>. QED  BY <1>1, <1>2, <1>3

\* The steps about one-time codes.
LEMMA OneTimeMoves ==
  ASSUME NEW inside \in BOOLEAN, CodeInv(inside),
         \/ Second(inside)!Submit \/ Second(inside)!getAuthenticatorCheckDelta
         \/ Second(inside)!verifyTokenWithStep \/ Second(inside)!Persist \/ Second(inside)!Tick
  PROVE  CodeInv(inside)'
<1>0. /\ clock \in 0 .. MaxStep /\ lastStep \in Nat \cup {None}
      /\ Window \in Nat /\ MaxStep \in Nat /\ None \notin Nat
  BY CodeConstants DEF CodeInv, Covered
<1>1. ASSUME UNCHANGED <<codeSet, redeemed, remaining>>  PROVE Marked'
  BY <1>1, MarksStay DEF CodeInv
<1>2. CASE Second(inside)!Submit
  <2>1. /\ UNCHANGED <<clock, lastStep, codeSet, accepted, redeemed, remaining>>
        /\ \E m \in 0 .. clock + Window : call' = [at |-> "delta", minted |-> m, last |-> lastStep]
    BY <1>2 DEF Second!Submit
  <2>2. AtDelta'  BY <2>1 DEF AtDelta
  <2>. QED  BY <1>1, <2>1, <2>2 DEF CodeInv, CallKnown, Covered
<1>3. CASE Second(inside)!getAuthenticatorCheckDelta
  <2>1. /\ call.at = "delta" /\ UNCHANGED <<clock, lastStep, codeSet, accepted, redeemed, remaining>>
        /\ call' = (IF call.minted - clock \in -Window .. Window
                    THEN [at |-> "step", minted |-> call.minted, last |-> call.last,
                          delta |-> call.minted - clock]
                    ELSE [at |-> "idle"])
    BY <1>3 DEF Second!getAuthenticatorCheckDelta, Second!Idle
  <2>2. PICK m \in 0 .. clock + Window : call = [at |-> "delta", minted |-> m, last |-> lastStep]
    BY <2>1 DEF CodeInv, CallKnown, AtRedeem, AtDelta, AtStep, AtPersist
  <2>3. call.minted = m /\ call.last = lastStep  BY <2>2
  <2>4. CASE m - clock \in -Window .. Window
    <3>1. call' = [at |-> "step", minted |-> m, last |-> lastStep, delta |-> m - clock]
      BY <2>1, <2>3, <2>4
    <3>2. m \in 0 .. MaxStep + Window /\ m = clock + (m - clock) /\ m <= clock + (m - clock)
      BY <1>0
    <3>3. AtStep(inside)'  BY <2>1, <2>4, <3>1, <3>2 DEF AtStep
    <3>. QED  BY <1>1, <2>1, <3>3 DEF CodeInv, CallKnown, Covered
  <2>5. CASE m - clock \notin -Window .. Window
    <3>1. call' = [at |-> "idle"]  BY <2>1, <2>3, <2>5
    <3>. QED  BY <1>1, <2>1, <3>1 DEF CodeInv, CallKnown, Covered
  <2>. QED  BY <2>4, <2>5
<1>4. CASE Second(inside)!verifyTokenWithStep
  <2>1. /\ call.at = "step" /\ UNCHANGED <<clock, lastStep, codeSet, accepted, redeemed, remaining>>
        /\ call' = (IF call.last # None /\ clock + call.delta <= call.last THEN [at |-> "idle"]
                    ELSE [at |-> "persist", minted |-> call.minted, step |-> clock + call.delta])
    BY <1>4 DEF Second!verifyTokenWithStep, Second!Idle, Second!isReplay, Second!stepOf
  <2>2. PICK m \in 0 .. MaxStep + Window, d \in -Window .. Window :
          /\ call = [at |-> "step", minted |-> m, last |-> lastStep, delta |-> d]
          /\ m <= clock + d /\ (~inside => m = clock + d)
    BY <2>1 DEF CodeInv, CallKnown, AtRedeem, AtDelta, AtStep, AtPersist
  <2>3. call.minted = m /\ call.last = lastStep /\ call.delta = d  BY <2>2
  <2>4. clock + d \in 0 .. MaxStep + Window  BY <1>0, <2>2
  <2>5. CASE lastStep # None /\ clock + d <= lastStep
    <3>1. call' = [at |-> "idle"]  BY <2>1, <2>3, <2>5
    <3>. QED  BY <1>1, <2>1, <3>1 DEF CodeInv, CallKnown, Covered
  <2>6. CASE ~(lastStep # None /\ clock + d <= lastStep)
    <3>1. call' = [at |-> "persist", minted |-> m, step |-> clock + d]  BY <2>1, <2>3, <2>6
    <3>2. lastStep # None => lastStep < clock + d  BY <1>0, <2>4, <2>6
    <3>3. AtPersist(inside)'  BY <2>1, <2>2, <2>4, <3>1, <3>2 DEF AtPersist
    <3>. QED  BY <1>1, <2>1, <3>3 DEF CodeInv, CallKnown, Covered
  <2>. QED  BY <2>5, <2>6
<1>5. CASE Second(inside)!Persist
  <2>1. /\ call.at = "persist" /\ call' = [at |-> "idle"] /\ lastStep' = call.step
        /\ accepted' = [accepted EXCEPT ![call.minted] = accepted[call.minted] + 1]
        /\ UNCHANGED <<clock, codeSet, redeemed, remaining>>
    BY <1>5 DEF Second!Persist, Second!Idle
  <2>2. PICK m \in 0 .. MaxStep + Window, s \in 0 .. MaxStep + Window :
          /\ call = [at |-> "persist", minted |-> m, step |-> s]
          /\ m <= s /\ (lastStep # None => lastStep < s) /\ (~inside => m = s)
    BY <2>1 DEF CodeInv, CallKnown, AtRedeem, AtDelta, AtStep, AtPersist
  <2>3. lastStep' = s /\ accepted' = [accepted EXCEPT ![m] = accepted[m] + 1]  BY <2>1, <2>2
  <2>4. /\ accepted \in [0 .. MaxStep + 2 * Window + 1 -> Nat] /\ m \in 0 .. MaxStep + 2 * Window + 1
        /\ s \in Nat /\ s # None
    BY <1>0 DEF CodeInv, Covered
  <2>5. /\ accepted' \in [0 .. MaxStep + 2 * Window + 1 -> Nat] /\ DOMAIN accepted' = DOMAIN accepted
        /\ accepted'[m] = accepted[m] + 1
        /\ \A t \in DOMAIN accepted : t # m => accepted'[t] = accepted[t]
    BY <2>3, <2>4
  <2>6. ASSUME NEW t \in DOMAIN accepted', accepted'[t] > 0  PROVE s >= t
    <3>1. CASE t = m  BY <2>2, <3>1
    <3>2. CASE t # m
      <4>1. lastStep # None /\ lastStep >= t  BY <2>5, <2>6, <3>2 DEF CodeInv, Covered
      <4>2. t \in Nat /\ lastStep \in Nat  BY <1>0, <2>4, <2>5, <4>1
      <4>. QED  BY <2>2, <2>4, <4>1, <4>2
    <3>. QED  BY <3>1, <3>2
  <2>7. ASSUME ~inside, NEW t \in DOMAIN accepted'  PROVE accepted'[t] <= 1
    <3>1. CASE t = m
      <4>1. ~(accepted[m] > 0)
        <5>. SUFFICES ASSUME accepted[m] > 0 PROVE FALSE  OBVIOUS
        <5>1. lastStep # None /\ lastStep >= m /\ m = s  BY <2>2, <2>4, <2>7 DEF CodeInv, Covered
        <5>2. lastStep \in Nat /\ lastStep < s  BY <1>0, <2>2, <5>1
        <5>. QED  BY <2>4, <5>1, <5>2
      <4>2. accepted[m] \in Nat  BY <2>4
      <4>. QED  BY <2>5, <3>1, <4>1, <4>2
    <3>2. CASE t # m  BY <2>5, <2>7, <3>2 DEF CodeInv, Covered
    <3>. QED  BY <3>1, <3>2
  <2>8. Covered(inside)'
    BY <1>0, <2>1, <2>3, <2>4, <2>5, <2>6, <2>7 DEF Covered
  <2>. QED  BY <1>1, <2>1, <2>8 DEF CodeInv, CallKnown
<1>6. CASE Second(inside)!Tick
  <2>1. /\ clock < MaxStep /\ (call.at = "step" => inside) /\ clock' = clock + 1
        /\ UNCHANGED <<lastStep, codeSet, call, accepted, redeemed, remaining>>
    BY <1>6 DEF Second!Tick
  <2>2. clock' \in 0 .. MaxStep  BY <1>0, <2>1
  <2>3. CallKnown(inside)'
    <3>1. CASE call = [at |-> "idle"]  BY <2>1, <3>1 DEF CallKnown
    <3>2. CASE AtRedeem  BY <2>1, <3>2 DEF CallKnown, AtRedeem
    <3>3. CASE AtDelta
      <4>1. \A m \in 0 .. clock + Window : m \in 0 .. clock' + Window  BY <1>0, <2>1
      <4>. QED  BY <2>1, <3>3, <4>1 DEF CallKnown, AtDelta
    <3>4. CASE AtStep(inside)
      <4>1. PICK m \in 0 .. MaxStep + Window, d \in -Window .. Window :
              /\ call = [at |-> "step", minted |-> m, last |-> lastStep, delta |-> d]
              /\ m <= clock + d
        BY <3>4 DEF AtStep
      <4>2. inside /\ m <= clock' + d  BY <1>0, <2>1, <4>1
      <4>. QED  BY <2>1, <4>1, <4>2 DEF CallKnown, AtStep
    <3>5. CASE AtPersist(inside)  BY <2>1, <3>5 DEF CallKnown, AtPersist
    <3>. QED  BY <3>1, <3>2, <3>3, <3>4, <3>5 DEF CodeInv, CallKnown
  <2>4. Covered(inside)'  BY <2>1, <2>2 DEF CodeInv, Covered
  <2>. QED  BY <1>1, <2>1, <2>3, <2>4 DEF CodeInv
<1>. QED  BY <1>2, <1>3, <1>4, <1>5, <1>6

\* The inductive invariant of the second factor, in the behaviours that are about one.
FactorInv ==
  /\ running = "steady" => CodeInv(FALSE)
  /\ running = "ticking" => CodeInv(TRUE)

LEMMA FactorStart ==
  ASSUME NEW inside \in BOOLEAN, Second(inside)!Init
  PROVE  CodeInv(inside)
<1>1. /\ clock = 0 /\ lastStep = None /\ call = [at |-> "idle"] /\ redeemed = <<>>
      /\ remaining = SetSize /\ codeSet \in Second(inside)!Drawn(1)
      /\ accepted = [s \in 0 .. MaxStep + 2 * Window + 1 |-> 0]
  BY DEF Second!Init, Second!Idle, Second!Steps
<1>2. Covered(inside)
  <2>1. 0 \in 0 .. MaxStep  BY CodeConstants
  <2>. QED  BY <1>1, <2>1 DEF Covered
<1>3. Marked
  <2>1. PICK v \in [1 .. SetSize -> Codes] : codeSet = Second(inside)!createBackupCodeSet(1, v)
    BY <1>1 DEF Second!Drawn
  <2>2. codeSet = [number |-> 1, codes |-> [i \in 1 .. SetSize |-> [hash |-> v[i], used |-> FALSE]]]
    BY <2>1 DEF Second!createBackupCodeSet
  <2>. QED  BY <1>1, <2>2, FreshSet
<1>. QED  BY <1>1, <1>2, <1>3 DEF CodeInv, CallKnown

LEMMA FactorInit == FactorsInit => FactorInv
<1>. SUFFICES ASSUME FactorsInit PROVE FactorInv  OBVIOUS
<1>1. /\ running = "steady" => Second(FALSE)!Init
      /\ running = "ticking" => Second(TRUE)!Init
  BY DEF FactorsInit
<1>. QED  BY <1>1, FactorStart DEF FactorInv

LEMMA FactorMoves == FactorInv /\ [FactorsNext]_<<running, vars, fileVars, factorVars>> => FactorInv'
<1>. SUFFICES ASSUME FactorInv, [FactorsNext]_<<running, vars, fileVars, factorVars>>
              PROVE  FactorInv'
  OBVIOUS
<1>1. ASSUME NEW inside \in BOOLEAN, CodeInv(inside), Second(inside)!Next  PROVE CodeInv(inside)'
  BY <1>1, RecoveryMoves, OneTimeMoves DEF Second!Next
<1>2. ASSUME UNCHANGED factorVars, NEW inside, CodeInv(inside)  PROVE CodeInv(inside)'
  <2>1. UNCHANGED <<clock, lastStep, codeSet, call, accepted, redeemed, remaining>>
    BY <1>2 DEF factorVars
  <2>2. CallKnown(inside)'
    BY <1>2, <2>1 DEF CodeInv, CallKnown, AtRedeem, AtDelta, AtStep, AtPersist
  <2>3. Covered(inside)'  BY <1>2, <2>1 DEF CodeInv, Covered
  <2>4. Marked'  BY <1>2, <2>1, MarksStay DEF CodeInv
  <2>. QED  BY <2>2, <2>3, <2>4 DEF CodeInv
<1>3. CASE running' = running /\ UNCHANGED factorVars
  BY <1>2, <1>3 DEF FactorInv
<1>4. CASE running' = running /\ running = "ticking" /\ Second(TRUE)!Next
  <2>1. CodeInv(TRUE)'  BY <1>1, <1>4 DEF FactorInv
  <2>. QED  BY <1>4, <2>1 DEF FactorInv
<1>5. CASE running' = running /\ running = "steady" /\ Second(FALSE)!Next
  <2>1. CodeInv(FALSE)'  BY <1>1, <1>5 DEF FactorInv
  <2>. QED  BY <1>5, <2>1 DEF FactorInv
<1>. QED  BY <1>3, <1>4, <1>5 DEF FactorsNext

\* An accepted recovery code was drawn, and the answer counts what is left.
LEMMA BooksBalance ==
  ASSUME NEW inside, Marked
  PROVE  Second(inside)!RedeemedAsDrawn /\ Second(inside)!RemainingCounts
<1>1. /\ DOMAIN codeSet.codes = 1 .. SetSize /\ DOMAIN redeemed = 1 .. Len(redeemed)
  BY DEF Marked
<1>2. ASSUME NEW c \in Codes
      PROVE  Cardinality(Accepted(c)) <= Cardinality({i \in 1 .. SetSize : codeSet.codes[i].hash = c})
  <2>. DEFINE D == {i \in 1 .. SetSize : codeSet.codes[i].hash = c}
  <2>1. UsedOf(c) \in SUBSET D /\ D \in SUBSET (1 .. SetSize)  BY DEF UsedOf
  <2>2. IsFiniteSet(D)  BY <2>1, SetsFinite
  <2>. HIDE DEF D
  <2>3. Cardinality(UsedOf(c)) <= Cardinality(D)  BY <2>1, <2>2, FS_Subset
  <2>. QED  BY <2>3 DEF D, Marked
<1>3. Second(inside)!RedeemedAsDrawn
  <2>. SUFFICES ASSUME NEW c \in Codes
                PROVE  Cardinality({n \in DOMAIN redeemed : redeemed[n] = c}) <=
                         Cardinality({i \in DOMAIN codeSet.codes : codeSet.codes[i].hash = c})
    BY SameSize DEF Second!RedeemedAsDrawn
  <2>1. {n \in DOMAIN redeemed : redeemed[n] = c} = Accepted(c)  BY <1>1 DEF Accepted
  <2>2. {i \in DOMAIN codeSet.codes : codeSet.codes[i].hash = c}
          = {i \in 1 .. SetSize : codeSet.codes[i].hash = c}
    BY <1>1
  <2>. QED  BY <1>2, <2>1, <2>2
<1>4. remaining + Len(redeemed) = SetSize
  <2>1. Cardinality(Used) + Cardinality(Unused) = SetSize  BY UsedAndUnused
  <2>2. Cardinality(Used) \in Nat /\ Cardinality(Unused) \in Nat
    BY SetsFinite, FS_CardinalityType DEF Used, Unused
  <2>. QED  BY <2>1, <2>2 DEF Marked
<1>. QED  BY <1>3, <1>4 DEF Second!RemainingCounts

\* For every set size, window and clock: a one-time code is accepted once while the clock does
\* not tick inside a verification, and whenever it ticks nothing older than an accepted code
\* becomes acceptable; a recovery code is accepted as often as it was drawn, and the answered
\* count is right (verifyTokenWithStep, verifyBackupCode).
THEOREM CodesAlwaysSpent == FactorsSpec => []CodesSpent
<1>1. FactorInv => CodesSpent
  <2>. SUFFICES ASSUME FactorInv PROVE CodesSpent  OBVIOUS
  <2>1. ASSUME running = "steady"  PROVE Second(FALSE)!CodeUsedOnce
    <3>1. Covered(FALSE)  BY <2>1 DEF FactorInv, CodeInv
    <3>. QED  BY <3>1 DEF Covered, Second!CodeUsedOnce, Second!Steps
  <2>2. ASSUME running = "ticking"
        PROVE  Second(TRUE)!StoredCovers /\ Second(TRUE)!RedeemedAsDrawn /\ Second(TRUE)!RemainingCounts
    <3>1. Covered(TRUE) /\ Marked  BY <2>2 DEF FactorInv, CodeInv
    <3>2. Second(TRUE)!StoredCovers  BY <3>1 DEF Covered, Second!StoredCovers, Second!Steps
    <3>. QED  BY <3>1, <3>2, BooksBalance
  <2>. QED  BY <2>1, <2>2 DEF CodesSpent
<1>. QED  BY <1>1, FactorInit, FactorMoves, PTL DEF FactorsSpec
=============================================================================
