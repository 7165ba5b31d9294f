--------------------------- MODULE FileBootstrap ---------------------------
(***************************************************************************)
(* FileBootstrapCoordinator (src/src/storage/file-bootstrap.ts): creation  *)
(* of the first administrator through one journal file that goes           *)
(* pending -> committed -> applied.  Every operation holds the shared auth *)
(* gate, so pc is where the one in progress stands; each await ends a step,*)
(* and between two steps the clock may be set to anything, an I/O call may *)
(* fail, the process may die or the machine may lose power.                *)
(***************************************************************************)
EXTENDS Integers, FiniteSets

CONSTANTS
  TTL,          \* config.ttlMs
  MaxAttempts,  \* bound: attempts begun; attempt a has user id and reference a
  MaxNow,       \* bound: clock
  MaxFaults,    \* bound: I/O calls that fail
  MaxCrashes    \* bound: process or machine restarts

BootstrapAssumption ==
  TTL \in Nat \ {0} /\ MaxAttempts \in Nat \ {0} /\ MaxNow \in Nat
  /\ MaxFaults \in Nat /\ MaxCrashes \in Nat

VARIABLES
  journal,   \* the record bootstrap.json holds
  disk,      \* the records it may hold after a power loss
  users,     \* stored accounts: [id, changed]; Other is created another way
  factor,    \* stored TOTP secrets of the handle: [id, step]
  codes,     \* stored backup code sets: [id, used]
  now,       \* the wall clock
  begun,     \* attempts begun so far
  pc,        \* where the operation under the gate stands
  req,       \* its input: [op, ref]
  rec,       \* the record it has read or is writing
  ready,     \* recovery has run since the process started: auth may go on
  shown,     \* attempts whose secret and codes were returned to a browser
  acked,     \* attempts whose codes a browser has acknowledged
  receipts,  \* receipts returned: [attempt, completedAt]
  created,   \* attempts whose account was ever created
  faults, crashes

stores  == <<users, factor, codes, created>>
answers == <<shown, acked, receipts>>
vars    == <<journal, disk, stores, now, begun, pc, req, rec, ready, answers,
             faults, crashes>>

Attempts == 1 .. MaxAttempts
Other    == MaxAttempts + 1
Records  == [state : {"none", "pending", "committed", "applied"}, attempt : 0 .. MaxAttempts,
             ack : BOOLEAN, profile : 0 .. 1, createdAt : 0 .. MaxNow,
             completedAt : 0 .. MaxNow]
NoRecord == [state |-> "none", attempt |-> 0, ack |-> FALSE, profile |-> 0,
             createdAt |-> 0, completedAt |-> 0]
Ops      == {"recover", "initialize", "begin", "read", "profile", "ack", "complete"}
PCs      == {"idle", "read", "sync", "factor", "codes", "user", "seal", "sealSync", "body",
             "write", "writeSync", "recheck"}

TypeOK ==
  /\ journal \in Records /\ rec \in Records /\ disk \in SUBSET Records
  /\ users \in SUBSET [id : Attempts \cup {Other}, changed : BOOLEAN]
  /\ factor \in SUBSET [id : Attempts, step : 0 .. 1]
  /\ codes \in SUBSET [id : Attempts, used : BOOLEAN]
  /\ now \in 0 .. MaxNow /\ begun \in 0 .. MaxAttempts
  /\ pc \in PCs /\ req \in [op : Ops, ref : 0 .. MaxAttempts] /\ ready \in BOOLEAN
  /\ shown \in SUBSET Attempts /\ acked \in SUBSET Attempts
  /\ receipts \in SUBSET [attempt : Attempts, completedAt : 0 .. MaxNow]
  /\ created \in SUBSET Attempts
  /\ faults \in 0 .. MaxFaults /\ crashes \in 0 .. MaxCrashes

NoRequest == [op |-> "recover", ref |-> 0]

Init ==
  /\ journal = NoRecord /\ disk = {NoRecord} /\ rec = NoRecord
  /\ users = {} /\ factor = {} /\ codes = {} /\ created = {}
  /\ now = 0 /\ begun = 0 /\ pc = "idle" /\ req = NoRequest /\ ready = FALSE
  /\ shown = {} /\ acked = {} /\ receipts = {} /\ faults = 0 /\ crashes = 0

-----------------------------------------------------------------------------
(* The checks of the coordinator                                           *)

unexpired(r) == r.createdAt <= now /\ now < r.createdAt + TTL

\* empty(candidate): no account at all, no factor or codes for this candidate
empty == users = {} /\ factor = {} /\ codes = {}

\* fault: once the account is removed an applied record reserves nothing
ReservedWhilePending(r) == r.state = "pending" /\ r.createdAt + TTL > now

\* a record that keeps begin and assertAvailable out
Reserved(r) == r.state \in {"committed", "applied"}
               \/ (r.state = "pending" /\ r.createdAt + TTL > now)

\* checkProjection: nothing in the stores but what this completion wrote
checkProjection(r, finished) ==
  /\ Cardinality(users) <= 1
  /\ \A u \in users : u.id = r.attempt /\ ~u.changed
  /\ \A f \in factor : f.id = r.attempt
  /\ \A k \in codes : k.id = r.attempt
  /\ finished => users # {}
  /\ (finished \/ users # {}) => factor # {} /\ codes # {}

-----------------------------------------------------------------------------
(* The gate: one operation at a time                                       *)

Go(where) == pc' = where

Done == pc' = "idle" /\ req' = NoRequest /\ rec' = NoRecord

Start(op, ref) ==
  /\ pc = "idle"
  /\ req' = [op |-> op, ref |-> ref] /\ Go("read")
  /\ UNCHANGED <<journal, disk, stores, now, begun, rec, ready, answers, faults, crashes>>

\* a browser holds the references it was given
recover         == Start("recover", 0)
\* assertAvailable and the account creation of an alternative initialization
initialize      == Start("initialize", 0)
begin           == begun < MaxAttempts /\ Start("begin", 0)
read            == \E a \in shown : Start("read", a)
updateProfile   == \E a \in shown : Start("profile", a)
acknowledgeBackupCodes == \E a \in shown : Start("ack", a)
complete        == \E a \in shown : Start("complete", a)

-----------------------------------------------------------------------------
(* recoverUnsafe and apply                                                 *)

\* fault: recovery goes on without syncing the directory
ReadRecordNoSync ==
  /\ pc = "read"
  /\ rec' = journal
  /\ IF journal.state = "committed" THEN Go("factor") ELSE Go("body")
  /\ UNCHANGED <<journal, disk, stores, now, begun, req, ready, answers, faults, crashes>>

ReadRecord ==
  /\ pc = "read"
  /\ rec' = journal
  /\ IF journal.state = "none" THEN Go("body") ELSE Go("sync")
  /\ UNCHANGED <<journal, disk, stores, now, begun, req, ready, answers, faults, crashes>>

\* fault: recovery makes the committed record durable and leaves it at that
SyncOnly ==
  /\ pc = "sync"
  /\ disk' = {journal} /\ Go("body")
  /\ UNCHANGED <<journal, stores, now, begun, req, rec, ready, answers, faults, crashes>>

\* an earlier rename may have gone through although its directory sync failed
SyncDirectory ==
  /\ pc = "sync"
  /\ disk' = {journal}
  /\ IF rec.state = "committed" THEN Go("factor") ELSE Go("body")
  /\ UNCHANGED <<journal, stores, now, begun, req, rec, ready, answers, faults, crashes>>

\* project (supplied by the application): factor and codes before the account,
\* what is already there left as it is
ProjectFactor ==
  /\ pc = "factor" /\ checkProjection(rec, FALSE)
  /\ factor' = IF factor = {} THEN {[id |-> rec.attempt, step |-> 0]} ELSE factor
  /\ Go("codes")
  /\ UNCHANGED <<journal, disk, users, codes, created, now, begun, req, rec, ready, answers,
                 faults, crashes>>

ProjectCodes ==
  /\ pc = "codes"
  /\ codes' = IF codes = {} THEN {[id |-> rec.attempt, used |-> FALSE]} ELSE codes
  /\ Go("user")
  /\ UNCHANGED <<journal, disk, users, factor, created, now, begun, req, rec, ready, answers,
                 faults, crashes>>

ProjectUser ==
  /\ pc = "user"
  /\ users' = IF users = {} THEN {[id |-> rec.attempt, changed |-> FALSE]} ELSE users
  /\ created' = created \cup {rec.attempt}
  /\ Go("seal")
  /\ UNCHANGED <<journal, disk, factor, codes, now, begun, req, rec, ready, answers,
                 faults, crashes>>

Rename(r) == journal' = r /\ disk' = disk \cup {r}

Seal ==
  /\ pc = "seal" /\ checkProjection(rec, TRUE)
  /\ Rename([rec EXCEPT !.state = "applied"])
  /\ rec' = [rec EXCEPT !.state = "applied"]
  /\ Go("sealSync")
  /\ UNCHANGED <<stores, now, begun, req, ready, answers, faults, crashes>>

SealSync ==
  /\ pc = "sealSync"
  /\ disk' = {journal} /\ Go("body") /\ UNCHANGED rec
  /\ UNCHANGED <<journal, stores, now, begun, req, ready, answers, faults, crashes>>

\* checkProjection or project refuses: RECOVERY_REQUIRED
ApplyConflicts ==
  /\ \/ pc = "factor" /\ ~checkProjection(rec, FALSE)
     \/ pc = "seal" /\ ~checkProjection(rec, TRUE)
  /\ Done /\ ready' = FALSE
  /\ UNCHANGED <<journal, disk, stores, now, begun, answers, faults, crashes>>

-----------------------------------------------------------------------------
(* What each operation does once recovery is through.  The stores and the   *)
(* journal only change under the gate, so one look at them stands for the   *)
(* rechecks of empty and namespaceAvailable until the write.                *)

Recovered ==
  /\ pc = "body" /\ req.op = "recover" /\ Done /\ ready' = TRUE
  /\ UNCHANGED <<journal, disk, stores, now, begun, answers, faults, crashes>>

Initialize ==
  /\ pc = "body" /\ req.op = "initialize" /\ ~Reserved(journal) /\ users = {}
  /\ users' = {[id |-> Other, changed |-> FALSE]}
  /\ Done
  /\ UNCHANGED <<journal, disk, factor, codes, created, now, begun, ready, answers, faults, crashes>>

Prepare(r) ==
  /\ rec' = r /\ Go("write")
  /\ UNCHANGED <<journal, disk, stores, now, req, ready, answers, faults, crashes>>

BeginBody ==
  /\ pc = "body" /\ req.op = "begin" /\ ~Reserved(journal) /\ empty
  /\ begun < MaxAttempts /\ begun' = begun + 1
  /\ Prepare([NoRecord EXCEPT !.state = "pending", !.attempt = begun + 1, !.createdAt = now])

\* fault: an account created another way does not end a pending attempt
BoundIgnoringAccounts ==
  journal.state = "pending" /\ journal.attempt = req.ref /\ unexpired(journal)

\* pending(reference): the live pending attempt the reference is bound to
Bound == journal.state = "pending" /\ journal.attempt = req.ref /\ empty /\ unexpired(journal)

ReadBody ==
  /\ pc = "body" /\ req.op = "read" /\ Bound
  /\ shown' = shown \cup {journal.attempt} /\ Done
  /\ UNCHANGED <<journal, disk, stores, now, begun, ready, acked, receipts, faults, crashes>>

ProfileBody ==
  /\ pc = "body" /\ req.op = "profile" /\ Bound /\ UNCHANGED begun
  /\ Prepare([journal EXCEPT !.profile = 1 - @])

AckBody ==
  /\ pc = "body" /\ req.op = "ack" /\ Bound /\ ~journal.ack
  /\ acked' = acked \cup {journal.attempt}
  /\ rec' = [journal EXCEPT !.ack = TRUE] /\ Go("write")
  /\ UNCHANGED <<journal, disk, stores, now, begun, req, ready, shown, receipts,
                 faults, crashes>>

\* fault: completion does not ask for the acknowledgment
CompleteUnacknowledged ==
  /\ pc = "body" /\ req.op = "complete" /\ Bound /\ UNCHANGED begun
  /\ Prepare([journal EXCEPT !.state = "committed", !.completedAt = now])

\* acknowledged, the token verified: the material is frozen
CompleteBody ==
  /\ pc = "body" /\ req.op = "complete" /\ Bound /\ journal.ack /\ UNCHANGED begun
  /\ Prepare([journal EXCEPT !.state = "committed", !.completedAt = now])

\* fault: any reference collects the receipt of an applied bootstrap, and the
\* receipt of this call is dated when it is given
ReplayReceiptAnew ==
  /\ pc = "body" /\ req.op = "complete" /\ journal.state = "applied"
  /\ journal.attempt = req.ref
  /\ receipts' = receipts \cup {[attempt |-> req.ref, completedAt |-> now]}
  /\ Done /\ ready' = TRUE
  /\ UNCHANGED <<journal, disk, stores, now, begun, shown, acked, faults, crashes>>

\* the applied record answers its own reference with the frozen receipt, whether
\* this call committed it or an earlier one did
ReturnReceipt ==
  /\ pc = "body" /\ req.op = "complete" /\ journal.state = "applied"
  /\ journal.attempt = req.ref
  /\ receipts' = receipts \cup {[attempt |-> req.ref, completedAt |-> journal.completedAt]}
  /\ Done /\ ready' = TRUE
  /\ UNCHANGED <<journal, disk, stores, now, begun, shown, acked, faults, crashes>>

\* conflict, unauthorized or expired; an acknowledgment already there; the
\* namespace callback, beforeComplete or the token's verification refusing
Refuse ==
  /\ pc = "body" /\ Done
  /\ \/ req.op = "begin"
     \/ req.op = "initialize" /\ (Reserved(journal) \/ users # {})
     \/ req.op \in {"read", "profile", "ack"} /\ ~Bound
     \/ req.op = "ack" /\ journal.ack
     \/ req.op = "complete" /\ ~(journal.state = "applied" /\ journal.attempt = req.ref)
  /\ UNCHANGED <<journal, disk, stores, now, begun, ready, answers, faults, crashes>>

\* an attempt must still be in force when its record is published
WriteRecord ==
  /\ pc = "write" /\ unexpired(rec)
  /\ Rename(rec) /\ Go("writeSync")
  /\ UNCHANGED <<stores, now, begun, req, rec, ready, answers, faults, crashes>>

TooLate ==
  /\ pc \in {"write", "recheck"} /\ ~unexpired(rec) /\ Done
  /\ UNCHANGED <<journal, disk, stores, now, begun, ready, answers, faults, crashes>>

\* fault: apply runs on a committed record whose rename is not yet durable
WriteSyncSkipped ==
  /\ pc = "writeSync"
  /\ UNCHANGED disk
  /\ IF rec.state = "committed" THEN Go("factor") ELSE Go("recheck")
  /\ UNCHANGED <<journal, stores, now, begun, req, rec, ready, answers, faults, crashes>>

WriteSync ==
  /\ pc = "writeSync"
  /\ disk' = {journal}
  /\ IF rec.state = "committed" THEN Go("factor") ELSE Go("recheck")
  /\ UNCHANGED <<journal, stores, now, begun, req, rec, ready, answers, faults, crashes>>

\* the pending record is durable and still in force: answer
Recheck ==
  /\ pc = "recheck" /\ unexpired(rec) /\ Done
  /\ shown' = IF req.op = "begin" THEN shown \cup {rec.attempt} ELSE shown
  /\ UNCHANGED <<journal, disk, stores, now, begun, ready, acked, receipts, faults, crashes>>

-----------------------------------------------------------------------------
(* The world around                                                        *)

\* any awaited I/O call may fail; apply and recovery then close authentication
IoFails ==
  /\ faults < MaxFaults /\ faults' = faults + 1
  /\ pc \in PCs \ {"idle", "body", "recheck"} /\ Done
  /\ ready' = IF pc \in {"write", "writeSync"} THEN ready ELSE FALSE
  /\ UNCHANGED <<journal, disk, stores, now, begun, answers, crashes>>

\* the account lives on: logins spend the factor and the codes, the owner
\* changes, an administrator removes.  Auth traffic runs after recovery.
AccountLives ==
  /\ pc = "idle" /\ ready /\ users # {}
  /\ \/ factor' = {[f EXCEPT !.step = 1] : f \in factor} /\ UNCHANGED <<users, codes>>
     \/ codes' = {[k EXCEPT !.used = TRUE] : k \in codes} /\ UNCHANGED <<users, factor>>
     \/ users' \in {{[u EXCEPT !.changed = TRUE] : u \in users}, {}}
        /\ UNCHANGED <<factor, codes>>
  /\ UNCHANGED <<journal, disk, created, now, begun, pc, req, rec, ready, answers,
                 faults, crashes>>

Restart == crashes < MaxCrashes /\ crashes' = crashes + 1 /\ Done /\ ready' = FALSE

ProcessDies ==
  /\ Restart
  /\ UNCHANGED <<journal, disk, stores, now, begun, answers, faults>>

PowerLoss ==
  /\ Restart
  /\ journal' \in disk /\ disk' = {journal'}
  /\ UNCHANGED <<stores, now, begun, answers, faults>>

ClockMoves ==
  /\ now' \in (0 .. MaxNow) \ {now}
  /\ UNCHANGED <<journal, disk, stores, begun, pc, req, rec, ready, answers, faults, crashes>>

Request == \/ recover \/ initialize \/ begin \/ read \/ updateProfile
           \/ acknowledgeBackupCodes \/ complete

Step ==
  \/ ReadRecord \/ SyncDirectory \/ ProjectFactor \/ ProjectCodes \/ ProjectUser
  \/ Seal \/ SealSync \/ ApplyConflicts \/ Recovered \/ Initialize \/ BeginBody
  \/ ReadBody \/ ProfileBody \/ AckBody \/ CompleteBody \/ ReturnReceipt \/ Refuse
  \/ WriteRecord \/ TooLate \/ WriteSync \/ Recheck

Next == Request \/ Step \/ IoFails \/ AccountLives \/ ProcessDies \/ PowerLoss \/ ClockMoves

\* an operation under the gate goes on, and the application keeps asking for
\* recovery before it lets authentication through
Fairness == WF_vars(Step) /\ WF_vars(recover)

Spec     == Init /\ [][Next]_vars
FairSpec == Spec /\ Fairness

-----------------------------------------------------------------------------
\* However attempts, crashes, retries and an alternative initialization
\* interleave, an empty installation gets one account: bootstrap creates one in
\* its life, and once it is applied nothing else creates one, also after that
\* account is removed (begin, assertAvailable, the applied latch).
OneAdministrator ==
  /\ Cardinality(users) <= 1 /\ Cardinality(created) <= 1
  /\ \A u \in users : u.id = Other => \A r \in disk : r.state # "applied"

\* The stores hold something of a bootstrap only while every journal a power
\* loss could leave commits that very attempt: no projection can be orphaned
\* by its own journal (writeRecord's sync before apply, recoverUnsafe's sync).
ProjectionOwned ==
  \A f \in factor : \A r \in disk : r.state \in {"committed", "applied"} /\ r.attempt = f.id

\* A committed record that recovery may still have to apply finds the stores as
\* its own projection left them: neither another account nor the later life of
\* its own can block recovery for good (complete's checks, apply's order).
RecoveryNeverConflicts ==
  \A r \in disk : r.state = "committed" => checkProjection(r, FALSE)

\* A secret and codes that reached a browser are those of an attempt the
\* journal keeps across a power loss, or of an earlier one (begin, read).
ShownIsDurable == \A a \in shown, r \in disk : r.attempt >= a

\* Nobody becomes administrator with backup codes that were not shown and
\* acknowledged for that attempt (acknowledgeBackupCodes, complete).
AcknowledgedBeforeCreation == created \subseteq acked \cap shown

\* One receipt at most is ever given, however often completion is retried
\* across restarts, and every journal a power loss could leave replays it.
ReceiptFrozen ==
  \A x \in receipts : \A r \in disk :
    r.state = "applied" /\ r.attempt = x.attempt /\ r.completedAt = x.completedAt

\* What must happen in the end: a durably committed bootstrap is applied.
CommitDurable == \A r \in disk : r.state = "committed"
CommitApplied == journal.state = "applied" /\ users # {}
=============================================================================
