---------------------------- MODULE ActionStepUp ----------------------------
(***************************************************************************)
(* FileActionStepUpStore (src/src/storage/action-step-up.ts): durable,     *)
(* single-use permits for sensitive actions.  A challenge's file goes      *)
(* pending -> verified -> consumed and is removed after it expires.  One   *)
(* queue per directory serialises issue, verify and consume, so pc is where*)
(* the operation at its head stands; each await ends a step, and between   *)
(* two steps the clock may be set to anything, an I/O call may fail, the   *)
(* process may die or the machine may lose power.                          *)
(***************************************************************************)
EXTENDS Integers, FiniteSets

CONSTANTS
  Bindings,       \* principal, action, resource and intent of a challenge
  Identities,     \* principal, session, credential and factor
  IdentityOf,     \* the identity inside each binding
  TTL,            \* config.ttlMs
  MaxRecords,     \* config.maxRecords
  MaxFailures,    \* config.maxFailures
  MaxChallenges,  \* bound: challenges minted
  MaxNow,         \* bound: clock
  MaxFaults,      \* bound: I/O calls that fail
  MaxCrashes      \* bound: process or machine restarts

ASSUME BindingAssumption ==
  Bindings # {} /\ IdentityOf \in [Bindings -> Identities]
ASSUME LimitAssumption ==
  /\ TTL \in Nat \ {0} /\ MaxRecords \in Nat \ {0} /\ MaxFailures \in Nat \ {0}
  /\ MaxChallenges \in Nat /\ MaxNow \in Nat /\ MaxFaults \in Nat
  /\ MaxCrashes \in Nat

VARIABLES
  files,     \* the file each challenge's name resolves to
  disk,      \* the files that name may resolve to after a power loss
  now,       \* the wall clock
  minted,    \* challenge references drawn; they are 1..minted
  serial,    \* permit and receipt references drawn
  pc,        \* where the operation at the head of the queue stands
  req,       \* its input
  rec,       \* the record it reads or is about to write
  todo,      \* directory entries pruneExpired has yet to visit
  count,     \* unexpired records it has counted
  removed,   \* has it removed one
  known,     \* challenges answered: [ch, binding]
  held,      \* permits answered: [ch, permit]
  receipts,  \* receipts answered: [ch, permit, receipt, binding]
  answered,  \* wrong factors each challenge has answered
  faults,    \* I/O failures so far
  crashes    \* restarts so far

store   == <<files, disk>>
frame   == <<req, rec, todo, count, removed>>
answers == <<known, held, receipts, answered>>
drawn   == <<minted, serial>>
vars    == <<store, frame, answers, drawn, now, pc, faults, crashes>>

Challenges == 1 .. MaxChallenges

States == {"absent", "pending", "verified", "consumed"}

Record ==
  [st : States, ch : Nat, binding : Bindings, created : Nat, expires : Nat,
   failures : Nat, verified : Nat, permit : Nat, receipt : Nat]

AnyBinding == CHOOSE b \in Bindings : TRUE

Absent ==
  [st |-> "absent", ch |-> 0, binding |-> AnyBinding, created |-> 0,
   expires |-> 0, failures |-> 0, verified |-> 0, permit |-> 0, receipt |-> 0]

\* an operation's input; the fields its kind does not take are the defaults
Input(k, c, p, b) == [kind |-> k, ch |-> c, permit |-> p, binding |-> b]

NoInput == Input("issue", 0, 0, AnyBinding)

-----------------------------------------------------------------------------
assertLive(r) == r.created <= now /\ now < r.expires

\* identityDigest, userDigest and factorBinding
assertIdentityMatch(r) == IdentityOf[r.binding] = IdentityOf[req.binding]

assertBindingMatch(r) == assertIdentityMatch(r) /\ r.binding = req.binding

Goto(place) == pc' = place

Leave ==
  /\ Goto("idle")
  /\ req' = NoInput /\ rec' = Absent
  /\ todo' = {} /\ count' = 0 /\ removed' = FALSE

Fault == faults < MaxFaults /\ faults' = faults + 1

-----------------------------------------------------------------------------
(***************************************************************************)
(* The queue, and prepare().  A client knows only references it was given. *)
(***************************************************************************)
Enter ==
  /\ pc = "idle"
  /\ \E b \in Bindings :
       \/ req' = Input("issue", 0, 0, b)
       \/ \E k \in known : req' = Input("verify", k.ch, 0, b)
       \/ \E k \in known, h \in held : req' = Input("consume", k.ch, h.permit, b)
  /\ Goto("prepare")
  /\ UNCHANGED <<store, answers, drawn, now, faults, crashes, rec, todo, count,
                 removed>>

Synced == disk' = [c \in Challenges |-> {files[c]}] /\ UNCHANGED files

\* acknowledge an earlier rename whose sync failed, before anything is read
Prepare ==
  /\ pc = "prepare"
  /\ Synced
  /\ \/ /\ req.kind = "issue"
        /\ todo' = {c \in Challenges : files[c].st # "absent"}
        /\ Goto("prune")
     \/ /\ req.kind # "issue"
        /\ UNCHANGED todo
        /\ Goto("read")
  /\ UNCHANGED <<answers, drawn, now, faults, crashes, req, rec, count, removed>>

-----------------------------------------------------------------------------
(***************************************************************************)
(* write(): temporary, file sync and rename, then the directory sync.      *)
(***************************************************************************)
Publish(c, r) ==
  /\ files' = [files EXCEPT ![c] = r]
  /\ disk' = [disk EXCEPT ![c] = @ \cup {r}]

Rename ==
  /\ pc = "rename"
  /\ Publish(rec.ch, rec)
  /\ Goto("sync")
  /\ UNCHANGED <<answers, drawn, now, faults, crashes, frame>>

\* fault: a receipt is answered while its tombstone may still be undone
TombstoneUnsynced ==
  /\ pc = "sync"
  /\ IF rec.st = "consumed" THEN UNCHANGED store ELSE Synced
  /\ Goto("answer")
  /\ UNCHANGED <<answers, drawn, now, faults, crashes, frame>>

Sync ==
  /\ pc = "sync"
  /\ Synced
  /\ Goto("answer")
  /\ UNCHANGED <<answers, drawn, now, faults, crashes, frame>>

\* an I/O call throws: UNAVAILABLE, and a rename that happened stays visible
IOError ==
  /\ pc \in {"prepare", "prune", "rename", "sync"}
  /\ Fault
  /\ Leave
  /\ UNCHANGED <<store, answers, drawn, now, crashes>>

-----------------------------------------------------------------------------
(***************************************************************************)
(* pruneExpired() and issue().                                             *)
(***************************************************************************)
Prune ==
  /\ pc = "prune"
  /\ \E c \in todo :
       /\ todo' = todo \ {c}
       /\ \/ /\ files[c].expires <= now
             /\ Publish(c, Absent)
             /\ removed' = TRUE
             /\ UNCHANGED count
          \/ /\ now < files[c].expires
             /\ count' = count + 1
             /\ UNCHANGED <<store, removed>>
  /\ UNCHANGED <<answers, drawn, now, faults, crashes, pc, req, rec>>

\* fault: the room is reused while a power loss may still undo the removals
RemovalsUnsynced == UNCHANGED store

\* removals are synced before their room is reused
Removals == IF removed THEN Synced ELSE UNCHANGED store

Pruned ==
  /\ pc = "prune" /\ todo = {}
  /\ Removals
  /\ Goto("issue")
  /\ UNCHANGED <<answers, drawn, now, faults, crashes, frame>>

Issue ==
  /\ pc = "issue"
  /\ count < MaxRecords
  /\ minted < MaxChallenges
  /\ minted' = minted + 1
  /\ rec' = [Absent EXCEPT !.st = "pending", !.ch = minted + 1,
                           !.binding = req.binding, !.created = now,
                           !.expires = now + TTL]
  /\ Goto("rename")
  /\ UNCHANGED <<store, answers, serial, now, faults, crashes, req, todo, count,
                 removed>>

-----------------------------------------------------------------------------
(***************************************************************************)
(* verify().                                                               *)
(***************************************************************************)
\* fault: one wrong factor too many
WithinBudgetInclusive(r) == r.failures <= MaxFailures

WithinBudget(r) == r.failures < MaxFailures

Verify ==
  /\ pc = "read" /\ req.kind = "verify"
  /\ LET r == files[req.ch] IN
       /\ r.st = "pending"
       /\ assertIdentityMatch(r)
       /\ assertLive(r)
       /\ WithinBudget(r)
       /\ rec' = r
  /\ Goto("factor")
  /\ UNCHANGED <<store, answers, drawn, now, faults, crashes, req, todo, count,
                 removed>>

Charged(r) == [r EXCEPT !.failures = @ + 1]

\* verifyFactor, the caller's, answers false: charge the challenge
FactorInvalid ==
  /\ pc = "factor"
  /\ assertLive(rec)
  /\ rec' = Charged(rec)
  /\ Goto("rename")
  /\ UNCHANGED <<store, answers, drawn, now, faults, crashes, req, todo, count,
                 removed>>

\* verifyFactor answers true: a fresh permit
FactorValid ==
  /\ pc = "factor"
  /\ assertLive(rec)
  /\ serial' = serial + 1
  /\ rec' = [rec EXCEPT !.st = "verified", !.verified = now,
                        !.permit = serial']
  /\ Goto("rename")
  /\ UNCHANGED <<store, answers, minted, now, faults, crashes, req, todo, count,
                 removed>>

-----------------------------------------------------------------------------
(***************************************************************************)
(* consume().                                                              *)
(***************************************************************************)
\* fault: a consumed record still honours its permit
ConsumableAgain(r) == r.st \in {"verified", "consumed"}

Consumable(r) == r.st = "verified"

Consume ==
  /\ pc = "read" /\ req.kind = "consume"
  /\ serial' = serial + 1
  /\ LET r == files[req.ch] IN
       /\ Consumable(r)
       /\ assertBindingMatch(r)
       /\ assertLive(r)
       /\ r.permit = req.permit
       /\ r.verified <= now
       /\ rec' = [r EXCEPT !.st = "consumed", !.receipt = serial']
  /\ Goto("rename")
  /\ UNCHANGED <<store, answers, minted, now, faults, crashes, req, todo, count,
                 removed>>

-----------------------------------------------------------------------------
(***************************************************************************)
(* The answer, after the record is durable.  A wrong factor is answered    *)
(* with an error; the others only if the challenge is still live.          *)
(***************************************************************************)
Answer ==
  /\ pc = "answer"
  /\ \/ /\ rec.st = "pending" /\ req.kind = "issue" /\ assertLive(rec)
        /\ known' = known \cup {[ch |-> rec.ch, binding |-> rec.binding]}
        /\ UNCHANGED <<held, receipts, answered>>
     \/ /\ rec.st = "pending" /\ req.kind = "verify"
        /\ answered' = [answered EXCEPT ![rec.ch] = @ + 1]
        /\ UNCHANGED <<known, held, receipts>>
     \/ /\ rec.st = "verified" /\ assertLive(rec)
        /\ held' = held \cup {[ch |-> rec.ch, permit |-> rec.permit]}
        /\ UNCHANGED <<known, receipts, answered>>
     \/ /\ rec.st = "consumed" /\ assertLive(rec)
        /\ receipts' = receipts \cup
             {[ch |-> rec.ch, permit |-> rec.permit, receipt |-> rec.receipt,
               binding |-> rec.binding]}
        /\ UNCHANGED <<known, held, answered>>
  /\ Leave
  /\ UNCHANGED <<store, drawn, now, faults, crashes>>

\* a check fails, or the factor, the key or a read does
Refuse ==
  /\ \/ pc \in {"issue", "read", "factor"}
     \/ pc = "answer" /\ ~assertLive(rec)
        /\ ~(rec.st = "pending" /\ req.kind = "verify")
  /\ Leave
  /\ UNCHANGED <<store, answers, drawn, now, faults, crashes>>

-----------------------------------------------------------------------------
SetClock ==
  /\ \E t \in 0 .. MaxNow : now' = t
  /\ UNCHANGED <<store, frame, answers, drawn, pc, faults, crashes>>

Restart ==
  /\ crashes < MaxCrashes
  /\ crashes' = crashes + 1
  /\ Leave
  /\ UNCHANGED <<answers, drawn, now, faults>>

\* the process dies: what it renamed is still visible
Crash == pc # "idle" /\ Restart /\ UNCHANGED store

\* the machine loses power: an unacknowledged rename or removal may be undone
PowerLoss ==
  /\ Restart
  /\ files' \in {f \in [Challenges -> UNION {disk[c] : c \in Challenges}] :
                   \A c \in Challenges : f[c] \in disk[c]}
  /\ disk' = [c \in Challenges |-> {files'[c]}]

-----------------------------------------------------------------------------
Init ==
  /\ files = [c \in Challenges |-> Absent]
  /\ disk = [c \in Challenges |-> {Absent}]
  /\ answered = [c \in Challenges |-> 0]
  /\ known = {} /\ held = {} /\ receipts = {}
  /\ now = 0 /\ minted = 0 /\ serial = 0 /\ faults = 0 /\ crashes = 0
  /\ pc = "idle" /\ req = NoInput /\ rec = Absent
  /\ todo = {} /\ count = 0 /\ removed = FALSE

Next ==
  \/ Enter \/ Prepare \/ Rename \/ Sync \/ IOError \/ Prune \/ Pruned \/ Issue
  \/ Verify \/ FactorInvalid \/ FactorValid \/ Consume \/ Answer \/ Refuse
  \/ SetClock \/ Crash \/ PowerLoss

Spec == Init /\ [][Next]_vars

-----------------------------------------------------------------------------
(***************************************************************************)
(* Properties.                                                             *)
(***************************************************************************)
Kinds  == {"issue", "verify", "consume"}
Places == {"idle", "prepare", "prune", "issue", "read", "factor", "rename",
           "sync", "answer"}

\* Every variable holds a value of its type.
TypeOK ==
  /\ files \in [Challenges -> Record]
  /\ disk \in [Challenges -> SUBSET Record]
  /\ now \in Nat /\ minted \in 0 .. MaxChallenges /\ serial \in Nat
  /\ pc \in Places
  /\ req \in [kind : Kinds, ch : Nat, permit : Nat, binding : Bindings]
  /\ rec \in Record
  /\ todo \subseteq Challenges
  /\ count \in Nat /\ removed \in BOOLEAN
  /\ known \subseteq [ch : Nat, binding : Bindings]
  /\ held \subseteq [ch : Nat, permit : Nat]
  /\ receipts \subseteq [ch : Nat, permit : Nat, receipt : Nat,
                         binding : Bindings]
  /\ answered \in [Challenges -> Nat]
  /\ faults \in Nat /\ crashes \in Nat

Contract == INSTANCE StepUpContract

\* The store keeps its contract: whatever fails, dies, loses power or moves the
\* clock, a challenge yields one permit, a permit one receipt, and the receipt
\* is for the action the challenge was issued for.
KeepsContract == Contract!Spec

\* A wrong factor that was answered stays charged: no power loss gives the
\* challenge its guess back, and it never answers more than maxFailures.
FailureBudget ==
  \A c \in Challenges :
    /\ answered[c] <= MaxFailures
    /\ \A r \in disk[c] : r.st # "absent" => answered[c] <= r.failures

\* Never more than maxRecords challenges on disk, whichever removals and renames
\* a power loss undoes.
CapacityBound ==
  Cardinality({c \in Challenges : \E r \in disk[c] : r.st # "absent"})
    <= MaxRecords

\* A receipt that was answered is backed by a tombstone that no power loss
\* undoes, until the challenge is removed.
ReceiptDurable ==
  \A r \in receipts : \A f \in disk[r.ch] : f.st \in {"consumed", "absent"}

=============================================================================
