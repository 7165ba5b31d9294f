--------------------------- MODULE TotpEnrollment ---------------------------
(***************************************************************************)
(* FileTotpEnrollmentCoordinator (src/src/storage/file-totp-enrollment.ts):*)
(* restart-durable TOTP enrollment of an existing account.  A journal file *)
(* per user goes pending -> committed -> applied; a committed record is    *)
(* projected into the live factor, backup codes and account flags, and no  *)
(* protected operation runs before every committed record is projected.    *)
(*                                                                         *)
(* One gate serialises everything, so the coordinator is one thread of     *)
(* control: pc is where the holder of the gate stands.  Each await of the  *)
(* code ends a step, and between two steps the clock moves, sessions end,  *)
(* credentials change, an I/O call fails, the process dies or the machine  *)
(* loses power.                                                            *)
(***************************************************************************)
EXTENDS Naturals, FiniteSets

CONSTANTS
  Users,          \* account ids, one journal file each
  Sessions,       \* session ids
  Proofs,         \* primary reauthentication references
  Handles,        \* account handles
  Nobody,         \* the session of no record
  NoProof,        \* the reference of an onboarding request or record
  Owner,          \* the user each session belongs to
  Authorization,  \* the claims the resolver returns for each proof
  TTL,            \* config.ttlMs
  ProofTTL,       \* MAX_PRIMARY_REAUTH_TTL_MS
  MaxUses,        \* live proof bindings a record may carry (256)
  MaxAttempts,    \* bound: attempts minted
  MaxNow,         \* bound: clock
  MaxCred,        \* bound: credential changes
  MaxFaults,      \* bound: I/O calls that fail
  MaxCrashes,     \* bound: process or machine restarts
  Nested          \* may a callback holding the gate call it again

ASSUME NobodyAssumption == Nobody \notin Sessions
ASSUME NoProofAssumption == NoProof \notin Proofs
ASSUME InhabitedAssumption == Users # {} /\ Handles # {}
ASSUME OwnerAssumption == Owner \in [Sessions -> Users]
ASSUME AuthorizationAssumption ==
  Authorization \in
    [Proofs -> [sess : Sessions, issued : Nat, expires : Nat, cred : Nat]]
ASSUME BoundsAssumption ==
  /\ TTL \in Nat \ {0} /\ ProofTTL \in Nat /\ MaxUses \in Nat /\ MaxAttempts \in Nat
  /\ MaxNow \in Nat /\ MaxCred \in Nat /\ MaxFaults \in Nat
  /\ MaxCrashes \in Nat /\ Nested \in BOOLEAN

VARIABLES
  journal,   \* the file each user's journal name resolves to
  disk,      \* the files that name may resolve to after a power loss
  acct,      \* the canonical account
  factor,    \* attempt whose TOTP secret is stored, 0 for none
  codes,     \* attempt whose backup codes are stored, 0 for none
  used,      \* has a stored backup code been used
  live,      \* sessions that exist and have not expired
  now,       \* the wall clock
  minted,    \* attempts minted so far; attempt ids are 1..minted
  pc,        \* where the holder of the gate stands, "idle" if free
  req,       \* the request being served
  rec,       \* the record it reads or is about to write
  ret,       \* where current() or writeRecord() returns to
  strict,    \* current()'s requireUnenrolled
  caller,    \* who called apply()
  snap,      \* current()'s snapshot of handle and credential
  recov,     \* the gate context's recoveryRequired
  known,     \* setups disclosed: which session holds which attempt
  receipts,  \* attempts whose completion has been acknowledged
  retired,   \* attempts whose factor has been disabled
  faults,    \* I/O failures so far
  crashes    \* restarts so far

files  == <<journal, disk>>
store  == <<acct, factor, codes, used, retired>>
client == <<known, receipts>>
frame  == <<req, rec, ret, strict, caller, snap>>
world  == <<live, now, crashes>>
vars   == <<files, store, client, frame, world, pc, recov, minted, faults>>

(***************************************************************************)
(* Journal records.  A pending record has its proof; committed and applied *)
(* records have lost it and keep the bindings in uses and their receipt's  *)
(* time.                                                                   *)
(***************************************************************************)
Modes  == {"onboarding", "self"}
States == {"absent", "pending", "committed", "applied"}
Uses   == [proof : Proofs, att : Nat]

Record ==
  [st : States, user : Users, att : Nat, mode : Modes,
   sess : Sessions \cup {Nobody}, handle : Handles, created : Nat, expires : Nat,
   proof : Proofs \cup {NoProof}, uses : SUBSET Uses, done : Nat]

Absent ==
  [st |-> "absent", user |-> CHOOSE v \in Users : TRUE, att |-> 0,
   mode |-> "onboarding", sess |-> Nobody,
   handle |-> CHOOSE h \in Handles : TRUE, created |-> 0, expires |-> 0,
   proof |-> NoProof, uses |-> {}, done |-> 0]

Kinds == {"begin", "complete", "recover", "again", "auth"}

\* a request names a proof exactly when it asks for self-enrollment
requestMode(proof) == IF proof = NoProof THEN "onboarding" ELSE "self"

Request ==
  {q \in [kind : Kinds, user : Users, sess : Sessions \cup {Nobody},
          mode : Modes, proof : Proofs \cup {NoProof}, att : Nat] :
     q.mode = requestMode(q.proof)}

Submitted(k, v, s, p, a) ==
  [kind |-> k, user |-> v, sess |-> s, mode |-> requestMode(p),
   proof |-> p, att |-> a]

\* the frame of no request
NoRequest == Submitted("auth", CHOOSE v \in Users : TRUE, Nobody, NoProof, 0)
NoSnap == [handle |-> CHOOSE h \in Handles : TRUE, cred |-> 0]

u == req.user

-----------------------------------------------------------------------------
(***************************************************************************)
(* The guards the operations share.                                        *)
(***************************************************************************)

\* what current() asks of the principal and its session
Principal ==
  /\ acct[u].active
  /\ req.sess \in live
  /\ Owner[req.sess] = u
  /\ req.mode = "self" => ~acct[u].onb

requireAbsentFactor ==
  /\ req.mode = "onboarding" => acct[u].onb
  /\ ~acct[u].totp
  /\ factor[u] = 0
  /\ codes[u] = 0

\* the clock is inside the proof's window
ProofCurrent ==
  /\ Authorization[req.proof].issued <= now
  /\ now < Authorization[req.proof].expires

\* fault: the session digest is not compared
checkBindingAnySession(r, handle) == r.mode = req.mode /\ r.handle = handle

checkBinding(r, handle) ==
  /\ r.mode = req.mode
  /\ r.handle = handle
  /\ r.sess = req.sess

checkPrimaryAuthorization(r) == r.mode = "self" => r.proof = req.proof

\* fault: an attempt is accepted at its deadline
checkExpiryInclusive(r) == r.created <= now /\ now <= r.expires

checkExpiry(r) == r.created <= now /\ now < r.expires

\* fault: bindings are dropped with the attempt, not with the proof
liveUsesOfAttempt(r) == {b \in r.uses : now < r.expires}

\* bindings whose proof has not expired
liveUses(r) == {b \in r.uses : now < Authorization[b.proof].expires}

-----------------------------------------------------------------------------
(***************************************************************************)
(* Control.  Call runs current() and comes back at the given place; Write  *)
(* publishes rec and comes back; Leave ends the request, with an answer or *)
(* with an error.                                                          *)
(***************************************************************************)
Goto(place) == pc' = place

Call(place, unenrolled) ==
  /\ Goto("load")
  /\ ret' = place
  /\ strict' = unenrolled

Write(place) ==
  /\ Goto("rename")
  /\ ret' = place
  /\ UNCHANGED strict

NoFrame ==
  /\ req' = NoRequest /\ rec' = Absent /\ snap' = NoSnap
  /\ ret' = "idle" /\ strict' = FALSE /\ caller' = "recovery"

Leave == Goto(IF Nested THEN "held" ELSE "idle") /\ NoFrame

Fault == faults < MaxFaults /\ faults' = faults + 1

-----------------------------------------------------------------------------
(***************************************************************************)
(* The gate: withReadyAuth and runContext.  The root context starts with   *)
(* recoveryRequired; a call from inside it recovers only if something since*)
(* has asked for it.                                                       *)
(***************************************************************************)
\* a client completes an attempt that was disclosed to someone
Submit ==
  \/ \E v \in Users, s \in Sessions, p \in Proofs \cup {NoProof} :
       \/ req' = Submitted("begin", v, s, p, 0)
       \/ \E e \in known : req' = Submitted("complete", v, s, p, e.att)
  \/ \E v \in Users : req' = Submitted("auth", v, Nobody, NoProof, 0)
  \/ \E v \in Users : req' = Submitted("recover", v, Nobody, NoProof, 0)

Enter ==
  /\ \/ pc = "idle" /\ recov' = TRUE /\ Goto("sync1")
     \/ pc = "held" /\ UNCHANGED recov /\ Goto(IF recov THEN "sync1" ELSE "run")
  /\ Submit
  /\ UNCHANGED <<files, store, client, world, minted, faults, rec, ret,
                 strict, caller, snap>>

Release ==
  /\ pc = "held"
  /\ Goto("idle")
  /\ recov' = TRUE
  /\ UNCHANGED <<files, store, client, world, minted, faults, frame>>

-----------------------------------------------------------------------------
(***************************************************************************)
(* Files.  disk[v] holds every file that v's name may resolve to after a   *)
(* power loss: a rename adds one, a directory sync leaves the visible one. *)
(***************************************************************************)
Renamed ==
  /\ journal' = [journal EXCEPT ![rec.user] = rec]
  /\ disk' = [disk EXCEPT ![rec.user] = @ \cup {rec}]

\* fault: the directory is never synced
SyncedNever == UNCHANGED <<journal, disk>>

Synced == disk' = [v \in Users |-> {journal[v]}] /\ UNCHANGED journal

\* writeRecord: temporary, file sync, rename
Rename ==
  /\ pc = "rename"
  /\ Renamed
  /\ Goto("sync")
  /\ UNCHANGED <<store, client, world, minted, faults, frame, recov>>

\* writeRecord: the directory sync that acknowledges the rename
Sync ==
  /\ pc = "sync"
  /\ Synced
  /\ Goto(ret)
  /\ UNCHANGED <<store, client, world, minted, faults, frame, recov>>

\* writeRecord or syncDirectory throws; a rename that happened stays visible
IOError ==
  /\ pc \in {"rename", "sync", "sync1", "scan", "sync2", "factor", "codes", "flags"}
  /\ Fault
  /\ Leave
  /\ UNCHANGED <<files, store, client, world, minted, recov>>

-----------------------------------------------------------------------------
(***************************************************************************)
(* recoverUnsafe and apply.                                                *)
(***************************************************************************)
\* fault: recovery trusts what it reads without syncing it
RecoverUnsynced ==
  /\ pc = "sync1"
  /\ Goto("scan")
  /\ UNCHANGED <<files, store, client, world, minted, faults, frame, recov>>

\* acknowledge an earlier rename whose sync failed, before any projection
RecoverSync ==
  /\ pc = "sync1"
  /\ Synced
  /\ Goto("scan")
  /\ UNCHANGED <<store, client, world, minted, faults, frame, recov>>

\* fault: a committed record is not replayed once its attempt has expired
ReplayableUnexpired ==
  {v \in Users : journal[v].st = "committed" /\ now < journal[v].expires}

\* only a committed record is replayed; an applied one is a receipt
Replayable == {v \in Users : journal[v].st = "committed"}

\* fault: an applied record is projected again
RecoverApplyReceipt ==
  /\ pc = "scan"
  /\ \E v \in Users : journal[v].st \in {"committed", "applied"} /\ rec' = journal[v]
  /\ caller' = "recovery"
  /\ Goto("factor")
  /\ UNCHANGED <<files, store, client, world, minted, faults, req, ret, strict,
                 snap, recov>>

RecoverApply ==
  /\ pc = "scan"
  /\ \E v \in Replayable : rec' = journal[v]
  /\ caller' = "recovery"
  /\ Goto("factor")
  /\ UNCHANGED <<files, store, client, world, minted, faults, req, ret, strict,
                 snap, recov>>

\* fault: recovery goes on though a committed record is left
RecoverPartly ==
  /\ pc = "scan"
  /\ Goto("sync2")
  /\ UNCHANGED <<files, store, client, world, minted, faults, frame, recov>>

RecoverScanned ==
  /\ pc = "scan"
  /\ Replayable = {}
  /\ Goto("sync2")
  /\ UNCHANGED <<files, store, client, world, minted, faults, frame, recov>>

\* recoverUnsafe returns; recover() runs it again inside the gate
RecoverDone ==
  /\ pc = "sync2"
  /\ Synced
  /\ recov' = FALSE
  /\ Goto("run")
  /\ UNCHANGED <<store, client, world, minted, faults, frame>>

(***************************************************************************)
(* config.project, the application's: factor, then codes, then flags, each *)
(* durable when it returns.  It refuses an inactive owner and material of  *)
(* another attempt.  It is told to keep the used flags of codes already    *)
(* projected; the model lets it reset them, which must not matter.         *)
(***************************************************************************)
Projectable ==
  /\ acct[rec.user].active
  /\ factor[rec.user] \in {0, rec.att}
  /\ codes[rec.user] \in {0, rec.att}

ProjectFactor ==
  /\ pc = "factor"
  /\ Projectable
  /\ factor' = [factor EXCEPT ![rec.user] = rec.att]
  /\ Goto("codes")
  /\ UNCHANGED <<files, acct, codes, used, retired, client, world, minted,
                 faults, frame, recov>>

ProjectCodes ==
  /\ pc = "codes"
  /\ Projectable
  /\ codes' = [codes EXCEPT ![rec.user] = rec.att]
  /\ \/ used' = [used EXCEPT ![rec.user] = FALSE]
     \/ codes[rec.user] = rec.att /\ UNCHANGED used
  /\ Goto("flags")
  /\ UNCHANGED <<files, acct, factor, retired, client, world, minted, faults,
                 frame, recov>>

\* the last projection, then the applied record, which drops the material
ProjectFlags ==
  /\ pc = "flags"
  /\ Projectable
  /\ acct' = [acct EXCEPT ![rec.user].totp = TRUE]
  /\ rec' = [rec EXCEPT !.st = "applied"]
  /\ Write(IF caller = "recovery" THEN "scan" ELSE "settled")
  /\ UNCHANGED <<files, factor, codes, used, retired, client, world, minted,
                 faults, req, caller, snap, recov>>

-----------------------------------------------------------------------------
(***************************************************************************)
(* The operation starts.                                                   *)
(***************************************************************************)
Run ==
  /\ pc = "run"
  /\ \/ /\ req.kind = "begin"
        /\ Call("read", TRUE)
        /\ UNCHANGED req
     \/ /\ req.kind = "complete"
        /\ Call("found", FALSE)
        /\ UNCHANGED req
     \/ /\ req.kind = "recover"
        /\ req' = [req EXCEPT !.kind = "again"]
        /\ Goto("sync1")
        /\ UNCHANGED <<ret, strict>>
  /\ UNCHANGED <<files, store, client, world, minted, faults, rec, caller,
                 snap, recov>>

RecoverTwice ==
  /\ pc = "run" /\ req.kind = "again"
  /\ Leave
  /\ UNCHANGED <<files, store, client, world, minted, faults, recov>>

\* a check fails or the I/O it awaits does: the request ends with an error
Refuse ==
  /\ \/ pc \in {"load", "resolve", "reload", "read", "redisclose", "publish",
                "found", "verify", "freeze"}
     \/ pc \in {"disclose", "receipt"} /\ req.mode = "self"
  /\ Leave
  /\ UNCHANGED <<files, store, client, world, minted, faults, recov>>

-----------------------------------------------------------------------------
(***************************************************************************)
(* current(): one read of principal, session and factor; for a new self-   *)
(* enrollment, the resolver and a second read that must agree with it.     *)
(***************************************************************************)
Resolving == strict /\ req.mode = "self"

Load ==
  /\ pc = "load"
  /\ Principal
  /\ strict => requireAbsentFactor
  /\ snap' = [handle |-> acct[u].handle, cred |-> acct[u].cred]
  /\ Goto(IF Resolving THEN "resolve" ELSE ret)
  /\ UNCHANGED <<files, store, client, world, minted, faults, req, rec, ret,
                 strict, caller, recov>>

\* the resolver vouches for the credential the account has when it answers
Resolve ==
  /\ pc = "resolve"
  /\ Authorization[req.proof].sess = req.sess
  /\ Authorization[req.proof].cred = acct[u].cred
  /\ Authorization[req.proof].expires <= Authorization[req.proof].issued + ProofTTL
  /\ ProofCurrent
  /\ Goto("reload")
  /\ UNCHANGED <<files, store, client, world, minted, faults, frame, recov>>

\* fault: the credential is not compared across the resolver's await
UnchangedHandle == snap.handle = acct[u].handle

Unchanged == snap = [handle |-> acct[u].handle, cred |-> acct[u].cred]

Reload ==
  /\ pc = "reload"
  /\ Principal
  /\ requireAbsentFactor
  /\ Unchanged
  /\ ProofCurrent
  /\ Goto(ret)
  /\ UNCHANGED <<files, store, client, world, minted, faults, frame, recov>>

-----------------------------------------------------------------------------
(***************************************************************************)
(* begin().                                                                *)
(***************************************************************************)
Disclose ==
  known' = known \cup
    {[att |-> rec.att, user |-> u, sess |-> req.sess, proof |-> req.proof]}

\* the account's attempt is still pending: show it again
BeginAgain ==
  /\ pc = "read"
  /\ journal[u].st = "pending" /\ now < journal[u].expires
  /\ checkBinding(journal[u], snap.handle)
  /\ checkPrimaryAuthorization(journal[u])
  /\ checkExpiry(journal[u])
  /\ rec' = journal[u]
  /\ Call("redisclose", TRUE)
  /\ UNCHANGED <<files, store, client, world, minted, faults, req, caller,
                 snap, recov>>

Redisclose ==
  /\ pc = "redisclose"
  /\ checkBinding(rec, snap.handle)
  /\ checkPrimaryAuthorization(rec)
  /\ checkExpiry(rec)
  /\ Disclose
  /\ Leave
  /\ UNCHANGED <<files, store, receipts, world, minted, faults, recov>>

\* fault: the limit is checked too late by one
ProofFreeOverLimit(bound) ==
  IF req.mode = "self"
  THEN /\ \A b \in bound : b.proof # req.proof
       /\ Cardinality(bound) <= MaxUses
  ELSE bound = {}

\* the proof is new to this account; onboarding discards no live binding
ProofFree(bound) ==
  IF req.mode = "self"
  THEN /\ \A b \in bound : b.proof # req.proof
       /\ Cardinality(bound) < MaxUses
  ELSE bound = {}

Expiry ==
  IF req.mode = "self" /\ Authorization[req.proof].expires < now + TTL
  THEN Authorization[req.proof].expires
  ELSE now + TTL

\* fault: the record is bound to the user instead of the session
PendingForUser(bound) ==
  [st |-> "pending", user |-> u, att |-> minted + 1, mode |-> req.mode,
   sess |-> u, handle |-> snap.handle, created |-> now, expires |-> Expiry,
   proof |-> req.proof, uses |-> bound, done |-> 0]

Pending(bound) ==
  [st |-> "pending", user |-> u, att |-> minted + 1, mode |-> req.mode,
   sess |-> req.sess, handle |-> snap.handle, created |-> now,
   expires |-> Expiry, proof |-> req.proof,
   uses |-> IF req.mode = "self"
            THEN bound \cup {[proof |-> req.proof, att |-> minted + 1]}
            ELSE {},
   done |-> 0]

\* no attempt, an expired one or a receipt: replace it
BeginNew ==
  /\ pc = "read"
  /\ minted < MaxAttempts
  /\ ~(journal[u].st = "pending" /\ now < journal[u].expires)
  /\ ProofFree(liveUses(journal[u]))
  /\ now < Expiry
  /\ rec' = Pending(liveUses(journal[u]))
  /\ minted' = minted + 1
  /\ Call("publish", TRUE)
  /\ UNCHANGED <<files, store, client, world, faults, req, caller, snap, recov>>

Publish ==
  /\ pc = "publish"
  /\ checkBinding(rec, snap.handle)
  /\ checkPrimaryAuthorization(rec)
  /\ now < rec.expires
  /\ Write("published")
  /\ UNCHANGED <<files, store, client, world, minted, faults, req, rec, caller,
                 snap, recov>>

\* publication awaited I/O, so a self-enrollment is authorised once more
Published ==
  /\ pc = "published"
  /\ \/ /\ req.mode = "onboarding"
        /\ Disclose
        /\ Leave
     \/ /\ req.mode = "self"
        /\ Call("disclose", TRUE)
        /\ UNCHANGED <<known, req, rec, caller, snap>>
  /\ UNCHANGED <<files, store, receipts, world, minted, faults, recov>>

DiscloseSelf ==
  /\ pc = "disclose"
  /\ checkBinding(rec, snap.handle)
  /\ checkPrimaryAuthorization(rec)
  /\ checkExpiry(rec)
  /\ Disclose
  /\ Leave
  /\ UNCHANGED <<files, store, receipts, world, minted, faults, recov>>

-----------------------------------------------------------------------------
(***************************************************************************)
(* complete().                                                             *)
(***************************************************************************)
Acknowledge(r) ==
  receipts' = receipts \cup {[att |-> r.att, user |-> u, sess |-> req.sess]}

\* a retry of a finished attempt gets its receipt and projects nothing
Replay ==
  /\ pc = "found"
  /\ journal[u].st = "applied"
  /\ checkBinding(journal[u], snap.handle)
  /\ journal[u].att = req.att
  /\ \/ /\ req.mode = "onboarding"
        /\ Acknowledge(journal[u])
        /\ Leave
     \/ /\ req.mode = "self"
        /\ rec' = journal[u]
        /\ Call("receipt", FALSE)
        /\ UNCHANGED <<receipts, req, caller, snap>>
  /\ UNCHANGED <<files, store, known, world, minted, faults, recov>>

Found ==
  /\ pc = "found"
  /\ journal[u].st = "pending"
  /\ checkBinding(journal[u], snap.handle)
  /\ journal[u].att = req.att
  /\ checkExpiry(journal[u])
  /\ rec' = journal[u]
  /\ Call("verify", TRUE)
  /\ UNCHANGED <<files, store, client, world, minted, faults, req, caller,
                 snap, recov>>

\* beforeComplete does not refuse and the code is valid
Verify ==
  /\ pc = "verify"
  /\ checkPrimaryAuthorization(rec)
  /\ checkExpiry(rec)
  /\ Call("freeze", TRUE)
  /\ UNCHANGED <<files, store, client, world, minted, faults, req, rec, caller,
                 snap, recov>>

\* the committed record consumes the attempt; no projection precedes it
Freeze ==
  /\ pc = "freeze"
  /\ checkBinding(rec, snap.handle)
  /\ checkPrimaryAuthorization(rec)
  /\ checkExpiry(rec)
  /\ rec' = [rec EXCEPT !.st = "committed", !.proof = NoProof, !.done = now]
  /\ recov' = TRUE
  /\ caller' = "complete"
  /\ Write("factor")
  /\ UNCHANGED <<files, store, client, world, minted, faults, req, snap>>

Settled ==
  /\ pc = "settled"
  /\ recov' = FALSE
  /\ \/ /\ req.mode = "onboarding"
        /\ Acknowledge(rec)
        /\ Leave
     \/ /\ req.mode = "self"
        /\ Call("receipt", FALSE)
        /\ UNCHANGED <<receipts, req, rec, caller, snap>>
  /\ UNCHANGED <<files, store, known, world, minted, faults>>

\* requireReceiptOwner
Receipt ==
  /\ pc = "receipt"
  /\ rec.handle = snap.handle /\ rec.mode = req.mode
  /\ Acknowledge(rec)
  /\ Leave
  /\ UNCHANGED <<files, store, known, world, minted, faults, recov>>

-----------------------------------------------------------------------------
(***************************************************************************)
(* Protected operations of the application, each run under the gate: a     *)
(* decision that changes nothing, a backup code used, the factor disabled, *)
(* an account edited.                                                      *)
(***************************************************************************)
Ready == pc = "run" /\ req.kind = "auth"

Decide ==
  /\ Ready
  /\ Leave
  /\ UNCHANGED <<files, store, client, world, minted, faults, recov>>

UseCode ==
  /\ Ready
  /\ codes[u] # 0
  /\ used' = [used EXCEPT ![u] = TRUE]
  /\ Leave
  /\ UNCHANGED <<files, acct, factor, codes, retired, client, world, minted,
                 faults, recov>>

Disable ==
  /\ Ready
  /\ acct[u].totp
  /\ acct' = [acct EXCEPT ![u].totp = FALSE]
  /\ factor' = [factor EXCEPT ![u] = 0]
  /\ codes' = [codes EXCEPT ![u] = 0]
  /\ used' = [used EXCEPT ![u] = FALSE]
  /\ retired' = retired \cup {factor[u]}
  /\ Leave
  /\ UNCHANGED <<files, client, world, minted, faults, recov>>

EditAccount ==
  /\ Ready
  /\ \E active, onb \in BOOLEAN, h \in Handles :
       acct' = [acct EXCEPT ![u].active = active, ![u].onb = onb,
                            ![u].handle = h]
  /\ Leave
  /\ UNCHANGED <<files, factor, codes, used, retired, client, world, minted,
                 faults, recov>>

-----------------------------------------------------------------------------
(***************************************************************************)
(* What the gate does not hold back.                                       *)
(***************************************************************************)
Tick ==
  /\ now < MaxNow
  /\ now' = now + 1
  /\ UNCHANGED <<files, store, client, frame, live, crashes, pc, recov, minted,
                 faults>>

EndSession ==
  /\ \E s \in live : live' = live \ {s}
  /\ UNCHANGED <<files, store, client, frame, now, crashes, pc, recov, minted,
                 faults>>

ChangeCredential ==
  /\ \E v \in Users :
       /\ acct[v].cred < MaxCred
       /\ acct' = [acct EXCEPT ![v].cred = @ + 1]
  /\ UNCHANGED <<files, factor, codes, used, retired, client, frame, world, pc,
                 recov, minted, faults>>

Restart ==
  /\ crashes < MaxCrashes
  /\ crashes' = crashes + 1
  /\ Goto("idle")
  /\ recov' = TRUE
  /\ NoFrame
  /\ UNCHANGED <<store, client, live, now, minted, faults>>

\* the process dies: what it renamed is still visible
Crash == pc # "idle" /\ Restart /\ UNCHANGED files

\* the machine loses power: an unacknowledged rename may be undone
PowerLoss ==
  /\ Restart
  /\ journal' \in {f \in [Users -> UNION {disk[v] : v \in Users}] :
                     \A v \in Users : f[v] \in disk[v]}
  /\ disk' = [v \in Users |-> {journal'[v]}]

-----------------------------------------------------------------------------
Init ==
  /\ journal = [v \in Users |-> Absent]
  /\ disk = [v \in Users |-> {Absent}]
  /\ \E onb \in [Users -> BOOLEAN] :
       acct = [v \in Users |->
                 [active |-> TRUE, onb |-> onb[v], totp |-> FALSE,
                  handle |-> NoSnap.handle, cred |-> 0]]
  /\ factor = [v \in Users |-> 0]
  /\ codes = [v \in Users |-> 0]
  /\ used = [v \in Users |-> FALSE]
  /\ live = Sessions
  /\ now = 0 /\ minted = 0 /\ faults = 0 /\ crashes = 0
  /\ pc = "idle" /\ recov = TRUE
  /\ req = NoRequest /\ rec = Absent /\ snap = NoSnap
  /\ ret = "idle" /\ strict = FALSE /\ caller = "recovery"
  /\ known = {} /\ receipts = {} /\ retired = {}

Gate       == Enter \/ Release
Publishing == Rename \/ Sync \/ IOError
Recovery   == RecoverSync \/ RecoverApply \/ RecoverScanned \/ RecoverDone
Projection == ProjectFactor \/ ProjectCodes \/ ProjectFlags
Currency   == Load \/ Resolve \/ Reload \/ Refuse
Begin      == BeginAgain \/ Redisclose \/ BeginNew \/ Publish \/ Published
              \/ DiscloseSelf
Complete   == Replay \/ Found \/ Verify \/ Freeze \/ Settled \/ Receipt
Protected  == Decide \/ UseCode \/ Disable \/ EditAccount
Outside    == Tick \/ EndSession \/ ChangeCredential \/ Crash \/ PowerLoss

Next ==
  \/ Gate \/ Publishing \/ Recovery \/ Projection \/ Run \/ RecoverTwice
  \/ Currency \/ Begin \/ Complete \/ Protected \/ Outside

Spec == Init /\ [][Next]_vars

\* Requests keep coming and the process that serves them keeps running; I/O
\* fails and the machine restarts at most MaxFaults and MaxCrashes times.
Progress ==
  Gate \/ Rename \/ Sync \/ Recovery \/ Projection \/ Run \/ RecoverTwice
  \/ Currency \/ Begin \/ Complete \/ Protected

FairSpec == Spec /\ WF_vars(Progress)

-----------------------------------------------------------------------------
(***************************************************************************)
(* Properties.                                                             *)
(***************************************************************************)
Places ==
  {"idle", "held", "sync1", "scan", "sync2", "factor", "codes", "flags",
   "rename", "sync", "run", "load", "resolve", "reload", "read", "redisclose",
   "publish", "published", "disclose", "found", "verify", "freeze", "settled",
   "receipt"}

Account == [active : BOOLEAN, onb : BOOLEAN, totp : BOOLEAN, handle : Handles,
            cred : Nat]

\* Every variable holds a value of its type.
TypeOK ==
  /\ journal \in [Users -> Record]
  /\ disk \in [Users -> SUBSET Record]
  /\ acct \in [Users -> Account]
  /\ factor \in [Users -> Nat]
  /\ codes \in [Users -> Nat]
  /\ used \in [Users -> BOOLEAN]
  /\ live \subseteq Sessions
  /\ now \in Nat /\ minted \in Nat /\ faults \in Nat /\ crashes \in Nat
  /\ pc \in Places
  /\ req \in Request
  /\ rec \in Record
  /\ ret \in Places
  /\ strict \in BOOLEAN /\ recov \in BOOLEAN
  /\ caller \in {"recovery", "complete"}
  /\ snap \in [handle : Handles, cred : Nat]
  /\ known \subseteq [att : Nat, user : Users, sess : Sessions \cup {Nobody},
                      proof : Proofs \cup {NoProof}]
  /\ receipts \subseteq [att : Nat, user : Users,
                         sess : Sessions \cup {Nobody}]
  /\ retired \subseteq Nat

\* A stored factor or code set belongs to an attempt whose commit no power loss
\* can undo: complete() projects nothing before the committed record and its
\* directory are synced, and recoverUnsafe() syncs before it replays.
NoProjectionBeforeCommit ==
  \A v \in Users : \A a \in {factor[v], codes[v]} \ {0} : \A r \in disk[v] :
    r.att = a /\ r.st \in {"committed", "applied"}

\* A protected operation, or one the gate has let in, meets no committed record
\* that is not projected and no account whose factor, codes and flags disagree,
\* whatever failed or crashed before: withReadyAuth() recovers first.
ReadyAuth ==
  pc = "run" =>
    \A v \in Users :
      /\ journal[v].st # "committed"
      /\ factor[v] = codes[v]
      /\ acct[v].totp <=> factor[v] # 0

\* Material that was disabled never comes back: no recovery, retry or power loss
\* projects an attempt whose factor has been disabled since.
NoResurrection == \A v \in Users : {factor[v], codes[v]} \cap retired = {}

\* While a code set stays in place its used codes stay used, even when the
\* projection that stored it is replayed.
UsedCodesStay ==
  \A v \in Users : used[v] /\ codes'[v] = codes[v] => used'[v]

\* An attempt, with its secret and backup codes, is shown to one session, under
\* one proof, and only that session gets its receipt.
AttemptCustody ==
  /\ \A d, e \in known : d.att = e.att => d = e
  /\ \A c \in receipts : \E d \in known :
       d.att = c.att /\ d.user = c.user /\ d.sess = c.sess

\* A primary proof is bound to one disclosed attempt, across expiry of the
\* attempt, changes of mode, restarts and power losses.  A callback that calls
\* the gate again can lose the binding with the setup it was shown.
ProofBindsOnce ==
  \A d, e \in known : d.proof = e.proof /\ d.proof # NoProof => d.att = e.att

\* A setup that has been shown is on disk: no power loss takes the account back
\* to a record older than the attempt.
DisclosedIsDurable == \A d \in known : \A r \in disk[d.user] : r.att >= d.att

\* An attempt is committed while it is unexpired, however long verification,
\* the resolver and the reads in between take.
CommittedInTime ==
  \A v \in Users :
    journal[v].st \in {"committed", "applied"} =>
      /\ journal[v].created <= journal[v].done
      /\ journal[v].done < journal[v].expires

\* A completion that was acknowledged survives every restart as a receipt until
\* a later attempt replaces it.
AckDurable ==
  \A c \in receipts : \A r \in disk[c.user] :
    r.att > c.att \/ (r.att = c.att /\ r.st = "applied")

\* Nothing that was disabled or spent comes back, whatever is replayed, fails or
\* restarts: neither a disabled factor or code set nor a used backup code (apply,
\* recoverUnsafe, project).
NothingComesBack == [][NoResurrection' /\ UsedCodesStay]_vars

\* An attempt is shown to one session under one proof, a proof of a primary login
\* buys one disclosed attempt, and the attempt is acknowledged for its session only
\* and committed before it expires (begin, validatePrimaryUses, complete).
CompletionRightful ==
  AttemptCustody /\ CommittedInTime /\ (~Nested => ProofBindsOnce)

\* What a request was told survives a power loss: a completion that was
\* acknowledged and, unless a callback may call the gate again, a setup that was
\* disclosed (begin, complete, writeRecord, syncDirectory).
AnswersDurable == AckDurable /\ (~Nested => DisclosedIsDurable)

\* A self-enrollment passes current() only with the credential its proof was
\* made with, though the credential may change while the resolver runs.
CredentialCurrent ==
  [][pc = "reload" /\ pc' = ret => acct[u].cred = Authorization[req.proof].cred]_vars

validatePrimaryUses(uses, current) ==
  /\ uses # {} /\ Cardinality(uses) <= MaxUses
  /\ \A b, c \in uses : b.proof = c.proof \/ b.att = c.att => b = c
  /\ \E b \in uses : b.att = current

\* what parseRecord accepts of a record; MAX_TTL_MS bounds the ttl the store is built
\* with, and the digests and ciphertexts are not told apart here
parseRecord(r) ==
  /\ r.st = "pending" => r.created < r.expires
  /\ r.st # "absent" /\ r.mode = "self" =>
       /\ validatePrimaryUses(r.uses, r.att)
       /\ r.st = "pending" =>
            \A b \in r.uses : b.att = r.att =>
              b.proof = r.proof /\ r.expires <= Authorization[b.proof].expires

\* No operation writes a record that parseRecord refuses, which would close the
\* gate for good: a live attempt has a lifetime, and a self-enrollment's
\* bindings are within the limit, distinct and include its own.
JournalParses == \A v \in Users : \A r \in disk[v] : parseRecord(r)

\* What must happen in the end: an enrollment whose commit is on disk is applied.
CommitDurable(v) == \A r \in disk[v] : r.st = "committed"
CommitApplied(v) == journal[v].st = "applied"
=============================================================================
