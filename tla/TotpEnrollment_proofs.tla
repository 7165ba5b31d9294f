------------------------ MODULE TotpEnrollment_proofs ------------------------
(***************************************************************************)
(* Proofs about TotpEnrollment for every value of its constants: types, no *)
(* projection before a durable commit, no protected operation before every *)
(* commit is projected, and what clients were told: that it is theirs, that*)
(* it lasts, and that nothing disabled or used comes back.                 *)
(***************************************************************************)
EXTENDS TotpEnrollment, FiniteSetTheorems, TLAPS

-----------------------------------------------------------------------------
(***************************************************************************)
(* The inductive invariant.                                                *)
(***************************************************************************)

\* places after current(_, TRUE) or on the way to them
StrictPlaces ==
  {"read", "redisclose", "publish", "disclose", "verify", "freeze"}

\* places at which rec is the pending record the request works on
PendingPlaces ==
  {"redisclose", "publish", "published", "disclose", "verify", "freeze"}

\* places inside an operation, after recovery and before a commit
OperationPlaces ==
  {"run", "load", "resolve", "reload", "read", "found", "receipt"}
    \cup PendingPlaces

\* no account's enrollment waits for its projection
NoneCommitted == \A v \in Users : journal[v].st # "committed"

\* factor, codes and flags of an account agree
Consistent(v) == factor[v] = codes[v] /\ (acct[v].totp <=> factor[v] # 0)

\* nothing of the account is projected
Bare(v) == factor[v] = 0 /\ codes[v] = 0 /\ ~acct[v].totp

\* what a name may resolve to after a power loss includes what it resolves to
DiskInv == \A v \in Users : journal[v] \in disk[v]

\* only an account whose commit is durable may be projected in part
ConsistentInv ==
  \A v \in Users : (\E r \in disk[v] : r.st # "committed") => Consistent(v)

\* records are filed under their own user and carry an attempt id
FiledInv ==
  /\ \A v \in Users : \A r \in disk[v] :
       r.st # "absent" => r.user = v /\ r.att # 0
  /\ rec.st # "absent" => rec.att # 0

\* where current() returns to, and what it has established
CurrentInv ==
  /\ pc \in {"load", "resolve", "reload"} =>
       /\ IF strict THEN ret \in StrictPlaces ELSE ret \in {"found", "receipt"}
       /\ ret \in PendingPlaces => rec.st = "pending" /\ rec.user = req.user
  /\ pc \in {"resolve", "reload"} => strict
  /\ pc \in {"resolve", "reload", "published"} \cup StrictPlaces =>
       Bare(req.user)
  /\ pc \in PendingPlaces => rec.st = "pending" /\ rec.user = req.user

\* what a write is about to publish, or has just renamed
WriteInv ==
  pc \in {"rename", "sync"} =>
    \/ /\ rec.st = "pending" /\ ret = "published" /\ ~recov
       /\ rec.user = req.user /\ Bare(rec.user)
    \/ /\ rec.st = "committed" /\ ret = "factor" /\ recov
       /\ caller = "complete" /\ Bare(rec.user)
       /\ pc = "sync" => journal[rec.user] = rec
    \/ /\ rec.st = "applied" /\ recov /\ Consistent(rec.user)
       /\ ret = IF caller = "recovery" THEN "scan" ELSE "settled"
       /\ factor[rec.user] = rec.att
       /\ \A r \in disk[rec.user] :
            r.att = rec.att /\ r.st \in {"committed", "applied"}
       /\ pc = "sync" => journal[rec.user] = rec

\* a projection works on a commit that no power loss can undo
ApplyInv ==
  pc \in {"factor", "codes", "flags"} =>
    /\ rec.st = "committed" /\ recov
    /\ journal[rec.user] = rec /\ disk[rec.user] = {rec}
    /\ pc # "factor" => factor[rec.user] = rec.att
    /\ pc = "flags" => codes[rec.user] = rec.att

\* when recoveryRequired is down, nothing needs recovery
RecoveryInv ==
  /\ ~recov => NoneCommitted
  /\ pc \in OperationPlaces => ~recov
  /\ pc = "sync2" => NoneCommitted
  /\ pc \in {"scan", "sync2"} => \A v \in Users : disk[v] = {journal[v]}

\* complete() leaves no other commit waiting when it lowers recoveryRequired
CompleteInv ==
  /\ caller = "complete"
       /\ pc \in {"rename", "sync", "factor", "codes", "flags", "settled"} =>
       \A v \in Users \ {rec.user} : journal[v].st # "committed"
  /\ pc = "settled" => caller = "complete" /\ journal[rec.user].st = "applied"

IInv ==
  /\ TypeOK /\ DiskInv /\ ConsistentInv /\ FiledInv /\ CurrentInv /\ WriteInv
  /\ ApplyInv /\ RecoveryInv /\ CompleteInv /\ NoProjectionBeforeCommit

-----------------------------------------------------------------------------
(***************************************************************************)
(* The second layer, inductive relative to IInv: what the records say, who *)
(* holds an attempt, and what a request in progress may rely on.           *)
(***************************************************************************)

\* every record a name may resolve to, and the one being worked on
Filed   == UNION {disk[v] : v \in Users}
Records == Filed \cup {rec}

\* what every record satisfies
RecordOK(r) ==
  /\ r.att <= minted
  /\ r.st = "absent" => r.att = 0 /\ r.mode = "onboarding"
  /\ r.mode = "onboarding" => r.uses = {}
  /\ r.st = "pending" => r.mode = requestMode(r.proof) /\ r.created < r.expires
  /\ r.st \in {"committed", "applied"} =>
       r.created <= r.done /\ r.done < r.expires
  /\ IsFiniteSet(r.uses)
  /\ \A b \in r.uses : b.att <= r.att
  /\ parseRecord(r)

RecordInv == \A r \in Records : RecordOK(r)

\* records of one attempt agree about everything a transition keeps
Agree(r, s) ==
  /\ r.user = s.user /\ r.sess = s.sess /\ r.mode = s.mode /\ r.uses = s.uses
  /\ r.st = "pending" /\ s.st = "pending" => r.proof = s.proof

AgreeInv ==
  \A r, s \in Records : r.att = s.att /\ r.att # 0 => Agree(r, s)

\* what was disclosed of an attempt is what its records say
Discloses(d, r) ==
  /\ r.user = d.user /\ r.sess = d.sess
  /\ r.st = "pending" => r.proof = d.proof

KnownInv ==
  \A d \in known :
    /\ d.att # 0 /\ d.att <= minted
    /\ \A r \in Records : r.att = d.att => Discloses(d, r)

\* a disabled attempt has left nothing behind but receipts
RetiredInv ==
  \A a \in retired :
    a # 0 /\ a <= minted /\ \A r \in Records : r.att = a => r.st = "applied"

\* when recoveryRequired is down a receipt is on disk
SettledInv ==
  ~recov \/ pc = "settled" =>
    \A v \in Users : journal[v].st = "applied" => disk[v] = {journal[v]}

\* codes are used only of an enrollment whose receipt is on disk
UsedInv ==
  \A v \in Users :
    used[v] => codes[v] # 0 /\ \A r \in disk[v] : r.st = "applied"

\* the request stands at one of the places, or passes current() on its way
At(places) ==
  pc \in places \/ (pc \in {"load", "resolve", "reload"} /\ ret \in places)

\* a write of a pending record is under way
Publishes == pc \in {"rename", "sync"} /\ rec.st = "pending"

\* the record the request works on is its own
Claims ==
  /\ req.kind = "complete"
  /\ rec.att = req.att /\ rec.sess = req.sess /\ rec.user = req.user

\* what begin() and complete() rely on from one await to the next
TaskInv ==
  /\ pc \in {"idle", "held"} => caller = "recovery"
  /\ req.kind = "complete" => \E d \in known : d.att = req.att
  /\ At({"found"}) => req.kind = "complete"
  /\ At({"read", "redisclose", "publish", "published", "disclose"}) \/ Publishes =>
       req.kind = "begin"
  /\ At({"verify", "freeze", "receipt"}) \/ caller = "complete" => Claims
  /\ At({"redisclose", "published", "disclose", "verify", "freeze"}) =>
       journal[rec.user] = rec
  /\ pc = "sync" => journal[rec.user] = rec
  /\ pc = "rename" /\ rec.st = "committed" =>
       journal[rec.user].st = "pending" /\ journal[rec.user].att = rec.att
  /\ pc = "settled" \/ At({"receipt"}) =>
       journal[rec.user] = rec /\ rec.st = "applied"
  /\ At({"publish"}) \/ (pc = "rename" /\ rec.st = "pending") =>
       rec.att = minted /\ \A v \in Users : \A r \in disk[v] : r.att < minted
  /\ pc = "published" \/ Publishes =>
       rec.sess = req.sess /\ rec.mode = req.mode /\ rec.proof = req.proof

\* what the resolver and the two reads around it have established
AuthorityInv ==
  /\ pc \in {"resolve", "reload", "published"} \cup StrictPlaces \/ Publishes =>
       Owner[req.sess] = req.user
  /\ pc \in {"resolve", "reload"} => req.mode = "self" /\ snap.cred <= acct[u].cred
  /\ pc = "reload" =>
       /\ snap.cred <= Authorization[req.proof].cred
       /\ Authorization[req.proof].cred <= acct[u].cred
  /\ req.mode = "self"
       /\ (pc \in {"reload", "published"} \cup StrictPlaces \/ Publishes) =>
       Authorization[req.proof].sess = req.sess
  /\ \A d \in known : d.proof # NoProof =>
       d.sess = Authorization[d.proof].sess /\ d.user = Owner[d.sess]

\* rec is the record that begin() is about to publish
Draft == At({"publish"}) \/ (pc = "rename" /\ rec.st = "pending")

\* the binding of a disclosed proof is carried until the proof has expired
BindingInv ==
  \A d \in known :
    d.proof # NoProof /\ now < Authorization[d.proof].expires =>
      LET b == [proof |-> d.proof, att |-> d.att]
      IN /\ \A r \in disk[d.user] : b \in r.uses
         /\ Draft /\ rec.user = d.user => b \in rec.uses

\* an operation runs on what is on disk, and leaves it so
SyncedInv ==
  /\ pc # "held"
  /\ pc \in OperationPlaces \cup {"settled"} =>
       \A v \in Users : disk[v] = {journal[v]}

\* what holds unless a callback may call the gate again
DurableInv ==
  ~Nested => SyncedInv /\ DisclosedIsDurable /\ BindingInv /\ ProofBindsOnce

JInv ==
  /\ RecordInv /\ AgreeInv /\ KnownInv /\ AttemptCustody /\ RetiredInv
  /\ SettledInv /\ UsedInv /\ TaskInv /\ AuthorityInv /\ AckDurable
  /\ NoResurrection /\ DurableInv

-----------------------------------------------------------------------------
(***************************************************************************)
(* Types.                                                                  *)
(***************************************************************************)

\* The frame of no request, which every request leaves behind, is well typed.
LEMMA FrameType ==
  /\ Absent \in Record
  /\ NoRequest \in Request
  /\ NoSnap \in [handle : Handles, cred : Nat]
  /\ NoFrame =>
       /\ req' \in Request /\ rec' \in Record /\ ret' \in Places
       /\ snap' \in [handle : Handles, cred : Nat]
       /\ strict' \in BOOLEAN /\ caller' \in {"recovery", "complete"}
<1>1. /\ (CHOOSE v \in Users : TRUE) \in Users
      /\ (CHOOSE h \in Handles : TRUE) \in Handles
  BY InhabitedAssumption
<1>2. Absent \in Record
  BY <1>1 DEF Absent, Record, States, Modes
<1>3. NoRequest \in Request
  BY <1>1 DEF NoRequest, Submitted, requestMode, Request, Kinds, Modes
<1>4. NoSnap \in [handle : Handles, cred : Nat]
  BY <1>1 DEF NoSnap
<1> QED
  BY <1>2, <1>3, <1>4 DEF NoFrame, Places

\* The initial state of the coordinator is well typed.
LEMMA TypeInit == Init => TypeOK
<1> SUFFICES ASSUME Init PROVE TypeOK
  OBVIOUS
<1>1. NoSnap.handle \in Handles
  BY FrameType
<1>2. acct \in [Users -> Account]
  BY <1>1 DEF Init, Account
<1>3. /\ journal \in [Users -> Record] /\ disk \in [Users -> SUBSET Record]
      /\ req \in Request /\ rec \in Record
      /\ snap \in [handle : Handles, cred : Nat]
  BY FrameType DEF Init
<1> QED
  BY <1>2, <1>3 DEF Init, TypeOK, Places

\* Every step of the coordinator and of its surroundings keeps the types.
LEMMA TypeStep == TypeOK /\ [Next]_vars => TypeOK'
<1> SUFFICES ASSUME TypeOK, [Next]_vars
             PROVE  TypeOK'
  OBVIOUS
<1> USE DEF TypeOK, files, store, client, frame, world, Goto
<1> USE BoundsAssumption
<1>1. CASE Gate
  <2>1. CASE Enter
    <3>1. req' \in Request
      BY <2>1 DEF Enter, Submit, Submitted, requestMode, Request, Kinds, Modes
    <3> QED
      BY <2>1, <3>1 DEF Enter, Places
  <2>2. CASE Release
    BY <2>2 DEF Release, Places
  <2> QED
    BY <1>1, <2>1, <2>2 DEF Gate
<1>2. CASE Publishing
  <2>1. CASE Rename
    BY <2>1 DEF Rename, Renamed, Record, Places
  <2>2. CASE Sync
    BY <2>2 DEF Sync, Synced
  <2>3. CASE IOError
    BY <2>3, FrameType DEF IOError, Fault, Leave, Places
  <2> QED
    BY <1>2, <2>1, <2>2, <2>3 DEF Publishing
<1>3. CASE Recovery
  <2>1. CASE RecoverSync
    BY <2>1 DEF RecoverSync, Synced, Places
  <2>2. CASE RecoverApply
    BY <2>2 DEF RecoverApply, Replayable, Places
  <2>3. CASE RecoverScanned
    BY <2>3 DEF RecoverScanned, Places
  <2>4. CASE RecoverDone
    BY <2>4 DEF RecoverDone, Synced, Places
  <2> QED
    BY <1>3, <2>1, <2>2, <2>3, <2>4 DEF Recovery
<1>4. CASE Projection
  <2>1. rec.user \in Users /\ rec.att \in Nat
    BY DEF Record
  <2>2. CASE ProjectFactor
    BY <2>1, <2>2 DEF ProjectFactor, Places
  <2>3. CASE ProjectCodes
    BY <2>1, <2>3 DEF ProjectCodes, Places
  <2>4. CASE ProjectFlags
    <3>1. rec' \in Record
      BY <2>4 DEF ProjectFlags, Record, States
    <3>2. acct' \in [Users -> Account]
      BY <2>4 DEF ProjectFlags, Account
    <3> QED
      BY <2>4, <3>1, <3>2 DEF ProjectFlags, Write, Places
  <2> QED
    BY <1>4, <2>2, <2>3, <2>4 DEF Projection
<1>5. CASE Run
  <2>1. req' \in Request
    BY <1>5 DEF Run, Request, Kinds
  <2> QED
    BY <1>5, <2>1 DEF Run, Call, Places
<1>6. CASE RecoverTwice
  BY <1>6, FrameType DEF RecoverTwice, Leave, Places
<1>7. CASE Currency
  <2>1. req.user \in Users
    BY DEF Request
  <2>2. CASE Load
    <3>1. snap' \in [handle : Handles, cred : Nat]
      BY <2>1, <2>2 DEF Load, u, Account
    <3> QED
      BY <2>2, <3>1 DEF Load, Places
  <2>3. CASE Resolve
    BY <2>3 DEF Resolve, Places
  <2>4. CASE Reload
    BY <2>4 DEF Reload
  <2>5. CASE Refuse
    BY <2>5, FrameType DEF Refuse, Leave, Places
  <2> QED
    BY <1>7, <2>2, <2>3, <2>4, <2>5 DEF Currency
<1>8. CASE Begin
  <2>1. req.user \in Users /\ rec.att \in Nat
    BY DEF Request, Record
  <2>2. Disclose => known' \subseteq
          [att : Nat, user : Users, sess : Sessions \cup {Nobody},
           proof : Proofs \cup {NoProof}]
    BY <2>1 DEF Disclose, u, Request
  <2>3. CASE BeginAgain
    BY <2>1, <2>3 DEF BeginAgain, Call, Places, u
  <2>4. CASE Redisclose
    BY <2>2, <2>4, FrameType DEF Redisclose, Leave, Places
  <2>5. CASE BeginNew
    <3>1. journal[req.user].uses \subseteq Uses
      BY <2>1 DEF Record
    <3>2. liveUses(journal[u]) \subseteq Uses
      BY <3>1 DEF liveUses, u
    <3>3. req.mode = "self" => req.proof \in Proofs
      BY DEF Request, requestMode
    <3>4. req.mode = "self" =>
            [proof |-> req.proof, att |-> minted + 1] \in Uses
      BY <3>3 DEF Uses
    <3>5. Expiry \in Nat
      BY <3>3, AuthorizationAssumption DEF Expiry
    <3>6. Pending(liveUses(journal[u])) \in Record
      BY <2>1, <3>2, <3>4, <3>5 DEF Pending, Record, States, u, Request
    <3> QED
      BY <2>5, <3>6 DEF BeginNew, Call, Places
  <2>6. CASE Publish
    BY <2>6 DEF Publish, Write, Places
  <2>7. CASE Published
    BY <2>2, <2>7, FrameType DEF Published, Leave, Call, Places
  <2>8. CASE DiscloseSelf
    BY <2>2, <2>8, FrameType DEF DiscloseSelf, Leave, Places
  <2> QED
    BY <1>8, <2>3, <2>4, <2>5, <2>6, <2>7, <2>8 DEF Begin
<1>9. CASE Complete
  <2>1. req.user \in Users
    BY DEF Request
  <2>2. ASSUME NEW r \in Record, Acknowledge(r)
        PROVE  receipts' \subseteq
                 [att : Nat, user : Users, sess : Sessions \cup {Nobody}]
    BY <2>1, <2>2 DEF Acknowledge, u, Request, Record
  <2>3. CASE Replay
    BY <2>1, <2>2, <2>3, FrameType DEF Replay, Leave, Call, Places, u
  <2>4. CASE Found
    BY <2>1, <2>4 DEF Found, Call, Places, u
  <2>5. CASE Verify
    BY <2>5 DEF Verify, Call, Places
  <2>6. CASE Freeze
    <3>1. rec' \in Record
      BY <2>6 DEF Freeze, Record, States
    <3> QED
      BY <2>6, <3>1 DEF Freeze, Write, Places
  <2>7. CASE Settled
    BY <2>2, <2>7, FrameType DEF Settled, Leave, Call, Places
  <2>8. CASE Receipt
    BY <2>2, <2>8, FrameType DEF Receipt, Leave, Places
  <2> QED
    BY <1>9, <2>3, <2>4, <2>5, <2>6, <2>7, <2>8 DEF Complete
<1>10. CASE Protected
  <2>1. req.user \in Users
    BY DEF Request
  <2>2. Leave => pc' \in Places
    BY DEF Leave, Places
  <2> USE FrameType, <2>2 DEF Leave
  <2>3. CASE Decide
    BY <2>3 DEF Decide
  <2>4. CASE UseCode
    BY <2>4 DEF UseCode
  <2>5. CASE Disable
    <3>1. acct' \in [Users -> Account]
      BY <2>1, <2>5 DEF Disable, Account, u
    <3> QED
      BY <2>1, <2>5, <3>1 DEF Disable, u
  <2>6. CASE EditAccount
    <3>1. acct' \in [Users -> Account]
      <4>1. PICK active \in BOOLEAN, onb \in BOOLEAN, h \in Handles :
              acct' = [acct EXCEPT ![u].active = active, ![u].onb = onb,
                                   ![u].handle = h]
        BY <2>6 DEF EditAccount
      <4> QED
        BY <2>1, <4>1 DEF Account, u
    <3> QED
      BY <2>6, <3>1 DEF EditAccount
  <2> QED
    BY <1>10, <2>3, <2>4, <2>5, <2>6 DEF Protected
<1>11. CASE Outside
  <2>1. CASE Tick
    BY <2>1 DEF Tick
  <2>2. CASE EndSession
    BY <2>2 DEF EndSession
  <2>3. CASE ChangeCredential
    <3>1. acct' \in [Users -> Account]
      BY <2>3 DEF ChangeCredential, Account
    <3> QED
      BY <2>3, <3>1 DEF ChangeCredential
  <2>4. CASE Crash
    BY <2>4, FrameType DEF Crash, Restart, Places
  <2>5. CASE PowerLoss
    <3>1. journal' \in [Users -> Record]
      BY <2>5 DEF PowerLoss
    <3> QED
      BY <2>5, <3>1, FrameType DEF PowerLoss, Restart, Places
  <2> QED
    BY <1>11, <2>1, <2>2, <2>3, <2>4, <2>5 DEF Outside
<1>12. CASE UNCHANGED vars
  BY <1>12 DEF vars
<1> QED
  BY <1>1, <1>2, <1>3, <1>4, <1>5, <1>6, <1>7, <1>8, <1>9, <1>10, <1>11, <1>12
  DEF Next

\* Every variable of the coordinator always has its type.
THEOREM TypeCorrect == Spec => []TypeOK
  BY TypeInit, TypeStep, PTL DEF Spec

-----------------------------------------------------------------------------
(***************************************************************************)
(* The inductive invariant is inductive.                                   *)
(***************************************************************************)

\* The initial state satisfies the invariant.
LEMMA InvInit == Init => IInv
<1> SUFFICES ASSUME Init PROVE IInv
  OBVIOUS
<1>1. TypeOK
  BY TypeInit
<1>2. Absent.st = "absent"
  BY DEF Absent
<1>3. rec.st = "absent" /\ \A v \in Users : journal[v].st = "absent"
  BY <1>2 DEF Init
<1>4. \A v \in Users : disk[v] = {journal[v]} /\ Bare(v)
  BY DEF Init, Bare
<1> QED
  BY <1>1, <1>3, <1>4
  DEF IInv, DiskInv, ConsistentInv, Consistent, FiledInv, CurrentInv, WriteInv,
      ApplyInv, RecoveryInv, CompleteInv, NoProjectionBeforeCommit, Init, Bare,
      NoneCommitted, StrictPlaces, PendingPlaces, OperationPlaces

\* The parts of the invariant about files and stored material survive a step
\* that changes neither.
LEMMA QuietStep ==
  ASSUME DiskInv, ConsistentInv, FiledInv, NoProjectionBeforeCommit,
         UNCHANGED <<files, store>>
  PROVE  /\ DiskInv' /\ ConsistentInv' /\ NoProjectionBeforeCommit'
         /\ (rec'.st # "absent" => rec'.att # 0) => FiledInv'
  BY DEF DiskInv, ConsistentInv, Consistent, FiledInv, files, store,
     NoProjectionBeforeCommit

\* Ending a request satisfies the parts of the invariant about the request.
LEMMA LeaveStep ==
  ASSUME NoFrame, pc' \in {"idle", "held"}, ~recov' => NoneCommitted'
  PROVE  /\ CurrentInv' /\ WriteInv' /\ ApplyInv' /\ RecoveryInv'
         /\ CompleteInv' /\ rec'.st = "absent"
  BY DEF NoFrame, Absent, CurrentInv, WriteInv, ApplyInv, RecoveryInv,
     CompleteInv, StrictPlaces, PendingPlaces, OperationPlaces

\* Every step preserves the invariant.
LEMMA InvStep == IInv /\ [Next]_vars => IInv'
<1> SUFFICES ASSUME IInv, [Next]_vars
             PROVE  IInv'
  OBVIOUS
<1>0. TypeOK'
  BY TypeStep DEF IInv
<1>a. /\ rec.user \in Users /\ req.user \in Users
      /\ caller \in {"recovery", "complete"}
  BY DEF IInv, TypeOK, Record, Request
<1> USE DEF Goto, StrictPlaces, PendingPlaces, OperationPlaces
<1>1. CASE Gate
  <2>1. CASE Enter
    BY <1>0, <2>1, QuietStep
    DEF Enter, IInv, FiledInv, CurrentInv, WriteInv, ApplyInv, RecoveryInv,
        CompleteInv, NoneCommitted, files
  <2>2. CASE Release
    BY <1>0, <2>2, QuietStep
    DEF Release, IInv, FiledInv, CurrentInv, WriteInv, ApplyInv, RecoveryInv,
        CompleteInv, files, frame
  <2> QED
    BY <1>1, <2>1, <2>2 DEF Gate
<1>2. CASE Publishing
  <2>1. CASE Rename
    <3>1. /\ journal'[rec.user] = rec
          /\ disk'[rec.user] = disk[rec.user] \cup {rec}
          /\ \A v \in Users \ {rec.user} :
               journal'[v] = journal[v] /\ disk'[v] = disk[v]
      BY <1>a, <2>1 DEF Rename, Renamed, IInv, TypeOK
    <3>2. DiskInv'
      BY <3>1 DEF DiskInv, IInv
    <3>3. /\ UNCHANGED <<store, frame, recov>> /\ pc = "rename" /\ pc' = "sync"
      BY <2>1 DEF Rename
    <3>4. Consistent(rec.user) /\ rec.att # 0
      BY <3>3 DEF IInv, WriteInv, Bare, Consistent, FiledInv
    <3>5. ConsistentInv'
      BY <3>1, <3>3, <3>4 DEF ConsistentInv, Consistent, IInv, store
    <3>6. FiledInv'
      BY <3>1, <3>3, <3>4 DEF FiledInv, IInv, frame
    <3>7. NoProjectionBeforeCommit'
      BY <3>1, <3>3
      DEF NoProjectionBeforeCommit, IInv, WriteInv, store, Bare, Consistent
    <3>8. WriteInv'
      BY <1>a, <3>1, <3>3
      DEF WriteInv, IInv, store, frame, Bare, Consistent
    <3>9. RecoveryInv'
      BY <1>a, <3>1, <3>3 DEF RecoveryInv, NoneCommitted, IInv, WriteInv, frame
    <3>10. CompleteInv' /\ CurrentInv' /\ ApplyInv'
      BY <3>1, <3>3 DEF CompleteInv, CurrentInv, ApplyInv, IInv, frame
    <3> QED
      BY <1>0, <3>2, <3>5, <3>6, <3>7, <3>8, <3>9, <3>10 DEF IInv
  <2>2. CASE Sync
    <3>1. /\ \A v \in Users : disk'[v] = {journal[v]}
          /\ journal' = journal
      BY <2>2 DEF Sync, Synced
    <3>2. /\ UNCHANGED <<store, frame, recov>> /\ pc = "sync" /\ pc' = ret
      BY <2>2 DEF Sync
    <3>3. /\ DiskInv' /\ ConsistentInv' /\ FiledInv' /\ NoProjectionBeforeCommit'
      BY <3>1, <3>2
      DEF DiskInv, ConsistentInv, Consistent, FiledInv, IInv, store, frame,
          NoProjectionBeforeCommit
    <3>4. CurrentInv' /\ WriteInv'
      BY <3>1, <3>2 DEF CurrentInv, WriteInv, IInv, store, frame, Bare
    <3>5. ApplyInv'
      BY <1>a, <3>1, <3>2 DEF ApplyInv, WriteInv, IInv, store, frame
    <3>6. RecoveryInv'
      BY <1>a, <3>1, <3>2
      DEF RecoveryInv, NoneCommitted, WriteInv, IInv, frame
    <3>7. CompleteInv'
      BY <1>a, <3>1, <3>2 DEF CompleteInv, WriteInv, IInv, frame
    <3> QED
      BY <1>0, <3>3, <3>4, <3>5, <3>6, <3>7 DEF IInv
  <2>3. CASE IOError
    BY <1>0, <2>3, QuietStep, LeaveStep
    DEF IOError, Leave, IInv, RecoveryInv, NoneCommitted, files
  <2> QED
    BY <1>2, <2>1, <2>2, <2>3 DEF Publishing
<1>3. CASE Recovery
  <2>1. ASSUME RecoverSync \/ RecoverDone
        PROVE  /\ DiskInv' /\ ConsistentInv' /\ FiledInv'
               /\ NoProjectionBeforeCommit'
               /\ \A v \in Users : disk'[v] = {journal'[v]}
    BY <2>1
    DEF RecoverSync, RecoverDone, Synced, DiskInv, ConsistentInv, Consistent,
        FiledInv, IInv, store, frame, NoProjectionBeforeCommit
  <2>2. CASE RecoverSync
    BY <1>0, <2>1, <2>2
    DEF RecoverSync, Synced, IInv, CurrentInv, WriteInv, ApplyInv, RecoveryInv,
        CompleteInv, NoneCommitted
  <2>3. CASE RecoverApply
    <3>1. PICK v \in Users : journal[v].st = "committed" /\ rec' = journal[v]
      BY <2>3 DEF RecoverApply, Replayable
    <3>2. disk[v] = {journal[v]} /\ rec'.user = v /\ rec'.att # 0 /\ recov
      BY <2>3, <3>1
      DEF RecoverApply, IInv, RecoveryInv, FiledInv, NoneCommitted
    <3>3. DiskInv' /\ ConsistentInv' /\ FiledInv' /\ NoProjectionBeforeCommit'
      BY <2>3, <3>2, QuietStep DEF RecoverApply, IInv
    <3>4. ApplyInv'
      BY <2>3, <3>1, <3>2 DEF RecoverApply, ApplyInv, files
    <3> QED
      BY <1>0, <2>3, <3>2, <3>3, <3>4
      DEF RecoverApply, IInv, CurrentInv, WriteInv, RecoveryInv, CompleteInv,
          files
  <2>4. CASE RecoverScanned
    BY <1>0, <2>4, QuietStep
    DEF RecoverScanned, Replayable, IInv, FiledInv, CurrentInv, WriteInv,
        ApplyInv, RecoveryInv, CompleteInv, NoneCommitted, files, frame
  <2>5. CASE RecoverDone
    BY <1>0, <2>1, <2>5
    DEF RecoverDone, Synced, IInv, CurrentInv, WriteInv, ApplyInv, RecoveryInv,
        CompleteInv, NoneCommitted
  <2> QED
    BY <1>3, <2>2, <2>3, <2>4, <2>5 DEF Recovery
<1>4. CASE Projection
  <2>1. /\ pc \in {"factor", "codes", "flags"} /\ rec.att # 0
        /\ UNCHANGED <<files, recov, caller>>
    BY <1>4 DEF Projection, ProjectFactor, ProjectCodes, ProjectFlags, frame,
       IInv, ApplyInv, FiledInv
  <2>2. /\ rec.st = "committed" /\ recov /\ journal[rec.user] = rec
        /\ disk[rec.user] = {rec}
    BY <2>1 DEF IInv, ApplyInv
  <2>3. DiskInv'
    BY <2>1 DEF DiskInv, IInv, files
  <2>4. CASE ProjectFactor
    <3>1. /\ factor'[rec.user] = rec.att
          /\ \A v \in Users \ {rec.user} : factor'[v] = factor[v]
          /\ UNCHANGED <<acct, codes, frame>> /\ pc' = "codes"
          /\ codes[rec.user] \in {0, rec.att}
      BY <1>a, <2>4 DEF ProjectFactor, Projectable, IInv, TypeOK
    <3>2. ConsistentInv' /\ NoProjectionBeforeCommit'
      BY <2>1, <2>2, <3>1
      DEF ConsistentInv, Consistent, NoProjectionBeforeCommit, IInv, files, frame
    <3> QED
      BY <1>0, <1>a, <2>1, <2>2, <2>3, <3>1, <3>2
      DEF IInv, FiledInv, CurrentInv, WriteInv, ApplyInv, RecoveryInv,
          CompleteInv, NoneCommitted, files, frame
  <2>5. CASE ProjectCodes
    <3>1. /\ codes'[rec.user] = rec.att
          /\ \A v \in Users \ {rec.user} : codes'[v] = codes[v]
          /\ UNCHANGED <<acct, factor, frame>> /\ pc = "codes" /\ pc' = "flags"
      BY <1>a, <2>5 DEF ProjectCodes, IInv, TypeOK
    <3>2. ConsistentInv' /\ NoProjectionBeforeCommit'
      BY <2>1, <2>2, <3>1
      DEF ConsistentInv, Consistent, NoProjectionBeforeCommit, IInv, files, frame
    <3> QED
      BY <1>0, <1>a, <2>1, <2>2, <2>3, <3>1, <3>2
      DEF IInv, FiledInv, CurrentInv, WriteInv, ApplyInv, RecoveryInv,
          CompleteInv, NoneCommitted, files, frame
  <2>6. CASE ProjectFlags
    <3>1. /\ acct'[rec.user].totp
          /\ \A v \in Users \ {rec.user} : acct'[v] = acct[v]
          /\ UNCHANGED <<factor, codes>> /\ pc = "flags" /\ pc' = "rename"
      BY <1>a, <2>6 DEF ProjectFlags, Write, IInv, TypeOK, Account
    <3>2. rec'.st = "applied" /\ rec'.user = rec.user /\ rec'.att = rec.att
      BY <2>6 DEF ProjectFlags, IInv, TypeOK, Record
    <3>3. factor[rec.user] = rec.att /\ codes[rec.user] = rec.att
      BY <3>1 DEF IInv, ApplyInv
    <3>4. ConsistentInv' /\ NoProjectionBeforeCommit'
      BY <2>1, <2>2, <3>1
      DEF ConsistentInv, Consistent, NoProjectionBeforeCommit, IInv, files
    <3>5. WriteInv'
      BY <2>1, <2>2, <2>6, <3>1, <3>2, <3>3
      DEF ProjectFlags, Write, WriteInv, Consistent, files
    <3>6. FiledInv'
      BY <2>1, <3>2 DEF FiledInv, IInv, files
    <3> QED
      BY <1>0, <2>1, <2>2, <2>3, <3>1, <3>2, <3>4, <3>5, <3>6
      DEF IInv, CurrentInv, ApplyInv, RecoveryInv, CompleteInv, files
  <2> QED
    BY <1>4, <2>4, <2>5, <2>6 DEF Projection
<1>5. CASE Run
  BY <1>0, <1>5, QuietStep
  DEF Run, Call, IInv, FiledInv, CurrentInv, WriteInv, ApplyInv, RecoveryInv,
      CompleteInv, NoneCommitted, files
<1>6. CASE RecoverTwice
  BY <1>0, <1>6, QuietStep, LeaveStep
  DEF RecoverTwice, Leave, IInv, RecoveryInv, NoneCommitted, files
<1>7. CASE Currency
  <2>1. CASE Load
    BY <1>0, <2>1, QuietStep
    DEF Load, Resolving, requireAbsentFactor, u, Bare, IInv, FiledInv,
        CurrentInv, WriteInv, ApplyInv, RecoveryInv, CompleteInv,
        NoneCommitted, files, store
  <2>2. CASE Resolve
    BY <1>0, <2>2, QuietStep
    DEF Resolve, Bare, IInv, FiledInv, CurrentInv, WriteInv, ApplyInv,
        RecoveryInv, CompleteInv, NoneCommitted, files, store, frame
  <2>3. CASE Reload
    BY <1>0, <2>3, QuietStep
    DEF Reload, Bare, IInv, FiledInv, CurrentInv, WriteInv, ApplyInv,
        RecoveryInv, CompleteInv, NoneCommitted, files, store, frame
  <2>4. CASE Refuse
    BY <1>0, <2>4, QuietStep, LeaveStep
    DEF Refuse, Leave, IInv, RecoveryInv, NoneCommitted, files
  <2> QED
    BY <1>7, <2>1, <2>2, <2>3, <2>4 DEF Currency
<1>8. CASE Begin
  <2>1. CASE BeginAgain
    <3>1. rec' = journal[req.user] /\ journal[req.user].st = "pending"
      BY <2>1 DEF BeginAgain, u
    <3>2. rec'.user = req.user /\ rec'.att # 0
      BY <1>a, <3>1 DEF IInv, DiskInv, FiledInv
    <3> QED
      BY <1>0, <2>1, <3>1, <3>2, QuietStep
      DEF BeginAgain, Call, IInv, CurrentInv, WriteInv, ApplyInv, RecoveryInv,
          CompleteInv, NoneCommitted, files
  <2>2. CASE Redisclose
    BY <1>0, <2>2, QuietStep, LeaveStep
    DEF Redisclose, Leave, IInv, RecoveryInv, NoneCommitted, files
  <2>3. CASE BeginNew
    <3>1. rec'.st = "pending" /\ rec'.user = req.user /\ rec'.att # 0
      BY <2>3 DEF BeginNew, Pending, u, IInv, TypeOK
    <3> QED
      BY <1>0, <2>3, <3>1, QuietStep
      DEF BeginNew, Call, IInv, CurrentInv, WriteInv, ApplyInv, RecoveryInv,
          CompleteInv, NoneCommitted, files
  <2>4. CASE Publish
    BY <1>0, <2>4, QuietStep
    DEF Publish, Write, Bare, IInv, FiledInv, CurrentInv, WriteInv, ApplyInv,
        RecoveryInv, CompleteInv, NoneCommitted, files, store
  <2>5. CASE Published
    <3>1. CASE req.mode = "self"
      BY <1>0, <2>5, <3>1, QuietStep
      DEF Published, Call, IInv, FiledInv, CurrentInv, WriteInv, ApplyInv,
          RecoveryInv, CompleteInv, NoneCommitted, files
    <3>2. CASE req.mode = "onboarding"
      BY <1>0, <2>5, <3>2, QuietStep, LeaveStep
      DEF Published, Leave, IInv, RecoveryInv, NoneCommitted, files
    <3> QED
      BY <2>5, <3>1, <3>2 DEF Published
  <2>6. CASE DiscloseSelf
    BY <1>0, <2>6, QuietStep, LeaveStep
    DEF DiscloseSelf, Leave, IInv, RecoveryInv, NoneCommitted, files
  <2> QED
    BY <1>8, <2>1, <2>2, <2>3, <2>4, <2>5, <2>6 DEF Begin
<1>9. CASE Complete
  <2>1. CASE Replay
    <3>1. CASE req.mode = "self"
      <4>1. rec'.att # 0
        BY <1>a, <2>1, <3>1 DEF Replay, u, IInv, DiskInv, FiledInv
      <4> QED
        BY <1>0, <2>1, <3>1, <4>1, QuietStep
        DEF Replay, Call, IInv, CurrentInv, WriteInv, ApplyInv, RecoveryInv,
            CompleteInv, NoneCommitted, files
    <3>2. CASE req.mode = "onboarding"
      BY <1>0, <2>1, <3>2, QuietStep, LeaveStep
      DEF Replay, Leave, IInv, RecoveryInv, NoneCommitted, files
    <3> QED
      BY <2>1, <3>1, <3>2 DEF Replay
  <2>2. CASE Found
    <3>1. rec' = journal[req.user] /\ journal[req.user].st = "pending"
      BY <2>2 DEF Found, u
    <3>2. rec'.user = req.user /\ rec'.att # 0
      BY <1>a, <3>1 DEF IInv, DiskInv, FiledInv
    <3> QED
      BY <1>0, <2>2, <3>1, <3>2, QuietStep
      DEF Found, Call, IInv, CurrentInv, WriteInv, ApplyInv, RecoveryInv,
          CompleteInv, NoneCommitted, files
  <2>3. CASE Verify
    BY <1>0, <2>3, QuietStep
    DEF Verify, Call, IInv, FiledInv, CurrentInv, WriteInv, ApplyInv,
        RecoveryInv, CompleteInv, NoneCommitted, files
  <2>4. CASE Freeze
    <3>1. rec'.st = "committed" /\ rec'.user = rec.user /\ rec'.att = rec.att
      BY <2>4 DEF Freeze, IInv, TypeOK, Record
    <3>2. Bare(rec.user) /\ rec.att # 0 /\ NoneCommitted
      BY <2>4 DEF Freeze, IInv, CurrentInv, FiledInv, RecoveryInv
    <3> QED
      BY <1>0, <2>4, <3>1, <3>2, QuietStep
      DEF Freeze, Write, Bare, IInv, CurrentInv, WriteInv, ApplyInv,
          RecoveryInv, CompleteInv, NoneCommitted, files, store
  <2>5. CASE Settled
    <3>1. NoneCommitted
      BY <2>5 DEF Settled, IInv, CompleteInv, NoneCommitted
    <3>2. CASE req.mode = "self"
      BY <1>0, <2>5, <3>1, <3>2, QuietStep
      DEF Settled, Call, IInv, FiledInv, CurrentInv, WriteInv, ApplyInv,
          RecoveryInv, CompleteInv, NoneCommitted, files
    <3>3. CASE req.mode = "onboarding"
      BY <1>0, <2>5, <3>1, <3>3, QuietStep, LeaveStep
      DEF Settled, Leave, IInv, NoneCommitted, files
    <3> QED
      BY <2>5, <3>2, <3>3 DEF Settled
  <2>6. CASE Receipt
    BY <1>0, <2>6, QuietStep, LeaveStep
    DEF Receipt, Leave, IInv, RecoveryInv, NoneCommitted, files
  <2> QED
    BY <1>9, <2>1, <2>2, <2>3, <2>4, <2>5, <2>6 DEF Complete
<1>10. CASE Protected
  <2>1. /\ Leave /\ UNCHANGED <<files, recov>> /\ pc = "run"
    BY <1>10 DEF Protected, Decide, UseCode, Disable, EditAccount, Ready
  <2>2. \A v \in Users : Consistent(v)
    BY <2>1 DEF IInv, RecoveryInv, NoneCommitted, DiskInv, ConsistentInv
  <2>3. DiskInv' /\ FiledInv' /\ CurrentInv' /\ WriteInv' /\ ApplyInv'
        /\ RecoveryInv' /\ CompleteInv'
    BY <2>1, LeaveStep
    DEF Leave, IInv, DiskInv, FiledInv, RecoveryInv, NoneCommitted, files
  <2>4. CASE Decide \/ UseCode
    BY <1>0, <2>1, <2>3, <2>4
    DEF Decide, UseCode, IInv, ConsistentInv, Consistent,
        NoProjectionBeforeCommit, files, store
  <2>5. CASE Disable
    <3>1. \A v \in Users : Consistent(v)'
      BY <1>a, <2>2, <2>5 DEF Disable, Consistent, u, IInv, TypeOK, Account
    <3>2. \A v \in Users : /\ factor'[v] \in {0, factor[v]}
                           /\ codes'[v] \in {0, codes[v]}
      BY <2>5 DEF Disable, IInv, TypeOK
    <3> QED
      BY <1>0, <2>1, <2>3, <3>1, <3>2
      DEF IInv, ConsistentInv, NoProjectionBeforeCommit, files
  <2>6. CASE EditAccount
    <3>1. /\ UNCHANGED <<factor, codes>>
          /\ \A v \in Users : acct'[v].totp = acct[v].totp
      BY <2>6 DEF EditAccount, IInv, TypeOK, Account
    <3> QED
      BY <1>0, <2>1, <2>3, <3>1
      DEF IInv, ConsistentInv, Consistent, NoProjectionBeforeCommit, files
  <2> QED
    BY <1>10, <2>4, <2>5, <2>6 DEF Protected
<1>11. CASE Outside
  <2>1. CASE Tick \/ EndSession
    BY <1>0, <2>1, QuietStep
    DEF Tick, EndSession, Bare, Consistent, IInv, FiledInv, CurrentInv,
        WriteInv, ApplyInv, RecoveryInv, CompleteInv, NoneCommitted, files,
        store, frame
  <2>2. CASE ChangeCredential
    <3>1. /\ UNCHANGED <<files, factor, codes, frame, pc, recov>>
          /\ \A v \in Users : acct'[v].totp = acct[v].totp
      BY <2>2 DEF ChangeCredential, IInv, TypeOK, Account
    <3> QED
      BY <1>0, <1>a, <3>1
      DEF IInv, DiskInv, ConsistentInv, Consistent, FiledInv, CurrentInv,
          WriteInv, ApplyInv, RecoveryInv, CompleteInv, NoneCommitted, Bare,
          NoProjectionBeforeCommit, files, frame
  <2>3. CASE Crash
    BY <1>0, <2>3, QuietStep, LeaveStep
    DEF Crash, Restart, IInv
  <2>4. CASE PowerLoss
    <3>1. \A v \in Users : journal'[v] \in disk[v] /\ disk'[v] = {journal'[v]}
      BY <2>4 DEF PowerLoss
    <3>2. UNCHANGED store /\ NoFrame /\ pc' = "idle" /\ recov'
      BY <2>4 DEF PowerLoss, Restart
    <3>3. /\ CurrentInv' /\ WriteInv' /\ ApplyInv' /\ RecoveryInv'
          /\ CompleteInv' /\ rec'.st = "absent"
      BY <3>2, LeaveStep
    <3> QED
      BY <1>0, <3>1, <3>2, <3>3
      DEF IInv, DiskInv, ConsistentInv, Consistent, FiledInv,
          NoProjectionBeforeCommit, store
  <2> QED
    BY <1>11, <2>1, <2>2, <2>3, <2>4 DEF Outside
<1>12. CASE UNCHANGED vars
  BY <1>0, <1>12, QuietStep
  DEF vars, Bare, Consistent, IInv, FiledInv, CurrentInv, WriteInv, ApplyInv,
      RecoveryInv, CompleteInv, NoneCommitted, files, store, frame
<1> QED
  BY <1>1, <1>2, <1>3, <1>4, <1>5, <1>6, <1>7, <1>8, <1>9, <1>10, <1>11, <1>12
  DEF Next

\* The inductive invariant always holds.
LEMMA Invariance == Spec => []IInv
  BY InvInit, InvStep, PTL DEF Spec

\* complete() and recovery store no factor and no backup code of an attempt
\* whose committed record a power loss could still undo.
THEOREM ProjectionAfterCommit == Spec => []NoProjectionBeforeCommit
<1>1. IInv => NoProjectionBeforeCommit
  BY DEF IInv
<1> QED
  BY <1>1, Invariance, PTL

\* withReadyAuth() lets an operation start only when every committed enrollment
\* is projected and every account's factor, codes and flags agree.
THEOREM GateReady == Spec => []ReadyAuth
<1>1. IInv => ReadyAuth
  <2> SUFFICES ASSUME IInv, pc = "run", NEW v \in Users
               PROVE  journal[v].st # "committed" /\ Consistent(v)
    BY DEF ReadyAuth, Consistent
  <2>1. journal[v].st # "committed"
    BY DEF IInv, RecoveryInv, OperationPlaces, NoneCommitted
  <2> QED
    BY <2>1 DEF IInv, DiskInv, ConsistentInv
<1> QED
  BY <1>1, Invariance, PTL

-----------------------------------------------------------------------------
(***************************************************************************)
(* What a step does to the records: it writes the one being worked on, and *)
(* works on one it read, on a new attempt, or on that record one state on. *)
(***************************************************************************)

\* Freeze's record: the attempt committed while it is unexpired
Freezes(r) ==
  /\ pc = "freeze" /\ checkExpiry(rec)
  /\ r = [rec EXCEPT !.st = "committed", !.proof = NoProof, !.done = now]

\* ProjectFlags' record: the receipt
Applies(r) == pc = "flags" /\ r = [rec EXCEPT !.st = "applied"]

\* BeginNew's record: the next attempt, with the live bindings of the last
Mints(r) ==
  /\ pc = "read" /\ now < Expiry /\ minted' = minted + 1
  /\ ProofFree(liveUses(journal[u]))
  /\ r = Pending(liveUses(journal[u]))

\* Only a rename changes what a name may resolve to, apart from what a sync or a
\* power loss removes.
LEMMA DiskStep ==
  ASSUME IInv, [Next]_vars, NEW v \in Users, NEW r \in disk'[v]
  PROVE  r \in disk[v] \/ (Rename /\ r = rec /\ v = rec.user)
<1>1. journal[v] \in disk[v]
  BY DEF IInv, DiskInv
<1>2. CASE Rename
  BY <1>2 DEF Rename, Renamed, IInv, TypeOK
<1>3. CASE Sync \/ RecoverSync \/ RecoverDone
  BY <1>1, <1>3 DEF Sync, RecoverSync, RecoverDone, Synced
<1>4. CASE PowerLoss
  BY <1>4 DEF PowerLoss
<1>5. CASE UNCHANGED files
  BY <1>5 DEF files
<1>6. Rename \/ Sync \/ RecoverSync \/ RecoverDone \/ PowerLoss \/ UNCHANGED files
  BY DEF Next, vars, Gate, Enter, Release, Publishing, IOError, Recovery,
     RecoverApply, RecoverScanned, Projection, ProjectFactor, ProjectCodes,
     ProjectFlags, Run, RecoverTwice, Currency, Load, Resolve, Reload, Refuse,
     Begin, BeginAgain, Redisclose, BeginNew, Publish, Published, DiscloseSelf,
     Complete, Replay, Found, Verify, Freeze, Settled, Receipt, Protected,
     Decide, UseCode, Disable, EditAccount, Outside, Tick, EndSession,
     ChangeCredential, Crash
<1> QED
  BY <1>2, <1>3, <1>4, <1>5, <1>6

\* The record being worked on is kept, forgotten, read, drafted or moved on.
LEMMA RecStep ==
  ASSUME IInv, [Next]_vars
  PROVE  \/ rec' = rec \/ rec' = Absent
         \/ Freezes(rec') \/ Applies(rec') \/ Mints(rec')
         \/ \E v \in Users : rec' = journal[v]
<1>1. req.user \in Users
  BY DEF IInv, TypeOK, Request
<1>2. CASE Gate \/ Publishing \/ UNCHANGED vars
  BY <1>2 DEF Gate, Enter, Release, Publishing, Rename, Sync, IOError, vars,
     Leave, NoFrame, frame
<1>3. CASE Recovery
  BY <1>3 DEF Recovery, RecoverSync, RecoverApply, Replayable, RecoverScanned,
     RecoverDone, frame
<1>4. CASE Projection
  BY <1>4 DEF Projection, ProjectFactor, ProjectCodes, ProjectFlags, Applies,
     frame
<1>5. CASE Run \/ RecoverTwice \/ Currency
  BY <1>5 DEF Run, RecoverTwice, Currency, Load, Resolve, Reload, Refuse, Leave,
     NoFrame, frame
<1>6. CASE Begin
  BY <1>1, <1>6 DEF Begin, BeginAgain, Redisclose, BeginNew, Publish, Published,
     DiscloseSelf, Leave, NoFrame, Mints, u
<1>7. CASE Complete
  BY <1>1, <1>7 DEF Complete, Replay, Found, Verify, Freeze, Settled, Receipt,
     Leave, NoFrame, Freezes, u
<1>8. CASE Protected
  BY <1>8 DEF Protected, Decide, UseCode, Disable, EditAccount, Leave, NoFrame
<1>9. CASE Outside
  BY <1>9 DEF Outside, Tick, EndSession, ChangeCredential, Crash, PowerLoss,
     Restart, NoFrame, frame
<1> QED
  BY <1>2, <1>3, <1>4, <1>5, <1>6, <1>7, <1>8, <1>9 DEF Next

\* A record is the one being worked on or one a name may resolve to.
LEMMA RecordsAre ==
  /\ \A r : r \in Records <=> r = rec \/ \E v \in Users : r \in disk[v]
  /\ \A r : r \in Records' <=> r = rec' \/ \E v \in Users : r \in disk'[v]
<1>1. ASSUME NEW r, NEW v \in Users, r \in disk[v]
      PROVE  r \in Filed
  <2>1. disk[v] \in {disk[w] : w \in Users}
    OBVIOUS
  <2> QED
    BY <1>1, <2>1 DEF Filed
<1>2. ASSUME NEW r, r \in Filed
      PROVE  \E v \in Users : r \in disk[v]
  BY <1>2 DEF Filed
<1>3. ASSUME NEW r, NEW v \in Users, r \in disk'[v]
      PROVE  r \in Filed'
  <2>1. disk'[v] \in {disk'[w] : w \in Users}
    OBVIOUS
  <2> QED
    BY <1>3, <2>1 DEF Filed
<1>4. ASSUME NEW r, r \in Filed'
      PROVE  \E v \in Users : r \in disk'[v]
  BY <1>4 DEF Filed
<1> QED
  BY <1>1, <1>2, <1>3, <1>4 DEF Records

\* Every record after a step was there before it, says nothing, or is the one a
\* transition of the journal makes.
LEMMA RecordsStep ==
  ASSUME IInv, [Next]_vars, NEW r \in Records'
  PROVE  \/ r \in Records \/ r = Absent
         \/ r = rec' /\ (Freezes(r) \/ Applies(r) \/ Mints(r))
<1>1. CASE \E v \in Users : r \in disk'[v]
  <2>1. PICK v \in Users : r \in disk'[v]
    BY <1>1
  <2>2. r \in disk[v] \/ r = rec
    BY <2>1, DiskStep
  <2> QED
    BY <2>2, RecordsAre
<1>2. CASE r = rec'
  <2>1. \A v \in Users : journal[v] \in Records
    BY RecordsAre DEF IInv, DiskInv
  <2>2. rec \in Records
    BY RecordsAre
  <2> QED
    BY <1>2, <2>1, <2>2, RecStep
<1> QED
  BY <1>1, <1>2, RecordsAre

\* Attempt numbers are never taken back.
LEMMA MintedStep ==
  ASSUME IInv, [Next]_vars
  PROVE  /\ minted \in Nat /\ minted' \in Nat /\ minted' >= minted
         /\ minted' = minted \/ BeginNew
<1>1. minted' = minted \/ BeginNew
  BY DEF Next, vars, Gate, Enter, Release, Publishing, Rename, Sync, IOError,
     Recovery, RecoverSync, RecoverApply, RecoverScanned, RecoverDone,
     Projection, ProjectFactor, ProjectCodes, ProjectFlags, Run, RecoverTwice,
     Currency, Load, Resolve, Reload, Refuse, Begin, BeginAgain, Redisclose,
     Publish, Published, DiscloseSelf, Complete, Replay, Found, Verify, Freeze,
     Settled, Receipt, Protected, Decide, UseCode, Disable, EditAccount,
     Outside, Tick, EndSession, ChangeCredential, Crash, PowerLoss, Restart
<1>2. minted \in Nat
  BY DEF IInv, TypeOK
<1>3. BeginNew => minted' = minted + 1
  BY DEF BeginNew
<1> QED
  BY <1>1, <1>2, <1>3

\* Records are records.
LEMMA RecordsType ==
  ASSUME IInv
  PROVE  /\ \A r \in Records : r \in Record
         /\ rec \in Records /\ \A v \in Users : journal[v] \in Records
<1>1. \A v \in Users : disk[v] \subseteq Record /\ journal[v] \in disk[v]
  BY DEF IInv, TypeOK, DiskInv
<1> QED
  BY <1>1, RecordsAre DEF IInv, TypeOK

\* A new attempt's record is one that parseRecord accepts: it has a lifetime, and
\* its bindings are those still live and its own, distinct and within the limit.
LEMMA MintsOK ==
  ASSUME IInv, RecordInv, NEW r, Mints(r)
  PROVE  RecordOK(r)'
<1> DEFINE j == journal[req.user]
           bound == liveUses(j)
           x == [proof |-> req.proof, att |-> minted + 1]
<1>1. req.user \in Users /\ req \in Request /\ minted \in Nat /\ now \in Nat
  BY DEF IInv, TypeOK, Request
<1>2. j \in Record /\ RecordOK(j)
  BY <1>1, RecordsType DEF RecordInv
<1>3. /\ req.mode \in {"onboarding", "self"} /\ req.mode = requestMode(req.proof)
      /\ req.mode = "self" => req.proof \in Proofs
  BY <1>1 DEF Request, Modes, requestMode
<1>4. /\ Expiry \in Nat /\ now < Expiry
      /\ req.mode = "self" => Expiry <= Authorization[req.proof].expires
  BY <1>1, <1>3, AuthorizationAssumption, BoundsAssumption DEF Expiry, Mints
<1>5. /\ r.st = "pending" /\ r.att = minted + 1 /\ r.mode = req.mode
      /\ r.created = now /\ r.expires = Expiry /\ r.proof = req.proof
      /\ r.uses = IF req.mode = "self" THEN bound \cup {x} ELSE {}
  BY DEF Mints, Pending, u
<1>6. bound \subseteq j.uses /\ IsFiniteSet(j.uses) /\ j.uses \subseteq Uses
  BY <1>2 DEF liveUses, RecordOK, Record
<1>7. \A b \in bound : b.att \in Nat /\ b.att <= minted
  BY <1>1, <1>2, <1>6 DEF RecordOK, Record, Uses
<1>8. \A b, c \in bound : b.proof = c.proof \/ b.att = c.att => b = c
  <2>1. CASE j.mode = "self"
    BY <1>2, <1>6, <2>1 DEF RecordOK, parseRecord, validatePrimaryUses
  <2>2. CASE j.mode = "onboarding"
    BY <1>2, <1>6, <2>2 DEF RecordOK
  <2> QED
    BY <1>2, <2>1, <2>2 DEF Record, Modes
<1>9. IsFiniteSet(bound) /\ Cardinality(bound) \in Nat
  BY <1>6, FS_Subset, FS_CardinalityType
<1>10. ProofFree(bound)
  BY DEF Mints, u
<1> HIDE DEF j, bound, x
<1>11. /\ x.proof = req.proof /\ x.att = minted + 1
       /\ x \notin bound
  BY <1>1, <1>7 DEF x
<1>12. IsFiniteSet(bound \cup {x})
       /\ Cardinality(bound \cup {x}) = Cardinality(bound) + 1
  BY <1>9, <1>11, FS_AddElement
<1>13. IsFiniteSet(r.uses)
  BY <1>3, <1>5, <1>12, FS_EmptySet
<1>14. \A b \in r.uses : b.att <= r.att
  BY <1>1, <1>3, <1>5, <1>7, <1>11
<1>15. ASSUME req.mode = "self"
       PROVE  validatePrimaryUses(r.uses, r.att)
  <2>1. Cardinality(r.uses) <= MaxUses
    BY <1>5, <1>9, <1>10, <1>12, <1>15, BoundsAssumption DEF ProofFree
  <2>2. \A b \in bound : b.proof # x.proof /\ b.att # x.att
    BY <1>1, <1>7, <1>10, <1>11, <1>15 DEF ProofFree
  <2>3. \A b, c \in r.uses : b.proof = c.proof \/ b.att = c.att => b = c
    BY <1>5, <1>8, <1>15, <2>2
  <2>4. x \in r.uses /\ x.att = r.att
    BY <1>5, <1>11, <1>15
  <2> QED
    BY <2>1, <2>3, <2>4 DEF validatePrimaryUses
<1>16. ASSUME req.mode = "self", NEW b \in r.uses, b.att = r.att
       PROVE  b.proof = r.proof /\ r.expires <= Authorization[b.proof].expires
  <2>1. b = x
    BY <1>1, <1>5, <1>7, <1>16
  <2> QED
    BY <1>4, <1>5, <1>11, <1>16, <2>1
<1>17. parseRecord(r)
  BY <1>4, <1>5, <1>15, <1>16 DEF parseRecord
<1>18. minted' = minted + 1
  BY DEF Mints
<1>19. r.mode = "onboarding" => r.uses = {}
  BY <1>5
<1> QED
  BY <1>1, <1>3, <1>4, <1>5, <1>13, <1>14, <1>17, <1>18, <1>19 DEF RecordOK

\* Every step keeps the records well formed.
LEMMA RecordStep ==
  ASSUME IInv, RecordInv, [Next]_vars
  PROVE  RecordInv'
<1> SUFFICES ASSUME NEW r \in Records'
             PROVE  RecordOK(r)'
  BY DEF RecordInv
<1>1. minted \in Nat /\ minted' \in Nat /\ minted' >= minted
  BY MintedStep
<1>2. CASE r \in Records
  <2>1. RecordOK(r) /\ r.att \in Nat
    BY <1>2, RecordsType DEF RecordInv, Record
  <2> QED
    BY <1>1, <2>1 DEF RecordOK
<1>3. CASE r = Absent
  BY <1>1, <1>3, FS_EmptySet DEF RecordOK, Absent, parseRecord
<1>4. CASE Freezes(r) \/ Applies(r)
  <2>1. RecordOK(rec) /\ rec \in Record
    BY RecordsType DEF RecordInv
  <2>2. /\ r.st \in {"committed", "applied"} /\ r.att = rec.att
        /\ r.mode = rec.mode /\ r.uses = rec.uses
        /\ r.created = rec.created /\ r.expires = rec.expires
    BY <1>4, <2>1 DEF Freezes, Applies, Record
  <2>3. rec.st \in {"pending", "committed"}
    BY <1>4 DEF Freezes, Applies, IInv, CurrentInv, ApplyInv, PendingPlaces
  <2>4. r.created <= r.done /\ r.done < r.expires
    BY <1>4, <2>1 DEF Freezes, Applies, Record, RecordOK, checkExpiry, IInv,
       ApplyInv
  <2>5. parseRecord(r)
    BY <2>1, <2>2, <2>3 DEF RecordOK, parseRecord
  <2>6. r.att <= minted'
    BY <1>1, <2>1, <2>2 DEF RecordOK, Record
  <2> QED
    BY <2>1, <2>2, <2>4, <2>5, <2>6 DEF RecordOK
<1>5. CASE Mints(r)
  BY <1>5, MintsOK
<1> QED
  BY <1>2, <1>3, <1>4, <1>5, RecordsStep

\* r is a or what a transition of the journal makes of it
Derived(r, a) ==
  /\ r.att = a.att /\ r.user = a.user /\ r.sess = a.sess /\ r.mode = a.mode
  /\ r.uses = a.uses
  /\ r.st = "pending" => a.st = "pending" /\ r.proof = a.proof
  /\ a.st = "applied" => r.st = "applied"

\* A record after a step says nothing, is a new attempt's, or stems from a record
\* of its attempt.
LEMMA Ancestry ==
  ASSUME IInv, [Next]_vars, NEW r \in Records'
  PROVE  \/ r.att = 0
         \/ r = rec' /\ Mints(r) /\ r.att = minted + 1
         \/ \E a \in Records : Derived(r, a)
<1>1. CASE r \in Records
  BY <1>1 DEF Derived
<1>2. CASE r = Absent
  BY <1>2 DEF Absent
<1>3. CASE Freezes(r) \/ Applies(r)
  <2>1. rec \in Records /\ rec \in Record
    BY RecordsType
  <2>2. rec.st \in {"pending", "committed"}
    BY <1>3 DEF Freezes, Applies, IInv, CurrentInv, ApplyInv, PendingPlaces
  <2>3. Derived(r, rec)
    BY <1>3, <2>1, <2>2 DEF Freezes, Applies, Derived, Record
  <2> QED
    BY <2>1, <2>3
<1>4. CASE r = rec' /\ Mints(r)
  BY <1>4 DEF Mints, Pending
<1> QED
  BY <1>1, <1>2, <1>3, <1>4, RecordsStep

\* Records of one attempt go on agreeing.
LEMMA AgreeStep ==
  ASSUME IInv, RecordInv, AgreeInv, [Next]_vars
  PROVE  AgreeInv'
<1> SUFFICES ASSUME NEW r \in Records', NEW s \in Records',
                    r.att = s.att, r.att # 0
             PROVE  Agree(r, s)
  BY DEF AgreeInv, Agree
<1>1. /\ \A a \in Records : a.att \in Nat /\ a.att <= minted
      /\ minted \in Nat
  BY RecordsType, MintedStep DEF RecordInv, RecordOK, Record
<1>2. CASE r.att = minted + 1
  <2>1. \A a \in Records : a.att # minted + 1
    BY <1>1
  <2>2. \A a \in Records : ~Derived(r, a) /\ ~Derived(s, a)
    BY <1>2, <2>1 DEF Derived
  <2>3. r = rec' /\ s = rec'
    BY <2>2, Ancestry
  <2> QED
    BY <2>3 DEF Agree
<1>3. CASE r.att # minted + 1
  <2>1. PICK a \in Records : Derived(r, a)
    BY <1>3, Ancestry
  <2>2. PICK b \in Records : Derived(s, b)
    BY <1>3, Ancestry
  <2>3. Agree(a, b)
    BY <2>1, <2>2 DEF Derived, AgreeInv
  <2> QED
    BY <2>1, <2>2, <2>3 DEF Derived, Agree
<1> QED
  BY <1>2, <1>3

\* begin() shows rec, which is the account's pending attempt, to the request that
\* it is bound to.
Shows ==
  /\ pc \in {"redisclose", "published", "disclose"}
  /\ known' = known \cup {[att |-> rec.att, user |-> rec.user,
                           sess |-> rec.sess, proof |-> rec.proof]}
  /\ rec.st = "pending" /\ rec.user = req.user /\ rec.sess = req.sess
  /\ rec.mode = req.mode /\ rec.proof = req.proof
  /\ rec.mode = "self" => now < rec.expires
  /\ rec' = Absent
  /\ UNCHANGED <<files, store, receipts, world, minted, faults, recov>>

\* Nothing else is ever disclosed.
LEMMA KnownStep ==
  ASSUME IInv, RecordInv, TaskInv, [Next]_vars
  PROVE  known' = known \/ Shows
<1>1. RecordOK(rec) /\ req \in Request
  BY RecordsType DEF RecordInv, IInv, TypeOK
<1>2. req.mode = requestMode(req.proof) /\ req.mode \in {"onboarding", "self"}
  BY <1>1 DEF Request, Modes
<1>3. CASE Redisclose \/ DiscloseSelf
  <2>1. rec.st = "pending" /\ rec.user = req.user
    BY <1>3 DEF Redisclose, DiscloseSelf, IInv, CurrentInv, PendingPlaces
  <2>2. /\ rec.mode = req.mode /\ rec.sess = req.sess /\ now < rec.expires
        /\ rec.mode = "self" => rec.proof = req.proof
    BY <1>3 DEF Redisclose, DiscloseSelf, checkBinding, checkExpiry,
       checkPrimaryAuthorization
  <2>3. rec.proof = req.proof
    BY <1>1, <1>2, <2>1, <2>2 DEF RecordOK, requestMode
  <2> QED
    BY <1>3, <2>1, <2>2, <2>3
    DEF Shows, Redisclose, DiscloseSelf, Disclose, Leave, NoFrame, u
<1>4. CASE Published
  <2>1. rec.st = "pending" /\ rec.user = req.user
    BY <1>4 DEF Published, IInv, CurrentInv, PendingPlaces
  <2>2. rec.mode = req.mode /\ rec.sess = req.sess /\ rec.proof = req.proof
    BY <1>4 DEF Published, TaskInv
  <2> QED
    BY <1>4, <2>1, <2>2 DEF Shows, Published, Disclose, Leave, NoFrame, u
<1>5. known' = known \/ Redisclose \/ DiscloseSelf \/ Published
  BY DEF Next, vars, client, Gate, Enter, Release, Publishing, Rename, Sync,
     IOError, Recovery, RecoverSync, RecoverApply, RecoverScanned, RecoverDone,
     Projection, ProjectFactor, ProjectCodes, ProjectFlags, Run, RecoverTwice,
     Currency, Load, Resolve, Reload, Refuse, Begin, BeginAgain, BeginNew,
     Publish, Complete, Replay, Found, Verify, Freeze, Settled, Receipt,
     Protected, Decide, UseCode, Disable, EditAccount, Outside, Tick,
     EndSession, ChangeCredential, Crash, PowerLoss, Restart
<1> QED
  BY <1>3, <1>4, <1>5

\* What was disclosed of an attempt goes on being what its records say.
LEMMA KnownInvStep ==
  ASSUME IInv, RecordInv, AgreeInv, KnownInv, TaskInv, [Next]_vars
  PROVE  KnownInv'
<1> SUFFICES ASSUME NEW d \in known'
             PROVE  /\ d.att # 0 /\ d.att <= minted'
                    /\ \A r \in Records' : r.att = d.att => Discloses(d, r)
  BY DEF KnownInv, Discloses
<1>1. /\ \A a \in Records : a.att \in Nat /\ a.att <= minted
      /\ minted \in Nat /\ minted' \in Nat /\ minted' >= minted
  BY RecordsType, MintedStep DEF RecordInv, RecordOK, Record
<1>2. d.att # 0 /\ d.att \in Nat /\ d.att <= minted
      /\ \A a \in Records : a.att = d.att => Discloses(d, a)
  <2>1. CASE d \in known
    BY <2>1 DEF KnownInv, IInv, TypeOK
  <2>2. CASE d \notin known
    <3>1. Shows
      BY <2>2, KnownStep
    <3>2. d = [att |-> rec.att, user |-> rec.user, sess |-> rec.sess,
               proof |-> rec.proof]
      BY <2>2, <3>1 DEF Shows
    <3>3. rec \in Records /\ rec.att # 0 /\ rec.st = "pending"
      BY <3>1, RecordsType DEF Shows, IInv, FiledInv
    <3>4. \A a \in Records : a.att = rec.att => Agree(a, rec)
      BY <3>3 DEF AgreeInv
    <3> QED
      BY <1>1, <3>2, <3>3, <3>4 DEF Agree, Discloses
  <2> QED
    BY <2>1, <2>2
<1>3. ASSUME NEW r \in Records', r.att = d.att
      PROVE  Discloses(d, r)
  <2>1. PICK a \in Records : Derived(r, a)
    BY <1>1, <1>2, <1>3, Ancestry
  <2> QED
    BY <1>2, <1>3, <2>1 DEF Derived, Discloses
<1> QED
  BY <1>1, <1>2, <1>3

\* Ending a request leaves nothing for it to rely on.
LEMMA LeaveTask ==
  ASSUME NoFrame, pc' \in {"idle", "held"}
  PROVE  TaskInv'
<1>1. /\ req'.kind = "auth" /\ rec'.st = "absent" /\ ret' = "idle"
      /\ caller' = "recovery"
  BY DEF NoFrame, NoRequest, Submitted, Absent
<1> QED
  BY <1>1 DEF TaskInv, At, Publishes

\* What a request relies on survives its steps and those of its surroundings.
LEMMA TaskStep ==
  ASSUME IInv, RecordInv, TaskInv, [Next]_vars
  PROVE  TaskInv'
<1>a. /\ rec.user \in Users /\ req.user \in Users
      /\ caller \in {"recovery", "complete"}
  BY DEF IInv, TypeOK, Record, Request
<1>b. known \subseteq known'
  BY KnownStep DEF Shows
<1> USE DEF Goto, At, Publishes, Claims
<1>1. CASE Gate
  <2>1. CASE Enter
    <3>1. req'.kind = "complete" => \E d \in known : d.att = req'.att
      BY <2>1 DEF Enter, Submit, Submitted
    <3>2. caller = "recovery" /\ pc' \in {"sync1", "run"}
      BY <2>1 DEF Enter, TaskInv
    <3> QED
      BY <1>b, <2>1, <3>1, <3>2 DEF Enter, TaskInv, files
  <2>2. CASE Release
    BY <2>2 DEF Release, TaskInv, files, frame, client
  <2> QED
    BY <1>1, <2>1, <2>2 DEF Gate
<1>2. CASE Publishing
  <2>1. CASE Rename
    <3>1. /\ journal'[rec.user] = rec
          /\ pc = "rename" /\ pc' = "sync" /\ UNCHANGED <<frame, known>>
      BY <1>a, <2>1 DEF Rename, Renamed, IInv, TypeOK, client
    <3> QED
      BY <3>1 DEF TaskInv, frame
  <2>2. CASE Sync
    <3>1. /\ journal' = journal /\ pc = "sync" /\ pc' = ret
          /\ UNCHANGED <<frame, known>>
      BY <2>2 DEF Sync, Synced, client
    <3>2. \/ ret = "published" /\ rec.st = "pending"
          \/ ret = "factor"
          \/ ret = "scan"
          \/ ret = "settled" /\ rec.st = "applied" /\ caller = "complete"
      BY <1>a, <3>1 DEF IInv, WriteInv
    <3> QED
      BY <3>1, <3>2 DEF TaskInv, frame
  <2>3. CASE IOError
    BY <2>3, LeaveTask DEF IOError, Leave
  <2> QED
    BY <1>2, <2>1, <2>2, <2>3 DEF Publishing
<1>3. CASE Recovery
  <2>1. CASE RecoverApply
    BY <2>1 DEF RecoverApply, TaskInv, files, client
  <2>2. CASE RecoverSync \/ RecoverScanned \/ RecoverDone
    BY <2>2 DEF RecoverSync, RecoverScanned, RecoverDone, TaskInv, frame, client
  <2> QED
    BY <1>3, <2>1, <2>2 DEF Recovery
<1>4. CASE Projection
  <2>1. CASE ProjectFactor \/ ProjectCodes
    BY <2>1 DEF ProjectFactor, ProjectCodes, TaskInv, frame, client, files
  <2>2. CASE ProjectFlags
    <3>1. /\ rec'.st = "applied" /\ rec'.user = rec.user
          /\ rec'.att = rec.att /\ rec'.sess = rec.sess
      BY <2>2 DEF ProjectFlags, IInv, TypeOK, Record
    <3> QED
      BY <2>2, <3>1 DEF ProjectFlags, Write, TaskInv, client, files
  <2> QED
    BY <1>4, <2>1, <2>2 DEF Projection
<1>5. CASE Run
  <2>1. req' = req \/ req' = [req EXCEPT !.kind = "again"]
    BY <1>5 DEF Run
  <2>2. caller = "complete" => req' = req
    BY <1>5 DEF Run, TaskInv
  <2>3. req \in Request
    BY DEF IInv, TypeOK
  <2>4. req'.kind = "complete" => req' = req
    BY <2>1, <2>3 DEF Request
  <2> QED
    BY <1>5, <2>2, <2>4 DEF Run, Call, TaskInv, client, files
<1>6. CASE RecoverTwice
  BY <1>6, LeaveTask DEF RecoverTwice, Leave
<1>7. CASE Currency
  <2>1. CASE Load \/ Resolve \/ Reload
    BY <2>1 DEF Load, Resolve, Reload, TaskInv, IInv, CurrentInv, StrictPlaces,
       files, client, frame
  <2>2. CASE Refuse
    BY <2>2, LeaveTask DEF Refuse, Leave
  <2> QED
    BY <1>7, <2>1, <2>2 DEF Currency
<1>8. CASE Begin
  <2>1. CASE BeginAgain
    <3>1. rec' = journal[req.user] /\ journal[req.user].st = "pending"
      BY <2>1 DEF BeginAgain, u
    <3>2. rec'.user = req.user
      BY <1>a, <3>1 DEF IInv, DiskInv, FiledInv
    <3>3. req.kind = "begin" /\ caller = "recovery"
      BY <1>a, <2>1 DEF BeginAgain, TaskInv
    <3> QED
      BY <2>1, <3>1, <3>2, <3>3 DEF BeginAgain, Call, TaskInv, files, client
  <2>2. CASE Redisclose \/ DiscloseSelf
    BY <2>2, LeaveTask DEF Redisclose, DiscloseSelf, Leave
  <2>3. CASE BeginNew
    <3>1. rec'.att = minted + 1 /\ minted' = minted + 1
      BY <2>3 DEF BeginNew, Pending
    <3>2. \A v \in Users : \A r \in disk[v] : r.att < minted + 1
      <4>1. ASSUME NEW v \in Users, NEW r \in disk[v]
            PROVE  r.att < minted + 1
        <5>1. r \in Records
          BY RecordsAre
        <5>2. r.att \in Nat /\ r.att <= minted /\ minted \in Nat
          BY <5>1, RecordsType DEF RecordInv, RecordOK, Record, IInv, TypeOK
        <5> QED
          BY <5>2
      <4> QED
        BY <4>1
    <3>3. req.kind = "begin" /\ caller = "recovery"
      BY <1>a, <2>3 DEF BeginNew, TaskInv
    <3>4. /\ pc' = "load" /\ ret' = "publish"
          /\ UNCHANGED <<journal, disk, req, caller, known>>
      BY <2>3 DEF BeginNew, Call, files, client
    <3> QED
      BY <3>1, <3>2, <3>3, <3>4 DEF TaskInv
  <2>4. CASE Publish
    <3>1. /\ rec.sess = req.sess /\ rec.mode = req.mode
          /\ rec.mode = "self" => rec.proof = req.proof
      BY <2>4 DEF Publish, checkBinding, checkPrimaryAuthorization
    <3>2. rec.mode = requestMode(rec.proof) /\ rec.st = "pending"
      BY <2>4, RecordsType
      DEF Publish, RecordInv, RecordOK, IInv, CurrentInv, PendingPlaces
    <3>3. req.mode = requestMode(req.proof)
      BY DEF IInv, TypeOK, Request
    <3>4. rec.proof = req.proof
      BY <3>1, <3>2, <3>3 DEF requestMode
    <3> QED
      BY <2>4, <3>1, <3>2, <3>4 DEF Publish, Write, TaskInv, files, client
  <2>5. CASE Published
    BY <2>5, LeaveTask DEF Published, Leave, Call, TaskInv, files
  <2> QED
    BY <1>8, <2>1, <2>2, <2>3, <2>4, <2>5 DEF Begin
<1>9. CASE Complete
  <2>1. CASE Replay
    <3>1. CASE req.mode = "onboarding"
      BY <2>1, <3>1, LeaveTask DEF Replay, Leave
    <3>2. CASE req.mode = "self"
      <4>1. /\ rec' = journal[req.user] /\ rec'.st = "applied"
            /\ rec'.sess = req.sess /\ rec'.att = req.att
        BY <2>1, <3>2 DEF Replay, checkBinding, u
      <4>2. rec'.user = req.user
        BY <1>a, <4>1 DEF IInv, DiskInv, FiledInv
      <4> QED
        BY <2>1, <3>2, <4>1, <4>2 DEF Replay, Call, TaskInv, files
    <3> QED
      BY <2>1, <3>1, <3>2 DEF Replay
  <2>2. CASE Found
    <3>1. /\ rec' = journal[req.user] /\ rec'.st = "pending"
          /\ rec'.sess = req.sess /\ rec'.att = req.att
      BY <2>2 DEF Found, checkBinding, u
    <3>2. rec'.user = req.user
      BY <1>a, <3>1 DEF IInv, DiskInv, FiledInv
    <3> QED
      BY <2>2, <3>1, <3>2 DEF Found, Call, TaskInv, files, client
  <2>3. CASE Verify
    BY <2>3 DEF Verify, Call, TaskInv, files, client
  <2>4. CASE Freeze
    <3>1. /\ rec'.st = "committed" /\ rec'.user = rec.user
          /\ rec'.att = rec.att /\ rec'.sess = rec.sess
      BY <2>4 DEF Freeze, IInv, TypeOK, Record
    <3>2. journal[rec.user] = rec /\ rec.st = "pending" /\ Claims
      BY <2>4 DEF Freeze, TaskInv, IInv, CurrentInv, PendingPlaces
    <3>3. pc' = "rename" /\ UNCHANGED <<journal, req, known>>
      BY <2>4 DEF Freeze, Write, files, client
    <3> QED
      BY <3>1, <3>2, <3>3 DEF TaskInv
  <2>5. CASE Settled
    <3>1. CASE req.mode = "onboarding"
      BY <2>5, <3>1, LeaveTask DEF Settled, Leave
    <3>2. CASE req.mode = "self"
      <4>1. caller = "complete"
        BY <2>5 DEF Settled, IInv, CompleteInv
      <4> QED
        BY <2>5, <3>2, <4>1 DEF Settled, Call, TaskInv, files
    <3> QED
      BY <2>5, <3>1, <3>2 DEF Settled
  <2>6. CASE Receipt
    BY <2>6, LeaveTask DEF Receipt, Leave
  <2> QED
    BY <1>9, <2>1, <2>2, <2>3, <2>4, <2>5, <2>6 DEF Complete
<1>10. CASE Protected
  BY <1>10, LeaveTask DEF Protected, Decide, UseCode, Disable, EditAccount, Leave
<1>11. CASE Outside
  <2>1. CASE Tick \/ EndSession \/ ChangeCredential
    BY <2>1 DEF Tick, EndSession, ChangeCredential, TaskInv, files, client, frame
  <2>2. CASE Crash \/ PowerLoss
    BY <2>2, LeaveTask DEF Crash, PowerLoss, Restart
  <2> QED
    BY <1>11, <2>1, <2>2 DEF Outside
<1>12. CASE UNCHANGED vars
  BY <1>12 DEF vars, TaskInv, files, client, frame
<1> QED
  BY <1>1, <1>2, <1>3, <1>4, <1>5, <1>6, <1>7, <1>8, <1>9, <1>10, <1>11, <1>12
  DEF Next

\* Actions that change neither files nor recoveryRequired for the better leave
\* what SettledInv says; a sync or a settled completion establishes it.
LEMMA SettledStep ==
  ASSUME IInv, SettledInv, [Next]_vars
  PROVE  SettledInv'
<1> USE DEF Goto
<1>1. CASE Rename
  <2>1. /\ journal'[rec.user] = rec
        /\ \A v \in Users \ {rec.user} : UNCHANGED <<journal[v], disk[v]>>
        /\ pc = "rename" /\ pc' = "sync" /\ UNCHANGED recov
    BY <1>1 DEF Rename, Renamed, IInv, TypeOK, Record
  <2>2. ~recov => rec.st = "pending"
    BY <2>1 DEF IInv, WriteInv
  <2> QED
    BY <2>1, <2>2 DEF SettledInv
<1>2. CASE Sync \/ RecoverSync \/ RecoverDone
  BY <1>2 DEF Sync, RecoverSync, RecoverDone, Synced, SettledInv
<1>3. CASE PowerLoss
  BY <1>3 DEF PowerLoss, SettledInv
<1>4. CASE UNCHANGED files /\ (~recov' \/ pc' = "settled" => ~recov \/ pc = "settled")
  BY <1>4 DEF SettledInv, files
<1>5. CASE IOError \/ RecoverTwice \/ Refuse \/ Protected
  BY <1>4, <1>5 DEF IOError, RecoverTwice, Refuse, Protected, Decide, UseCode,
     Disable, EditAccount, Leave
<1>6. CASE Gate \/ RecoverApply \/ RecoverScanned \/ Projection \/ Run
  BY <1>4, <1>6 DEF Gate, Enter, Release, RecoverApply, RecoverScanned,
     Projection, ProjectFactor, ProjectCodes, ProjectFlags, Write, Run, Call
<1>7. CASE Load \/ Resolve \/ Reload
  <2>1. pc \in {"load", "resolve", "reload"} /\ pc' \in {"resolve", "reload", ret}
        /\ UNCHANGED <<files, recov>>
    BY <1>7 DEF Load, Resolve, Reload
  <2>2. pc' # "settled"
    BY <2>1 DEF IInv, CurrentInv, StrictPlaces
  <2> QED
    BY <1>4, <2>1, <2>2
<1>8. CASE Begin
  BY <1>4, <1>8 DEF Begin, BeginAgain, Redisclose, BeginNew, Publish, Published,
     DiscloseSelf, Leave, Call, Write
<1>9. CASE Complete
  BY <1>4, <1>9 DEF Complete, Replay, Found, Verify, Freeze, Settled, Receipt,
     Leave, Call, Write
<1>10. CASE Tick \/ EndSession \/ ChangeCredential \/ Crash \/ UNCHANGED vars
  BY <1>4, <1>10 DEF Tick, EndSession, ChangeCredential, Crash, Restart, vars
<1> QED
  BY <1>1, <1>2, <1>3, <1>5, <1>6, <1>7, <1>8, <1>9, <1>10
  DEF Next, Publishing, Recovery, Currency, Outside

\* When an operation runs, an account with a factor or codes has its receipt on
\* disk.
LEMMA EnrolledOnDisk ==
  ASSUME IInv, SettledInv, pc = "run", NEW v \in Users,
         factor[v] # 0 \/ codes[v] # 0
  PROVE  disk[v] = {journal[v]} /\ journal[v].st = "applied"
         /\ journal[v].att = factor[v] /\ factor[v] = codes[v] /\ factor[v] # 0
<1>1. ~recov /\ journal[v].st # "committed" /\ journal[v] \in disk[v]
  BY DEF IInv, RecoveryInv, OperationPlaces, NoneCommitted, DiskInv
<1>2. factor[v] = codes[v] /\ factor[v] # 0
  BY <1>1 DEF IInv, ConsistentInv, Consistent
<1>3. journal[v].att = factor[v] /\ journal[v].st \in {"committed", "applied"}
  BY <1>1, <1>2 DEF IInv, NoProjectionBeforeCommit
<1> QED
  BY <1>1, <1>2, <1>3 DEF SettledInv

\* No record of a disabled attempt ever becomes anything but a receipt.
LEMMA RetiredStep ==
  ASSUME IInv, RecordInv, AgreeInv, RetiredInv, SettledInv, [Next]_vars
  PROVE  RetiredInv'
<1>1. minted \in Nat /\ minted' \in Nat /\ minted' >= minted /\ retired \subseteq Nat
  BY MintedStep DEF IInv, TypeOK
<1>2. ASSUME NEW a \in retired
      PROVE  /\ a # 0 /\ a <= minted'
             /\ \A r \in Records' : r.att = a => r.st = "applied"
  <2>1. a # 0 /\ a <= minted /\ a \in Nat
    BY <1>1 DEF RetiredInv
  <2>2. ASSUME NEW r \in Records', r.att = a
        PROVE  r.st = "applied"
    <3>1. r.att # 0 /\ r.att # minted + 1
      BY <1>1, <2>1, <2>2
    <3>2. PICK b \in Records : Derived(r, b)
      BY <3>1, Ancestry
    <3> QED
      BY <2>2, <3>2 DEF Derived, RetiredInv
  <2> QED
    BY <1>1, <2>1, <2>2
<1>3. CASE Disable
  <2> DEFINE a == factor[req.user]
             j == journal[req.user]
  <2>1. /\ pc = "run" /\ acct[req.user].totp /\ retired' = retired \cup {a}
        /\ UNCHANGED files /\ rec' = Absent /\ req.user \in Users
    BY <1>3 DEF Disable, Ready, Leave, NoFrame, u, IInv, TypeOK, Request
  <2>2. a # 0
    BY <2>1 DEF IInv, RecoveryInv, OperationPlaces, NoneCommitted, DiskInv,
       ConsistentInv, Consistent
  <2>3. disk[req.user] = {j} /\ j.st = "applied" /\ j.att = a
    BY <2>1, <2>2, EnrolledOnDisk
  <2>4. j \in Records /\ j.att <= minted /\ j.user = req.user
    BY <2>1, <2>3, RecordsType DEF RecordInv, RecordOK, IInv, FiledInv
  <2>5. ASSUME NEW r \in Records', r.att = a
        PROVE  r.st = "applied"
    <3>1. r # Absent
      BY <2>2, <2>5 DEF Absent
    <3>2. PICK w \in Users : r \in disk[w]
      BY <2>1, <3>1, RecordsAre DEF files
    <3>3. r \in Records /\ r.st # "absent"
      BY <2>2, <2>5, <3>2, RecordsAre DEF RecordInv, RecordOK
    <3>4. r.user = j.user
      BY <2>2, <2>3, <2>4, <2>5, <3>3 DEF AgreeInv, Agree
    <3>5. w = req.user
      BY <2>4, <3>2, <3>3, <3>4 DEF IInv, FiledInv
    <3> QED
      BY <2>3, <3>2, <3>5
  <2>6. a <= minted'
    BY <1>1, <2>1, <2>3, <2>4 DEF IInv, TypeOK
  <2> HIDE DEF a
  <2> QED
    BY <1>2, <2>1, <2>2, <2>5, <2>6 DEF RetiredInv
<1>4. retired' = retired \/ Disable
  BY DEF Next, vars, store, Gate, Enter, Release, Publishing, Rename, Sync,
     IOError, Recovery, RecoverSync, RecoverApply, RecoverScanned, RecoverDone,
     Projection, ProjectFactor, ProjectCodes, ProjectFlags, Run, RecoverTwice,
     Currency, Load, Resolve, Reload, Refuse, Begin, BeginAgain, Redisclose,
     BeginNew, Publish, Published, DiscloseSelf, Complete, Replay, Found,
     Verify, Freeze, Settled, Receipt, Protected, Decide, UseCode, EditAccount,
     Outside, Tick, EndSession, ChangeCredential, Crash, PowerLoss, Restart
<1> QED
  BY <1>2, <1>3, <1>4 DEF RetiredInv

\* Stored codes and their used flags change in three ways only.
LEMMA UsedChanges ==
  ASSUME IInv, [Next]_vars
  PROVE  UNCHANGED <<codes, used>> \/ ProjectCodes \/ UseCode \/ Disable
  BY DEF Next, vars, store, Gate, Enter, Release, Publishing, Rename, Sync,
     IOError, Recovery, RecoverSync, RecoverApply, RecoverScanned, RecoverDone,
     Projection, ProjectFactor, ProjectFlags, Run, RecoverTwice,
     Currency, Load, Resolve, Reload, Refuse, Begin, BeginAgain, Redisclose,
     BeginNew, Publish, Published, DiscloseSelf, Complete, Replay, Found,
     Verify, Freeze, Settled, Receipt, Protected, Decide, EditAccount,
     Outside, Tick, EndSession, ChangeCredential, Crash, PowerLoss, Restart

\* A projection finds no used code in the set it stores.
LEMMA ProjectsUnused ==
  ASSUME IInv, UsedInv, ProjectCodes
  PROVE  ~used[rec.user]
<1>1. rec.user \in Users /\ rec \in disk[rec.user] /\ rec.st = "committed"
  BY DEF ProjectCodes, IInv, ApplyInv, TypeOK, Record
<1> QED
  BY <1>1 DEF UsedInv

\* Codes go on being used only of an enrollment whose receipt is on disk.
LEMMA UsedStep ==
  ASSUME IInv, UsedInv, SettledInv, [Next]_vars
  PROVE  UsedInv'
<1>a. rec.user \in Users /\ req.user \in Users
  BY DEF IInv, TypeOK, Record, Request
<1>1. CASE UNCHANGED <<codes, used>>
  <2> SUFFICES ASSUME NEW v \in Users, used[v], NEW r \in disk'[v]
               PROVE  codes[v] # 0 /\ r.st = "applied"
    <3>1. \A v \in Users : used[v] => codes[v] # 0
      BY DEF UsedInv
    <3> QED
      BY <1>1, <3>1 DEF UsedInv
  <2>1. codes[v] # 0 /\ \A s \in disk[v] : s.st = "applied"
    BY DEF UsedInv
  <2>2. CASE Rename /\ r = rec /\ v = rec.user
    BY <2>1, <2>2 DEF Rename, IInv, WriteInv, Bare
  <2> QED
    BY <2>1, <2>2, DiskStep
<1>2. CASE ProjectCodes
  <2>1. ~used[rec.user]
    BY <1>2, ProjectsUnused
  <2>2. \A v \in Users : /\ used'[v] => used[v]
                         /\ v # rec.user => codes'[v] = codes[v]
    BY <1>2 DEF ProjectCodes, IInv, TypeOK
  <2>3. disk' = disk
    BY <1>2 DEF ProjectCodes, files
  <2> QED
    BY <2>1, <2>2, <2>3 DEF UsedInv
<1>3. CASE UseCode
  <2>1. /\ pc = "run" /\ codes[req.user] # 0 /\ UNCHANGED <<disk, codes>>
        /\ \A v \in Users \ {req.user} : used'[v] = used[v]
    BY <1>3 DEF UseCode, Ready, files, u, IInv, TypeOK
  <2>2. \A r \in disk[req.user] : r.st = "applied"
    BY <1>a, <2>1, EnrolledOnDisk
  <2> QED
    BY <2>1, <2>2 DEF UsedInv
<1>4. CASE Disable
  <2>1. /\ UNCHANGED disk /\ ~used'[req.user]
        /\ \A v \in Users \ {req.user} : used'[v] = used[v] /\ codes'[v] = codes[v]
    BY <1>4, <1>a DEF Disable, files, u, IInv, TypeOK
  <2> QED
    BY <2>1 DEF UsedInv
<1> QED
  BY <1>1, <1>2, <1>3, <1>4, UsedChanges

\* complete() acknowledges the account's attempt to the request that named it,
\* once its receipt is on disk.
Answers ==
  LET r == journal[req.user]
  IN /\ req.kind = "complete" /\ r.att = req.att /\ r.sess = req.sess
     /\ r.st = "applied" /\ r.user = req.user /\ disk[req.user] = {r}
     /\ receipts' = receipts \cup
          {[att |-> req.att, user |-> req.user, sess |-> req.sess]}
     /\ UNCHANGED <<files, known>>

\* Nothing else is ever acknowledged.
LEMMA ReceiptStep ==
  ASSUME IInv, TaskInv, SettledInv, [Next]_vars
  PROVE  receipts' = receipts \/ Answers
<1>a. rec.user \in Users /\ req.user \in Users
  BY DEF IInv, TypeOK, Record, Request
<1>1. CASE Replay
  <2>1. /\ journal[req.user].st = "applied" /\ journal[req.user].att = req.att
        /\ journal[req.user].sess = req.sess
        /\ UNCHANGED <<files, known>> /\ pc = "found"
        /\ receipts' = receipts \/ Acknowledge(journal[req.user])
    BY <1>1 DEF Replay, checkBinding, u
  <2>2. req.kind = "complete" /\ ~recov
    BY <2>1 DEF TaskInv, At, IInv, RecoveryInv, OperationPlaces
  <2>3. /\ journal[req.user].user = req.user
        /\ disk[req.user] = {journal[req.user]}
    BY <1>a, <2>1, <2>2 DEF SettledInv, IInv, FiledInv
  <2> QED
    BY <2>1, <2>2, <2>3 DEF Answers, Acknowledge, u
<1>2. CASE Settled \/ Receipt
  <2>1. /\ UNCHANGED <<files, known>> /\ pc \in {"settled", "receipt"}
        /\ receipts' = receipts \/ Acknowledge(rec)
    BY <1>2 DEF Settled, Receipt
  <2>2. journal[rec.user] = rec /\ rec.st = "applied"
    BY <2>1 DEF TaskInv, At
  <2>3. Claims
    BY <2>1 DEF TaskInv, At, IInv, CompleteInv
  <2>4. ~recov \/ pc = "settled"
    BY <2>1 DEF IInv, RecoveryInv, OperationPlaces
  <2>5. disk[rec.user] = {rec}
    BY <1>a, <2>2, <2>4 DEF SettledInv
  <2> QED
    BY <2>1, <2>2, <2>3, <2>5 DEF Answers, Acknowledge, Claims, u
<1>3. receipts' = receipts \/ Replay \/ Settled \/ Receipt
  BY DEF Next, vars, client, Gate, Enter, Release, Publishing, Rename, Sync,
     IOError, Recovery, RecoverSync, RecoverApply, RecoverScanned, RecoverDone,
     Projection, ProjectFactor, ProjectCodes, ProjectFlags, Run, RecoverTwice,
     Currency, Load, Resolve, Reload, Refuse, Begin, BeginAgain, Redisclose,
     BeginNew, Publish, Published, DiscloseSelf, Complete, Found, Verify,
     Freeze, Protected, Decide, UseCode, Disable, EditAccount, Outside, Tick,
     EndSession, ChangeCredential, Crash, PowerLoss, Restart
<1> QED
  BY <1>1, <1>2, <1>3

\* An attempt stays in the custody of the session it was shown to.
LEMMA CustodyStep ==
  ASSUME IInv, RecordInv, KnownInv, TaskInv, SettledInv, AttemptCustody,
         [Next]_vars
  PROVE  AttemptCustody'
<1>1. known \subseteq known'
  BY KnownStep DEF Shows
<1>2. ASSUME NEW d \in known', NEW e \in known, d.att = e.att
      PROVE  d = e
  <2>1. CASE d \in known
    BY <1>2, <2>1 DEF AttemptCustody
  <2>2. CASE d \notin known
    <3>1. Shows
      BY <2>2, KnownStep
    <3>2. d = [att |-> rec.att, user |-> rec.user, sess |-> rec.sess,
               proof |-> rec.proof]
      BY <2>2, <3>1 DEF Shows
    <3>3. Discloses(e, rec) /\ rec.st = "pending"
      BY <1>2, <3>1, <3>2, RecordsType DEF KnownInv, Shows
    <3>4. e \in [att : Nat, user : Users, sess : Sessions \cup {Nobody},
                 proof : Proofs \cup {NoProof}]
      BY DEF IInv, TypeOK
    <3> QED
      BY <1>2, <3>2, <3>3, <3>4 DEF Discloses
  <2> QED
    BY <2>1, <2>2
<1>3. ASSUME NEW d \in known', NEW e \in known', d.att = e.att
      PROVE  d = e
  <2>1. CASE d \in known \/ e \in known
    BY <1>2, <1>3, <2>1
  <2>2. CASE d \notin known /\ e \notin known
    BY <2>2, KnownStep DEF Shows
  <2> QED
    BY <2>1, <2>2
<1>4. ASSUME NEW c \in receipts'
      PROVE  \E d \in known' :
               d.att = c.att /\ d.user = c.user /\ d.sess = c.sess
  <2>1. CASE c \in receipts
    BY <1>1, <2>1 DEF AttemptCustody
  <2>2. CASE c \notin receipts
    <3>1. Answers
      BY <2>2, ReceiptStep
    <3>2. /\ c = [att |-> req.att, user |-> req.user, sess |-> req.sess]
          /\ req.kind = "complete" /\ known' = known
      BY <2>2, <3>1 DEF Answers
    <3>3. PICK d \in known : d.att = req.att
      BY <3>2 DEF TaskInv
    <3>4. journal[req.user] \in Records
      BY RecordsType DEF IInv, TypeOK, Request
    <3>5. Discloses(d, journal[req.user])
      BY <3>1, <3>3, <3>4 DEF KnownInv, Answers
    <3> QED
      BY <3>1, <3>2, <3>3, <3>5 DEF Answers, Discloses
  <2> QED
    BY <2>1, <2>2
<1> QED
  BY <1>3, <1>4 DEF AttemptCustody

\* The record a rename publishes is at least as new as every attempt that a file
\* it replaces names, and stands where the file's attempt had come to.
LEMMA RenamesForward ==
  ASSUME IInv, RecordInv, TaskInv, Rename, NEW n \in Nat,
         \A r \in disk[rec.user] : r.att > n \/ (r.att = n /\ r.st = "applied")
  PROVE  rec.att > n \/ (rec.att = n /\ rec.st = "applied")
<1> DEFINE j == journal[rec.user]
<1>1. rec.user \in Users /\ pc = "rename"
  BY DEF IInv, TypeOK, Record, Rename
<1>2. j \in disk[rec.user] /\ j.att \in Nat /\ rec.att \in Nat /\ minted \in Nat
  BY <1>1 DEF IInv, DiskInv, TypeOK, Record
<1>3. CASE rec.st = "pending"
  BY <1>1, <1>2, <1>3 DEF TaskInv
<1>4. CASE rec.st = "committed"
  BY <1>1, <1>2, <1>4 DEF TaskInv
<1>5. CASE rec.st = "applied" /\ \A r \in disk[rec.user] : r.att = rec.att
  BY <1>2, <1>5
<1> QED
  BY <1>1, <1>3, <1>4, <1>5 DEF IInv, WriteInv

\* An acknowledged completion stays on disk until a later attempt replaces it.
LEMMA AckStep ==
  ASSUME IInv, RecordInv, TaskInv, SettledInv, AckDurable, [Next]_vars
  PROVE  AckDurable'
<1> SUFFICES ASSUME NEW c \in receipts', NEW r \in disk'[c.user]
             PROVE  r.att > c.att \/ (r.att = c.att /\ r.st = "applied")
  BY DEF AckDurable
<1>1. CASE c \in receipts
  <2>1. c.user \in Users /\ c.att \in Nat
    BY <1>1 DEF IInv, TypeOK
  <2>2. \A s \in disk[c.user] : s.att > c.att \/ (s.att = c.att /\ s.st = "applied")
    BY <1>1 DEF AckDurable
  <2>3. CASE Rename /\ r = rec /\ c.user = rec.user
    BY <2>1, <2>2, <2>3, RenamesForward
  <2> QED
    BY <2>1, <2>2, <2>3, DiskStep
<1>2. CASE c \notin receipts
  <2>1. Answers
    BY <1>2, ReceiptStep
  <2>2. c = [att |-> req.att, user |-> req.user, sess |-> req.sess]
    BY <1>2, <2>1 DEF Answers
  <2> QED
    BY <2>1, <2>2 DEF Answers, files
<1> QED
  BY <1>1, <1>2

\* Who may hold a proof: its session, and through it one account.
LEMMA HolderStep ==
  ASSUME IInv, RecordInv, TaskInv, AuthorityInv, [Next]_vars
  PROVE  \A d \in known' : d.proof # NoProof =>
           d.sess = Authorization[d.proof].sess /\ d.user = Owner[d.sess]
<1> SUFFICES ASSUME NEW d \in known', d.proof # NoProof
             PROVE  d.sess = Authorization[d.proof].sess /\ d.user = Owner[d.sess]
  OBVIOUS
<1>1. CASE d \in known
  BY <1>1 DEF AuthorityInv
<1>2. CASE d \notin known
  <2>1. Shows
    BY <1>2, KnownStep
  <2>2. /\ d.proof = req.proof /\ d.sess = req.sess /\ d.user = req.user
        /\ pc \in {"redisclose", "published", "disclose"}
    BY <1>2, <2>1 DEF Shows
  <2>3. req.mode = "self"
    BY <2>2 DEF IInv, TypeOK, Request, requestMode
  <2>4. Authorization[req.proof].sess = req.sess /\ Owner[req.sess] = req.user
    BY <2>2, <2>3 DEF AuthorityInv, StrictPlaces
  <2> QED
    BY <2>2, <2>4
<1> QED
  BY <1>1, <1>2

\* What current() has established of principal, session, proof and credential
\* holds until the request leaves the places that rely on it.
LEMMA AuthorityStep ==
  ASSUME IInv, RecordInv, TaskInv, AuthorityInv, [Next]_vars
  PROVE  AuthorityInv'
<1>a. \A d \in known' : d.proof # NoProof =>
        d.sess = Authorization[d.proof].sess /\ d.user = Owner[d.sess]
  BY HolderStep
<1>b. /\ req.user \in Users /\ req.mode = requestMode(req.proof)
      /\ \A v \in Users : acct[v].cred \in Nat
  BY DEF IInv, TypeOK, Request, Account
<1> USE DEF Goto, Publishes, StrictPlaces
<1>1. ASSUME NoFrame, pc' \in {"idle", "held"}
      PROVE  AuthorityInv'
  BY <1>a, <1>1 DEF AuthorityInv
<1>2. CASE Enter \/ Release \/ Recovery \/ Run
  BY <1>a, <1>2 DEF Enter, Release, Recovery, RecoverSync, RecoverApply,
     RecoverScanned, RecoverDone, Run, Call, AuthorityInv
<1>3. CASE Rename
  BY <1>a, <1>3 DEF Rename, AuthorityInv, frame, store
<1>4. CASE Sync
  <2>1. ret = "published" => rec.st = "pending"
    BY <1>4 DEF Sync, IInv, WriteInv
  <2>2. ret \in {"published", "factor", "scan", "settled"}
    BY <1>4 DEF Sync, IInv, WriteInv, TypeOK
  <2> QED
    BY <1>a, <1>4, <2>1, <2>2 DEF Sync, AuthorityInv, frame, store
<1>5. CASE Projection
  <2>1. CASE ProjectFactor \/ ProjectCodes
    BY <1>a, <2>1 DEF ProjectFactor, ProjectCodes, AuthorityInv
  <2>2. CASE ProjectFlags
    <3>1. rec'.st = "applied" /\ pc' = "rename"
      BY <2>2 DEF ProjectFlags, Write, IInv, TypeOK, Record
    <3> QED
      BY <1>a, <3>1 DEF AuthorityInv
  <2> QED
    BY <1>5, <2>1, <2>2 DEF Projection
<1>6. CASE Load
  <2>1. Owner[req.sess] = req.user /\ UNCHANGED <<req, rec, ret, acct>>
    BY <1>6 DEF Load, Principal, u, store
  <2>2. snap'.cred = acct[req.user].cred /\ acct[req.user].cred \in Nat
    BY <1>6, <1>b DEF Load, u
  <2>3. \/ pc' = "resolve" /\ req.mode = "self"
        \/ pc' = ret /\ (strict => req.mode # "self")
    BY <1>6 DEF Load, Resolving
  <2>4. IF strict THEN ret \in StrictPlaces ELSE ret \in {"found", "receipt"}
    BY <1>6 DEF Load, IInv, CurrentInv
  <2> QED
    BY <1>a, <2>1, <2>2, <2>3, <2>4 DEF AuthorityInv, u
<1>7. CASE Resolve
  BY <1>7, <1>a, <1>b DEF Resolve, AuthorityInv, u, frame, store
<1>8. CASE Reload
  <2>1. pc' = ret /\ UNCHANGED <<req, rec>> /\ pc = "reload" /\ ret \in StrictPlaces
    BY <1>8 DEF Reload, frame, IInv, CurrentInv
  <2> QED
    BY <1>a, <2>1 DEF AuthorityInv
<1>9. CASE BeginAgain \/ BeginNew
  BY <1>a, <1>9 DEF BeginAgain, BeginNew, Call, AuthorityInv
<1>10. CASE Publish
  BY <1>a, <1>10 DEF Publish, Write, AuthorityInv
<1>11. CASE Published
  BY <1>1, <1>a, <1>11 DEF Published, Leave, Call, AuthorityInv
<1>12. CASE Replay \/ Found \/ Verify \/ Settled
  BY <1>1, <1>a, <1>12 DEF Replay, Found, Verify, Settled, Leave, Call, AuthorityInv
<1>13. CASE Freeze
  <2>1. rec'.st = "committed" /\ pc' = "rename"
    BY <1>13 DEF Freeze, Write, IInv, TypeOK, Record
  <2> QED
    BY <1>a, <2>1 DEF AuthorityInv
<1>14. CASE IOError \/ RecoverTwice \/ Refuse \/ Redisclose \/ DiscloseSelf
            \/ Receipt \/ Protected
  BY <1>1, <1>14 DEF IOError, RecoverTwice, Refuse, Redisclose, DiscloseSelf,
     Receipt, Protected, Decide, UseCode, Disable, EditAccount, Leave
<1>15. CASE Tick \/ EndSession \/ UNCHANGED vars
  BY <1>15, <1>a DEF Tick, EndSession, vars, frame, store, AuthorityInv, u
<1>16. CASE ChangeCredential
  <2>1. \A v \in Users : acct'[v].cred \in Nat /\ acct'[v].cred >= acct[v].cred
    BY <1>16, <1>b DEF ChangeCredential, IInv, TypeOK, Account
  <2>2. UNCHANGED <<req, rec, pc, snap>>
    BY <1>16 DEF ChangeCredential, frame
  <2>3. snap.cred \in Nat
    BY DEF IInv, TypeOK
  <2>4. pc \in {"resolve", "reload"} => snap.cred <= acct'[req.user].cred
    BY <1>b, <2>1, <2>3 DEF AuthorityInv, u
  <2>5. pc = "reload" => Authorization[req.proof].cred <= acct'[req.user].cred
    <3>1. ASSUME pc = "reload"
          PROVE  Authorization[req.proof].cred \in Nat
      <4>1. req.proof \in Proofs
        BY <3>1 DEF AuthorityInv, IInv, TypeOK, Request, requestMode
      <4> QED
        BY <4>1, AuthorizationAssumption
    <3> QED
      BY <1>b, <2>1, <3>1 DEF AuthorityInv, u
  <2> QED
    BY <1>a, <2>2, <2>4, <2>5 DEF AuthorityInv, u
<1>17. CASE Crash \/ PowerLoss
  BY <1>1, <1>17 DEF Crash, PowerLoss, Restart
<1> QED
  BY <1>2, <1>3, <1>4, <1>5, <1>6, <1>7, <1>8, <1>9, <1>10, <1>11, <1>12, <1>13,
     <1>14, <1>15, <1>16, <1>17
  DEF Next, Gate, Publishing, Currency, Begin, Complete, Outside

\* The clock does not go back.
LEMMA NowStep ==
  ASSUME IInv, [Next]_vars
  PROVE  now \in Nat /\ now' \in Nat /\ now' >= now
<1>1. now' = now \/ Tick
  BY DEF Next, vars, world, Gate, Enter, Release, Publishing, Rename, Sync,
     IOError, Recovery, RecoverSync, RecoverApply, RecoverScanned, RecoverDone,
     Projection, ProjectFactor, ProjectCodes, ProjectFlags, Run, RecoverTwice,
     Currency, Load, Resolve, Reload, Refuse, Begin, BeginAgain, Redisclose,
     BeginNew, Publish, Published, DiscloseSelf, Complete, Replay, Found,
     Verify, Freeze, Settled, Receipt, Protected, Decide, UseCode, Disable,
     EditAccount, Outside, EndSession, ChangeCredential, Crash, PowerLoss,
     Restart
<1>2. now \in Nat
  BY DEF IInv, TypeOK
<1> QED
  BY <1>1, <1>2 DEF Tick

\* Unless the gate is held across calls, an operation starts after recovery's last
\* sync and meets a rename only with the sync that follows it.
LEMMA SyncedStep ==
  ASSUME ~Nested, IInv, SyncedInv, [Next]_vars
  PROVE  SyncedInv'
<1> USE DEF Goto, OperationPlaces, PendingPlaces
<1>1. CASE Sync \/ RecoverDone
  <2>1. \A v \in Users : disk'[v] = {journal'[v]}
    BY <1>1 DEF Sync, RecoverDone, Synced
  <2>2. pc' # "held"
    BY <1>1 DEF Sync, RecoverDone, IInv, WriteInv
  <2> QED
    BY <2>1, <2>2 DEF SyncedInv
<1>2. CASE pc' \notin OperationPlaces \cup {"settled", "held"}
  BY <1>2 DEF SyncedInv
<1>3. CASE /\ UNCHANGED files /\ pc \in OperationPlaces \cup {"settled"}
           /\ pc' # "held"
  BY <1>3 DEF SyncedInv, files
<1>4. CASE Gate \/ Rename \/ RecoverSync \/ RecoverApply \/ RecoverScanned
           \/ Projection
  BY <1>2, <1>4 DEF Gate, Enter, Release, Rename, RecoverSync, RecoverApply,
     RecoverScanned, Projection, ProjectFactor, ProjectCodes, ProjectFlags,
     Write, SyncedInv
<1>5. CASE IOError \/ RecoverTwice \/ Refuse \/ Protected \/ Crash \/ PowerLoss
  BY <1>2, <1>5 DEF IOError, RecoverTwice, Refuse, Protected, Decide, UseCode,
     Disable, EditAccount, Crash, PowerLoss, Restart, Leave
<1>6. CASE Run
  BY <1>2, <1>3, <1>6 DEF Run, Call
<1>7. CASE Load \/ Resolve \/ Reload
  <2>1. pc \in {"load", "resolve", "reload"} /\ pc' \in {"resolve", "reload", ret}
        /\ UNCHANGED files
    BY <1>7 DEF Load, Resolve, Reload
  <2>2. pc' # "held"
    BY <2>1 DEF IInv, CurrentInv, StrictPlaces
  <2> QED
    BY <1>3, <2>1, <2>2
<1>8. CASE Begin
  BY <1>2, <1>3, <1>8 DEF Begin, BeginAgain, Redisclose, BeginNew, Publish,
     Published, DiscloseSelf, Leave, Call, Write
<1>9. CASE Complete
  BY <1>2, <1>3, <1>9 DEF Complete, Replay, Found, Verify, Freeze, Settled,
     Receipt, Leave, Call, Write
<1>10. CASE Tick \/ EndSession \/ ChangeCredential \/ UNCHANGED vars
  BY <1>10 DEF Tick, EndSession, ChangeCredential, vars, files, SyncedInv
<1> QED
  BY <1>1, <1>4, <1>5, <1>6, <1>7, <1>8, <1>9, <1>10
  DEF Next, Publishing, Recovery, Currency, Outside

\* A draft is the draft of the step before, or BeginNew's.
LEMMA DraftStep ==
  ASSUME IInv, [Next]_vars, Draft'
  PROVE  (Draft /\ rec' = rec) \/ BeginNew
<1> USE DEF Goto, Draft, At
<1>1. ASSUME NoFrame, pc' \in {"idle", "held"}
      PROVE  FALSE
  BY <1>1
<1>2. CASE Gate \/ Recovery \/ Run \/ Rename
  BY <1>2 DEF Gate, Enter, Release, Recovery, RecoverSync, RecoverApply,
     RecoverScanned, RecoverDone, Run, Call, Rename
<1>3. CASE Sync
  BY <1>3 DEF Sync, IInv, WriteInv
<1>4. CASE Projection \/ Freeze
  <2>1. (ProjectFlags \/ Freeze) => rec'.st # "pending" /\ pc' = "rename"
    BY DEF ProjectFlags, Freeze, Write, IInv, TypeOK, Record
  <2> QED
    BY <1>4, <2>1 DEF Projection, ProjectFactor, ProjectCodes
<1>5. CASE Load \/ Resolve \/ Reload
  BY <1>5 DEF Load, Resolve, Reload, IInv, CurrentInv, StrictPlaces, frame
<1>6. CASE Publish
  BY <1>6 DEF Publish
<1>7. CASE BeginAgain \/ Published \/ Replay \/ Found \/ Verify \/ Settled
  BY <1>1, <1>7 DEF BeginAgain, Published, Replay, Found, Verify, Settled, Call,
     Leave
<1>8. CASE IOError \/ RecoverTwice \/ Refuse \/ Redisclose \/ DiscloseSelf
           \/ Receipt \/ Protected \/ Crash \/ PowerLoss
  BY <1>1, <1>8 DEF IOError, RecoverTwice, Refuse, Redisclose, DiscloseSelf,
     Receipt, Protected, Decide, UseCode, Disable, EditAccount, Crash, PowerLoss,
     Restart, Leave
<1>9. CASE Tick \/ EndSession \/ ChangeCredential \/ UNCHANGED vars
  BY <1>9 DEF Tick, EndSession, ChangeCredential, vars, frame
<1> QED
  BY <1>2, <1>3, <1>4, <1>5, <1>6, <1>7, <1>8, <1>9
  DEF Next, Publishing, Currency, Begin, Complete, Outside

\* A pending self-enrollment carries its own binding and ends with its proof.
LEMMA OwnBinding ==
  ASSUME NEW r \in Record, RecordOK(r), r.st = "pending", r.mode = "self"
  PROVE  /\ [proof |-> r.proof, att |-> r.att] \in r.uses
         /\ r.expires <= Authorization[r.proof].expires
<1>1. PICK b \in r.uses : b.att = r.att
  BY DEF RecordOK, parseRecord, validatePrimaryUses
<1>2. b.proof = r.proof /\ r.expires <= Authorization[b.proof].expires
  BY <1>1 DEF RecordOK, parseRecord
<1>3. b = [proof |-> b.proof, att |-> b.att]
  BY DEF Record, Uses
<1> QED
  BY <1>1, <1>2, <1>3

\* The record that is written over a file has that file's bindings, unless it is
\* a new attempt's.
LEMMA RenamesBindings ==
  ASSUME IInv, RecordInv, AgreeInv, TaskInv, Rename, rec.st # "pending"
  PROVE  /\ rec.uses = journal[rec.user].uses /\ rec.att = journal[rec.user].att
         /\ journal[rec.user] \in disk[rec.user]
<1> DEFINE j == journal[rec.user]
<1>1. rec.user \in Users /\ pc = "rename" /\ rec.st # "absent"
  BY DEF IInv, TypeOK, Record, Rename, WriteInv
<1>2. j \in disk[rec.user] /\ j \in Records /\ rec \in Records /\ rec.att # 0
  BY <1>1, RecordsType DEF IInv, DiskInv, FiledInv
<1>3. j.att = rec.att
  BY <1>1, <1>2 DEF IInv, WriteInv, TaskInv
<1> QED
  BY <1>2, <1>3 DEF AgreeInv, Agree

\* A disclosed setup stays on disk until a later attempt replaces it.
LEMMA DisclosedStep ==
  ASSUME ~Nested, IInv, RecordInv, AgreeInv, KnownInv, TaskInv, SyncedInv,
         DisclosedIsDurable, [Next]_vars
  PROVE  DisclosedIsDurable'
<1> SUFFICES ASSUME NEW d \in known', NEW r \in disk'[d.user]
             PROVE  r.att >= d.att
  BY DEF DisclosedIsDurable
<1>1. CASE d \in known
  <2>1. d.user \in Users /\ d.att \in Nat /\ d.att <= minted
    BY <1>1 DEF IInv, TypeOK, KnownInv
  <2>2. \A s \in disk[d.user] : s.att >= d.att
    BY <1>1 DEF DisclosedIsDurable
  <2>3. CASE Rename /\ r = rec /\ d.user = rec.user
    <3>1. CASE rec.st = "pending"
      BY <2>1, <2>3, <3>1 DEF TaskInv, Rename, IInv, TypeOK
    <3>2. CASE rec.st # "pending"
      BY <2>2, <2>3, <3>2, RenamesBindings
    <3> QED
      BY <3>1, <3>2
  <2> QED
    BY <2>1, <2>2, <2>3, DiskStep
<1>2. CASE d \notin known
  <2>1. Shows
    BY <1>2, KnownStep
  <2>2. d.att = rec.att /\ d.user = rec.user /\ disk' = disk
    BY <1>2, <2>1 DEF Shows, files
  <2>3. disk[rec.user] = {rec} /\ rec.att \in Nat
    BY <2>1 DEF Shows, SyncedInv, OperationPlaces, PendingPlaces, TaskInv, At,
       IInv, TypeOK, Record
  <2> QED
    BY <2>2, <2>3
<1> QED
  BY <1>1, <1>2

\* What begin() shows is the only record on disk and carries its own binding.
LEMMA ShowsBound ==
  ASSUME ~Nested, IInv, RecordInv, TaskInv, SyncedInv, Shows, rec.proof # NoProof
  PROVE  /\ disk[rec.user] = {rec}
         /\ [proof |-> rec.proof, att |-> rec.att] \in rec.uses
         /\ now < Authorization[rec.proof].expires
         /\ \A b, c \in rec.uses : b.proof = c.proof => b = c
<1>1. rec.user \in Users /\ rec \in Record /\ rec.proof \in Proofs
  BY DEF IInv, TypeOK, Record
<1>2. disk[rec.user] = {rec}
  BY <1>1 DEF Shows, SyncedInv, OperationPlaces, PendingPlaces, TaskInv, At
<1>3. RecordOK(rec) /\ rec.st = "pending" /\ rec.mode = "self"
  BY RecordsType DEF RecordInv, RecordOK, Shows, requestMode
<1>4. /\ [proof |-> rec.proof, att |-> rec.att] \in rec.uses
      /\ rec.expires <= Authorization[rec.proof].expires
  BY <1>1, <1>3, OwnBinding
<1>5. now < rec.expires /\ now \in Nat /\ rec.expires \in Nat
      /\ Authorization[rec.proof].expires \in Nat
  BY <1>1, <1>3, AuthorizationAssumption DEF Shows, Record, IInv, TypeOK
<1>6. \A b, c \in rec.uses : b.proof = c.proof => b = c
  BY <1>3 DEF RecordOK, parseRecord, validatePrimaryUses
<1> QED
  BY <1>2, <1>4, <1>5, <1>6

\* The bindings of disclosed proofs are carried from record to record.
LEMMA BindingStep ==
  ASSUME ~Nested, IInv, RecordInv, AgreeInv, TaskInv, SyncedInv, BindingInv,
         [Next]_vars
  PROVE  BindingInv'
<1> SUFFICES ASSUME NEW d \in known', d.proof # NoProof,
                    now' < Authorization[d.proof].expires
             PROVE  LET b == [proof |-> d.proof, att |-> d.att]
                    IN /\ \A r \in disk'[d.user] : b \in r.uses
                       /\ Draft' /\ rec'.user = d.user => b \in rec'.uses
  BY DEF BindingInv
<1> DEFINE b == [proof |-> d.proof, att |-> d.att]
<1>a. TypeOK'
  BY TypeStep DEF IInv
<1>b. d.user \in Users /\ d.proof \in Proofs /\ d.att \in Nat
  BY <1>a DEF TypeOK
<1>c. now < Authorization[d.proof].expires
  BY <1>b, NowStep, AuthorizationAssumption
<1>1. CASE d \in known
  <2>1. /\ \A r \in disk[d.user] : b \in r.uses
        /\ Draft /\ rec.user = d.user => b \in rec.uses
    BY <1>1, <1>c DEF BindingInv
  <2> HIDE DEF b
  <2>2. ASSUME NEW r \in disk'[d.user]
        PROVE  b \in r.uses
    <3>1. CASE Rename /\ r = rec /\ d.user = rec.user
      <4>1. CASE rec.st = "pending"
        BY <2>1, <3>1, <4>1 DEF Draft, Rename
      <4>2. CASE rec.st # "pending"
        BY <2>1, <3>1, <4>2, RenamesBindings
      <4> QED
        BY <4>1, <4>2
    <3> QED
      BY <1>b, <2>1, <3>1, DiskStep
  <2>3. ASSUME Draft', rec'.user = d.user
        PROVE  b \in rec'.uses
    <3>1. CASE Draft /\ rec' = rec
      BY <2>1, <2>3, <3>1
    <3>2. CASE BeginNew
      <4> DEFINE j == journal[req.user]
      <4>1. /\ ProofFree(liveUses(j)) /\ rec' = Pending(liveUses(j))
        BY <3>2 DEF BeginNew, u
      <4>2. rec'.user = req.user
        BY <4>1 DEF Pending, u
      <4>3. j \in disk[d.user]
        BY <1>b, <2>3, <4>2 DEF IInv, DiskInv
      <4>4. b \in liveUses(j)
        BY <1>c, <2>1, <4>3 DEF liveUses, b
      <4>5. req.mode = "self"
        BY <4>1, <4>4 DEF ProofFree
      <4> QED
        BY <4>1, <4>4, <4>5 DEF Pending
    <3> QED
      BY <2>3, <3>1, <3>2, DraftStep
  <2> QED
    BY <2>2, <2>3 DEF b
<1>2. CASE d \notin known
  <2>1. Shows
    BY <1>2, KnownStep
  <2>2. d.att = rec.att /\ d.user = rec.user /\ d.proof = rec.proof /\ disk' = disk
    BY <1>2, <2>1 DEF Shows, files
  <2>3. disk[rec.user] = {rec} /\ b \in rec.uses
    BY <2>1, <2>2, ShowsBound
  <2>4. ~Draft'
    BY <2>1, DraftStep DEF Shows, Draft, At, BeginNew
  <2> QED
    BY <2>2, <2>3, <2>4
<1> QED
  BY <1>1, <1>2

\* A proof goes on being bound to one disclosed attempt.
LEMMA OnceStep ==
  ASSUME ~Nested, IInv, RecordInv, TaskInv, AuthorityInv, SyncedInv, BindingInv,
         ProofBindsOnce, [Next]_vars
  PROVE  ProofBindsOnce'
<1>1. ASSUME NEW d \in known', NEW e \in known, d.proof = e.proof,
             d.proof # NoProof
      PROVE  d.att = e.att
  <2>1. CASE d \in known
    BY <1>1, <2>1 DEF ProofBindsOnce
  <2>2. CASE d \notin known
    <3>1. Shows
      BY <2>2, KnownStep
    <3>2. d.att = rec.att /\ d.user = rec.user /\ d.proof = rec.proof
          /\ e \in known'
      BY <2>2, <3>1 DEF Shows
    <3>3. e.user = rec.user
      BY <1>1, <3>2, HolderStep
    <3>4. /\ disk[rec.user] = {rec}
          /\ [proof |-> rec.proof, att |-> rec.att] \in rec.uses
          /\ now < Authorization[rec.proof].expires
          /\ \A b, c \in rec.uses : b.proof = c.proof => b = c
      BY <1>1, <3>1, <3>2, ShowsBound
    <3>5. [proof |-> rec.proof, att |-> e.att] \in rec.uses
      BY <1>1, <3>2, <3>3, <3>4 DEF BindingInv
    <3>6. [proof |-> rec.proof, att |-> e.att] = [proof |-> rec.proof, att |-> rec.att]
      BY <3>4, <3>5
    <3> QED
      BY <3>2, <3>6
  <2> QED
    BY <2>1, <2>2
<1>2. ASSUME NEW d \in known', NEW e \in known', d.proof = e.proof,
             d.proof # NoProof
      PROVE  d.att = e.att
  <2>1. CASE d \in known \/ e \in known
    BY <1>1, <1>2, <2>1
  <2>2. CASE d \notin known /\ e \notin known
    BY <2>2, KnownStep DEF Shows
  <2> QED
    BY <2>1, <2>2
<1> QED
  BY <1>2 DEF ProofBindsOnce

\* Disabled material stays away: a projection works on a committed record, and a
\* disabled attempt has none.
LEMMA ResurrectionStep ==
  ASSUME IInv, RecordInv, AgreeInv, RetiredInv, SettledInv, NoResurrection,
         [Next]_vars
  PROVE  NoResurrection'
<1>a. rec.user \in Users /\ req.user \in Users
  BY DEF IInv, TypeOK, Record, Request
<1>1. CASE UNCHANGED <<factor, codes, retired>>
  BY <1>1 DEF NoResurrection
<1>2. CASE ProjectFactor \/ ProjectCodes
  <2>1. rec.att \notin retired
    BY <1>2, RecordsType DEF ProjectFactor, ProjectCodes, IInv, ApplyInv, RetiredInv
  <2>2. /\ retired' = retired
        /\ \A v \in Users : /\ factor'[v] \in {factor[v], rec.att}
                            /\ codes'[v] \in {codes[v], rec.att}
    BY <1>2 DEF ProjectFactor, ProjectCodes, IInv, TypeOK
  <2> QED
    BY <2>1, <2>2 DEF NoResurrection
<1>3. CASE Disable
  <2> DEFINE a == factor[req.user]
  <2>1. /\ pc = "run" /\ acct[req.user].totp /\ retired' = retired \cup {a}
        /\ factor'[req.user] = 0 /\ codes'[req.user] = 0
        /\ \A v \in Users \ {req.user} :
             factor'[v] = factor[v] /\ codes'[v] = codes[v]
    BY <1>3, <1>a DEF Disable, Ready, u, IInv, TypeOK
  <2>2. a # 0
    BY <1>a, <2>1 DEF IInv, RecoveryInv, OperationPlaces, NoneCommitted, DiskInv,
       ConsistentInv, Consistent
  <2>3. ASSUME NEW v \in Users \ {req.user}
        PROVE  factor[v] # a /\ codes[v] # a
    <3>1. SUFFICES ASSUME factor[v] = a \/ codes[v] = a
                   PROVE  FALSE
      OBVIOUS
    <3>2. /\ journal[v].att = factor[v] /\ factor[v] = codes[v]
          /\ journal[v].st = "applied"
      BY <2>1, <2>2, <3>1, EnrolledOnDisk
    <3>3. journal[req.user].att = a /\ journal[req.user].st = "applied"
      BY <1>a, <2>1, <2>2, EnrolledOnDisk
    <3>4. journal[v].user = v /\ journal[req.user].user = req.user
      BY <1>a, <3>2, <3>3 DEF IInv, DiskInv, FiledInv
    <3>5. Agree(journal[v], journal[req.user])
      BY <1>a, <2>2, <3>1, <3>2, <3>3, RecordsType DEF AgreeInv
    <3> QED
      BY <3>4, <3>5 DEF Agree
  <2>4. 0 \notin retired
    BY DEF RetiredInv
  <2> HIDE DEF a
  <2>5. ASSUME NEW v \in Users
        PROVE  factor'[v] \notin retired' /\ codes'[v] \notin retired'
    <3>1. CASE v = req.user
      BY <2>1, <2>2, <2>4, <3>1
    <3>2. CASE v # req.user
      BY <2>1, <2>3, <3>2 DEF NoResurrection
    <3> QED
      BY <3>1, <3>2
  <2> QED
    BY <2>5 DEF NoResurrection
<1>4. UNCHANGED <<factor, codes, retired>> \/ ProjectFactor \/ ProjectCodes
      \/ Disable
  BY DEF Next, vars, store, Gate, Enter, Release, Publishing, Rename, Sync,
     IOError, Recovery, RecoverSync, RecoverApply, RecoverScanned, RecoverDone,
     Projection, ProjectFlags, Run, RecoverTwice, Currency, Load, Resolve,
     Reload, Refuse, Begin, BeginAgain, Redisclose, BeginNew, Publish,
     Published, DiscloseSelf, Complete, Replay, Found, Verify, Freeze, Settled,
     Receipt, Protected, Decide, UseCode, EditAccount, Outside, Tick,
     EndSession, ChangeCredential, Crash, PowerLoss, Restart
<1> QED
  BY <1>1, <1>2, <1>3, <1>4

-----------------------------------------------------------------------------
(***************************************************************************)
(* What a client can rely on.                                              *)
(***************************************************************************)

\* The initial state satisfies the second layer.
LEMMA ClientInit == Init => JInv
<1> SUFFICES ASSUME Init PROVE JInv
  OBVIOUS
<1>1. \A r \in Records : r = Absent
  BY RecordsAre DEF Init
<1>2. RecordOK(Absent) /\ Absent.att = 0 /\ Absent.st = "absent"
  BY FS_EmptySet DEF RecordOK, Absent, parseRecord, Init
<1>3. RecordInv /\ AgreeInv
  BY <1>1, <1>2 DEF RecordInv, AgreeInv
<1>4. /\ known = {} /\ receipts = {} /\ retired = {} /\ pc = "idle" /\ ret = "idle"
      /\ caller = "recovery" /\ recov /\ req = NoRequest
      /\ \A v \in Users : used[v] = FALSE
  BY DEF Init
<1>5. req.kind = "auth"
  BY <1>4 DEF NoRequest, Submitted
<1>6. /\ KnownInv /\ AttemptCustody /\ RetiredInv /\ SettledInv /\ UsedInv
      /\ NoResurrection /\ AckDurable /\ DisclosedIsDurable /\ BindingInv /\ ProofBindsOnce
  BY <1>4 DEF KnownInv, AttemptCustody, RetiredInv, SettledInv, UsedInv, NoResurrection,
     AckDurable, DisclosedIsDurable, BindingInv, ProofBindsOnce
<1>7. TaskInv
  BY <1>4, <1>5 DEF TaskInv, At, Publishes
<1>8. AuthorityInv /\ SyncedInv
  BY <1>4 DEF AuthorityInv, Publishes, StrictPlaces, SyncedInv, OperationPlaces,
     PendingPlaces
<1> QED
  BY <1>3, <1>6, <1>7, <1>8 DEF JInv, DurableInv

\* Every step preserves the second layer.
LEMMA ClientStep == IInv /\ JInv /\ [Next]_vars => JInv'
<1> SUFFICES ASSUME IInv, JInv, [Next]_vars
             PROVE  JInv'
  OBVIOUS
<1>1. /\ RecordInv /\ AgreeInv /\ KnownInv /\ AttemptCustody /\ RetiredInv
      /\ SettledInv /\ UsedInv /\ TaskInv /\ AuthorityInv /\ AckDurable
      /\ NoResurrection
  BY DEF JInv
<1>2. RecordInv' /\ AgreeInv' /\ KnownInv' /\ AttemptCustody' /\ RetiredInv'
  BY <1>1, RecordStep, AgreeStep, KnownInvStep, CustodyStep, RetiredStep
<1>3. SettledInv' /\ UsedInv' /\ TaskInv' /\ AuthorityInv' /\ AckDurable'
      /\ NoResurrection'
  BY <1>1, SettledStep, UsedStep, TaskStep, AuthorityStep, AckStep,
     ResurrectionStep
<1>4. ASSUME ~Nested
      PROVE  SyncedInv' /\ DisclosedIsDurable' /\ BindingInv' /\ ProofBindsOnce'
  <2>1. SyncedInv /\ DisclosedIsDurable /\ BindingInv /\ ProofBindsOnce
    BY <1>4 DEF JInv, DurableInv
  <2> QED
    BY <1>1, <1>4, <2>1, SyncedStep, DisclosedStep, BindingStep, OnceStep
<1> QED
  BY <1>2, <1>3, <1>4 DEF JInv, DurableInv

\* Both layers always hold.
LEMMA ClientInvariance == Spec => [](IInv /\ JInv)
<1>1. Init => IInv /\ JInv
  BY InvInit, ClientInit
<1>2. IInv /\ JInv /\ [Next]_vars => (IInv /\ JInv)'
  BY InvStep, ClientStep
<1> QED
  BY <1>1, <1>2, PTL DEF Spec

\* begin() shows an attempt to one session under one proof and complete()
\* acknowledges it to that session only, committed before it expired; without
\* calls from inside the gate a proof buys one disclosed attempt.
THEOREM RightfulCompletion == Spec => []CompletionRightful
<1>1. ASSUME IInv, JInv
      PROVE  CompletionRightful
  <2>1. AttemptCustody /\ RecordInv
    BY <1>1 DEF JInv
  <2>2. ~Nested => ProofBindsOnce
    BY <1>1 DEF JInv, DurableInv
  <2>3. CommittedInTime
    <3> SUFFICES ASSUME NEW v \in Users
                 PROVE  RecordOK(journal[v])
      BY DEF CommittedInTime, RecordOK
    <3> QED
      BY <1>1, <2>1, RecordsType DEF RecordInv
  <2> QED
    BY <2>1, <2>2, <2>3 DEF CompletionRightful
<1> QED
  BY <1>1, ClientInvariance, PTL

\* No power loss takes back a completion that was acknowledged nor, without calls
\* from inside the gate, a setup that was disclosed.
THEOREM DurableAnswers == Spec => []AnswersDurable
<1>1. IInv /\ JInv => AnswersDurable
  BY DEF JInv, DurableInv, AnswersDurable
<1> QED
  BY <1>1, ClientInvariance, PTL

\* Every record that may be read back is one parseRecord accepts, however many
\* attempts and bindings came before.
THEOREM ReadableJournal == Spec => []JournalParses
<1>1. ASSUME JInv
      PROVE  JournalParses
  <2> SUFFICES ASSUME NEW v \in Users, NEW r \in disk[v]
               PROVE  parseRecord(r)
    BY DEF JournalParses
  <2>1. r \in Records
    BY RecordsAre
  <2> QED
    BY <1>1, <2>1 DEF JInv, RecordInv, RecordOK
<1> QED
  BY <1>1, ClientInvariance, PTL

\* A used backup code stays used while its code set stays, and no step brings
\* disabled material back.
THEOREM NothingReturns == Spec => NothingComesBack
<1>1. ASSUME IInv, JInv, [Next]_vars
      PROVE  UsedCodesStay
  <2> SUFFICES ASSUME NEW v \in Users, used[v], codes'[v] = codes[v]
               PROVE  used'[v]
    BY DEF UsedCodesStay
  <2>1. UsedInv /\ codes[v] # 0
    BY <1>1 DEF JInv, UsedInv
  <2>2. CASE ProjectCodes
    <3>1. ~used[rec.user]
      BY <1>1, <2>1, <2>2, ProjectsUnused
    <3>2. used'[v] = used[v]
      BY <1>1, <2>2, <3>1 DEF ProjectCodes, IInv, TypeOK
    <3> QED
      BY <3>2
  <2>3. CASE UseCode
    BY <1>1, <2>3 DEF UseCode, IInv, TypeOK
  <2>4. CASE Disable
    <3>1. v # req.user
      BY <1>1, <2>1, <2>4 DEF Disable, u, IInv, TypeOK
    <3> QED
      BY <1>1, <2>4, <3>1 DEF Disable, u, IInv, TypeOK
  <2> QED
    BY <1>1, <2>2, <2>3, <2>4, UsedChanges
<1>2. IInv /\ JInv /\ IInv' /\ JInv' /\ [Next]_vars
        => [NoResurrection' /\ UsedCodesStay]_vars
  BY <1>1 DEF JInv
<1> QED
  BY <1>2, ClientInvariance, PTL DEF Spec, NothingComesBack

\* current() lets a self-enrollment through only with the credential that its
\* proof was made with: credentials only move on, and both reads agree.
THEOREM CurrentCredential == Spec => CredentialCurrent
<1>1. ASSUME IInv, JInv, [Next]_vars, pc = "reload", pc' = ret
      PROVE  acct[u].cred = Authorization[req.proof].cred
  <2>1. ret \in StrictPlaces
    BY <1>1 DEF IInv, CurrentInv
  <2>2. /\ snap.cred <= Authorization[req.proof].cred
        /\ Authorization[req.proof].cred <= acct[u].cred
        /\ req.mode = "self"
    BY <1>1 DEF JInv, AuthorityInv
  <2>3. req.proof \in Proofs /\ req.user \in Users
    BY <1>1, <2>2 DEF IInv, TypeOK, Request, requestMode
  <2>4. /\ Authorization[req.proof].cred \in Nat /\ acct[u].cred \in Nat
        /\ snap.cred \in Nat
    BY <1>1, <2>3, AuthorizationAssumption DEF IInv, TypeOK, Account, u
  <2>5. Reload
    BY <1>1, <2>1
    DEF Next, vars, Gate, Enter, Release, Publishing, Rename, Sync, IOError,
        Recovery, RecoverSync, RecoverApply, RecoverScanned, RecoverDone,
        Projection, ProjectFactor, ProjectCodes, ProjectFlags, Run,
        RecoverTwice, Currency, Load, Resolve, Refuse, Begin, BeginAgain,
        Redisclose, BeginNew, Publish, Published, DiscloseSelf, Complete,
        Replay, Found, Verify, Freeze, Settled, Receipt, Protected, Decide,
        UseCode, Disable, EditAccount, Ready, Outside, Tick, EndSession,
        ChangeCredential, Crash, PowerLoss, Restart, Leave, Goto, StrictPlaces
  <2>6. snap.cred = acct[u].cred
    BY <2>5 DEF Reload, Unchanged
  <2> QED
    BY <2>2, <2>4, <2>6
<1>2. IInv /\ JInv /\ [Next]_vars =>
        [pc = "reload" /\ pc' = ret => acct[u].cred = Authorization[req.proof].cred]_vars
  BY <1>1
<1> QED
  BY <1>2, ClientInvariance, PTL DEF Spec, CredentialCurrent

=============================================================================
