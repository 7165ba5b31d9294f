--------------------------- MODULE TotpRetirement ---------------------------
(***************************************************************************)
(* FileTotpRetirementCoordinator (src/src/storage/file-totp-retirement.ts) *)
(* over FileStorageAdapter (src/src/storage/file.ts): durable retirement of*)
(* an account's own TOTP factor.  A consumed step-up receipt buys a        *)
(* journal record that goes committed -> applied; in between every session *)
(* of the account is revoked, then the exact factor and recovery codes the *)
(* record names are deleted, then the factor flags cleared.                *)
(*                                                                         *)
(* The coordinator runs under the enrollment gate, so it is one thread of  *)
(* control.  Each await that changes a file ends a step.                   *)
(***************************************************************************)
EXTENDS Naturals, FiniteSets

CONSTANTS
  Users,       \* account ids
  Sessions,    \* session ids
  Owner,       \* the user each session belongs to
  Receipts,    \* consumed step-up receipts; each names one operation
  Actor,       \* the user each receipt was consumed by
  Nobody,      \* the session or receipt of a request that has none
  MaxRecords,  \* journal records the directory may hold
  Uncertain,   \* may a write of the application be left unsynced
  MaxGens,     \* bound: factors enrolled
  MaxStep,     \* bound: uses of one factor
  MaxCred,     \* bound: changes of the principal
  MaxNow,      \* bound: clock
  MaxFaults,   \* bound: I/O calls that fail and clock set-backs
  MaxCrashes   \* bound: process or machine restarts

ASSUME PeopleAssumption ==
  /\ Users # {} /\ Nobody \notin Sessions \cup Receipts
  /\ Owner \in [Sessions -> Users] /\ Actor \in [Receipts -> Users]
ASSUME LimitAssumption ==
  /\ MaxRecords \in Nat \ {0} /\ Uncertain \in BOOLEAN
  /\ MaxGens \in Nat /\ MaxStep \in Nat /\ MaxCred \in Nat /\ MaxNow \in Nat
  /\ MaxFaults \in Nat /\ MaxCrashes \in Nat

VARIABLES
  store,     \* what each account's part of each credential store holds
  disk,      \* what it may hold after a power loss
  journal,   \* the record each operation's name resolves to
  jdisk,     \* the records it may resolve to after a power loss
  acct,      \* the principal: [active, cred]
  stale,     \* sessions whose time has passed
  gens,      \* factors enrolled so far; generations are 1..gens
  now,       \* the wall clock
  pc,        \* where the holder of the gate stands
  req,       \* the request being served
  rec,       \* the record being written or applied
  caller,    \* who called apply()
  snap,      \* retire()'s reading before authorize()
  stage,     \* the store apply() has reached
  acks,      \* receipts answered: [op, user, gen]
  deleted,   \* factors apply() has deleted: [op, user, gen]
  faults,    \* I/O failures and set-backs so far
  crashes    \* restarts so far

files == <<journal, jdisk>>
creds == <<store, disk>>
local == <<req, rec, caller, snap, stage>>
past  == <<acks, deleted>>
outer == <<acct, stale, gens>>
vars  == <<files, creds, local, past, outer, now, pc, faults, crashes>>

\* in the order apply() clears them; {} is what a cleared store holds
Stores == {"sessions", "factor", "codes", "flags"}
Following == [sessions |-> "factor", factor |-> "codes", codes |-> "flags"]

\* a factor or code set: its generation and how often it has been used
Material == [gen : Nat, uses : Nat]

Absent ==
  [st |-> "absent", op |-> Nobody, user |-> CHOOSE v \in Users : TRUE, gen |-> 0,
   factor |-> {}, codes |-> {}, at |-> 0, done |-> 0]

Request(k, v, s, r) == [kind |-> k, user |-> v, sess |-> s, receipt |-> r]
NoRequest == Request("auth", CHOOSE v \in Users : TRUE, Nobody, Nobody)
\* cred stands for principalDigest()
NoSnap == [cred |-> 0, factor |-> {}, codes |-> {}]

u == req.user
Goto(place) == pc' = place

Leave ==
  /\ Goto("idle")
  /\ req' = NoRequest /\ rec' = Absent /\ snap' = NoSnap
  /\ caller' = "recovery" /\ stage' = "sessions"

Fault == faults < MaxFaults /\ faults' = faults + 1

-----------------------------------------------------------------------------
(***************************************************************************)
(* The gate, prepare() and recoverUnsafe().                                *)
(***************************************************************************)
Enter ==
  /\ pc = "idle"
  /\ \E v \in Users :
       \/ \E s \in Sessions : req' = Request("retire", v, s, Nobody)
       \/ \E r \in Receipts : req' = Request("read", v, Nobody, r)
       \/ req' = Request("auth", v, Nobody, Nobody)
  /\ Goto("prepare")
  /\ UNCHANGED <<files, creds, past, outer, now, faults, crashes, rec, caller,
                 snap, stage>>

\* fault: the journal directory is never synced
JournalSyncedNever == UNCHANGED <<journal, jdisk>>

JournalSynced ==
  jdisk' = [o \in Receipts |-> {journal[o]}] /\ UNCHANGED journal

Prepare ==
  /\ pc = "prepare"
  /\ JournalSynced
  /\ Goto("scan")
  /\ UNCHANGED <<creds, local, past, outer, now, faults, crashes>>

Filed == {o \in Receipts : journal[o].st # "absent"}

\* fault: what an earlier process committed is not looked for
UnappliedIgnored == {}

Unapplied == {o \in Receipts : journal[o].st = "committed"}

RecoverApply ==
  /\ pc = "scan"
  /\ Cardinality(Filed) <= MaxRecords
  /\ \E o \in Unapplied : rec' = journal[o]
  /\ caller' = "recovery"
  /\ Goto("check")
  /\ UNCHANGED <<files, creds, past, outer, now, faults, crashes, req, snap,
                 stage>>

Recovered ==
  /\ pc = "scan"
  /\ Cardinality(Filed) <= MaxRecords
  /\ Unapplied = {}
  /\ Goto(IF req.kind = "retire" THEN "current" ELSE "run")
  /\ UNCHANGED <<files, creds, local, past, outer, now, faults, crashes>>

-----------------------------------------------------------------------------
(***************************************************************************)
(* Publication of a journal record.                                        *)
(***************************************************************************)
Rename ==
  /\ pc = "rename"
  /\ journal' = [journal EXCEPT ![rec.op] = rec]
  /\ jdisk' = [jdisk EXCEPT ![rec.op] = @ \cup {rec}]
  /\ Goto("sync")
  /\ UNCHANGED <<creds, local, past, outer, now, faults, crashes>>

Sync ==
  /\ pc = "sync"
  /\ JournalSynced
  /\ Goto(IF rec.st = "committed" THEN "check"
          ELSE IF caller = "retire" THEN "answer" ELSE "scan")
  /\ UNCHANGED <<creds, local, past, outer, now, faults, crashes>>

\* an I/O call throws; what it renamed or unlinked stays visible
IOError ==
  /\ pc \in {"prepare", "scan", "rename", "sync", "change", "settle"}
  /\ Fault
  /\ Leave
  /\ UNCHANGED <<files, creds, past, outer, now, crashes>>

-----------------------------------------------------------------------------
(***************************************************************************)
(* retire(): current(), authorize(), current() again, the commit.          *)
(***************************************************************************)
Current ==
  /\ acct[u].active
  /\ store["flags"][u] # {}
  /\ store["factor"][u] # {}
  /\ req.sess \in store["sessions"][u]
  /\ req.sess \notin stale

Begin ==
  /\ pc = "current"
  /\ Current
  /\ snap' = [cred |-> acct[u].cred, factor |-> store["factor"][u],
              codes |-> store["codes"][u]]
  /\ Goto("authorize")
  /\ UNCHANGED <<files, creds, past, outer, now, faults, crashes, req, rec,
                 caller, stage>>

\* authorize(), the application's, returns a receipt this user consumed
Authorized ==
  /\ pc = "authorize"
  /\ \E r \in Receipts :
       /\ Actor[r] = u
       /\ req' = [req EXCEPT !.receipt = r]
  /\ Goto("again")
  /\ UNCHANGED <<files, creds, past, outer, now, faults, crashes, rec, caller,
                 snap, stage>>

\* the factor may have been used meanwhile, but is the same generation
Unchanged ==
  /\ snap.cred = acct[u].cred
  /\ snap.codes = store["codes"][u]
  /\ \A f \in snap.factor : \E g \in store["factor"][u] :
       f.gen = g.gen /\ f.uses <= g.uses

Again ==
  /\ pc = "again"
  /\ Current
  /\ Unchanged
  /\ \E f \in store["factor"][u] :
       rec' = [st |-> "committed", op |-> req.receipt, user |-> u,
               gen |-> f.gen, factor |-> {f}, codes |-> store["codes"][u],
               at |-> 0, done |-> 0]
  /\ Goto("admit")
  /\ UNCHANGED <<files, creds, past, outer, now, faults, crashes, req, caller,
                 snap, stage>>

\* fault: a receipt is good for another retirement
FreshAlways == Cardinality(Filed) < MaxRecords

\* fault: the limit is checked too late by one
FreshOverLimit ==
  journal[req.receipt].st = "absent" /\ Cardinality(Filed) <= MaxRecords

\* a receipt names one operation, and there is room for it
Fresh == journal[req.receipt].st = "absent" /\ Cardinality(Filed) < MaxRecords

Admit ==
  /\ pc = "admit"
  /\ Fresh
  /\ req.sess \notin stale
  /\ rec' = [rec EXCEPT !.at = now]
  /\ caller' = "retire"
  /\ Goto("rename")
  /\ UNCHANGED <<files, creds, past, outer, now, faults, crashes, req, snap,
                 stage>>

-----------------------------------------------------------------------------
(***************************************************************************)
(* apply(): each store in turn is cleared, then its directory is synced,   *)
(* even if an earlier run cleared it already.                              *)
(***************************************************************************)
\* fault: a replay insists on the material an earlier run deleted
ExpectedPresent(s) ==
  CASE s = "factor" -> store[s][rec.user] = rec.factor
    [] s = "codes"  -> store[s][rec.user] = rec.codes
    [] OTHER        -> TRUE

Expected(s) ==
  CASE s = "factor" -> store[s][rec.user] \in {{}, rec.factor}
    [] s = "codes"  -> store[s][rec.user] \in {{}, rec.codes}
    [] OTHER        -> TRUE

\* fault: the credentials are deleted before the sessions are revoked
CheckCredentialsFirst ==
  /\ pc = "check"
  /\ Expected("factor") /\ Expected("codes")
  /\ stage' = "factor"
  /\ Goto("change")
  /\ UNCHANGED <<files, creds, past, outer, now, faults, crashes, req, rec,
                 caller, snap>>

Check ==
  /\ pc = "check"
  /\ Expected("factor") /\ Expected("codes")
  /\ stage' = "sessions"
  /\ Goto("change")
  /\ UNCHANGED <<files, creds, past, outer, now, faults, crashes, req, rec,
                 caller, snap>>

\* deleteUserSessions, deleteCredentialExpected twice, clearTotpFlagsExpected
Change ==
  /\ pc = "change"
  /\ Expected(stage)
  /\ store' = [store EXCEPT ![stage][rec.user] = {}]
  /\ disk' = [disk EXCEPT ![stage][rec.user] = @ \cup {{}}]
  /\ deleted' = IF stage = "factor" /\ store[stage][rec.user] # {}
                THEN deleted \cup {[op |-> rec.op, user |-> rec.user,
                                    gen |-> rec.gen]}
                ELSE deleted
  /\ Goto("settle")
  /\ UNCHANGED <<files, local, acks, outer, now, faults, crashes>>

\* fault: a store found cleared is taken to be durably cleared
SettledUnsynced == UNCHANGED creds

\* fault: the directory of the recovery codes is not synced
CodesUnsynced ==
  /\ disk' = IF stage = "codes" THEN disk
             ELSE [disk EXCEPT ![stage] = [v \in Users |-> {store[stage][v]}]]
  /\ UNCHANGED store

Settled ==
  /\ disk' = [disk EXCEPT ![stage] = [v \in Users |-> {store[stage][v]}]]
  /\ UNCHANGED store

Settle ==
  /\ pc = "settle"
  /\ Settled
  /\ \/ /\ stage = "flags"
        /\ UNCHANGED stage
        /\ Goto("verify")
     \/ /\ stage # "flags"
        /\ stage' = Following[stage]
        /\ Goto("change")
  /\ UNCHANGED <<files, past, outer, now, faults, crashes, req, rec, caller,
                 snap>>

\* fault: the receipt is not validated before it is written
CompleteAnyTime == \A s \in Stores : store[s][rec.user] = {}

\* everything is gone, and the receipt's times are in order
Complete == (\A s \in Stores : store[s][rec.user] = {}) /\ rec.at <= now

Verified ==
  /\ pc = "verify"
  /\ Complete
  /\ rec' = [rec EXCEPT !.st = "applied", !.factor = {}, !.codes = {},
                        !.done = now]
  /\ Goto("rename")
  /\ UNCHANGED <<files, creds, past, outer, now, faults, crashes, req, caller,
                 snap, stage>>

-----------------------------------------------------------------------------
Acknowledge(r) == acks' = acks \cup {[op |-> r.op, user |-> r.user, gen |-> r.gen]}

Answer ==
  /\ pc = "answer"
  /\ Acknowledge(rec)
  /\ Leave
  /\ UNCHANGED <<files, creds, deleted, outer, now, faults, crashes>>

readReceipt ==
  /\ pc = "run" /\ req.kind = "read"
  /\ journal[req.receipt].st = "applied" /\ journal[req.receipt].user = u
  /\ Acknowledge(journal[req.receipt])
  /\ Leave
  /\ UNCHANGED <<files, creds, deleted, outer, now, faults, crashes>>

\* a check fails, authorize() consumes nothing, or there is nothing to do
Refuse ==
  /\ \/ pc = "scan" /\ Cardinality(Filed) > MaxRecords
     \/ pc = "current" /\ ~Current
     \/ pc = "authorize"
     \/ pc = "again" /\ ~(Current /\ Unchanged)
     \/ pc = "admit" /\ ~(Fresh /\ req.sess \notin stale)
     \/ pc = "check" /\ ~(Expected("factor") /\ Expected("codes"))
     \/ pc = "change" /\ ~Expected(stage)
     \/ pc = "verify" /\ ~Complete
     \/ pc = "run"
  /\ Leave
  /\ UNCHANGED <<files, creds, past, outer, now, faults, crashes>>

-----------------------------------------------------------------------------
(***************************************************************************)
(* The application, under the gate and after recovery: a protected         *)
(* operation, or the authorize() callback itself.  A write is durable, or, *)
(* if Uncertain, visible though its directory sync failed.                 *)
(***************************************************************************)
Held ==
  \/ pc = "run" /\ req.kind = "auth" /\ Leave
  \/ pc = "authorize" /\ UNCHANGED <<pc, local>>

Store(s, v, x) ==
  /\ store' = [store EXCEPT ![s][v] = x]
  /\ \/ disk' = [disk EXCEPT ![s][v] = {x}]
     \/ Uncertain /\ disk' = [disk EXCEPT ![s][v] = @ \cup {x}]

\* ids are random: the session under retirement is not issued again
Login ==
  /\ Held
  /\ acct[u].active
  /\ \E s \in Sessions \ (stale \cup store["sessions"][u] \cup {req.sess}) :
       Owner[s] = u /\ Store("sessions", u, store["sessions"][u] \cup {s})
  /\ UNCHANGED <<files, past, outer, now, faults, crashes>>

Logout ==
  /\ Held
  /\ \E s \in store["sessions"][u] :
       Store("sessions", u, store["sessions"][u] \ {s})
  /\ UNCHANGED <<files, past, outer, now, faults, crashes>>

Use ==
  /\ Held
  /\ \E s \in {"factor", "codes"} : \E m \in store[s][u] :
       /\ m.uses < MaxStep
       /\ Store(s, u, {[m EXCEPT !.uses = @ + 1]})
  /\ UNCHANGED <<files, past, outer, now, faults, crashes>>

\* the enrollment coordinator, whose projections are durable
Enroll ==
  /\ Held
  /\ acct[u].active
  /\ \A s \in Stores \ {"sessions"} : store[s][u] = {}
  /\ gens < MaxGens
  /\ gens' = gens + 1
  /\ LET m == {[gen |-> gens + 1, uses |-> 0]}
         new == [s \in Stores |-> IF s = "sessions" THEN store[s][u] ELSE m]
     IN  /\ store' = [s \in Stores |-> [store[s] EXCEPT ![u] = new[s]]]
         /\ disk' = [s \in Stores |-> IF s = "sessions" THEN disk[s]
                                      ELSE [disk[s] EXCEPT ![u] = {new[s]}]]
  /\ UNCHANGED <<files, past, acct, stale, now, faults, crashes>>

EditAccount ==
  /\ Held
  /\ \/ acct' = [acct EXCEPT ![u].active = ~@]
     \/ /\ acct[u].cred < MaxCred
        /\ acct' = [acct EXCEPT ![u].cred = @ + 1]
  /\ UNCHANGED <<files, creds, past, stale, gens, now, faults, crashes>>

-----------------------------------------------------------------------------
(***************************************************************************)
(* What the gate does not hold back.                                       *)
(***************************************************************************)
Expire ==
  /\ \E s \in Sessions \ stale : stale' = stale \cup {s}
  /\ UNCHANGED <<files, creds, local, past, acct, gens, now, pc, faults, crashes>>

Tick ==
  /\ now < MaxNow
  /\ now' = now + 1
  /\ UNCHANGED <<files, creds, local, past, outer, pc, faults, crashes>>

SetBack ==
  /\ Fault
  /\ now > 0
  /\ now' = now - 1
  /\ UNCHANGED <<files, creds, local, past, outer, pc, crashes>>

Restart ==
  /\ crashes < MaxCrashes
  /\ crashes' = crashes + 1
  /\ Leave
  /\ UNCHANGED <<past, outer, now, faults>>

Crash == pc # "idle" /\ Restart /\ UNCHANGED <<files, creds>>

\* what the names of a directory may resolve to after a power loss
Survivors(d) ==
  {f \in [DOMAIN d -> UNION {d[x] : x \in DOMAIN d}] :
     \A x \in DOMAIN d : f[x] \in d[x]}

PowerLoss ==
  /\ Restart
  /\ journal' \in Survivors(jdisk)
  /\ jdisk' = [o \in Receipts |-> {journal'[o]}]
  /\ \E s \in Survivors(disk["sessions"]), f \in Survivors(disk["factor"]),
       c \in Survivors(disk["codes"]), l \in Survivors(disk["flags"]) :
       store' = [sessions |-> s, factor |-> f, codes |-> c, flags |-> l]
  /\ disk' = [s \in Stores |-> [v \in Users |-> {store'[s][v]}]]

-----------------------------------------------------------------------------
Init ==
  /\ store = [s \in Stores |-> [v \in Users |-> {}]]
  /\ disk = [s \in Stores |-> [v \in Users |-> {{}}]]
  /\ journal = [o \in Receipts |-> Absent]
  /\ jdisk = [o \in Receipts |-> {Absent}]
  /\ acct = [v \in Users |-> [active |-> TRUE, cred |-> 0]]
  /\ stale = {} /\ gens = 0 /\ now = 0 /\ faults = 0 /\ crashes = 0
  /\ pc = "idle" /\ req = NoRequest /\ rec = Absent /\ snap = NoSnap
  /\ caller = "recovery" /\ stage = "sessions"
  /\ acks = {} /\ deleted = {}

Coordinator ==
  \/ Enter \/ Prepare \/ RecoverApply \/ Recovered \/ Rename \/ Sync
  \/ Begin \/ Authorized \/ Again \/ Admit
  \/ Check \/ Change \/ Settle \/ Verified \/ Answer \/ readReceipt

Application == Login \/ Logout \/ Use \/ Enroll \/ EditAccount

Next ==
  \/ Coordinator \/ Application \/ Refuse \/ IOError
  \/ Expire \/ Tick \/ SetBack \/ Crash \/ PowerLoss

Spec == Init /\ [][Next]_vars

\* requests keep arriving, the process runs, and time passes
FairSpec ==
  Spec /\ WF_vars(Coordinator \/ Application \/ Refuse) /\ WF_vars(Tick)

-----------------------------------------------------------------------------
Kinds  == {"retire", "read", "auth"}
Places == {"idle", "prepare", "scan", "rename", "sync", "change", "settle", "current",
           "authorize", "again", "admit", "check", "verify", "answer", "run"}

Record ==
  [st : {"absent", "committed", "applied"}, op : Receipts \cup {Nobody},
   user : Users, gen : Nat, factor : SUBSET Material, codes : SUBSET Material,
   at : Nat, done : Nat]

\* what a store may hold for an account
Contents(s) == IF s = "sessions" THEN SUBSET Sessions ELSE SUBSET Material

\* Every variable holds a value of its type.
TypeOK ==
  /\ DOMAIN store = Stores /\ DOMAIN disk = Stores
  /\ \A s \in Stores :
       store[s] \in [Users -> Contents(s)] /\ disk[s] \in [Users -> SUBSET Contents(s)]
  /\ journal \in [Receipts -> Record] /\ jdisk \in [Receipts -> SUBSET Record]
  /\ acct \in [Users -> [active : BOOLEAN, cred : Nat]]
  /\ stale \subseteq Sessions /\ gens \in Nat /\ now \in Nat
  /\ pc \in Places /\ rec \in Record
  /\ req \in [kind : Kinds, user : Users, sess : Sessions \cup {Nobody},
              receipt : Receipts \cup {Nobody}]
  /\ caller \in {"recovery", "retire"} /\ stage \in Stores
  /\ snap \in [cred : Nat, factor : SUBSET Material, codes : SUBSET Material]
  /\ acks \subseteq [op : Receipts, user : Users, gen : Nat]
  /\ deleted \subseteq [op : Receipts, user : Users, gen : Nat]
  /\ faults \in Nat /\ crashes \in Nat

(***************************************************************************)
(* What record() and receipt() accept when a file is read: a               *)
(* committed record names the factor and its generation, an applied one    *)
(* was applied no earlier than it was committed.  A record on disk that    *)
(* does not parse closes the gate for ever.                                *)
(***************************************************************************)
Parses(o, r) ==
  /\ r.st # "absent" => r.op = o
  /\ r.st = "committed" => \E f \in r.factor : r.factor = {f} /\ f.gen = r.gen
  /\ r.st = "applied" => r.at <= r.done

(***************************************************************************)
(* A receipt returned by retire() or readReceipt() is final: its record    *)
(* cannot revert to committed, and no power loss brings back a factor or   *)
(* recovery codes of the generation it retired, or of an older one.        *)
(***************************************************************************)
RetiredStaysRetired ==
  \A a \in acks :
    /\ \A r \in jdisk[a.op] : r.st = "applied" /\ r.gen = a.gen
    /\ \A s \in {"factor", "codes"} : \A x \in disk[s][a.user] : \A m \in x :
         m.gen > a.gen

(***************************************************************************)
(* "Re-acknowledge revocation on every replay before weakening credentials *)
(* or flags": while a retirement may still be found committed, an account  *)
(* that could be found without its factor has no session left to use it,   *)
(* whatever a power loss does to either file.                              *)
(***************************************************************************)
RevokedBeforeWeakened ==
  \A o \in Receipts : \A r \in jdisk[o] :
    r.st = "committed" /\ {} \in disk["factor"][r.user]
      => disk["sessions"][r.user] = {{}}

(***************************************************************************)
(* apply() destroys only what a committed record authorises, and only once *)
(* that record is durable: an unlink or revocation is of the record's      *)
(* account, and the factor or codes unlinked are exactly the ones named.   *)
(***************************************************************************)
Authorises(r, s, v) ==
  /\ r.st = "committed" /\ r.user = v
  /\ s = "factor" => store[s][v] = r.factor
  /\ s = "codes" => store[s][v] = r.codes

DeletesAuthorised ==
  \A s \in Stores, v \in Users :
    /\ pc \notin {"run", "authorize"} /\ crashes' = crashes
    /\ store'[s][v] # store[s][v]
    => /\ store'[s][v] = {}
       /\ \E o \in Receipts : \E r \in jdisk[o] : jdisk[o] = {r} /\ Authorises(r, s, v)

(***************************************************************************)
(* Past the gate no retirement is half done, for a reader of the visible   *)
(* files or of the files after a power loss: nothing is committed, and an  *)
(* account has its factor exactly if its flags say so.                     *)
(***************************************************************************)
GateReady ==
  pc \in {"run", "current", "authorize"} =>
    /\ \A o \in Receipts : \A r \in jdisk[o] : r.st # "committed"
    /\ \A v \in Users :
         /\ \A x \in disk["factor"][v] : x = {} <=> store["flags"][v] = {}
         /\ \A x \in disk["codes"][v] : x = {} <=> store["flags"][v] = {}

(***************************************************************************)
(* "Never reinterpret a consumed receipt as permission to retire a later   *)
(* generation": over retries, crashes and re-enrollments a receipt deletes *)
(* factors of one generation only.                                         *)
(***************************************************************************)
ReceiptSpendsOnce == \A d, e \in deleted : d.op = e.op => d = e

(***************************************************************************)
(* Whatever fails or is set back, every record that may be found parses,   *)
(* and there are never more of them than filenames() tolerates: otherwise  *)
(* the gate could not recover again.                                       *)
(***************************************************************************)
JournalReadable ==
  /\ \A o \in Receipts : journal[o] \in jdisk[o] /\ \A r \in jdisk[o] : Parses(o, r)
  /\ Cardinality({o \in Receipts : \E r \in jdisk[o] : r.st # "absent"}) <= MaxRecords

\* A receipt is final: the material it retired never comes back, and presented again it
\* deletes nothing of a later generation (retire, apply, recoverUnsafe).
RetirementFinal == RetiredStaysRetired /\ ReceiptSpendsOnce

\* A half-done retirement weakens nobody: sessions go before the factor, and nobody
\* passes the gate until recovery has finished it (apply, recoverUnsafe).
NeverHalfRetired == RevokedBeforeWeakened /\ GateReady

\* apply() destroys only what a durable committed record of that account names.
DeletionAuthorised == [][DeletesAuthorised]_vars
=============================================================================
