------------------------ MODULE TotpRetirement_proofs ------------------------
(***************************************************************************)
(* Proofs about TotpRetirement for every value of its constants: types, a  *)
(* journal that always parses and never overflows, receipts that are final,*)
(* retirements that weaken nobody while they are half done, and deletions  *)
(* that a durable record authorises.                                       *)
(***************************************************************************)
EXTENDS TotpRetirement, FiniteSetTheorems, TLAPS

-----------------------------------------------------------------------------
(***************************************************************************)
(* The inductive invariant.  First the files, whoever holds the gate.      *)
(***************************************************************************)

\* what is visible may survive, what is in a journal parses, and no material
\* or record is of a generation that was not enrolled
FileInv ==
  /\ \A s \in Stores, v \in Users : store[s][v] \in disk[s][v]
  /\ \A o \in Receipts : journal[o] \in jdisk[o]
  /\ \A o \in Receipts : \A r \in jdisk[o] : Parses(o, r) /\ r.gen <= gens
  /\ \A s \in {"factor", "codes"}, v \in Users : \A x \in disk[s][v] : \A m \in x :
       m.gen <= gens

\* an account has its factor and its codes exactly if its flags say so,
\* whatever a power loss leaves of each
Whole(v) ==
  \A y \in disk["flags"][v] :
    /\ \A x \in disk["factor"][v] : x = {} <=> y = {}
    /\ \A x \in disk["codes"][v] : x = {} <=> y = {}

\* a durable committed record excuses its account
Excused(v) == \E o \in Receipts : \E r \in jdisk[o] :
                jdisk[o] = {r} /\ r.st = "committed" /\ r.user = v

WholeInv == \A v \in Users : Excused(v) \/ Whole(v)

\* at most one retirement may be found committed
OneInv ==
  \A o, p \in Receipts : \A r \in jdisk[o], q \in jdisk[p] :
    r.st = "committed" /\ q.st = "committed" => o = p

\* an applied record outlives the material it names
AppliedInv ==
  \A o \in Receipts : \A r \in jdisk[o] : r.st = "applied" =>
    \A s \in {"factor", "codes"} : \A x \in disk[s][r.user] : \A m \in x : m.gen > r.gen

\* an answered receipt can only be found applied, as it was answered
AckInv ==
  \A a \in acks : \A r \in jdisk[a.op] :
    r.st = "applied" /\ r.user = a.user /\ r.gen = a.gen

\* a receipt that deleted a factor can only be found naming that factor
DeletedInv ==
  \A d \in deleted : \A r \in jdisk[d.op] :
    r.st # "absent" /\ r.user = d.user /\ r.gen = d.gen

\* the operations with a record that a power loss may leave behind
Occupied == {o \in Receipts : \E r \in jdisk[o] : r.st # "absent"}

RoomInv == IsFiniteSet(Occupied) /\ Cardinality(Occupied) <= MaxRecords

StoreInv ==
  /\ FileInv /\ WholeInv /\ OneInv /\ AppliedInv /\ AckInv /\ DeletedInv
  /\ RevokedBeforeWeakened /\ RoomInv /\ ReceiptSpendsOnce

(***************************************************************************)
(* Then the operation that holds the gate.                                 *)
(***************************************************************************)

\* nothing of a store may be found for the account of the record at hand
Gone(s) == disk[s][rec.user] = {{}}

\* the journal is as durable as it is visible, but for the record just renamed
SyncInv ==
  pc \notin {"idle", "prepare", "sync"} => \A o \in Receipts : jdisk[o] = {journal[o]}

\* recovery has finished before a request is served
ReadyInv ==
  pc \in {"current", "authorize", "again", "admit", "run"} =>
    \A o \in Receipts : journal[o].st # "committed"

RequestInv ==
  /\ pc \in {"again", "admit"} => req.receipt \in Receipts
  /\ req.kind = "read" => req.receipt \in Receipts

\* the record retire() is about to commit: of an account that nothing was
\* taken from yet
DraftInv ==
  /\ pc = "admit" => rec.st = "committed" /\ rec.op = req.receipt
  /\ pc = "rename" /\ rec.st = "committed" =>
       /\ \A o \in Receipts : journal[o].st # "committed"
       /\ journal[rec.op].st = "absent"
       /\ IsFiniteSet(Occupied \cup {rec.op})
       /\ Cardinality(Occupied \cup {rec.op}) <= MaxRecords
  /\ pc \in {"admit", "rename"} /\ rec.st = "committed" =>
       /\ rec.op \in Receipts /\ Parses(rec.op, rec) /\ rec.gen <= gens
       /\ {} \notin disk["factor"][rec.user]

\* the record apply() carries out, and how far it has come
ApplyInv ==
  /\ pc \in {"check", "change", "settle", "verify"} =>
       rec.op \in Receipts /\ journal[rec.op] = rec /\ rec.st = "committed"
  /\ pc = "settle" => store[stage][rec.user] = {}
  /\ pc \in {"change", "settle"} =>
       /\ stage # "sessions" => Gone("sessions")
       /\ stage \in {"codes", "flags"} => Gone("factor")
       /\ stage = "flags" => Gone("codes")
  /\ pc = "verify" => \A s \in Stores : Gone(s)

\* the receipt apply() is about to write
ReceiptInv ==
  /\ pc = "rename" => rec.st \in {"committed", "applied"}
  /\ pc = "rename" /\ rec.st = "applied" =>
       /\ rec.op \in Receipts /\ Parses(rec.op, rec)
       /\ journal[rec.op].st = "committed" /\ journal[rec.op].user = rec.user
       /\ journal[rec.op].gen = rec.gen
       /\ \A s \in Stores : Gone(s)
  /\ pc \in {"sync", "answer"} =>
       rec.op \in Receipts /\ journal[rec.op] = rec /\ rec.st \in {"committed", "applied"}
  /\ pc = "answer" => rec.st = "applied"

WorkInv == SyncInv /\ ReadyInv /\ RequestInv /\ DraftInv /\ ApplyInv /\ ReceiptInv

IInv == TypeOK /\ StoreInv /\ WorkInv

-----------------------------------------------------------------------------
(***************************************************************************)
(* Types.                                                                  *)
(***************************************************************************)

\* The frame of no operation, which every operation leaves, is well typed.
LEMMA FrameType ==
  /\ Absent \in Record /\ Absent.st = "absent" /\ Absent.gen = 0
  /\ NoRequest \in [kind : Kinds, user : Users, sess : Sessions \cup {Nobody},
                    receipt : Receipts \cup {Nobody}]
  /\ NoRequest.kind = "auth"
  /\ NoSnap \in [cred : Nat, factor : SUBSET Material, codes : SUBSET Material]
<1>1. (CHOOSE v \in Users : TRUE) \in Users
  BY PeopleAssumption
<1> QED
  BY <1>1 DEF Absent, Record, NoRequest, Request, Kinds, NoSnap

\* Leaving the gate keeps the types of what the operation kept to itself.
LEMMA LeaveType ==
  Leave => /\ pc' \in Places /\ rec' \in Record /\ stage' \in Stores
           /\ req' \in [kind : Kinds, user : Users, sess : Sessions \cup {Nobody},
                        receipt : Receipts \cup {Nobody}]
           /\ snap' \in [cred : Nat, factor : SUBSET Material, codes : SUBSET Material]
           /\ caller' \in {"recovery", "retire"}
  BY FrameType DEF Leave, Goto, Places, Stores

\* Writing one account's part of one store changes that part only.
LEMMA StorePut ==
  ASSUME TypeOK, NEW s \in Stores, NEW v \in Users, NEW x \in Contents(s),
         store' = [store EXCEPT ![s][v] = x]
  PROVE  /\ DOMAIN store' = Stores
         /\ \A t \in Stores : store'[t] \in [Users -> Contents(t)]
         /\ store'[s][v] = x
         /\ \A t \in Stores, w \in Users : (t # s \/ w # v) => store'[t][w] = store[t][w]
<1>1. DOMAIN store = Stores /\ \A t \in Stores : store[t] \in [Users -> Contents(t)]
  BY DEF TypeOK
<1>2. DOMAIN store' = Stores
  BY <1>1
<1>3. store'[s] = [store[s] EXCEPT ![v] = x]
  BY <1>1
<1>4. \A t \in Stores : t # s => store'[t] = store[t]
  BY <1>1
<1>5. store'[s] \in [Users -> Contents(s)]
  BY <1>1, <1>3
<1>6. store'[s][v] = x /\ \A w \in Users : w # v => store'[s][w] = store[s][w]
  BY <1>1, <1>3
<1> QED
  BY <1>1, <1>2, <1>4, <1>5, <1>6

\* The same for what may survive of it.
LEMMA DiskPut ==
  ASSUME TypeOK, NEW s \in Stores, NEW v \in Users, NEW D \in SUBSET Contents(s),
         disk' = [disk EXCEPT ![s][v] = D]
  PROVE  /\ DOMAIN disk' = Stores
         /\ \A t \in Stores : disk'[t] \in [Users -> SUBSET Contents(t)]
         /\ disk'[s][v] = D
         /\ \A t \in Stores, w \in Users : (t # s \/ w # v) => disk'[t][w] = disk[t][w]
<1>1. DOMAIN disk = Stores /\ \A t \in Stores : disk[t] \in [Users -> SUBSET Contents(t)]
  BY DEF TypeOK
<1>2. DOMAIN disk' = Stores
  BY <1>1
<1>3. disk'[s] = [disk[s] EXCEPT ![v] = D]
  BY <1>1
<1>4. \A t \in Stores : t # s => disk'[t] = disk[t]
  BY <1>1
<1>5. disk'[s] \in [Users -> SUBSET Contents(s)]
  BY <1>1, <1>3
<1>6. disk'[s][v] = D /\ \A w \in Users : w # v => disk'[s][w] = disk[s][w]
  BY <1>1, <1>3
<1> QED
  BY <1>1, <1>2, <1>4, <1>5, <1>6

\* An application's write changes one part of one store, which may survive
\* beside what was there.
LEMMA WritePut ==
  ASSUME TypeOK, NEW s \in Stores, NEW v \in Users, NEW x \in Contents(s), Store(s, v, x)
  PROVE  /\ DOMAIN store' = Stores /\ DOMAIN disk' = Stores
         /\ \A t \in Stores : /\ store'[t] \in [Users -> Contents(t)]
                              /\ disk'[t] \in [Users -> SUBSET Contents(t)]
         /\ store'[s][v] = x /\ x \in disk'[s][v] /\ disk'[s][v] \subseteq disk[s][v] \cup {x}
         /\ \A t \in Stores, w \in Users : (t # s \/ w # v) =>
              store'[t][w] = store[t][w] /\ disk'[t][w] = disk[t][w]
<1>1. store' = [store EXCEPT ![s][v] = x]
  BY DEF Store
<1>2. /\ DOMAIN store' = Stores
      /\ \A t \in Stores : store'[t] \in [Users -> Contents(t)]
      /\ store'[s][v] = x
      /\ \A t \in Stores, w \in Users : (t # s \/ w # v) => store'[t][w] = store[t][w]
  BY <1>1, StorePut
<1>3. {x} \in SUBSET Contents(s) /\ disk[s][v] \cup {x} \in SUBSET Contents(s)
  BY DEF TypeOK
<1>4. PICK D \in SUBSET Contents(s) :
        disk' = [disk EXCEPT ![s][v] = D] /\ (D = {x} \/ D = disk[s][v] \cup {x})
  BY <1>3 DEF Store
<1>5. x \in D /\ D \subseteq disk[s][v] \cup {x}
  BY <1>4
<1>6. /\ DOMAIN disk' = Stores
      /\ \A t \in Stores : disk'[t] \in [Users -> SUBSET Contents(t)]
      /\ disk'[s][v] = D
      /\ \A t \in Stores, w \in Users : (t # s \/ w # v) => disk'[t][w] = disk[t][w]
  BY <1>4, DiskPut
<1> QED
  BY <1>2, <1>5, <1>6

\* What Enroll makes of the stores.
LEMMA EnrollPut ==
  ASSUME TypeOK, Enroll, NEW m, m = {[gen |-> gens + 1, uses |-> 0]}
  PROVE  /\ m \in SUBSET Material /\ gens' = gens + 1 /\ u \in Users
         /\ DOMAIN store' = Stores /\ DOMAIN disk' = Stores
         /\ \A t \in Stores : /\ store'[t] \in [Users -> Contents(t)]
                              /\ disk'[t] \in [Users -> SUBSET Contents(t)]
         /\ store'["sessions"] = store["sessions"] /\ disk'["sessions"] = disk["sessions"]
         /\ \A t \in Stores \ {"sessions"} :
              /\ store'[t][u] = m /\ disk'[t][u] = {m}
              /\ \A w \in Users : w # u => store'[t][w] = store[t][w] /\ disk'[t][w] = disk[t][w]
<1>1. /\ \A t \in Stores : store[t] \in [Users -> Contents(t)] /\ disk[t] \in [Users -> SUBSET Contents(t)]
      /\ gens \in Nat /\ u \in Users
  BY DEF TypeOK, u
<1>2. m \in SUBSET Material /\ \A t \in Stores \ {"sessions"} : m \in Contents(t)
  BY <1>1 DEF Material, Contents
<1> DEFINE new == [s \in Stores |-> IF s = "sessions" THEN store[s][u] ELSE m]
<1>3. /\ store' = [s \in Stores |-> [store[s] EXCEPT ![u] = new[s]]]
      /\ disk' = [s \in Stores |-> IF s = "sessions" THEN disk[s]
                                   ELSE [disk[s] EXCEPT ![u] = {new[s]}]]
      /\ gens' = gens + 1
  BY DEF Enroll
<1>4. \A t \in Stores \ {"sessions"} :
        store'[t] = [store[t] EXCEPT ![u] = m] /\ disk'[t] = [disk[t] EXCEPT ![u] = {m}]
  BY <1>3
<1>5. "sessions" \in Stores
  BY DEF Stores
<1>6. store'["sessions"] = store["sessions"] /\ disk'["sessions"] = disk["sessions"]
  <2>1. store'["sessions"] = [store["sessions"] EXCEPT ![u] = store["sessions"][u]]
    BY <1>3, <1>5
  <2>2. disk'["sessions"] = disk["sessions"]
    BY <1>3, <1>5
  <2> QED
    BY <1>1, <1>5, <2>1, <2>2
<1>7. DOMAIN store' = Stores /\ DOMAIN disk' = Stores
  BY <1>3
<1> HIDE DEF new
<1>8. ASSUME NEW t \in Stores \ {"sessions"}
      PROVE  /\ store'[t] \in [Users -> Contents(t)] /\ disk'[t] \in [Users -> SUBSET Contents(t)]
             /\ store'[t][u] = m /\ disk'[t][u] = {m}
             /\ \A w \in Users : w # u => store'[t][w] = store[t][w] /\ disk'[t][w] = disk[t][w]
  <2>1. /\ store'[t] = [store[t] EXCEPT ![u] = m] /\ store[t] \in [Users -> Contents(t)]
        /\ m \in Contents(t)
    BY <1>1, <1>2, <1>4
  <2>2. /\ disk'[t] = [disk[t] EXCEPT ![u] = {m}] /\ disk[t] \in [Users -> SUBSET Contents(t)]
        /\ {m} \in SUBSET Contents(t)
    BY <1>1, <1>2, <1>4
  <2>3. /\ store'[t] \in [Users -> Contents(t)] /\ store'[t][u] = m
        /\ \A w \in Users : w # u => store'[t][w] = store[t][w]
    BY <1>1, <2>1
  <2>4. /\ disk'[t] \in [Users -> SUBSET Contents(t)] /\ disk'[t][u] = {m}
        /\ \A w \in Users : w # u => disk'[t][w] = disk[t][w]
    BY <1>1, <2>2
  <2> QED
    BY <2>3, <2>4
<1> QED
  BY <1>1, <1>2, <1>3, <1>5, <1>6, <1>7, <1>8

\* The initial state is well typed.
LEMMA TypeInit == Init => TypeOK
<1> SUFFICES ASSUME Init PROVE TypeOK
  OBVIOUS
<1>1. /\ DOMAIN store = Stores /\ DOMAIN disk = Stores
      /\ \A s \in Stores :
           store[s] \in [Users -> Contents(s)] /\ disk[s] \in [Users -> SUBSET Contents(s)]
  BY DEF Init, Contents
<1>2. journal \in [Receipts -> Record] /\ jdisk \in [Receipts -> SUBSET Record]
  BY FrameType DEF Init
<1>3. acct \in [Users -> [active : BOOLEAN, cred : Nat]]
  BY DEF Init
<1>4. /\ rec \in Record
      /\ req \in [kind : Kinds, user : Users, sess : Sessions \cup {Nobody},
                  receipt : Receipts \cup {Nobody}]
      /\ snap \in [cred : Nat, factor : SUBSET Material, codes : SUBSET Material]
  BY FrameType DEF Init
<1> QED
  BY <1>1, <1>2, <1>3, <1>4 DEF Init, TypeOK, Places, Stores

\* the types of the stores, of the journal and of the rest
StoreType ==
  /\ DOMAIN store = Stores /\ DOMAIN disk = Stores
  /\ \A s \in Stores :
       store[s] \in [Users -> Contents(s)] /\ disk[s] \in [Users -> SUBSET Contents(s)]

JournalType == journal \in [Receipts -> Record] /\ jdisk \in [Receipts -> SUBSET Record]

LocalType ==
  /\ pc \in Places /\ rec \in Record
  /\ req \in [kind : Kinds, user : Users, sess : Sessions \cup {Nobody},
              receipt : Receipts \cup {Nobody}]
  /\ caller \in {"recovery", "retire"} /\ stage \in Stores
  /\ snap \in [cred : Nat, factor : SUBSET Material, codes : SUBSET Material]

OuterType ==
  /\ acct \in [Users -> [active : BOOLEAN, cred : Nat]]
  /\ stale \subseteq Sessions /\ gens \in Nat /\ now \in Nat
  /\ faults \in Nat /\ crashes \in Nat

PastType ==
  /\ acks \subseteq [op : Receipts, user : Users, gen : Nat]
  /\ deleted \subseteq [op : Receipts, user : Users, gen : Nat]

\* The type invariant is these five.
LEMMA Types == TypeOK <=> StoreType /\ JournalType /\ LocalType /\ OuterType /\ PastType
  BY DEF TypeOK, StoreType, JournalType, LocalType, OuterType, PastType

\* Every step keeps the types of the credential stores.
LEMMA StoreTypeStep == TypeOK /\ [Next]_vars => StoreType'
<1> SUFFICES ASSUME TypeOK, [Next]_vars PROVE StoreType'
  OBVIOUS
<1>1. ASSUME UNCHANGED <<store, disk>> PROVE StoreType'
  BY <1>1 DEF TypeOK, StoreType
<1>2. CASE Change
  <2>1. stage \in Stores /\ rec.user \in Users /\ {} \in Contents(stage)
    BY DEF TypeOK, Record, Contents
  <2>2. disk[stage][rec.user] \cup {{}} \in SUBSET Contents(stage)
    BY <2>1 DEF TypeOK
  <2>3. store' = [store EXCEPT ![stage][rec.user] = {}]
    BY <1>2 DEF Change
  <2>4. disk' = [disk EXCEPT ![stage][rec.user] = disk[stage][rec.user] \cup {{}}]
    BY <1>2 DEF Change
  <2>5. DOMAIN store' = Stores /\ \A t \in Stores : store'[t] \in [Users -> Contents(t)]
    BY <2>1, <2>3, StorePut
  <2>6. DOMAIN disk' = Stores /\ \A t \in Stores : disk'[t] \in [Users -> SUBSET Contents(t)]
    BY <2>1, <2>2, <2>4, DiskPut
  <2> QED
    BY <2>5, <2>6 DEF StoreType
<1>3. CASE Settle
  <2>1. /\ store' = store
        /\ disk' = [disk EXCEPT ![stage] = [v \in Users |-> {store[stage][v]}]]
    BY <1>3 DEF Settle, Settled
  <2>2. [v \in Users |-> {store[stage][v]}] \in [Users -> SUBSET Contents(stage)]
    BY DEF TypeOK
  <2> QED
    BY <2>1, <2>2 DEF TypeOK, StoreType
<1>4. ASSUME NEW s \in Stores, NEW x \in Contents(s), Store(s, u, x) PROVE StoreType'
  <2>1. u \in Users
    BY DEF TypeOK, u
  <2> QED
    BY <1>4, <2>1, WritePut DEF StoreType
<1>5. CASE Login
  <2>1. PICK s \in Sessions : Store("sessions", u, store["sessions"][u] \cup {s})
    BY <1>5 DEF Login
  <2>2. "sessions" \in Stores /\ store["sessions"][u] \cup {s} \in Contents("sessions")
    BY DEF TypeOK, Contents, Stores, u
  <2> QED
    BY <1>4, <2>1, <2>2
<1>6. CASE Logout
  <2>1. PICK s : Store("sessions", u, store["sessions"][u] \ {s})
    BY <1>6 DEF Logout
  <2>2. "sessions" \in Stores /\ store["sessions"][u] \ {s} \in Contents("sessions")
    BY DEF TypeOK, Contents, Stores, u
  <2> QED
    BY <1>4, <2>1, <2>2
<1>7. CASE Use
  <2>1. PICK s \in {"factor", "codes"} : \E m \in store[s][u] :
          Store(s, u, {[m EXCEPT !.uses = @ + 1]})
    BY <1>7 DEF Use
  <2>a. PICK m \in store[s][u] : Store(s, u, {[m EXCEPT !.uses = @ + 1]})
    BY <2>1
  <2>2. s \in Stores /\ m \in Material
    BY <2>a DEF TypeOK, Contents, Stores, u
  <2>3. {[m EXCEPT !.uses = @ + 1]} \in Contents(s)
    BY <2>1, <2>2 DEF Contents, Material
  <2> QED
    BY <1>4, <2>a, <2>2, <2>3
<1>8. CASE Enroll
  BY <1>8, EnrollPut DEF StoreType
<1>9. CASE PowerLoss
  <2>1. PICK s \in Survivors(disk["sessions"]), f \in Survivors(disk["factor"]),
             c \in Survivors(disk["codes"]), l \in Survivors(disk["flags"]) :
          store' = [sessions |-> s, factor |-> f, codes |-> c, flags |-> l]
    BY <1>9 DEF PowerLoss
  <2>2. disk' = [t \in Stores |-> [v \in Users |-> {store'[t][v]}]]
    BY <1>9 DEF PowerLoss
  <2>3. ASSUME NEW t \in Stores, NEW g \in Survivors(disk[t]) PROVE g \in [Users -> Contents(t)]
    BY <2>3 DEF Survivors, TypeOK
  <2>4. /\ s \in [Users -> Contents("sessions")] /\ f \in [Users -> Contents("factor")]
        /\ c \in [Users -> Contents("codes")] /\ l \in [Users -> Contents("flags")]
    BY <2>1, <2>3 DEF Stores
  <2>5. DOMAIN store' = Stores /\ \A t \in Stores : store'[t] \in [Users -> Contents(t)]
    BY <2>1, <2>4 DEF Stores
  <2>6. \A t \in Stores : disk'[t] \in [Users -> SUBSET Contents(t)]
    BY <2>2, <2>5
  <2> QED
    BY <2>2, <2>5, <2>6 DEF StoreType
<1> QED
  BY <1>1, <1>2, <1>3, <1>5, <1>6, <1>7, <1>8, <1>9
     DEF Next, Coordinator, Application, Enter, Prepare, RecoverApply, Recovered, Rename, Sync,
         Begin, Authorized, Again, Admit, Check, Verified, Answer, readReceipt, EditAccount,
         Refuse, IOError, Expire, Tick, SetBack, Crash, vars, creds

\* A power loss leaves each name one of the records it may resolve to.
LEMMA LossJournal ==
  ASSUME TypeOK, PowerLoss
  PROVE  \A o \in Receipts : journal'[o] \in jdisk[o] /\ jdisk'[o] = {journal'[o]}
<1>1. journal' \in Survivors(jdisk) /\ jdisk' = [o \in Receipts |-> {journal'[o]}]
  BY DEF PowerLoss
<1>2. DOMAIN jdisk = Receipts
  BY DEF TypeOK
<1> QED
  BY <1>1, <1>2 DEF Survivors

\* Every step keeps the types of the journal.
LEMMA JournalTypeStep == TypeOK /\ [Next]_vars => JournalType'
<1> SUFFICES ASSUME TypeOK, [Next]_vars PROVE JournalType'
  OBVIOUS
<1>1. CASE UNCHANGED <<journal, jdisk>>
  BY <1>1 DEF TypeOK, JournalType
<1>2. CASE JournalSynced
  BY <1>2 DEF TypeOK, JournalType, JournalSynced
<1>3. CASE Rename
  BY <1>3 DEF TypeOK, JournalType, Rename
<1>4. CASE PowerLoss
  <2>1. journal' \in [Receipts -> Record]
    BY <1>4 DEF PowerLoss, Survivors, TypeOK
  <2>2. jdisk' = [o \in Receipts |-> {journal'[o]}]
    BY <1>4 DEF PowerLoss
  <2> QED
    BY <2>1, <2>2 DEF JournalType
<1> QED
  BY <1>1, <1>2, <1>3, <1>4
     DEF Next, Coordinator, Application, Enter, Prepare, RecoverApply, Recovered, Sync,
         Begin, Authorized, Again, Admit, Check, Change, Settle, Verified, Answer, readReceipt,
         Login, Logout, Use, Enroll, EditAccount, Refuse, IOError, Expire, Tick, SetBack, Crash,
         vars, files

\* Every step keeps the types of what the operation keeps to itself.
LEMMA LocalTypeStep == TypeOK /\ [Next]_vars => LocalType'
<1> SUFFICES ASSUME TypeOK, [Next]_vars PROVE LocalType'
  OBVIOUS
<1>a. LocalType /\ JournalType /\ StoreType /\ OuterType
  BY Types
<1>b. u \in Users
  BY <1>a DEF LocalType, u
<1>1. CASE Leave
  BY <1>1, LeaveType DEF LocalType
<1>2. CASE UNCHANGED <<local, pc>>
  BY <1>2, <1>a DEF LocalType, local
<1>3. CASE UNCHANGED local /\ pc' \in Places
  BY <1>3, <1>a DEF LocalType, local
<1>4. CASE Enter
  <2>1. req' \in [kind : Kinds, user : Users, sess : Sessions \cup {Nobody},
                  receipt : Receipts \cup {Nobody}]
    BY <1>4 DEF Enter, Request, Kinds
  <2> QED
    BY <1>4, <1>a, <2>1 DEF Enter, LocalType, Goto, Places
<1>5. CASE RecoverApply
  <2>1. rec' \in Record
    BY <1>5, <1>a DEF RecoverApply, JournalType, Unapplied
  <2> QED
    BY <1>5, <1>a, <2>1 DEF RecoverApply, LocalType, Goto, Places
<1>6. CASE Begin
  <2>1. /\ acct[u].cred \in Nat /\ store["factor"][u] \in SUBSET Material
        /\ store["codes"][u] \in SUBSET Material
    BY <1>a, <1>b DEF OuterType, StoreType, Stores, Contents
  <2>2. snap' \in [cred : Nat, factor : SUBSET Material, codes : SUBSET Material]
    BY <1>6, <2>1 DEF Begin
  <2> QED
    BY <1>6, <1>a, <2>2 DEF Begin, LocalType, Goto, Places
<1>7. CASE Authorized
  BY <1>7, <1>a DEF Authorized, LocalType, Goto, Places
<1>8. CASE Again
  <2>1. PICK f \in store["factor"][u] :
          rec' = [st |-> "committed", op |-> req.receipt, user |-> u,
                  gen |-> f.gen, factor |-> {f}, codes |-> store["codes"][u],
                  at |-> 0, done |-> 0]
    BY <1>8 DEF Again
  <2>2. f \in Material /\ store["codes"][u] \in SUBSET Material /\ f.gen \in Nat
    BY <1>a, <1>b, <2>1 DEF StoreType, Stores, Contents, Material
  <2>3. req.receipt \in Receipts \cup {Nobody}
    BY <1>a DEF LocalType
  <2>4. rec' \in Record
    BY <1>b, <2>1, <2>2, <2>3 DEF Record
  <2> QED
    BY <1>8, <1>a, <2>4 DEF Again, LocalType, Goto, Places
<1>9. CASE Admit
  <2>1. rec' \in Record
    BY <1>9, <1>a DEF Admit, LocalType, OuterType, Record
  <2> QED
    BY <1>9, <1>a, <2>1 DEF Admit, LocalType, Goto, Places
<1>10. CASE Check
  BY <1>10, <1>a DEF Check, LocalType, Goto, Places, Stores
<1>11. CASE Settle
  <2>1. stage' \in Stores
    BY <1>11, <1>a DEF Settle, LocalType, Following, Stores
  <2> QED
    BY <1>11, <1>a, <2>1 DEF Settle, LocalType, Goto, Places
<1>12. CASE Verified
  <2>1. rec' \in Record
    BY <1>12, <1>a DEF Verified, LocalType, OuterType, Record
  <2> QED
    BY <1>12, <1>a, <2>1 DEF Verified, LocalType, Goto, Places
<1>13. CASE Prepare \/ Recovered \/ Rename \/ Sync \/ Change
  <2>1. UNCHANGED local
    BY <1>13 DEF Prepare, Recovered, Rename, Sync, Change
  <2>2. pc' \in Places
    BY <1>13 DEF Prepare, Recovered, Rename, Sync, Change, Goto, Places
  <2> QED
    BY <1>3, <2>1, <2>2
<1>14. CASE Application
  <2>1. Held
    BY <1>14 DEF Application, Login, Logout, Use, Enroll, EditAccount
  <2> QED
    BY <1>1, <1>2, <2>1 DEF Held
<1>15. CASE Answer \/ readReceipt \/ Refuse \/ IOError \/ Crash \/ PowerLoss
  BY <1>1, <1>15 DEF Answer, readReceipt, Refuse, IOError, Crash, PowerLoss, Restart
<1>16. CASE Expire \/ Tick \/ SetBack \/ UNCHANGED vars
  BY <1>2, <1>16 DEF Expire, Tick, SetBack, vars
<1> QED
  BY <1>4, <1>5, <1>6, <1>7, <1>8, <1>9, <1>10, <1>11, <1>12, <1>13, <1>14, <1>15, <1>16
     DEF Next, Coordinator

\* Every step keeps the types of the surroundings.
LEMMA OuterTypeStep == TypeOK /\ [Next]_vars => OuterType'
<1> SUFFICES ASSUME TypeOK, [Next]_vars PROVE OuterType'
  OBVIOUS
<1>a. OuterType /\ u \in Users
  BY DEF OuterType, TypeOK, u
<1>1. /\ stale' = stale \/ \E s \in Sessions : stale' = stale \cup {s}
      /\ gens' = gens \/ gens' = gens + 1
      /\ now' = now \/ now' = now + 1 \/ (now > 0 /\ now' = now - 1)
      /\ faults' = faults \/ faults' = faults + 1
      /\ crashes' = crashes \/ crashes' = crashes + 1
  BY DEF Next, Coordinator, Application, Enter, Prepare, RecoverApply, Recovered, Sync, Rename,
         Begin, Authorized, Again, Admit, Check, Change, Settle, Verified, Answer, readReceipt,
         Login, Logout, Use, Enroll, EditAccount, Refuse, IOError, Expire, Tick, SetBack, Crash,
         PowerLoss, Restart, Fault, vars, outer
<1>2. acct' = acct \/ acct' = [acct EXCEPT ![u].active = ~@]
        \/ acct' = [acct EXCEPT ![u].cred = @ + 1]
  BY DEF Next, Coordinator, Application, Enter, Prepare, RecoverApply, Recovered, Sync, Rename,
         Begin, Authorized, Again, Admit, Check, Change, Settle, Verified, Answer, readReceipt,
         Login, Logout, Use, Enroll, EditAccount, Refuse, IOError, Expire, Tick, SetBack, Crash,
         PowerLoss, Restart, vars, outer
<1>3. acct' \in [Users -> [active : BOOLEAN, cred : Nat]]
  <2>1. acct \in [Users -> [active : BOOLEAN, cred : Nat]]
    BY <1>a DEF OuterType
  <2>2. acct[u] \in [active : BOOLEAN, cred : Nat]
    BY <1>a, <2>1
  <2>3. ASSUME NEW b \in BOOLEAN
        PROVE  [acct[u] EXCEPT !.active = b] \in [active : BOOLEAN, cred : Nat]
    BY <2>2
  <2>4. [acct[u] EXCEPT !.cred = @ + 1] \in [active : BOOLEAN, cred : Nat]
    BY <2>2
  <2>5. CASE acct' = [acct EXCEPT ![u].active = ~@]
    <3>1. (~acct[u].active) \in BOOLEAN
      OBVIOUS
    <3>2. acct' = [acct EXCEPT ![u] = [acct[u] EXCEPT !.active = ~acct[u].active]]
      BY <2>5
    <3> QED
      BY <2>1, <2>3, <3>1, <3>2
  <2>6. CASE acct' = [acct EXCEPT ![u].cred = @ + 1]
    BY <2>1, <2>4, <2>6
  <2> QED
    BY <1>2, <2>1, <2>5, <2>6
<1> QED
  BY <1>1, <1>3, <1>a DEF OuterType

\* Every step keeps the types of what was answered and deleted.
LEMMA PastTypeStep == IInv /\ [Next]_vars => PastType'
<1> SUFFICES ASSUME IInv, [Next]_vars PROVE PastType'
  OBVIOUS
<1>a. PastType /\ JournalType /\ LocalType
  BY Types DEF IInv
<1>1. CASE UNCHANGED <<acks, deleted>>
  BY <1>1, <1>a DEF PastType
<1>2. ASSUME NEW r \in Record, r.op \in Receipts
      PROVE  [op |-> r.op, user |-> r.user, gen |-> r.gen] \in [op : Receipts, user : Users, gen : Nat]
  BY <1>2 DEF Record
<1>3. CASE Change
  <2>1. rec.op \in Receipts /\ rec \in Record /\ acks' = acks
        /\ (deleted' = deleted \/
            deleted' = deleted \cup {[op |-> rec.op, user |-> rec.user, gen |-> rec.gen]})
    BY <1>3, <1>a DEF Change, IInv, WorkInv, ApplyInv, LocalType
  <2> QED
    BY <1>2, <1>a, <2>1 DEF PastType
<1>4. CASE Answer
  <2>1. /\ rec.op \in Receipts /\ rec \in Record /\ deleted' = deleted
        /\ acks' = acks \cup {[op |-> rec.op, user |-> rec.user, gen |-> rec.gen]}
    BY <1>4, <1>a DEF Answer, Acknowledge, IInv, WorkInv, ReceiptInv, LocalType
  <2> QED
    BY <1>2, <1>a, <2>1 DEF PastType
<1>5. CASE readReceipt
  <2> DEFINE r == journal[req.receipt]
  <2>1. req.receipt \in Receipts /\ r.st = "applied"
    BY <1>5 DEF readReceipt, IInv, WorkInv, RequestInv
  <2>2. r.op \in Receipts /\ r \in Record
    BY <1>a, <2>1 DEF IInv, StoreInv, FileInv, Parses, JournalType
  <2>3. /\ acks' = acks \cup {[op |-> r.op, user |-> r.user, gen |-> r.gen]}
        /\ deleted' = deleted
    BY <1>5 DEF readReceipt, Acknowledge
  <2> HIDE DEF r
  <2> QED
    BY <1>2, <1>a, <2>2, <2>3 DEF PastType
<1> QED
  BY <1>1, <1>3, <1>4, <1>5
     DEF Next, Coordinator, Application, Enter, Prepare, RecoverApply, Recovered, Sync, Rename,
         Begin, Authorized, Again, Admit, Check, Settle, Verified,
         Login, Logout, Use, Enroll, EditAccount, Refuse, IOError, Expire, Tick, SetBack, Crash,
         PowerLoss, Restart, vars, past

\* Every step keeps the types.
LEMMA TypeStep == IInv /\ [Next]_vars => TypeOK'
<1>1. IInv => TypeOK
  BY DEF IInv
<1>2. StoreType' /\ JournalType' /\ LocalType' /\ OuterType' /\ PastType' => TypeOK'
  BY DEF TypeOK, StoreType, JournalType, LocalType, OuterType, PastType
<1> QED
  BY <1>1, <1>2, StoreTypeStep, JournalTypeStep, LocalTypeStep, OuterTypeStep, PastTypeStep

-----------------------------------------------------------------------------
(***************************************************************************)
(* The files.                                                              *)
(***************************************************************************)

\* The initial state satisfies the invariant.
LEMMA InvInit == Init => IInv
<1> SUFFICES ASSUME Init PROVE IInv
  OBVIOUS
<1>1. /\ \A s \in Stores, v \in Users : store[s][v] = {} /\ disk[s][v] = {{}}
      /\ \A o \in Receipts : journal[o] = Absent /\ jdisk[o] = {Absent}
      /\ gens = 0 /\ acks = {} /\ deleted = {} /\ pc = "idle" /\ req = NoRequest
  BY DEF Init
<1>2. "sessions" \in Stores /\ "factor" \in Stores /\ "codes" \in Stores /\ "flags" \in Stores
  BY DEF Stores
<1>3. FileInv
  BY <1>1, <1>2, FrameType DEF FileInv, Parses
<1>4. WholeInv
  BY <1>1, <1>2 DEF WholeInv, Whole
<1>5. OneInv /\ AppliedInv /\ AckInv /\ DeletedInv /\ RevokedBeforeWeakened /\ ReceiptSpendsOnce
  BY <1>1, FrameType DEF OneInv, AppliedInv, AckInv, DeletedInv, RevokedBeforeWeakened,
                         ReceiptSpendsOnce
<1>6. RoomInv
  <2>1. Occupied = {}
    BY <1>1, FrameType DEF Occupied
  <2> QED
    BY <2>1, FS_EmptySet, LimitAssumption DEF RoomInv
<1>7. WorkInv
  BY <1>1, FrameType DEF WorkInv, SyncInv, ReadyInv, RequestInv, DraftInv, ApplyInv, ReceiptInv
<1> QED
  BY <1>3, <1>4, <1>5, <1>6, <1>7, TypeInit DEF IInv, StoreInv

\* The stores by name.
LEMMA StoreNames ==
  /\ "sessions" \in Stores /\ "factor" \in Stores /\ "codes" \in Stores /\ "flags" \in Stores
  /\ \A s \in {"factor", "codes"} : s \in Stores /\ s # "sessions" /\ s # "flags"
  BY DEF Stores

\* A step that only decides what survives, by a sync or a loss of power, or
\* that leaves the files alone, keeps the invariant of the files.
LEMMA ShrinkStep ==
  ASSUME TypeOK, StoreInv, UNCHANGED <<gens, acks, deleted>>,
         \A s \in Stores, v \in Users :
           store'[s][v] \in disk'[s][v] /\ disk'[s][v] \subseteq disk[s][v],
         \A o \in Receipts : journal'[o] \in jdisk'[o] /\ jdisk'[o] \subseteq jdisk[o]
  PROVE  StoreInv'
<1> USE StoreNames
<1>a. \A o \in Receipts : \A r \in jdisk[o] : r.user \in Users
  BY DEF TypeOK, Record
<1>b. /\ \A a \in acks : a.op \in Receipts /\ a.user \in Users
      /\ \A d \in deleted : d.op \in Receipts
  BY DEF TypeOK
<1>1. FileInv'
  BY DEF StoreInv, FileInv, Parses
<1>2. WholeInv'
  <2>1. ASSUME NEW v \in Users, Whole(v) PROVE Whole(v)'
    BY <2>1 DEF Whole
  <2>2. ASSUME NEW v \in Users, Excused(v) PROVE Excused(v)'
    BY <2>2 DEF Excused
  <2> QED
    BY <2>1, <2>2 DEF StoreInv, WholeInv
<1>3. OneInv'
  BY DEF StoreInv, OneInv
<1>4. AppliedInv'
  BY <1>a DEF StoreInv, AppliedInv
<1>5. AckInv' /\ DeletedInv'
  BY <1>b DEF StoreInv, AckInv, DeletedInv
<1>6. RevokedBeforeWeakened'
  <2>1. SUFFICES ASSUME NEW o \in Receipts, NEW r \in jdisk'[o], r.st = "committed",
                        {} \in disk'["factor"][r.user]
                 PROVE  disk'["sessions"][r.user] = {{}}
    BY DEF RevokedBeforeWeakened
  <2>2. r \in jdisk[o] /\ r.user \in Users
    BY <1>a, <2>1
  <2>3. disk["sessions"][r.user] = {{}}
    BY <2>1, <2>2 DEF StoreInv, RevokedBeforeWeakened
  <2>4. store'["sessions"][r.user] \in disk'["sessions"][r.user]
        /\ disk'["sessions"][r.user] \subseteq {{}}
    BY <2>2, <2>3
  <2> QED
    BY <2>4
<1>7. RoomInv'
  <2>1. Occupied' \in SUBSET Occupied
    BY DEF Occupied
  <2>2. IsFiniteSet(Occupied) /\ Cardinality(Occupied) <= MaxRecords
    BY DEF StoreInv, RoomInv
  <2>3. IsFiniteSet(Occupied') /\ Cardinality(Occupied') <= Cardinality(Occupied)
    BY <2>1, <2>2, FS_Subset
  <2>4. Cardinality(Occupied') \in Nat /\ Cardinality(Occupied) \in Nat
    BY <2>2, <2>3, FS_CardinalityType
  <2>5. Cardinality(Occupied') <= MaxRecords
    BY <2>2, <2>3, <2>4, LimitAssumption
  <2> QED
    BY <2>3, <2>5 DEF RoomInv
<1>8. ReceiptSpendsOnce'
  BY DEF StoreInv, ReceiptSpendsOnce
<1> QED
  BY <1>1, <1>2, <1>3, <1>4, <1>5, <1>6, <1>7, <1>8 DEF StoreInv

\* Leaving the files alone.
LEMMA QuietStep ==
  ASSUME TypeOK, StoreInv, UNCHANGED <<gens, acks, deleted, store, disk, journal, jdisk>>
  PROVE  StoreInv'
<1>1. \A s \in Stores, v \in Users :
        store'[s][v] \in disk'[s][v] /\ disk'[s][v] \subseteq disk[s][v]
  BY DEF StoreInv, FileInv
<1>2. \A o \in Receipts : journal'[o] \in jdisk'[o] /\ jdisk'[o] \subseteq jdisk[o]
  BY DEF StoreInv, FileInv
<1> QED
  BY <1>1, <1>2, ShrinkStep

\* prepare() and publish() sync the journal.
LEMMA JournalSyncStep ==
  ASSUME TypeOK, StoreInv, JournalSynced, UNCHANGED <<gens, acks, deleted, store, disk>>
  PROVE  StoreInv'
<1>1. \A s \in Stores, v \in Users :
        store'[s][v] \in disk'[s][v] /\ disk'[s][v] \subseteq disk[s][v]
  BY DEF StoreInv, FileInv
<1>2. \A o \in Receipts : journal'[o] \in jdisk'[o] /\ jdisk'[o] \subseteq jdisk[o]
  BY DEF StoreInv, FileInv, JournalSynced
<1> QED
  BY <1>1, <1>2, ShrinkStep

\* apply() syncs the directory of the store it has cleared.
LEMMA SettleStep ==
  ASSUME TypeOK, StoreInv, Settle
  PROVE  StoreInv'
<1>1. /\ store' = store /\ UNCHANGED <<gens, acks, deleted, journal, jdisk>>
      /\ disk' = [disk EXCEPT ![stage] = [v \in Users |-> {store[stage][v]}]]
  BY DEF Settle, Settled, files, past, outer
<1>2. DOMAIN disk = Stores
  BY DEF TypeOK
<1>3. \A s \in Stores, v \in Users : disk'[s][v] = IF s = stage THEN {store[s][v]} ELSE disk[s][v]
  BY <1>1, <1>2
<1>4. \A s \in Stores, v \in Users :
        store'[s][v] \in disk'[s][v] /\ disk'[s][v] \subseteq disk[s][v]
  BY <1>1, <1>3 DEF StoreInv, FileInv
<1>5. \A o \in Receipts : journal'[o] \in jdisk'[o] /\ jdisk'[o] \subseteq jdisk[o]
  BY <1>1 DEF StoreInv, FileInv
<1> QED
  BY <1>1, <1>4, <1>5, ShrinkStep

\* A power loss decides what survives.
LEMMA LossStep ==
  ASSUME TypeOK, StoreInv, PowerLoss
  PROVE  StoreInv'
<1>1. UNCHANGED <<gens, acks, deleted>>
  BY DEF PowerLoss, Restart, past, outer
<1>2. PICK s \in Survivors(disk["sessions"]), f \in Survivors(disk["factor"]),
           c \in Survivors(disk["codes"]), l \in Survivors(disk["flags"]) :
        store' = [sessions |-> s, factor |-> f, codes |-> c, flags |-> l]
  BY DEF PowerLoss
<1>3. disk' = [t \in Stores |-> [v \in Users |-> {store'[t][v]}]]
  BY DEF PowerLoss
<1>4. ASSUME NEW t \in Stores, NEW g \in Survivors(disk[t]), NEW v \in Users
      PROVE  g[v] \in disk[t][v]
  BY DEF Survivors, TypeOK
<1>5. \A v \in Users : /\ s[v] \in disk["sessions"][v] /\ f[v] \in disk["factor"][v]
                       /\ c[v] \in disk["codes"][v] /\ l[v] \in disk["flags"][v]
  BY <1>4, StoreNames
<1>6. \A t \in Stores, v \in Users : store'[t][v] \in disk[t][v]
  BY <1>2, <1>5 DEF Stores
<1>7. \A t \in Stores, v \in Users :
        store'[t][v] \in disk'[t][v] /\ disk'[t][v] \subseteq disk[t][v]
  BY <1>3, <1>6
<1>8. \A o \in Receipts : journal'[o] \in jdisk'[o] /\ jdisk'[o] \subseteq jdisk[o]
  BY LossJournal
<1> QED
  BY <1>1, <1>7, <1>8, ShrinkStep

\* publish() renames a record into place: a new one of an account that nothing
\* was taken from, or the receipt over the committed record it completes.
LEMMA RenameStep ==
  ASSUME IInv, Rename
  PROVE  StoreInv'
<1> USE StoreNames
<1>1. /\ pc = "rename" /\ rec.op \in Receipts /\ rec \in Record
      /\ rec.st \in {"committed", "applied"} /\ Parses(rec.op, rec)
  BY DEF Rename, IInv, TypeOK, WorkInv, DraftInv, ReceiptInv
<1>2. UNCHANGED <<store, disk, gens, acks, deleted>>
  BY DEF Rename, creds, past, outer
<1>3. \A o \in Receipts : jdisk[o] = {journal[o]} /\ journal[o] \in Record
  BY <1>1 DEF IInv, TypeOK, WorkInv, SyncInv
<1>4. /\ \A o \in Receipts : journal'[o] = IF o = rec.op THEN rec ELSE journal[o]
      /\ \A o \in Receipts : jdisk'[o] = IF o = rec.op THEN {journal[o], rec} ELSE jdisk[o]
  BY <1>1, <1>3 DEF Rename, IInv, TypeOK
<1>5. \A o \in Receipts : \A r \in jdisk'[o] : r \in jdisk[o] \/ (o = rec.op /\ r = rec)
  BY <1>3, <1>4
<1>6. \A o \in Receipts : \A r \in jdisk[o] : r \in jdisk'[o] /\ r \in Record
  <2>1. SUFFICES ASSUME NEW o \in Receipts PROVE journal[o] \in jdisk'[o] /\ journal[o] \in Record
    BY <1>3
  <2>2. jdisk'[o] = {journal[o], rec} \/ jdisk'[o] = {journal[o]}
    BY <1>3, <1>4
  <2> QED
    BY <1>3, <2>2
<1>7. StoreInv /\ FileInv /\ OneInv /\ WholeInv
  BY DEF IInv, StoreInv
<1>8. \A o \in Receipts : journal'[o] \in jdisk'[o]
  BY <1>3, <1>4
<1>9. ReceiptSpendsOnce'
  BY <1>2, <1>7 DEF StoreInv, ReceiptSpendsOnce
<1>10. /\ \A a \in acks : a.op \in Receipts
       /\ \A d \in deleted : d.op \in Receipts
  BY DEF IInv, TypeOK
<1>11. CASE rec.st = "committed"
  <2>1. /\ \A o \in Receipts : journal[o].st # "committed"
        /\ journal[rec.op].st = "absent" /\ rec.gen <= gens
        /\ {} \notin disk["factor"][rec.user]
        /\ IsFiniteSet(Occupied \cup {rec.op})
        /\ Cardinality(Occupied \cup {rec.op}) <= MaxRecords
    BY <1>1, <1>11 DEF IInv, WorkInv, DraftInv
  <2>2. \A o \in Receipts : \A r \in jdisk[o] : r.st # "committed"
    BY <1>3, <2>1
  <2>3. FileInv'
    BY <1>1, <1>2, <1>5, <1>7, <1>8, <2>1 DEF FileInv, Parses
  <2>4. WholeInv'
    <3>1. \A v \in Users : Whole(v)
      BY <1>7, <2>2 DEF WholeInv, Excused
    <3>2. \A v \in Users : Whole(v)'
      BY <1>2, <3>1 DEF Whole
    <3> QED
      BY <3>2 DEF WholeInv
  <2>5. OneInv'
    BY <1>5, <2>2 DEF OneInv
  <2>6. AppliedInv'
    BY <1>2, <1>5, <1>7, <1>11 DEF StoreInv, AppliedInv
  <2>7. AckInv' /\ DeletedInv'
    <3>1. journal[rec.op] \in jdisk[rec.op]
      BY <1>1, <1>3
    <3>2. /\ \A a \in acks : a.op # rec.op
          /\ \A d \in deleted : d.op # rec.op
      BY <1>7, <2>1, <3>1 DEF StoreInv, AckInv, DeletedInv
    <3> QED
      BY <1>2, <1>4, <1>7, <1>10, <3>2 DEF StoreInv, AckInv, DeletedInv
  <2>8. RevokedBeforeWeakened'
    BY <1>2, <1>5, <2>1, <2>2 DEF RevokedBeforeWeakened
  <2>9. RoomInv'
    <3>1. Occupied' \in SUBSET (Occupied \cup {rec.op})
      BY <1>5 DEF Occupied
    <3>2. /\ IsFiniteSet(Occupied')
          /\ Cardinality(Occupied') <= Cardinality(Occupied \cup {rec.op})
      BY <2>1, <3>1, FS_Subset
    <3>3. Cardinality(Occupied') \in Nat /\ Cardinality(Occupied \cup {rec.op}) \in Nat
      BY <2>1, <3>2, FS_CardinalityType
    <3>4. Cardinality(Occupied') <= MaxRecords
      BY <2>1, <3>2, <3>3, LimitAssumption
    <3> QED
      BY <3>2, <3>4 DEF RoomInv
  <2> QED
    BY <1>9, <2>3, <2>4, <2>5, <2>6, <2>7, <2>8, <2>9 DEF StoreInv
<1>12. CASE rec.st = "applied"
  <2> DEFINE old == journal[rec.op]
  <2>1. /\ old.st = "committed" /\ old.user = rec.user /\ old.gen = rec.gen
        /\ \A s \in Stores : disk[s][rec.user] = {{}}
    BY <1>1, <1>12 DEF IInv, WorkInv, ReceiptInv, Gone
  <2>2. old \in jdisk[rec.op]
    BY <1>1, <1>3
  <2> HIDE DEF old
  <2>3. \A o \in Receipts : \A r \in jdisk[o] : r.st = "committed" => o = rec.op
    BY <1>1, <1>7, <2>1, <2>2 DEF OneInv
  <2>4. rec.gen <= gens
    BY <1>1, <1>7, <2>1, <2>2 DEF FileInv
  <2>5. FileInv'
    BY <1>1, <1>2, <1>5, <1>7, <1>8, <2>4 DEF FileInv, Parses
  <2>6. WholeInv'
    <3>1. \A v \in Users : v # rec.user => ~Excused(v)
      BY <1>3, <2>1, <2>2, <2>3 DEF Excused
    <3>2. Whole(rec.user)
      BY <2>1 DEF Whole
    <3>3. \A v \in Users : Whole(v)
      BY <1>7, <3>1, <3>2 DEF WholeInv
    <3>4. \A v \in Users : Whole(v)'
      BY <1>2, <3>3 DEF Whole
    <3> QED
      BY <3>4 DEF WholeInv
  <2>7. OneInv'
    BY <1>5, <1>7, <1>12 DEF OneInv
  <2>8. AppliedInv'
    BY <1>2, <1>5, <1>7, <2>1 DEF StoreInv, AppliedInv
  <2>9. AckInv'
    <3>1. \A a \in acks : a.op # rec.op
      BY <1>7, <2>1, <2>2 DEF StoreInv, AckInv
    <3> QED
      BY <1>2, <1>4, <1>7, <1>10, <3>1 DEF StoreInv, AckInv
  <2>10. DeletedInv'
    BY <1>2, <1>5, <1>7, <1>10, <1>12, <2>1, <2>2 DEF StoreInv, DeletedInv
  <2>11. RevokedBeforeWeakened'
    BY <1>2, <1>5, <1>7, <1>12 DEF StoreInv, RevokedBeforeWeakened
  <2>12. RoomInv'
    <3>1. Occupied' = Occupied
      BY <1>1, <1>5, <1>6, <2>1, <2>2 DEF Occupied
    <3> QED
      BY <1>7, <3>1 DEF StoreInv, RoomInv
  <2> QED
    BY <1>9, <2>5, <2>6, <2>7, <2>8, <2>9, <2>10, <2>11, <2>12 DEF StoreInv
<1> QED
  BY <1>1, <1>11, <1>12

\* What apply() makes of the stores when it clears one.
LEMMA ClearPut ==
  ASSUME TypeOK, NEW v \in Users, NEW g \in Stores, store' = [store EXCEPT ![g][v] = {}],
         disk' = [disk EXCEPT ![g][v] = disk[g][v] \cup {{}}]
  PROVE  /\ store'[g][v] = {}
         /\ \A t \in Stores, w \in Users : (t # g \/ w # v) => store'[t][w] = store[t][w]
         /\ disk'[g][v] = disk[g][v] \cup {{}}
         /\ \A t \in Stores, w \in Users : (t # g \/ w # v) => disk'[t][w] = disk[t][w]
<1>1. {} \in Contents(g)
  BY DEF Contents
<1>2. disk[g][v] \cup {{}} \in SUBSET Contents(g)
  BY <1>1 DEF TypeOK
<1>3. /\ DOMAIN store' = Stores
      /\ \A t \in Stores : store'[t] \in [Users -> Contents(t)]
      /\ store'[g][v] = {}
      /\ \A t \in Stores, w \in Users : (t # g \/ w # v) => store'[t][w] = store[t][w]
  BY <1>1, StorePut
<1>4. /\ DOMAIN disk' = Stores
      /\ \A t \in Stores : disk'[t] \in [Users -> SUBSET Contents(t)]
      /\ disk'[g][v] = disk[g][v] \cup {{}}
      /\ \A t \in Stores, w \in Users : (t # g \/ w # v) => disk'[t][w] = disk[t][w]
  BY <1>2, DiskPut
<1> QED
  BY <1>3, <1>4

\* apply() clears one store of the account whose committed record is durable.
LEMMA ChangeStep ==
  ASSUME IInv, Change
  PROVE  StoreInv'
<1>a. TypeOK
  BY DEF IInv
<1>b. rec.user \in Users /\ stage \in Stores /\ rec.gen \in Nat
  BY <1>a DEF TypeOK, Record
<1>c. PICK v \in Users, g \in Stores : v = rec.user /\ g = stage
  BY <1>b
<1>1. /\ rec.op \in Receipts /\ rec.st = "committed" /\ jdisk[rec.op] = {rec}
      /\ g = "factor" => disk["sessions"][v] = {{}}
  BY <1>c DEF Change, IInv, WorkInv, SyncInv, ApplyInv, Gone
<1>d. /\ store' = [store EXCEPT ![g][v] = {}]
      /\ disk' = [disk EXCEPT ![g][v] = disk[g][v] \cup {{}}]
  BY <1>c DEF Change
<1>7. /\ store'[g][v] = {}
      /\ \A t \in Stores, w \in Users : (t # g \/ w # v) => store'[t][w] = store[t][w]
      /\ disk'[g][v] = disk[g][v] \cup {{}}
      /\ \A t \in Stores, w \in Users : (t # g \/ w # v) => disk'[t][w] = disk[t][w]
  BY <1>a, <1>d, ClearPut
<1> USE StoreNames
<1> DEFINE entry == [op |-> rec.op, user |-> rec.user, gen |-> rec.gen]
<1>2. /\ UNCHANGED <<journal, jdisk, gens, acks>>
      /\ deleted' = deleted \/ deleted' = deleted \cup {entry}
  BY DEF Change, files, outer
<1>8. StoreInv
  BY DEF IInv
<1>9. \A t \in Stores, w \in Users : \A x \in disk'[t][w] : x \in disk[t][w] \/ x = {}
  BY <1>1, <1>7
<1>10. /\ entry \in [op : Receipts, user : Users, gen : Nat]
       /\ entry.op = rec.op /\ entry.user = rec.user /\ entry.gen = rec.gen
  BY <1>1, <1>b
<1> HIDE DEF entry
<1>11. FileInv'
  <2>1. \A t \in Stores, w \in Users : store'[t][w] \in disk'[t][w]
    BY <1>1, <1>7, <1>8 DEF StoreInv, FileInv
  <2>2. \A s \in {"factor", "codes"}, w \in Users : \A x \in disk'[s][w] : \A m \in x :
          m.gen <= gens
    BY <1>8, <1>9 DEF StoreInv, FileInv
  <2> QED
    BY <1>2, <1>8, <2>1, <2>2 DEF StoreInv, FileInv, Parses
<1>12. WholeInv'
  <2>1. Excused(v)'
    BY <1>1, <1>2, <1>c DEF Excused
  <2>2. ASSUME NEW w \in Users, w # v, Excused(w) PROVE Excused(w)'
    BY <1>2, <2>2 DEF Excused
  <2>3. ASSUME NEW w \in Users, w # v, Whole(w) PROVE Whole(w)'
    BY <1>7, <2>3 DEF Whole
  <2> QED
    BY <1>8, <2>1, <2>2, <2>3 DEF StoreInv, WholeInv
<1>13. OneInv' /\ AckInv'
  BY <1>2, <1>8 DEF StoreInv, OneInv, AckInv
<1>14. AppliedInv'
  <2>1. \A o \in Receipts : \A r \in jdisk[o] : r.user \in Users
    BY <1>a DEF TypeOK, Record
  <2> QED
    BY <1>2, <1>8, <1>9, <2>1 DEF StoreInv, AppliedInv
<1>15. DeletedInv'
  BY <1>1, <1>2, <1>8, <1>10 DEF StoreInv, DeletedInv
<1>16. RevokedBeforeWeakened'
  <2>1. SUFFICES ASSUME NEW o \in Receipts, NEW r \in jdisk[o], r.st = "committed",
                        {} \in disk'["factor"][r.user]
                 PROVE  disk'["sessions"][r.user] = {{}}
    BY <1>2 DEF RevokedBeforeWeakened
  <2>2. r.user = v
    BY <1>1, <1>c, <1>8, <2>1 DEF StoreInv, OneInv
  <2>3. CASE g = "factor"
    BY <1>1, <1>7, <2>2, <2>3
  <2>4. CASE g # "factor"
    <3>1. disk["sessions"][v] = {{}}
      <4>1. {} \in disk["factor"][v]
        BY <1>7, <2>1, <2>2, <2>4
      <4> QED
        BY <1>8, <2>1, <2>2, <4>1 DEF StoreInv, RevokedBeforeWeakened
    <3>2. disk'["sessions"][v] = disk["sessions"][v] \/ disk'["sessions"][v] = disk["sessions"][v] \cup {{}}
      BY <1>1, <1>7
    <3> QED
      BY <2>2, <3>1, <3>2
  <2> QED
    BY <2>3, <2>4
<1>17. RoomInv'
  BY <1>2, <1>8 DEF StoreInv, RoomInv, Occupied
<1>18. ReceiptSpendsOnce'
  <2>1. SUFFICES ASSUME NEW d \in deleted', NEW e \in deleted', d.op = e.op PROVE d = e
    BY DEF ReceiptSpendsOnce
  <2>2. ASSUME NEW c \in deleted, c.op = rec.op PROVE c = entry
    <3>1. c.user = rec.user /\ c.gen = rec.gen /\ c \in [op : Receipts, user : Users, gen : Nat]
      BY <1>a, <1>1, <1>8, <2>2 DEF StoreInv, DeletedInv, TypeOK
    <3> QED
      BY <2>2, <3>1, <1>10 DEF entry
  <2>3. CASE d \in deleted /\ e \in deleted
    BY <1>8, <2>1, <2>3 DEF StoreInv, ReceiptSpendsOnce
  <2>4. CASE d = entry \/ e = entry
    BY <1>2, <1>10, <2>1, <2>2, <2>4
  <2> QED
    BY <1>2, <2>1, <2>3, <2>4
<1> QED
  BY <1>11, <1>12, <1>13, <1>14, <1>15, <1>16, <1>17, <1>18 DEF StoreInv

\* retire() and readReceipt() answer with a receipt that can only be found applied.
LEMMA AnswerStep ==
  ASSUME IInv, Answer \/ readReceipt
  PROVE  StoreInv'
<1>1. UNCHANGED <<store, disk, journal, jdisk, gens, deleted>>
  BY DEF Answer, readReceipt, files, creds, outer
<1>2. PICK o \in Receipts :
        /\ jdisk[o] = {journal[o]} /\ journal[o].st = "applied" /\ journal[o].op = o
        /\ acks' = acks \cup {[op |-> o, user |-> journal[o].user, gen |-> journal[o].gen]}
  <2>1. pc \in {"answer", "run"} /\ \A o \in Receipts : jdisk[o] = {journal[o]}
    BY DEF Answer, readReceipt, IInv, WorkInv, SyncInv
  <2>2. \A o \in Receipts : journal[o].st = "applied" => journal[o].op = o
    BY <2>1 DEF IInv, StoreInv, FileInv, Parses
  <2>3. CASE Answer
    <3>1. rec.op \in Receipts /\ journal[rec.op] = rec /\ rec.st = "applied"
      BY <2>3 DEF Answer, IInv, WorkInv, ReceiptInv
    <3>2. acks' = acks \cup {[op |-> rec.op, user |-> rec.user, gen |-> rec.gen]}
      BY <2>3 DEF Answer, Acknowledge
    <3> QED
      BY <2>1, <2>2, <3>1, <3>2
  <2>4. CASE readReceipt
    <3>1. req.receipt \in Receipts /\ journal[req.receipt].st = "applied"
      BY <2>4 DEF readReceipt, IInv, WorkInv, RequestInv
    <3>2. acks' = acks \cup {[op |-> journal[req.receipt].op, user |-> journal[req.receipt].user,
                              gen |-> journal[req.receipt].gen]}
      BY <2>4 DEF readReceipt, Acknowledge
    <3> QED
      BY <2>1, <2>2, <3>1, <3>2
  <2> QED
    BY <2>3, <2>4
<1>3. AckInv'
  BY <1>1, <1>2 DEF IInv, StoreInv, AckInv
<1>4. StoreInv
  BY DEF IInv
<1>5. FileInv' /\ OneInv' /\ RoomInv' /\ ReceiptSpendsOnce'
  BY <1>1, <1>4 DEF StoreInv, FileInv, Parses, OneInv, RoomInv, Occupied, ReceiptSpendsOnce
<1>7. AppliedInv' /\ DeletedInv' /\ RevokedBeforeWeakened'
  BY <1>1, <1>4 DEF StoreInv, AppliedInv, DeletedInv, RevokedBeforeWeakened
<1>6. WholeInv'
  BY <1>1, <1>4 DEF StoreInv, WholeInv, Whole, Excused
<1> QED
  BY <1>3, <1>5, <1>6, <1>7 DEF StoreInv

\* Past recovery nothing may be found committed, and so every account is whole.
LEMMA Settledness ==
  ASSUME IInv, pc \in {"run", "current", "authorize", "again", "admit"}
  PROVE  /\ \A o \in Receipts : jdisk[o] = {journal[o]}
         /\ \A o \in Receipts : \A r \in jdisk[o] : r.st # "committed"
         /\ \A v \in Users : Whole(v)
<1>1. \A o \in Receipts : jdisk[o] = {journal[o]}
  BY DEF IInv, WorkInv, SyncInv
<1>2. \A o \in Receipts : \A r \in jdisk[o] : r.st # "committed"
  BY <1>1 DEF IInv, WorkInv, ReadyInv
<1>3. \A v \in Users : Whole(v)
  BY <1>2 DEF IInv, StoreInv, WholeInv, Excused
<1> QED
  BY <1>1, <1>2, <1>3

\* What the application writes past recovery keeps the invariant of the files,
\* if it neither takes material away nor brings a generation back.
LEMMA WriteStep ==
  ASSUME IInv, pc \in {"run", "authorize"}, UNCHANGED <<journal, jdisk, gens, acks, deleted>>,
         NEW s \in Stores \ {"flags"}, NEW v \in Users, NEW x \in Contents(s), Store(s, v, x),
         s # "sessions" =>
           /\ x = {} <=> store[s][v] = {}
           /\ \A m \in x : \E n \in store[s][v] : n.gen = m.gen
  PROVE  StoreInv'
<1>1. TypeOK /\ StoreInv
  BY DEF IInv
<1>2. /\ store'[s][v] = x /\ x \in disk'[s][v] /\ disk'[s][v] \subseteq disk[s][v] \cup {x}
      /\ \A t \in Stores, w \in Users : (t # s \/ w # v) =>
           store'[t][w] = store[t][w] /\ disk'[t][w] = disk[t][w]
  <2>1. s \in Stores
    OBVIOUS
  <2>2. /\ DOMAIN store' = Stores /\ DOMAIN disk' = Stores
        /\ \A t \in Stores : /\ store'[t] \in [Users -> Contents(t)]
                             /\ disk'[t] \in [Users -> SUBSET Contents(t)]
        /\ store'[s][v] = x /\ x \in disk'[s][v] /\ disk'[s][v] \subseteq disk[s][v] \cup {x}
        /\ \A t \in Stores, w \in Users : (t # s \/ w # v) =>
             store'[t][w] = store[t][w] /\ disk'[t][w] = disk[t][w]
    BY <1>1, <2>1, WritePut
  <2> QED
    BY <2>2
<1>3. /\ \A o \in Receipts : \A r \in jdisk[o] : r.st # "committed"
      /\ \A w \in Users : Whole(w)
  BY Settledness
<1>4. store[s][v] \in disk[s][v]
  BY <1>1 DEF StoreInv, FileInv
<1> USE StoreNames
<1>5. \A t \in {"factor", "codes"}, w \in Users : \A y \in disk'[t][w] :
        y \in disk[t][w] \/ (t = s /\ w = v /\ y = x)
  BY <1>2
<1>6. \A t \in {"factor", "codes"}, w \in Users : \A y \in disk'[t][w] : \A m \in y :
        \E z \in disk[t][w] : \E n \in z : n.gen = m.gen
  <2>1. SUFFICES ASSUME NEW t \in {"factor", "codes"}, NEW w \in Users, NEW y \in disk'[t][w],
                        NEW m \in y
                 PROVE  \E z \in disk[t][w] : \E n \in z : n.gen = m.gen
    OBVIOUS
  <2>2. CASE y \in disk[t][w]
    BY <2>2
  <2>3. CASE t = s /\ w = v /\ y = x
    <3>1. \E n \in store[s][v] : n.gen = m.gen
      BY <2>1, <2>3
    <3> QED
      BY <1>4, <2>3, <3>1
  <2> QED
    BY <1>5, <2>2, <2>3
<1>7. FileInv'
  <2>1. \A t \in Stores, w \in Users : store'[t][w] \in disk'[t][w]
    BY <1>1, <1>2 DEF StoreInv, FileInv
  <2>2. \A t \in {"factor", "codes"}, w \in Users : \A y \in disk'[t][w] : \A m \in y : m.gen <= gens
    BY <1>1, <1>6 DEF StoreInv, FileInv
  <2> QED
    BY <1>1, <2>1, <2>2 DEF StoreInv, FileInv, Parses
<1>8. WholeInv'
  <2>1. SUFFICES ASSUME NEW w \in Users, NEW y \in disk'["flags"][w]
                 PROVE  /\ \A z \in disk'["factor"][w] : z = {} <=> y = {}
                        /\ \A z \in disk'["codes"][w] : z = {} <=> y = {}
    BY DEF WholeInv, Whole
  <2>2. y \in disk["flags"][w]
    BY <1>2, <2>1
  <2>3. \A t \in {"factor", "codes"} : \A z \in disk[t][w] : z = {} <=> y = {}
    BY <1>3, <2>2 DEF Whole
  <2>4. ASSUME NEW t \in {"factor", "codes"}, NEW z \in disk'[t][w] PROVE z = {} <=> y = {}
    <3>1. CASE z \in disk[t][w]
      BY <2>3, <3>1
    <3>2. CASE t = s /\ w = v /\ z = x
      BY <1>4, <2>3, <2>4, <3>2
    <3> QED
      BY <1>5, <3>1, <3>2
  <2> QED
    BY <2>4
<1>9. AppliedInv'
  <2>1. \A o \in Receipts : \A r \in jdisk[o] : r.user \in Users
    BY <1>1 DEF TypeOK, Record
  <2>2. SUFFICES ASSUME NEW o \in Receipts, NEW r \in jdisk[o], r.st = "applied",
                        NEW t \in {"factor", "codes"}, NEW y \in disk'[t][r.user], NEW m \in y
                 PROVE  m.gen > r.gen
    BY DEF AppliedInv
  <2>3. PICK z \in disk[t][r.user] : \E n \in z : n.gen = m.gen
    BY <1>6, <2>1
  <2> QED
    BY <1>1, <2>2, <2>3 DEF StoreInv, AppliedInv
<1>10. OneInv' /\ AckInv' /\ DeletedInv'
  BY <1>1 DEF StoreInv, OneInv, AckInv, DeletedInv
<1>11. RevokedBeforeWeakened'
  BY <1>3 DEF RevokedBeforeWeakened
<1>12. RoomInv' /\ ReceiptSpendsOnce'
  BY <1>1 DEF StoreInv, RoomInv, Occupied, ReceiptSpendsOnce
<1> QED
  BY <1>7, <1>8, <1>9, <1>10, <1>11, <1>12 DEF StoreInv

\* Enrollment gives a whole account a factor of a new generation.
LEMMA EnrollStep ==
  ASSUME IInv, Enroll
  PROVE  StoreInv'
<1> DEFINE m == {[gen |-> gens + 1, uses |-> 0]}
<1>1. TypeOK /\ StoreInv /\ gens \in Nat
  BY DEF IInv, TypeOK
<1>2. /\ gens' = gens + 1 /\ u \in Users
      /\ store'["sessions"] = store["sessions"] /\ disk'["sessions"] = disk["sessions"]
      /\ \A t \in Stores \ {"sessions"} :
           /\ store'[t][u] = m /\ disk'[t][u] = {m}
           /\ \A w \in Users : w # u => store'[t][w] = store[t][w] /\ disk'[t][w] = disk[t][w]
  BY <1>1, EnrollPut
<1>3. m # {} /\ \A k \in m : k.gen = gens + 1
  OBVIOUS
<1> HIDE DEF m
<1>4. UNCHANGED <<journal, jdisk, acks, deleted>> /\ pc \in {"run", "authorize"}
  BY DEF Enroll, Held, files, past
<1>5. /\ \A o \in Receipts : \A r \in jdisk[o] : r.st # "committed"
      /\ \A w \in Users : Whole(w)
  BY <1>4, Settledness
<1> USE StoreNames
<1>6. PICK v \in Users : v = u
  BY <1>2
<1>7. \A t \in {"factor", "codes"} : disk'[t][v] = {m}
  BY <1>2, <1>6
<1>8. \A t \in {"factor", "codes", "flags"}, w \in Users : w # v => disk'[t][w] = disk[t][w]
  BY <1>2, <1>6
<1>9. disk'["flags"][v] = {m}
  BY <1>2, <1>6
<1>10. FileInv'
  <2>1. \A t \in Stores, w \in Users : store'[t][w] \in disk'[t][w]
    BY <1>1, <1>2 DEF StoreInv, FileInv
  <2>2. \A t \in {"factor", "codes"}, w \in Users : \A y \in disk'[t][w] : \A k \in y : k.gen <= gens'
    <3>1. SUFFICES ASSUME NEW t \in {"factor", "codes"}, NEW w \in Users, NEW y \in disk'[t][w],
                          NEW k \in y
                   PROVE  k.gen <= gens'
      OBVIOUS
    <3>2. CASE w = v
      BY <1>1, <1>2, <1>3, <1>7, <3>2
    <3>3. CASE w # v
      <4>1. y \in disk[t][w]
        BY <1>8, <3>3
      <4>2. k.gen <= gens
        BY <1>1, <4>1 DEF StoreInv, FileInv
      <4>3. disk[t] \in [Users -> SUBSET SUBSET Material]
        BY <1>1 DEF TypeOK, Contents
      <4>4. k.gen \in Nat
        BY <4>1, <4>3 DEF Material
      <4> QED
        BY <1>1, <1>2, <4>2, <4>4
    <3> QED
      BY <3>2, <3>3
  <2>3. \A o \in Receipts : \A r \in jdisk[o] : Parses(o, r) /\ r.gen <= gens /\ r.gen \in Nat
    BY <1>1 DEF StoreInv, FileInv, TypeOK, Record
  <2>4. \A o \in Receipts : \A r \in jdisk[o] : Parses(o, r) /\ r.gen <= gens'
    BY <1>1, <1>2, <2>3
  <2>5. \A o \in Receipts : journal[o] \in jdisk[o]
    BY <1>1 DEF StoreInv, FileInv
  <2> QED
    BY <1>4, <2>1, <2>2, <2>4, <2>5 DEF FileInv, Parses
<1>11. WholeInv'
  <2>1. SUFFICES ASSUME NEW w \in Users, NEW y \in disk'["flags"][w]
                 PROVE  /\ \A z \in disk'["factor"][w] : z = {} <=> y = {}
                        /\ \A z \in disk'["codes"][w] : z = {} <=> y = {}
    BY DEF WholeInv, Whole
  <2>2. CASE w = v
    BY <1>7, <1>9, <2>1, <2>2
  <2>3. CASE w # v
    BY <1>5, <1>8, <2>1, <2>3 DEF Whole
  <2> QED
    BY <2>2, <2>3
<1>12. AppliedInv'
  <2>1. \A o \in Receipts : \A r \in jdisk[o] : r.user \in Users /\ r.gen \in Nat /\ r.gen <= gens
    BY <1>1 DEF TypeOK, Record, StoreInv, FileInv
  <2>2. SUFFICES ASSUME NEW o \in Receipts, NEW r \in jdisk[o], r.st = "applied",
                        NEW t \in {"factor", "codes"}, NEW y \in disk'[t][r.user], NEW k \in y
                 PROVE  k.gen > r.gen
    BY <1>4 DEF AppliedInv
  <2>3. CASE r.user = v
    BY <1>1, <1>3, <1>7, <2>1, <2>3
  <2>4. CASE r.user # v
    <3>1. y \in disk[t][r.user]
      BY <1>8, <2>1, <2>4
    <3> QED
      BY <1>1, <2>2, <3>1 DEF StoreInv, AppliedInv
  <2> QED
    BY <2>3, <2>4
<1>13. OneInv' /\ AckInv' /\ DeletedInv'
  BY <1>1, <1>4 DEF StoreInv, OneInv, AckInv, DeletedInv
<1>14. RevokedBeforeWeakened'
  BY <1>4, <1>5 DEF RevokedBeforeWeakened
<1>15. RoomInv' /\ ReceiptSpendsOnce'
  BY <1>1, <1>4 DEF StoreInv, RoomInv, Occupied, ReceiptSpendsOnce
<1> QED
  BY <1>10, <1>11, <1>12, <1>13, <1>14, <1>15 DEF StoreInv

\* What the application does under the gate keeps the invariant of the files.
LEMMA ApplicationStep ==
  ASSUME IInv, Application
  PROVE  StoreInv'
<1>1. TypeOK /\ StoreInv /\ u \in Users /\ pc \in {"run", "authorize"}
  BY DEF IInv, TypeOK, u, Application, Login, Logout, Use, Enroll, EditAccount, Held
<1>2. PICK v \in Users : v = u
  BY <1>1
<1>3. CASE Login
  <2>1. PICK s \in Sessions : Store("sessions", v, store["sessions"][v] \cup {s})
    BY <1>2, <1>3 DEF Login
  <2>2. /\ "sessions" \in Stores \ {"flags"}
        /\ store["sessions"][v] \cup {s} \in Contents("sessions")
    BY <1>1, StoreNames DEF TypeOK, Contents
  <2>3. UNCHANGED <<journal, jdisk, gens, acks, deleted>>
    BY <1>3 DEF Login, files, past, outer
  <2> QED
    BY <1>1, <2>1, <2>2, <2>3, WriteStep
<1>4. CASE Logout
  <2>1. PICK s : Store("sessions", v, store["sessions"][v] \ {s})
    BY <1>2, <1>4 DEF Logout
  <2>2. /\ "sessions" \in Stores \ {"flags"}
        /\ store["sessions"][v] \ {s} \in Contents("sessions")
    BY <1>1, StoreNames DEF TypeOK, Contents
  <2>3. UNCHANGED <<journal, jdisk, gens, acks, deleted>>
    BY <1>4 DEF Logout, files, past, outer
  <2> QED
    BY <1>1, <2>1, <2>2, <2>3, WriteStep
<1>5. CASE Use
  <2>1. PICK s \in {"factor", "codes"} : \E m \in store[s][v] :
          Store(s, v, {[m EXCEPT !.uses = @ + 1]})
    BY <1>2, <1>5 DEF Use
  <2>2. PICK m \in store[s][v] : Store(s, v, {[m EXCEPT !.uses = @ + 1]})
    BY <2>1
  <2>3. s \in Stores \ {"flags"} /\ s \in Stores
    BY StoreNames
  <2>4. store[s] \in [Users -> SUBSET Material]
    BY <1>1, <2>3 DEF TypeOK, Contents
  <2>5. m \in Material
    BY <2>2, <2>4
  <2>6. PICK x : x = {[m EXCEPT !.uses = @ + 1]}
    OBVIOUS
  <2>7. x # {} /\ (\A k \in x : k.gen = m.gen) /\ x \in SUBSET Material
    BY <2>5, <2>6 DEF Material
  <2>8. x \in Contents(s)
    BY <2>1, <2>7 DEF Contents
  <2>9. /\ x = {} <=> store[s][v] = {}
        /\ \A k \in x : \E n \in store[s][v] : n.gen = k.gen
    BY <2>2, <2>7
  <2>10. Store(s, v, x)
    BY <2>2, <2>6
  <2>11. UNCHANGED <<journal, jdisk, gens, acks, deleted>>
    BY <1>5 DEF Use, files, past, outer
  <2> QED
    BY <1>1, <2>3, <2>8, <2>9, <2>10, <2>11, WriteStep
<1>6. CASE Enroll
  BY <1>6, EnrollStep
<1>7. CASE EditAccount
  BY <1>1, <1>7, QuietStep DEF EditAccount, files, creds, past
<1> QED
  BY <1>3, <1>4, <1>5, <1>6, <1>7 DEF Application

\* Every step keeps the invariant of the files.
LEMMA StoreStep == IInv /\ [Next]_vars => StoreInv'
<1> SUFFICES ASSUME IInv, [Next]_vars PROVE StoreInv'
  OBVIOUS
<1>1. TypeOK /\ StoreInv
  BY DEF IInv
<1>2. CASE UNCHANGED <<gens, acks, deleted, store, disk, journal, jdisk>>
  BY <1>1, <1>2, QuietStep
<1>3. CASE Prepare \/ Sync
  BY <1>1, <1>3, JournalSyncStep DEF Prepare, Sync, creds, past, outer
<1>4. CASE Rename
  BY <1>4, RenameStep
<1>5. CASE Change
  BY <1>5, ChangeStep
<1>6. CASE Settle
  BY <1>1, <1>6, SettleStep
<1>7. CASE Answer \/ readReceipt
  BY <1>7, AnswerStep
<1>8. CASE Application
  BY <1>8, ApplicationStep
<1>9. CASE PowerLoss
  BY <1>1, <1>9, LossStep
<1>10. CASE \/ Enter \/ RecoverApply \/ Recovered \/ Begin \/ Authorized \/ Again \/ Admit
            \/ Check \/ Verified \/ Refuse \/ IOError \/ Expire \/ Tick \/ SetBack \/ Crash
            \/ UNCHANGED vars
  BY <1>2, <1>10
     DEF Enter, RecoverApply, Recovered, Begin, Authorized, Again, Admit, Check, Verified, Refuse,
         IOError, Expire, Tick, SetBack, Crash, Restart, vars, files, creds, past, outer
<1> QED
  BY <1>3, <1>4, <1>5, <1>6, <1>7, <1>8, <1>9, <1>10 DEF Next, Coordinator

-----------------------------------------------------------------------------
(***************************************************************************)
(* The operation that holds the gate.                                      *)
(***************************************************************************)

\* Whoever leaves the gate leaves nothing to keep.
LEMMA LeaveStep == Leave => WorkInv'
  BY FrameType DEF Leave, Goto, WorkInv, SyncInv, ReadyInv, RequestInv, DraftInv, ApplyInv,
                   ReceiptInv

\* What the gate does not hold back disturbs nothing.
LEMMA OutsideStep ==
  ASSUME WorkInv, UNCHANGED <<files, creds, gens, pc, req, rec, stage>>
  PROVE  WorkInv'
<1>1. SyncInv' /\ ReadyInv' /\ RequestInv' /\ ReceiptInv'
  BY DEF WorkInv, SyncInv, ReadyInv, RequestInv, ReceiptInv, Gone, Parses, files, creds
<1>2. DraftInv'
  BY DEF WorkInv, DraftInv, Parses, Occupied, files, creds
<1>3. ApplyInv'
  BY DEF WorkInv, ApplyInv, Gone, files, creds
<1> QED
  BY <1>1, <1>2, <1>3 DEF WorkInv

\* The gate, the scan of the journal and the reading before authorize().
LEMMA GateStep ==
  ASSUME IInv, \/ Enter \/ Prepare \/ RecoverApply \/ Recovered \/ Begin \/ Authorized
               \/ (Application /\ pc = "authorize")
  PROVE  WorkInv'
<1>1. SyncInv /\ ReadyInv /\ RequestInv
  BY DEF IInv, WorkInv
<1>2. CASE Enter
  <2>1. pc' = "prepare" /\ (req'.kind = "read" => req'.receipt \in Receipts)
    BY <1>2 DEF Enter, Goto, Request
  <2> QED
    BY <2>1 DEF WorkInv, SyncInv, ReadyInv, RequestInv, DraftInv, ApplyInv, ReceiptInv
<1>3. CASE Prepare
  <2>1. pc' = "scan" /\ req' = req /\ \A o \in Receipts : jdisk'[o] = {journal'[o]}
    BY <1>3 DEF Prepare, JournalSynced, Goto, local
  <2> QED
    BY <1>1, <2>1 DEF WorkInv, SyncInv, ReadyInv, RequestInv, DraftInv, ApplyInv, ReceiptInv
<1>4. CASE RecoverApply
  <2>1. pc = "scan" /\ pc' = "check" /\ UNCHANGED <<journal, jdisk, req>>
    BY <1>4 DEF RecoverApply, Goto, files
  <2>2. PICK o \in Receipts : journal[o].st = "committed" /\ rec' = journal[o]
    BY <1>4 DEF RecoverApply, Unapplied
  <2>3. rec'.op = o
    BY <2>2 DEF IInv, StoreInv, FileInv, Parses
  <2> QED
    BY <1>1, <2>1, <2>2, <2>3
       DEF WorkInv, SyncInv, ReadyInv, RequestInv, DraftInv, ApplyInv, ReceiptInv
<1>5. CASE Recovered
  <2>1. /\ pc = "scan" /\ pc' \in {"current", "run"} /\ UNCHANGED <<journal, jdisk, req>>
        /\ \A o \in Receipts : journal[o].st # "committed"
    BY <1>5 DEF Recovered, Goto, files, local, Unapplied
  <2> QED
    BY <1>1, <2>1 DEF WorkInv, SyncInv, ReadyInv, RequestInv, DraftInv, ApplyInv, ReceiptInv
<1>6. CASE Begin
  <2>1. pc = "current" /\ pc' = "authorize" /\ UNCHANGED <<journal, jdisk, req>>
    BY <1>6 DEF Begin, Goto, files
  <2> QED
    BY <1>1, <2>1 DEF WorkInv, SyncInv, ReadyInv, RequestInv, DraftInv, ApplyInv, ReceiptInv
<1>7. CASE Authorized
  <2>1. pc = "authorize" /\ pc' = "again" /\ UNCHANGED <<journal, jdisk>>
    BY <1>7 DEF Authorized, Goto, files
  <2>2. req'.receipt \in Receipts
    BY <1>7 DEF Authorized, IInv, TypeOK
  <2> QED
    BY <1>1, <2>1, <2>2 DEF WorkInv, SyncInv, ReadyInv, RequestInv, DraftInv, ApplyInv, ReceiptInv
<1>8. CASE Application /\ pc = "authorize"
  <2>1. (pc' = "authorize" /\ req' = req) \/ Leave
    BY <1>8 DEF Application, Login, Logout, Use, Enroll, EditAccount, Held, local
  <2>2. UNCHANGED <<journal, jdisk>>
    BY <1>8 DEF Application, Login, Logout, Use, Enroll, EditAccount, files
  <2>3. CASE pc' = "authorize" /\ req' = req
    BY <1>1, <1>8, <2>2, <2>3
       DEF WorkInv, SyncInv, ReadyInv, RequestInv, DraftInv, ApplyInv, ReceiptInv
  <2> QED
    BY <2>1, <2>3, LeaveStep
<1> QED
  BY <1>2, <1>3, <1>4, <1>5, <1>6, <1>7, <1>8

\* retire() drafts a record of the factor it has just read, ...
LEMMA AgainStep ==
  ASSUME IInv, Again
  PROVE  WorkInv'
<1>1. pc = "again" /\ pc' = "admit" /\ UNCHANGED <<journal, jdisk, store, disk, gens, req>>
  BY DEF Again, Goto, files, creds, outer
<1>2. PICK f \in store["factor"][u] :
        rec' = [st |-> "committed", op |-> req.receipt, user |-> u,
                gen |-> f.gen, factor |-> {f}, codes |-> store["codes"][u],
                at |-> 0, done |-> 0]
  BY DEF Again
<1>3. u \in Users /\ req.receipt \in Receipts
  BY <1>1 DEF IInv, TypeOK, u, WorkInv, RequestInv
<1>4. store["factor"][u] \in disk["factor"][u] /\ store["flags"][u] \in disk["flags"][u]
  BY <1>3, StoreNames DEF IInv, StoreInv, FileInv
<1>5. Whole(u) /\ store["flags"][u] # {}
  BY <1>1, <1>3, Settledness DEF Again, Current
<1>6. {} \notin disk["factor"][u]
  BY <1>4, <1>5 DEF Whole
<1>7. f.gen <= gens
  BY <1>2, <1>3, <1>4 DEF IInv, StoreInv, FileInv
<1>8. /\ rec'.st = "committed" /\ rec'.op = req.receipt /\ rec'.user = u /\ rec'.gen = f.gen
      /\ rec'.factor = {f}
  BY <1>2
<1>9. Parses(rec.op, rec)'
  BY <1>8 DEF Parses
<1>10. DraftInv'
  BY <1>1, <1>3, <1>6, <1>7, <1>8, <1>9 DEF DraftInv
<1> QED
  BY <1>1, <1>3, <1>10 DEF IInv, WorkInv, SyncInv, ReadyInv, RequestInv, ApplyInv, ReceiptInv

\* ... and admits it while there is room for one more.
LEMMA AdmitStep ==
  ASSUME IInv, Admit
  PROVE  WorkInv'
<1>1. /\ pc = "admit" /\ pc' = "rename" /\ UNCHANGED <<journal, jdisk, store, disk, gens, req>>
      /\ rec' = [rec EXCEPT !.at = now] /\ Fresh
  BY DEF Admit, Goto, files, creds, outer
<1>2. /\ rec.st = "committed" /\ rec.op = req.receipt /\ rec.op \in Receipts /\ Parses(rec.op, rec)
      /\ rec.gen <= gens /\ {} \notin disk["factor"][rec.user] /\ rec \in Record
  BY <1>1 DEF IInv, TypeOK, WorkInv, DraftInv
<1>3. /\ rec'.st = rec.st /\ rec'.op = rec.op /\ rec'.user = rec.user /\ rec'.gen = rec.gen
      /\ rec'.factor = rec.factor
  BY <1>1, <1>2 DEF Record
<1>4. \A o \in Receipts : jdisk[o] = {journal[o]} /\ journal[o].st # "committed"
  BY <1>1 DEF IInv, WorkInv, SyncInv, ReadyInv
<1>5. Occupied = Filed
  BY <1>4 DEF Occupied, Filed
<1>6. /\ IsFiniteSet(Occupied) /\ Cardinality(Occupied) < MaxRecords
      /\ journal[rec.op].st = "absent" /\ rec.op \notin Occupied
  BY <1>1, <1>2, <1>5 DEF IInv, StoreInv, RoomInv, Fresh, Filed
<1>7. /\ IsFiniteSet(Occupied \cup {rec.op})
      /\ Cardinality(Occupied \cup {rec.op}) = Cardinality(Occupied) + 1
  BY <1>6, FS_AddElement
<1>8. Cardinality(Occupied \cup {rec.op}) <= MaxRecords
  BY <1>6, <1>7, FS_CardinalityType, LimitAssumption
<1>9. Occupied' = Occupied
  BY <1>1 DEF Occupied
<1>10. Parses(rec.op, rec)'
  BY <1>2, <1>3 DEF Parses
<1>11. DraftInv'
  BY <1>1, <1>2, <1>3, <1>4, <1>6, <1>7, <1>8, <1>9, <1>10 DEF DraftInv
<1>12. SyncInv' /\ ReadyInv' /\ RequestInv' /\ ApplyInv' /\ ReceiptInv'
  BY <1>1, <1>2, <1>3, <1>4 DEF IInv, WorkInv, SyncInv, ReadyInv, RequestInv, ApplyInv, ReceiptInv
<1> QED
  BY <1>11, <1>12 DEF WorkInv

\* A record is published by a rename and a sync of the journal.
LEMMA PublishStep ==
  ASSUME IInv, Rename \/ Sync
  PROVE  WorkInv'
<1>1. UNCHANGED <<req, rec>> /\ RequestInv
  BY DEF Rename, Sync, local, IInv, WorkInv
<1>2. CASE Rename
  <2>1. pc = "rename" /\ pc' = "sync" /\ journal' = [journal EXCEPT ![rec.op] = rec]
    BY <1>2 DEF Rename, Goto
  <2>2. rec.op \in Receipts /\ rec.st \in {"committed", "applied"}
    BY <2>1 DEF IInv, WorkInv, DraftInv, ReceiptInv
  <2>3. journal'[rec.op] = rec
    BY <2>1, <2>2 DEF IInv, TypeOK
  <2> QED
    BY <1>1, <2>1, <2>2, <2>3
       DEF WorkInv, SyncInv, ReadyInv, RequestInv, DraftInv, ApplyInv, ReceiptInv
<1>3. CASE Sync
  <2>1. /\ pc = "sync" /\ journal' = journal /\ \A o \in Receipts : jdisk'[o] = {journal'[o]}
        /\ pc' = IF rec.st = "committed" THEN "check"
                 ELSE IF caller = "retire" THEN "answer" ELSE "scan"
    BY <1>3 DEF Sync, JournalSynced, Goto
  <2>2. rec.op \in Receipts /\ journal[rec.op] = rec /\ rec.st \in {"committed", "applied"}
    BY <2>1 DEF IInv, WorkInv, ReceiptInv
  <2> QED
    BY <1>1, <2>1, <2>2
       DEF WorkInv, SyncInv, ReadyInv, RequestInv, DraftInv, ApplyInv, ReceiptInv
<1> QED
  BY <1>2, <1>3

\* apply() clears a store and only then syncs its directory, in order.
LEMMA ApplyStep ==
  ASSUME IInv, Check \/ Change \/ Settle
  PROVE  WorkInv'
<1>1. /\ UNCHANGED <<journal, jdisk, req, rec>> /\ SyncInv /\ RequestInv
      /\ pc \in {"check", "change", "settle"} /\ pc' \in {"change", "settle", "verify"}
  BY DEF Check, Change, Settle, files, local, Goto, IInv, WorkInv
<1>2. rec.op \in Receipts /\ journal[rec.op] = rec /\ rec.st = "committed"
  BY <1>1 DEF IInv, WorkInv, ApplyInv
<1>3. SyncInv' /\ ReadyInv' /\ RequestInv' /\ DraftInv' /\ ReceiptInv'
  BY <1>1 DEF SyncInv, ReadyInv, RequestInv, DraftInv, ReceiptInv
<1>4. TypeOK /\ rec.user \in Users /\ stage \in Stores
  BY DEF IInv, TypeOK, Record
<1>5. rec'.op \in Receipts /\ journal'[rec'.op] = rec' /\ rec'.st = "committed"
  BY <1>1, <1>2
<1>6. PICK v \in Users, g \in Stores : v = rec.user /\ g = stage
  BY <1>4
<1>7. pc \in {"change", "settle"} =>
        /\ g # "sessions" => disk["sessions"][v] = {{}}
        /\ g \in {"codes", "flags"} => disk["factor"][v] = {{}}
        /\ g = "flags" => disk["codes"][v] = {{}}
  BY <1>6 DEF IInv, WorkInv, ApplyInv, Gone
<1>8. v = rec'.user
  BY <1>1, <1>6
<1>9. CASE Check
  <2>1. pc' = "change" /\ stage' = "sessions"
    BY <1>9 DEF Check, Goto
  <2>2. ApplyInv'
    BY <1>5, <2>1 DEF ApplyInv
  <2> QED
    BY <1>3, <2>2 DEF WorkInv
<1>10. CASE Change
  <2>a. /\ store' = [store EXCEPT ![g][v] = {}]
        /\ disk' = [disk EXCEPT ![g][v] = disk[g][v] \cup {{}}]
    BY <1>6, <1>10 DEF Change
  <2>1. /\ store'[g][v] = {}
        /\ \A t \in Stores, w \in Users : (t # g \/ w # v) => store'[t][w] = store[t][w]
        /\ disk'[g][v] = disk[g][v] \cup {{}}
        /\ \A t \in Stores, w \in Users : (t # g \/ w # v) => disk'[t][w] = disk[t][w]
    BY <1>4, <2>a, ClearPut
  <2>2. pc = "change" /\ pc' = "settle" /\ stage' = g
    BY <1>6, <1>10 DEF Change, Goto, local
  <2>3. /\ g # "sessions" => disk'["sessions"][v] = {{}}
        /\ g \in {"codes", "flags"} => disk'["factor"][v] = {{}}
        /\ g = "flags" => disk'["codes"][v] = {{}}
    BY <1>7, <2>1, <2>2, StoreNames
  <2>4. ApplyInv'
    BY <1>5, <1>8, <2>1, <2>2, <2>3 DEF ApplyInv, Gone
  <2> QED
    BY <1>3, <2>4 DEF WorkInv
<1>11. CASE Settle
  <2>1. /\ pc = "settle" /\ store' = store
        /\ disk' = [disk EXCEPT ![g] = [w \in Users |-> {store[g][w]}]]
        /\ \/ g = "flags" /\ pc' = "verify"
           \/ g = "sessions" /\ stage' = "factor" /\ pc' = "change"
           \/ g = "factor" /\ stage' = "codes" /\ pc' = "change"
           \/ g = "codes" /\ stage' = "flags" /\ pc' = "change"
    BY <1>6, <1>11 DEF Settle, Settled, Goto, Stores, Following
  <2>2. store[g][v] = {}
    BY <1>6, <2>1 DEF IInv, WorkInv, ApplyInv
  <2>3. DOMAIN disk = Stores
    BY <1>4 DEF TypeOK
  <2>4. disk'[g][v] = {{}} /\ \A t \in Stores : t # g => disk'[t] = disk[t]
    BY <2>1, <2>2, <2>3
  <2>5. /\ disk'["sessions"][v] = {{}}
        /\ g \in {"factor", "codes", "flags"} => disk'["factor"][v] = {{}}
        /\ g \in {"codes", "flags"} => disk'["codes"][v] = {{}}
        /\ g = "flags" => disk'["flags"][v] = {{}}
    BY <1>7, <2>1, <2>4, StoreNames
  <2>6. CASE g = "flags" /\ pc' = "verify"
    <3>1. \A t \in Stores : disk'[t][v] = {{}}
      BY <2>5, <2>6 DEF Stores
    <3>2. ApplyInv'
      BY <1>5, <1>8, <2>6, <3>1 DEF ApplyInv, Gone
    <3> QED
      BY <1>3, <3>2 DEF WorkInv
  <2>7. CASE g # "flags"
    <3>1. ApplyInv'
      BY <1>5, <1>8, <2>1, <2>5, <2>7 DEF ApplyInv, Gone
    <3> QED
      BY <1>3, <3>1 DEF WorkInv
  <2> QED
    BY <2>1, <2>6, <2>7
<1> QED
  BY <1>9, <1>10, <1>11

\* apply() writes the receipt of what it has made sure is gone.
LEMMA VerifiedStep ==
  ASSUME IInv, Verified
  PROVE  WorkInv'
<1>1. /\ pc = "verify" /\ pc' = "rename" /\ UNCHANGED <<journal, jdisk, disk, req>>
      /\ rec' = [rec EXCEPT !.st = "applied", !.factor = {}, !.codes = {}, !.done = now]
      /\ rec.at <= now
  BY DEF Verified, Complete, Goto, files, creds
<1>2. /\ rec.op \in Receipts /\ journal[rec.op] = rec /\ rec.st = "committed" /\ rec \in Record
      /\ \A s \in Stores : disk[s][rec.user] = {{}}
  BY <1>1 DEF IInv, TypeOK, WorkInv, ApplyInv, Gone
<1>3. /\ rec'.st = "applied" /\ rec'.op = rec.op /\ rec'.user = rec.user /\ rec'.gen = rec.gen
      /\ rec'.at = rec.at /\ rec'.done = now
  BY <1>1, <1>2 DEF Record
<1>4. Parses(rec.op, rec)'
  <2>1. Parses(rec.op, rec)
    BY <1>2 DEF IInv, StoreInv, FileInv
  <2> QED
    BY <1>1, <1>2, <1>3, <2>1 DEF Parses
<1>5. ReceiptInv'
  BY <1>1, <1>2, <1>3, <1>4 DEF ReceiptInv, Gone
<1>6. SyncInv' /\ ReadyInv' /\ RequestInv' /\ DraftInv' /\ ApplyInv'
  BY <1>1, <1>3 DEF IInv, WorkInv, SyncInv, ReadyInv, RequestInv, DraftInv, ApplyInv
<1> QED
  BY <1>5, <1>6 DEF WorkInv

\* Every step keeps what the holder of the gate relies on.
LEMMA WorkStep == IInv /\ [Next]_vars => WorkInv'
<1> SUFFICES ASSUME IInv, [Next]_vars PROVE WorkInv'
  OBVIOUS
<1>1. WorkInv
  BY DEF IInv
<1>2. CASE \/ Enter \/ Prepare \/ RecoverApply \/ Recovered \/ Begin \/ Authorized
           \/ (Application /\ pc = "authorize")
  BY <1>2, GateStep
<1>3. CASE Application /\ pc # "authorize"
  BY <1>3, LeaveStep DEF Application, Login, Logout, Use, Enroll, EditAccount, Held
<1>4. CASE Again \/ Admit
  BY <1>4, AgainStep, AdmitStep
<1>5. CASE Rename \/ Sync
  BY <1>5, PublishStep
<1>6. CASE Check \/ Change \/ Settle
  BY <1>6, ApplyStep
<1>7. CASE Verified
  BY <1>7, VerifiedStep
<1>8. CASE Answer \/ readReceipt \/ Refuse \/ IOError \/ Crash \/ PowerLoss
  BY <1>8, LeaveStep DEF Answer, readReceipt, Refuse, IOError, Crash, PowerLoss, Restart
<1>9. CASE Expire \/ Tick \/ SetBack \/ UNCHANGED vars
  <2>1. UNCHANGED <<files, creds, gens, pc, req, rec, stage>>
    BY <1>9 DEF Expire, Tick, SetBack, vars, local, outer
  <2> QED
    BY <1>1, <2>1, OutsideStep
<1> QED
  BY <1>2, <1>3, <1>4, <1>5, <1>6, <1>7, <1>8, <1>9 DEF Next, Coordinator

-----------------------------------------------------------------------------
(***************************************************************************)
(* The results.                                                            *)
(***************************************************************************)

\* Every reachable state satisfies the invariant.
LEMMA Invariance == Spec => []IInv
<1>1. IInv /\ [Next]_vars => IInv'
  BY TypeStep, StoreStep, WorkStep DEF IInv
<1> QED
  BY <1>1, InvInit, PTL DEF Spec

\* Every variable keeps its type, whatever fails and whenever the process or
\* the machine restarts.
THEOREM TypeCorrect == Spec => []TypeOK
<1>1. IInv => TypeOK
  BY DEF IInv
<1> QED
  BY <1>1, Invariance, PTL

\* Every record that prepare() may find after a power loss parses, and there
\* are never more of them than filenames() tolerates: recovery is never locked
\* out by what retire() and apply() left.
THEOREM JournalStaysReadable == Spec => []JournalReadable
<1>1. IInv => JournalReadable
  BY DEF IInv, StoreInv, FileInv, RoomInv, Occupied, JournalReadable
<1> QED
  BY <1>1, Invariance, PTL

\* A receipt that retire() or readReceipt() returned is final: its record stays
\* applied, nothing of the generation it retired comes back, and over retries,
\* restarts and re-enrollments it deletes factors of one generation only.
THEOREM RetirementIsFinal == Spec => []RetirementFinal
<1>1. IInv => RetirementFinal
  <2> SUFFICES ASSUME IInv PROVE RetirementFinal
    OBVIOUS
  <2>1. \A a \in acks : a.op \in Receipts
    BY DEF IInv, TypeOK
  <2>2. \A a \in acks : \A r \in jdisk[a.op] : r.st = "applied" /\ r.user = a.user /\ r.gen = a.gen
    BY DEF IInv, StoreInv, AckInv
  <2>3. ASSUME NEW a \in acks
        PROVE  \A s \in {"factor", "codes"} : \A x \in disk[s][a.user] : \A m \in x : m.gen > a.gen
    <3>1. journal[a.op] \in jdisk[a.op]
      BY <2>1 DEF IInv, StoreInv, FileInv
    <3> QED
      BY <2>1, <2>2, <3>1 DEF IInv, StoreInv, AppliedInv
  <2>4. RetiredStaysRetired
    BY <2>2, <2>3 DEF RetiredStaysRetired
  <2> QED
    BY <2>4 DEF IInv, StoreInv, RetirementFinal
<1> QED
  BY <1>1, Invariance, PTL

\* While a retirement is half done its account has no session left to use, and
\* nobody passes the gate before it is finished: past the gate every account
\* has its factor and its codes exactly if its flags say so.
THEOREM NobodyHalfRetired == Spec => []NeverHalfRetired
<1>1. IInv => NeverHalfRetired
  <2> SUFFICES ASSUME IInv PROVE NeverHalfRetired
    OBVIOUS
  <2>1. ASSUME pc \in {"run", "current", "authorize"} PROVE GateReady
    <3>1. /\ \A o \in Receipts : \A r \in jdisk[o] : r.st # "committed"
          /\ \A v \in Users : Whole(v)
      BY <2>1, Settledness
    <3>2. \A v \in Users : store["flags"][v] \in disk["flags"][v]
      BY StoreNames DEF IInv, StoreInv, FileInv
    <3> QED
      BY <3>1, <3>2 DEF GateReady, Whole
  <2>2. GateReady
    BY <2>1 DEF GateReady
  <2> QED
    BY <2>2 DEF IInv, StoreInv, NeverHalfRetired
<1> QED
  BY <1>1, Invariance, PTL

\* Outside the application's own writes and a loss of power, a store changes
\* only by being cleared for the account of a durable committed record, and the
\* factor or codes it held are exactly the ones that record names.
THEOREM DeletionIsAuthorised == Spec => DeletionAuthorised
<1>1. ASSUME IInv, Change
      PROVE  \A s \in Stores, v \in Users : store'[s][v] # store[s][v] =>
               s = stage /\ v = rec.user /\ store'[s][v] = {}
  <2>1. TypeOK /\ rec.user \in Users /\ stage \in Stores
    BY <1>1 DEF IInv, TypeOK, Record
  <2>2. PICK v \in Users, g \in Stores : v = rec.user /\ g = stage
    BY <2>1
  <2>3. /\ store' = [store EXCEPT ![g][v] = {}]
        /\ disk' = [disk EXCEPT ![g][v] = disk[g][v] \cup {{}}]
    BY <1>1, <2>2 DEF Change
  <2>4. /\ store'[g][v] = {}
        /\ \A t \in Stores, w \in Users : (t # g \/ w # v) => store'[t][w] = store[t][w]
        /\ disk'[g][v] = disk[g][v] \cup {{}}
        /\ \A t \in Stores, w \in Users : (t # g \/ w # v) => disk'[t][w] = disk[t][w]
    BY <2>1, <2>3, ClearPut
  <2> QED
    BY <2>2, <2>4
<1>2. IInv /\ [Next]_vars => [DeletesAuthorised]_vars
  <2> SUFFICES ASSUME IInv, [Next]_vars PROVE DeletesAuthorised
    OBVIOUS
  <2>1. SUFFICES ASSUME NEW s \in Stores, NEW v \in Users, pc \notin {"run", "authorize"},
                        crashes' = crashes, store'[s][v] # store[s][v]
                 PROVE  /\ store'[s][v] = {}
                        /\ \E o \in Receipts : \E r \in jdisk[o] :
                             jdisk[o] = {r} /\ Authorises(r, s, v)
    BY DEF DeletesAuthorised
  <2>2. ~UNCHANGED store
    BY <2>1
  <2>3. crashes \in Nat
    BY DEF IInv, TypeOK
  <2>4. ~PowerLoss
    BY <2>1, <2>3 DEF PowerLoss, Restart
  <2>5. Change
    BY <2>1, <2>2, <2>4
       DEF Next, Coordinator, Application, Enter, Prepare, RecoverApply, Recovered, Sync, Rename,
           Begin, Authorized, Again, Admit, Check, Settle, Settled, Verified, Answer, readReceipt,
           Login, Logout, Use, Enroll, EditAccount, Held, Refuse, IOError, Expire, Tick, SetBack,
           Crash, vars, creds
  <2>6. s = stage /\ v = rec.user /\ store'[s][v] = {} /\ store[s][v] # {}
    BY <1>1, <2>1, <2>5
  <2>7. rec.op \in Receipts /\ jdisk[rec.op] = {rec} /\ rec.st = "committed"
    BY <2>5 DEF Change, IInv, WorkInv, SyncInv, ApplyInv
  <2>8. Authorises(rec, s, v)
    BY <2>5, <2>6, <2>7 DEF Change, Expected, Authorises
  <2> QED
    BY <2>6, <2>7, <2>8
<1> QED
  BY <1>2, Invariance, PTL DEF Spec, DeletionAuthorised

=============================================================================
