------------------------- MODULE ActionStepUp_proofs -------------------------
(***************************************************************************)
(* Proofs about ActionStepUp for every value of its constants: the store   *)
(* keeps its contract, its receipts are durable, its failure budget is     *)
(* never given back and its capacity never exceeded on disk.               *)
(***************************************************************************)
EXTENDS ActionStepUp, FiniteSetTheorems, TLAPS

-----------------------------------------------------------------------------
(***************************************************************************)
(* The inductive invariant.                                                *)
(***************************************************************************)

\* the record carries a permit
Permitted(r) == r.st \in {"verified", "consumed"}

\* files are filed under their reference, and no reference is used before it
\* is drawn
FileInv ==
  \A c \in Challenges :
    /\ files[c] \in disk[c]
    /\ \A r \in disk[c] : r.st # "absent" => r.ch = c /\ c <= minted
    /\ c > minted => answered[c] = 0

\* answers are about challenges that were drawn, and a challenge that was
\* answered keeps its action
KnownInv ==
  /\ \A k \in known :
       /\ k.ch \in Challenges /\ k.ch <= minted
       /\ \A r \in disk[k.ch] : r.st # "absent" => r.binding = k.binding
  /\ \A h \in held : h.ch \in Challenges /\ h.ch <= minted
  /\ \A r \in receipts : r.ch \in Challenges /\ r.ch <= minted

\* a challenge whose permit was answered never looks unverified again
HeldInv == \A h \in held : \A r \in disk[h.ch] : r.st # "pending"

\* a permit belongs to one challenge
PermitInv ==
  /\ \A h \in held : h.permit <= serial
  /\ \A c \in Challenges : \A r \in disk[c] :
       Permitted(r) =>
         /\ r.permit <= serial
         /\ \A h \in held : h.permit = r.permit => h.ch = c
  /\ \A c, d \in Challenges : \A r \in disk[c], q \in disk[d] :
       Permitted(r) /\ Permitted(q) /\ r.permit = q.permit => c = d

\* what a request was submitted with
RequestInv ==
  /\ pc \in {"prune", "issue"} => req.kind = "issue"
  /\ pc = "read" => req.kind # "issue"
  /\ pc = "factor" => req.kind = "verify"
  /\ pc # "idle" /\ req.kind # "issue" => \E k \in known : k.ch = req.ch
  /\ pc # "idle" /\ req.kind = "consume" =>
       \E h \in held : h.permit = req.permit

\* what is read is on disk, and stays what verifyFactor is awaited for
ReadInv ==
  /\ pc = "read" => \A c \in Challenges : disk[c] = {files[c]}
  /\ pc = "factor" =>
       /\ rec.st = "pending" /\ rec.ch = req.ch
       /\ rec.failures < MaxFailures
       /\ disk[rec.ch] = {rec} /\ files[rec.ch] = rec

\* the record being written, before and after it is published
WriteInv ==
  pc \in {"rename", "sync", "answer"} =>
    /\ rec.st # "absent" /\ rec.ch \in Challenges /\ rec.ch <= minted
    /\ pc # "rename" => files[rec.ch] = rec
    /\ pc = "answer" => disk[rec.ch] = {rec}
    /\ answered[rec.ch] <= rec.failures
    /\ \A k \in known : k.ch = rec.ch => k.binding = rec.binding
    /\ \A r \in receipts : r.ch # rec.ch
    /\ rec.st # "consumed" => \A h \in held : h.ch # rec.ch
    /\ req.kind = "issue" => rec.st = "pending" /\ \A k \in known : k.ch # rec.ch
    /\ rec.st = "pending" /\ req.kind # "issue" =>
         /\ req.kind = "verify"
         /\ answered[rec.ch] < rec.failures /\ rec.failures <= MaxFailures
    /\ rec.st # "pending" => \E k \in known : k.ch = rec.ch
    /\ rec.st = "consumed" => [ch |-> rec.ch, permit |-> rec.permit] \in held
    /\ Permitted(rec) =>
         /\ rec.permit <= serial
         /\ \A h \in held : h.permit = rec.permit => h.ch = rec.ch
         /\ \A d \in Challenges \ {rec.ch} : \A q \in disk[d] :
              Permitted(q) => q.permit # rec.permit

\* the part about the store and the answers, whoever is at work
StoreInv ==
  /\ FileInv /\ KnownInv /\ HeldInv /\ PermitInv
  /\ ReceiptDurable /\ FailureBudget

\* the part about the operation at the head of the queue
WorkInv == RequestInv /\ ReadInv /\ WriteInv

IInv == TypeOK /\ StoreInv /\ WorkInv

-----------------------------------------------------------------------------
(***************************************************************************)
(* Types.                                                                  *)
(***************************************************************************)

\* The frame of no operation, which every operation leaves, is well typed.
LEMMA FrameType ==
  /\ AnyBinding \in Bindings
  /\ Absent \in Record /\ Absent.st = "absent"
  /\ NoInput \in [kind : Kinds, ch : Nat, permit : Nat, binding : Bindings]
  /\ Leave =>
       /\ pc' \in Places /\ rec' \in Record
       /\ req' \in [kind : Kinds, ch : Nat, permit : Nat, binding : Bindings]
       /\ todo' \subseteq Challenges /\ count' \in Nat /\ removed' \in BOOLEAN
<1>1. AnyBinding \in Bindings
  BY BindingAssumption DEF AnyBinding
<1>2. Absent \in Record /\ Absent.st = "absent"
  BY <1>1 DEF Absent, Record, States
<1>3. NoInput \in [kind : Kinds, ch : Nat, permit : Nat, binding : Bindings]
  BY <1>1 DEF NoInput, Input, Kinds
<1>4. Leave => pc' \in Places /\ rec' = Absent /\ req' = NoInput
  BY DEF Leave, Goto, Places
<1>5. Leave => todo' \subseteq Challenges /\ count' \in Nat
  BY DEF Leave
<1>6. Leave => removed' \in BOOLEAN
  BY DEF Leave
<1> QED
  BY <1>1, <1>2, <1>3, <1>4, <1>5, <1>6

\* The records that verify() and consume() write are well typed.
LEMMA RecordType ==
  ASSUME NEW r \in Record, NEW t \in Nat, NEW n \in Nat
  PROVE  /\ [r EXCEPT !.st = "verified", !.verified = t, !.permit = n] \in Record
         /\ [r EXCEPT !.st = "consumed", !.receipt = n] \in Record
  BY DEF Record, States

\* The initial state of the store is well typed.
LEMMA TypeInit == Init => TypeOK
<1> SUFFICES ASSUME Init PROVE TypeOK
  OBVIOUS
<1>1. /\ files \in [Challenges -> Record]
      /\ disk \in [Challenges -> SUBSET Record]
      /\ answered \in [Challenges -> Nat]
  BY FrameType DEF Init
<1>2. rec \in Record
      /\ req \in [kind : Kinds, ch : Nat, permit : Nat, binding : Bindings]
  BY FrameType DEF Init
<1>3. minted \in 0 .. MaxChallenges
  BY LimitAssumption DEF Init
<1> QED
  BY <1>1, <1>2, <1>3 DEF Init, TypeOK, Places

\* Every step of the store and of its surroundings keeps the types; reading a
\* file needs to know that its reference was drawn.
LEMMA TypeStep == IInv /\ [Next]_vars => TypeOK'
<1> SUFFICES ASSUME IInv, [Next]_vars
             PROVE  TypeOK'
  OBVIOUS
<1>a. TypeOK
  BY DEF IInv
<1>b. pc # "idle" /\ req.kind # "issue" => req.ch \in Challenges
  BY DEF IInv, WorkInv, StoreInv, RequestInv, KnownInv
<1> USE <1>a DEF TypeOK, store, frame, answers, drawn, Goto
<1>1. CASE Enter
  <2>1. req' \in [kind : Kinds, ch : Nat, permit : Nat, binding : Bindings]
    BY <1>1 DEF Enter, Input, Kinds
  <2> QED
    BY <1>1, <2>1 DEF Enter, Places
<1>2. CASE Prepare
  BY <1>2 DEF Prepare, Synced, Places
<1>3. CASE Rename
  BY <1>3 DEF Rename, Publish, Places
<1>4. CASE Sync
  BY <1>4 DEF Sync, Synced, Places
<1>5. CASE IOError
  BY <1>5, FrameType DEF IOError, Fault
<1>6. CASE Prune
  <2>1. PICK c \in todo :
          /\ todo' = todo \ {c}
          /\ \/ Publish(c, Absent) /\ removed' = TRUE /\ UNCHANGED count
             \/ count' = count + 1 /\ UNCHANGED <<store, removed>>
    BY <1>6 DEF Prune
  <2>2. /\ files' \in [Challenges -> Record]
        /\ disk' \in [Challenges -> SUBSET Record]
    BY <2>1, FrameType DEF Publish
  <2>3. todo' \subseteq Challenges /\ count' \in Nat
    BY <2>1
  <2>4. removed' \in BOOLEAN
    BY <2>1
  <2> QED
    BY <1>6, <2>2, <2>3, <2>4 DEF Prune
<1>7. CASE Pruned
  BY <1>7 DEF Pruned, Removals, Synced, Places
<1>8. CASE Issue
  <2>1. minted + 1 \in Nat /\ now + TTL \in Nat /\ req.binding \in Bindings
    BY LimitAssumption
  <2>2. rec' \in Record
    BY <1>8, <2>1, FrameType DEF Issue, Record, States
  <2> QED
    BY <1>8, <2>2, LimitAssumption DEF Issue, Places
<1>9. CASE Verify
  <2>1. rec' = files[req.ch] /\ req.ch \in Challenges
    BY <1>9, <1>b DEF Verify
  <2> QED
    BY <1>9, <2>1 DEF Verify, Places
<1>10. CASE FactorInvalid
  <2>1. rec' \in Record
    BY <1>10 DEF FactorInvalid, Charged, Record
  <2> QED
    BY <1>10, <2>1 DEF FactorInvalid, Places
<1>11. CASE FactorValid
  <2>1. serial' \in Nat /\ now \in Nat /\ rec \in Record
    BY <1>11 DEF FactorValid
  <2>2. rec' = [rec EXCEPT !.st = "verified", !.verified = now,
                           !.permit = serial']
    BY <1>11 DEF FactorValid
  <2>3. rec' \in Record
    BY <2>1, <2>2, RecordType
  <2> QED
    BY <1>11, <2>3 DEF FactorValid, Places
<1>12. CASE Consume
  <2>1. serial' \in Nat /\ now \in Nat /\ files[req.ch] \in Record
    BY <1>12, <1>b DEF Consume
  <2>2. rec' = [files[req.ch] EXCEPT !.st = "consumed", !.receipt = serial']
    BY <1>12 DEF Consume
  <2>3. rec' \in Record
    BY <2>1, <2>2, RecordType
  <2> QED
    BY <1>12, <2>3 DEF Consume, Places
<1>13. CASE Answer
  <2>1. /\ rec.ch \in Nat /\ rec.permit \in Nat /\ rec.receipt \in Nat
        /\ rec.binding \in Bindings
    BY DEF Record
  <2>2. /\ known' \subseteq [ch : Nat, binding : Bindings]
        /\ held' \subseteq [ch : Nat, permit : Nat]
        /\ answered' \in [Challenges -> Nat]
    BY <1>13, <2>1 DEF Answer
  <2>3. receipts' \subseteq [ch : Nat, permit : Nat, receipt : Nat,
                             binding : Bindings]
    BY <1>13, <2>1 DEF Answer
  <2> QED
    BY <1>13, <2>2, <2>3, FrameType DEF Answer
<1>14. CASE Refuse
  BY <1>14, FrameType DEF Refuse
<1>15. CASE SetClock
  BY <1>15 DEF SetClock
<1>16. CASE Crash
  BY <1>16, FrameType DEF Crash, Restart
<1>17. CASE PowerLoss
  <2>1. files' \in [Challenges -> Record]
    BY <1>17 DEF PowerLoss
  <2> QED
    BY <1>17, <2>1, FrameType DEF PowerLoss, Restart
<1>18. CASE UNCHANGED vars
  BY <1>18 DEF vars
<1> QED
  BY <1>1, <1>2, <1>3, <1>4, <1>5, <1>6, <1>7, <1>8, <1>9, <1>10, <1>11,
     <1>12, <1>13, <1>14, <1>15, <1>16, <1>17, <1>18 DEF Next

-----------------------------------------------------------------------------
(***************************************************************************)
(* The invariant.                                                          *)
(***************************************************************************)

\* The empty store satisfies the invariant.
LEMMA InvInit == Init => IInv
<1> SUFFICES ASSUME Init PROVE IInv
  OBVIOUS
<1>1. TypeOK
  BY TypeInit
<1>2. FileInv /\ KnownInv /\ HeldInv /\ PermitInv
  BY FrameType DEF Init, FileInv, KnownInv, HeldInv, PermitInv, Permitted
<1>3. ReceiptDurable /\ FailureBudget
  BY FrameType, LimitAssumption DEF Init, ReceiptDurable, FailureBudget
<1>4. WorkInv
  BY DEF Init, WorkInv, RequestInv, ReadInv, WriteInv
<1> QED
  BY <1>1, <1>2, <1>3, <1>4 DEF IInv, StoreInv

\* A step that publishes no new file and answers nothing, though it may sync,
\* lose power or draw references, keeps the invariant of the store.
LEMMA ShrinkStep ==
  ASSUME TypeOK, TypeOK', StoreInv, UNCHANGED answers,
         minted <= minted', serial <= serial',
         \A c \in Challenges : disk'[c] \subseteq disk[c] /\ files'[c] \in disk'[c]
  PROVE  StoreInv'
<1> USE DEF answers
<1>1. FileInv'
  BY DEF StoreInv, FileInv, TypeOK, Challenges
<1>2. KnownInv'
  BY DEF StoreInv, KnownInv, TypeOK, Challenges
<1>3. HeldInv' /\ ReceiptDurable'
  BY DEF StoreInv, HeldInv, ReceiptDurable, KnownInv
<1>4. PermitInv'
  <2>1. \A h \in held' : h.permit <= serial'
    BY DEF StoreInv, PermitInv, TypeOK
  <2>2. ASSUME NEW c \in Challenges, NEW r \in disk'[c], Permitted(r)
        PROVE  /\ r.permit <= serial'
               /\ \A h \in held' : h.permit = r.permit => h.ch = c
    <3>1. r \in disk[c] /\ r.permit \in Nat
      BY DEF TypeOK, Record
    <3> QED
      BY <2>2, <3>1 DEF StoreInv, PermitInv, TypeOK
  <2>3. \A c, d \in Challenges : \A r \in disk'[c], q \in disk'[d] :
          Permitted(r) /\ Permitted(q) /\ r.permit = q.permit => c = d
    BY DEF StoreInv, PermitInv
  <2> QED
    BY <2>1, <2>2, <2>3 DEF PermitInv, Permitted
<1>5. FailureBudget'
  BY DEF StoreInv, FailureBudget
<1> QED
  BY <1>1, <1>2, <1>3, <1>4, <1>5 DEF StoreInv

\* A step that leaves files, answers and references alone keeps the invariant
\* of the store.
LEMMA QuietStep ==
  ASSUME TypeOK, TypeOK', StoreInv, UNCHANGED <<store, answers, drawn>>
  PROVE  StoreInv'
<1>1. \A c \in Challenges : disk'[c] \subseteq disk[c] /\ files'[c] \in disk'[c]
  BY DEF store, StoreInv, FileInv
<1>2. minted <= minted' /\ serial <= serial'
  BY DEF drawn, TypeOK
<1> QED
  BY <1>1, <1>2, ShrinkStep DEF answers

\* Syncing the directory leaves one file behind each name.
LEMMA SyncStep ==
  ASSUME TypeOK, TypeOK', StoreInv, Synced, UNCHANGED <<answers, drawn>>
  PROVE  /\ StoreInv' /\ UNCHANGED files
         /\ \A c \in Challenges : disk'[c] = {files'[c]}
<1>1. UNCHANGED files /\ \A c \in Challenges : disk'[c] = {files'[c]}
  BY DEF Synced
<1>2. \A c \in Challenges : disk'[c] \subseteq disk[c] /\ files'[c] \in disk'[c]
  BY <1>1 DEF StoreInv, FileInv
<1>3. minted <= minted' /\ serial <= serial'
  BY DEF drawn, TypeOK
<1> QED
  BY <1>1, <1>2, <1>3, ShrinkStep DEF answers

\* Leaving the queue, with an answer or an error, ends all obligations of the
\* operation at its head.
LEMMA LeaveStep == Leave => WorkInv'
  BY DEF Leave, Goto, WorkInv, RequestInv, ReadInv, WriteInv

\* The rename of a record keeps the invariant of the store.
LEMMA RenameStep ==
  ASSUME IInv, TypeOK', Rename
  PROVE  StoreInv'
<1> DEFINE c == rec.ch
<1>1. /\ c \in Challenges /\ c <= minted /\ rec.st # "absent" /\ rec \in Record
      /\ pc = "rename"
  BY DEF IInv, WorkInv, WriteInv, Rename, TypeOK
<1>2. /\ files'[c] = rec /\ disk'[c] = disk[c] \cup {rec}
      /\ \A d \in Challenges \ {c} : files'[d] = files[d] /\ disk'[d] = disk[d]
  BY <1>1 DEF Rename, Publish, IInv, TypeOK
<1>3. UNCHANGED <<known, held, receipts, answered, minted, serial>>
  BY DEF Rename, answers, drawn
<1> HIDE DEF c
<1>4. \A d \in Challenges : \A r \in disk'[d] : r \in disk[d] \/ (d = c /\ r = rec)
  <2> SUFFICES ASSUME NEW d \in Challenges, NEW r \in disk'[d]
               PROVE  r \in disk[d] \/ (d = c /\ r = rec)
    OBVIOUS
  <2>1. CASE d = c
    BY <1>2, <2>1
  <2>2. CASE d # c
    BY <1>2, <2>2
  <2> QED
    BY <2>1, <2>2
<1>5. FileInv'
  BY <1>1, <1>2, <1>3, <1>4 DEF IInv, StoreInv, FileInv, c
<1>6. KnownInv'
  BY <1>1, <1>3, <1>4 DEF IInv, StoreInv, KnownInv, WorkInv, WriteInv, c
<1>7. HeldInv' /\ ReceiptDurable'
  BY <1>1, <1>3, <1>4 DEF IInv, StoreInv, HeldInv, KnownInv, ReceiptDurable,
                          WorkInv, WriteInv, c
<1>8. FailureBudget'
  BY <1>1, <1>3, <1>4 DEF IInv, StoreInv, FailureBudget, WorkInv, WriteInv, c
<1>9. PermitInv'
  <2>1. Permitted(rec) =>
          /\ rec.permit <= serial
          /\ \A h \in held : h.permit = rec.permit => h.ch = c
          /\ \A d \in Challenges \ {c} : \A q \in disk[d] :
               Permitted(q) => q.permit # rec.permit
    BY <1>1 DEF IInv, WorkInv, WriteInv, c
  <2> QED
    BY <1>1, <1>3, <1>4, <2>1 DEF IInv, StoreInv, PermitInv, Permitted
<1> QED
  BY <1>5, <1>6, <1>7, <1>8, <1>9 DEF StoreInv

\* A step of pruneExpired() keeps the invariant of the store.
LEMMA PruneStep ==
  ASSUME IInv, TypeOK', Prune
  PROVE  StoreInv'
<1>1. PICK c \in todo : Publish(c, Absent) \/ UNCHANGED store
  BY DEF Prune
<1>2. UNCHANGED <<known, held, receipts, answered, minted, serial>>
  BY DEF Prune, answers, drawn
<1>3. CASE UNCHANGED store
  BY <1>2, <1>3, QuietStep DEF IInv, answers, drawn
<1>4. CASE Publish(c, Absent)
  <2>1. c \in Challenges
    BY DEF IInv, TypeOK
  <2>2. \A d \in Challenges :
          /\ files'[d] \in disk'[d]
          /\ \A r \in disk'[d] : r \in disk[d] \/ r = Absent
    BY <1>4, <2>1 DEF Publish, IInv, TypeOK, StoreInv, FileInv
  <2>3. \A d \in Challenges : \A r \in disk'[d] :
          r \in disk[d] \/ r.st = "absent"
    BY <2>2, FrameType
  <2>4. FileInv' /\ KnownInv' /\ HeldInv'
    BY <1>2, <2>2, <2>3 DEF IInv, StoreInv, FileInv, KnownInv, HeldInv
  <2>5. PermitInv'
    BY <1>2, <2>3 DEF IInv, StoreInv, PermitInv, Permitted
  <2>6. ReceiptDurable' /\ FailureBudget'
    BY <1>2, <2>3 DEF IInv, StoreInv, KnownInv, ReceiptDurable, FailureBudget
  <2> QED
    BY <2>4, <2>5, <2>6 DEF StoreInv
<1> QED
  BY <1>1, <1>3, <1>4

\* An answer keeps the invariant of the store.
LEMMA AnswerStep ==
  ASSUME IInv, TypeOK', Answer
  PROVE  StoreInv'
<1> DEFINE c == rec.ch
<1>1. /\ c \in Challenges /\ c <= minted /\ disk[c] = {rec} /\ rec.st # "absent"
      /\ rec \in Record
  BY DEF IInv, WorkInv, WriteInv, Answer, TypeOK
<1>2. UNCHANGED <<files, disk, minted, serial>>
  BY DEF Answer, store, drawn
<1>3. CASE /\ known' = known \cup {[ch |-> c, binding |-> rec.binding]}
           /\ UNCHANGED <<held, receipts, answered>>
  <2>1. FileInv' /\ HeldInv' /\ PermitInv' /\ ReceiptDurable' /\ FailureBudget'
    BY <1>2, <1>3 DEF IInv, StoreInv, FileInv, HeldInv, PermitInv,
                      ReceiptDurable, FailureBudget
  <2>2. KnownInv'
    BY <1>1, <1>2, <1>3 DEF IInv, StoreInv, KnownInv
  <2> QED
    BY <2>1, <2>2 DEF StoreInv
<1>4. CASE /\ rec.st = "pending" /\ req.kind = "verify"
           /\ answered' = [answered EXCEPT ![c] = @ + 1]
           /\ UNCHANGED <<known, held, receipts>>
  <2>1. KnownInv' /\ HeldInv' /\ PermitInv' /\ ReceiptDurable'
    BY <1>2, <1>4 DEF IInv, StoreInv, KnownInv, HeldInv, PermitInv,
                      ReceiptDurable
  <2>2. answered[c] < rec.failures /\ rec.failures <= MaxFailures
    BY <1>4 DEF IInv, WorkInv, WriteInv, Answer
  <2>3. answered[c] \in Nat /\ rec.failures \in Nat /\ MaxFailures \in Nat
    BY <1>1, LimitAssumption DEF IInv, TypeOK, Record
  <2>4. /\ answered'[c] = answered[c] + 1
        /\ \A d \in Challenges \ {c} : answered'[d] = answered[d]
    BY <1>1, <1>4 DEF IInv, TypeOK
  <2>5. FileInv'
    <3> SUFFICES ASSUME NEW d \in Challenges, d > minted
                 PROVE  answered'[d] = 0
      BY <1>2 DEF IInv, StoreInv, FileInv
    <3>1. d # c
      BY <1>1 DEF Challenges, IInv, TypeOK
    <3> QED
      BY <2>4, <3>1 DEF IInv, StoreInv, FileInv
  <2>6. FailureBudget'
    <3> SUFFICES ASSUME NEW d \in Challenges
                 PROVE  /\ answered'[d] <= MaxFailures
                        /\ \A r \in disk[d] :
                             r.st # "absent" => answered'[d] <= r.failures
      BY <1>2 DEF FailureBudget
    <3>1. CASE d = c
      BY <1>1, <2>2, <2>3, <2>4, <3>1
    <3>2. CASE d # c
      BY <2>4, <3>2 DEF IInv, StoreInv, FailureBudget
    <3> QED
      BY <3>1, <3>2
  <2> QED
    BY <2>1, <2>5, <2>6 DEF StoreInv
<1>5. CASE /\ rec.st = "verified"
           /\ held' = held \cup {[ch |-> c, permit |-> rec.permit]}
           /\ UNCHANGED <<known, receipts, answered>>
  <2>1. FileInv' /\ ReceiptDurable' /\ FailureBudget'
    BY <1>2, <1>5 DEF IInv, StoreInv, FileInv, ReceiptDurable, FailureBudget
  <2>2. KnownInv' /\ HeldInv'
    BY <1>1, <1>2, <1>5 DEF IInv, StoreInv, KnownInv, HeldInv
  <2>3. /\ rec.permit <= serial
        /\ \A d \in Challenges \ {c} : \A q \in disk[d] :
             Permitted(q) => q.permit # rec.permit
    BY <1>5 DEF IInv, WorkInv, WriteInv, Answer, Permitted
  <2>4. PermitInv'
    BY <1>2, <1>5, <2>3 DEF IInv, StoreInv, PermitInv, Permitted
  <2> QED
    BY <2>1, <2>2, <2>4 DEF StoreInv
<1>6. CASE /\ rec.st = "consumed"
           /\ receipts' = receipts \cup
                {[ch |-> c, permit |-> rec.permit, receipt |-> rec.receipt,
                  binding |-> rec.binding]}
           /\ UNCHANGED <<known, held, answered>>
  <2>1. FileInv' /\ HeldInv' /\ PermitInv' /\ FailureBudget'
    BY <1>2, <1>6 DEF IInv, StoreInv, FileInv, HeldInv, PermitInv,
                      FailureBudget
  <2>2. KnownInv' /\ ReceiptDurable'
    BY <1>1, <1>2, <1>6 DEF IInv, StoreInv, KnownInv, ReceiptDurable
  <2> QED
    BY <2>1, <2>2 DEF StoreInv
<1> QED
  BY <1>3, <1>4, <1>5, <1>6 DEF Answer

\* The record read for verify() is neither answered for nor spent, so the record
\* written after the factor is checked meets its obligations.
LEMMA FactorStep ==
  ASSUME IInv, TypeOK', FactorInvalid \/ FactorValid
  PROVE  WorkInv'
<1>1. /\ pc = "factor" /\ pc' = "rename" /\ rec.ch = req.ch
      /\ rec.st = "pending" /\ rec.failures < MaxFailures
      /\ disk[rec.ch] = {rec} /\ req.kind = "verify" /\ rec \in Record
  BY DEF IInv, WorkInv, ReadInv, RequestInv, FactorInvalid, FactorValid, Goto,
         TypeOK
<1>2. UNCHANGED <<files, disk, known, held, receipts, answered, minted, req>>
  BY DEF FactorInvalid, FactorValid, store, answers, drawn
<1>3. PICK k \in known : k.ch = rec.ch
  BY <1>1 DEF IInv, WorkInv, RequestInv
<1>4. /\ rec.ch \in Challenges /\ rec.ch <= minted
      /\ answered[rec.ch] <= rec.failures
      /\ \A j \in known : j.ch = rec.ch => j.binding = rec.binding
      /\ \A r \in receipts : r.ch # rec.ch
      /\ \A h \in held : h.ch # rec.ch
  BY <1>1, <1>3 DEF IInv, StoreInv, KnownInv, FailureBudget, ReceiptDurable,
                    HeldInv
<1>5. answered[rec.ch] \in Nat /\ rec.failures \in Nat /\ MaxFailures \in Nat
      /\ serial \in Nat
  BY <1>1, <1>4, LimitAssumption DEF IInv, TypeOK, Record
<1>6. RequestInv' /\ ReadInv'
  BY <1>1, <1>2 DEF IInv, WorkInv, RequestInv, ReadInv
<1>7. CASE FactorInvalid
  <2>1. /\ rec'.st = "pending" /\ rec'.ch = rec.ch /\ rec'.binding = rec.binding
        /\ rec'.failures = rec.failures + 1
    BY <1>1, <1>7 DEF FactorInvalid, Charged, Record
  <2>2. WriteInv'
    BY <1>1, <1>2, <1>4, <1>5, <2>1 DEF WriteInv, Permitted
  <2> QED
    BY <1>6, <2>2 DEF WorkInv
<1>8. CASE FactorValid
  <2>1. /\ rec'.st = "verified" /\ rec'.ch = rec.ch /\ rec'.permit = serial'
        /\ rec'.binding = rec.binding /\ rec'.failures = rec.failures
    BY <1>1, <1>8 DEF FactorValid, Record
  <2>2. serial' = serial + 1
    BY <1>8 DEF FactorValid
  <2>3. /\ \A h \in held : h.permit # serial'
        /\ \A d \in Challenges : \A q \in disk[d] :
             Permitted(q) => q.permit # serial'
    <3>1. \A n \in Nat : n <= serial => n # serial'
      BY <1>5, <2>2
    <3>2. \A h \in held : h.permit \in Nat
      BY DEF IInv, TypeOK
    <3>3. \A d \in Challenges : \A q \in disk[d] : q.permit \in Nat
      BY DEF IInv, TypeOK, Record
    <3> QED
      BY <3>1, <3>2, <3>3 DEF IInv, StoreInv, PermitInv
  <2>4. serial' \in Nat /\ serial' <= serial'
    BY <1>5, <2>2
  <2>5. WriteInv'
    BY <1>1, <1>2, <1>3, <1>4, <2>1, <2>3, <2>4 DEF WriteInv, Permitted
  <2> QED
    BY <1>6, <2>5 DEF WorkInv
<1> QED
  BY <1>7, <1>8

\* The record read for consume() was verified and its permit answered, and no
\* receipt was given for it.
LEMMA ConsumeStep ==
  ASSUME IInv, TypeOK', Consume
  PROVE  WorkInv'
<1> DEFINE r == files[req.ch]
<1>1. PICK k \in known : k.ch = req.ch
  BY DEF IInv, WorkInv, RequestInv, Consume
<1>2. PICK h \in held : h.permit = req.permit
  BY DEF IInv, WorkInv, RequestInv, Consume
<1>3. /\ req.ch \in Challenges /\ req.ch <= minted
      /\ disk[req.ch] = {r} /\ r \in Record
  BY <1>1 DEF IInv, StoreInv, KnownInv, WorkInv, ReadInv, Consume, TypeOK
<1>4. /\ r.st = "verified" /\ r.permit = req.permit /\ pc' = "rename"
      /\ rec' = [r EXCEPT !.st = "consumed", !.receipt = serial']
  BY DEF Consume, Consumable, Goto
<1>5. serial' = serial + 1 /\ req.kind = "consume" /\ pc = "read"
      /\ UNCHANGED <<files, disk, known, held, receipts, answered, minted, req>>
  BY DEF Consume, store, answers
<1>6. /\ rec'.st = "consumed" /\ rec'.ch = r.ch /\ rec'.binding = r.binding
      /\ rec'.failures = r.failures /\ rec'.permit = r.permit
  BY <1>3, <1>4 DEF Record
<1> HIDE DEF r
<1>7. r.ch = req.ch
  BY <1>3, <1>4 DEF IInv, StoreInv, FileInv
<1>8. /\ answered[r.ch] <= r.failures
      /\ \A j \in known : j.ch = r.ch => j.binding = r.binding
      /\ \A q \in receipts : q.ch # r.ch
  BY <1>3, <1>4, <1>7 DEF IInv, StoreInv, KnownInv, FailureBudget,
                          ReceiptDurable
<1>9. /\ r.permit <= serial
      /\ \A g \in held : g.permit = r.permit => g.ch = r.ch
      /\ \A d \in Challenges \ {r.ch} : \A q \in disk[d] :
           Permitted(q) => q.permit # r.permit
  <2>1. Permitted(r) /\ r \in disk[r.ch] /\ r.ch \in Challenges
    BY <1>3, <1>4, <1>7 DEF Permitted
  <2> QED
    BY <2>1, <1>7 DEF IInv, StoreInv, PermitInv
<1>10. [ch |-> r.ch, permit |-> r.permit] \in held
  <2>1. h.ch = r.ch /\ h.permit = r.permit
    BY <1>2, <1>4, <1>9
  <2>2. h \in [ch : Nat, permit : Nat]
    BY DEF IInv, TypeOK
  <2>3. h = [ch |-> h.ch, permit |-> h.permit]
    BY <2>2
  <2> QED
    BY <2>1, <2>3
<1>11. r.permit <= serial'
  BY <1>3, <1>5, <1>9 DEF IInv, TypeOK, Record
<1>12. RequestInv' /\ ReadInv'
  BY <1>4, <1>5 DEF IInv, WorkInv, RequestInv, ReadInv
<1>13. WriteInv'
  BY <1>1, <1>3, <1>4, <1>5, <1>6, <1>7, <1>8, <1>9, <1>10, <1>11
     DEF WriteInv, Permitted
<1> QED
  BY <1>12, <1>13 DEF WorkInv

\* Every step keeps the invariant.
LEMMA InvStep == IInv /\ [Next]_vars => IInv'
<1> SUFFICES ASSUME IInv, [Next]_vars
             PROVE  StoreInv' /\ WorkInv'
  BY TypeStep DEF IInv
<1>a. TypeOK /\ TypeOK' /\ StoreInv /\ WorkInv
  BY TypeStep DEF IInv
<1> USE DEF Goto
<1>1. CASE Enter
  <2>1. UNCHANGED <<store, answers, drawn>> /\ pc' = "prepare"
    BY <1>1 DEF Enter
  <2>2. /\ req'.kind # "issue" => \E k \in known : k.ch = req'.ch
        /\ req'.kind = "consume" => \E h \in held : h.permit = req'.permit
    BY <1>1 DEF Enter, Input
  <2>3. WorkInv'
    BY <2>1, <2>2 DEF WorkInv, RequestInv, ReadInv, WriteInv, answers
  <2> QED
    BY <1>a, <2>1, <2>3, QuietStep
<1>2. CASE Prepare
  <2>1. Synced /\ UNCHANGED <<answers, drawn>>
    BY <1>2 DEF Prepare
  <2>2. StoreInv' /\ \A c \in Challenges : disk'[c] = {files'[c]}
    BY <1>a, <2>1, SyncStep
  <2>3. WorkInv'
    BY <1>a, <1>2, <2>2 DEF Prepare, WorkInv, RequestInv, ReadInv, WriteInv,
                            answers
  <2> QED
    BY <2>2, <2>3
<1>3. CASE Rename
  <2>1. StoreInv'
    BY <1>a, <1>3, RenameStep
  <2>2. /\ pc = "rename" /\ pc' = "sync"
        /\ UNCHANGED <<known, held, receipts, answered, minted, serial, req, rec>>
    BY <1>3 DEF Rename, answers, drawn, frame
  <2>3. rec.ch \in Challenges
    BY <1>a, <2>2 DEF WorkInv, WriteInv
  <2>4. /\ files'[rec.ch] = rec
        /\ \A d \in Challenges \ {rec.ch} : disk'[d] = disk[d]
    BY <1>a, <1>3, <2>3 DEF Rename, Publish, TypeOK
  <2>5. RequestInv' /\ ReadInv'
    BY <1>a, <2>2 DEF WorkInv, RequestInv, ReadInv
  <2>6. WriteInv'
    BY <1>a, <2>2, <2>3, <2>4 DEF WorkInv, WriteInv, Permitted
  <2> QED
    BY <2>1, <2>5, <2>6 DEF WorkInv
<1>4. CASE Sync
  <2>1. Synced /\ UNCHANGED <<answers, drawn>>
    BY <1>4 DEF Sync
  <2>2. StoreInv' /\ UNCHANGED files
        /\ \A c \in Challenges : disk'[c] = {files'[c]}
    BY <1>a, <2>1, SyncStep
  <2>3. /\ pc = "sync" /\ pc' = "answer"
        /\ UNCHANGED <<known, held, receipts, answered, minted, serial, req, rec>>
    BY <1>4 DEF Sync, answers, drawn, frame
  <2>4. \A c \in Challenges : disk'[c] \subseteq disk[c]
    BY <1>a, <2>2 DEF StoreInv, FileInv
  <2>5. RequestInv' /\ ReadInv'
    BY <1>a, <2>3 DEF WorkInv, RequestInv, ReadInv
  <2>6. WriteInv'
    BY <1>a, <2>2, <2>3, <2>4 DEF WorkInv, WriteInv, Permitted
  <2> QED
    BY <2>2, <2>5, <2>6 DEF WorkInv
<1>5. CASE IOError
  BY <1>a, <1>5, QuietStep, LeaveStep DEF IOError
<1>6. CASE Prune
  <2>1. WorkInv'
    BY <1>a, <1>6 DEF Prune, WorkInv, RequestInv, ReadInv, WriteInv, answers
  <2> QED
    BY <1>a, <1>6, <2>1, PruneStep
<1>7. CASE Pruned
  <2>1. UNCHANGED <<answers, drawn>> /\ (Synced \/ UNCHANGED store)
    BY <1>7 DEF Pruned, Removals
  <2>2. StoreInv'
    BY <1>a, <2>1, SyncStep, QuietStep
  <2>3. WorkInv'
    BY <1>a, <1>7 DEF Pruned, WorkInv, RequestInv, ReadInv, WriteInv, answers,
                      frame
  <2> QED
    BY <2>2, <2>3
<1>8. CASE Issue
  <2>1. /\ UNCHANGED <<store, answers, serial, req>> /\ pc = "issue"
        /\ pc' = "rename" /\ minted' = minted + 1 /\ minted < MaxChallenges
    BY <1>8 DEF Issue
  <2>2. minted \in Nat /\ serial \in Nat /\ MaxChallenges \in Nat
    BY <1>a, LimitAssumption DEF TypeOK
  <2>3. \A c \in Challenges : disk'[c] \subseteq disk[c] /\ files'[c] \in disk'[c]
    BY <1>a, <2>1 DEF store, StoreInv, FileInv
  <2>4. StoreInv'
    BY <1>a, <2>1, <2>2, <2>3, ShrinkStep DEF answers
  <2>5. /\ minted' \in Challenges /\ minted' > minted
        /\ minted' <= minted' /\ \A n \in Nat : n <= minted => n # minted'
    BY <2>1, <2>2 DEF Challenges
  <2>6. /\ rec'.st = "pending" /\ rec'.ch = minted' /\ rec'.failures = 0
    BY <1>8, <2>1 DEF Issue, Absent
  <2>7. answered[minted'] = 0
    BY <1>a, <2>5 DEF StoreInv, FileInv
  <2>8. \A c \in Challenges : c <= minted => c # minted'
    BY <2>5 DEF Challenges
  <2>9. /\ \A k \in known : k.ch # minted'
        /\ \A h \in held : h.ch # minted'
        /\ \A r \in receipts : r.ch # minted'
    BY <1>a, <2>8 DEF StoreInv, KnownInv
  <2>10. RequestInv' /\ ReadInv'
    BY <1>a, <2>1 DEF WorkInv, RequestInv, ReadInv, answers
  <2>11. req.kind = "issue"
    BY <1>a, <2>1 DEF WorkInv, RequestInv
  <2>12. WriteInv'
    BY <2>1, <2>5, <2>6, <2>7, <2>9, <2>11
       DEF WriteInv, Permitted, answers, store
  <2> QED
    BY <2>4, <2>10, <2>12 DEF WorkInv
<1>9. CASE Verify
  <2>1. /\ UNCHANGED <<store, answers, drawn, req>> /\ pc = "read"
        /\ pc' = "factor" /\ req.kind = "verify" /\ rec' = files[req.ch]
        /\ files[req.ch].st = "pending" /\ files[req.ch].failures < MaxFailures
    BY <1>9 DEF Verify, WithinBudget
  <2>2. req.ch \in Challenges
    BY <1>a, <2>1 DEF WorkInv, RequestInv, StoreInv, KnownInv
  <2>3. disk[req.ch] = {files[req.ch]} /\ files[req.ch].ch = req.ch
    BY <1>a, <2>1, <2>2 DEF WorkInv, ReadInv, StoreInv, FileInv
  <2>4. WorkInv'
    BY <1>a, <2>1, <2>3 DEF WorkInv, RequestInv, ReadInv, WriteInv, answers,
                            store
  <2> QED
    BY <1>a, <2>1, <2>4, QuietStep
<1>10. CASE FactorInvalid
  <2>1. UNCHANGED <<store, answers, drawn>>
    BY <1>10 DEF FactorInvalid
  <2> QED
    BY <1>a, <1>10, <2>1, QuietStep, FactorStep
<1>11. CASE FactorValid \/ Consume
  <2>1. UNCHANGED <<store, answers, minted>> /\ serial' = serial + 1
    BY <1>11 DEF FactorValid, Consume
  <2>2. minted <= minted' /\ serial <= serial'
    BY <1>a, <2>1 DEF TypeOK
  <2>3. \A c \in Challenges : disk'[c] \subseteq disk[c] /\ files'[c] \in disk'[c]
    BY <1>a, <2>1 DEF store, StoreInv, FileInv
  <2>4. StoreInv'
    BY <1>a, <2>1, <2>2, <2>3, ShrinkStep DEF answers
  <2> QED
    BY <1>a, <1>11, <2>4, FactorStep, ConsumeStep
<1>12. CASE Answer
  <2>1. Leave
    BY <1>12 DEF Answer
  <2> QED
    BY <1>a, <1>12, <2>1, AnswerStep, LeaveStep
<1>13. CASE Refuse
  BY <1>a, <1>13, QuietStep, LeaveStep DEF Refuse
<1>14. CASE SetClock \/ UNCHANGED vars
  <2>1. UNCHANGED <<store, frame, answers, drawn, pc>>
    BY <1>14 DEF SetClock, vars
  <2>2. WorkInv'
    BY <1>a, <2>1 DEF WorkInv, RequestInv, ReadInv, WriteInv, Permitted, store,
                      frame, answers, drawn
  <2> QED
    BY <1>a, <2>1, <2>2, QuietStep
<1>15. CASE Crash
  BY <1>a, <1>15, QuietStep, LeaveStep DEF Crash, Restart
<1>16. CASE PowerLoss
  <2>1. Leave /\ UNCHANGED <<answers, drawn>>
    BY <1>16 DEF PowerLoss, Restart
  <2>2. \A c \in Challenges : disk'[c] \subseteq disk[c] /\ files'[c] \in disk'[c]
    BY <1>16 DEF PowerLoss
  <2>3. minted <= minted' /\ serial <= serial'
    BY <1>a, <2>1 DEF drawn, TypeOK
  <2> QED
    BY <1>a, <2>1, <2>2, <2>3, ShrinkStep, LeaveStep DEF answers
<1> QED
  BY <1>1, <1>2, <1>3, <1>4, <1>5, <1>6, <1>7, <1>8, <1>9, <1>10, <1>11,
     <1>12, <1>13, <1>14, <1>15, <1>16 DEF Next

\* The invariant holds in every reachable state.
LEMMA Invariance == Spec => []IInv
  BY InvInit, InvStep, PTL DEF Spec

-----------------------------------------------------------------------------
(***************************************************************************)
(* The results.                                                            *)
(***************************************************************************)

\* The variables of FileActionStepUpStore's model always hold values of their
\* types.
THEOREM TypeCorrect == Spec => []TypeOK
<1>1. IInv => TypeOK
  BY DEF IInv
<1> QED
  BY <1>1, Invariance, PTL

\* A receipt that consume() answered stays backed by its tombstone, whatever
\* fails, dies or loses power, until pruneExpired() removes the challenge.
THEOREM ReceiptsDurable == Spec => []ReceiptDurable
<1>1. IInv => ReceiptDurable
  BY DEF IInv, StoreInv
<1> QED
  BY <1>1, Invariance, PTL

\* A wrong factor that verify() answered is never given back, and a challenge
\* answers at most maxFailures of them.
THEOREM BudgetKept == Spec => []FailureBudget
<1>1. IInv => FailureBudget
  BY DEF IInv, StoreInv
<1> QED
  BY <1>1, Invariance, PTL

\* FileActionStepUpStore implements its contract: each answer is one step of
\* the contract and every other step, crashes and power losses included, is a
\* stutter.
THEOREM ContractKept == Spec => KeepsContract
<1>1. Init => Contract!Init
  BY DEF Init, Contract!Init
<1>2. IInv /\ [Next]_vars => [Contract!Next]_(Contract!contract)
  <2> SUFFICES ASSUME IInv, [Next]_vars, ~UNCHANGED Contract!contract
               PROVE  Contract!Next
    OBVIOUS
  <2>1. Answer
    BY DEF Next, Enter, Prepare, Rename, Sync, IOError, Prune, Pruned, Issue,
           Verify, FactorInvalid, FactorValid, Consume, Refuse, SetClock, Crash,
           PowerLoss, Restart, vars, answers, Contract!contract
  <2>2. /\ rec.ch \in Challenges /\ rec.binding \in Bindings
        /\ req.kind = "issue" => \A k \in known : k.ch # rec.ch
        /\ rec.st # "pending" => \E k \in known : k.ch = rec.ch
        /\ \A k \in known : k.ch = rec.ch => k.binding = rec.binding
        /\ rec.st # "consumed" => \A h \in held : h.ch # rec.ch
        /\ Permitted(rec) => \A h \in held : h.permit = rec.permit => h.ch = rec.ch
        /\ rec.st = "consumed" => [ch |-> rec.ch, permit |-> rec.permit] \in held
        /\ \A r \in receipts : r.ch # rec.ch
    BY <2>1 DEF Answer, IInv, WorkInv, WriteInv, TypeOK, Record
  <2>3. CASE /\ req.kind = "issue" /\ UNCHANGED <<held, receipts>>
             /\ known' = known \cup {[ch |-> rec.ch, binding |-> rec.binding]}
    BY <2>2, <2>3 DEF Contract!Next, Contract!Issue
  <2>4. CASE /\ rec.st = "verified" /\ UNCHANGED <<known, receipts>>
             /\ held' = held \cup {[ch |-> rec.ch, permit |-> rec.permit]}
    <3>1. \A h \in held : h.ch # rec.ch /\ h.permit # rec.permit
      BY <2>2, <2>4 DEF Permitted
    <3> QED
      BY <2>2, <2>4, <3>1 DEF Contract!Next, Contract!Permit
  <2>5. CASE /\ rec.st = "consumed" /\ UNCHANGED <<known, held>>
             /\ receipts' = receipts \cup
                  {[ch |-> rec.ch, permit |-> rec.permit,
                    receipt |-> rec.receipt, binding |-> rec.binding]}
    <3>1. PICK k \in known : k.ch = rec.ch /\ k.binding = rec.binding
      BY <2>2, <2>5
    <3>2. k = [ch |-> k.ch, binding |-> k.binding]
      BY DEF IInv, TypeOK
    <3>3. [ch |-> rec.ch, binding |-> rec.binding] \in known
      BY <3>1, <3>2
    <3> QED
      BY <2>2, <2>5, <3>3 DEF Contract!Next, Contract!Spend
  <2> QED
    BY <2>1, <2>3, <2>4, <2>5 DEF Answer, Contract!contract
<1> QED
  BY <1>1, <1>2, Invariance, PTL DEF Spec, KeepsContract, Contract!Spec

-----------------------------------------------------------------------------
(***************************************************************************)
(* The room on disk.  pruneExpired counts what it leaves visible; the count*)
(* is of what is on disk because removals are synced before it is used, and*)
(* only the record about to be renamed can be added to it.                 *)
(***************************************************************************)

\* challenges with a file that a power loss may leave behind
Occupied == {c \in Challenges : \E r \in disk[c] : r.st # "absent"}

\* challenges with a file in the directory
Visible == {c \in Challenges : files[c].st # "absent"}

\* what pruneExpired has counted, and the room kept for the record to rename
CountInv ==
  /\ pc \in {"idle", "prepare"} => count = 0 /\ removed = FALSE
  /\ pc = "prune" =>
       /\ todo \subseteq Visible /\ count = Cardinality(Visible \ todo)
       /\ removed = FALSE => \A c \in Challenges : disk[c] = {files[c]}
  /\ pc = "issue" => count = Cardinality(Occupied)
  /\ pc = "rename" => Cardinality(Occupied \cup {rec.ch}) <= MaxRecords

CapacityInv == CapacityBound /\ CountInv

\* Sets of challenges are finite, and a subset has no more members.
LEMMA Countable ==
  /\ \A S \in SUBSET Challenges : IsFiniteSet(S) /\ Cardinality(S) \in Nat
  /\ \A S, T \in SUBSET Challenges :
       S \subseteq T => Cardinality(S) <= Cardinality(T)
  /\ \A S \in SUBSET Challenges : \A c :
       /\ Cardinality(S \cup {c}) \in Nat
       /\ Cardinality(S \cup {c}) <= Cardinality(S) + 1
       /\ c \notin S => Cardinality(S \cup {c}) = Cardinality(S) + 1
<1>1. IsFiniteSet(Challenges)
  BY FS_Interval, LimitAssumption DEF Challenges
<1>2. \A S \in SUBSET Challenges : IsFiniteSet(S) /\ Cardinality(S) \in Nat
  BY <1>1, FS_Subset, FS_CardinalityType
<1>3. \A S, T \in SUBSET Challenges :
        S \subseteq T => Cardinality(S) <= Cardinality(T)
  BY <1>2, FS_Subset
<1>4. ASSUME NEW S \in SUBSET Challenges, NEW c
      PROVE  /\ Cardinality(S \cup {c}) \in Nat
             /\ Cardinality(S \cup {c}) <= Cardinality(S) + 1
             /\ c \notin S => Cardinality(S \cup {c}) = Cardinality(S) + 1
  <2>1. Cardinality(S \cup {c})
          = IF c \in S THEN Cardinality(S) ELSE Cardinality(S) + 1
    BY <1>2, FS_AddElement
  <2> QED
    BY <1>2, <2>1
<1> QED
  BY <1>2, <1>3, <1>4

\* A step that leaves no more challenges on disk keeps the bound.
LEMMA RoomStep ==
  ASSUME CapacityBound, Occupied' \subseteq Occupied
  PROVE  CapacityBound'
<1>1. Occupied \in SUBSET Challenges /\ Occupied' \in SUBSET Challenges
  BY DEF Occupied, Challenges
<1>2. Cardinality(Occupied') <= Cardinality(Occupied)
  BY <1>1, Countable
<1>3. /\ Cardinality(Occupied') \in Nat /\ Cardinality(Occupied) \in Nat
      /\ Cardinality(Occupied) <= MaxRecords
  BY <1>1, Countable DEF CapacityBound, Occupied
<1>4. Cardinality(Occupied') <= MaxRecords
  BY <1>2, <1>3, LimitAssumption
<1> QED
  BY <1>4 DEF CapacityBound, Occupied

\* Only rename() puts a challenge on disk, and only the one it writes.
LEMMA OccupiedStep ==
  ASSUME IInv, [Next]_vars
  PROVE  /\ Rename => Occupied' = Occupied \cup {rec.ch}
         /\ ~Rename => Occupied' \subseteq Occupied
<1>a. TypeOK /\ FileInv
  BY DEF IInv, StoreInv
<1>1. ASSUME Rename PROVE Occupied' = Occupied \cup {rec.ch}
  <2>1. /\ rec.st # "absent" /\ rec.ch \in Challenges
        /\ disk' = [disk EXCEPT ![rec.ch] = @ \cup {rec}]
    BY <1>1 DEF Rename, Publish, IInv, WorkInv, WriteInv
  <2>2. disk'[rec.ch] = disk[rec.ch] \cup {rec}
        /\ \A c \in Challenges : c # rec.ch => disk'[c] = disk[c]
    BY <1>a, <2>1 DEF TypeOK
  <2> QED
    BY <2>1, <2>2 DEF Occupied
<1>2. ASSUME Synced PROVE Occupied' \subseteq Occupied
  BY <1>2, <1>a DEF Synced, Occupied, FileInv
<1>3. ASSUME Prune PROVE Occupied' \subseteq Occupied
  <2>1. PICK c \in todo : Publish(c, Absent) \/ UNCHANGED disk
    BY <1>3 DEF Prune, store
  <2>2. \A d \in Challenges : disk'[d] \subseteq disk[d] \cup {Absent}
    BY <1>a, <2>1 DEF Publish, TypeOK
  <2> QED
    BY <2>2, FrameType DEF Occupied
<1>4. ASSUME PowerLoss PROVE Occupied' \subseteq Occupied
  <2>1. \A c \in Challenges : disk'[c] = {files'[c]} /\ files'[c] \in disk[c]
    BY <1>4 DEF PowerLoss
  <2> QED
    BY <2>1 DEF Occupied
<1>5. ASSUME UNCHANGED disk PROVE Occupied' \subseteq Occupied
  BY <1>5 DEF Occupied
<1>6. Rename \/ Synced \/ Prune \/ PowerLoss \/ UNCHANGED disk
  BY DEF Next, Enter, Prepare, Sync, IOError, Pruned, Removals, Issue,
         Verify, FactorInvalid, FactorValid, Consume, Answer, Refuse, SetClock,
         Crash, vars, store
<1> QED
  BY <1>1, <1>2, <1>3, <1>4, <1>5, <1>6

\* pruneExpired counts the files it leaves, and knows it has removed none only
\* while nothing is undecided on disk.
LEMMA PruneCounts ==
  ASSUME IInv, CountInv, Prune
  PROVE  CountInv'
<1>a. TypeOK
  BY DEF IInv
<1>1. PICK c \in todo :
        /\ todo' = todo \ {c}
        /\ \/ Publish(c, Absent) /\ removed' = TRUE /\ UNCHANGED count
           \/ count' = count + 1 /\ UNCHANGED <<store, removed>>
  BY DEF Prune
<1>2. /\ todo \subseteq Visible /\ count = Cardinality(Visible \ todo)
      /\ removed = FALSE => \A d \in Challenges : disk[d] = {files[d]}
      /\ pc = "prune" /\ pc' = "prune" /\ c \in Challenges
  BY <1>a DEF CountInv, Prune, TypeOK
<1>3. CASE Publish(c, Absent) /\ removed' = TRUE /\ UNCHANGED count
  <2>1. Visible' = Visible \ {c}
    BY <1>2, <1>3, <1>a, FrameType DEF Publish, Visible, TypeOK
  <2>2. todo' \subseteq Visible' /\ Visible' \ todo' = Visible \ todo
    BY <1>1, <1>2, <2>1
  <2> QED
    BY <1>2, <1>3, <2>2 DEF CountInv
<1>4. CASE count' = count + 1 /\ UNCHANGED <<store, removed>>
  <2>1. Visible' = Visible /\ files' = files /\ disk' = disk
    BY <1>4 DEF Visible, store
  <2>2. Visible' \ todo' = (Visible \ todo) \cup {c} /\ c \notin Visible \ todo
    BY <1>1, <1>2, <2>1
  <2>3. Visible \ todo \in SUBSET Challenges
    BY DEF Visible
  <2>4. Cardinality(Visible' \ todo') = Cardinality(Visible \ todo) + 1
    BY <2>2, <2>3, Countable
  <2>5. todo' \subseteq Visible' /\ count' = Cardinality(Visible' \ todo')
    BY <1>1, <1>2, <1>4, <2>1, <2>4
  <2>6. removed' = FALSE => \A d \in Challenges : disk'[d] = {files'[d]}
    BY <1>2, <1>4, <2>1
  <2> QED
    BY <1>2, <2>5, <2>6 DEF CountInv
<1> QED
  BY <1>1, <1>3, <1>4

\* Every step keeps the count of pruneExpired and the room of the next rename.
LEMMA CountStep ==
  ASSUME IInv, CapacityInv, [Next]_vars
  PROVE  CountInv'
<1>a. TypeOK /\ CountInv /\ Occupied \in SUBSET Challenges
  BY DEF IInv, CapacityInv, Occupied
<1>b. Cardinality(Occupied) \in Nat /\ Cardinality(Occupied) <= MaxRecords
  BY <1>a, Countable DEF CapacityInv, CapacityBound, Occupied
<1>c. UNCHANGED disk => Occupied' = Occupied
  BY DEF Occupied
<1>d. UNCHANGED <<files, disk>> => Visible' = Visible
  BY DEF Visible
<1>1. CASE Leave
  BY <1>1 DEF Leave, Goto, CountInv
<1>2. CASE Enter
  BY <1>2, <1>a DEF Enter, Goto, CountInv
<1>3. CASE Prepare
  <2>1. CASE pc' = "read"
    BY <2>1 DEF CountInv
  <2>2. CASE pc' = "prune"
    <3>1. /\ count' = 0 /\ removed' = FALSE /\ files' = files /\ todo' = Visible
          /\ \A c \in Challenges : disk'[c] = {files'[c]}
      BY <1>3, <1>a, <2>2 DEF Prepare, Synced, Goto, CountInv, Visible
    <3>2. Visible' = Visible /\ Visible' \ todo' = {}
      BY <3>1 DEF Visible
    <3> QED
      BY <2>2, <3>1, <3>2, FS_EmptySet DEF CountInv
  <2> QED
    BY <1>3, <2>1, <2>2 DEF Prepare, Goto
<1>4. CASE Prune
  BY <1>4, <1>a, PruneCounts
<1>5. CASE Pruned
  <2>1. /\ pc = "prune" /\ todo = {} /\ pc' = "issue" /\ count' = count
        /\ files' = files /\ Removals
    BY <1>5 DEF Pruned, Goto, frame, Removals, Synced, store
  <2>2. \A c \in Challenges : disk'[c] = {files[c]}
    <3>1. CASE removed
      BY <2>1, <3>1 DEF Removals, Synced
    <3>2. CASE ~removed
      <4>1. removed = FALSE
        BY <3>2, <1>a DEF TypeOK
      <4> QED
        BY <2>1, <3>2, <4>1, <1>a DEF Removals, store, CountInv
    <3> QED
      BY <3>1, <3>2
  <2>3. Occupied' = Visible
    BY <2>2 DEF Occupied, Visible
  <2>4. Visible \ todo = Visible
    BY <2>1
  <2> QED
    BY <1>a, <2>1, <2>3, <2>4 DEF CountInv
<1>6. CASE Issue
  <2>1. /\ pc = "issue" /\ count < MaxRecords /\ pc' = "rename"
        /\ disk' = disk /\ count = Cardinality(Occupied)
    BY <1>6, <1>a DEF Issue, Goto, store, CountInv
  <2>2. /\ Cardinality(Occupied \cup {rec'.ch}) \in Nat
        /\ Cardinality(Occupied \cup {rec'.ch}) <= Cardinality(Occupied) + 1
    BY <1>a, Countable
  <2>3. Cardinality(Occupied \cup {rec'.ch}) <= MaxRecords
    BY <1>b, <2>1, <2>2, LimitAssumption
  <2> QED
    BY <1>c, <2>1, <2>3 DEF CountInv
<1>7. CASE FactorInvalid \/ FactorValid \/ Consume
  <2>1. pc' = "rename" /\ disk' = disk
    BY <1>7 DEF FactorInvalid, FactorValid, Consume, Goto, store
  <2>2. rec'.ch \in Occupied
    <3>1. CASE FactorInvalid \/ FactorValid
      <4>1. rec'.ch = rec.ch
        BY <3>1, <1>a DEF FactorInvalid, FactorValid, Charged, TypeOK, Record
      <4>2. req.ch \in Challenges
        BY <3>1 DEF IInv, WorkInv, StoreInv, RequestInv, KnownInv, FactorInvalid,
                    FactorValid
      <4>3. rec \in disk[rec.ch] /\ rec.st # "absent" /\ rec.ch \in Challenges
        BY <3>1, <4>2 DEF IInv, WorkInv, ReadInv, FactorInvalid, FactorValid
      <4> QED
        BY <4>1, <4>3 DEF Occupied
    <3>2. CASE Consume
      <4>1. req.ch \in Challenges
        BY <3>2 DEF IInv, WorkInv, StoreInv, RequestInv, KnownInv, Consume
      <4>2. /\ rec'.ch = files[req.ch].ch /\ files[req.ch].st # "absent"
        BY <3>2, <4>1, <1>a DEF Consume, Consumable, TypeOK, Record
      <4>3. files[req.ch] \in disk[req.ch] /\ files[req.ch].ch = req.ch
        BY <4>1, <4>2 DEF IInv, StoreInv, FileInv
      <4> QED
        BY <4>1, <4>2, <4>3 DEF Occupied
    <3> QED
      BY <1>7, <3>1, <3>2
  <2>3. Occupied \cup {rec'.ch} = Occupied
    BY <2>2
  <2> QED
    BY <1>b, <1>c, <2>1, <2>3 DEF CountInv
<1>8. CASE Rename \/ Sync \/ Verify
  BY <1>8 DEF Rename, Sync, Verify, Goto, CountInv
<1>9. CASE SetClock \/ UNCHANGED vars
  <2>1. UNCHANGED <<files, disk, pc, rec, todo, count, removed>>
    BY <1>9 DEF SetClock, vars, store, frame
  <2> QED
    BY <1>a, <1>c, <1>d, <2>1 DEF CountInv
<1> QED
  BY <1>1, <1>2, <1>3, <1>4, <1>5, <1>6, <1>7, <1>8, <1>9
     DEF Next, IOError, Answer, Refuse, Crash, PowerLoss, Restart

\* However many renames and removals a power loss undoes, and whichever call
\* failed before, issue() never leaves more than maxRecords challenges on disk.
THEOREM CapacityKept == Spec => []CapacityBound
<1>1. Init => CapacityInv
  <2> SUFFICES ASSUME Init PROVE CapacityInv
    OBVIOUS
  <2>1. Occupied = {}
    BY FrameType DEF Init, Occupied
  <2>2. CapacityBound
    BY <2>1, FS_EmptySet, LimitAssumption DEF CapacityBound, Occupied
  <2> QED
    BY <2>2 DEF Init, CapacityInv, CountInv
<1>2. IInv /\ CapacityInv /\ [Next]_vars => CapacityInv'
  <2> SUFFICES ASSUME IInv, CapacityInv, [Next]_vars PROVE CapacityInv'
    OBVIOUS
  <2>1. CASE Rename
    <3>1. Cardinality(Occupied \cup {rec.ch}) <= MaxRecords
      BY <2>1 DEF Rename, CapacityInv, CountInv
    <3>2. Cardinality(Occupied') <= MaxRecords
      BY <2>1, <3>1, OccupiedStep
    <3> QED
      BY <3>2, CountStep DEF CapacityInv, CapacityBound, Occupied
  <2>2. CASE ~Rename
    BY <2>2, OccupiedStep, RoomStep, CountStep DEF CapacityInv
  <2> QED
    BY <2>1, <2>2
<1>3. CapacityInv => CapacityBound
  BY DEF CapacityInv
<1> QED
  BY <1>1, <1>2, <1>3, Invariance, PTL DEF Spec

=============================================================================
