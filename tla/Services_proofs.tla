--------------------------- MODULE Services_proofs ---------------------------
(***************************************************************************)
(* The gate and the queue exclude, for any number of calls nested in any   *)
(* way; the audit logger loses no event; the stored log keeps the newest;  *)
(* the decision functions agree.                                           *)
(***************************************************************************)
EXTENDS Services, TLAPS

Chains == Calls \cup {Gate}
Begun(c) == phase[c] \in {"running", "draining", "done"}

\* A call has one place in one chain.
OnePlace ==
  \A p, q \in Chains : \A i \in 1 .. Len(chain[p]), j \in 1 .. Len(chain[q]) :
    chain[p][i] = chain[q][j] => p = q /\ i = j

\* What is chained has been called, and a call begins when all before it have settled.
InTurn ==
  /\ \A p \in Chains : \A i \in 1 .. Len(chain[p]) : phase[chain[p][i]] # "new"
  /\ \A d \in free : phase[d] # "new"
  /\ \A p \in Chains : \A i, j \in 1 .. Len(chain[p]) :
       (i < j /\ (Begun(chain[p][j]) \/ chain[p][j] \in free)) => phase[chain[p][i]] = "done"

\* The gate's chain without an entry has settled; the reentrant gate keeps its tail.
EntryKnown ==
  /\ Reentrant => entry
  /\ ~entry => \A i \in 1 .. Len(chain[Gate]) : phase[chain[Gate][i]] = "done"

\* A context's children have settled, or it is active.
Held ==
  /\ \A p \in Calls : \A i \in 1 .. Len(chain[p]) : phase[chain[p][i]] # "done" => active(p)
  /\ \A p \in Calls : phase[p] = "draining" => tail[p] \in 0 .. Len(chain[p])

IInv == TypeOK /\ OnePlace /\ InTurn /\ EntryKnown /\ Held

\* No call has been made.
LEMMA InitInv == Init => IInv
<1>. SUFFICES ASSUME Init  PROVE IInv  OBVIOUS
<1>. USE AuthGateAssumption DEF Init, Chains
<1>1. TypeOK  BY DEF TypeOK, Phases
<1>2. \A p \in Chains : chain[p] = <<>> /\ Len(chain[p]) = 0  OBVIOUS
<1>3. OnePlace /\ InTurn  BY <1>2 DEF OnePlace, InTurn
<1>4. EntryKnown /\ Held  BY <1>2 DEF EntryKnown, Held
<1>. QED  BY <1>1, <1>3, <1>4 DEF IInv

\* What appending a call to a chain leaves as it was.
LEMMA ChainedEffect ==
  ASSUME TypeOK, NEW c \in Calls, NEW q \in Chains, Chained(c, q)
  PROVE  /\ chain' \in [Chains -> Seq(Calls)]
         /\ \A p \in Chains : p # q => chain'[p] = chain[p]
         /\ Len(chain'[q]) = Len(chain[q]) + 1 /\ chain'[q][Len(chain[q]) + 1] = c
         /\ \A i \in 1 .. Len(chain[q]) : chain'[q][i] = chain[q][i]
         /\ \A p \in Chains : Len(chain[p]) \in Nat
<1>1. chain \in [Chains -> Seq(Calls)]  BY DEF TypeOK, Chains
<1>2. chain' = [chain EXCEPT ![q] = Append(chain[q], c)]  BY DEF Chained
<1>. QED  BY <1>1, <1>2

\* A new call at the end of the gate's chain, or of an active context's, keeps the
\* invariant.
LEMMA ChainedKeeps ==
  ASSUME IInv, NEW c \in Calls, NEW q \in Chains, phase[c] = "new", Chained(c, q),
         q = Gate \/ (Reentrant /\ active(q)),
         phase' = [phase EXCEPT ![c] = "queued"], tail' = tail, awaits' \in [Calls -> SUBSET Calls]
  PROVE  IInv'
<1>. USE AuthGateAssumption
<1>1. TypeOK /\ OnePlace /\ InTurn /\ EntryKnown /\ Held  BY DEF IInv
<1>2. /\ chain' \in [Chains -> Seq(Calls)]
      /\ \A p \in Chains : p # q => chain'[p] = chain[p]
      /\ Len(chain'[q]) = Len(chain[q]) + 1 /\ chain'[q][Len(chain[q]) + 1] = c
      /\ \A i \in 1 .. Len(chain[q]) : chain'[q][i] = chain[q][i]
      /\ \A p \in Chains : Len(chain[p]) \in Nat
  BY <1>1, ChainedEffect
<1>3. ASSUME NEW p \in Chains, NEW i \in 1 .. Len(chain'[p])
      PROVE  \/ i \in 1 .. Len(chain[p]) /\ chain'[p][i] = chain[p][i] /\ chain[p][i] # c
             \/ p = q /\ i = Len(chain[q]) + 1 /\ chain'[p][i] = c
  <2>1. CASE p = q /\ i = Len(chain[q]) + 1  BY <1>2, <2>1
  <2>2. CASE ~(p = q /\ i = Len(chain[q]) + 1)
    <3>1. i \in 1 .. Len(chain[p]) /\ chain'[p][i] = chain[p][i]  BY <1>2, <2>2
    <3>. QED  BY <1>1, <3>1 DEF InTurn
  <2>. QED  BY <2>1, <2>2
<1>4. /\ phase \in [Calls -> Phases] /\ phase'[c] = "queued"
      /\ \A d \in Calls : d # c => phase'[d] = phase[d]
      /\ \A p \in Chains : \A i \in 1 .. Len(chain[p]) : chain[p][i] \in Calls
  BY <1>1 DEF TypeOK, Chains
<1>5. TypeOK'
  <2>1. entry' \in BOOLEAN /\ free' \in SUBSET Calls  BY <1>1 DEF Chained, TypeOK
  <2>2. phase' \in [Calls -> Phases]  BY <1>4 DEF Phases
  <2>. QED  BY <1>1, <1>2, <2>1, <2>2 DEF TypeOK, Chains
<1>6. OnePlace'
  <2>1. SUFFICES ASSUME NEW p \in Chains, NEW r \in Chains, NEW i \in 1 .. Len(chain'[p]),
                        NEW j \in 1 .. Len(chain'[r]), chain'[p][i] = chain'[r][j]
                 PROVE  p = r /\ i = j
    BY DEF OnePlace, Chains
  <2>. QED  BY <1>1, <1>3, <2>1 DEF OnePlace
<1>7. c \in free' => c \in free \/ (q = Gate /\ ~entry)  BY <1>1 DEF Chained, EntryKnown
<1>8. InTurn'
  <2>1. ASSUME NEW p \in Chains, NEW i \in 1 .. Len(chain'[p])  PROVE phase'[chain'[p][i]] # "new"
    BY <1>1, <1>3, <1>4 DEF InTurn
  <2>2. ASSUME NEW p \in Chains, NEW i \in 1 .. Len(chain'[p]), NEW j \in 1 .. Len(chain'[p]), i < j,
               phase'[chain'[p][j]] \in {"running", "draining", "done"} \/ chain'[p][j] \in free'
        PROVE  phase'[chain'[p][i]] = "done"
    <3>1. i \in 1 .. Len(chain[p]) /\ chain'[p][i] = chain[p][i] /\ chain[p][i] # c
      BY <1>2, <1>3, <2>2
    <3>2. CASE chain'[p][j] # c
      <4>1. j \in 1 .. Len(chain[p]) /\ chain'[p][j] = chain[p][j]  BY <1>3, <3>2
      <4>2. Begun(chain[p][j]) \/ chain[p][j] \in free
        BY <1>4, <2>2, <3>2, <4>1 DEF Begun, Chained
      <4>3. phase[chain[p][i]] = "done"  BY <1>1, <2>2, <3>1, <4>1, <4>2 DEF InTurn
      <4>. QED  BY <1>4, <3>1, <4>3
    <3>3. CASE chain'[p][j] = c
      <4>1. p = q  BY <1>3, <3>3
      <4>2. c \in free'  BY <1>4, <2>2, <3>3 DEF Begun
      <4>3. CASE q = Gate /\ ~entry
        <5>1. phase[chain[p][i]] = "done"  BY <1>1, <3>1, <4>1, <4>3 DEF EntryKnown
        <5>. QED  BY <1>4, <3>1, <5>1
      <4>4. CASE c \in free  BY <1>1, <4>4 DEF InTurn
      <4>. QED  BY <1>7, <4>2, <4>3, <4>4
    <3>. QED  BY <3>2, <3>3
  <2>3. ASSUME NEW d \in free'  PROVE phase'[d] # "new"
    <3>1. d \in free \/ d = c  BY <2>3 DEF Chained
    <3>. QED  BY <1>1, <1>4, <3>1 DEF InTurn, TypeOK
  <2>. QED  BY <2>1, <2>2, <2>3 DEF InTurn, Chains, Begun
<1>9. EntryKnown'  BY <1>1 DEF Chained, EntryKnown
<1>10. Held'
  <2>1. ASSUME NEW p \in Calls, NEW i \in 1 .. Len(chain'[p]), phase'[chain'[p][i]] # "done"
        PROVE  active(p)'
    <3>1. p \in Chains  BY DEF Chains
    <3>2. active(p)
      <4>1. CASE i \in 1 .. Len(chain[p]) /\ chain'[p][i] = chain[p][i] /\ chain[p][i] # c
        BY <1>1, <1>4, <2>1, <3>1, <4>1 DEF Held
      <4>2. CASE p = q  BY <4>2
      <4>. QED  BY <1>3, <3>1, <4>1, <4>2
    <3>3. p # c  BY <3>2 DEF active
    <3>. QED  BY <1>4, <3>2, <3>3 DEF active
  <2>2. ASSUME NEW p \in Calls, phase'[p] = "draining"  PROVE tail'[p] \in 0 .. Len(chain'[p])
    <3>1. p \in Chains /\ phase[p] = "draining"  BY <1>4, <2>2 DEF Chains
    <3>2. tail[p] \in 0 .. Len(chain[p])  BY <1>1, <3>1 DEF Held
    <3>3. Len(chain'[p]) \in {Len(chain[p]), Len(chain[p]) + 1}  BY <1>2, <3>1
    <3>. QED  BY <1>2, <3>1, <3>2, <3>3
  <2>. QED  BY <2>1, <2>2 DEF Held
<1>. QED  BY <1>5, <1>6, <1>8, <1>9, <1>10 DEF IInv

\* A call that moves on keeps the invariant when what its new phase promises is true:
\* all before it have settled, and so have its children when it settles itself.
LEMMA PhaseKeeps ==
  ASSUME IInv, NEW c \in Calls, NEW to \in {"running", "draining", "done"},
         phase[c] \notin {"new", "done"}, phase' = [phase EXCEPT ![c] = to],
         UNCHANGED <<chain, free, awaits>>, entry' \in BOOLEAN, Reentrant => entry',
         \A p \in Chains : \A i, j \in 1 .. Len(chain[p]) :
           (chain[p][j] = c /\ i < j) => phase[chain[p][i]] = "done",
         to = "done" => \A i \in 1 .. Len(chain[c]) : phase[chain[c][i]] = "done",
         ~entry' => \A i \in 1 .. Len(chain[Gate]) : phase'[chain[Gate][i]] = "done",
         tail' \in [Calls -> Nat], \A d \in Calls : d # c => tail'[d] = tail[d],
         to = "draining" => tail'[c] \in 0 .. Len(chain[c])
  PROVE  IInv'
<1>. USE AuthGateAssumption
<1>1. TypeOK /\ OnePlace /\ InTurn /\ EntryKnown /\ Held  BY DEF IInv
<1>2. /\ phase \in [Calls -> Phases] /\ phase'[c] = to
      /\ \A d \in Calls : d # c => phase'[d] = phase[d]
      /\ \A p \in Chains : \A i \in 1 .. Len(chain[p]) : chain[p][i] \in Calls
  BY <1>1 DEF TypeOK, Chains
<1>3. \A d \in Calls : phase[d] = "done" => phase'[d] = "done"  BY <1>2
<1>4. TypeOK'
  <2>1. phase' \in [Calls -> Phases]  BY <1>2 DEF Phases
  <2>. QED  BY <1>1, <2>1 DEF TypeOK
<1>5. OnePlace'  BY <1>1 DEF OnePlace, Chains
<1>6. InTurn'
  <2>1. ASSUME NEW p \in Chains, NEW i \in 1 .. Len(chain[p])  PROVE phase'[chain[p][i]] # "new"
    BY <1>1, <1>2 DEF InTurn
  <2>2. ASSUME NEW d \in free  PROVE phase'[d] # "new"  BY <1>1, <1>2 DEF InTurn, TypeOK
  <2>3. ASSUME NEW p \in Chains, NEW i \in 1 .. Len(chain[p]), NEW j \in 1 .. Len(chain[p]), i < j,
               phase'[chain[p][j]] \in {"running", "draining", "done"} \/ chain[p][j] \in free
        PROVE  phase'[chain[p][i]] = "done"
    <3>1. CASE chain[p][j] = c  BY <1>2, <1>3, <2>3, <3>1
    <3>2. CASE chain[p][j] # c
      <4>1. Begun(chain[p][j]) \/ chain[p][j] \in free  BY <1>2, <2>3, <3>2 DEF Begun
      <4>2. phase[chain[p][i]] = "done"  BY <1>1, <2>3, <4>1 DEF InTurn
      <4>. QED  BY <1>2, <1>3, <4>2
    <3>. QED  BY <3>1, <3>2
  <2>. QED  BY <2>1, <2>2, <2>3 DEF InTurn, Chains, Begun
<1>7. EntryKnown'  BY DEF EntryKnown
<1>8. Held'
  <2>1. ASSUME NEW p \in Calls, NEW i \in 1 .. Len(chain[p]), phase'[chain[p][i]] # "done"
        PROVE  phase'[p] \in {"running", "draining"}
    <3>1. p \in Chains  BY DEF Chains
    <3>2. phase[chain[p][i]] # "done"  BY <1>2, <1>3, <2>1, <3>1
    <3>3. active(p)  BY <1>1, <3>2 DEF Held
    <3>4. CASE p = c  BY <1>2, <3>2, <3>4
    <3>5. CASE p # c  BY <1>2, <3>3, <3>5 DEF active
    <3>. QED  BY <3>4, <3>5
  <2>2. ASSUME NEW p \in Calls, phase'[p] = "draining"  PROVE tail'[p] \in 0 .. Len(chain[p])
    BY <1>1, <1>2, <2>2 DEF Held
  <2>. QED  BY <2>1, <2>2 DEF Held, active
<1>. QED  BY <1>4, <1>5, <1>6, <1>7, <1>8 DEF IInv

\* A call whose turn it is comes after settled calls only.
LEMMA TurnIsSettled ==
  ASSUME IInv, NEW c \in Calls, Turn(c), NEW p \in Chains, NEW i \in 1 .. Len(chain[p]),
         NEW j \in 1 .. Len(chain[p]), chain[p][j] = c, i < j
  PROVE  phase[chain[p][i]] = "done"
<1>1. TypeOK /\ OnePlace /\ InTurn  BY DEF IInv
<1>2. chain \in [Chains -> Seq(Calls)]  BY <1>1 DEF TypeOK, Chains
<1>3. PICK q \in Chains : \E k \in DOMAIN chain[q] :
        chain[q][k] = c /\ ((k > 1 /\ c \notin free) => phase[chain[q][k - 1]] = "done")
  BY <1>2 DEF Turn
<1>4. PICK k \in 1 .. Len(chain[q]) :
        chain[q][k] = c /\ ((k > 1 /\ c \notin free) => phase[chain[q][k - 1]] = "done")
  BY <1>2, <1>3
<1>5. p = q /\ j = k  BY <1>1, <1>4 DEF OnePlace
<1>6. Len(chain[p]) \in Nat  BY <1>2
<1>7. CASE c \in free  BY <1>1, <1>7 DEF InTurn
<1>8. CASE c \notin free
  <2>1. j - 1 \in 1 .. Len(chain[p]) /\ j > 1 /\ i <= j - 1  BY <1>6
  <2>2. phase[chain[p][j - 1]] = "done"  BY <1>4, <1>5, <1>8, <2>1
  <2>3. Begun(chain[p][j - 1])  BY <2>2 DEF Begun
  <2>4. CASE i = j - 1  BY <2>2, <2>4
  <2>5. CASE i < j - 1  BY <1>1, <2>1, <2>3, <2>5 DEF InTurn
  <2>. QED  BY <1>6, <2>1, <2>4, <2>5
<1>. QED  BY <1>7, <1>8

\* Every step keeps the invariant.
LEMMA StepKeeps == IInv /\ [Next]_vars => IInv'
<1>. SUFFICES ASSUME IInv, [Next]_vars  PROVE IInv'  OBVIOUS
<1>. USE AuthGateAssumption
<1>1. TypeOK /\ OnePlace /\ InTurn /\ EntryKnown /\ Held  BY DEF IInv
<1>2. /\ chain \in [Chains -> Seq(Calls)] /\ tail \in [Calls -> Nat] /\ phase \in [Calls -> Phases]
      /\ \A p \in Chains : Len(chain[p]) \in Nat
      /\ entry \in BOOLEAN
  BY <1>1 DEF TypeOK, Chains
<1>3. CASE UNCHANGED vars
  BY <1>1, <1>3 DEF vars, IInv, TypeOK, OnePlace, InTurn, EntryKnown, Held, Begun, active
<1>4. ASSUME NEW c \in Calls, Request(c)  PROVE IInv'
  <2>1. Gate \in Chains /\ awaits' \in [Calls -> SUBSET Calls]
    BY <1>1, <1>4 DEF Chains, Request, TypeOK
  <2>. QED  BY <1>4, <2>1, ChainedKeeps DEF Request
<1>5. ASSUME NEW c \in Calls, NEW p \in Calls, withReadyAuth(c, p)  PROVE IInv'
  <2>1. awaits' \in [Calls -> SUBSET Calls]
    <3>1. awaits \in [Calls -> SUBSET Calls]  BY <1>1 DEF TypeOK
    <3>2. awaits' = awaits \/ awaits' = [awaits EXCEPT ![p] = awaits[p] \cup {c}]
      BY <1>5 DEF withReadyAuth
    <3>3. awaits[p] \cup {c} \in SUBSET Calls  BY <3>1
    <3>. QED  BY <3>1, <3>2, <3>3
  <2>2. contextOf(p) \in Chains /\ (contextOf(p) = Gate \/ (Reentrant /\ active(contextOf(p))))
    BY <1>5 DEF contextOf, Chains, withReadyAuth
  <2>. QED  BY <1>5, <2>1, <2>2, ChainedKeeps DEF withReadyAuth
<1>6. ASSUME NEW c \in Calls, Begun(c), NEW p \in Chains, NEW i \in 1 .. Len(chain[p]),
             NEW j \in 1 .. Len(chain[p]), chain[p][j] = c, i < j
      PROVE  phase[chain[p][i]] = "done"
  BY <1>1, <1>6 DEF InTurn
<1>7. ASSUME NEW c \in Calls, Start(c)  PROVE IInv'
  <2>1. \A p \in Chains : \A i, j \in 1 .. Len(chain[p]) :
          (chain[p][j] = c /\ i < j) => phase[chain[p][i]] = "done"
    BY <1>7, TurnIsSettled DEF Start
  <2>2. ~entry' => \A i \in 1 .. Len(chain[Gate]) : phase'[chain[Gate][i]] = "done"
    <3>1. SUFFICES ASSUME ~entry, NEW i \in 1 .. Len(chain[Gate])
                   PROVE  phase'[chain[Gate][i]] = "done"
      BY <1>7 DEF Start
    <3>2. phase[chain[Gate][i]] = "done" /\ chain[Gate][i] \in Calls
      BY <1>1, <1>2, <3>1 DEF EntryKnown, Chains
    <3>. QED  BY <1>2, <1>7, <3>2 DEF Start
  <2>. QED  BY <1>1, <1>2, <1>7, <2>1, <2>2, PhaseKeeps DEF Start, EntryKnown
<1>8. ASSUME NEW c \in Calls, Return(c)  PROVE IInv'
  <2>1. \A p \in Chains : \A i, j \in 1 .. Len(chain[p]) :
          (chain[p][j] = c /\ i < j) => phase[chain[p][i]] = "done"
    BY <1>6, <1>8 DEF Return, Begun
  <2>2. ~entry' => \A i \in 1 .. Len(chain[Gate]) : phase'[chain[Gate][i]] = "done"
    <3>1. SUFFICES ASSUME ~entry, NEW i \in 1 .. Len(chain[Gate])
                   PROVE  phase'[chain[Gate][i]] = "done"
      BY <1>8 DEF Return
    <3>2. phase[chain[Gate][i]] = "done" /\ chain[Gate][i] \in Calls
      BY <1>1, <1>2, <3>1 DEF EntryKnown, Chains
    <3>. QED  BY <1>2, <1>8, <3>2 DEF Return
  <2>3. c \in Chains /\ tail'[c] = Len(chain[c]) /\ tail' \in [Calls -> Nat]
    BY <1>2, <1>8 DEF Return, Chains
  <2>4. tail'[c] \in 0 .. Len(chain[c])  BY <1>2, <2>3
  <2>. QED  BY <1>1, <1>2, <1>8, <2>1, <2>2, <2>3, <2>4, PhaseKeeps DEF Return, EntryKnown
<1>9. ASSUME NEW c \in Calls, Drain(c)  PROVE IInv'
  <2>1. c \in Chains /\ tail'[c] = Len(chain[c]) /\ tail' \in [Calls -> Nat]
    BY <1>2, <1>9 DEF Drain, Chains
  <2>2. tail'[c] \in 0 .. Len(chain[c])  BY <1>2, <2>1
  <2>3. TypeOK' /\ OnePlace' /\ InTurn' /\ EntryKnown'
    <3>1. UNCHANGED <<phase, chain, entry, free, awaits>>  BY <1>9 DEF Drain
    <3>2. TypeOK'  BY <1>1, <2>1, <3>1 DEF TypeOK
    <3>3. OnePlace' /\ EntryKnown'  BY <1>1, <3>1 DEF OnePlace, EntryKnown
    <3>4. InTurn'  BY <1>1, <3>1 DEF InTurn, Begun
    <3>. QED  BY <3>2, <3>3, <3>4
  <2>4. Held'  BY <1>1, <1>2, <1>9, <2>2 DEF Drain, Held, active
  <2>. QED  BY <2>3, <2>4 DEF IInv
<1>10. ASSUME NEW c \in Calls, Release(c)  PROVE IInv'
  <2>1. \A p \in Chains : \A i, j \in 1 .. Len(chain[p]) :
          (chain[p][j] = c /\ i < j) => phase[chain[p][i]] = "done"
    BY <1>6, <1>10 DEF Release, Begun
  <2>2. ASSUME NEW i \in 1 .. Len(chain[c])  PROVE phase[chain[c][i]] = "done"
    <3>1. c \in Chains /\ Len(chain[c]) \in Nat /\ Len(chain[c]) \in 1 .. Len(chain[c])
      BY <1>2 DEF Chains
    <3>2. phase[chain[c][Len(chain[c])]] = "done"  BY <1>10, <3>1 DEF Release, Awaited
    <3>3. CASE i = Len(chain[c])  BY <3>2, <3>3
    <3>4. CASE i < Len(chain[c])  BY <1>1, <3>1, <3>2, <3>4 DEF InTurn, Begun
    <3>. QED  BY <3>1, <3>3, <3>4
  <2>3. ASSUME ~entry', NEW i \in 1 .. Len(chain[Gate])  PROVE phase'[chain[Gate][i]] = "done"
    <3>1. Gate \in Chains /\ chain[Gate][i] \in Calls /\ Len(chain[Gate]) \in Nat
          /\ Len(chain[Gate]) \in 1 .. Len(chain[Gate])
      BY <1>2 DEF Chains
    <3>2. ~entry \/ chain[Gate][Len(chain[Gate])] = c  BY <1>10, <2>3 DEF Release, Cleanup
    <3>3. phase[chain[Gate][i]] = "done" \/ chain[Gate][i] = c
      <4>1. CASE ~entry  BY <1>1, <4>1 DEF EntryKnown
      <4>2. CASE chain[Gate][Len(chain[Gate])] = c  BY <2>1, <3>1, <4>2
      <4>. QED  BY <3>2, <4>1, <4>2
    <3>. QED  BY <1>2, <1>10, <3>1, <3>3 DEF Release
  <2>4. entry' \in BOOLEAN /\ (Reentrant => entry')
    BY <1>1, <1>2, <1>10 DEF Release, Cleanup, EntryKnown
  <2>. QED  BY <1>2, <1>10, <2>1, <2>2, <2>3, <2>4, PhaseKeeps DEF Release
<1>. QED  BY <1>3, <1>4, <1>5, <1>7, <1>8, <1>9, <1>10 DEF Next, Step

\* The invariant holds throughout.
LEMMA Invariance == Spec => []IInv
BY InitInv, StepKeeps, PTL DEF Spec

\* The gate's state stays well typed.
THEOREM TypeCorrect == Spec => []TypeOK
<1>1. IInv => TypeOK  BY DEF IInv
<1>. QED  BY <1>1, Invariance, PTL

\* Root requests never interleave, siblings of a request run in turn, and operations on
\* one step-up directory exclude each other (withReadyAuth, runContext, queued).
THEOREM Exclusion == Spec => []OneAtATime
<1>1. ASSUME IInv  PROVE OneAtATime
  <2>1. TypeOK /\ InTurn  BY <1>1 DEF IInv
  <2>2. chain \in [Chains -> Seq(Calls)]  BY <2>1 DEF TypeOK, Chains
  <2>3. SUFFICES ASSUME NEW p \in Chains, NEW i \in 1 .. Len(chain[p]), NEW j \in 1 .. Len(chain[p]),
                        active(chain[p][i]), active(chain[p][j])
                 PROVE  i = j
    BY <2>2 DEF OneAtATime
  <2>4. Len(chain[p]) \in Nat  BY <2>2
  <2>5. ~(i < j)  BY <2>1, <2>3 DEF InTurn, Begun, active
  <2>6. ~(j < i)  BY <2>1, <2>3 DEF InTurn, Begun, active
  <2>. QED  BY <2>4, <2>5, <2>6
<1>. QED  BY <1>1, Invariance, PTL

\* The root gate is not released while anything chained in its request has not settled,
\* however late it was chained (the drain loop of runContext).
THEOREM DrainedBeforeRelease == Spec => []HeldUntilDrained
<1>1. ASSUME IInv  PROVE HeldUntilDrained
  <2>1. TypeOK /\ Held  BY <1>1 DEF IInv
  <2>2. \A p \in Calls : DOMAIN chain[p] = 1 .. Len(chain[p])  BY <2>1 DEF TypeOK
  <2>. QED  BY <2>1, <2>2 DEF Held, HeldUntilDrained
<1>. QED  BY <1>1, Invariance, PTL

\* Operations of two requests never run at the same time (withReadyAuth, runContext).
THEOREM ExclusiveGate == Spec => []Exclusive
<1>1. OneAtATime /\ HeldUntilDrained => Exclusive  BY DEF Exclusive
<1>. QED  BY <1>1, Exclusion, DrainedBeforeRelease, PTL

-----------------------------------------------------------------------------
(* Decisions.                                                              *)

\* The rows of the role table, one by one.
LEMMA Rows ==
  /\ Matrix!ADMIN_ROLES = {"super_admin", "admin", "moderator", "editor", "event_manager",
                           "contributor", "member", "viewer"}
  /\ Matrix!ROLE_PERMISSIONS["super_admin"] = Matrix!ADMIN_PERMISSIONS
  /\ Matrix!ROLE_PERMISSIONS["admin"] = Matrix!ADMIN_PERMISSIONS \
       {"admin.users.delete", "admin.content.moderate", "admin.analytics.export",
        "admin.settings.manage", "admin.security.view", "admin.security.manage",
        "admin.logs.export"}
  /\ Matrix!ROLE_PERMISSIONS["moderator"] = Matrix!MemberRow \cup
       {"admin.content.publish", "admin.content.moderate", "admin.users.view",
        "admin.analytics.view", "admin.logs.view", "admin.federation.view",
        "admin.federation.deliver"}
  /\ Matrix!ROLE_PERMISSIONS["editor"] = Matrix!MemberRow \cup
       {"admin.content.publish", "admin.content.media_create", "admin.content.manage",
        "admin.analytics.view"}
  /\ Matrix!ROLE_PERMISSIONS["event_manager"] = Matrix!MemberRow \cup
       {"admin.content.publish", "admin.events.manage", "admin.analytics.view"}
  /\ Matrix!ROLE_PERMISSIONS["contributor"] =
       Matrix!MemberRow \cup {"admin.content.publish", "admin.content.media_create"}
  /\ Matrix!ROLE_PERMISSIONS["member"] = Matrix!MemberRow
  /\ Matrix!ROLE_PERMISSIONS["viewer"] = {"admin.access", "admin.analytics.view"}
BY DEF Matrix!ADMIN_ROLES, Matrix!ROLE_HIERARCHY, Matrix!ROLE_PERMISSIONS

\* A role carries administration permissions only, and one above member what a member has.
LEMMA RowsFit ==
  /\ \A n \in Matrix!ADMIN_ROLES : Matrix!ROLE_PERMISSIONS[n] \subseteq Matrix!ADMIN_PERMISSIONS
  /\ \A n \in Matrix!ADMIN_ROLES \ {"viewer"} : Matrix!MemberRow \subseteq Matrix!ROLE_PERMISSIONS[n]
  /\ \A n \in Matrix!ADMIN_ROLES :
       "admin.content.delete" \in Matrix!ROLE_PERMISSIONS[n] =>
         "admin.content.manage" \in Matrix!ROLE_PERMISSIONS[n]
  /\ "admin.access" \in Matrix!ADMIN_PERMISSIONS /\ "admin.content.view" \in Matrix!MemberRow
  /\ Matrix!ADMIN_PERMISSIONS \cap Matrix!EXPLICIT_USER_PERMISSIONS = {}
<1>. USE Rows
<1>1. /\ Matrix!MemberRow \subseteq Matrix!ADMIN_PERMISSIONS
      /\ "admin.access" \in Matrix!ADMIN_PERMISSIONS /\ "admin.content.view" \in Matrix!MemberRow
      /\ Matrix!ADMIN_PERMISSIONS \cap Matrix!EXPLICIT_USER_PERMISSIONS = {}
  BY DEF Matrix!MemberRow, Matrix!ADMIN_PERMISSIONS, Matrix!EXPLICIT_USER_PERMISSIONS
<1>2. /\ Matrix!ROLE_PERMISSIONS["moderator"] \subseteq Matrix!ADMIN_PERMISSIONS
      /\ Matrix!ROLE_PERMISSIONS["editor"] \subseteq Matrix!ADMIN_PERMISSIONS
      /\ Matrix!ROLE_PERMISSIONS["event_manager"] \subseteq Matrix!ADMIN_PERMISSIONS
      /\ Matrix!ROLE_PERMISSIONS["contributor"] \subseteq Matrix!ADMIN_PERMISSIONS
      /\ Matrix!ROLE_PERMISSIONS["viewer"] \subseteq Matrix!ADMIN_PERMISSIONS
  BY <1>1 DEF Matrix!ADMIN_PERMISSIONS
<1>3. \A n \in Matrix!ADMIN_ROLES : Matrix!ROLE_PERMISSIONS[n] \subseteq Matrix!ADMIN_PERMISSIONS
  BY <1>1, <1>2
<1>4. Matrix!MemberRow \subseteq Matrix!ROLE_PERMISSIONS["admin"]
  BY DEF Matrix!MemberRow, Matrix!ADMIN_PERMISSIONS
<1>5. \A n \in Matrix!ADMIN_ROLES \ {"viewer"} : Matrix!MemberRow \subseteq Matrix!ROLE_PERMISSIONS[n]
  BY <1>1, <1>4
<1>6. ASSUME NEW n \in Matrix!ADMIN_ROLES, "admin.content.delete" \in Matrix!ROLE_PERMISSIONS[n]
      PROVE  "admin.content.manage" \in Matrix!ROLE_PERMISSIONS[n]
  <2>1. n \in {"super_admin", "admin"}  BY <1>6 DEF Matrix!MemberRow
  <2>. QED  BY <2>1 DEF Matrix!ADMIN_PERMISSIONS
<1>. QED  BY <1>1, <1>3, <1>5, <1>6

\* One user and one piece of content.
MatrixInv == user \in Matrix!Users /\ content \in Matrix!Contents

\* What the list of a user's permissions shows is what he is granted.
LEMMA ListIsGranted ==
  ASSUME MatrixInv
  PROVE  Matrix!ListedIsGranted
<1>. DEFINE Row == Matrix!getRolePermissions(user.role)
<1>1. user.permissions \subseteq Matrix!PERMISSIONS /\ user.role \in Matrix!RoleStrings
  BY MatrixAssumption DEF MatrixInv, Matrix!Users, Matrix!MatrixAssumption
<1>2. Row \subseteq Matrix!ADMIN_PERMISSIONS
  BY <1>1, RowsFit DEF Matrix!getRolePermissions, Matrix!isValidAdminRole, Matrix!RoleStrings
<1>3. Matrix!getUserPermissions(user) = {p \in Matrix!PERMISSIONS : Matrix!hasPermission(user, p)}
  <2>1. CASE Matrix!IsSuperAdmin(user)  BY <2>1 DEF Matrix!getUserPermissions
  <2>2. CASE ~Matrix!IsSuperAdmin(user)
    <3>1. Matrix!getUserPermissions(user) = Row \cup user.permissions
      BY <2>2 DEF Matrix!getUserPermissions
    <3>2. \A p \in Matrix!PERMISSIONS : Matrix!hasPermission(user, p) <=> p \in Row \cup user.permissions
      BY <1>2, <2>2, RowsFit DEF Matrix!hasPermission
    <3>3. Row \subseteq Matrix!PERMISSIONS  BY <1>2 DEF Matrix!PERMISSIONS
    <3>. QED  BY <1>1, <3>1, <3>2, <3>3
  <2>. QED  BY <2>1, <2>2
<1>4. Matrix!hasAllPermissions(user, Matrix!getUserPermissions(user))
  BY <1>3 DEF Matrix!hasAllPermissions
<1>5. ~Matrix!hasAnyPermission(user, Matrix!PERMISSIONS \ Matrix!getUserPermissions(user))
  BY <1>3 DEF Matrix!hasAnyPermission
<1>. QED  BY <1>3, <1>4, <1>5 DEF Matrix!ListedIsGranted

\* The predicates by the permissions they ask for.
LEMMA Asks ==
  /\ Matrix!Requires["canCreateMemberOnlyContent"] = {"admin.content.view"}
  /\ Matrix!Requires["canCreatePublicContent"] = {"admin.content.publish"}
  /\ Matrix!Requires["canDeleteContent"] = {"admin.content.delete"}
BY DEF Matrix!Requires

\* What may be authored can be read.
LEMMA AuthorReads ==
  ASSUME MatrixInv
  PROVE  Matrix!AuthorCanRead
<1>. DEFINE own == {[visibility |-> v, authorId |-> user.id] :
                      v \in Matrix!getAllowedVisibilityOptions(user.role)}
<1>1. user.id # 0 /\ user.role \in Matrix!RoleStrings
  BY MatrixAssumption DEF MatrixInv, Matrix!Users, Matrix!MatrixAssumption
<1>2. ASSUME NEW v \in Matrix!getAllowedVisibilityOptions(user.role)
      PROVE  Matrix!canViewContent(v, user.role, user.id, user.id)
  <2>1. /\ v \in {"members", "private", "public", "admin"}
        /\ Matrix!can("canCreateMemberOnlyContent", user.role)
        /\ v = "admin" => Matrix!can("canDeleteContent", user.role)
    BY <1>2 DEF Matrix!getAllowedVisibilityOptions
  <2>2. Matrix!roleHoldsPermission(user.role, "admin.content.view")
    BY <2>1, Asks DEF Matrix!can, Matrix!roleHoldsAnyPermission
  <2>3. user.role.name \in Matrix!ADMIN_ROLES
    BY <2>2 DEF Matrix!roleHoldsPermission, Matrix!isValidAdminRole, Matrix!normalizeRole
  <2>4. user.role # Matrix!Anonymous  BY <2>3, Rows DEF Matrix!Anonymous
  <2>5. v = "admin" => Matrix!roleHoldsAnyPermission(user.role,
          {"admin.content.manage", "admin.content.moderate", "admin.events.manage"})
    <3>1. v = "admin" => Matrix!roleHoldsPermission(user.role, "admin.content.delete")
      BY <2>1, Asks DEF Matrix!can, Matrix!roleHoldsAnyPermission
    <3>. QED  BY <2>3, <3>1, RowsFit DEF Matrix!roleHoldsAnyPermission, Matrix!roleHoldsPermission,
                 Matrix!normalizeRole
  <2>. QED  BY <1>1, <2>1, <2>2, <2>4, <2>5 DEF Matrix!canViewContent
<1>3. \A i \in own : Matrix!canViewContent(i.visibility, user.role, i.authorId, user.id)
  BY <1>2
<1>4. Matrix!filterContentByVisibility(own, user.role, user.id) = own
  BY <1>3 DEF Matrix!filterContentByVisibility
<1>. QED  BY <1>4 DEF Matrix!AuthorCanRead

\* A role above member holds what a member holds.
LEMMA MemberRowHeld ==
  ASSUME NEW s \in Matrix!RoleStrings, Matrix!Outranks(s)
  PROVE  /\ s.name \in Matrix!ADMIN_ROLES /\ s.name # "viewer"
         /\ \A p : Matrix!roleHoldsPermission(Matrix!Member, p) => Matrix!roleHoldsPermission(s, p)
<1>1. s.name \in Matrix!ADMIN_ROLES /\ Matrix!Rank(s) >= Matrix!Rank(Matrix!Member)
  BY DEF Matrix!Outranks, Matrix!isValidAdminRole
<1>2. Matrix!Rank(Matrix!Member) = 30
  BY DEF Matrix!Rank, Matrix!Member, Matrix!normalizeRole, Matrix!ROLE_HIERARCHY
<1>3. s.name # "viewer"
  <2>1. ASSUME s.name = "viewer"  PROVE Matrix!Rank(s) = 10
    BY <2>1 DEF Matrix!Rank, Matrix!normalizeRole, Matrix!ROLE_HIERARCHY
  <2>. QED  BY <1>1, <1>2, <2>1
<1>4. Matrix!MemberRow \subseteq Matrix!ROLE_PERMISSIONS[s.name]  BY <1>1, <1>3, RowsFit
<1>. QED  BY <1>1, <1>3, <1>4, Rows DEF Matrix!roleHoldsPermission, Matrix!Member,
             Matrix!normalizeRole, Matrix!isValidAdminRole

\* Promotion costs nothing.
LEMMA PromotionIsFree ==
  ASSUME MatrixInv
  PROVE  Matrix!PromotionCostsNothing
<1>. SUFFICES ASSUME Matrix!Outranks(user.role)
              PROVE
    /\ \A predicate \in DOMAIN Matrix!Requires :
         Matrix!can(predicate, Matrix!Member) => Matrix!can(predicate, user.role)
    /\ Matrix!getAllowedVisibilityOptions(Matrix!Member)
         \subseteq Matrix!getAllowedVisibilityOptions(user.role)
    /\ \A v \in {"members", "admin", "private"} : \A author \in People :
         Matrix!canViewContent(v, Matrix!Member, author, user.id)
           => Matrix!canViewContent(v, user.role, author, user.id)
  BY DEF Matrix!PromotionCostsNothing
<1>1. user.role \in Matrix!RoleStrings  BY DEF MatrixInv, Matrix!Users
<1>2. \A ps : Matrix!roleHoldsAnyPermission(Matrix!Member, ps)
                => Matrix!roleHoldsAnyPermission(user.role, ps)
  BY <1>1, MemberRowHeld DEF Matrix!roleHoldsAnyPermission
<1>3. \A predicate : Matrix!can(predicate, Matrix!Member) => Matrix!can(predicate, user.role)
  BY <1>2 DEF Matrix!can
<1>4. Matrix!getAllowedVisibilityOptions(Matrix!Member)
        \subseteq Matrix!getAllowedVisibilityOptions(user.role)
  BY <1>3 DEF Matrix!getAllowedVisibilityOptions
<1>5. user.role # Matrix!Anonymous
  <2>1. user.role.name \in Matrix!ADMIN_ROLES  BY <1>1, MemberRowHeld
  <2>. QED  BY <2>1, Rows DEF Matrix!Anonymous
<1>6. Matrix!normalizeRole(Matrix!Member) # "super_admin"
  BY DEF Matrix!Member, Matrix!normalizeRole
<1>7. \A v, author : Matrix!canViewContent(v, Matrix!Member, author, user.id)
                       => Matrix!canViewContent(v, user.role, author, user.id)
  BY <1>1, <1>2, <1>5, <1>6, MemberRowHeld DEF Matrix!canViewContent
<1>. QED  BY <1>3, <1>4, <1>7

\* Who may delete may edit: the first list of roles contains the first, the second the second.
LEMMA DeleterEdits == Matrix!DeleteImpliesEdit
BY DEF Matrix!DeleteImpliesEdit, Matrix!canDeleteOwnedContent, Matrix!canEditOwnedContent, Matrix!RoleIn

\* The pair is a pair of the world while the matrix runs.
MatrixHolds == running = "matrix" => MatrixInv

\* Decisions that are programmed apart agree on every user and content, for every set of people,
\* places and explicit grants (core/permissions/*.ts).
THEOREM DecisionsAlwaysAgree == ServicesSpec => []DecisionsAgree
<1>1. ServicesInit => MatrixHolds
  BY DEF ServicesInit, MatrixHolds, MatrixInv, Matrix!Init
<1>2. MatrixHolds /\ [ServicesNext]_all => MatrixHolds'
  <2>. SUFFICES ASSUME MatrixHolds, [ServicesNext]_all, running' = "matrix"  PROVE MatrixInv'
    BY DEF MatrixHolds
  <2>1. CASE ServicesNext
    <3>1. running = "matrix" /\ Matrix!Next  BY <2>1 DEF ServicesNext
    <3>2. PICK s \in Matrix!RoleStrings : user' = [user EXCEPT !.role = s]  BY <3>1 DEF Matrix!Next
    <3>3. user' \in Matrix!Users  BY <3>1, <3>2 DEF MatrixHolds, MatrixInv, Matrix!Users
    <3>4. content' = content  BY <3>1 DEF Matrix!Next
    <3>. QED  BY <3>1, <3>3, <3>4 DEF MatrixHolds, MatrixInv, Matrix!Users, Matrix!Contents,
                 Matrix!RoleStrings
  <2>2. CASE UNCHANGED all
    <3>1. UNCHANGED <<running, user, content>>  BY <2>2 DEF all, matrixVars
    <3>. QED  BY <3>1 DEF MatrixHolds, MatrixInv, Matrix!Users, Matrix!Contents, Matrix!RoleStrings
  <2>. QED  BY <2>1, <2>2
<1>3. MatrixHolds => DecisionsAgree
  BY ListIsGranted, AuthorReads, PromotionIsFree, DeleterEdits DEF MatrixHolds, DecisionsAgree
<1>. QED  BY <1>1, <1>2, <1>3, PTL DEF ServicesSpec

-----------------------------------------------------------------------------
(* The audit logger.                                                       *)

\* The events of a sequence, and that none is in it twice.
In(s)  == {s[i] : i \in DOMAIN s}
Inj(s) == \A i, j \in DOMAIN s : s[i] = s[j] => i = j

\* An event is appended.
LEMMA Appended ==
  ASSUME NEW s \in Seq(Nat), NEW e \in Nat
  PROVE  /\ Append(s, e) \in Seq(Nat) /\ In(Append(s, e)) = In(s) \cup {e} /\ Append(s, e) # <<>>
         /\ Inj(s) /\ e \notin In(s) => Inj(Append(s, e))
<1>. DEFINE r == Append(s, e)
<1>1. /\ r \in Seq(Nat) /\ Len(r) = Len(s) + 1 /\ r[Len(s) + 1] = e
      /\ \A i \in 1 .. Len(s) : r[i] = s[i]
      /\ DOMAIN s = 1 .. Len(s) /\ DOMAIN r = 1 .. Len(s) + 1 /\ Len(s) \in Nat
  OBVIOUS
<1>. HIDE DEF r
<1>2. In(r) \subseteq In(s) \cup {e}
  <2>1. \A i \in DOMAIN r : i = Len(s) + 1 \/ i \in 1 .. Len(s)  BY <1>1
  <2>. QED  BY <1>1, <2>1 DEF In
<1>3. In(s) \cup {e} \subseteq In(r)
  <2>1. \A i \in DOMAIN s : i \in DOMAIN r /\ r[i] = s[i]  BY <1>1
  <2>2. Len(s) + 1 \in DOMAIN r  BY <1>1
  <2>. QED  BY <1>1, <2>1, <2>2 DEF In
<1>4. r # <<>>  BY <1>1
<1>5. ASSUME Inj(s), e \notin In(s), NEW i \in DOMAIN r, NEW j \in DOMAIN r, r[i] = r[j]
      PROVE  i = j
  <2>1. \A k \in DOMAIN r : k = Len(s) + 1 \/ (k \in DOMAIN s /\ r[k] = s[k] /\ s[k] # e)
    BY <1>1, <1>5 DEF In
  <2>. QED  BY <1>1, <1>5, <2>1 DEF Inj
<1>6. Inj(s) /\ e \notin In(s) => Inj(r)  BY <1>5 DEF Inj
<1>. QED  BY <1>1, <1>2, <1>3, <1>4, <1>6 DEF r

\* Events are put back in front of the buffer.
LEMMA PutBack ==
  ASSUME NEW s \in Seq(Nat), NEW r \in Seq(Nat)
  PROVE  /\ s \o r \in Seq(Nat) /\ In(s \o r) = In(s) \cup In(r)
         /\ s # <<>> \/ r # <<>> => s \o r # <<>>
<1>. DEFINE q == s \o r
<1>1. /\ q \in Seq(Nat) /\ Len(q) = Len(s) + Len(r) /\ Len(s) \in Nat /\ Len(r) \in Nat
      /\ \A i \in 1 .. Len(s) : q[i] = s[i]
      /\ \A i \in 1 .. Len(r) : q[Len(s) + i] = r[i]
      /\ DOMAIN s = 1 .. Len(s) /\ DOMAIN r = 1 .. Len(r) /\ DOMAIN q = 1 .. Len(s) + Len(r)
  OBVIOUS
<1>. HIDE DEF q
<1>2. In(q) \subseteq In(s) \cup In(r)
  <2>1. ASSUME NEW i \in DOMAIN q
        PROVE  (i \in DOMAIN s /\ q[i] = s[i]) \/ (i - Len(s) \in DOMAIN r /\ q[i] = r[i - Len(s)])
    <3>1. CASE i <= Len(s)  BY <1>1, <3>1
    <3>2. CASE i > Len(s)
      <4>1. i - Len(s) \in 1 .. Len(r) /\ Len(s) + (i - Len(s)) = i  BY <1>1, <3>2
      <4>. QED  BY <1>1, <4>1
    <3>. QED  BY <1>1, <3>1, <3>2
  <2>. QED  BY <2>1 DEF In
<1>3. In(s) \cup In(r) \subseteq In(q)
  <2>1. \A i \in DOMAIN s : i \in DOMAIN q /\ q[i] = s[i]  BY <1>1
  <2>2. \A i \in DOMAIN r : Len(s) + i \in DOMAIN q /\ q[Len(s) + i] = r[i]  BY <1>1
  <2>. QED  BY <2>1, <2>2 DEF In
<1>4. s # <<>> \/ r # <<>> => q # <<>>  BY <1>1
<1>. QED  BY <1>1, <1>2, <1>3, <1>4 DEF q

\* The adapter keeps the newest events: a suffix.
LEMMA Trimmed ==
  ASSUME NEW s \in Seq(Nat), NEW x, NEW a, NEW m
  PROVE  LET kept == Audit(x, a, m)!Trim(s)
         IN  kept \in Seq(Nat) /\ In(kept) \subseteq In(s) /\ (Inj(s) => Inj(kept))
<1>. DEFINE from == IF Len(s) > MaxStored THEN Len(s) - MaxStored + 1 ELSE 1
            kept == SubSeq(s, from, Len(s))
<1>1. MaxStored \in Nat \ {0}  BY AuditAssumption DEF Audit!AuditAssumption
<1>2. from \in 1 .. Len(s) + 1 /\ Len(s) \in Nat /\ DOMAIN s = 1 .. Len(s)  BY <1>1
<1>. HIDE DEF from
<1>3. kept \in Seq(Nat)
  BY <1>2
<1>4. Len(kept) = Len(s) - from + 1 /\ DOMAIN kept = 1 .. Len(s) - from + 1
  BY <1>2
<1>5. \A i \in DOMAIN kept : kept[i] = s[from + i - 1] /\ from + i - 1 \in DOMAIN s
  BY <1>2, <1>4
<1>. HIDE DEF kept
<1>6. In(kept) \subseteq In(s)  BY <1>5 DEF In
<1>7. ASSUME Inj(s), NEW i \in DOMAIN kept, NEW j \in DOMAIN kept, kept[i] = kept[j]  PROVE i = j
  <2>1. from + i - 1 = from + j - 1  BY <1>5, <1>7 DEF Inj
  <2>. QED  BY <1>2, <1>4, <2>1
<1>8. Inj(s) => Inj(kept)  BY <1>7 DEF Inj
<1>9. Audit(x, a, m)!Trim(s) = kept  BY DEF Audit!Trim, kept, from
<1>. QED  BY <1>3, <1>6, <1>8, <1>9

\* What a flush has left to write of the events it has taken.
Left(b, d) == {b[i] : i \in d + 1 .. Len(b)}
Rest(t)    == Left(batch[t], done[t])

LEMMA LeftOver ==
  ASSUME NEW b \in Seq(Nat), NEW d \in Nat
  PROVE  /\ Left(b, 0) = In(b) /\ Left(b, d) \subseteq In(b) /\ Left(<<>>, 0) = {}
         /\ d = Len(b) => Left(b, d) = {}
         /\ d < Len(b) => /\ b[d + 1] \in In(b) /\ b[d + 1] \in Nat
                          /\ Left(b, d) = {b[d + 1]} \cup Left(b, d + 1)
                          /\ Inj(b) => b[d + 1] \notin Left(b, d + 1)
<1>1. DOMAIN b = 1 .. Len(b) /\ Len(b) \in Nat /\ 0 + 1 = 1  OBVIOUS
<1>2. Left(b, 0) = In(b) /\ Left(b, d) \subseteq In(b)  BY <1>1 DEF Left, In
<1>3. Left(<<>>, 0) = {}  BY DEF Left
<1>4. d = Len(b) => Left(b, d) = {}  BY <1>1 DEF Left
<1>5. ASSUME d < Len(b)
      PROVE  /\ b[d + 1] \in In(b) /\ b[d + 1] \in Nat
             /\ Left(b, d) = {b[d + 1]} \cup Left(b, d + 1)
             /\ Inj(b) => b[d + 1] \notin Left(b, d + 1)
  <2>1. d + 1 \in DOMAIN b  BY <1>1, <1>5
  <2>2. \A i : i \in d + 1 .. Len(b) <=> i = d + 1 \/ i \in d + 1 + 1 .. Len(b)  BY <1>1, <1>5
  <2>3. b[d + 1] \in In(b) /\ b[d + 1] \in Nat  BY <2>1 DEF In
  <2>4. Left(b, d) = {b[d + 1]} \cup Left(b, d + 1)  BY <2>2 DEF Left
  <2>5. ASSUME Inj(b), NEW i \in d + 1 + 1 .. Len(b)  PROVE b[d + 1] # b[i]
    <3>1. i \in DOMAIN b /\ i # d + 1  BY <1>1, <2>5
    <3>. QED  BY <2>1, <2>5, <3>1 DEF Inj
  <2>. QED  BY <2>3, <2>4, <2>5 DEF Left
<1>. QED  BY <1>2, <1>3, <1>4, <1>5

Busy(t) == at[t] \in {"flush", "write"}

\* What a logger holds: nothing but logged events, and no batch outside a flush.
LoggerTyped ==
  /\ buffer \in Seq(Nat) /\ log \in Seq(Nat) /\ logged \in Nat /\ overlap \in BOOLEAN
  /\ at \in [Loggers -> {"idle", "external", "flush", "write"}]
  /\ batch \in [Loggers -> Seq(Nat)] /\ done \in [Loggers -> Nat] /\ copy \in [Loggers -> Seq(Nat)]
  /\ In(buffer) \subseteq 1 .. logged /\ In(log) \subseteq 1 .. logged /\ trimmed \subseteq 1 .. logged
  /\ \A t \in Loggers :
       /\ In(batch[t]) \subseteq 1 .. logged /\ In(copy[t]) \subseteq 1 .. logged
       /\ done[t] <= Len(batch[t]) /\ (at[t] = "write" => done[t] < Len(batch[t]))
       /\ ~Busy(t) => batch[t] = <<>> /\ done[t] = 0

Kept(e) == e \in In(buffer) \/ e \in In(log) \/ e \in trimmed \/ \E t \in Loggers : e \in Rest(t)

\* Flushes of a file adapter that have not overlapped run one at a time, on the log as it is.
Alone ==
  /\ \A t, u \in Loggers : Busy(t) /\ Busy(u) => t = u
  /\ \A t \in Loggers : at[t] = "write" => copy[t] = log

LoggerInv(atomic) ==
  /\ LoggerTyped
  /\ IF atomic THEN \A t \in Loggers : at[t] # "write" ELSE ~overlap => Alone
  /\ atomic \/ ~overlap => \A e \in 1 .. logged : Kept(e)

\* What a logging task has before its flush: a new event may have come.
Grown(events) ==
  /\ events \in Seq(Nat) /\ logged' \in Nat /\ In(events) \subseteq 1 .. logged'
  /\ In(buffer) \subseteq In(events) /\ logged <= logged'
  /\ \A e \in 1 .. logged' : e \in 1 .. logged \/ e \in In(events)

\* A flush takes the buffer.
LEMMA Takes ==
  ASSUME NEW x, NEW atomic \in BOOLEAN, NEW m, LoggerInv(atomic), NEW t \in Loggers, ~Busy(t),
         NEW events, Grown(events), Audit(x, atomic, m)!Take(t, events),
         UNCHANGED <<done, copy, log, trimmed>>
  PROVE  LoggerInv(atomic)'
<1>. USE DEF LoggerInv, Grown
<1>1. /\ batch' = [batch EXCEPT ![t] = events] /\ buffer' = <<>>
      /\ overlap' = (overlap \/ \E u \in Loggers \ {t} : Busy(u)) /\ at' = [at EXCEPT ![t] = "flush"]
  BY DEF Audit!Take, Audit!Go, Audit!Overlaps, Busy
<1>2. /\ batch'[t] = events /\ at'[t] = "flush" /\ done'[t] = 0 /\ batch[t] = <<>> /\ done[t] = 0
      /\ \A u \in Loggers : u # t => batch'[u] = batch[u] /\ at'[u] = at[u]
  BY <1>1 DEF LoggerTyped
<1>3. LoggerTyped'
  <2>1. \A S : S \subseteq 1 .. logged => S \subseteq 1 .. logged'  BY DEF LoggerTyped
  <2>2. In(buffer') = {} /\ buffer' \in Seq(Nat)  BY <1>1 DEF In
  <2>3. /\ at' \in [Loggers -> {"idle", "external", "flush", "write"}]
        /\ batch' \in [Loggers -> Seq(Nat)] /\ overlap' \in BOOLEAN
    BY <1>1 DEF LoggerTyped
  <2>4. ASSUME NEW u \in Loggers
        PROVE  /\ In(batch'[u]) \subseteq 1 .. logged' /\ In(copy'[u]) \subseteq 1 .. logged'
               /\ done'[u] <= Len(batch'[u]) /\ (at'[u] = "write" => done'[u] < Len(batch'[u]))
               /\ (~Busy(u))' => batch'[u] = <<>> /\ done'[u] = 0
    <3>1. CASE u = t
      <4>1. In(copy[t]) \subseteq 1 .. logged'  BY <2>1 DEF LoggerTyped
      <4>. QED  BY <1>2, <3>1, <4>1 DEF Busy
    <3>2. CASE u # t
      <4>1. In(batch[u]) \subseteq 1 .. logged' /\ In(copy[u]) \subseteq 1 .. logged'
        BY <2>1 DEF LoggerTyped
      <4>. QED  BY <1>2, <3>2, <4>1 DEF LoggerTyped, Busy
    <3>. QED  BY <3>1, <3>2
  <2>5. In(log') \subseteq 1 .. logged' /\ trimmed' \subseteq 1 .. logged'  BY <2>1 DEF LoggerTyped
  <2>. QED  BY <2>2, <2>3, <2>4, <2>5 DEF LoggerTyped
<1>4. (IF atomic THEN \A u \in Loggers : at[u] # "write" ELSE ~overlap => Alone)'
  BY <1>1, <1>2 DEF Alone, Busy
<1>5. ASSUME atomic \/ ~overlap', NEW e \in 1 .. logged'  PROVE Kept(e)'
  <2>1. \A u \in Loggers : u # t => Rest(u)' = Rest(u)  BY <1>2 DEF Rest, Left
  <2>2. Rest(t)' = In(events)  BY <1>2, LeftOver DEF Rest
  <2>3. Rest(t) = {}  BY <1>2, LeftOver DEF Rest
  <2>4. CASE e \in In(events)  BY <2>2, <2>4 DEF Kept
  <2>5. CASE e \notin In(events)
    <3>1. Kept(e)  BY <1>1, <1>5, <2>5
    <3>. QED  BY <2>1, <2>3, <2>5, <3>1 DEF Kept
  <2>. QED  BY <2>4, <2>5
<1>. QED  BY <1>3, <1>4, <1>5

\* Or it leaves the events in the buffer.
LEMMA Waits ==
  ASSUME NEW atomic \in BOOLEAN, LoggerInv(atomic), NEW t \in Loggers, ~Busy(t),
         NEW events, Grown(events), buffer' = events, NEW where \in {"idle", "external"},
         at' = [at EXCEPT ![t] = where], UNCHANGED <<batch, overlap, done, copy, log, trimmed>>
  PROVE  LoggerInv(atomic)'
<1>. USE DEF LoggerInv, Grown
<1>1. at'[t] = where /\ \A u \in Loggers : u # t => at'[u] = at[u]  BY DEF LoggerTyped
<1>2. \A u \in Loggers : Busy(u)' <=> Busy(u)  BY <1>1 DEF Busy
<1>3. \A u \in Loggers : at'[u] = "write" => at[u] = "write"  BY <1>1
<1>4. LoggerTyped'
  <2>1. \A S : S \subseteq 1 .. logged => S \subseteq 1 .. logged'  BY DEF LoggerTyped
  <2>2. at' \in [Loggers -> {"idle", "external", "flush", "write"}]  BY DEF LoggerTyped
  <2>3. In(log') \subseteq 1 .. logged' /\ trimmed' \subseteq 1 .. logged'  BY <2>1 DEF LoggerTyped
  <2>4. \A u \in Loggers : In(batch'[u]) \subseteq 1 .. logged' /\ In(copy'[u]) \subseteq 1 .. logged'
    BY <2>1 DEF LoggerTyped
  <2>. QED  BY <1>2, <1>3, <2>2, <2>3, <2>4 DEF LoggerTyped
<1>5. (IF atomic THEN \A u \in Loggers : at[u] # "write" ELSE ~overlap => Alone)'
  BY <1>2, <1>3 DEF Alone
<1>6. ASSUME atomic \/ ~overlap', NEW e \in 1 .. logged'  PROVE Kept(e)'
  <2>1. CASE e \in In(events)  BY <2>1 DEF Kept
  <2>2. CASE e \notin In(events)
    <3>1. Kept(e)  BY <1>6, <2>2
    <3>. QED  BY <2>2, <3>1 DEF Kept, Rest
  <2>. QED  BY <2>1, <2>2
<1>. QED  BY <1>4, <1>5, <1>6

\* What storing the next event of a batch does: the event is in the log or trimmed.
LEMMA StoredEffect ==
  ASSUME NEW x, NEW a, NEW m, LoggerTyped, NEW t \in Loggers, done[t] < Len(batch[t]),
         NEW s \in Seq(Nat), Audit(x, a, m)!Stored(t, s)
  PROVE  /\ log' \in Seq(Nat) /\ In(log') \subseteq In(s) \cup {batch[t][done[t] + 1]}
         /\ In(log') \cup trimmed' = In(s) \cup {batch[t][done[t] + 1]} \cup In(log') \cup trimmed
         /\ Inj(s) /\ batch[t][done[t] + 1] \notin In(s) => Inj(log')
         /\ done' = [done EXCEPT ![t] = done[t] + 1]
         /\ batch[t][done[t] + 1] \in Nat /\ batch[t][done[t] + 1] \in In(batch[t])
<1>. DEFINE e == batch[t][done[t] + 1]
            r == Append(s, e)
<1>1. /\ log' = Audit(x, a, m)!Trim(r) /\ trimmed' = trimmed \cup (In(r) \ In(log'))
      /\ done' = [done EXCEPT ![t] = done[t] + 1]
  BY DEF Audit!Stored, Audit!Current, Audit!Elems, In
<1>2. batch[t] \in Seq(Nat) /\ done[t] \in Nat  BY DEF LoggerTyped
<1>3. e \in Nat /\ e \in In(batch[t])  BY <1>2, LeftOver
<1>4. /\ r \in Seq(Nat) /\ In(r) = In(s) \cup {e} /\ (Inj(s) /\ e \notin In(s) => Inj(r))
  BY <1>3, Appended
<1>5. log' \in Seq(Nat) /\ In(log') \subseteq In(r) /\ (Inj(r) => Inj(log'))
  BY <1>1, <1>4, Trimmed
<1>. QED  BY <1>1, <1>3, <1>4, <1>5

\* The next event is stored, by a flush that has the log as it is.
LEMMA Stores ==
  ASSUME NEW x, NEW a, NEW m, NEW atomic \in BOOLEAN, LoggerInv(atomic), NEW t \in Loggers, Busy(t),
         done[t] < Len(batch[t]), NEW s \in Seq(Nat), In(s) \subseteq 1 .. logged,
         atomic \/ ~overlap => s = log, Audit(x, a, m)!Stored(t, s),
         at' = [at EXCEPT ![t] = "flush"], copy' \in [Loggers -> Seq(Nat)],
         \A u \in Loggers : In(copy'[u]) \subseteq 1 .. logged,
         UNCHANGED <<buffer, batch, logged, overlap>>
  PROVE  LoggerInv(atomic)'
<1>. USE DEF LoggerInv
<1>. DEFINE e == batch[t][done[t] + 1]
<1>0. /\ log' \in Seq(Nat) /\ In(log') \subseteq In(s) \cup {e}
      /\ In(log') \cup trimmed' = In(s) \cup {e} \cup In(log') \cup trimmed
      /\ done' = [done EXCEPT ![t] = done[t] + 1] /\ e \in Nat /\ e \in In(batch[t])
  BY StoredEffect
<1>. HIDE DEF e
<1>1. /\ at'[t] = "flush" /\ done'[t] = done[t] + 1
      /\ \A u \in Loggers : u # t => at'[u] = at[u] /\ done'[u] = done[u]
      /\ done' \in [Loggers -> Nat]
      /\ at' \in [Loggers -> {"idle", "external", "flush", "write"}]
  BY <1>0 DEF LoggerTyped
<1>2. \A u \in Loggers : (Busy(u)' <=> Busy(u)) /\ (at'[u] = "write" => at[u] = "write" /\ u # t)
  BY <1>1 DEF Busy
<1>3. LoggerTyped'
  <2>1. In(batch[t]) \subseteq 1 .. logged  BY DEF LoggerTyped
  <2>2. In(log') \subseteq 1 .. logged' /\ trimmed' \subseteq 1 .. logged'
    BY <1>0, <2>1 DEF LoggerTyped
  <2>3. ASSUME NEW u \in Loggers
        PROVE  /\ done'[u] <= Len(batch'[u]) /\ (at'[u] = "write" => done'[u] < Len(batch'[u]))
               /\ (~Busy(u))' => batch'[u] = <<>> /\ done'[u] = 0
    <3>1. CASE u = t  BY <1>1, <1>2, <3>1 DEF LoggerTyped
    <3>2. CASE u # t  BY <1>1, <1>2, <3>2 DEF LoggerTyped
    <3>. QED  BY <3>1, <3>2
  <2>. QED  BY <1>0, <1>1, <2>2, <2>3 DEF LoggerTyped
<1>4. (IF atomic THEN \A u \in Loggers : at[u] # "write" ELSE ~overlap => Alone)'
  <2>1. CASE atomic  BY <1>2, <2>1
  <2>2. CASE ~atomic
    <3>. SUFFICES ASSUME ~overlap' PROVE Alone'  BY <2>2
    <3>1. Alone  BY <2>2
    <3>2. \A u \in Loggers : at'[u] # "write"  BY <1>2, <3>1 DEF Alone, Busy
    <3>. QED  BY <1>2, <3>1, <3>2 DEF Alone
  <2>. QED  BY <2>1, <2>2
<1>5. ASSUME atomic \/ ~overlap', NEW d \in 1 .. logged'  PROVE Kept(d)'
  <2>1. Kept(d) /\ s = log  BY <1>5
  <2>2. \A u \in Loggers : u # t => Rest(u)' = Rest(u)  BY <1>1 DEF Rest, Left
  <2>3. Rest(t) = {e} \cup Rest(t)'
    <3>1. batch[t] \in Seq(Nat) /\ done[t] \in Nat  BY DEF LoggerTyped
    <3>2. Left(batch[t], done[t]) = {batch[t][done[t] + 1]} \cup Left(batch[t], done[t] + 1)
      BY <3>1, LeftOver
    <3>. QED  BY <1>1, <3>2 DEF Rest, e
  <2>. QED  BY <1>0, <2>1, <2>2, <2>3 DEF Kept
<1>. QED  BY <1>3, <1>4, <1>5

\* A flush ends, with nothing left to write or with everything back in the buffer.
LEMMA Ends ==
  ASSUME NEW x, NEW a, NEW m, NEW atomic \in BOOLEAN, LoggerInv(atomic), NEW t \in Loggers, Busy(t),
         Audit(x, a, m)!EndFlush(t),
         \/ done[t] = Len(batch[t]) /\ buffer' = buffer
         \/ buffer' = batch[t] \o buffer,
         UNCHANGED <<log, trimmed, logged, overlap>>
  PROVE  LoggerInv(atomic)'
<1>. USE DEF LoggerInv
<1>1. /\ batch' = [batch EXCEPT ![t] = <<>>] /\ copy' = [copy EXCEPT ![t] = <<>>]
      /\ done' = [done EXCEPT ![t] = 0] /\ at' = [at EXCEPT ![t] = "idle"]
  BY DEF Audit!EndFlush, Audit!Go
<1>2. /\ batch'[t] = <<>> /\ copy'[t] = <<>> /\ done'[t] = 0 /\ at'[t] = "idle"
      /\ \A u \in Loggers : u # t => /\ batch'[u] = batch[u] /\ copy'[u] = copy[u]
                                     /\ done'[u] = done[u] /\ at'[u] = at[u]
      /\ batch' \in [Loggers -> Seq(Nat)] /\ copy' \in [Loggers -> Seq(Nat)]
      /\ done' \in [Loggers -> Nat] /\ at' \in [Loggers -> {"idle", "external", "flush", "write"}]
  BY <1>1 DEF LoggerTyped
<1>3. batch[t] \in Seq(Nat) /\ done[t] \in Nat /\ buffer \in Seq(Nat) /\ In(batch[t]) \subseteq 1 .. logged
  BY DEF LoggerTyped
<1>4. /\ buffer' \in Seq(Nat) /\ In(buffer) \subseteq In(buffer')
      /\ In(buffer') \subseteq In(buffer) \cup In(batch[t]) /\ Rest(t) \subseteq In(buffer')
  <2>1. Rest(t) \subseteq In(batch[t]) /\ (done[t] = Len(batch[t]) => Rest(t) = {})
    BY <1>3, LeftOver DEF Rest
  <2>2. ASSUME buffer' = batch[t] \o buffer
        PROVE  buffer' \in Seq(Nat) /\ In(buffer') = In(batch[t]) \cup In(buffer)
    BY <1>3, <2>2, PutBack
  <2>. QED  BY <1>3, <2>1, <2>2
<1>5. \A u \in Loggers : (Busy(u)' <=> Busy(u) /\ u # t) /\ (at'[u] = "write" => at[u] = "write" /\ u # t)
  BY <1>2 DEF Busy
<1>6. LoggerTyped'
  <2>1. In(<<>>) = {} /\ Len(<<>>) = 0  BY DEF In
  <2>2. ASSUME NEW u \in Loggers
        PROVE  /\ In(batch'[u]) \subseteq 1 .. logged' /\ In(copy'[u]) \subseteq 1 .. logged'
               /\ done'[u] <= Len(batch'[u]) /\ (at'[u] = "write" => done'[u] < Len(batch'[u]))
               /\ (~Busy(u))' => batch'[u] = <<>> /\ done'[u] = 0
    <3>1. CASE u = t  BY <1>2, <2>1, <3>1 DEF LoggerTyped
    <3>2. CASE u # t  BY <1>2, <1>5, <3>2 DEF LoggerTyped
    <3>. QED  BY <3>1, <3>2
  <2>3. In(buffer') \subseteq 1 .. logged'  BY <1>3, <1>4 DEF LoggerTyped
  <2>. QED  BY <1>2, <1>4, <2>2, <2>3 DEF LoggerTyped
<1>7. (IF atomic THEN \A u \in Loggers : at[u] # "write" ELSE ~overlap => Alone)'
  BY <1>2, <1>5 DEF Alone
<1>8. ASSUME atomic \/ ~overlap', NEW e \in 1 .. logged'  PROVE Kept(e)'
  <2>1. Kept(e)  BY <1>8
  <2>2. \A u \in Loggers : u # t => Rest(u)' = Rest(u)  BY <1>2 DEF Rest, Left
  <2>. QED  BY <1>4, <2>1, <2>2 DEF Kept
<1>. QED  BY <1>6, <1>7, <1>8

\* The end of log either takes the events or leaves them.
LEMMA Finishes ==
  ASSUME NEW x, NEW atomic \in BOOLEAN, NEW m, LoggerInv(atomic), NEW t \in Loggers, ~Busy(t),
         NEW c, NEW events, Grown(events), Audit(x, atomic, m)!FinishLog(t, c, events),
         UNCHANGED <<done, copy, log, trimmed>>
  PROVE  LoggerInv(atomic)'
<1>1. CASE Audit(x, atomic, m)!Take(t, events)  BY <1>1, Takes
<1>2. CASE buffer' = events /\ Audit(x, atomic, m)!Go(t, "idle") /\ UNCHANGED <<batch, overlap>>
  <2>1. at' = [at EXCEPT ![t] = "idle"] /\ "idle" \in {"idle", "external"}  BY <1>2 DEF Audit!Go
  <2>. QED  BY <1>2, <2>1, Waits
<1>. QED  BY <1>1, <1>2 DEF Audit!FinishLog

\* The buffer grows by the event that is logged now, or by none.
LEMMA Grows ==
  ASSUME NEW atomic \in BOOLEAN, LoggerInv(atomic)
  PROVE  /\ logged' = logged => Grown(buffer)
         /\ logged' = logged + 1 => Grown(Append(buffer, logged + 1))
<1>1. /\ buffer \in Seq(Nat) /\ logged \in Nat /\ In(buffer) \subseteq 1 .. logged
  BY DEF LoggerInv, LoggerTyped
<1>2. logged + 1 \in Nat /\ \A e \in 1 .. logged + 1 : e \in 1 .. logged \/ e = logged + 1
  BY <1>1
<1>3. /\ Append(buffer, logged + 1) \in Seq(Nat)
      /\ In(Append(buffer, logged + 1)) = In(buffer) \cup {logged + 1}
  BY <1>1, <1>2, Appended
<1>4. 1 .. logged \subseteq 1 .. logged + 1 /\ logged + 1 \in 1 .. logged + 1  BY <1>1
<1>5. logged' = logged => Grown(buffer)  BY <1>1 DEF Grown
<1>6. ASSUME logged' = logged + 1  PROVE Grown(Append(buffer, logged + 1))
  BY <1>1, <1>2, <1>3, <1>4, <1>6 DEF Grown
<1>. QED  BY <1>5, <1>6

\* The file adapter reads the list.
LEMMA Reads ==
  ASSUME NEW x, NEW atomic \in BOOLEAN, NEW m, LoggerInv(atomic), NEW t \in Loggers,
         Audit(x, atomic, m)!ReadLog(t)
  PROVE  LoggerInv(atomic)'
<1>. USE DEF LoggerInv
<1>1. /\ ~atomic /\ at[t] = "flush" /\ done[t] < Len(batch[t])
      /\ copy' = [copy EXCEPT ![t] = log] /\ at' = [at EXCEPT ![t] = "write"]
      /\ UNCHANGED <<buffer, batch, done, log, trimmed, logged, overlap>>
  BY DEF Audit!ReadLog, Audit!Go
<1>2. /\ copy'[t] = log /\ at'[t] = "write"
      /\ \A u \in Loggers : u # t => copy'[u] = copy[u] /\ at'[u] = at[u]
      /\ copy' \in [Loggers -> Seq(Nat)] /\ at' \in [Loggers -> {"idle", "external", "flush", "write"}]
  BY <1>1 DEF LoggerTyped
<1>3. \A u \in Loggers : Busy(u)' <=> Busy(u)  BY <1>1, <1>2 DEF Busy
<1>4. LoggerTyped'
  <2>1. ASSUME NEW u \in Loggers
        PROVE  /\ In(batch'[u]) \subseteq 1 .. logged' /\ In(copy'[u]) \subseteq 1 .. logged'
               /\ done'[u] <= Len(batch'[u]) /\ (at'[u] = "write" => done'[u] < Len(batch'[u]))
               /\ (~Busy(u))' => batch'[u] = <<>> /\ done'[u] = 0
    BY <1>1, <1>2, <1>3 DEF LoggerTyped
  <2>. QED  BY <1>1, <1>2, <2>1 DEF LoggerTyped
<1>5. (IF atomic THEN \A u \in Loggers : at[u] # "write" ELSE ~overlap => Alone)'
  <2>. SUFFICES ASSUME ~overlap' PROVE Alone'  BY <1>1
  <2>1. Alone  BY <1>1
  <2>. QED  BY <1>1, <1>2, <1>3, <2>1 DEF Alone
<1>6. (atomic \/ ~overlap => \A e \in 1 .. logged : Kept(e))'
  BY <1>1 DEF Kept, Rest
<1>. QED  BY <1>4, <1>5, <1>6

\* Nothing is lost in any step of the logger, over either adapter.
LEMMA LoggerMoves ==
  ASSUME NEW x \in BOOLEAN, NEW atomic \in BOOLEAN, NEW m, LoggerInv(atomic),
         Audit(x, atomic, m)!Next
  PROVE  LoggerInv(atomic)'
<1>1. ASSUME NEW t \in Loggers, Audit(x, atomic, m)!Log(t)  PROVE LoggerInv(atomic)'
  <2>1. /\ at[t] = "idle" /\ logged' = logged + 1 /\ UNCHANGED <<done, copy, log, trimmed>>
        /\ \E c \in BOOLEAN :
             IF x THEN /\ buffer' = Append(buffer, logged + 1) /\ Audit(x, atomic, m)!Go(t, "external")
                       /\ UNCHANGED <<batch, overlap>>
             ELSE Audit(x, atomic, m)!FinishLog(t, c, Append(buffer, logged + 1))
    BY <1>1 DEF Audit!Log
  <2>2. ~Busy(t) /\ Grown(Append(buffer, logged + 1))  BY <2>1, Grows DEF Busy
  <2>3. CASE /\ buffer' = Append(buffer, logged + 1) /\ Audit(x, atomic, m)!Go(t, "external")
             /\ UNCHANGED <<batch, overlap>>
    <3>1. at' = [at EXCEPT ![t] = "external"] /\ "external" \in {"idle", "external"}
      BY <2>3 DEF Audit!Go
    <3>. QED  BY <2>1, <2>2, <2>3, <3>1, Waits
  <2>4. ASSUME NEW c, Audit(x, atomic, m)!FinishLog(t, c, Append(buffer, logged + 1))
        PROVE  LoggerInv(atomic)'
    BY <2>1, <2>2, <2>4, Finishes
  <2>. QED  BY <2>1, <2>3, <2>4
<1>2. ASSUME NEW t \in Loggers, Audit(x, atomic, m)!External(t)  PROVE LoggerInv(atomic)'
  <2>1. /\ at[t] = "external" /\ Audit(x, atomic, m)!FinishLog(t, critical[t], buffer)
        /\ UNCHANGED <<done, copy, log, trimmed, logged>>
    BY <1>2 DEF Audit!External
  <2>2. ~Busy(t) /\ Grown(buffer)  BY <2>1, Grows DEF Busy
  <2>. QED  BY <2>1, <2>2, Finishes
<1>3. ASSUME NEW t \in Loggers, Audit(x, atomic, m)!TimerFires(t) \/ Audit(x, atomic, m)!close(t)
      PROVE  LoggerInv(atomic)'
  <2>1. /\ at[t] = "idle" /\ UNCHANGED <<done, copy, log, trimmed, logged>>
        /\ Audit(x, atomic, m)!Take(t, buffer) \/ UNCHANGED <<buffer, batch, at, overlap>>
    BY <1>3 DEF Audit!TimerFires, Audit!close
  <2>2. ~Busy(t) /\ Grown(buffer)  BY <2>1, Grows DEF Busy
  <2>3. CASE Audit(x, atomic, m)!Take(t, buffer)  BY <2>1, <2>2, <2>3, Takes
  <2>4. CASE UNCHANGED <<buffer, batch, at, overlap>>
    BY <2>1, <2>4 DEF LoggerInv, LoggerTyped, Alone, Busy, Kept, Rest
  <2>. QED  BY <2>1, <2>3, <2>4
<1>4. ASSUME NEW t \in Loggers, Audit(x, atomic, m)!StoreNext(t)  PROVE LoggerInv(atomic)'
  <2>1. /\ at[t] = "flush" /\ done[t] < Len(batch[t]) /\ Audit(x, atomic, m)!Stored(t, log)
        /\ UNCHANGED <<buffer, at, batch, copy, logged, overlap>>
    BY <1>4 DEF Audit!StoreNext
  <2>2. Busy(t) /\ at' = [at EXCEPT ![t] = "flush"]  BY <2>1 DEF Busy, LoggerInv, LoggerTyped
  <2>3. /\ log \in Seq(Nat) /\ In(log) \subseteq 1 .. logged /\ copy' \in [Loggers -> Seq(Nat)]
        /\ \A u \in Loggers : In(copy'[u]) \subseteq 1 .. logged
    BY <2>1 DEF LoggerInv, LoggerTyped
  <2>. QED  BY <2>1, <2>2, <2>3, Stores
<1>5. ASSUME NEW t \in Loggers, Audit(x, atomic, m)!ReadLog(t)  PROVE LoggerInv(atomic)'
  BY <1>5, Reads
<1>6. ASSUME NEW t \in Loggers, Audit(x, atomic, m)!WriteLog(t)  PROVE LoggerInv(atomic)'
  <2>1. /\ at[t] = "write" /\ Audit(x, atomic, m)!Stored(t, copy[t])
        /\ copy' = [copy EXCEPT ![t] = <<>>] /\ at' = [at EXCEPT ![t] = "flush"]
        /\ UNCHANGED <<buffer, batch, logged, overlap>>
    BY <1>6 DEF Audit!WriteLog, Audit!Go
  <2>2. /\ Busy(t) /\ done[t] < Len(batch[t]) /\ copy[t] \in Seq(Nat)
        /\ In(copy[t]) \subseteq 1 .. logged
    BY <2>1 DEF Busy, LoggerInv, LoggerTyped
  <2>3. atomic \/ ~overlap => copy[t] = log  BY <2>1 DEF LoggerInv, Alone
  <2>4. /\ copy' \in [Loggers -> Seq(Nat)]
        /\ \A u \in Loggers : In(copy'[u]) \subseteq 1 .. logged
    <3>1. In(<<>>) = {}  BY DEF In
    <3>2. copy \in [Loggers -> Seq(Nat)] /\ \A u \in Loggers : In(copy[u]) \subseteq 1 .. logged
      BY DEF LoggerInv, LoggerTyped
    <3>. QED  BY <2>1, <3>1, <3>2
  <2>. QED  BY <2>1, <2>2, <2>3, <2>4, Stores
<1>7. ASSUME NEW t \in Loggers, Audit(x, atomic, m)!Flushed(t)  PROVE LoggerInv(atomic)'
  <2>1. /\ Busy(t) /\ done[t] = Len(batch[t]) /\ Audit(x, atomic, m)!EndFlush(t)
        /\ UNCHANGED <<buffer, log, trimmed, logged, overlap>>
    BY <1>7 DEF Audit!Flushed, Busy
  <2>. QED  BY <2>1, Ends
<1>8. ASSUME NEW t \in Loggers, Audit(x, atomic, m)!FlushFails(t)  PROVE LoggerInv(atomic)'
  <2>1. /\ Busy(t) /\ buffer' = batch[t] \o buffer /\ Audit(x, atomic, m)!EndFlush(t)
        /\ UNCHANGED <<log, trimmed, logged, overlap>>
    BY <1>8 DEF Audit!FlushFails, Busy
  <2>. QED  BY <2>1, Ends
<1>. QED  BY <1>1, <1>2, <1>3, <1>4, <1>5, <1>6, <1>7, <1>8 DEF Audit!Next, Audit!TaskStep

\* Without an external logger a timer that is armed has something to flush, and what waits has
\* an armed timer until a flush fails.
TimerInv ==
  /\ timer \in {"none", "armed"} /\ \A t \in Loggers : at[t] # "external"
  /\ timer = "armed" => buffer # <<>>
  /\ buffer # <<>> /\ ~failed => timer = "armed"

LEMMA TimerMoves ==
  ASSUME NEW m, LoggerInv(TRUE), TimerInv, Audit(FALSE, TRUE, m)!Next
  PROVE  TimerInv'
<1>. USE DEF TimerInv
<1>0. /\ buffer \in Seq(Nat) /\ at \in [Loggers -> {"idle", "external", "flush", "write"}]
      /\ \A t \in Loggers : batch[t] \in Seq(Nat)
  BY DEF LoggerInv, LoggerTyped
<1>1. ASSUME NEW t \in Loggers, NEW events, Audit(FALSE, TRUE, m)!Take(t, events)  PROVE TimerInv'
  <2>1. buffer' = <<>> /\ timer' = "none" /\ at' = [at EXCEPT ![t] = "flush"]
    BY <1>1 DEF Audit!Take, Audit!Go
  <2>. QED  BY <1>0, <2>1
<1>2. ASSUME NEW t \in Loggers, Audit(FALSE, TRUE, m)!Log(t)  PROVE TimerInv'
  <2>1. failed' = FALSE
        /\ \E c \in BOOLEAN : Audit(FALSE, TRUE, m)!FinishLog(t, c, Append(buffer, logged + 1))
    BY <1>2 DEF Audit!Log
  <2>2. logged + 1 \in Nat /\ Append(buffer, logged + 1) # <<>>
    <3>1. logged \in Nat  BY DEF LoggerInv, LoggerTyped
    <3>2. logged + 1 \in Nat  BY <3>1
    <3>. QED  BY <1>0, <3>2, Appended
  <2>3. CASE /\ buffer' = Append(buffer, logged + 1) /\ Audit(FALSE, TRUE, m)!Go(t, "idle")
             /\ timer' = (IF timer = "none" THEN "armed" ELSE timer)
    BY <1>0, <2>2, <2>3 DEF Audit!Go
  <2>4. CASE Audit(FALSE, TRUE, m)!Take(t, Append(buffer, logged + 1))  BY <1>1, <2>4
  <2>. QED  BY <2>1, <2>3, <2>4 DEF Audit!FinishLog
<1>3. ASSUME NEW t \in Loggers, Audit(FALSE, TRUE, m)!External(t)  PROVE TimerInv'
  BY <1>3 DEF Audit!External
<1>4. ASSUME NEW t \in Loggers, Audit(FALSE, TRUE, m)!TimerFires(t) \/ Audit(FALSE, TRUE, m)!close(t)
      PROVE  TimerInv'
  <2>1. Audit(FALSE, TRUE, m)!Take(t, buffer)  BY <1>4 DEF Audit!TimerFires, Audit!close
  <2>. QED  BY <1>1, <2>1
<1>5. ASSUME NEW t \in Loggers,
             \/ Audit(FALSE, TRUE, m)!StoreNext(t) \/ Audit(FALSE, TRUE, m)!ReadLog(t)
             \/ Audit(FALSE, TRUE, m)!WriteLog(t) \/ Audit(FALSE, TRUE, m)!Flushed(t)
      PROVE  TimerInv'
  <2>1. /\ UNCHANGED <<buffer, timer, failed>>
        /\ at' = at \/ \E w \in {"idle", "flush", "write"} : at' = [at EXCEPT ![t] = w]
    BY <1>5 DEF Audit!StoreNext, Audit!ReadLog, Audit!WriteLog, Audit!Flushed, Audit!EndFlush, Audit!Go
  <2>. QED  BY <1>0, <2>1
<1>6. ASSUME NEW t \in Loggers, Audit(FALSE, TRUE, m)!FlushFails(t)  PROVE TimerInv'
  <2>1. /\ failed' = TRUE /\ timer' = timer /\ buffer' = batch[t] \o buffer
        /\ at' = [at EXCEPT ![t] = "idle"]
    BY <1>6 DEF Audit!FlushFails, Audit!EndFlush, Audit!Go
  <2>2. buffer # <<>> => buffer' # <<>>  BY <1>0, <2>1, PutBack
  <2>. QED  BY <1>0, <2>1, <2>2
<1>. QED  BY <1>2, <1>3, <1>4, <1>5, <1>6 DEF Audit!Next, Audit!TaskStep

\* While no storage call fails, an event is in one place: the buffer, one flush or the log.
Apart ==
  /\ faults = 0 /\ Inj(buffer) /\ Inj(log) /\ In(buffer) \cap In(log) = {}
  /\ \A t \in Loggers : /\ Inj(batch[t]) /\ Rest(t) \cap In(log) = {}
                        /\ Rest(t) \cap In(buffer) = {}
  /\ \A t, u \in Loggers : t # u => Rest(t) \cap Rest(u) = {}

\* Events that are neither stored nor in a flush, each once.
Fresh(events) ==
  /\ Inj(events) /\ In(events) \cap In(log) = {}
  /\ \A u \in Loggers : Rest(u) \cap In(events) = {}

LEMMA FreshEvents ==
  ASSUME LoggerInv(TRUE), Apart
  PROVE  Fresh(buffer) /\ Fresh(Append(buffer, logged + 1))
<1>1. /\ buffer \in Seq(Nat) /\ logged \in Nat /\ In(buffer) \subseteq 1 .. logged
      /\ In(log) \subseteq 1 .. logged /\ logged + 1 \notin 1 .. logged /\ logged + 1 \in Nat
  BY DEF LoggerInv, LoggerTyped
<1>2. Fresh(buffer)  BY DEF Apart, Fresh
<1>3. /\ Inj(Append(buffer, logged + 1))
      /\ In(Append(buffer, logged + 1)) = In(buffer) \cup {logged + 1}
  BY <1>1, Appended DEF Apart
<1>4. ASSUME NEW u \in Loggers  PROVE logged + 1 \notin Rest(u)
  <2>1. batch[u] \in Seq(Nat) /\ done[u] \in Nat /\ In(batch[u]) \subseteq 1 .. logged
    BY DEF LoggerInv, LoggerTyped
  <2>2. Rest(u) \subseteq In(batch[u])  BY <2>1, LeftOver DEF Rest
  <2>. QED  BY <1>1, <2>1, <2>2
<1>5. Fresh(Append(buffer, logged + 1))  BY <1>1, <1>3, <1>4 DEF Apart, Fresh
<1>. QED  BY <1>2, <1>5

\* Fresh events go to a flush or stay in the buffer.
LEMMA FreshGo ==
  ASSUME NEW x, NEW m, LoggerInv(TRUE), Apart, NEW t \in Loggers, ~Busy(t), NEW events, Fresh(events),
         \/ Audit(x, TRUE, m)!Take(t, events)
         \/ buffer' = events /\ UNCHANGED batch,
         UNCHANGED <<done, log, faults>>
  PROVE  Apart'
<1>1. CASE buffer' = events /\ UNCHANGED batch
  <2>1. \A u \in Loggers : Rest(u)' = Rest(u)  BY <1>1 DEF Rest
  <2>. QED  BY <1>1, <2>1 DEF Apart, Fresh
<1>2. CASE Audit(x, TRUE, m)!Take(t, events)
  <2>1. batch' = [batch EXCEPT ![t] = events] /\ buffer' = <<>>  BY <1>2 DEF Audit!Take
  <2>2. /\ batch'[t] = events /\ \A u \in Loggers : u # t => batch'[u] = batch[u]
        /\ done[t] = 0
    BY <2>1 DEF LoggerInv, LoggerTyped
  <2>3. Rest(t)' = In(events)
    <3>1. Left(events, 0) = In(events)  BY DEF Left, In, Inj
    <3>. QED  BY <2>2, <3>1 DEF Rest
  <2>4. \A u \in Loggers : u # t => Rest(u)' = Rest(u)  BY <2>2 DEF Rest
  <2>5. In(buffer') = {} /\ Inj(buffer')  BY <2>1 DEF In, Inj
  <2>. QED  BY <2>2, <2>3, <2>4, <2>5 DEF Apart, Fresh
<1>. QED  BY <1>1, <1>2

\* No event gets to a second place.
LEMMA ApartMoves ==
  ASSUME LoggerInv(TRUE), Apart, Audit(FALSE, TRUE, 0)!Next
  PROVE  Apart'
<1>0. \A t \in Loggers : batch[t] \in Seq(Nat) /\ done[t] \in Nat /\ at[t] # "write"
  BY DEF LoggerInv, LoggerTyped
<1>1. ASSUME NEW t \in Loggers, Audit(FALSE, TRUE, 0)!Log(t)  PROVE Apart'
  <2>1. /\ at[t] = "idle" /\ UNCHANGED <<done, log, faults>>
        /\ \E c \in BOOLEAN : Audit(FALSE, TRUE, 0)!FinishLog(t, c, Append(buffer, logged + 1))
    BY <1>1 DEF Audit!Log
  <2>2. ~Busy(t)  BY <2>1 DEF Busy
  <2>3. Fresh(Append(buffer, logged + 1))  BY FreshEvents
  <2>4. \/ Audit(FALSE, TRUE, 0)!Take(t, Append(buffer, logged + 1))
        \/ buffer' = Append(buffer, logged + 1) /\ UNCHANGED batch
    BY <2>1 DEF Audit!FinishLog
  <2>. QED  BY <2>1, <2>2, <2>3, <2>4, FreshGo
<1>2. ASSUME NEW t \in Loggers, Audit(FALSE, TRUE, 0)!External(t)  PROVE Apart'
  <2>1. /\ at[t] = "external" /\ UNCHANGED <<done, log, faults>>
        /\ Audit(FALSE, TRUE, 0)!FinishLog(t, critical[t], buffer)
    BY <1>2 DEF Audit!External
  <2>2. ~Busy(t)  BY <2>1 DEF Busy
  <2>3. Fresh(buffer)  BY FreshEvents
  <2>4. \/ Audit(FALSE, TRUE, 0)!Take(t, buffer)
        \/ buffer' = buffer /\ UNCHANGED batch
    BY <2>1 DEF Audit!FinishLog
  <2>. QED  BY <2>1, <2>2, <2>3, <2>4, FreshGo
<1>3. ASSUME NEW t \in Loggers, Audit(FALSE, TRUE, 0)!TimerFires(t) \/ Audit(FALSE, TRUE, 0)!close(t)
      PROVE  Apart'
  <2>1. /\ at[t] = "idle" /\ UNCHANGED <<done, log, faults>>
        /\ \/ Audit(FALSE, TRUE, 0)!Take(t, buffer)
           \/ buffer' = buffer /\ UNCHANGED batch
    BY <1>3 DEF Audit!TimerFires, Audit!close
  <2>2. ~Busy(t)  BY <2>1 DEF Busy
  <2>3. Fresh(buffer)  BY FreshEvents
  <2>. QED  BY <2>1, <2>2, <2>3, FreshGo
<1>4. ASSUME NEW t \in Loggers, Audit(FALSE, TRUE, 0)!StoreNext(t)  PROVE Apart'
  <2>. DEFINE e == batch[t][done[t] + 1]
  <2>1. /\ done[t] < Len(batch[t]) /\ Audit(FALSE, TRUE, 0)!Stored(t, log)
        /\ UNCHANGED <<buffer, batch, faults>>
    BY <1>4 DEF Audit!StoreNext
  <2>2. LoggerTyped /\ log \in Seq(Nat) /\ done \in [Loggers -> Nat]
    BY DEF LoggerInv, LoggerTyped
  <2>3. /\ In(log') \subseteq In(log) \cup {e} /\ (Inj(log) /\ e \notin In(log) => Inj(log'))
        /\ done' = [done EXCEPT ![t] = done[t] + 1]
    BY <2>1, <2>2, StoredEffect
  <2>4. /\ Left(batch[t], done[t]) = {e} \cup Left(batch[t], done[t] + 1)
        /\ e \notin Left(batch[t], done[t] + 1)
    <3>1. Inj(batch[t])  BY DEF Apart
    <3>. QED  BY <1>0, <2>1, <3>1, LeftOver
  <2>. HIDE DEF e
  <2>5. Rest(t) = {e} \cup Rest(t)' /\ e \notin Rest(t)'
    <3>1. done'[t] = done[t] + 1 /\ batch'[t] = batch[t]  BY <2>1, <2>2, <2>3
    <3>. QED  BY <2>4, <3>1 DEF Rest
  <2>6. \A u \in Loggers : u # t => Rest(u)' = Rest(u)  BY <2>1, <2>2, <2>3 DEF Rest
  <2>7. e \notin In(log) /\ e \notin In(buffer)  BY <2>5 DEF Apart
  <2>8. Inj(log') /\ In(buffer) \cap In(log') = {}  BY <2>3, <2>7 DEF Apart
  <2>9. ASSUME NEW u \in Loggers
        PROVE  Rest(u)' \cap In(log') = {} /\ Rest(u)' \cap In(buffer) = {}
    <3>1. CASE u = t  BY <2>3, <2>5, <3>1 DEF Apart
    <3>2. CASE u # t
      <4>1. e \notin Rest(u)  BY <2>5, <3>2 DEF Apart
      <4>. QED  BY <2>3, <2>6, <3>2, <4>1 DEF Apart
    <3>. QED  BY <3>1, <3>2
  <2>10. ASSUME NEW u \in Loggers, NEW w \in Loggers, u # w  PROVE Rest(u)' \cap Rest(w)' = {}
    <3>1. Rest(u)' \subseteq Rest(u) /\ Rest(w)' \subseteq Rest(w)  BY <2>5, <2>6
    <3>2. Rest(u) \cap Rest(w) = {}  BY <2>10 DEF Apart
    <3>. QED  BY <3>1, <3>2
  <2>. QED  BY <2>1, <2>8, <2>9, <2>10 DEF Apart
<1>5. ASSUME NEW t \in Loggers, Audit(FALSE, TRUE, 0)!ReadLog(t) \/ Audit(FALSE, TRUE, 0)!WriteLog(t)
      PROVE  Apart'
  BY <1>0, <1>5 DEF Audit!ReadLog, Audit!WriteLog
<1>6. ASSUME NEW t \in Loggers, Audit(FALSE, TRUE, 0)!Flushed(t)  PROVE Apart'
  <2>1. /\ batch' = [batch EXCEPT ![t] = <<>>] /\ done' = [done EXCEPT ![t] = 0]
        /\ UNCHANGED <<buffer, log, faults>>
    BY <1>6 DEF Audit!Flushed, Audit!EndFlush
  <2>2. batch'[t] = <<>> /\ \A u \in Loggers : u # t => batch'[u] = batch[u] /\ done'[u] = done[u]
    BY <2>1 DEF LoggerInv, LoggerTyped
  <2>3. Rest(t)' = {} /\ Inj(batch'[t])
    <3>1. \A d \in Nat : Left(<<>>, d) = {}  BY DEF Left
    <3>2. done'[t] \in Nat  BY <2>1 DEF LoggerInv, LoggerTyped
    <3>. QED  BY <2>2, <3>1, <3>2 DEF Rest, Inj
  <2>4. \A u \in Loggers : u # t => Rest(u)' = Rest(u)  BY <2>2 DEF Rest
  <2>. QED  BY <2>1, <2>2, <2>3, <2>4 DEF Apart
<1>7. ASSUME NEW t \in Loggers, Audit(FALSE, TRUE, 0)!FlushFails(t)  PROVE Apart'
  BY <1>7 DEF Audit!FlushFails, Apart
<1>. QED  BY <1>1, <1>2, <1>3, <1>4, <1>5, <1>6, <1>7 DEF Audit!Next, Audit!TaskStep

\* The inductive invariant of the loggers: of each in the behaviours that are about it.
LoggersInv ==
  /\ running \in {"gate", "queue", "failing", "filing", "timely", "query", "matrix"}
  /\ running = "failing" => LoggerInv(TRUE) /\ TimerInv
  /\ running = "filing" => LoggerInv(FALSE)
  /\ running = "timely" => LoggerInv(TRUE) /\ Apart

LEMMA LoggersInit == ServicesInit => LoggersInv
<1>. SUFFICES ASSUME ServicesInit PROVE LoggersInv  OBVIOUS
<1>0. /\ running \in {"gate", "queue", "failing", "filing", "timely", "query", "matrix"}
      /\ Audit(FALSE, TRUE, MaxFaults)!Init
  BY DEF ServicesInit
<1>1. /\ buffer = <<>> /\ timer = "none" /\ at = [t \in Loggers |-> "idle"]
      /\ batch = [t \in Loggers |-> <<>>]
      /\ done = [t \in Loggers |-> 0] /\ copy = [t \in Loggers |-> <<>>]
      /\ log = <<>> /\ trimmed = {} /\ logged = 0 /\ failed = FALSE /\ overlap = FALSE
      /\ faults = 0
  BY <1>0 DEF Audit!Init
<1>2. In(<<>>) = {} /\ Inj(<<>>) /\ Left(<<>>, 0) = {} /\ <<>> \in Seq(Nat) /\ Len(<<>>) = 0
  BY DEF In, Inj, Left
<1>3. \A t \in Loggers : /\ at[t] = "idle" /\ batch[t] = <<>> /\ done[t] = 0 /\ copy[t] = <<>>
                         /\ ~Busy(t) /\ Rest(t) = {}
  BY <1>1, <1>2 DEF Busy, Rest
<1>4. LoggerTyped
  <2>1. /\ at \in [Loggers -> {"idle", "external", "flush", "write"}]
        /\ batch \in [Loggers -> Seq(Nat)] /\ done \in [Loggers -> Nat]
        /\ copy \in [Loggers -> Seq(Nat)]
    BY <1>1, <1>2
  <2>2. /\ buffer \in Seq(Nat) /\ log \in Seq(Nat) /\ logged \in Nat /\ overlap \in BOOLEAN
        /\ In(buffer) = {} /\ In(log) = {} /\ trimmed = {}
    BY <1>1, <1>2
  <2>3. \A t \in Loggers : /\ In(batch[t]) = {} /\ In(copy[t]) = {} /\ Len(batch[t]) = 0
                           /\ at[t] # "write" /\ batch[t] = <<>> /\ done[t] = 0
    BY <1>2, <1>3
  <2>. QED  BY <2>1, <2>2, <2>3 DEF LoggerTyped
<1>5. 1 .. logged = {} /\ Alone  BY <1>1, <1>3 DEF Alone
<1>6. LoggerInv(TRUE) /\ LoggerInv(FALSE)  BY <1>3, <1>4, <1>5 DEF LoggerInv
<1>7. TimerInv  BY <1>1, <1>3 DEF TimerInv
<1>8. Apart  BY <1>1, <1>2, <1>3 DEF Apart
<1>. QED  BY <1>0, <1>6, <1>7, <1>8 DEF LoggersInv

\* A step that leaves the logger alone.
LEMMA LoggersStay == LoggersInv /\ UNCHANGED <<running, auditVars>> => LoggersInv'
<1>. SUFFICES ASSUME LoggersInv, UNCHANGED <<running, auditVars>> PROVE LoggersInv'  OBVIOUS
<1>1. /\ running' = running /\ buffer' = buffer /\ timer' = timer /\ at' = at /\ batch' = batch
      /\ done' = done /\ copy' = copy /\ log' = log /\ trimmed' = trimmed /\ logged' = logged
      /\ failed' = failed /\ overlap' = overlap /\ faults' = faults
  BY DEF auditVars
<1>2. LoggerTyped' <=> LoggerTyped  BY <1>1 DEF LoggerTyped, Busy
<1>3. Alone' <=> Alone  BY <1>1 DEF Alone, Busy
<1>4. \A e : Kept(e)' <=> Kept(e)  BY <1>1 DEF Kept, Rest
<1>5. ASSUME NEW atomic \in BOOLEAN, LoggerInv(atomic)  PROVE LoggerInv(atomic)'
  BY <1>1, <1>2, <1>3, <1>4, <1>5 DEF LoggerInv
<1>6. TimerInv => TimerInv'  BY <1>1 DEF TimerInv
<1>7. Apart => Apart'  BY <1>1 DEF Apart, Rest
<1>. QED  BY <1>1, <1>5, <1>6, <1>7 DEF LoggersInv

LEMMA LoggersMove == LoggersInv /\ [ServicesNext]_all => LoggersInv'
<1>. SUFFICES ASSUME LoggersInv, [ServicesNext]_all PROVE LoggersInv'  OBVIOUS
<1>1. CASE UNCHANGED <<running, auditVars>>  BY <1>1, LoggersStay
<1>2. CASE running' = running /\ running = "failing" /\ Audit(FALSE, TRUE, MaxFaults)!Next
  <2>1. LoggerInv(TRUE) /\ TimerInv  BY <1>2 DEF LoggersInv
  <2>2. LoggerInv(TRUE)'  BY <1>2, <2>1, LoggerMoves
  <2>3. TimerInv'  BY <1>2, <2>1, TimerMoves
  <2>. QED  BY <1>2, <2>2, <2>3 DEF LoggersInv
<1>3. CASE running' = running /\ running = "filing" /\ Audit(TRUE, FALSE, MaxFileFaults)!Next
  <2>1. LoggerInv(FALSE)  BY <1>3 DEF LoggersInv
  <2>2. LoggerInv(FALSE)'  BY <1>3, <2>1, LoggerMoves
  <2>. QED  BY <1>3, <2>2 DEF LoggersInv
<1>4. CASE running' = running /\ running = "timely" /\ Audit(FALSE, TRUE, 0)!Next
  <2>1. LoggerInv(TRUE) /\ Apart  BY <1>4 DEF LoggersInv
  <2>2. LoggerInv(TRUE)'  BY <1>4, <2>1, LoggerMoves
  <2>3. Apart'  BY <1>4, <2>1, ApartMoves
  <2>. QED  BY <1>4, <2>2, <2>3 DEF LoggersInv
<1>5. CASE running' = running /\ running \in {"gate", "queue", "query", "matrix"}
  BY <1>5 DEF LoggersInv
<1>. QED  BY <1>1, <1>2, <1>3, <1>4, <1>5 DEF ServicesNext, all, LoggersInv

LEMMA LoggersInvariant == ServicesSpec => []LoggersInv
<1>. QED  BY LoggersInit, LoggersMove, PTL DEF ServicesSpec

\* What is kept is all that was logged, and no more.
LEMMA NothingLost ==
  ASSUME NEW x, NEW atomic \in BOOLEAN, NEW m, LoggerInv(atomic)
  PROVE  Audit(x, atomic, m)!NoEventLost
<1>. SUFFICES ASSUME atomic \/ ~overlap
              PROVE  1 .. logged = Audit(x, atomic, m)!Elems(buffer) \cup Audit(x, atomic, m)!Taken
                                     \cup Audit(x, atomic, m)!Elems(log) \cup trimmed
  BY DEF Audit!NoEventLost
<1>1. /\ Audit(x, atomic, m)!Elems(buffer) = In(buffer) /\ Audit(x, atomic, m)!Elems(log) = In(log)
      /\ Audit(x, atomic, m)!Taken = UNION {Rest(t) : t \in Loggers}
  BY DEF Audit!Elems, Audit!Taken, In, Rest, Left
<1>2. In(buffer) \subseteq 1 .. logged /\ In(log) \subseteq 1 .. logged /\ trimmed \subseteq 1 .. logged
  BY DEF LoggerInv, LoggerTyped
<1>3. ASSUME NEW t \in Loggers  PROVE Rest(t) \subseteq 1 .. logged
  <2>1. batch[t] \in Seq(Nat) /\ done[t] \in Nat /\ In(batch[t]) \subseteq 1 .. logged
    BY DEF LoggerInv, LoggerTyped
  <2>. QED  BY <2>1, LeftOver DEF Rest
<1>4. \A e \in 1 .. logged : Kept(e)  BY DEF LoggerInv
<1>. QED  BY <1>1, <1>2, <1>3, <1>4 DEF Kept

\* An event that was logged waits with a timer that will flush it, is in the hands of a flush,
\* is stored or was trimmed, whatever storage calls fail, and the file adapter loses one only
\* when two flushes overlap; without a failure none is stored twice (AuditLogger.log, flush).
THEOREM EventsAlwaysKept == ServicesSpec => []EventsKept
<1>1. LoggersInv => EventsKept
  <2>. SUFFICES ASSUME LoggersInv PROVE EventsKept  OBVIOUS
  <2>1. ASSUME running = "failing"
        PROVE  /\ Audit(FALSE, TRUE, MaxFaults)!NoEventLost
               /\ Audit(FALSE, TRUE, MaxFaults)!WaitingIsTriggered
    <3>1. LoggerInv(TRUE) /\ TimerInv  BY <2>1 DEF LoggersInv
    <3>. QED  BY <3>1, NothingLost DEF TimerInv, Audit!WaitingIsTriggered
  <2>2. ASSUME running = "filing"  PROVE Audit(TRUE, FALSE, MaxFileFaults)!NoEventLost
    <3>1. LoggerInv(FALSE)  BY <2>2 DEF LoggersInv
    <3>. QED  BY <3>1, NothingLost
  <2>3. ASSUME running = "timely"  PROVE Audit(FALSE, TRUE, 0)!StoredOnce
    BY <2>3 DEF LoggersInv, Apart, Inj, Audit!StoredOnce
  <2>. QED  BY <2>1, <2>2, <2>3 DEF EventsKept
<1>. QED  BY <1>1, LoggersInvariant, PTL

-----------------------------------------------------------------------------
(* The stored log.                                                         *)

\* The log is the end of what was logged, as much of it as is kept.
Newest ==
  /\ history \in Seq(Query!Event) /\ log \in Seq(Query!Event)
  /\ Len(log) = (IF Len(history) <= QueryEvents THEN Len(history) ELSE QueryEvents)
  /\ \A i \in 1 .. Len(log) : log[i] = history[Len(history) - Len(log) + i]

LEMMA NewestMoves ==
  ASSUME Newest, Query!Next
  PROVE  Newest'
<1>0. QueryEvents \in Nat \ {0}  BY QueryAssumption DEF Query!AuditQueryAssumption
<1>1. PICK e \in Query!Event :
        log' = Query!Newest(Append(log, e)) /\ history' = Append(history, e)
  BY DEF Query!Next, Query!logAuditEvent
<1>. DEFINE long == Append(log, e)
            n    == Len(log)
            h    == Len(history)
<1>2. /\ n \in Nat /\ h \in Nat /\ n <= h /\ n <= QueryEvents
      /\ history' \in Seq(Query!Event) /\ Len(history') = h + 1 /\ history'[h + 1] = e
      /\ \A i \in 1 .. h : history'[i] = history[i]
      /\ long \in Seq(Query!Event) /\ Len(long) = n + 1 /\ long[n + 1] = e
      /\ \A i \in 1 .. n : long[i] = log[i]
  BY <1>0, <1>1 DEF Newest
<1>. HIDE DEF long
<1>3. \A i \in 1 .. n + 1 : long[i] = history'[h + 1 - (n + 1) + i]
  <2>. SUFFICES ASSUME NEW i \in 1 .. n + 1 PROVE long[i] = history'[h + 1 - (n + 1) + i]  OBVIOUS
  <2>1. CASE i = n + 1  BY <1>2, <2>1
  <2>2. CASE i # n + 1
    <3>1. i \in 1 .. n /\ h - n + i \in 1 .. h /\ h + 1 - (n + 1) + i = h - n + i  BY <1>2, <2>2
    <3>2. long[i] = log[i] /\ log[i] = history[h - n + i]  BY <1>2, <3>1 DEF Newest
    <3>. QED  BY <1>2, <3>1, <3>2
  <2>. QED  BY <2>1, <2>2
<1>4. log' = Query!Newest(long)  BY <1>1 DEF long
<1>5. CASE n + 1 <= QueryEvents
  <2>1. Len(long) <= QueryEvents  BY <1>2, <1>5
  <2>2. log' = long  BY <1>4, <2>1 DEF Query!Newest
  <2>3. n = h  BY <1>0, <1>2, <1>5 DEF Newest
  <2>. QED  BY <1>0, <1>2, <1>3, <1>5, <2>2, <2>3 DEF Newest
<1>6. CASE ~(n + 1 <= QueryEvents)
  <2>1. n = QueryEvents /\ log' = SubSeq(long, 2, n + 1)
    <3>1. n = QueryEvents  BY <1>0, <1>2, <1>6
    <3>2. ~(Len(long) <= QueryEvents)  BY <1>2, <1>6
    <3>3. log' = SubSeq(long, Len(long) - QueryEvents + 1, Len(long))
      BY <1>4, <3>2 DEF Query!Newest
    <3>4. Len(long) - QueryEvents + 1 = 2  BY <1>2, <3>1
    <3>. QED  BY <1>2, <3>1, <3>3, <3>4
  <2>2. /\ log' \in Seq(Query!Event) /\ Len(log') = n
        /\ \A i \in 1 .. n : log'[i] = long[i + 1]
    BY <1>2, <2>1
  <2>3. \A i \in 1 .. n : log'[i] = history'[h + 1 - n + i]
    <3>. SUFFICES ASSUME NEW i \in 1 .. n PROVE log'[i] = history'[h + 1 - n + i]  OBVIOUS
    <3>1. i + 1 \in 1 .. n + 1 /\ h + 1 - (n + 1) + (i + 1) = h + 1 - n + i  BY <1>2
    <3>. QED  BY <1>3, <2>2, <3>1
  <2>4. ~(h + 1 <= QueryEvents)  BY <1>0, <1>2, <2>1
  <2>5. Len(history') = h + 1 /\ Len(log') = QueryEvents  BY <1>2, <2>1, <2>2
  <2>6. \A i \in 1 .. Len(log') : log'[i] = history'[Len(history') - Len(log') + i]
    <3>1. Len(log') = n /\ Len(history') - Len(log') = h + 1 - n  BY <1>2, <2>1, <2>5
    <3>. QED  BY <2>3, <3>1
  <2>. QED  BY <1>2, <2>2, <2>4, <2>5, <2>6 DEF Newest
<1>. QED  BY <1>5, <1>6

\* The recent events are the last that were logged.
LEMMA RecentAreLast == Newest => Query!KeepsNewest
<1>0. QueryEvents \in Nat \ {0}  BY QueryAssumption DEF Query!AuditQueryAssumption
<1>. SUFFICES ASSUME Newest, NEW n \in 1 .. QueryEvents, n <= Len(history)
              PROVE  Query!getRecentAuditEvents(n) =
                       Query!Reverse(SubSeq(history, Len(history) - n + 1, Len(history)))
  BY DEF Query!KeepsNewest
<1>. DEFINE h    == Len(history)
            last == SubSeq(history, h - n + 1, h)
            l    == Len(log)
<1>1. /\ h \in Nat /\ l \in Nat /\ n \in Nat /\ n # 0 /\ n <= l /\ l <= h
      /\ history \in Seq(Query!Event) /\ log \in Seq(Query!Event)
  BY <1>0 DEF Newest
<1>2. last \in Seq(Query!Event) /\ Len(last) = n /\ \A i \in 1 .. n : last[i] = history[h - n + i]
  BY <1>1
<1>. DEFINE recent == IF n = 0 \/ n >= l THEN log ELSE SubSeq(log, l - n + 1, l)
<1>3. recent \in Seq(Query!Event) /\ Len(recent) = n /\ \A i \in 1 .. n : recent[i] = log[l - n + i]
  <2>1. CASE n >= l
    <3>1. n = l /\ recent = log  BY <1>1, <2>1
    <3>. QED  BY <1>1, <3>1
  <2>2. CASE ~(n >= l)
    <3>1. recent = SubSeq(log, l - n + 1, l)  BY <1>1, <2>2
    <3>. QED  BY <1>1, <2>2, <3>1
  <2>. QED  BY <2>1, <2>2
<1>4. \A i \in 1 .. n : recent[i] = last[i]
  <2>. SUFFICES ASSUME NEW i \in 1 .. n PROVE recent[i] = last[i]  OBVIOUS
  <2>1. l - n + i \in 1 .. l /\ h - l + (l - n + i) = h - n + i  BY <1>1
  <2>2. log[l - n + i] = history[h - l + (l - n + i)]  BY <1>1, <2>1 DEF Newest
  <2>. QED  BY <1>2, <1>3, <2>1, <2>2
<1>. HIDE DEF recent, last
<1>5. recent = last
  <2>1. recent = [i \in 1 .. n |-> recent[i]] /\ last = [i \in 1 .. n |-> last[i]]  BY <1>2, <1>3
  <2>. QED  BY <1>4, <2>1
<1>. QED  BY <1>5 DEF Query!getRecentAuditEvents, recent, last

\* Cutting the log never drops an event before an older one, and the recent events are its
\* end: for every size of the log and any events (logAuditEvent, getRecentAuditEvents).
THEOREM NewestAlwaysKept == ServicesSpec => [](running = "query" => Query!KeepsNewest)
<1>. DEFINE I == running = "query" => Newest
<1>1. ServicesInit => I
  <2>. SUFFICES ASSUME ServicesInit PROVE Newest  OBVIOUS
  <2>1. log = <<>> /\ history = <<>>  BY DEF ServicesInit, Audit!Init
  <2>2. QueryEvents \in Nat  BY QueryAssumption DEF Query!AuditQueryAssumption
  <2>. QED  BY <2>1, <2>2 DEF Newest
<1>2. I /\ [ServicesNext]_all => I'
  <2>. SUFFICES ASSUME I, [ServicesNext]_all, running' = "query" PROVE Newest'  OBVIOUS
  <2>1. CASE running = "query" /\ Query!Next  BY <2>1, NewestMoves
  <2>2. CASE running = "query" /\ UNCHANGED <<log, history>>
    <3>1. log' = log /\ history' = history /\ Newest  BY <2>2
    <3>. QED  BY <3>1 DEF Newest
  <2>. QED  BY <2>1, <2>2 DEF ServicesNext, all, auditVars
<1>3. I => (running = "query" => Query!KeepsNewest)  BY RecentAreLast
<1>. QED  BY <1>1, <1>2, <1>3, PTL DEF ServicesSpec
=============================================================================
