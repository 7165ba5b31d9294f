------------------------------ MODULE AuthGate ------------------------------
(***************************************************************************)
(* The promise chains behind withReadyAuth and runContext                  *)
(* (src/src/storage/file-totp-enrollment.ts), and, without reentry, the    *)
(* queue of src/src/storage/action-step-up.ts.  A call is one invocation;  *)
(* it is chained behind the last call of the gate, or, when the code that  *)
(* makes it runs inside an active call, behind that call's last child.     *)
(* Recovery is a part of the operation here; a call made while a           *)
(* projection runs throws and chains nothing.                              *)
(***************************************************************************)
EXTENDS Naturals, Sequences

CONSTANTS
  Calls,
  Gate,       \* the gate's own chain
  Reentrant   \* TRUE: withReadyAuth; FALSE: queued

ASSUME AuthGateAssumption == Reentrant \in BOOLEAN /\ Gate \notin Calls

VARIABLES
  phase,   \* Call -> where it is
  chain,   \* the gate and each call's context -> the calls chained there
  entry,   \* the gate's tail is known: always, but queued deletes its map entry
  free,    \* calls that found no entry and wait for nobody
  awaits,  \* Call -> the nested calls its operation waits for
  tail     \* Call -> how long its chain was when it began to drain

vars == <<phase, chain, entry, free, awaits, tail>>

Phases == {"new", "queued", "running", "draining", "done"}

TypeOK ==
  /\ phase \in [Calls -> Phases] /\ chain \in [Calls \cup {Gate} -> Seq(Calls)]
  /\ entry \in BOOLEAN /\ free \in SUBSET Calls
  /\ awaits \in [Calls -> SUBSET Calls] /\ tail \in [Calls -> Nat]

Init ==
  /\ phase = [c \in Calls |-> "new"] /\ chain = [p \in Calls \cup {Gate} |-> <<>>]
  /\ entry = Reentrant /\ free = {} /\ awaits = [c \in Calls |-> {}] /\ tail = [c \in Calls |-> 0]

-----------------------------------------------------------------------------
\* context.active: until the call's chain has drained
active(c) == phase[c] \in {"running", "draining"}

Chained(c, p) ==
  /\ chain' = [chain EXCEPT ![p] = Append(@, c)]
  /\ entry' = TRUE /\ free' = (IF entry THEN free ELSE free \cup {c})

\* code without a context
Request(c) ==
  /\ phase[c] = "new" /\ phase' = [phase EXCEPT ![c] = "queued"]
  /\ Chained(c, Gate) /\ UNCHANGED <<awaits, tail>>

\* fault: the context is not looked up, every call waits for the gate
GateOnly(p) == Gate

\* code that outlives its context is back at the gate
contextOf(p) == IF active(p) THEN p ELSE Gate

\* code that runs in the context of p: its operation, which may await the nested call,
\* or a task the operation has started, which goes on when the operation has returned
withReadyAuth(c, p) ==
  /\ Reentrant /\ phase[c] = "new" /\ phase[p] \in {"running", "draining", "done"}
  /\ phase' = [phase EXCEPT ![c] = "queued"] /\ Chained(c, contextOf(p))
  /\ \/ UNCHANGED awaits
     \/ phase[p] = "running" /\ awaits' = [awaits EXCEPT ![p] = @ \cup {c}]
  /\ UNCHANGED tail

\* fault: children start at once, like the siblings of a Promise.all
AtOnce(c) ==
  \E p \in DOMAIN chain : \E i \in DOMAIN chain[p] :
    chain[p][i] = c /\ (p = Gate /\ i > 1 => phase[chain[p][i - 1]] = "done")

\* the call before it in its chain, if any, has settled, one way or the other
Turn(c) ==
  \E p \in DOMAIN chain : \E i \in DOMAIN chain[p] :
    chain[p][i] = c /\ ((i > 1 /\ c \notin free) => phase[chain[p][i - 1]] = "done")

Start(c) ==
  /\ phase[c] = "queued" /\ Turn(c) /\ phase' = [phase EXCEPT ![c] = "running"]
  /\ UNCHANGED <<chain, entry, free, awaits, tail>>

\* the operation resolves or rejects; the finally block looks at the context's tail
Return(c) ==
  /\ phase[c] = "running" /\ \A d \in awaits[c] : phase[d] = "done"
  /\ phase' = [phase EXCEPT ![c] = "draining"] /\ tail' = [tail EXCEPT ![c] = Len(chain[c])]
  /\ UNCHANGED <<chain, entry, free, awaits>>

Awaited(c) == tail[c] > 0 => phase[chain[c][tail[c]]] = "done"

\* fault: the tail is awaited once
ReleaseOnce(c) ==
  /\ phase[c] = "draining" /\ Awaited(c)
  /\ phase' = [phase EXCEPT ![c] = "done"] /\ UNCHANGED <<chain, entry, free, awaits, tail>>

\* a tail appended meanwhile is awaited too
Drain(c) ==
  /\ phase[c] = "draining" /\ Awaited(c) /\ tail[c] # Len(chain[c])
  /\ tail' = [tail EXCEPT ![c] = Len(chain[c])] /\ UNCHANGED <<phase, chain, entry, free, awaits>>

\* queued deletes its entry when nobody has come after it
Cleanup(c) == entry' = (entry /\ (Reentrant \/ chain[Gate][Len(chain[Gate])] # c))

Release(c) ==
  /\ phase[c] = "draining" /\ Awaited(c) /\ tail[c] = Len(chain[c])
  /\ phase' = [phase EXCEPT ![c] = "done"] /\ Cleanup(c) /\ UNCHANGED <<chain, free, awaits, tail>>

Step(c) == Start(c) \/ Return(c) \/ Drain(c) \/ Release(c)

Next == \E c \in Calls : Step(c) \/ Request(c) \/ \E p \in Calls : withReadyAuth(c, p)

Spec == Init /\ [][Next]_vars

\* Node runs every promise that is ready, and an operation ends when what it awaits has
FairSpec == Spec /\ \A c \in Calls : WF_vars(Step(c))

-----------------------------------------------------------------------------
\* Of the calls of one chain, the gate's or a context's, one is active at a time: root
\* requests never interleave, and siblings started together (Promise.all) run in turn.
OneAtATime ==
  \A p \in DOMAIN chain : \A i, j \in DOMAIN chain[p] :
    (active(chain[p][i]) /\ active(chain[p][j])) => i = j

\* A context is not released while a call chained to it has not settled, whenever it
\* was chained: with OneAtATime, only one request's operations run at any time.
HeldUntilDrained ==
  \A p \in Calls : \A i \in DOMAIN chain[p] : phase[chain[p][i]] # "done" => active(p)

\* The gate is exclusive: operations of two requests never run at the same time.
Exclusive == OneAtATime /\ HeldUntilDrained

\* Every call settles, nested ones that their caller awaits included: reentry does not
\* wait for the gate its own request holds ("nested async calls without deadlock").
CallsSettle == \A c \in Calls : phase[c] = "queued" ~> phase[c] = "done"
=============================================================================
