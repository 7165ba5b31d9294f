---------------------------- MODULE SecondFactor ----------------------------
(***************************************************************************)
(* The second factor of one user: TOTPService.verifyTokenWithStep          *)
(* (src/src/core/totp/index.ts) with the time step its caller stores, and  *)
(* the recovery codes of src/src/core/backup-codes/index.ts.  One call at  *)
(* a time, as under the auth gate; only the clock runs beside it.          *)
(***************************************************************************)
EXTENDS Integers, Sequences, FiniteSets

CONSTANTS
  Codes,       \* values a recovery code may have
  None,
  SetSize,     \* codes in a generated set
  Threshold,   \* shouldRegenerateCodes
  Window,      \* steps of skew otplib accepts on each side
  TicksInside, \* a step may begin between otplib's reading of the clock and the service's
  MaxStep,     \* bound: clock, in time steps
  MaxSets      \* bound: sets generated

SecondFactorAssumption ==
  /\ SetSize \in Nat \ {0} /\ Threshold \in Nat /\ Window \in Nat /\ TicksInside \in BOOLEAN
  /\ MaxStep \in Nat /\ MaxSets \in Nat \ {0} /\ None \notin Nat

VARIABLES
  clock,      \* system time in steps; only steps are told apart
  lastStep,   \* the consumed step the caller has stored
  codeSet,    \* the stored set: its number and its codes
  call,       \* the call under way
  accepted,   \* time step of a code -> times it was accepted
  redeemed,   \* the codes accepted from the set, in order
  remaining   \* what the last redemption answered

vars == <<clock, lastStep, codeSet, call, accepted, redeemed, remaining>>

Steps == 0 .. MaxStep + 2 * Window + 1
Stored == [hash : Codes, used : BOOLEAN]
Idle == [at |-> "idle"]

TypeOK ==
  /\ clock \in 0 .. MaxStep /\ lastStep \in Steps \cup {None}
  /\ codeSet.number \in 1 .. MaxSets /\ codeSet.codes \in [1 .. SetSize -> Stored]
  /\ call.at \in {"idle", "delta", "step", "persist", "redeem"}
  /\ accepted \in [Steps -> Nat] /\ redeemed \in Seq(Codes)
  /\ remaining \in 0 .. SetSize

-----------------------------------------------------------------------------
(* Recovery codes.                                                         *)

\* a person may write a code with or without its dash, in either case
Spelling == {"printed", "compact", "lower"}

hashBackupCode(c) == c.code

createBackupCodeSet(number, values) ==
  [number |-> number, codes |-> [i \in DOMAIN values |-> [hash |-> values[i], used |-> FALSE]]]

getRemainingCodesCount(set) == Cardinality({i \in DOMAIN set.codes : ~set.codes[i].used})

shouldRegenerateCodes(set) == getRemainingCodesCount(set) <= Threshold

Matches(set, c) == {i \in DOMAIN set.codes : set.codes[i].hash = hashBackupCode(c) /\ ~set.codes[i].used}

First(S) == CHOOSE i \in S : \A j \in S : i <= j

\* fault: the mark goes to another unused code
MarksAnother(set, c) ==
  LET unused == {i \in DOMAIN set.codes : ~set.codes[i].used} IN
  IF unused = {} \/ \A i \in DOMAIN set.codes : set.codes[i].hash # hashBackupCode(c)
  THEN [valid |-> FALSE, set |-> set]
  ELSE [valid |-> TRUE, set |-> [set EXCEPT !.codes[First(unused)].used = TRUE]]

\* fault: every code of the same value is marked
MarksAll(set, c) ==
  IF Matches(set, c) = {} THEN [valid |-> FALSE, set |-> set]
  ELSE [valid |-> TRUE, set |-> [set EXCEPT !.codes =
         [i \in DOMAIN @ |-> IF i \in Matches(set, c) THEN [@[i] EXCEPT !.used = TRUE] ELSE @[i]]]]

verifyBackupCode(set, c) ==
  IF Matches(set, c) = {} THEN [valid |-> FALSE, set |-> set]
  ELSE [valid |-> TRUE, set |-> [set EXCEPT !.codes[First(Matches(set, c))].used = TRUE]]

\* two codes of one set may be drawn equal
Drawn(number) == {createBackupCodeSet(number, v) : v \in [1 .. SetSize -> Codes]}

Init ==
  /\ clock = 0 /\ lastStep = None /\ codeSet \in Drawn(1) /\ call = Idle
  /\ accepted = [s \in Steps |-> 0] /\ redeemed = <<>>
  /\ remaining = SetSize

regenerate ==
  /\ call = Idle /\ codeSet.number < MaxSets /\ shouldRegenerateCodes(codeSet)
  /\ codeSet' \in Drawn(codeSet.number + 1) /\ remaining' = SetSize /\ redeemed' = <<>>
  /\ UNCHANGED <<clock, lastStep, call, accepted>>

getBackupCodes ==
  /\ call = Idle
  /\ \E c \in [code : Codes, spelling : Spelling] : call' = [at |-> "redeem", input |-> c, set |-> codeSet]
  /\ UNCHANGED <<clock, lastStep, codeSet, accepted, redeemed, remaining>>

saveBackupCodes ==
  /\ call.at = "redeem" /\ call' = Idle
  /\ LET result == verifyBackupCode(call.set, call.input) IN
     /\ codeSet' = (IF result.valid THEN result.set ELSE codeSet)
     /\ redeemed' = (IF result.valid THEN Append(redeemed, call.input.code) ELSE redeemed)
     /\ remaining' = getRemainingCodesCount(result.set)
  /\ UNCHANGED <<clock, lastStep, accepted>>

-----------------------------------------------------------------------------
(* One-time codes: a code is named by the step it was minted for.          *)

\* the person's device may be ahead of the server
Submit ==
  /\ call = Idle
  /\ \E m \in 0 .. clock + Window : call' = [at |-> "delta", minted |-> m, last |-> lastStep]
  /\ UNCHANGED <<clock, lastStep, codeSet, accepted, redeemed, remaining>>

\* otplib reads the clock and says how many steps away the code matched
getAuthenticatorCheckDelta ==
  /\ call.at = "delta"
  /\ call' = (IF call.minted - clock \in -Window .. Window
              THEN [at |-> "step", minted |-> call.minted, last |-> call.last, delta |-> call.minted - clock]
              ELSE Idle)
  /\ UNCHANGED <<clock, lastStep, codeSet, accepted, redeemed, remaining>>

\* fault: the distance is left out
CurrentStep(delta) == clock

\* currentStepFor reads the clock again
stepOf(delta) == clock + delta

\* fault: the step last consumed is accepted again
NotBefore(step, last) == last # None /\ step < last

isReplay(step, last) == last # None /\ step <= last

verifyTokenWithStep ==
  /\ call.at = "step"
  /\ LET step == stepOf(call.delta) IN
     call' = (IF isReplay(step, call.last) THEN Idle
              ELSE [at |-> "persist", minted |-> call.minted, step |-> step])
  /\ UNCHANGED <<clock, lastStep, codeSet, accepted, redeemed, remaining>>

Persist ==
  /\ call.at = "persist" /\ call' = Idle
  /\ lastStep' = call.step /\ accepted' = [accepted EXCEPT ![call.minted] = @ + 1]
  /\ UNCHANGED <<clock, codeSet, redeemed, remaining>>

Tick ==
  /\ clock < MaxStep /\ (call.at = "step" => TicksInside) /\ clock' = clock + 1
  /\ UNCHANGED <<lastStep, codeSet, call, accepted, redeemed, remaining>>

Next ==
  \/ regenerate \/ getBackupCodes \/ saveBackupCodes
  \/ Submit \/ getAuthenticatorCheckDelta \/ verifyTokenWithStep \/ Persist
  \/ Tick

Spec == Init /\ [][Next]_vars

-----------------------------------------------------------------------------
\* A one-time code is accepted once, however long it stays inside the accepted skew
\* (verifyTokenWithStep): the step derived for it is the step it was minted for.
CodeUsedOnce == \A s \in Steps : accepted[s] <= 1

\* The stored step covers every code accepted so far, whenever a step begins between
\* the two readings of the clock: a step derived late is never derived early, so no
\* older code becomes acceptable (getAuthenticatorCheckDelta, currentStepFor).
StoredCovers == \A s \in Steps : accepted[s] > 0 => lastStep # None /\ lastStep >= s

\* A recovery code is accepted at most as often as it was drawn in its set, in
\* whatever spelling it is entered (verifyBackupCode, hashBackupCode).
RedeemedAsDrawn ==
  \A c \in Codes : Cardinality({n \in DOMAIN redeemed : redeemed[n] = c}) <=
    Cardinality({i \in DOMAIN codeSet.codes : codeSet.codes[i].hash = c})

\* The number of codes left that the last answer gave is the size of the set less the
\* codes accepted from it, also when two codes of the set are equal.
RemainingCounts == remaining + Len(redeemed) = SetSize
=============================================================================
