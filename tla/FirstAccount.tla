---------------------------- MODULE FirstAccount ----------------------------
(***************************************************************************)
(* The first administrator and his second factor: BootstrapService over    *)
(* any storage adapter, under the names of its module; the coordinator of  *)
(* file-bootstrap.ts as the instance File, over stores of its own; and     *)
(* SecondFactor, with a clock that ticks at any time or not inside a       *)
(* verification.  The initial state chooses which of them a behaviour is   *)
(* about.                                                                  *)
(***************************************************************************)
EXTENDS BootstrapService

CONSTANTS
  TTL,          \* config.ttlMs of the coordinator
  MaxAttempts,  \* bound: attempts begun
  MaxWall,      \* bound: its clock
  MaxIoFaults,  \* bound: I/O calls that fail
  MaxCrashes,   \* bound: process or machine restarts
  Codes, SetSize, Threshold, Window, MaxStep, MaxSets   \* SecondFactor

VARIABLES journal, disk, admins, factor, backups, wall, begun, pc, req, rec, ready,
          shown, acked, receipts, created, ioFaults, crashes

fileVars == <<journal, disk, admins, factor, backups, created, wall, begun, pc, req, rec, ready,
              shown, acked, receipts, ioFaults, crashes>>

VARIABLES running, clock, lastStep, codeSet, call, accepted, redeemed, remaining

factorVars == <<clock, lastStep, codeSet, call, accepted, redeemed, remaining>>

File ==
  INSTANCE FileBootstrap
    WITH users <- admins, codes <- backups, now <- wall, faults <- ioFaults,
         MaxNow <- MaxWall, MaxFaults <- MaxIoFaults

\* a time step may begin between the two readings of the clock, if inside
Second(inside) == INSTANCE SecondFactor WITH TicksInside <- inside

ASSUME FileAssumption == File!BootstrapAssumption

ASSUME SecondAssumption == Second(TRUE)!SecondFactorAssumption

\* nobody has a factor to use
NoFactor ==
  /\ clock = 0 /\ lastStep = None /\ codeSet = {} /\ call = None /\ accepted = {}
  /\ redeemed = <<>> /\ remaining = 0

FactorsInit ==
  /\ Init /\ File!Init
  /\ \/ running \in {"bootstrap", "file"} /\ NoFactor
     \/ running = "ticking" /\ Second(TRUE)!Init
     \/ running = "steady" /\ Second(FALSE)!Init

FactorsNext ==
  /\ running' = running
  /\ \/ running = "bootstrap" /\ Next /\ UNCHANGED <<fileVars, factorVars>>
     \/ running = "file" /\ File!Next /\ UNCHANGED <<vars, factorVars>>
     \/ running = "ticking" /\ Second(TRUE)!Next /\ UNCHANGED <<vars, fileVars>>
     \/ running = "steady" /\ Second(FALSE)!Next /\ UNCHANGED <<vars, fileVars>>

FactorsSpec == FactorsInit /\ [][FactorsNext]_<<running, vars, fileVars, factorVars>>

-----------------------------------------------------------------------------
\* However attempts, crashes and retries interleave, an empty installation gets one
\* account from bootstrap, whose backup codes were shown and acknowledged, and nothing
\* creates one after it is applied (begin, acknowledgeBackupCodes, complete).
OneFirstAccount == File!OneAdministrator /\ File!AcknowledgedBeforeCreation

\* No journal a power loss could leave disowns what was projected, and a committed
\* bootstrap finds the stores as its own projection left them, so that recovery can
\* always finish it (apply, checkProjection).
RecoveryOwnsStores == File!ProjectionOwned /\ File!RecoveryNeverConflicts

\* What a browser was told survives a power loss: a secret and codes it was shown, and
\* the one receipt, which every journal that could be found replays (begin, complete).
ToldIsDurable == File!ShownIsDurable /\ File!ReceiptFrozen

\* A code is spent when it is accepted.  A one-time code is accepted once while the two
\* readings of the clock fall in one step, and whenever they fall the stored step covers
\* every code accepted; a recovery code is accepted as often as it was drawn, in any
\* spelling, and the count of those left is right (verifyTokenWithStep, verifyBackupCode).
CodesSpent ==
  /\ running = "steady" => Second(FALSE)!CodeUsedOnce
  /\ running = "ticking" =>
       Second(TRUE)!StoredCovers /\ Second(TRUE)!RedeemedAsDrawn /\ Second(TRUE)!RemainingCounts
=============================================================================
