---------------------------- MODULE AuditLogger ----------------------------
(***************************************************************************)
(* AuditLogger (src/src/modules/audit/index.ts): events are buffered and   *)
(* flushed by a timer, by a critical event, by a full buffer or on close,  *)
(* into the bounded audit log of the storage adapter (file.ts).  A task is *)
(* a log call, a timer callback or close; every await ends a step.         *)
(***************************************************************************)
EXTENDS Naturals, Sequences, FiniteSets

CONSTANTS
  Tasks,
  HasExternal,    \* an externalLogger is configured
  AtomicStore,    \* logAuditEvent is one step (memory), not a read and a write (file)
  MaxBufferSize,  \* config.maxBufferSize
  MaxStored,      \* the adapter keeps this many events
  MaxEvents,      \* bound: events logged; they are 1..MaxEvents
  MaxFaults       \* bound: storage calls that fail

AuditAssumption ==
  /\ HasExternal \in BOOLEAN /\ AtomicStore \in BOOLEAN
  /\ MaxBufferSize \in Nat \ {0} /\ MaxStored \in Nat \ {0}
  /\ MaxEvents \in Nat /\ MaxFaults \in Nat

VARIABLES
  buffer,   \* events waiting, oldest first
  timer,    \* flushTimer: none, armed, or spent (fired, and the handle still there)
  at,       \* each task: idle, external, flush, write
  critical, \* the event a task awaits the external logger for is critical
  batch,    \* the events a flush has taken
  done,     \* how many of them it has written
  copy,     \* the log as the file adapter has read it
  log,      \* the stored log
  trimmed,  \* events the adapter has dropped as its oldest
  logged,   \* events logged so far
  failed,   \* a flush has failed and nothing was logged since
  overlap,  \* two flushes have been under way at once
  faults

flushing == <<batch, done, copy>>
ghosts   == <<trimmed, overlap>>
vars == <<buffer, timer, at, critical, flushing, log, ghosts, logged, failed, faults>>

Elems(s) == {s[i] : i \in DOMAIN s}
Events   == 1 .. MaxEvents

TypeOK ==
  /\ Elems(buffer) \subseteq Events /\ Elems(log) \subseteq Events /\ Len(log) <= MaxStored
  /\ timer \in {"none", "armed", "spent"}
  /\ at \in [Tasks -> {"idle", "external", "flush", "write"}] /\ critical \in [Tasks -> BOOLEAN]
  /\ \A t \in Tasks : Elems(batch[t]) \subseteq Events /\ done[t] \in 0 .. Len(batch[t])
  /\ trimmed \subseteq Events /\ logged \in 0 .. MaxEvents
  /\ failed \in BOOLEAN /\ overlap \in BOOLEAN /\ faults \in 0 .. MaxFaults

Init ==
  /\ buffer = <<>> /\ timer = "none" /\ at = [t \in Tasks |-> "idle"]
  /\ critical = [t \in Tasks |-> FALSE] /\ batch = [t \in Tasks |-> <<>>]
  /\ done = [t \in Tasks |-> 0] /\ copy = [t \in Tasks |-> <<>>]
  /\ log = <<>> /\ trimmed = {} /\ logged = 0 /\ failed = FALSE /\ overlap = FALSE
  /\ faults = 0

-----------------------------------------------------------------------------
Go(t, where) == at' = [at EXCEPT ![t] = where]

Overlaps(t) == \E u \in Tasks \ {t} : at[u] \in {"flush", "write"}

\* fault: the handle of the cleared timer is kept
TakeKeepsHandle(t, events) ==
  /\ batch' = [batch EXCEPT ![t] = events] /\ buffer' = <<>>
  /\ timer' = (IF timer = "none" THEN "none" ELSE "spent")
  /\ overlap' = (overlap \/ Overlaps(t)) /\ Go(t, "flush")

\* fault: the buffer is emptied when the flush ends
TakeLeavesBuffer(t, events) ==
  /\ batch' = [batch EXCEPT ![t] = events] /\ buffer' = events
  /\ timer' = "none"
  /\ overlap' = (overlap \/ Overlaps(t)) /\ Go(t, "flush")

\* flush up to its first await: take the buffer, clear the timer
Take(t, events) ==
  /\ batch' = [batch EXCEPT ![t] = events] /\ buffer' = <<>>
  /\ timer' = "none"
  /\ overlap' = (overlap \/ Overlaps(t)) /\ Go(t, "flush")

\* the end of log, in one step: arm the timer unless there is a handle, flush if
\* the event is critical or the buffer full; an empty buffer is not flushed
FinishLog(t, isCritical, events) ==
  IF events # <<>> /\ (isCritical \/ Len(events) >= MaxBufferSize) THEN Take(t, events)
  ELSE /\ buffer' = events /\ Go(t, "idle")
       /\ timer' = (IF timer = "none" THEN "armed" ELSE timer)
       /\ UNCHANGED <<batch, overlap>>

\* the event is buffered before anything is awaited
Log(t) ==
  /\ at[t] = "idle" /\ logged < MaxEvents
  /\ logged' = logged + 1 /\ failed' = FALSE
  /\ \E isCritical \in BOOLEAN :
       IF HasExternal
       THEN /\ buffer' = Append(buffer, logged + 1) /\ Go(t, "external")
            /\ critical' = [critical EXCEPT ![t] = isCritical]
            /\ UNCHANGED <<timer, batch, overlap>>
       ELSE FinishLog(t, isCritical, Append(buffer, logged + 1)) /\ UNCHANGED critical
  /\ UNCHANGED <<done, copy, log, trimmed, faults>>

\* the external logger answers or fails; its failure is only reported
External(t) ==
  /\ at[t] = "external" /\ FinishLog(t, critical[t], buffer)
  /\ critical' = [critical EXCEPT ![t] = FALSE]
  /\ UNCHANGED <<done, copy, log, trimmed, logged, failed, faults>>

\* the timer's callback: an empty buffer returns early and keeps the dead handle
TimerFires(t) ==
  /\ timer = "armed" /\ at[t] = "idle"
  /\ IF buffer # <<>> THEN Take(t, buffer)
     ELSE timer' = "spent" /\ UNCHANGED <<buffer, batch, at, overlap>>
  /\ UNCHANGED <<critical, done, copy, log, trimmed, logged, failed, faults>>

close(t) ==
  /\ at[t] = "idle" /\ buffer # <<>> /\ Take(t, buffer)
  /\ UNCHANGED <<critical, done, copy, log, trimmed, logged, failed, faults>>

Current(t) == batch[t][done[t] + 1]

\* logAuditEvent keeps the newest events
Trim(s) == SubSeq(s, IF Len(s) > MaxStored THEN Len(s) - MaxStored + 1 ELSE 1, Len(s))

Stored(t, s) ==
  /\ log' = Trim(Append(s, Current(t)))
  /\ trimmed' = trimmed \cup (Elems(Append(s, Current(t))) \ Elems(log'))
  /\ done' = [done EXCEPT ![t] = @ + 1]

\* logAuditEvent of an atomic adapter
StoreNext(t) ==
  /\ AtomicStore /\ at[t] = "flush" /\ done[t] < Len(batch[t]) /\ Stored(t, log)
  /\ UNCHANGED <<buffer, timer, at, critical, batch, copy, logged, failed, overlap, faults>>

\* logAuditEvent of the file adapter: read the list, then write it
ReadLog(t) ==
  /\ ~AtomicStore /\ at[t] = "flush" /\ done[t] < Len(batch[t])
  /\ copy' = [copy EXCEPT ![t] = log] /\ Go(t, "write")
  /\ UNCHANGED <<buffer, timer, critical, batch, done, log, trimmed, logged, failed, overlap, faults>>

WriteLog(t) ==
  /\ at[t] = "write" /\ Stored(t, copy[t])
  /\ copy' = [copy EXCEPT ![t] = <<>>] /\ Go(t, "flush")
  /\ UNCHANGED <<buffer, timer, critical, batch, logged, failed, overlap, faults>>

EndFlush(t) ==
  /\ batch' = [batch EXCEPT ![t] = <<>>] /\ copy' = [copy EXCEPT ![t] = <<>>]
  /\ done' = [done EXCEPT ![t] = 0] /\ Go(t, "idle")

Flushed(t) ==
  /\ at[t] = "flush" /\ done[t] = Len(batch[t]) /\ EndFlush(t)
  /\ UNCHANGED <<buffer, timer, critical, log, trimmed, logged, failed, overlap, faults>>

\* fault: a failed flush drops the event it failed on
FailDropsEvent(t) ==
  /\ at[t] \in {"flush", "write"} /\ done[t] < Len(batch[t])
  /\ faults < MaxFaults /\ faults' = faults + 1 /\ failed' = TRUE
  /\ buffer' = SubSeq(batch[t], done[t] + 2, Len(batch[t])) \o buffer /\ EndFlush(t)
  /\ UNCHANGED <<timer, critical, log, trimmed, logged, overlap>>

\* a storage call fails: every event goes back to the front, the written ones too
FlushFails(t) ==
  /\ at[t] \in {"flush", "write"} /\ done[t] < Len(batch[t])
  /\ faults < MaxFaults /\ faults' = faults + 1 /\ failed' = TRUE
  /\ buffer' = batch[t] \o buffer /\ EndFlush(t)
  /\ UNCHANGED <<timer, critical, log, trimmed, logged, overlap>>

TaskStep(t) ==
  External(t) \/ StoreNext(t) \/ ReadLog(t) \/ WriteLog(t) \/ Flushed(t)

Next ==
  \E t \in Tasks : Log(t) \/ TaskStep(t) \/ TimerFires(t) \/ close(t) \/ FlushFails(t)

\* Node runs what is queued and fires an armed timer; nobody has to log or close
Fairness == (\A t \in Tasks : WF_vars(TaskStep(t))) /\ WF_vars(\E t \in Tasks : TimerFires(t))

Spec     == Init /\ [][Next]_vars
FairSpec == Spec /\ Fairness

-----------------------------------------------------------------------------
Taken == UNION {{batch[t][i] : i \in done[t] + 1 .. Len(batch[t])} : t \in Tasks}

\* A logged event is buffered, in the hands of a flush, stored or trimmed as one
\* of the oldest: a failing storage call loses none, and the file adapter's
\* read and write lose one only when two flushes overlap (flush, logAuditEvent).
NoEventLost ==
  (AtomicStore \/ ~overlap) =>
    1 .. logged = Elems(buffer) \cup Taken \cup Elems(log) \cup trimmed

\* Without a failure no event is stored twice, whatever triggers flushes while
\* another one is under way (flush takes the buffer before its first await).
StoredOnce ==
  faults = 0 => \A i, j \in DOMAIN log : log[i] = log[j] => i = j

\* Without an external logger a waiting event always has a timer that
\* will flush it, unless a flush has failed since (log, flush): it does not
\* depend on somebody logging again.
WaitingIsTriggered ==
  (~HasExternal /\ buffer # <<>> /\ ~failed) =>
    timer = "armed"
=============================================================================
