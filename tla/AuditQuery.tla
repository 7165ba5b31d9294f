----------------------------- MODULE AuditQuery -----------------------------
(***************************************************************************)
(* The queries over the audit log of the two adapters                      *)
(* (src/src/storage/file.ts, src/src/storage/memory.ts) and the count of   *)
(* failed logins built on them (src/src/modules/audit/index.ts), for every *)
(* log and every page of a small world.  Events arrive in any order of     *)
(* time and the log keeps its newest entries.                              *)
(***************************************************************************)
EXTENDS Integers, SequencesExt

CONSTANTS
  None,
  MaxEvents,    \* the 10000 events a log keeps
  DefaultLimit, \* the 100 of the file adapter's getAuditEvents
  MaxTime,      \* bound: timestamps
  MaxLogged     \* bound: events ever logged

AuditQueryAssumption ==
  /\ MaxEvents \in Nat \ {0} /\ DefaultLimit \in Nat \ {0} /\ MaxTime \in Nat /\ MaxLogged \in Nat

VARIABLES log, logged   \* the stored events; every event ever logged

vars == <<log, logged>>

Event  == [type : {"LOGIN_FAILURE", "OTHER"}, time : 0 .. MaxTime, handle : {"ada", "bob"}]
Filter == [type : {"LOGIN_FAILURE", None}, start : (0 .. MaxTime) \cup {None}, end : (0 .. MaxTime) \cup {None}]

TypeOK == log \in BoundedSeq(Event, MaxEvents) /\ logged \in BoundedSeq(Event, MaxLogged)

-----------------------------------------------------------------------------
\* fault: the oldest event stays and the new one is dropped
DropsNewest(s) == SubSeq(s, 1, IF Len(s) < MaxEvents THEN Len(s) ELSE MaxEvents)

Newest(s) == IF Len(s) <= MaxEvents THEN s ELSE SubSeq(s, Len(s) - MaxEvents + 1, Len(s))

logAuditEvent(e) == log' = Newest(Append(log, e)) /\ logged' = Append(logged, e)

\* fault: an event at the start of the interval is left out
KeepsAfter(s, f) ==
  SelectSeq(s, LAMBDA e : /\ f.type  # None => e.type = f.type
                          /\ f.start # None => e.time > f.start
                          /\ f.end   # None => e.time <= f.end)

Filtered(s, f) ==
  SelectSeq(s, LAMBDA e : /\ f.type  # None => e.type = f.type
                          /\ f.start # None => e.time >= f.start
                          /\ f.end   # None => e.time <= f.end)

\* Array.slice(from, to) with 0 <= from
slice(s, from, to) == SubSeq(s, from + 1, IF to < Len(s) THEN to ELSE Len(s))

\* a limit of 0 counts as none given
fileEvents(f, limit, offset) ==
  slice(Filtered(log, f), offset, offset + (IF limit = 0 THEN DefaultLimit ELSE limit))

\* fault: the page is cut before the offset is taken
LimitFirst(f, limit, offset) ==
  LET cut == IF limit = 0 THEN Filtered(log, f) ELSE slice(Filtered(log, f), 0, limit)
  IN  slice(cut, offset, Len(cut))

memoryEvents(f, limit, offset) ==
  LET rest == slice(Filtered(log, f), offset, Len(log))
  IN  IF limit = 0 THEN rest ELSE slice(rest, 0, limit)

\* slice(-limit), reversed; slice(-0) is the whole log
getRecentAuditEvents(limit) ==
  Reverse(IF limit = 0 \/ limit >= Len(log) THEN log ELSE SubSeq(log, Len(log) - limit + 1, Len(log)))

getFailedLoginAttempts(events, handle) == Len(SelectSeq(events, LAMBDA e : e.handle = handle))

Init == log = <<>> /\ logged = <<>>
Next == Len(logged) < MaxLogged /\ \E e \in Event : logAuditEvent(e)
Spec == Init /\ [][Next]_vars

-----------------------------------------------------------------------------
\* The log is the newest part of what was logged, and the recent events are its end
\* in reverse: cutting the log never drops an event before an older one.
KeepsNewest ==
  \A n \in 1 .. MaxEvents : n <= Len(logged) =>
    getRecentAuditEvents(n) = Reverse(SubSeq(logged, Len(logged) - n + 1, Len(logged)))

AllPages(page(_)) == FoldLeft(LAMBDA s, n : s \o page(n), <<>>, [i \in 1 .. MaxEvents + 1 |-> i - 1])

\* Reading page by page gives every stored match once and in order, on both adapters
\* (offset and limit of getAuditEvents).
PagesCover ==
  \A f \in Filter, limit \in 1 .. 2 :
    /\ AllPages(LAMBDA n : fileEvents(f, limit, n * limit)) = Filtered(log, f)
    /\ AllPages(LAMBDA n : memoryEvents(f, limit, n * limit)) = Filtered(log, f)

\* A count of failed logins since a time counts the stored failures from that time on:
\* with the memory adapter always, with the file adapter while they fit the default page.
FailuresCounted ==
  \A start \in 0 .. MaxTime, h \in {"ada", "bob"} :
    LET f == [type |-> "LOGIN_FAILURE", start |-> start, end |-> None]
        stored == Cardinality({i \in DOMAIN log : /\ log[i].type = "LOGIN_FAILURE"
                                                  /\ log[i].time >= start /\ log[i].handle = h})
    IN  /\ getFailedLoginAttempts(memoryEvents(f, 0, 0), h) = stored
        /\ Len(Filtered(log, f)) <= DefaultLimit => getFailedLoginAttempts(fileEvents(f, 0, 0), h) = stored
=============================================================================
