--------------------------- MODULE MemorySessions ---------------------------
(***************************************************************************)
(* The same SessionManager over MemoryStorageAdapter's session map         *)
(* (src/src/storage/memory.ts).  A storage method has no await of its own, *)
(* so it is one step; the manager awaits it, and what it does next is a    *)
(* later step that acts on the answer it was given.                        *)
(***************************************************************************)
EXTENDS Integers, FiniteSets

CONSTANTS
  Users, Tasks, None,
  Fields, Values,  \* what session.user carries
  Strategy,        \* config.sessionStrategy
  MaxConcurrent,   \* config.maxConcurrentSessions
  SevenDays,       \* the adapter's session lifetime
  MaxAge,          \* the manager's config.maxAge
  Ids,             \* bound: session ids randomUUID may draw
  MaxNow           \* bound: clock

ASSUME MemorySessionsAssumption ==
  /\ Strategy \in {"single", "bounded"} /\ MaxConcurrent \in Nat \ {0}
  /\ SevenDays \in Nat /\ MaxAge \in Nat /\ MaxNow \in Nat /\ Ids \subseteq Nat

VARIABLES
  sessions,  \* the values of the adapter's map
  now,       \* the wall clock
  rest,      \* Task -> what it does when the storage call it awaits resolves
  ever       \* sessions that have been in the map: [id, userId]

vars == <<sessions, now, rest, ever>>

Profiles == [Fields -> Values]
Session  == [id : Ids, userId : Users, createdAt : 0 .. MaxNow,
             expires : 0 .. MaxNow + SevenDays + MaxAge, user : Profiles]
Rests    == [op : {"insert"}, userId : Users, user : Profiles]
              \cup [op : {"get", "refresh"}, found : Session]
              \cup [op : {"setUser"}, found : Session, field : Fields, value : Values]

TypeOK ==
  /\ sessions \in SUBSET Session /\ now \in 0 .. MaxNow
  /\ rest \in [Tasks -> Rests \cup {None}]
  /\ ever \in SUBSET [id : Ids, userId : Users]

Init == sessions = {} /\ now = 0 /\ rest = [k \in Tasks |-> None] /\ ever = {}

-----------------------------------------------------------------------------
(* memory.ts                                                               *)

newSession(i, u, p) ==
  [id |-> i, userId |-> u, createdAt |-> now, expires |-> now + SevenDays, user |-> p]

Older(a, b) == a.createdAt < b.createdAt \/ (a.createdAt = b.createdAt /\ a.id < b.id)

\* everybody else's sessions, the owner's newest unexpired ones, the new one
boundedSessions(s) ==
  LET own == {x \in sessions : x.userId = s.userId /\ x.expires > now}
  IN  {x \in sessions : x.userId # s.userId} \cup {s}
        \cup {x \in own : Cardinality({y \in own : Older(x, y)}) < MaxConcurrent - 1}

Fresh == Ids \ {s.id : s \in ever}

Insert(u, p, bounded) ==
  \E i \in Fresh :
    /\ sessions' = IF bounded THEN boundedSessions(newSession(i, u, p))
                   ELSE sessions \cup {newSession(i, u, p)}
    /\ ever' = ever \cup {[id |-> i, userId |-> u]}

Expired(s) == s.expires < now

deleteSession(i) == sessions' = {s \in sessions : s.id # i}

deleteUserSessions(u) == sessions' = {s \in sessions : s.userId # u}

\* fault: an id that is not in the map is set again
Upsert(new) == sessions' = {s \in sessions : s.id # new.id} \cup {new}

\* an id that is not in the map throws; the updates fall on the stored session
updateSession(new) ==
  sessions' = {IF s.id = new.id THEN new ELSE s : s \in sessions}

-----------------------------------------------------------------------------
(* core/session/index.ts                                                   *)

Await(k, what) == rest[k] = None /\ rest' = [rest EXCEPT ![k] = what]
Return(k) == rest' = [rest EXCEPT ![k] = None]

createSession(k, u, p) ==
  \/ Strategy = "bounded" /\ rest[k] = None /\ Insert(u, p, TRUE) /\ UNCHANGED <<now, rest>>
  \/ /\ Strategy = "single" /\ Await(k, [op |-> "insert", userId |-> u, user |-> p])
     /\ deleteUserSessions(u) /\ UNCHANGED <<now, ever>>

InsertAfterDelete(k) ==
  /\ rest[k] # None /\ rest[k].op = "insert"
  /\ Insert(rest[k].userId, rest[k].user, FALSE) /\ Return(k) /\ UNCHANGED now

\* storage.getSession forgets an expired session and answers null
Forget(k) ==
  /\ rest[k] = None /\ \E s \in sessions : Expired(s) /\ deleteSession(s.id)
  /\ UNCHANGED <<now, rest, ever>>

\* getSession, refreshSession, updateSessionUser: each awaits storage.getSession
Find(k) ==
  /\ \E s \in sessions :
       /\ ~Expired(s)
       /\ \/ \E op \in {"get", "refresh"} : Await(k, [op |-> op, found |-> s])
          \/ \E f \in Fields, v \in Values :
               Await(k, [op |-> "setUser", found |-> s, field |-> f, value |-> v])
  /\ UNCHANGED <<sessions, now, ever>>

\* the manager's own look at the expiry, which may have passed meanwhile
getSession(k) ==
  /\ rest[k] # None /\ rest[k].op # "insert"
  /\ Expired(rest[k].found) \/ rest[k].op = "get"
  /\ IF Expired(rest[k].found) THEN deleteSession(rest[k].found.id) ELSE UNCHANGED sessions
  /\ Return(k) /\ UNCHANGED <<now, ever>>

\* the stored session is replaced in one field; the rest of it is as it is now
Stored(s) == IF \E x \in sessions : x.id = s.id THEN CHOOSE x \in sessions : x.id = s.id ELSE s

refreshSession(k) ==
  /\ rest[k] # None /\ rest[k].op = "refresh" /\ ~Expired(rest[k].found)
  /\ updateSession([Stored(rest[k].found) EXCEPT !.expires = now + MaxAge])
  /\ Return(k) /\ UNCHANGED <<now, ever>>

\* the whole user object is written, from the session found before the await
updateSessionUser(k) ==
  /\ rest[k] # None /\ rest[k].op = "setUser" /\ ~Expired(rest[k].found)
  /\ updateSession([Stored(rest[k].found)
       EXCEPT !.user = [rest[k].found.user EXCEPT ![rest[k].field] = rest[k].value]])
  /\ Return(k) /\ UNCHANGED <<now, ever>>

removeSession(k) ==
  /\ rest[k] = None /\ \E s \in sessions : deleteSession(s.id)
  /\ UNCHANGED <<now, rest, ever>>

removeUserSessions(k) ==
  /\ rest[k] = None /\ \E u \in Users : deleteUserSessions(u)
  /\ UNCHANGED <<now, rest, ever>>

cleanupExpiredSessions(k) ==
  /\ rest[k] = None /\ sessions' = {s \in sessions : ~Expired(s)}
  /\ UNCHANGED <<now, rest, ever>>

\* the wall clock may be set to anything
ClockMoves == now' \in 0 .. MaxNow /\ UNCHANGED <<sessions, rest, ever>>

Next ==
  \/ \E k \in Tasks :
       \/ \E u \in Users, p \in Profiles : createSession(k, u, p)
       \/ InsertAfterDelete(k) \/ Forget(k) \/ Find(k) \/ getSession(k) \/ refreshSession(k)
       \/ updateSessionUser(k) \/ removeSession(k) \/ removeUserSessions(k)
       \/ cleanupExpiredSessions(k)
  \/ ClockMoves

Spec == Init /\ [][Next]_vars

-----------------------------------------------------------------------------
Contract == INSTANCE SessionContract
              WITH live <- {[id |-> s.id, userId |-> s.userId] : s \in sessions},
                   ever <- ever

\* The map keeps the contract of the session store too: a refresh or a profile update
\* that was waiting when its session was removed, replaced or evicted does not bring it
\* back, and a login costs nobody else a session (memory.ts, updateSession's lookup).
KeepsContract == Contract!Spec
=============================================================================
