------------------------ MODULE AdminUserRepository ------------------------
(***************************************************************************)
(* AdminUserRepository (src/src/admin-user-repository/repository.ts): the  *)
(* accounts file with a lookup cache in front of it.  A mutator reads the  *)
(* whole file, changes its copy, replaces the file and clears the cache; a *)
(* lookup that misses reads the file and fills the cache after its await.  *)
(* "Callers still own serialization of read/modify/write": Serialized says *)
(* whether they do.  Lookups never take part in it.                        *)
(***************************************************************************)
EXTENDS Naturals, FiniteSets

CONSTANTS
  Handles, Clients, Nobody,
  Serialized,  \* callers hold a lock of theirs across each mutator
  Careful,     \* callers neither undo a soft delete through update nor create
               \* an account for a GitHub id that is linked already
  GitHubIds,   \* GitHub accounts; 0 is none
  Keys,        \* the handles and ids that are looked up
  Ids,         \* bound: account ids
  MaxFaults    \* bound: writes that fail

RepositoryAssumption ==
  /\ Nobody \notin Clients /\ Serialized \in BOOLEAN /\ Careful \in BOOLEAN
  /\ Keys \subseteq Handles \cup Ids /\ 0 \notin GitHubIds /\ MaxFaults \in Nat

VARIABLES
  file,    \* the accounts stored
  cache,   \* what each handle: or id: key is cached as, at most one account
  lock,    \* whose mutator runs, when callers serialize
  at,      \* idle, looking (its read is done), checked, read, renamed
  ask,     \* the operation: [op, key, value]
  list,    \* the accounts it has read, changed for a mutator
  late,    \* a write has returned since this lookup read the file
  old,     \* keys cached by a lookup that was late
  faults

vars == <<file, cache, lock, at, ask, list, late, old, faults>>

Accounts == [id : Ids, handle : Handles, password : 0 .. 1, active : BOOLEAN,
             githubId : GitHubIds \cup {0}]
Changes  == {"password", "delete", "activate", "linkGitHub", "unlinkGitHub"}
Asks     == [op : {"find", "create", "deletePermanently"} \cup Changes, key : Handles \cup Ids,
             value : Ids \cup GitHubIds \cup {0}]
NoAsk    == [op |-> "find", key |-> CHOOSE k \in Handles : TRUE, value |-> 0]

TypeOK ==
  /\ file \in SUBSET Accounts /\ late \in [Clients -> BOOLEAN] /\ old \in SUBSET Keys
  /\ cache \in [Keys -> SUBSET Accounts]
  /\ lock \in Clients \cup {Nobody}
  /\ at \in [Clients -> {"idle", "looking", "checked", "read", "renamed"}]
  /\ ask \in [Clients -> Asks]
  /\ list \in [Clients -> SUBSET Accounts]
  /\ faults \in 0 .. MaxFaults

Init ==
  /\ file = {} /\ cache = [k \in Keys |-> {}] /\ lock = Nobody /\ old = {}
  /\ at = [c \in Clients |-> "idle"] /\ ask = [c \in Clients |-> NoAsk]
  /\ list = [c \in Clients |-> {}] /\ late = [c \in Clients |-> FALSE] /\ faults = 0

-----------------------------------------------------------------------------
(* Lookups                                                                 *)

\* findByHandle skips inactive accounts, findById does not
Matching(S, k) == {u \in S : (u.handle = k /\ u.active) \/ u.id = k}

\* findByHandle, findById, and verifyPassword and needsFirstLoginSetup through
\* them: a hit answers at once, a miss reads the file
Lookup(c, k) ==
  /\ at[c] = "idle" /\ cache[k] = {}
  /\ at' = [at EXCEPT ![c] = "looking"]
  /\ ask' = [ask EXCEPT ![c] = [op |-> "find", key |-> k, value |-> 0]]
  /\ list' = [list EXCEPT ![c] = Matching(file, k)]
  /\ UNCHANGED <<file, cache, lock, late, old, faults>>

\* the lookup goes on after its read and caches what it read
Fill(c) ==
  /\ at[c] = "looking"
  /\ IF list[c] = {} THEN UNCHANGED <<cache, old>>
     ELSE /\ \E u \in list[c] : cache' = [cache EXCEPT ![ask[c].key] = {u}]
          /\ old' = IF late[c] THEN old \cup {ask[c].key} ELSE old \ {ask[c].key}
  /\ late' = [late EXCEPT ![c] = FALSE]
  /\ at' = [at EXCEPT ![c] = "idle"]
  /\ ask' = [ask EXCEPT ![c] = NoAsk]
  /\ list' = [list EXCEPT ![c] = {}]
  /\ UNCHANGED <<file, lock, faults>>

\* cacheTtl has passed, or clearCache: the key will be read again
Forget(k) ==
  /\ cache[k] # {} /\ cache' = [cache EXCEPT ![k] = {}] /\ old' = old \ {k}
  /\ UNCHANGED <<file, lock, at, ask, list, late, faults>>

-----------------------------------------------------------------------------
(* Mutators                                                                *)

Enter(c) == at[c] = "idle" /\ (Serialized => lock = Nobody) /\ lock' = c

Leave(c) ==
  /\ at' = [at EXCEPT ![c] = "idle"]
  /\ ask' = [ask EXCEPT ![c] = NoAsk]
  /\ list' = [list EXCEPT ![c] = {}]
  /\ lock' = IF lock = c THEN Nobody ELSE lock

Begin(c, a, S) ==
  /\ Enter(c)
  /\ at' = [at EXCEPT ![c] = "read"]
  /\ ask' = [ask EXCEPT ![c] = a]
  /\ list' = [list EXCEPT ![c] = S]
  /\ UNCHANGED <<file, cache, late, old, faults>>

\* fault: only active accounts keep their handle
HandleFreeIfDeleted(h) == \A u \in file : u.handle = h => ~u.active

HandleFree(h) == \A u \in file : u.handle # h

\* create and createStoredUser: a handle nobody has, active or not
create(c) ==
  \E h \in Handles, i \in {j \in Ids : \A u \in file : u.id # j},
     g \in GitHubIds \cup {0} :
    /\ HandleFree(h)
    /\ (Careful /\ g # 0) => \A u \in file : u.githubId # g
    /\ Begin(c, [op |-> "create", key |-> h, value |-> i],
             file \cup {[id |-> i, handle |-> h, password |-> 0, active |-> TRUE,
                         githubId |-> g]})

Changed(u, op, v) ==
  CASE op = "password" -> [u EXCEPT !.password = 1 - @]
    [] op = "delete" -> [u EXCEPT !.active = FALSE]
    [] op = "activate" -> [u EXCEPT !.active = TRUE]
    [] op = "linkGitHub" -> [u EXCEPT !.githubId = v]
    [] op = "unlinkGitHub" -> [u EXCEPT !.githubId = 0]

With(S, i, op, v) == {IF u.id = i THEN Changed(u, op, v) ELSE u : u \in S}

\* update, and updatePassword, delete and unlinkGitHub through it
update(c) ==
  \E u \in file, op \in {"password", "delete", "unlinkGitHub"}
                        \cup (IF Careful THEN {} ELSE {"activate"}) :
    Begin(c, [op |-> op, key |-> u.id, value |-> 0], With(file, u.id, op, 0))

deletePermanently(c) ==
  \E u \in file :
    Begin(c, [op |-> "deletePermanently", key |-> u.id, value |-> 0], file \ {u})

\* fault: linkGitHub does not ask who has the GitHub account
LinkUnchecked(c) ==
  \E u \in file, g \in GitHubIds :
    /\ Enter(c)
    /\ at' = [at EXCEPT ![c] = "checked"]
    /\ ask' = [ask EXCEPT ![c] = [op |-> "linkGitHub", key |-> u.id, value |-> g]]
    /\ UNCHANGED <<file, cache, list, late, old, faults>>

\* linkGitHub: no other active account may have it
linkGitHub(c) ==
  \E u \in file, g \in GitHubIds :
    /\ \A o \in file : (o.githubId = g /\ o.active) => o.id = u.id
    /\ Enter(c)
    /\ at' = [at EXCEPT ![c] = "checked"]
    /\ ask' = [ask EXCEPT ![c] = [op |-> "linkGitHub", key |-> u.id, value |-> g]]
    /\ UNCHANGED <<file, cache, list, late, old, faults>>

\* and then update, which reads the file anew
LinkUpdate(c) ==
  /\ at[c] = "checked"
  /\ IF \E u \in file : u.id = ask[c].key
     THEN /\ at' = [at EXCEPT ![c] = "read"]
          /\ list' = [list EXCEPT ![c] = With(file, ask[c].key, ask[c].op, ask[c].value)]
          /\ UNCHANGED <<lock, ask>>
     ELSE Leave(c)
  /\ UNCHANGED <<file, cache, late, old, faults>>

\* writeUsers: the new list replaces the file
Rename(c) ==
  /\ at[c] = "read"
  /\ file' = list[c]
  /\ at' = [at EXCEPT ![c] = "renamed"]
  /\ UNCHANGED <<cache, lock, ask, list, late, old, faults>>

Looking == {d \in Clients : at[d] = "looking"}

\* fault: the write does not touch the cache
ReturnWithoutClear(c) ==
  /\ at[c] = "renamed" /\ Leave(c)
  /\ late' = [d \in Clients |-> late[d] \/ d \in Looking]
  /\ UNCHANGED <<file, cache, old, faults>>

\* writeUsers' finally: the cache is cleared whether or not the syncs succeeded
ClearCache(c) ==
  /\ at[c] = "renamed" /\ Leave(c)
  /\ cache' = [k \in Keys |-> {}] /\ old' = {}
  /\ late' = [d \in Clients |-> late[d] \/ d \in Looking]
  /\ UNCHANGED <<file, faults>>

\* the temporary file cannot be written or renamed: the error path clears too
WriteFails(c) ==
  /\ at[c] = "read" /\ faults < MaxFaults /\ faults' = faults + 1
  /\ Leave(c) /\ cache' = [k \in Keys |-> {}] /\ old' = {} /\ UNCHANGED <<file, late>>

Next ==
  \/ \E c \in Clients :
       \/ \E k \in Keys : Lookup(c, k)
       \/ Fill(c) \/ create(c) \/ update(c) \/ deletePermanently(c)
       \/ linkGitHub(c) \/ LinkUpdate(c) \/ Rename(c) \/ ClearCache(c) \/ WriteFails(c)
  \/ \E k \in Keys : Forget(k)

Spec == Init /\ [][Next]_vars

-----------------------------------------------------------------------------
\* No two accounts, deleted ones included, ever share a handle or an id, also when
\* callers race and the last list written is the one kept (create, createStoredUser).
OneAccountPerHandle ==
  \A a, b \in file : (a.handle = b.handle \/ a.id = b.id) => a = b

\* With mutators serialized by careful callers, a GitHub account signs in as one
\* active administrator only (linkGitHub, findByGitHubId).
OneOwnerPerGitHub ==
  (Serialized /\ Careful) =>
    \A a, b \in file :
      (a.active /\ b.active /\ a.githubId = b.githubId /\ a.githubId # 0) => a = b

\* Once a write has returned, the cache never serves an account state the write
\* replaced, an old password or an account since deactivated, unless a lookup
\* had read it before the write returned (writeUsers' finally, findByHandle).
CacheForgetsReplaced ==
  (\A c \in Clients : at[c] # "renamed") => \A k \in Keys \ old : cache[k] \subseteq file

=============================================================================
