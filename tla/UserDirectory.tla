---------------------------- MODULE UserDirectory ----------------------------
(***************************************************************************)
(* The handle functions of src/src/validation/handle-validator.ts over the *)
(* users of the memory adapter (src/src/storage/memory.ts: maps with an    *)
(* index by lower-cased handle, and a cascade when a user is deleted) or   *)
(* of the file adapter (src/src/storage/file.ts: admin-users.json is read, *)
(* changed and written back, with handles compared as they are spelled).   *)
(***************************************************************************)
EXTENDS Integers, FiniteSets

CONSTANTS
  Tasks, None,
  Handles,      \* [name, upper]: spellings in use
  Memory,       \* the memory adapter, not the file adapter
  Serialized,   \* the application runs each call under one auth gate
  MaxUsers      \* bound: users ever created

UserDirectoryAssumption ==
  /\ Memory \in BOOLEAN /\ Serialized \in BOOLEAN /\ MaxUsers \in Nat \ {0}
  /\ None \notin Tasks \cup (1 .. MaxUsers) \cup [handle : Handles, active : BOOLEAN]

VARIABLES
  users,      \* id -> [handle, active] or None
  byHandle,   \* memory: lower-cased handle -> id
  sessions, codes,  \* ids with sessions, with recovery codes
  totp,       \* lower-cased handle -> id whose secret is stored there
  at, op, next, gate,
  minted,     \* ids drawn so far
  removed,    \* ids whose removal was answered
  stale       \* ids validated although closed when the call began

vars == <<users, byHandle, sessions, codes, totp, at, op, next, gate, minted, removed, stale>>
credentials == <<sessions, codes, totp>>

Ids == 1 .. MaxUsers
Names == {h.name : h \in Handles}
Directory == [Ids -> [handle : Handles, active : BOOLEAN] \cup {None}]
Kinds == {"add", "remove", "rename", "suspend", "validate"}
Call(kind, h, i, closed) == [kind |-> kind, handle |-> h, id |-> i, closed |-> closed]

TypeOK ==
  /\ users \in Directory /\ next \in [Tasks -> Directory]
  /\ byHandle \in [Names -> Ids \cup {None}] /\ totp \in [Names -> Ids \cup {None}]
  /\ sessions \subseteq Ids /\ codes \subseteq Ids /\ minted \in 0 .. MaxUsers
  /\ at \in [Tasks -> {"idle", "lookup", "store", "write", "answer", "sessions", "totp", "codes"}]
  /\ gate \in Tasks \cup {None} /\ removed \subseteq Ids /\ stale \subseteq Ids

Init ==
  /\ users = [i \in Ids |-> None] /\ byHandle = [n \in Names |-> None] /\ sessions = {} /\ codes = {}
  /\ totp = [n \in Names |-> None] /\ at = [k \in Tasks |-> "idle"]
  /\ op = [k \in Tasks |-> None] /\ next = [k \in Tasks |-> users] /\ gate = None
  /\ minted = 0 /\ removed = {} /\ stale = {}

-----------------------------------------------------------------------------
Live == {i \in Ids : users[i] # None}
Closed == {i \in 1 .. minted : users[i] = None \/ ~users[i].active}

getUserByHandle(h) ==
  IF Memory
  THEN IF byHandle[h.name] # None /\ users[byHandle[h.name]] # None THEN byHandle[h.name] ELSE None
  ELSE LET S == {i \in Live : users[i].handle = h} IN
       IF S = {} THEN None ELSE CHOOSE i \in S : \A j \in S : i <= j

Leave(k) ==
  /\ at' = [at EXCEPT ![k] = "idle"] /\ op' = [op EXCEPT ![k] = None]
  /\ gate' = (IF gate = k THEN None ELSE gate)

\* a rename names the account it is for, every other call a handle
Begin(k) ==
  /\ at[k] = "idle" /\ (Serialized => gate = None)
  /\ gate' = (IF Serialized THEN k ELSE None) /\ at' = [at EXCEPT ![k] = "lookup"]
  /\ \E kind \in Kinds, h \in Handles, i \in Live \cup {None} :
       /\ ((kind = "rename") <=> (i # None)) /\ (kind = "add" => minted < MaxUsers)
       /\ op' = [op EXCEPT ![k] = Call(kind, h, i, Closed)]
  /\ UNCHANGED <<users, byHandle, credentials, next, minted, removed, stale>>

\* fault: a suspended user's password is checked as well
ProceedsSuspended(c) ==
  LET found == getUserByHandle(c.handle) IN
  CASE c.kind = "add" -> found = None
    [] c.kind = "rename" -> found \in {None, c.id}
    [] OTHER -> found # None

\* addHandle refuses a handle that exists, removeHandle and validateHandle one that
\* does not; an account with a stored secret is not renamed
Proceeds(c) ==
  LET found == getUserByHandle(c.handle) IN
  CASE c.kind = "add"      -> found = None
    [] c.kind = "rename"   -> found \in {None, c.id} /\ \A n \in Names : totp[n] # c.id
    [] c.kind = "validate" -> found # None /\ users[found].active
    [] OTHER               -> found # None

lookup(k) ==
  /\ at[k] = "lookup"
  /\ IF Proceeds(op[k])
     THEN /\ at' = [at EXCEPT ![k] = IF op[k].kind = "validate" THEN "answer" ELSE "store"]
          /\ op' = [op EXCEPT ![k].id = IF op[k].kind \in {"add", "rename"} THEN @
                                        ELSE getUserByHandle(op[k].handle)]
          /\ UNCHANGED gate
     ELSE Leave(k)
  /\ UNCHANGED <<users, byHandle, credentials, next, minted, removed, stale>>

\* verifyPassword against the user read before: right, or wrong
validateHandle(k) ==
  /\ at[k] = "answer" /\ Leave(k) /\ stale' \in {stale, stale \cup ({op[k].id} \cap op[k].closed)}
  /\ UNCHANGED <<users, byHandle, credentials, next, minted, removed>>

-----------------------------------------------------------------------------
(* the adapters                                                            *)

\* updateUser throws and deleteUser answers false for a user that is not there
Gone(c, all) == c.kind # "add" /\ all[c.id] = None

Changed(c, all, new) ==
  CASE c.kind = "add"     -> [all EXCEPT ![new] = [handle |-> c.handle, active |-> TRUE]]
    [] c.kind = "remove"  -> [all EXCEPT ![c.id] = None]
    [] c.kind = "rename"  -> [all EXCEPT ![c.id].handle = c.handle]
    [] OTHER              -> [all EXCEPT ![c.id].active = FALSE]

\* fault: the old key is dropped after the new one is set
SetThenDelete(c, new) ==
  CASE c.kind = "add"     -> [byHandle EXCEPT ![c.handle.name] = new]
    [] c.kind = "remove"  -> [byHandle EXCEPT ![users[c.id].handle.name] = None]
    [] c.kind = "rename"  -> [[byHandle EXCEPT ![c.handle.name] = c.id]
                                        EXCEPT ![users[c.id].handle.name] = None]
    [] OTHER              -> byHandle

\* fault: a rename keeps the old key
KeepsOldKey(c, new) ==
  CASE c.kind = "add"     -> [byHandle EXCEPT ![c.handle.name] = new]
    [] c.kind = "remove"  -> [byHandle EXCEPT ![users[c.id].handle.name] = None]
    [] c.kind = "rename"  -> [byHandle EXCEPT ![c.handle.name] = c.id]
    [] OTHER              -> byHandle

Indexed(c, new) ==
  CASE c.kind = "add"     -> [byHandle EXCEPT ![c.handle.name] = new]
    [] c.kind = "remove"  -> [byHandle EXCEPT ![users[c.id].handle.name] = None]
    [] c.kind = "rename"  -> [[byHandle EXCEPT ![users[c.id].handle.name] = None]
                                        EXCEPT ![c.handle.name] = c.id]
    [] OTHER              -> byHandle

Mint(c) == /\ c.kind = "add" => minted < MaxUsers
           /\ minted' = (IF c.kind = "add" THEN minted + 1 ELSE minted)

\* memory: one step, and a deletion goes on to its cascade
storeInMemory(k) ==
  /\ Memory /\ at[k] = "store" /\ ~Gone(op[k], users) /\ Mint(op[k])
  /\ users' = Changed(op[k], users, minted + 1) /\ byHandle' = Indexed(op[k], minted + 1)
  /\ IF op[k].kind = "remove"
     THEN /\ at' = [at EXCEPT ![k] = "sessions"]
          /\ op' = [op EXCEPT ![k].handle = users[op[k].id].handle] /\ UNCHANGED gate
     ELSE Leave(k)
  /\ UNCHANGED <<credentials, next, removed, stale>>

\* file: the document as it was read, with the change
readUsers(k) ==
  /\ ~Memory /\ at[k] = "store" /\ ~Gone(op[k], users) /\ Mint(op[k])
  /\ next' = [next EXCEPT ![k] = Changed(op[k], users, minted + 1)]
  /\ at' = [at EXCEPT ![k] = "write"]
  /\ UNCHANGED <<users, byHandle, credentials, op, gate, removed, stale>>

\* fault: an update of a user that is gone stores it
StoresAgain(k) ==
  /\ at[k] = "store" /\ Gone(op[k], users) /\ Leave(k)
  /\ users' = [users EXCEPT ![op[k].id] = [handle |-> op[k].handle, active |-> FALSE]]
  /\ UNCHANGED <<byHandle, credentials, next, minted, removed, stale>>

notFound(k) ==
  /\ at[k] = "store" /\ Gone(op[k], users) /\ Leave(k)
  /\ UNCHANGED <<users, byHandle, credentials, next, minted, removed, stale>>

writeUsers(k) ==
  /\ at[k] = "write" /\ users' = next[k] /\ next' = [next EXCEPT ![k] = [i \in Ids |-> None]]
  /\ removed' = (IF op[k].kind = "remove" THEN removed \cup {op[k].id} ELSE removed) /\ Leave(k)
  /\ UNCHANGED <<byHandle, credentials, minted, stale>>

deleteUserSessions(k) ==
  /\ at[k] = "sessions" /\ at' = [at EXCEPT ![k] = "totp"] /\ sessions' = sessions \ {op[k].id}
  /\ UNCHANGED <<users, byHandle, codes, totp, op, next, gate, minted, removed, stale>>

\* fault: the secret is looked for under the id
DeleteSecretOfId(k) ==
  /\ at[k] = "totp" /\ at' = [at EXCEPT ![k] = "codes"]
  /\ UNCHANGED <<users, byHandle, credentials, op, next, gate, minted, removed, stale>>

deleteTOTPSecret(k) ==
  /\ at[k] = "totp" /\ at' = [at EXCEPT ![k] = "codes"]
  /\ totp' = [totp EXCEPT ![op[k].handle.name] = None]
  /\ UNCHANGED <<users, byHandle, sessions, codes, op, next, gate, minted, removed, stale>>

deleteBackupCodes(k) ==
  /\ at[k] = "codes" /\ codes' = codes \ {op[k].id} /\ removed' = removed \cup {op[k].id} /\ Leave(k)
  /\ UNCHANGED <<users, byHandle, sessions, totp, next, minted, stale>>

\* the person logs in, or enrols a second factor; left out where no gate is held, as
\* only the properties under the gate are about credentials
Provision ==
  /\ Memory /\ Serialized /\ gate = None
  /\ \E i \in Live :
       \/ sessions' = sessions \cup {i} /\ UNCHANGED <<codes, totp>>
       \/ totp' = [totp EXCEPT ![users[i].handle.name] = i] /\ codes' = codes \cup {i} /\ UNCHANGED sessions
  /\ UNCHANGED <<users, byHandle, at, op, next, gate, minted, removed, stale>>

Next ==
  \/ \E k \in Tasks :
       \/ Begin(k) \/ lookup(k) \/ validateHandle(k) \/ storeInMemory(k) \/ readUsers(k) \/ notFound(k)
       \/ writeUsers(k) \/ deleteUserSessions(k) \/ deleteTOTPSecret(k) \/ deleteBackupCodes(k)
  \/ Provision

Spec == Init /\ [][Next]_vars

-----------------------------------------------------------------------------
\* Whoever races, the handle index of the memory adapter never answers with a user of
\* another handle (createUser, updateUser, deleteUser).
IndexSound ==
  \A n \in Names : byHandle[n] # None /\ users[byHandle[n]] # None => users[byHandle[n]].handle.name = n

\* A user whose removal was answered never comes back: an update that was under way
\* when it was deleted fails (updateUser of the memory adapter; the file adapter's
\* update would write the user back, so there the gate is needed).
RemovedStaysGone == \A i \in removed : users[i] = None

\* Nobody validates who was suspended or removed when the call began, even if the
\* handle is renamed or taken over while it runs (validateHandle).
ClosedNeverValidates == stale = {}

\* Under the gate every user is found by its own handle, and by it alone, through
\* renames that change only the case and handles that are used again.
FoundByHandle == Serialized => \A i \in Live : gate = None => getUserByHandle(users[i].handle) = i

\* Under the gate a deleted user leaves no session, no recovery codes and no secret
\* that the next holder of the handle would meet (deleteUser of the memory adapter).
NothingLeft ==
  Serialized /\ gate = None => sessions \cup codes \cup ({totp[n] : n \in Names} \ {None}) \subseteq Live
=============================================================================
