-------------------------- MODULE BootstrapService --------------------------
(***************************************************************************)
(* BootstrapService (src/src/modules/bootstrap/index.ts): the creation of  *)
(* the first administrator over any storage adapter.  initiate hands out a *)
(* state, with a fresh secret and fresh recovery codes, that the           *)
(* application keeps; complete may be called with any state handed out,    *)
(* several times and by several tasks, and awaits storage at every step.   *)
(***************************************************************************)
EXTENDS Integers, FiniteSets

CONSTANTS
  Tasks, States, Handles, None,
  Serialized,  \* the application runs each call under one auth gate
  MaxAge,      \* the ten minutes a state lives
  MaxNow,      \* bound: clock
  MaxFaults    \* bound: storage calls that throw

ASSUME BootstrapServiceAssumption ==
  /\ Serialized \in BOOLEAN /\ MaxAge \in Nat /\ MaxNow \in Nat /\ MaxFaults \in Nat
  /\ None \notin Tasks \cup States \cup [handle : Handles, stamp : 0 .. MaxNow, step : {1, 2}]

VARIABLES
  given,     \* States -> what initiate returned; the state names its secret and codes
  at, using, \* each task: where it waits, the state it was given
  user,      \* each task: the id createUser returned to it
  users,     \* stored users
  totp,      \* Handles -> the state whose secret is stored
  codes,     \* user id -> the state whose recovery codes are stored
  told,      \* [state, user] pairs answered with success
  gate, now, faults

vars == <<given, at, using, user, users, totp, codes, told, gate, now, faults>>

Ids == 1 .. Cardinality(Tasks)
Waits == {"idle", "hasUsers", "initiating", "verify", "saveTOTP", "getTOTP", "createUser", "saveCodes", "audit"}

TypeOK ==
  /\ given \in [States -> [handle : Handles, stamp : 0 .. MaxNow, step : {1, 2}] \cup {None}]
  /\ at \in [Tasks -> Waits] /\ using \in [Tasks -> States \cup {None}]
  /\ user \in [Tasks -> Ids \cup {None}]
  /\ \A u \in users : u.id \in Ids /\ u.handle \in Handles /\ u.state \in States
  /\ totp \in [Handles -> States \cup {None}] /\ codes \in [Ids -> States \cup {None}]
  /\ \A p \in told : p.state \in States /\ p.user \in Ids
  /\ gate \in Tasks \cup {None} /\ now \in 0 .. MaxNow /\ faults \in 0 .. MaxFaults

Init ==
  /\ given = [s \in States |-> None] /\ at = [k \in Tasks |-> "idle"]
  /\ using = [k \in Tasks |-> None] /\ user = [k \in Tasks |-> None]
  /\ users = {} /\ totp = [h \in Handles |-> None] /\ codes = [i \in Ids |-> None]
  /\ told = {} /\ gate = None /\ now = 0 /\ faults = 0

-----------------------------------------------------------------------------
Enter(k, where, s) ==
  /\ at[k] = "idle" /\ (Serialized => gate = None)
  /\ gate' = (IF Serialized THEN k ELSE None)
  /\ at' = [at EXCEPT ![k] = where] /\ using' = [using EXCEPT ![k] = s]

Leave(k) ==
  /\ gate' = (IF gate = k THEN None ELSE gate) /\ at' = [at EXCEPT ![k] = "idle"]
  /\ using' = [using EXCEPT ![k] = None] /\ user' = [user EXCEPT ![k] = None]

Go(k, from, to) ==
  at[k] = from /\ at' = [at EXCEPT ![k] = to] /\ UNCHANGED <<using, gate, given, told, now, faults>>

handleOf(k) == given[using[k]].handle

getStatus(k) ==
  /\ Enter(k, "initiating", None) /\ users = {}
  /\ UNCHANGED <<given, user, users, totp, codes, told, now, faults>>

\* the password is hashed and the code image drawn before the state is stamped
initiate(k) ==
  /\ at[k] = "initiating" /\ Leave(k)
  /\ \E s \in States, h \in Handles :
       given[s] = None /\ given' = [given EXCEPT ![s] = [handle |-> h, stamp |-> now, step |-> 1]]
  /\ UNCHANGED <<users, totp, codes, told, now, faults>>

updateProfile(s) ==
  /\ given[s] # None /\ given[s].step = 1 /\ given' = [given EXCEPT ![s].step = 2]
  /\ UNCHANGED <<at, using, user, users, totp, codes, told, gate, now, faults>>

complete(k) ==
  /\ \E s \in States : given[s] # None /\ now - given[s].stamp <= MaxAge /\ Enter(k, "hasUsers", s)
  /\ UNCHANGED <<given, user, users, totp, codes, told, now, faults>>

\* fault: only a user of the same handle is in the way
SameHandleOnly(k) ==
  /\ at[k] = "hasUsers"
  /\ IF \E u \in users : u.handle = handleOf(k)
     THEN Leave(k) /\ UNCHANGED <<given, told, now, faults>>
     ELSE Go(k, "hasUsers", "verify") /\ UNCHANGED user
  /\ UNCHANGED <<users, totp, codes>>

hasUsers(k) ==
  /\ IF users # {}
     THEN at[k] = "hasUsers" /\ Leave(k) /\ UNCHANGED <<given, told, now, faults>>
     ELSE Go(k, "hasUsers", "verify") /\ UNCHANGED user
  /\ UNCHANGED <<users, totp, codes>>

verifyCode(k) ==
  \/ Go(k, "verify", "saveTOTP") /\ UNCHANGED <<user, users, totp, codes>>
  \/ at[k] = "verify" /\ Leave(k) /\ UNCHANGED <<given, users, totp, codes, told, now, faults>>

\* fault: a secret already stored for the handle is kept
SaveOnce(k) ==
  /\ Go(k, "saveTOTP", "getTOTP")
  /\ totp' = [totp EXCEPT ![handleOf(k)] = IF @ = None THEN using[k] ELSE @]
  /\ UNCHANGED <<user, users, codes>>

\* fault: the secret is left to a later step
SaveLater(k) == Go(k, "saveTOTP", "createUser") /\ UNCHANGED <<user, users, totp, codes>>

saveTOTPSecret(k) ==
  /\ Go(k, "saveTOTP", "getTOTP") /\ totp' = [totp EXCEPT ![handleOf(k)] = using[k]]
  /\ UNCHANGED <<user, users, codes>>

getTOTPSecret(k) ==
  Go(k, "getTOTP", "createUser") /\ totp[handleOf(k)] # None /\ UNCHANGED <<user, users, totp, codes>>

createUser(k) ==
  LET id == Cardinality(users) + 1 IN
  /\ Go(k, "createUser", "saveCodes")
  /\ users' = users \cup {[id |-> id, handle |-> handleOf(k), state |-> using[k]]}
  /\ user' = [user EXCEPT ![k] = id] /\ UNCHANGED <<totp, codes>>

saveBackupCodes(k) ==
  /\ Go(k, "saveCodes", "audit") /\ codes' = [codes EXCEPT ![user[k]] = using[k]]
  /\ UNCHANGED <<user, users, totp>>

Succeed(k) ==
  /\ at[k] = "audit" /\ told' = told \cup {[state |-> using[k], user |-> user[k]]}
  /\ Leave(k) /\ UNCHANGED <<given, users, totp, codes, now, faults>>

\* a storage call throws: the catch answers with an error and undoes nothing
Fail(k) ==
  /\ at[k] \in {"saveTOTP", "getTOTP", "createUser", "saveCodes", "audit"} /\ faults < MaxFaults
  /\ faults' = faults + 1 /\ Leave(k) /\ UNCHANGED <<given, users, totp, codes, told, now>>

Tick == now < MaxNow /\ now' = now + 1 /\ UNCHANGED <<given, at, using, user, users, totp, codes, told, gate, faults>>

Next ==
  \/ \E k \in Tasks :
       \/ getStatus(k) \/ initiate(k) \/ complete(k) \/ hasUsers(k) \/ verifyCode(k)
       \/ saveTOTPSecret(k) \/ getTOTPSecret(k) \/ createUser(k) \/ saveBackupCodes(k)
       \/ Succeed(k) \/ Fail(k)
  \/ \E s \in States : updateProfile(s)
  \/ Tick

Spec == Init /\ [][Next]_vars

-----------------------------------------------------------------------------
\* Whatever fails and whoever races, an administrator never exists without a stored
\* second factor: the secret is saved and read back before the user is created.
FactorBeforeUser == \A u \in users : totp[u.handle] # None

\* Under the gate the system has one first administrator however many states are
\* handed out and however often each is replayed (the hasUsers check of complete).
OneAdministrator == Serialized => Cardinality(users) <= 1

\* Under the gate the administrator's stored secret is the one of the state it was
\* created from: no replay, and no attempt that failed half way, replaces it.
OwnFactor == Serialized => \A u \in users : totp[u.handle] = u.state

\* The first administrator never exists without a factor and, under the gate, is the
\* only one and keeps the factor it was shown (complete).
FirstAdministrator == FactorBeforeUser /\ OneAdministrator /\ OwnFactor
=============================================================================
