---------------------------- MODULE FixedTenant ----------------------------
(***************************************************************************)
(* Applications that share a tenant-scoped backend, each through the       *)
(* adapter of src/src/storage/fixedTenant.ts: it resolves its tenant id    *)
(* once, from candidate settings, and puts it in front of every call.      *)
(* Calls are promises: they reach the backend later, in any order.         *)
(***************************************************************************)
EXTENDS Integers, Sequences

CONSTANTS
  Apps, None,
  Uuids,       \* ids that are UUIDs, apart from their case
  Settings,    \* App -> its candidate values in order: "" | "junk" | [uuid, upper]
  Keys, Values \* what the backend stores for a tenant

Spelled == [uuid : Uuids, upper : BOOLEAN]

ASSUME FixedTenantAssumption ==
  Settings \in [Apps -> Seq([kind : {"empty", "junk"}] \cup [kind : {"uuid"}, id : Spelled])]

VARIABLES
  tenantId,   \* App -> the id its adapter puts in front of every call; None: refused
  calls,      \* the call of each app on its way to the backend
  backend,    \* id as the backend sees it -> Keys -> value
  wrote       \* uuid -> key -> the value last written by an app meant for it

vars == <<tenantId, calls, backend, wrote>>

TypeOK ==
  /\ tenantId \in [Apps -> Spelled \cup {None}]
  /\ backend \in [Spelled -> [Keys -> Values \cup {None}]]
  /\ wrote \in [Uuids -> [Keys -> Values \cup {None}]]
  /\ calls \in [Apps -> [tenant : Spelled, key : Keys, value : Values \cup {None}] \cup {None}]

Init ==
  /\ tenantId = [a \in Apps |-> None] /\ calls = [a \in Apps |-> None]
  /\ backend = [t \in Spelled |-> [k \in Keys |-> None]]
  /\ wrote = [u \in Uuids |-> [k \in Keys |-> None]]

-----------------------------------------------------------------------------
\* the value that decides: the first that is set
FirstSet(values, i) == values[i].kind # "empty" /\ \A j \in 1 .. i - 1 : values[j].kind = "empty"

\* fault: a value that is not a UUID is passed over
FirstUuid(values) ==
  LET good == SelectSeq(values, LAMBDA v : v.kind = "uuid") IN IF good = <<>> THEN None ELSE Head(good).id

\* refused when it is not a UUID, or when no value is set
resolveAuthTenantId(values) ==
  IF \E i \in DOMAIN values : FirstSet(values, i) /\ values[i].kind = "uuid"
  THEN values[CHOOSE i \in DOMAIN values : FirstSet(values, i)].id ELSE None

\* fault: the id is used as it is spelled
AsSpelled(id) == id

toLowerCase(id) == [id EXCEPT !.upper = FALSE]

createFixedTenantStorageAdapter(a) ==
  /\ tenantId[a] = None /\ resolveAuthTenantId(Settings[a]) # None
  /\ tenantId' = [tenantId EXCEPT ![a] = toLowerCase(resolveAuthTenantId(Settings[a]))]
  /\ UNCHANGED <<calls, backend, wrote>>

\* any method of the adapter that changes storage
delegate(a) ==
  /\ tenantId[a] # None /\ calls[a] = None
  /\ \E k \in Keys, v \in Values \cup {None} :
       calls' = [calls EXCEPT ![a] = [tenant |-> tenantId[a], key |-> k, value |-> v]]
  /\ UNCHANGED <<tenantId, backend, wrote>>

Perform(a) ==
  /\ calls[a] # None /\ calls' = [calls EXCEPT ![a] = None]
  /\ backend' = [backend EXCEPT ![calls[a].tenant][calls[a].key] = calls[a].value]
  /\ wrote' = [wrote EXCEPT ![calls[a].tenant.uuid][calls[a].key] = calls[a].value]
  /\ UNCHANGED tenantId

Next == \E a \in Apps : createFixedTenantStorageAdapter(a) \/ delegate(a) \/ Perform(a)
Spec == Init /\ [][Next]_vars

-----------------------------------------------------------------------------
\* However its id is spelled in their settings, the applications of a tenant share
\* one set of data: each reads the value any of them last wrote.
OneTenantPerUuid ==
  \A a \in Apps : tenantId[a] # None => backend[tenantId[a]] = wrote[tenantId[a].uuid]

\* An application whose first setting is not an id gets no adapter at all: it never
\* falls through to the tenant of a later setting.
NeverAnotherTenant ==
  \A a \in Apps : tenantId[a] # None =>
    \A i \in DOMAIN Settings[a] :
      (\A j \in 1 .. i - 1 : Settings[a][j].kind = "empty") =>
        Settings[a][i].kind = "empty" \/ (Settings[a][i].kind = "uuid" /\ Settings[a][i].id.uuid = tenantId[a].uuid)

\* Applications share data exactly when their first settings name one tenant.
TenantsApart == OneTenantPerUuid /\ NeverAnotherTenant
=============================================================================
