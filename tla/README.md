# tinyland-auth in TLA+

Models, model-checking configurations and machine-checked proofs for
`@tummycrypt/tinyland-auth`, an authentication library for single-process
SvelteKit applications that keeps its state in JSON files. Paths below are
relative to the repository (`src/` is its source directory, so
`src/storage/action-step-up.ts` is the file `PROJECT.json` names
`src/src/storage/action-step-up.ts`).

Check everything from this directory with

    tlc -workers 2 -config Sessions.cfg MCSessionStore    # each run of PROJECT.json
    tlapm SessionStore_proofs.tla                         # each module *_proofs

## The system

| Component | Source | State it keeps | What is hard | Module |
| --- | --- | --- | --- | --- |
| Enrollment coordinator | `storage/file-totp-enrollment.ts` | a journal file per user, the process-wide gate | crash between journal and projection; callbacks that await while credentials, sessions and the clock move | `TotpEnrollment` |
| Its gate, and the step-up queue | same, `storage/action-step-up.ts` | promise chains | nested calls chained while an older tail drains | `AuthGate` |
| Step-up store | `storage/action-step-up.ts` | a file per challenge | single use across crashes, failure budget, capacity | `ActionStepUp`, `StepUpContract` |
| Retirement coordinator | `storage/file-totp-retirement.ts`, `totp-retirement-material.ts` | a journal file per consumed receipt | resuming half-done deletions, never touching newer material | `TotpRetirement` |
| File bootstrap | `storage/file-bootstrap.ts` | one journal file | the first administrator exactly once | `FileBootstrap` |
| Bootstrap service | `modules/bootstrap/index.ts` | none; a state travels with the client | two completes racing, replays | `BootstrapService` |
| Sessions on files | `storage/file.ts`, `session-policy.ts`, `core/session/` | `sessions.json`, its queue, renewal times | read-modify-write, eviction, renewal after an await | `SessionStore`, `SessionContract` |
| Sessions in memory | `storage/memory.ts`, `core/session/index.ts` | a map | answers used after an await | `MemorySessions`, `SessionContract` |
| Users | `storage/memory.ts`, `storage/file.ts`, `validation/handle-validator.ts` | users, an index by handle, what hangs on a user | cascade of awaits, spelling | `UserDirectory` |
| Invitations | `modules/invitation/index.ts` | invitations | double acceptance, stale updates, rank | `Invitations` |
| Admin repository | `admin-user-repository/repository.ts` | users file, cache | cache filled by a stale read, links | `AdminUserRepository` |
| Tenants | `storage/fixedTenant.ts` | a tenant id per adapter | spellings, fall-through | `FixedTenant` |
| TOTP and backup codes | `core/totp`, `core/backup-codes` | last step, code set | two clock readings, equal codes | `SecondFactor` |
| Hook and guards | `adapters/sveltekit/hook.ts`, `guards.ts` | `locals` of a request | check, await, use | `AuthRequest` |
| CSRF store and handle | `adapters/sveltekit/stores/csrf.svelte.ts`, `hook.ts` | token, role, cookie | answers out of order, lost bodies | `CsrfTokens` |
| Audit | `modules/audit/index.ts`, the log of both adapters | buffer, timer, log | failing flush, timer, paging | `AuditLogger`, `AuditQuery` |
| Permissions | `core/permissions/`, `types/permissions.ts` | none | decisions programmed several times | `Permissions`, `PermissionMatrix` |

The application sits between the components: it injects `loadCurrent`, `project`
and the reauthentication resolver into the coordinator and `verifyFactor` into the
step-up store, projects accounts into sessions, and runs every protected decision
inside `withReadyAuth`. Where a module has a constant `Serialized`, `TRUE` means
that the application does so for the calls of that module.

Everything runs in one Node process, so a step of a model is what the code does
between two awaits, and steps of different requests interleave at every await.
The operations of each component, the state each action stands for and the lines it
comes from are in `PROJECT.json` under `map`; what can go wrong and is hard to test
is under `hazards`, each at its line, with the properties that would notice.

## Modules

A component has a module with its state, its actions and its properties; some have
an abstract specification beside them (`StepUpContract`, `SessionContract`) and some
a module `X_proofs` with their theorems. Some modules are sums: they instantiate several
modules, or one module with several sets of constants, and **the initial state chooses
the instance, which then runs alone** (variable `running`). A property of the sum says
for each instance what holds there; it is a conjunction of the modules' own named
properties, listed below.

| Sum | Of | Theorems | For TLC |
| --- | --- | --- | --- |
| `FirstAccount` | `BootstrapService`, `FileBootstrap`, `SecondFactor` | `FirstAccount_proofs` | `MCSecondFactors` |
| `AccountStores` | `FixedTenant`, `UserDirectory`, `Invitations`, `AdminUserRepository` | `AccountStores_proofs` | `MCAccounts` |
| `SignedIn` | `MemorySessions`, `AuthRequest`, `CsrfTokens` | `SignedIn_proofs` | `MCRequests` |
| `Services` | `AuthGate`, `AuditLogger`, `AuditQuery`, `PermissionMatrix` | `Services_proofs` | `MCServices` |

A sum extends the module it names first, so that module's own names are the sum's too.
Modules `MC...` give TLC what it needs besides: symmetry, fairness, settings, and for the
coordinators several sets of constants in one run. Where such a module
extends the component's module (`MCEnrollmentFaults`, `MCJournals`), the constants of
the configuration give one more instance, and the component's own properties, which are
the ones its theorems state, are evaluated on every instance for the accounts and
receipts they have in common.

Operators introduced by a comment that starts with `fault:` are plausible bugs of
the definition that follows; nothing uses them. `PROJECT.json` pairs each with a
property that detects it. Every module also states `TypeOK`, the type of its state.

### How files are modelled

In the four modules about journals and challenges a name resolves to `journal` (or
`files`), and `disk` is the set of files it may resolve to after a power loss. A rename
replaces the first and adds to the second; a directory sync leaves `disk` with the
visible file only. A crash of the process keeps what is visible; a power loss picks
one file of `disk` for each name independently. An I/O call may fail at any step, in
which case the operation ends with an error and a rename that happened stays
visible. Temporaries have no authority in any of them and are left out. The modules
about sessions, users, invitations and logs have no power loss: the code promises no
durability there, and what they check is about interleaving.

### TotpEnrollment

The gate admits one root request at a time and a request's nested calls one
after another (which is what `AuthGate` shows), so the coordinator is one thread of
control: `pc` is where it stands, `ret` and `strict` the call of `current()` or
`writeRecord()` it is in, `rec` its record. Between two steps the clock advances, a
session ends, a credential changes, the process dies or power is lost.

| Code | Actions |
| --- | --- |
| `withReadyAuth`, `runContext` | `Enter`, `Release`, `Leave`; with `Nested` a callback keeps the gate (`held`) and calls again, recovering only if `recoveryRequired` |
| `recoverUnsafe`, `recover` | `RecoverSync`, `RecoverApply`, `RecoverScanned`, `RecoverDone`, `RecoverTwice` |
| `apply` and the application's `project` | `ProjectFactor`, `ProjectCodes`, `ProjectFlags` |
| `writeRecord`, `syncDirectory` | `Rename`, `Sync`, `IOError` |
| `current` | `Load`, `Resolve`, `Reload` |
| `begin` | `BeginAgain`, `Redisclose`, `BeginNew`, `Publish`, `Published`, `DiscloseSelf` |
| `complete` | `Found`, `Replay`, `Verify`, `Freeze`, `Settled`, `Receipt` |
| every failed check | `Refuse` |
| protected operations of the application | `Decide`, `UseCode`, `Disable`, `EditAccount` |
| surroundings | `Tick`, `EndSession`, `ChangeCredential`, `Crash`, `PowerLoss` |

Attempt ids, drawn at random in the code, are numbered in the order they are
drawn. The secret and the code set of an attempt are represented by its number,
so "the stored factor is attempt 3's" is `factor[v] = 3`. Digests are the values
they digest. `project` is the application's code and is modelled from its
contract in the source (lines 122-132): three durable writes in the stated order,
each refused for an inactive owner or foreign material. The contract asks it to
keep used flags; the model lets it reset them, and the properties show that the
coordinator does not rely on it.

Left out: record syntax and cryptography (a record that cannot be decrypted or
parsed is an `IOError` of the step that reads it), roles and locks of the account
(part of `active`), the onboarding step counter, and a wall clock that goes back: a
binding dropped as expired (line 704) is forgotten while its proof becomes valid
again, which the code does not guard against and no document promises.

### AuthGate

Calls `c` are numbered invocations; `chain` is the order in which they were chained
to the gate or to the context of the call they are nested in, `phase` how far each
has come. `withReadyAuth` chains a call, `Step` starts it when everything before it
has settled, lets it wait for some of its nested calls, drains the nested calls it
did not wait for (again, when more were chained meanwhile) and settles it. With
`Reentrant` `FALSE` it is `queued` of the step-up store, which forgets its tail when
the last call has settled.

### ActionStepUp and StepUpContract

`StepUpContract` knows only what was answered: challenges with their action,
permits, receipts. A challenge yields at most one permit, permits are distinct, a
permit buys at most one receipt, for the action of its challenge.
`ActionStepUp` has the files, the queue (one thread of control), pruning, the clock
and the failures. Its answers are `known`, `held` and `receipts`, so the refinement
mapping is the identity on them and a stutter everywhere else. `SetClock` sets the
clock to anything at any time, forward or back. `answered` counts the wrong factors a
client has been told about. A binding stands for the ten fields of
`ActionStepUpBinding`; `IdentityOf` is its projection to the identity. References
drawn at random are numbered. Seals and HMACs are abstracted: a record is what was
written.

### TotpRetirement

One thread of control under the gate. `store[s][v]` is what account `v` has
in each of the four stores apply() clears, in its order: sessions, factor, codes,
flags; `{}` is cleared. A factor or code set is a generation and a use count: the
generation digest is the first, the snapshot digest both. The four stores and
the journal have the file model above (`disk`, `jdisk`).

| Code | Actions |
| --- | --- |
| `withExclusiveAuth`, `prepare`, `recoverUnsafe` | `Enter`, `Prepare`, `RecoverApply`, `Recovered` |
| `retire` with `owner`, `current`, `authorization` | `Begin`, `Authorized`, `Again`, `Admit`, `Answer` |
| `apply` | `Check`, `Verified`; for each store `Change`, `Settle` (revocation, unlink or rewrite, then the directory sync, repeated on every replay) |
| `write`, `syncDirectory` | `Rename`, `Sync`, `IOError` |
| `readReceipt` | `readReceipt` |
| every failed check | `Refuse` |
| the application, in a protected operation or in `authorize` | `Login`, `Logout`, `Use`, `Enroll`, `EditAccount` |
| surroundings | `Expire`, `Tick`, `SetBack`, `Crash`, `PowerLoss` |

`Enroll` is the enrollment coordinator seen from outside, all or nothing, which
is what `ReadyAuth` of `TotpEnrollment` provides. With `Uncertain` the
application's writes may be visible though their sync failed. Left out: renamed
and deleted accounts (`owner` then refuses), seals and syntax, unsafe directories
(an `IOError`), temporaries, and `retire` called from its own `authorize`.

### FileBootstrap

One thread of control under the gate, one journal file. `Request` is the browser's
`begin`, `read`, `updateProfile`, `acknowledgeBackupCodes`, `complete`, or the
application's `recover` and an initialization by another way. `Step` is everything
the coordinator does next: `ReadRecord` and `SyncDirectory` (`recoverUnsafe`),
`ProjectFactor`, `ProjectCodes`, `ProjectUser`, `Seal`, `SealSync` (`apply`, with
`checkProjection` before and after), the body of the operation, `WriteRecord`,
`WriteSync`, `Recheck`. An attempt is the number of its secret, codes and reference.
`project` is the application's: factor and codes before the account, what is there
left alone. Authentication traffic (`AccountLives`) waits for recovery, as
`docs/bootstrap-from-zero.md` (lines 584-592) demands of the application; the
variable `ready` is that. Left out: the cipher, QR codes and record syntax.

### SessionStore, MemorySessions and SessionContract

`SessionContract` is what whoever holds a session id relies on: a session is created
once, creating one costs nobody but its owner a session, and a session that left never
returns. Both stores implement it; `live` is the projection of the stored sessions to
id and owner, `ever` a history variable.

`SessionStore` has requests (`proc`: the manager's frame), the storage call each of
them awaits (`call`, `at`) and the promise chain of `withSessionFileQueue` (`tail`,
`ahead`). `StorageStep` is one await of a storage call: `ReadOnly`, `Mutate` (read and
compute), `Write` (rename), `Rejects`, `Cleanup` (the deletion an expired `getSession`
makes); `Resume` is what the manager or the activity tracker does with the answer, which may be
old by then; `IoFails` rejects a call. `boundedSessions` is `session-policy.ts`.
In `MemorySessions` a storage method is one step, since it has no await of its own.

### AuthRequest and CsrfTokens

`AuthRequest` follows a request through `createAuthHandle` (get the session, drop it
if expired, load the user, renew) to a guard, one step per await, while accounts
change, sessions are revoked and the application projects an account into its
session. `verdict` is what the guard answered; `held`, `live` and `had` record what
was true while the request ran, and only properties read them. `Permissions` supplies
the decisions. `CsrfTokens` is the page: store calls await the token endpoint, whose
answer sets the cookie when it arrives and whose body may be lost (`Lost`) or resolved
later (`Resolve`), in any order if `Overlap`.

### BootstrapService and SecondFactor

`BootstrapService` awaits storage at every step of `complete`; any state handed out may
be presented again, by several tasks; `Fail` is a storage call that throws.
`SecondFactor` verifies one-time codes against a stored last step, reading the clock
twice as `verifyTokenWithStep` does (once in otplib, once in `currentStepFor`), and
redeems backup codes from a stored set in which equal codes may occur. `TicksInside`
says whether a time step may begin between the two readings.

### UserDirectory, Invitations, AdminUserRepository, FixedTenant

`UserDirectory` has the users of the memory adapter (a step per method, an index by
lower-cased handle, a cascade of awaits on deletion) or of the file adapter (read,
change, write back). A handle is a name and a spelling; the character rules of the
validator are abstracted to that. `Provision` gives a user a session or a factor, only
where the application's gate is in use; handles of users with a stored secret are
then not renamed, since secrets are filed by handle and the application moves them.
`Invitations` has both adapters too (`Atomic`), and the rank rule its callers apply.
`AdminUserRepository` has the mutators as read, change, rename, clear the cache, and
lookups that fill the cache after their await. `FixedTenant` resolves a tenant id from
settings and sends calls to a backend (external) that does not fold case.

### AuditLogger, AuditQuery, Permissions, PermissionMatrix

`AuditLogger` has log calls, timer callbacks and `close` as tasks; a flush stores one
event per await and, when a call fails, puts all of them back. `AuditQuery` evaluates
the adapters' paged queries over every log of a small world. `Permissions` has the
tables and the predicates as operators; a role string is a role and whether it is
spelled exactly so. `PermissionMatrix` compares the predicates with one another on
every user and content.

## Runs

Bounds are chosen so that the case a property is about happens: two requests or
tasks race, an operation is interrupted, what it left is met by another, and that is
interrupted too. Deadlock is checked unless the system may really stop; in
`second_factors`, `services` and `accounts` it may (all attempts, calls or ids used
up).

| Run | Instances | Properties and their named parts |
| --- | --- | --- |
| `enrollment_recovery` | `TotpEnrollment`: 1 user, 1 proof, 2 attempts, 1 credential change, nested calls, 1 I/O failure, 1 restart | `TypeOK`; `NoProjectionBeforeCommit`; `ReadyAuth`: the gate opens only on consistent accounts |
| `enrollment_faults` | *pair*: 2 users with a session each, 2 attempts, 1 restart; *failing*: 2 sessions, 2 attempts, 2 failures, 1 restart; *expiring*: 1 proof, 3 attempts of length 1, 1 failure, 1 restart; *credential*: 2 proofs, room for 1 binding, 1 credential change; none with nested calls | `AccountsReady` (`ReadyAuth`, `NoProjectionBeforeCommit` of both accounts); `NothingComesBack` (`NoResurrection`, `UsedCodesStay`); `CompletionRightful` (`AttemptCustody`, `ProofBindsOnce`, `CommittedInTime`); `AnswersDurable` (`AckDurable`, `DisclosedIsDurable`); `CredentialCurrent`; `JournalParses` |
| `stepup_crash` | 2 actions, 2 challenges, room for 1, 2 wrong factors, clock 0..2 both ways, 1 failure, 1 restart | `KeepsContract`; `FailureBudget`; `CapacityBound`; `ReceiptDurable` |
| `journals` | `TotpRetirement` *full*: 3 receipts, room for 2 records, 3 generations, a clock set back, 1 restart; *repeating*: 2 generations that are used, 2 failures, 2 restarts; *apart*: 2 accounts, 1 restart | `JournalReadable`; `RetirementFinal` (`RetiredStaysRetired`, `ReceiptSpendsOnce`); `NeverHalfRetired` (`RevokedBeforeWeakened`, `GateReady`); `DeletionAuthorised` |
| `sessions` | `SessionStore` *bounded*: 2 users, 3 ids, bound 2, 1 failure; *racing* and *expiring*: single mode, 1 user | `KeepsContract`; `EvictionPolicy` (`BoundedPerUser`, `EvictsOldest`) |
| `requests` | `MemorySessions` *bounded* and *single*, 2 tasks, 3 ids; `AuthRequest`: 2 requests, 1 session id, 2 roles; `CsrfTokens` *overlapping* and *serial*: 2 calls, 3 tokens | `KeepsContract`; `AllowedRightly` (`AllowedWasLive`, `PermissionIsCurrent`, `RoleWasHeld`, `GuardsAgree`); `PageInStep` (`DoubleSubmitPasses`, `RefreshKept`) |
| `second_factors` | `BootstrapService` under the gate: 2 tasks, 2 states, 2 handles, 2 failures; `FileBootstrap`: 2 attempts, clock 0..2, 1 failure, 2 restarts; `SecondFactor` *ticking* and *steady*: 2 sets of 3 from 2 values, so that codes repeat, clock 0..3 | `FirstAdministrator` (`FactorBeforeUser`, `OneAdministrator`, `OwnFactor`); `OneFirstAccount` (`OneAdministrator`, `AcknowledgedBeforeCreation`); `RecoveryOwnsStores` (`ProjectionOwned`, `RecoveryNeverConflicts`); `ToldIsDurable` (`ShownIsDurable`, `ReceiptFrozen`); `CodesSpent` (`CodeUsedOnce`, `StoredCovers`, `RedeemedAsDrawn`, `RemainingCounts`) |
| `services` | `AuthGate` with 4 calls, reentrant and as *queue*; `AuditLogger` *failing*, *filing*, *timely*: 2 tasks, 4 events, 2 stored, 2 failures (1 on files, 0 in *timely*); `AuditQuery`: 4 events, 3 kept; `PermissionMatrix`: all role strings, 2 people | `Exclusive` (`OneAtATime`, `HeldUntilDrained`); `EventsKept` (`NoEventLost`, `WaitingIsTriggered`, `StoredOnce`); `QueriesExact` (`KeepsNewest`, `PagesCover`, `FailuresCounted`); `DecisionsAgree` (`ListedIsGranted`, `AuthorCanRead`, `PromotionCostsNothing`, `DeleteImpliesEdit`); `NothingWaitsForEver` |
| `accounts` | `FixedTenant`: 4 applications, 2 ids; `UserDirectory` *racing* (2 users), *gated*, *gatedFile* (3 users): 2 tasks, 3 spellings; `Invitations` on both adapters: 2 tokens, 3 roles; `AdminUserRepository` *locked* (2 ids), *unlocked* (1 id): 1 failure | `TenantsApart`; `DirectorySound` (`IndexSound`, `RemovedStaysGone`, `ClosedNeverValidates`, `FoundByHandle`, `NothingLeft`); `InvitedRankBelow`; `InvitationSpent` (`RevokedStaysGone`, `AcceptedOnce`, `UsesKept`); `OneOwner`; `CacheForgetsReplaced` |
| `liveness` | one small instance each of the three coordinators and of `SessionStore`, with failures and a restart | `CommitsSettle`; `RequestsFinish` |
| `enrollment_nested` | nested calls, 1 failure, 1 restart | `DisclosedIsDurable` is violated (below) |
| `session_single` | 2 logins of one user in single mode | `SingleSession` is violated (below) |

Why these bounds. Two attempts or generations let one be disabled, retired or expired
and another follow; a third attempt in *expiring* lets an onboarding attempt come between
two uses of a proof. Two failures let a publication fail and its repair fail too; two
restarts interrupt an operation and its recovery. A room of one makes every second
record depend on removals, a third receipt meets a journal of two that is full, and a clock of three values covers before, during and
after a lifetime of one. Three ids under a bound of two evict; a third task would only
repeat what two can do to each other at an await. The theorems below confirm these bounds for
every safety property but `AccountsReady` and `QueriesExact`.

### Fairness

`liveness` and part of `services` assume weak fairness of the steps the process takes
by itself, because Node's event loop runs every promise that is ready and every file
call completes or fails:

- enrollment and retirement: the steps of the operation under the gate, and that
  requests keep coming, each of which recovers first; retirement also lets the clock
  advance, since a receipt cannot be written while the clock is behind the commit;
- bootstrap: the steps of the operation, and that the application keeps asking for
  `recover` before it lets authentication through;
- sessions: each request's storage step and each resumption;
- the gate: each call's step; the audit logger: each task's step and an armed timer.

Nobody has to make a request, log an event or close. I/O failures and restarts are
finitely many, because a disk that always fails settles nothing. Retirement's
instance in `liveness` has `Uncertain` `FALSE`: if a power loss reverts the use
counter the record names, recovery rejects the reverted factor as replacement
material and the gate stays closed for the operator, as
`docs/file-totp-retirement.md` intends.

### What holds only under an assumption

- `OneFirstAccount` and its companions, `OneAdministrator`, `OwnFactor`,
  `FoundByHandle`, `NothingLeft` and `AcceptedOnce` (on files) hold because the
  application runs these calls under its gate, which the comments and documents of the
  repository ask for. Without it the file adapter loses updates (`file.ts:305`) and two
  bootstraps may complete.
- `OneOwner` holds for callers that serialize the mutators ("Callers still own
  serialization of read/modify/write") and neither undo a soft delete through
  `update` nor create an account for a linked GitHub id (`Careful`).
  `CacheForgetsReplaced` holds without.
- `DoubleSubmitPasses` holds for a page that runs one store call at a time.
- `CodeUsedOnce` holds while both clock readings fall in one time step.
- `RoleWasHeld` says that the role was the account's when or after the session began: a
  demotion reaches `requireRole` only when the application projects it.

### Findings

1. `complete` sets `recoveryRequired` before it publishes, so that a failed directory
   sync makes every later gate entry recover. `begin` does not. A callback that holds
   the gate and retries `begin` after its directory sync failed is therefore shown the
   renamed, unacknowledged record, which a power loss undoes. The documentation says
   that `begin` durably stores the attempt and that an indeterminate directory sync is
   acknowledged before access (`docs/file-totp-enrollment.md`, lines 115-116, 121 and
   137-138). `enrollment_nested` has the trace. Through the
   same door one proof can buy two disclosed attempts: the binding of the first is lost
   with its record. Without nested calls both properties hold (theorems `DurableAnswers`
   and `RightfulCompletion`), which is why they are stated under `~Nested`.
2. In single mode `createSession` deletes the user's sessions and inserts the new one by
   two storage calls, each of which is queued but not the pair. Two logins that
   interleave leave two sessions, where `types/config.ts:56` says that consumers remain
   single-session. `session_single` has the trace.

Two more divergences were met and have no run of their own. `canDeleteContent`
(`core/permissions/ownership.ts:136`) refuses moderators and editors the deletion of
their own content, while `canDeleteOwnContent` (`core/permissions/index.ts:292`, with
the comment above it) grants it to every role from member up; `PromotionCostsNothing` is
therefore stated of the predicates that derive from the permission table, and
`DeleteImpliesEdit` of the two lists in `ownership.ts`. And when a time step begins
between the two clock readings of `verifyTokenWithStep` (`core/totp/index.ts:198`), a
code that was accepted before is taken for one of the next step and accepted again,
where the comment at lines 157-163 promises single use: `CodeUsedOnce` fails on the
*ticking* instance. `StoredCovers` holds in either case, so nothing older than a
consumed code becomes acceptable.

## Proofs

The theorems hold for every value of the constants: any number of users, sessions,
clients, calls, challenges, attempts, failures and restarts, under the named
assumptions of the modules: sentinels are not members of the sets they stand beside
(`None` is no task, token, person, stored user, CSRF request or time step; no GitHub id
is 0), limits are natural numbers, the roles and permissions asked about are those of
the tables, there is a user, a handle and a binding.

**TotpEnrollment_proofs**, in two layers. `TypeCorrect`, `ProjectionAfterCommit`
(`NoProjectionBeforeCommit`) and `GateReady` (`ReadyAuth`) rest on `IInv`. Neither
safety property is inductive: whether a projection may start depends on what the steps
before it have synced. The invariant says, for each place of the control, what is known
of the record in hand and of the files behind its name: while the record is projected
its name resolves, now and after a power loss, to that committed record only; between
`Freeze` and `Rename` the account has no material; a factor, codes and flags that
disagree occur only where the journal still says committed. Steps that leave files and
material alone are one lemma (`QuietStep`), and so are the ways out of the gate
(`LeaveStep`).

`RightfulCompletion`, `DurableAnswers`, `ReadableJournal`, `NothingReturns` and
`CurrentCredential` are about what clients were told, and rest on `JInv`, inductive
relative to `IInv`. Records of one attempt agree on everything a transition keeps
(`AgreeInv`), so what was disclosed of an attempt is what any of its records says
(`KnownInv`); an attempt whose factor was disabled has left only receipts, and when
`recoveryRequired` is down these are on disk (`RetiredInv`, `SettledInv`), so recovery
has nothing to project again; what `begin` and `complete` read before an await still
holds after it (`TaskInv`, `AuthorityInv`), which is where the second load of `current`
is needed. The binding of a proof is carried by every record its account may be found
with until the proof expires (`BindingInv`); this needs that an operation runs on synced
files only, which a nested call breaks (finding 1), hence `DurableInv` has `~Nested`.

**ActionStepUp_proofs**: `TypeCorrect`, `ReceiptsDurable`, `BudgetKept`, `CapacityKept`
and `ContractKept`, the refinement of `StepUpContract`. The invariant has a part about
the store (`StoreInv`: files are filed under their own reference and no reference is used
before it is drawn; a challenge keeps its action; an answered permit is never undone to
pending; a permit belongs to one challenge) and a part about the operation at the head
of the queue (`WorkInv`: what it was submitted with, that what it read is on disk, what
the record it writes promises). The refinement maps each answer to a contract step and
the rest to stutters. Capacity is about names that a power loss may bring back, while
`pruneExpired` counts visible ones: `CountInv` says that the count is that of the names
visited and kept, that by the time a challenge is issued it is the number of names that
could come back too (the directory was synced if anything was removed), and that there
is room for the record to be renamed.

**SessionStore_proofs**: `TypeCorrect`, `Refinement` of `SessionContract`, and
`EvictionPolicyKept`. What makes the refinement true is that read-modify-writes do not
overlap, so the invariant says that unsettled operations form one line (`InLine`: of any
two one waits for the other, only the first has begun), that what an operation is about
to write follows from what is stored now (`Follows`), and that a drawn id belongs to one
login (`Drawn`). `PolicyInv` adds that the stored document, and the one about to replace
it, has at most the allowed number of sessions of each user. That `boundedSessions`
leaves no more than that is a pigeonhole argument: sessions with different ids have
different ranks in the order of creation (`RankOrder`), and those kept have ranks below
the bound (`NewestFew`).

**TotpRetirement_proofs**: `TypeCorrect`, `JournalStaysReadable`, `RetirementIsFinal`,
`NobodyHalfRetired` and `DeletionIsAuthorised`. The part about the files (`StoreInv`)
says that an account has factor, codes and flags together or not at all, whatever a
power loss leaves of each (`Whole`), except one whose committed record is durable
(`Excused`); that at most one record may be found committed (`OneInv`); that the material
an applied record names is older than anything that may be found (`AppliedInv`); and that
a receipt answered, or a receipt that deleted a factor, can only be found naming that
generation. The part about the operation (`WorkInv`) says how far apply() has come: each
store before `stage` is cleared for good (`Gone`), so a factor is unlinked only when no
session can come back, and a receipt is written only when nothing can. Steps that merely
decide what survives (a sync, a power loss, a step that leaves the files alone) are one
lemma, `ShrinkStep`; application writes are another, `WriteStep`.

**FirstAccount_proofs**, in three parts, one for each module of the sum.

- `FirstAdministratorKept` (`BootstrapService`), from `FactorFirst`, which needs no gate
  (no step takes a stored secret away), and `OneAdministratorUnderGate` and
  `OwnFactorUnderGate`, which do (whoever is inside holds the gate and, past `hasUsers`,
  saw no user).
- `OneFirstAccountEver`, `RecoveryAlwaysFinishes` and `ToldForGood` (`FileBootstrap`),
  from `FileInv`. It is about every record a power loss could leave, not only the visible
  one: all of them are of one attempt as soon as one is committed, and of one completion
  as soon as one is applied (`DiskSound`); the stores hold nothing of an attempt before
  every such record is committed and nothing of another one after (`StoresSound`); while
  a committed record can be found, the account is as the projection left it
  (`ProjectionSound`, which is where the application's waiting for recovery is needed);
  and at each place of the control it says what has been synced and projected (`PcSound`).
- `CodesAlwaysSpent` (`SecondFactor`), from `CodeInv`: what the call under way will do
  still follows from what is stored (`CallKnown`); the stored step is at least every step
  whose code was accepted, and when no step begins inside a verification it is the code's
  own (`Covered`); the codes accepted from a set are, value by value, as many as those
  marked used (`Marked`). The last one counts: marking one code adds one element to the
  used ones and takes one from the others, for which the first match must exist (the
  least-number principle of `WellFoundedInduction`).

**AccountStores_proofs**, in four parts.

- `TypeCorrect` and `TenantsKeptApart` (`FixedTenant`), from `OneTenant` and
  `FirstSettingDecides`. Every id held or sent is in lower case, and it is that of the
  first setting that is not empty.
- `OneOwnerAlways` and `CacheNeverStale` (`AdminUserRepository`), from `RepoInv`: stored
  and about-to-be-stored lists have distinct handles and ids (`ListsDistinct`); when no
  write waits to clear the cache, what is cached is stored, and so is what a lookup that
  is not late is about to cache (`CacheSound`); a mutator that holds the callers' lock
  finds at its write what it checked (`LockSound`), so that a GitHub account has one
  active owner (`OwnersSound`). `OneAccountPerHandle` and the cache part are proved for
  callers that do not serialize, too.
- `InvitedRanksBelow` and `InvitationSpentOnce` (`Invitations`), from `InviteInv`:
  somebody who may invite for the role stands behind every invitation and account, in
  the store, in the lists being written and in the calls under way (`AllBacked`); a token
  is stored at most once and not before its creation (`DrawnOnce`); under the gate an
  invitation that made an account is used, or its call is about to mark it
  (`JoinedOnce`). What a call may make of a list is one lemma (`CallEffect`).
- `DirectoryAlwaysSound` (`UserDirectory`), from `DirInv`. On the memory adapter the index
  answers only with a user of that handle, whoever races (`IndexKept`). With the gate the
  one task that is not idle holds it (`GateHeld`), every user is indexed (`AllIndexed`)
  and only the cascade of the removal under way still holds something of a removed user
  (`LeftBehind`). On files handles are compared as spelled, so the invariant speaks of
  spellings (`SpelledApart`); there it is proved for serialized calls only, since without
  the gate the adapter loses updates.

**SignedIn_proofs**, in three parts.

- `TypeCorrect` and `Refinement` of `SessionContract` (`MemorySessions`): a storage call
  is one step, and the invariant needs only that ids are unique and remembered.
- `AllowedRightlyAlways` (`AuthRequest`), from `HookInv`: a stored session, and a
  projection under way, carry a role that session has had (`StoreRight`); what a request
  holds after an await was right when it was read, and histories only grow, so it is
  still among them (`RequestRight`, `SessionRight`, `VerdictRight`). The agreement of the
  three implementations of the guards is proved from their definitions.
- `PageStaysInStep` (`CsrfTokens`): on a serial page the cookie is the token of the answer
  that waits for its body, or that of the settled store (`PageInv`); that a refresh keeps
  the role needs only that each answer belongs to one call (`FlightsInv`).

**Services_proofs**, in four parts.

- `TypeCorrect` and `ExclusiveGate` (`AuthGate`), from `Exclusion` and
  `DrainedBeforeRelease`. A call has one place in one chain, a call begins when all
  before it in its chain have settled, and a context is left only when its chain is.
- `EventsAlwaysKept` (`AuditLogger`), from `LoggersInv`: every event logged is buffered, in
  the rest of some flush's batch, stored or trimmed (`Kept`), on files as long as flushes
  do not overlap, when they run one at a time on the log as it is (`Alone`); what waits
  without a failure has an armed timer (`TimerInv`); and while no storage call fails the
  places of an event exclude one another (`Apart`).
- `NewestAlwaysKept` (`AuditQuery`): the stored log is the end of everything logged, as
  long as the limit allows (`Newest`). It is the part `KeepsNewest` of `QueriesExact`.
- `DecisionsAlwaysAgree` (`PermissionMatrix`), for any set of people and any permissions
  granted singly. Role table and permission tables enter row by row (`Rows`); membership
  in a role's row is the same question in every predicate, which leaves the cases where
  the predicates really differ: unknown roles and misspelled ones.

### What is only model-checked

- `QueriesExact` but for its part `KeepsNewest`: `PagesCover` and `FailuresCounted` are
  about `SelectSeq` and folds over the log, and a proof would be an induction over data,
  which the prover cannot do with its library's theorems.
- `AccountsReady`, which is about two accounts that share a gate: `GateReady` and
  `ProjectionAfterCommit` are the theorems behind it, for any set of users and for each
  other instance of that run.
- `CommitsSettle`, `RequestsFinish` and `NothingWaitsForEver`: liveness under fairness.
- `TypeOK` of the modules that have no `TypeCorrect`, beyond what their inductive
  invariants say of types.

## Not modelled, and why

- Password hashing, rate-limit address extraction and mTLS header parsing
  (`core/security`, `adapters/sveltekit/mtls.ts`): a cryptographic or string
  computation of their input, without state.
- Parsing of cookies, headers and client addresses; QR codes, URIs and credential
  formatting (`cred-gen`, `totp/*compat`): text.
- `admin-user-repository/publicHandleDirectory.ts`: a stateless projection of users for
  display.
- TOTP secrets and backup codes as files of the file adapter: whole-file writes keyed by
  user, without a read-modify-write; where their durability matters (retirement,
  bootstrap, enrollment) they are part of those modules.
- Seeds, snapshots and configuration maps of the memory adapter: helpers of tests.
- Type declarations and injection seams: they have no behaviour and enter as the types
  of the state.
- The enrollment coordinator's wall clock going back, and temporaries left by a crash.

What would be worth doing next: a reference definition of paging by positions, without
`SelectSeq`, that a theorem could be stated about; and the wall clock of the enrollment
coordinator.
