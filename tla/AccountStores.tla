--------------------------- MODULE AccountStores ---------------------------
(***************************************************************************)
(* Where accounts come from and where they are kept: FixedTenant under its *)
(* own names, UserDirectory over the memory adapter with and without a     *)
(* gate and over the file adapter, Invitations over both adapters,         *)
(* AdminUserRepository with callers that serialize and with callers that   *)
(* do not.  The initial state chooses which of them a behaviour is about.  *)
(***************************************************************************)
EXTENDS FixedTenant

CONSTANTS
  Tasks,
  Spellings, MaxUsers, MaxRacing,                  \* UserDirectory
  Tokens, RolesUsed, Lifetime, MaxNow, MaxExpiry,  \* Invitations
  Handles, GitHubIds, LookupKeys, AccountIds, RacingIds,  \* AdminUserRepository
  MaxFaults

VARIABLES
  running, at, gate, now, faults,
  users, totp, codes, byHandle, sessions, removed, stale,
  op, next, minted, invites, accounts, gone, joins,
  file, cache, lock, ask, list, late, old

peopleVars  == <<users, totp, codes>>
handleVars  == <<byHandle, sessions, removed, stale>>
callVars    == <<op, next, minted>>
inviteVars  == <<invites, accounts, gone, joins>>
fileVars    == <<file, cache, lock, ask, list, late, old>>
directory   == <<peopleVars, handleVars, callVars, at, gate>>
invitation  == <<inviteVars, callVars, at, gate, now>>
repository  == <<fileVars, at, faults>>

Directory(memory, serialized, max) ==
  INSTANCE UserDirectory
    WITH Handles <- Spellings, Memory <- memory, Serialized <- serialized, MaxUsers <- max

Invite(atomic, serialized) ==
  INSTANCE Invitations WITH Atomic <- atomic, Serialized <- serialized

Repository(serialized, careful, ids) ==
  INSTANCE AdminUserRepository
    WITH Clients <- Tasks, Nobody <- None, Keys <- LookupKeys, Serialized <- serialized,
         Careful <- careful, Ids <- ids

ASSUME DirectoryAssumption ==
  /\ Directory(TRUE, FALSE, MaxRacing)!UserDirectoryAssumption
  /\ \A memory \in BOOLEAN : Directory(memory, TRUE, MaxUsers)!UserDirectoryAssumption

ASSUME InviteAssumption ==
  Invite(TRUE, FALSE)!InvitationAssumption /\ Invite(FALSE, TRUE)!InvitationAssumption

ASSUME StoresAssumption ==
  /\ Repository(TRUE, TRUE, AccountIds)!RepositoryAssumption
  /\ Repository(FALSE, FALSE, RacingIds)!RepositoryAssumption

\* the variables of the modules that do not run keep one value
NoPeople  == users = None /\ totp = None /\ codes = None
NoHandles == byHandle = None /\ sessions = None /\ removed = None /\ stale = None
NoCalls   == op = None /\ next = None /\ minted = None
NoInvites == invites = None /\ accounts = None /\ gone = None /\ joins = None
NoFile    == /\ file = None /\ cache = None /\ lock = None /\ ask = None /\ list = None
             /\ late = None /\ old = None

StoresInit ==
  /\ Init
  /\ \/ /\ running = "tenant" /\ at = None /\ gate = None /\ now = None /\ faults = None
        /\ NoPeople /\ NoHandles /\ NoCalls /\ NoInvites /\ NoFile
     \/ /\ \/ running = "racing" /\ Directory(TRUE, FALSE, MaxRacing)!Init
           \/ running = "gated" /\ Directory(TRUE, TRUE, MaxUsers)!Init
           \/ running = "gatedFile" /\ Directory(FALSE, TRUE, MaxUsers)!Init
        /\ NoInvites /\ NoFile /\ now = None /\ faults = None
     \/ /\ \/ running = "invited" /\ Invite(TRUE, FALSE)!Init
           \/ running = "invitedFile" /\ Invite(FALSE, TRUE)!Init
        /\ NoPeople /\ NoHandles /\ NoFile /\ faults = None
     \/ /\ \/ running = "locked" /\ Repository(TRUE, TRUE, AccountIds)!Init
           \/ running = "unlocked" /\ Repository(FALSE, FALSE, RacingIds)!Init
        /\ NoPeople /\ NoHandles /\ NoCalls /\ NoInvites /\ gate = None /\ now = None

StoresNext ==
  /\ running' = running
  /\ \/ running = "tenant" /\ Next /\ UNCHANGED <<directory, invitation, repository>>
     \/ /\ \/ running = "racing" /\ Directory(TRUE, FALSE, MaxRacing)!Next
           \/ running = "gated" /\ Directory(TRUE, TRUE, MaxUsers)!Next
           \/ running = "gatedFile" /\ Directory(FALSE, TRUE, MaxUsers)!Next
        /\ UNCHANGED <<vars, inviteVars, fileVars, now, faults>>
     \/ /\ \/ running = "invited" /\ Invite(TRUE, FALSE)!Next
           \/ running = "invitedFile" /\ Invite(FALSE, TRUE)!Next
        /\ UNCHANGED <<vars, peopleVars, handleVars, fileVars, faults>>
     \/ /\ \/ running = "locked" /\ Repository(TRUE, TRUE, AccountIds)!Next
           \/ running = "unlocked" /\ Repository(FALSE, FALSE, RacingIds)!Next
        /\ UNCHANGED <<vars, peopleVars, handleVars, callVars, inviteVars, gate, now>>

storesVars == <<running, vars, directory, invitation, repository>>

StoresSpec == StoresInit /\ [][StoresNext]_storesVars

-----------------------------------------------------------------------------
\* Whoever races, the handle index of the memory adapter never answers with a user of
\* another handle, a removed user never comes back, and nobody validates who was closed
\* when the call began; under the gate users are found by their own handle alone, on both
\* adapters, and a removed one leaves nothing the next holder of the handle would meet.
DirectorySound ==
  /\ running = "racing" =>
       /\ Directory(TRUE, FALSE, MaxRacing)!IndexSound
       /\ Directory(TRUE, FALSE, MaxRacing)!RemovedStaysGone
       /\ Directory(TRUE, FALSE, MaxRacing)!ClosedNeverValidates
  /\ running = "gated" =>
       /\ Directory(TRUE, TRUE, MaxUsers)!FoundByHandle
       /\ Directory(TRUE, TRUE, MaxUsers)!NothingLeft
  /\ running = "gatedFile" => Directory(FALSE, TRUE, MaxUsers)!FoundByHandle

\* Everybody who joined ranks strictly below the one who invited him (canInviteForRole).
InvitedRankBelow ==
  /\ running = "invited" => Invite(TRUE, FALSE)!InvitedRankBelow
  /\ running = "invitedFile" => Invite(FALSE, TRUE)!InvitedRankBelow

\* An invitation is spent once: revoked or cleaned up, it is never stored again; used, it
\* is never usable again, whatever update was under way; under the gate it makes one
\* account (updateInvitation, extendInvitation, markAsUsed).
InvitationSpent ==
  [][/\ running = "invited" =>
          (Invite(TRUE, FALSE)!RevokedStaysGone)' /\ Invite(TRUE, FALSE)!UsesKept
     /\ running = "invitedFile" => (Invite(FALSE, TRUE)!AcceptedOnce)']_<<running, inviteVars>>

\* No two accounts share a handle or an id, whether callers serialize or not, and with
\* mutators serialized by careful callers a GitHub account signs in as one active
\* administrator only (create, linkGitHub).
OneOwner ==
  /\ running = "locked" =>
       /\ Repository(TRUE, TRUE, AccountIds)!OneAccountPerHandle
       /\ Repository(TRUE, TRUE, AccountIds)!OneOwnerPerGitHub
  /\ running = "unlocked" => Repository(FALSE, FALSE, RacingIds)!OneAccountPerHandle

\* The cache never serves an account state that a finished write replaced, unless a
\* lookup had read it before, whether callers serialize or not (writeUsers' finally).
CacheForgetsReplaced ==
  /\ running = "locked" => Repository(TRUE, TRUE, AccountIds)!CacheForgetsReplaced
  /\ running = "unlocked" => Repository(FALSE, FALSE, RacingIds)!CacheForgetsReplaced
=============================================================================
