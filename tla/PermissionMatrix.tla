-------------------------- MODULE PermissionMatrix --------------------------
(***************************************************************************)
(* Every user and every piece of content of a small world, one pair per    *)
(* state: what the independent decision functions of Permissions say of    *)
(* the same pair must fit together.                                        *)
(***************************************************************************)
EXTENDS Permissions

CONSTANTS
  People,   \* ids and handles: person i has id i and handle i
  Places,   \* bound: places of a content that can name its author (4 in the code)
  Grants    \* the permissions[] entries users may carry

MatrixAssumption ==
  /\ People \subseteq Nat \ {0} /\ Places \in Nat \ {0} /\ Grants \subseteq PERMISSIONS

VARIABLES user, content

RoleStrings == [name : ADMIN_ROLES \cup {"unknown"}, exact : BOOLEAN]
Users       == [id : People, handle : People, role : RoleStrings, permissions : SUBSET Grants]
Contents    == [ids : [1 .. Places -> People \cup {0}], handles : [1 .. Places -> People \cup {0}]]

Init == user \in Users /\ user.id = user.handle /\ content \in Contents
Next == UNCHANGED content /\ \E s \in RoleStrings : user' = [user EXCEPT !.role = s]
Spec == Init /\ [][Next]_<<user, content>>

Member  == [name |-> "member", exact |-> TRUE]
Outranks(s) == s.exact /\ isValidAdminRole(s.name) /\ Rank(s) >= Rank(Member)

-----------------------------------------------------------------------------
\* The list getUserPermissions shows a user is what hasPermission will grant him,
\* for every spelling of his role and every explicit grant, super_admin included;
\* hasAnyPermission and hasAllPermissions agree with the list.
ListedIsGranted ==
  /\ getUserPermissions(user) = {p \in PERMISSIONS : hasPermission(user, p)}
  /\ hasAllPermissions(user, getUserPermissions(user))
  /\ ~hasAnyPermission(user, PERMISSIONS \ getUserPermissions(user))

\* Whoever may author content of a visibility can read it back afterwards
\* (getAllowedVisibilityOptions against canViewContent through the list filter).
AuthorCanRead ==
  LET own == {[visibility |-> v, authorId |-> user.id] :
                v \in getAllowedVisibilityOptions(user.role)}
  IN  filterContentByVisibility(own, user.role, user.id) = own

\* Reaching any role above member costs no capability a member has: every can*
\* predicate and every visibility a member passes, the higher role passes too
\* (invariant P2 of ROLE_PERMISSIONS, seen through the derived predicates).
PromotionCostsNothing ==
  Outranks(user.role) =>
    /\ \A predicate \in DOMAIN Requires : can(predicate, Member) => can(predicate, user.role)
    /\ getAllowedVisibilityOptions(Member) \subseteq getAllowedVisibilityOptions(user.role)
    /\ \A v \in {"members", "admin", "private"} : \A author \in People :
         canViewContent(v, Member, author, user.id) => canViewContent(v, user.role, author, user.id)

\* Whoever may delete a piece of content may also edit it (the two role lists of
\* ownership.ts, which are kept by hand).
DeleteImpliesEdit ==
  canDeleteOwnedContent(user, content) => canEditOwnedContent(user, content)
=============================================================================
