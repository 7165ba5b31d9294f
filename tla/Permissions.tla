---------------------------- MODULE Permissions ----------------------------
(***************************************************************************)
(* Roles, capabilities, content visibility and ownership: the tables of    *)
(* src/src/types/permissions.ts and types/auth.ts, the predicates of       *)
(* core/permissions/index.ts and of core/permissions/ownership.ts.  All of *)
(* it is pure.  A role string is [name, exact]: exact is FALSE when it is  *)
(* a role only after normalizeRole (another case, hyphens); the name       *)
(* "unknown" stands for every string that is no role at all.               *)
(***************************************************************************)
EXTENDS Integers, Sequences, FiniteSets

ROLE_HIERARCHY ==
  [super_admin |-> 100, admin |-> 90, moderator |-> 70, editor |-> 60,
   event_manager |-> 50, contributor |-> 40, member |-> 30, viewer |-> 10]

ADMIN_ROLES == DOMAIN ROLE_HIERARCHY

ADMIN_PERMISSIONS ==
  {"admin.access", "admin.users.view", "admin.users.manage", "admin.users.delete",
   "admin.content.view", "admin.content.publish", "admin.content.media_create",
   "admin.content.manage", "admin.content.moderate", "admin.content.delete",
   "admin.events.view", "admin.events.manage", "admin.events.delete",
   "admin.analytics.view", "admin.analytics.export", "admin.settings.view",
   "admin.settings.manage", "admin.security.view", "admin.security.manage",
   "admin.logs.view", "admin.logs.export", "admin.federation.view",
   "admin.federation.deliver"}

EXPLICIT_USER_PERMISSIONS == {"content.own.publish", "federation.own.deliver"}

PERMISSIONS == ADMIN_PERMISSIONS \cup EXPLICIT_USER_PERMISSIONS

MemberRow == {"admin.access", "admin.content.view", "admin.events.view"}

\* fault: the event manager's row without the member core
NoFloorForEvents ==
  [super_admin |-> ADMIN_PERMISSIONS,
   admin |-> ADMIN_PERMISSIONS, moderator |-> MemberRow, editor |-> MemberRow,
   event_manager |-> {"admin.access", "admin.events.view", "admin.events.manage"},
   contributor |-> MemberRow, member |-> MemberRow, viewer |-> {"admin.access"}]

ROLE_PERMISSIONS ==
  [super_admin |-> ADMIN_PERMISSIONS,
   admin |-> ADMIN_PERMISSIONS \
     {"admin.users.delete", "admin.content.moderate", "admin.analytics.export",
      "admin.settings.manage", "admin.security.view", "admin.security.manage",
      "admin.logs.export"},
   moderator |-> MemberRow \cup
     {"admin.content.publish", "admin.content.moderate", "admin.users.view",
      "admin.analytics.view", "admin.logs.view", "admin.federation.view",
      "admin.federation.deliver"},
   editor |-> MemberRow \cup
     {"admin.content.publish", "admin.content.media_create", "admin.content.manage",
      "admin.analytics.view"},
   event_manager |-> MemberRow \cup
     {"admin.content.publish", "admin.events.manage", "admin.analytics.view"},
   contributor |-> MemberRow \cup {"admin.content.publish", "admin.content.media_create"},
   member |-> MemberRow,
   viewer |-> {"admin.access", "admin.analytics.view"}]

-----------------------------------------------------------------------------
(* core/permissions/index.ts                                               *)

normalizeRole(s)    == s.name
isValidAdminRole(n) == n \in ADMIN_ROLES

\* the stored role is looked up as it is spelled
getRolePermissions(s) ==
  IF s.exact /\ isValidAdminRole(s.name) THEN ROLE_PERMISSIONS[s.name] ELSE {"admin.access"}

IsSuperAdmin(user) == user.role = [name |-> "super_admin", exact |-> TRUE]

hasPermission(user, p) ==
  IF p \in EXPLICIT_USER_PERMISSIONS THEN p \in user.permissions
  ELSE IsSuperAdmin(user) \/ p \in user.permissions \cup getRolePermissions(user.role)

hasAnyPermission(user, ps)  == \E p \in ps : hasPermission(user, p)
hasAllPermissions(user, ps) == \A p \in ps : hasPermission(user, p)

\* fault: the owner is given the whole vocabulary
OwnerHoldsAll(user) ==
  IF IsSuperAdmin(user) THEN PERMISSIONS
  ELSE getRolePermissions(user.role) \cup user.permissions

getUserPermissions(user) ==
  IF IsSuperAdmin(user) THEN {p \in PERMISSIONS : hasPermission(user, p)}
  ELSE getRolePermissions(user.role) \cup user.permissions

Rank(s) == ROLE_HIERARCHY[normalizeRole(s)]

\* fault: a role manages its equals
ManagesEquals(actor, target) ==
  /\ isValidAdminRole(normalizeRole(actor)) /\ isValidAdminRole(normalizeRole(target))
  /\ Rank(actor) >= Rank(target)

canManageRole(actor, target) ==
  /\ isValidAdminRole(normalizeRole(actor)) /\ isValidAdminRole(normalizeRole(target))
  /\ Rank(actor) > Rank(target)

roleHoldsPermission(s, p) ==
  isValidAdminRole(normalizeRole(s)) /\ p \in ROLE_PERMISSIONS[normalizeRole(s)]

roleHoldsAnyPermission(s, ps) == \E p \in ps : roleHoldsPermission(s, p)

\* the can* predicates: the permissions one of which each asks for
Requires ==
  [canViewPosts |-> {"admin.access"}, canCreatePosts |-> {"admin.content.view"},
   canEditPosts |-> {"admin.content.manage"}, canDeletePosts |-> {"admin.content.delete"},
   canViewEvents |-> {"admin.access"}, canCreateEvents |-> {"admin.events.view"},
   canEditEvents |-> {"admin.events.manage"}, canDeleteEvents |-> {"admin.events.delete"},
   canViewProfiles |-> {"admin.access"}, canCreateProfiles |-> {"admin.users.manage"},
   canEditOwnProfile |-> {"admin.access"}, canEditAnyProfile |-> {"admin.users.manage"},
   canDeleteProfiles |-> {"admin.users.delete"}, canViewUsers |-> {"admin.users.view"},
   canManageUsers |-> {"admin.users.manage"}, canViewVideos |-> {"admin.access"},
   canCreateVideos |-> {"admin.content.media_create"},
   canEditVideos |-> {"admin.content.manage"}, canDeleteVideos |-> {"admin.content.delete"},
   canCreatePublicContent |-> {"admin.content.publish"},
   canCreateMemberOnlyContent |-> {"admin.content.view"},
   canFeatureProfile |-> {"admin.users.manage"},
   canEditOwnContent |-> {"admin.content.view"},
   canDeleteOwnContent |-> {"admin.content.view"},
   canEditContent |-> {"admin.content.manage", "admin.content.moderate"},
   canDeleteContent |-> {"admin.content.delete"},
   canViewMemberOnlyContent |-> {"admin.content.view"},
   canDeliverFederation |-> {"admin.federation.deliver"}]

can(predicate, s) == roleHoldsAnyPermission(s, Requires[predicate])

\* fault: admin-only authoring tracks the right to publish
OffersAdminToPublishers(s) ==
  IF ~can("canCreateMemberOnlyContent", s) THEN {}
  ELSE {"members", "private"}
         \cup (IF can("canCreatePublicContent", s) THEN {"public", "admin"} ELSE {})

getAllowedVisibilityOptions(s) ==
  IF ~can("canCreateMemberOnlyContent", s) THEN {}
  ELSE {"members", "private"}
         \cup (IF can("canCreatePublicContent", s) THEN {"public"} ELSE {})
         \cup (IF can("canDeleteContent", s) THEN {"admin"} ELSE {})

Anonymous == [name |-> "anonymous", exact |-> TRUE]   \* no role at all

\* author and reader are ids; 0 is no id
canViewContent(visibility, s, author, reader) ==
  \/ visibility = "public"
  \/ /\ s # Anonymous
     /\ \/ normalizeRole(s) = "super_admin"
        \/ visibility = "private" /\ author # 0 /\ author = reader
        \/ /\ visibility = "admin"
           /\ roleHoldsAnyPermission(s, {"admin.content.manage", "admin.content.moderate",
                                         "admin.events.manage"})
        \/ visibility = "members" /\ roleHoldsPermission(s, "admin.content.view")

filterContentByVisibility(items, s, reader) ==
  {i \in items : canViewContent(i.visibility, s, i.authorId, reader)}

-----------------------------------------------------------------------------
(* core/permissions/ownership.ts: the role is compared as it is spelled    *)

\* the first of the four places that names an author; 0 when none does
FirstNamed(places) ==
  LET named == {i \in DOMAIN places : places[i] # 0}
  IN  IF named = {} THEN 0 ELSE places[CHOOSE i \in named : \A j \in named : i <= j]

\* user.handle is the user's handle, content.ids and content.handles the places
isContentOwner(user, content) ==
  \/ FirstNamed(content.ids) # 0 /\ FirstNamed(content.ids) = user.id
  \/ FirstNamed(content.handles) # 0 /\ FirstNamed(content.handles) = user.handle

RoleIn(user, names) == user.role.exact /\ user.role.name \in names

\* fault: contributors lose editing of their own work
EditForStaff(user, content) ==
  RoleIn(user, {"super_admin", "admin", "editor", "moderator", "event_manager"})

canEditOwnedContent(user, content) ==
  \/ RoleIn(user, {"super_admin", "admin", "editor", "moderator", "event_manager"})
  \/ RoleIn(user, {"contributor", "member"}) /\ isContentOwner(user, content)

canDeleteOwnedContent(user, content) ==
  \/ RoleIn(user, {"super_admin", "admin"})
  \/ RoleIn(user, {"contributor", "member", "event_manager"}) /\ isContentOwner(user, content)
=============================================================================
