-------------------------------- MODULE Rights --------------------------------
(***************************************************************************)
(* The rights of a user on one module, auth/resolve.go: what the module    *)
(* allows by default, plus what the rows of user_group_rights grant to the *)
(* user's groups, narrowed by the rows of user_role_rights for the user's  *)
(* role within these groups, plus the rows of user_rights for the user.    *)
(*                                                                         *)
(* A session's rights are resolved by one query.  Pages and menus ask for  *)
(* the modes alone, which takes three queries: administrators may write    *)
(* between them.  A bitmask of modes is a set of modes.                    *)
(***************************************************************************)
EXTENDS Naturals, Sequences, SequencesExt, FiniteSets, FiniteSetsExt

CONSTANTS
  Groups,      \* ids of user groups, the guests' among them
  GuestGroup,
  AdminGroups, \* groups with is_admin
  Users,       \* user ids, all positive
  GroupsOf,    \* user -> the groups in the user's row
  Rows,        \* bound: the rows an administrator may enter
  MaxWrites    \* bound: writes to the tables

Modes == {"list", "view", "create", "edit", "delete", "filters"}
Permissions == {"deny", "read", "write"}
Nobody == 0

ASSUME RightsAssumption ==
  /\ Groups \subseteq Nat /\ GuestGroup \in Groups /\ AdminGroups \subseteq Groups
  /\ Users \subseteq Nat \ {Nobody}
  /\ GroupsOf \in [Users -> SUBSET Groups]
  /\ \A r \in Rows : /\ r.modes \subseteq Modes
                     /\ \A f \in DOMAIN r.fields : f # "any field" /\ r.fields[f] \subseteq Modes
  /\ MaxWrites \in Nat

VARIABLES
  default,  \* the module's default permission
  granted,  \* user_group_rights: group -> its rows
  ceiling,  \* user_role_rights: group -> the rows for the users' role
  personal, \* user_rights: user -> rows, in the order the query returns them
  query,    \* the resolution of modes under way: whose, its place, the modes so far,
            \* whether every query of it has worked
  writes    \* writes so far

tables == <<default, granted, ceiling, personal, writes>>
rightsVars == <<tables, query>>

(* A row's fields are a map from field to modes, its filters a set of      *)
(* filter names; empty, either leaves everything open.  Sessions hold the   *)
(* same: AnyField and AnyFilter stand for a module missing from the map.    *)
AnyField == [name \in {"any field"} |-> Modes]
AnyFilter == {"any filter"}

DefaultModes(permission) ==
  CASE permission = "write" -> Modes \ {"filters"}
    [] permission = "read"  -> {"list", "view"}
    [] permission = "deny"  -> {}

MyGroups(u) == IF u = Nobody THEN {GuestGroup} ELSE GroupsOf[u]
GroupRows(u) == UNION {granted[g] : g \in MyGroups(u)}
RoleRows(u) == IF u = Nobody THEN {} ELSE UNION {ceiling[g] : g \in MyGroups(u)}
UserRows(u) == IF u = Nobody THEN <<>> ELSE personal[u]

AccessLevel(u) == IF MyGroups(u) = {} THEN 0 ELSE Max(MyGroups(u))
IsAdmin(u) == u # Nobody /\ MyGroups(u) \cap AdminGroups # {}

-----------------------------------------------------------------------------
(* Maps from fields to modes.                                              *)
Listed(rows) == {r.fields : r \in {x \in rows : DOMAIN x.fields # {}}}
Names(maps) == UNION {DOMAIN f : f \in maps}
Either(maps) == [n \in Names(maps) |-> UNION {f[n] : f \in {x \in maps : n \in DOMAIN x}}]
Both(f, g) == [n \in DOMAIN f \cap DOMAIN g |-> f[n] \cap g[n]]
AllOf(maps) == [n \in {x \in Names(maps) : \A f \in maps : x \in DOMAIN f} |->
                  {m \in Modes : \A f \in maps : m \in f[n]}]

(* The fields of the group rows: one row without a list opens them all, and *)
(* so does having no row.                                                   *)
GroupFields(rows) ==
  IF rows = {} \/ \E r \in rows : DOMAIN r.fields = {} THEN AnyField ELSE Either(Listed(rows))

(* A role's lists become the list, or are met with the one that is there.   *)
RoleFields(fields, rows) ==
  IF Listed(rows) = {} THEN fields
  ELSE IF fields = AnyField THEN AllOf(Listed(rows))
  ELSE Both(fields, AllOf(Listed(rows)))

(* A user's own row replaces whatever there was, the last row of several.   *)
UserFields(fields, rows) ==
  IF rows = <<>> THEN fields
  ELSE IF DOMAIN rows[Len(rows)].fields = {} THEN AnyField ELSE rows[Len(rows)].fields

(* Filters go the same way; a group's or a user's row speaks of them only   *)
(* when it grants the mode, a role's always does.                           *)
Filtering(rows) == {r \in rows : "filters" \in r.modes}
FilterLists(rows) == {r.filters : r \in {x \in rows : x.filters # {}}}
AllFilters(rows) == {n \in UNION FilterLists(rows) : \A l \in FilterLists(rows) : n \in l}

GroupFilters(rows) ==
  IF Filtering(rows) = {} \/ \E r \in Filtering(rows) : r.filters = {} THEN AnyFilter
  ELSE UNION FilterLists(Filtering(rows))
RoleFilters(filters, rows) ==
  IF FilterLists(rows) = {} THEN filters
  ELSE IF filters = AnyFilter THEN AllFilters(rows)
  ELSE filters \cap AllFilters(rows)
UserFilters(filters, rows) ==
  FoldLeft(LAMBDA f, r : IF "filters" \notin r.modes THEN f
                         ELSE IF r.filters = {} THEN AnyFilter ELSE r.filters, filters, rows)

GroupModes(modes, rows) == modes \cup UNION {r.modes : r \in rows}
\* Mutant: a role's row grants its modes.
RoleModesGrant(modes, rows) == modes \cup UNION {r.modes : r \in rows}
RoleModes(modes, rows) == {m \in modes : \A r \in rows : m \in r.modes}
UserModes(modes, rows) == modes \cup UNION {r.modes : r \in Range(rows)}

(* resolveSessionRights.                                                    *)
Resolved(u) ==
  [user    |-> u,
   modes   |-> UserModes(RoleModes(GroupModes(DefaultModes(default), GroupRows(u)),
                                   RoleRows(u)), UserRows(u)),
   fields  |-> UserFields(RoleFields(GroupFields(GroupRows(u)), RoleRows(u)), UserRows(u)),
   filters |-> UserFilters(RoleFilters(GroupFilters(GroupRows(u)), RoleRows(u)), UserRows(u)),
   level   |-> AccessLevel(u),
   admin   |-> IsAdmin(u)]

HasMode(rights, mode) == rights.admin \/ mode \in rights.modes

(* The modes a user has a field in, unless it is one of the engine's own.   *)
FieldModes(rights, field) ==
  IF rights.fields = AnyField THEN Modes
  ELSE IF field \in DOMAIN rights.fields THEN rights.fields[field] ELSE {}

-----------------------------------------------------------------------------
NoQuery == [at |-> "none", user |-> Nobody, modes |-> {}, since |-> 0, whole |-> TRUE]

RightsInit ==
  /\ default \in Permissions
  /\ granted = [g \in Groups |-> {}]
  /\ ceiling = [g \in Groups |-> {}]
  /\ personal = [u \in Users |-> <<>>]
  /\ query = NoQuery
  /\ writes = 0

(* An administrator enters or deletes a row; an edit is one after the other.*)
Written == writes < MaxWrites /\ writes' = writes + 1

WriteGroupRow(g, r) ==
  /\ Written
  /\ granted' = [granted EXCEPT ![g] = IF r \in @ THEN @ \ {r} ELSE @ \cup {r}]
  /\ UNCHANGED <<default, ceiling, personal, query>>

WriteRoleRow(g, r) ==
  /\ Written
  /\ ceiling' = [ceiling EXCEPT ![g] = IF r \in @ THEN @ \ {r} ELSE @ \cup {r}]
  /\ UNCHANGED <<default, granted, personal, query>>

WriteUserRow(u, r) ==
  /\ Written
  /\ personal' = [personal EXCEPT ![u] =
       IF r \in Range(@) THEN RemoveAt(@, CHOOSE i \in DOMAIN @ : @[i] = r) ELSE Append(@, r)]
  /\ UNCHANGED <<default, granted, ceiling, query>>

(* ResolveModuleModeRights, query by query; one that fails adds nothing and  *)
(* takes nothing away.                                                      *)
AskGroups(u, ok) ==
  /\ query.at = "none"
  /\ query' = [at |-> IF u = Nobody THEN "done" ELSE "roles", user |-> u, since |-> writes,
               whole |-> ok,
               modes |-> GroupModes(DefaultModes(default), IF ok THEN GroupRows(u) ELSE {})]
  /\ UNCHANGED tables

AskRoles(ok) ==
  /\ query.at = "roles"
  /\ query' = [query EXCEPT !.at = "users", !.whole = @ /\ ok,
                            !.modes = IF ok THEN RoleModes(@, RoleRows(query.user)) ELSE @]
  /\ UNCHANGED tables

\* Mutant: a user's own row replaces what the groups grant.
AskUsersReplace(ok) ==
  /\ query.at = "users"
  /\ query' = [query EXCEPT !.at = "done", !.whole = @ /\ ok,
                            !.modes = UserModes({}, UserRows(query.user))]
  /\ UNCHANGED tables

AskUsers(ok) ==
  /\ query.at = "users"
  /\ query' = [query EXCEPT !.at = "done", !.whole = @ /\ ok,
                            !.modes = IF ok THEN UserModes(@, UserRows(query.user)) ELSE @]
  /\ UNCHANGED tables

(* The page or menu is built from the modes.                                *)
Answer ==
  /\ query.at = "done"
  /\ query' = NoQuery
  /\ UNCHANGED tables

RightsNext ==
  \/ \E g \in Groups, r \in Rows : WriteGroupRow(g, r) \/ WriteRoleRow(g, r)
  \/ \E u \in Users, r \in Rows : WriteUserRow(u, r)
  \/ \E ok \in BOOLEAN :
       (\E u \in Users \cup {Nobody} : AskGroups(u, ok)) \/ AskRoles(ok) \/ AskUsers(ok)
  \/ Answer

RightsSpec == RightsInit /\ [][RightsNext]_rightsVars

-----------------------------------------------------------------------------
(* Properties.                                                             *)

RightsTypeOK ==
  /\ default \in Permissions
  /\ granted \in [Groups -> SUBSET Rows] /\ ceiling \in [Groups -> SUBSET Rows]
  /\ personal \in [Users -> Seq(Rows)]
  /\ query \in [at: {"none", "roles", "users", "done"}, user: Users \cup {Nobody},
                modes: SUBSET Modes, since: 0..MaxWrites, whole: BOOLEAN]
  /\ writes \in 0..MaxWrites

(* The two resolvers agree: unless an administrator wrote in between or a   *)
(* query failed, the three queries find the modes a session is given        *)
(* (ResolveModuleModeRights, resolveSessionRights).                         *)
ResolversAgree ==
  query.at = "done" /\ query.since = writes /\ query.whole => query.modes = Resolved(query.user).modes

(* "A role can narrow what a user's group grants but never exceed it, and   *)
(* never restricts rights an admin granted the user individually": whatever *)
(* a role's rows say, each mode comes from the default, a group's row or    *)
(* the user's own, and what the user's own rows grant is there              *)
(* (applyRoleCeiling).                                                      *)
RolesOnlyNarrow ==
  \A u \in Users :
    LET got   == Resolved(u)
        group == GroupFields(GroupRows(u))
        own   == UserRows(u)
    IN  /\ UserModes({}, own) \subseteq got.modes
        /\ got.modes \subseteq UserModes(GroupModes(DefaultModes(default), GroupRows(u)), own)
        /\ own = <<>> /\ group # AnyField =>
             \A f \in DOMAIN group : FieldModes(got, f) \subseteq group[f]
        /\ own # <<>> => got.fields = UserFields(AnyField, own)
=============================================================================
