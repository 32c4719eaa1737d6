----------------------------- MODULE EngineProofs -----------------------------
(***************************************************************************)
(* What holds of a module, its rights and its fieldsets for every value of *)
(* the constants.                                                          *)
(***************************************************************************)
EXTENDS MCModuleEngine, FiniteSetTheorems, TLAPS

vars == <<rightsVars, engineVars, fieldsetsVars, kind>>

-----------------------------------------------------------------------------
(* Rights.  The three queries of a resolution go through the stages of what *)
(* a session is given, as long as nobody has written: RightsInv says so of  *)
(* every place of it.                                                       *)
GroupStage(u) == GroupModes(DefaultModes(default), GroupRows(u))
RoleStage(u) == RoleModes(GroupStage(u), RoleRows(u))
UserStage(u) == UserModes(RoleStage(u), UserRows(u))

NamesAreFields == \A g \in Groups : \A r \in granted[g] : "any field" \notin DOMAIN r.fields

Stages ==
  /\ query.at \in {"none", "roles", "users", "done"}
  /\ query.since \in Nat /\ query.since <= writes
  /\ query.at \in {"roles", "users"} => query.user # Nobody
  /\ query.since = writes /\ query.whole =>
       /\ query.at = "roles" => query.modes = GroupStage(query.user)
       /\ query.at = "users" => query.modes = RoleStage(query.user)
       /\ query.at = "done"  => query.modes = UserStage(query.user)

QueryShape == DOMAIN query = {"at", "user", "modes", "since", "whole"}

RightsInv ==
  /\ DOMAIN granted = Groups /\ NamesAreFields
  /\ writes \in Nat /\ QueryShape /\ Stages

LEMMA ResolvedIsUserStage == \A u : Resolved(u).modes = UserStage(u)
BY DEF Resolved, UserStage, RoleStage, GroupStage

(* For a guest there is nothing but the groups' rows.                       *)
LEMMA GuestStage == UserStage(Nobody) = GroupStage(Nobody)
<1>1. RoleRows(Nobody) = {} /\ UserRows(Nobody) = <<>>
  BY DEF RoleRows, UserRows
<1>2. \A modes : RoleModes(modes, {}) = modes
  BY DEF RoleModes
<1>3. Range(<<>>) = {}
  BY DEF Range
<1>4. \A modes : UserModes(modes, <<>>) = modes
  BY <1>3 DEF UserModes
<1> QED
  BY <1>1, <1>2, <1>4 DEF UserStage, RoleStage

(* What a role's rows make of the groups' fields is within them.            *)
LEMMA RoleFieldsNarrow ==
  ASSUME NEW group, NEW given, group # AnyField, "any field" \notin DOMAIN group,
         NEW f \in DOMAIN group, NEW got, got.fields = RoleFields(group, given)
  PROVE  FieldModes(got, f) \subseteq group[f]
<1>1. CASE Listed(given) = {}
  <2>1. got.fields = group
    BY <1>1 DEF RoleFields
  <2> QED BY <2>1 DEF FieldModes
<1>2. CASE Listed(given) # {}
  <2> DEFINE all == AllOf(Listed(given))
  <2>1. got.fields = Both(group, all)
    BY <1>2 DEF RoleFields
  <2> HIDE DEF all
  <2>2. DOMAIN Both(group, all) = DOMAIN group \cap DOMAIN all
    BY DEF Both
  <2>3. "any field" \in DOMAIN AnyField
    BY DEF AnyField
  <2>4. got.fields # AnyField
    BY <2>1, <2>2, <2>3
  <2>5. f \in DOMAIN Both(group, all) => Both(group, all)[f] = group[f] \cap all[f]
    BY DEF Both
  <2> QED
    BY <2>1, <2>4, <2>5 DEF FieldModes
<1> QED BY <1>1, <1>2

LEMMA GroupFieldsAreNames ==
  ASSUME NEW given, \A r \in given : "any field" \notin DOMAIN r.fields,
         GroupFields(given) # AnyField
  PROVE  "any field" \notin DOMAIN GroupFields(given)
<1>1. GroupFields(given) = Either(Listed(given))
  BY DEF GroupFields
<1>2. DOMAIN Either(Listed(given)) = Names(Listed(given))
  BY DEF Either
<1>3. "any field" \notin Names(Listed(given))
  BY DEF Names, Listed
<1> QED BY <1>1, <1>2, <1>3

LEMMA RolesNarrow ==
  ASSUME DOMAIN granted = Groups, NamesAreFields
  PROVE  RolesOnlyNarrow
<1> SUFFICES ASSUME NEW u \in Users
             PROVE  /\ UserModes({}, UserRows(u)) \subseteq Resolved(u).modes
                    /\ Resolved(u).modes \subseteq UserModes(GroupStage(u), UserRows(u))
                    /\ UserRows(u) = <<>> /\ GroupFields(GroupRows(u)) # AnyField =>
                         \A f \in DOMAIN GroupFields(GroupRows(u)) :
                           FieldModes(Resolved(u), f) \subseteq GroupFields(GroupRows(u))[f]
                    /\ UserRows(u) # <<>> => Resolved(u).fields = UserFields(AnyField, UserRows(u))
  BY DEF RolesOnlyNarrow, GroupStage
<1>1. Resolved(u).modes = UserModes(RoleStage(u), UserRows(u))
  BY ResolvedIsUserStage DEF UserStage
<1>2. RoleStage(u) \subseteq GroupStage(u)
  BY DEF RoleStage, RoleModes
<1>3. UserModes({}, UserRows(u)) \subseteq Resolved(u).modes
  BY <1>1 DEF UserModes
<1>4. Resolved(u).modes \subseteq UserModes(GroupStage(u), UserRows(u))
  BY <1>1, <1>2 DEF UserModes
<1>5. Resolved(u).fields = UserFields(RoleFields(GroupFields(GroupRows(u)), RoleRows(u)), UserRows(u))
  BY DEF Resolved
<1>6. ASSUME UserRows(u) = <<>>, GroupFields(GroupRows(u)) # AnyField,
             NEW f \in DOMAIN GroupFields(GroupRows(u))
      PROVE  FieldModes(Resolved(u), f) \subseteq GroupFields(GroupRows(u))[f]
  <2>1. MyGroups(u) \subseteq Groups
    BY RightsAssumption DEF MyGroups
  <2>2. \A r \in GroupRows(u) : "any field" \notin DOMAIN r.fields
    BY <2>1 DEF GroupRows, NamesAreFields
  <2>3. "any field" \notin DOMAIN GroupFields(GroupRows(u))
    BY <1>6, <2>2, GroupFieldsAreNames
  <2>4. Resolved(u).fields = RoleFields(GroupFields(GroupRows(u)), RoleRows(u))
    BY <1>5, <1>6 DEF UserFields
  <2> QED BY <1>6, <2>3, <2>4, RoleFieldsNarrow
<1>7. UserRows(u) # <<>> => Resolved(u).fields = UserFields(AnyField, UserRows(u))
  BY <1>5 DEF UserFields
<1> QED BY <1>3, <1>4, <1>6, <1>7

LEMMA RightsStart == MCInit => RightsInv
<1> SUFFICES ASSUME MCInit PROVE RightsInv OBVIOUS
<1>1. query = NoQuery /\ writes = 0
  BY DEF MCInit, RightsInit
<1>2. DOMAIN granted = Groups
  BY DEF MCInit, RightsInit
<1>3. NamesAreFields
  <2>1. "any field" \notin DOMAIN AuthorRow.fields
    BY DEF AuthorRow, Map
  <2>2. "any field" \notin DOMAIN ReaderRow.fields
    BY DEF ReaderRow
  <2>3. \A g \in Groups : granted[g] \subseteq {AuthorRow, ReaderRow}
    BY DEF MCInit, RightsInit
  <2> QED BY <2>1, <2>2, <2>3 DEF NamesAreFields
<1> QED BY <1>1, <1>2, <1>3 DEF RightsInv, QueryShape, Stages, NoQuery

(* A row entered or deleted: what was found before it no longer counts.     *)
LEMMA WritingKeepsStages ==
  ASSUME RightsInv, Written, UNCHANGED query
  PROVE  writes' \in Nat /\ QueryShape' /\ Stages'
<1>1. writes' = writes + 1 /\ query' = query
  BY DEF Written
<1> QED BY <1>1 DEF RightsInv, QueryShape, Stages

LEMMA RightsNextKeeps ==
  ASSUME RightsInv, RightsNext
  PROVE  RightsInv'
<1>1. ASSUME NEW g \in Groups, NEW r \in Rows, WriteGroupRow(g, r)
      PROVE  RightsInv'
  <2>1. Written /\ UNCHANGED query
    BY <1>1 DEF WriteGroupRow
  <2>2. DOMAIN granted' = Groups
    BY <1>1 DEF WriteGroupRow, RightsInv
  <2>3. \A h \in Groups : granted'[h] \subseteq granted[h] \cup {r}
    BY <1>1 DEF WriteGroupRow, RightsInv
  <2>4. "any field" \notin DOMAIN r.fields
    BY RightsAssumption
  <2>5. NamesAreFields'
    BY <2>3, <2>4 DEF RightsInv, NamesAreFields
  <2> QED BY <2>1, <2>2, <2>5, WritingKeepsStages DEF RightsInv
<1>2. ASSUME NEW g \in Groups, NEW r \in Rows, WriteRoleRow(g, r)
      PROVE  RightsInv'
  <2>1. Written /\ UNCHANGED <<query, granted>>
    BY <1>2 DEF WriteRoleRow
  <2> QED BY <2>1, WritingKeepsStages DEF RightsInv, NamesAreFields
<1>3. ASSUME NEW u \in Users, NEW r \in Rows, WriteUserRow(u, r)
      PROVE  RightsInv'
  <2>1. Written /\ UNCHANGED <<query, granted>>
    BY <1>3 DEF WriteUserRow
  <2> QED BY <2>1, WritingKeepsStages DEF RightsInv, NamesAreFields
<1>4. ASSUME UNCHANGED tables, QueryShape', Stages'
      PROVE  RightsInv'
  BY <1>4 DEF tables, RightsInv, NamesAreFields
<1>5. ASSUME UNCHANGED tables
      PROVE  \A u : /\ GroupStage(u)' = GroupStage(u) /\ RoleStage(u)' = RoleStage(u)
                    /\ UserStage(u)' = UserStage(u)
  BY <1>5 DEF tables, GroupStage, RoleStage, UserStage, GroupRows, RoleRows, UserRows
<1>6. ASSUME NEW u \in Users \cup {Nobody}, NEW ok \in BOOLEAN, AskGroups(u, ok)
      PROVE  RightsInv'
  <2>1. UNCHANGED tables /\ writes' = writes
    BY <1>6 DEF AskGroups, tables
  <2>2. /\ query'.at = (IF u = Nobody THEN "done" ELSE "roles") /\ query'.user = u
        /\ query'.since = writes /\ query'.whole = ok
        /\ ok => query'.modes = GroupStage(u)
    BY <1>6 DEF AskGroups, GroupStage
  <2>3. QueryShape'
    BY <1>6 DEF AskGroups, QueryShape
  <2>4. GroupStage(u)' = GroupStage(u) /\ (u = Nobody => UserStage(u)' = GroupStage(u))
    BY <2>1, <1>5, GuestStage
  <2>5. writes \in Nat
    BY DEF RightsInv
  <2>6. ASSUME u = Nobody PROVE Stages'
    BY <2>1, <2>2, <2>4, <2>5, <2>6 DEF Stages
  <2>7. ASSUME u # Nobody PROVE Stages'
    BY <2>1, <2>2, <2>4, <2>5, <2>7 DEF Stages
  <2> QED BY <1>4, <2>1, <2>3, <2>6, <2>7
<1>7. ASSUME NEW ok \in BOOLEAN, AskRoles(ok)
      PROVE  RightsInv'
  <2>1. UNCHANGED tables /\ writes' = writes
    BY <1>7 DEF AskRoles, tables
  <2>2. /\ query'.at = "users" /\ query'.user = query.user /\ query'.since = query.since
        /\ query'.whole = (query.whole /\ ok)
        /\ ok => query'.modes = RoleModes(query.modes, RoleRows(query.user))
    BY <1>7, Zenon DEF AskRoles, QueryShape, RightsInv
  <2>3. QueryShape'
    BY <1>7 DEF AskRoles, QueryShape, RightsInv
  <2>4. query.at = "roles"
    BY <1>7 DEF AskRoles
  <2>5. Stages'
    BY <2>1, <2>2, <2>4, <1>5 DEF Stages, RightsInv, RoleStage
  <2> QED BY <1>4, <2>1, <2>3, <2>5
<1>8. ASSUME NEW ok \in BOOLEAN, AskUsers(ok)
      PROVE  RightsInv'
  <2>1. UNCHANGED tables /\ writes' = writes
    BY <1>8 DEF AskUsers, tables
  <2>2. /\ query'.at = "done" /\ query'.user = query.user /\ query'.since = query.since
        /\ query'.whole = (query.whole /\ ok)
        /\ ok => query'.modes = UserModes(query.modes, UserRows(query.user))
    BY <1>8, Zenon DEF AskUsers, QueryShape, RightsInv
  <2>3. QueryShape'
    BY <1>8 DEF AskUsers, QueryShape, RightsInv
  <2>4. query.at = "users"
    BY <1>8 DEF AskUsers
  <2>5. Stages'
    BY <2>1, <2>2, <2>4, <1>5 DEF Stages, RightsInv, UserStage
  <2> QED BY <1>4, <2>1, <2>3, <2>5
<1>9. ASSUME Answer PROVE RightsInv'
  <2>1. UNCHANGED tables /\ writes' = writes /\ query' = NoQuery
    BY <1>9 DEF Answer, tables
  <2>2. query'.at = "none" /\ query'.since = 0 /\ QueryShape'
    BY <2>1 DEF QueryShape, NoQuery
  <2>3. writes \in Nat
    BY DEF RightsInv
  <2>4. query'.at \notin {"roles", "users", "done"}
    BY <2>2
  <2>5. query'.since \in Nat /\ query'.since <= writes'
    BY <2>1, <2>2, <2>3
  <2>6. Stages'
    BY <2>2, <2>4, <2>5, Zenon DEF Stages
  <2> QED BY <1>4, <2>1, <2>2, <2>6
<1> QED BY <1>1, <1>2, <1>3, <1>6, <1>7, <1>8, <1>9 DEF RightsNext

(* Whatever administrators enter and whoever's modes are resolved meanwhile: *)
(* the two resolvers agree unless a write or a failure came between, a role  *)
(* takes away from what the groups grant and gives nothing, and the user's   *)
(* own rows are left alone (resolveSessionRights, ResolveModuleModeRights,   *)
(* applyRoleCeiling).                                                        *)
THEOREM RightsAreSound == MCSpec => []RightsSound
<1>1. RightsInv /\ [MCNext]_vars => RightsInv'
  <2> SUFFICES ASSUME RightsInv, [MCNext]_vars PROVE RightsInv' OBVIOUS
  <2>1. RightsNext \/ UNCHANGED rightsVars
    BY DEF MCNext, vars
  <2>2. ASSUME UNCHANGED rightsVars PROVE RightsInv'
    <3>1. granted' = granted /\ query' = query /\ writes' = writes
      BY <2>2 DEF rightsVars, tables
    <3>2. \A u : /\ GroupStage(u)' = GroupStage(u) /\ RoleStage(u)' = RoleStage(u)
                 /\ UserStage(u)' = UserStage(u)
      BY <2>2 DEF rightsVars, tables, GroupStage, RoleStage, UserStage, GroupRows, RoleRows, UserRows
    <3> QED BY <3>1, <3>2 DEF RightsInv, NamesAreFields, QueryShape, Stages
  <2> QED BY <2>1, <2>2, RightsNextKeeps
<1>2. RightsInv => RightsSound
  <2> SUFFICES ASSUME RightsInv PROVE RightsSound OBVIOUS
  <2>1. ResolversAgree
    BY ResolvedIsUserStage DEF ResolversAgree, RightsInv, Stages
  <2>2. RolesOnlyNarrow
    BY RolesNarrow DEF RightsInv
  <2> QED BY <2>1, <2>2 DEF RightsSound
<1> QED BY RightsStart, <1>1, <1>2, PTL DEF MCSpec, vars

-----------------------------------------------------------------------------
(* The rows of the table and who may write them.  The keys a sequence has   *)
(* given out stay behind it, so no new row comes under a key that a request *)
(* was allowed to write; and the author of a row is one of the fields that  *)
(* are only read.                                                           *)
MayStill(v, id) == v.admin \/ ~AuthorOnly \/ (id \in DOMAIN rows => rows[id]["created_by"] = v.user)

ReadPlaces == {"lookup", "store", "select", "count", "answer"}
WritePlaces == {"update", "delete"}

RequestOK(r) ==
  /\ "at" \in DOMAIN r
  /\ "quiet" \in DOMAIN r => r.at \in ReadPlaces
  /\ r.at = "authorize" =>
       /\ {"then", "viewer", "key"} \subseteq DOMAIN r
       /\ r.then \in WritePlaces /\ r.key \in 1..lastId
  /\ r.at \in WritePlaces => r.key \in 1..lastId /\ MayStill(r.viewer, r.key)

TableOK ==
  /\ lastId \in Nat /\ DOMAIN rows \subseteq 1..lastId
  /\ \A id \in DOMAIN rows : DOMAIN rows[id] = Stored
  /\ columns \subseteq Stored

WorkersOK == DOMAIN worker = Workers /\ \A w \in Workers : RequestOK(worker[w])

EngineInv == TableOK /\ WorkersOK

(* No author changes and no key comes back: what a request may still write   *)
(* it may write after a step.                                                *)
KeepsAuthors ==
  /\ config' = config /\ lastId' \in Nat /\ lastId' >= lastId
  /\ \A id \in 1..lastId : id \in DOMAIN rows' =>
       id \in DOMAIN rows /\ rows'[id]["created_by"] = rows[id]["created_by"]

LEMMA MayStillLater ==
  ASSUME KeepsAuthors, lastId \in Nat, NEW v, NEW id \in 1..lastId, MayStill(v, id)
  PROVE  /\ id \in 1..lastId'
         /\ v.admin \/ ~AuthorOnly' \/ (id \in DOMAIN rows' => rows'[id]["created_by"] = v.user)
<1>1. AuthorOnly' = AuthorOnly
  BY DEF AuthorOnly, KeepsAuthors
<1>2. id \in 1..lastId'
  BY DEF KeepsAuthors
<1>3. v.admin \/ ~AuthorOnly \/ (id \in DOMAIN rows => rows[id]["created_by"] = v.user)
  BY DEF MayStill
<1>4. id \in DOMAIN rows' => id \in DOMAIN rows /\ rows'[id]["created_by"] = rows[id]["created_by"]
  BY DEF KeepsAuthors
<1> QED BY <1>1, <1>2, <1>3, <1>4, Zenon

LEMMA OthersStand ==
  ASSUME KeepsAuthors, lastId \in Nat, NEW x \in Workers, RequestOK(worker[x]), worker'[x] = worker[x]
  PROVE  RequestOK(worker[x])'
<1> DEFINE r == worker[x]
<1>1. r.at \in WritePlaces => r.key \in 1..lastId' /\ MayStill(worker[x].viewer, worker[x].key)'
  BY MayStillLater DEF RequestOK, MayStill
<1>2. r.at = "authorize" => r.key \in 1..lastId'
  BY DEF RequestOK, KeepsAuthors
<1> QED BY <1>1, <1>2 DEF RequestOK

LEMMA OneMoves ==
  ASSUME TableOK, WorkersOK, KeepsAuthors,
         NEW w \in Workers, NEW r, Becomes(w, r), RequestOK(worker[w])'
  PROVE  WorkersOK'
<1>1. DOMAIN worker' = Workers /\ \A x \in Workers \ {w} : worker'[x] = worker[x]
  BY DEF Becomes, WorkersOK
<1>2. ASSUME NEW x \in Workers, x # w PROVE RequestOK(worker[x])'
  BY <1>1, <1>2, OthersStand DEF WorkersOK, TableOK
<1> QED BY <1>1, <1>2 DEF WorkersOK

LEMMA IdleIsOK == RequestOK(Idle)
BY DEF RequestOK, Idle, WritePlaces

LEMMA OthersDisturbed ==
  ASSUME TableOK, WorkersOK, KeepsAuthors, NEW w \in Workers, Disturbs(w)
  PROVE  WorkersOK' /\ worker'[w] = Idle
<1>1. DOMAIN worker' = Workers /\ worker'[w] = Idle
  BY DEF Disturbs, WorkersOK
<1>2. RequestOK(worker[w])'
  BY <1>1 DEF RequestOK, Idle, WritePlaces
<1>3. ASSUME NEW x \in Workers, x # w PROVE RequestOK(worker[x])'
  <2>1. RequestOK(worker[x])
    BY DEF WorkersOK
  <2>2. CASE "quiet" \notin DOMAIN worker[x]
    <3>1. worker'[x] = worker[x]
      BY <1>3, <2>2 DEF Disturbs
    <3> QED BY <2>1, <3>1, OthersStand DEF TableOK
  <2>3. CASE "quiet" \in DOMAIN worker[x]
    <3>1. worker'[x] = [worker[x] EXCEPT !.quiet = FALSE]
      BY <1>3, <2>3 DEF Disturbs
    <3>2. worker[x].at \in ReadPlaces /\ "at" \in DOMAIN worker[x]
      BY <2>1, <2>3 DEF RequestOK
    <3>3. "at" \in DOMAIN worker'[x] /\ worker'[x].at = worker[x].at
      BY <3>1, <3>2
    <3> QED BY <3>2, <3>3 DEF RequestOK, ReadPlaces, WritePlaces
  <2> QED BY <2>2, <2>3
<1> QED BY <1>1, <1>2, <1>3 DEF WorkersOK

LEMMA EngineStart == MCInit => EngineInv
<1> SUFFICES ASSUME MCInit PROVE EngineInv OBVIOUS
<1>1. EngineInit
  BY DEF MCInit
<1>2. lastId \in Nat
  BY <1>1, EngineAssumption, FS_CardinalityType DEF EngineInit
<1>3. DOMAIN rows \subseteq 1..lastId /\ \A id \in DOMAIN rows : DOMAIN rows[id] = Stored
  BY <1>1, EngineAssumption DEF EngineInit
<1>4. columns \subseteq Stored
  BY <1>1, EngineAssumption DEF EngineInit
<1>5. WorkersOK
  BY <1>1, IdleIsOK DEF EngineInit, WorkersOK
<1> QED BY <1>2, <1>3, <1>4, <1>5 DEF EngineInv, TableOK

(* A step that leaves the table alone.                                       *)
LEMMA TableAlone ==
  ASSUME TableOK, UNCHANGED <<config, rows, lastId>>
  PROVE  KeepsAuthors /\ (columns' \subseteq Stored => TableOK')
BY DEF TableOK, KeepsAuthors

LEMMA ArrivesKeeps ==
  ASSUME EngineInv, NEW w \in Workers, NEW u, NEW mode, NEW r, Arrives(w, u, mode, r), RequestOK(r)
  PROVE  EngineInv'
<1>1. Becomes(w, r) /\ UNCHANGED <<config, rows, lastId, columns>>
  BY DEF Arrives, table, schema
<1>2. worker'[w] = r
  BY <1>1 DEF Becomes, EngineInv, WorkersOK
<1>3. RequestOK(worker[w])'
  BY <1>1, <1>2 DEF RequestOK, MayStill, AuthorOnly
<1> QED BY <1>1, <1>3, TableAlone, OneMoves DEF EngineInv, TableOK

LEMMA NewRequestsAreOK ==
  ASSUME TableOK, NEW u, NEW mode, NEW id \in 1..lastId, NEW key, NEW ask, NEW body
  PROVE  /\ RequestOK(Reading(u, key, ask))
         /\ RequestOK([at |-> "insert", viewer |-> Resolved(u), body |-> body])
         /\ RequestOK([at |-> "authorize", then |-> "update", viewer |-> Resolved(u),
                       key |-> id, body |-> body])
         /\ RequestOK([at |-> "authorize", then |-> "delete", viewer |-> Resolved(u), key |-> id])
<1> DEFINE v == Resolved(u)
<1> HIDE DEF v
<1>1. RequestOK(Reading(u, key, ask))
  BY DEF RequestOK, Reading, ReadPlaces, WritePlaces
<1>2. RequestOK([at |-> "insert", viewer |-> v, body |-> body])
  BY DEF RequestOK, WritePlaces
<1>3. RequestOK([at |-> "authorize", then |-> "update", viewer |-> v, key |-> id, body |-> body])
  BY DEF RequestOK, WritePlaces
<1>4. RequestOK([at |-> "authorize", then |-> "delete", viewer |-> v, key |-> id])
  BY DEF RequestOK, WritePlaces
<1> QED BY <1>1, <1>2, <1>3, <1>4 DEF v

LEMMA RequestsBegin ==
  ASSUME EngineInv, NEW w \in Workers, NEW u,
         \/ \E ask \in Asks : List(w, u, ask)
         \/ \E id \in 1..lastId : View(w, u, id) \/ Delete(w, u, id)
         \/ \E body \in Bodies : Create(w, u, body) \/ \E id \in 1..lastId : Edit(w, u, id, body)
  PROVE  EngineInv' /\ UNCHANGED rows
<1>1. ASSUME NEW ask \in Asks, List(w, u, ask) PROVE EngineInv' /\ UNCHANGED rows
  <2>1. RequestOK(Reading(u, AnyKey, ask))
    BY DEF RequestOK, Reading, ReadPlaces, WritePlaces
  <2> QED BY <1>1, <2>1, ArrivesKeeps DEF List, Arrives, table
<1>2. ASSUME NEW id \in 1..lastId, View(w, u, id) PROVE EngineInv' /\ UNCHANGED rows
  <2>1. RequestOK(Reading(u, id, Plain))
    BY DEF RequestOK, Reading, ReadPlaces, WritePlaces
  <2> QED BY <1>2, <2>1, ArrivesKeeps DEF View, Arrives, table
<1>3. ASSUME NEW id \in 1..lastId, Delete(w, u, id) PROVE EngineInv' /\ UNCHANGED rows
  BY <1>3, NewRequestsAreOK, ArrivesKeeps DEF Delete, Arrives, table, EngineInv
<1>4. ASSUME NEW body \in Bodies, Create(w, u, body) PROVE EngineInv' /\ UNCHANGED rows
  <2>1. RequestOK([at |-> "insert", viewer |-> Resolved(u), body |-> body])
    BY DEF RequestOK, WritePlaces
  <2> QED BY <1>4, <2>1, ArrivesKeeps DEF Create, Arrives, table
<1>5. ASSUME NEW body \in Bodies, NEW id \in 1..lastId, Edit(w, u, id, body)
      PROVE  EngineInv' /\ UNCHANGED rows
  BY <1>5, NewRequestsAreOK, ArrivesKeeps DEF Edit, Arrives, table, EngineInv
<1> QED BY <1>1, <1>2, <1>3, <1>4, <1>5

(* The steps that read, and a failure: whatever becomes of the request, it   *)
(* is not on its way to write.                                               *)
LEMMA ReadsOn ==
  ASSUME EngineInv, NEW w \in Workers, NEW r, Becomes(w, r),
         "at" \in DOMAIN r, r.at \in ReadPlaces,
         UNCHANGED <<config, rows, lastId, columns>>
  PROVE  EngineInv'
<1>1. worker'[w] = r
  BY DEF Becomes, EngineInv, WorkersOK
<1>2. RequestOK(worker[w])'
  BY <1>1 DEF RequestOK, ReadPlaces, WritePlaces
<1> QED BY <1>2, TableAlone, OneMoves DEF EngineInv, TableOK

LEMMA GoesIdle ==
  ASSUME EngineInv, NEW w \in Workers, Becomes(w, Idle), UNCHANGED <<config, rows, lastId, columns>>
  PROVE  EngineInv'
<1>1. worker'[w] = Idle
  BY DEF Becomes, EngineInv, WorkersOK
<1>2. RequestOK(worker[w])'
  BY <1>1 DEF RequestOK, Idle, WritePlaces
<1> QED BY <1>2, TableAlone, OneMoves DEF EngineInv, TableOK

LEMMA ReadStepKeeps ==
  ASSUME EngineInv, NEW w \in Workers, ReadStep(w) \/ Fail(w)
  PROVE  EngineInv' /\ UNCHANGED rows
<1>0. "at" \in DOMAIN worker[w]
  BY DEF EngineInv, WorkersOK, RequestOK
<1>1. ASSUME NEW ok \in BOOLEAN, Lookup(w, ok) PROVE EngineInv' /\ UNCHANGED rows
  <2>1. UNCHANGED <<config, rows, lastId, columns>>
    BY <1>1 DEF Lookup, table, schema
  <2>2. CASE cached # {}
    <3> DEFINE r == [worker[w] EXCEPT !.at = "select", !.cols = cached]
    <3>1. "at" \in DOMAIN r /\ r.at = "select"
      BY <1>0
    <3>2. Becomes(w, r)
      BY <1>1, <2>2 DEF Lookup
    <3> HIDE DEF r
    <3> QED BY <2>1, <3>1, <3>2, ReadsOn DEF ReadPlaces
  <2>3. CASE cached = {}
    <3> DEFINE r == [worker[w] EXCEPT !.at = "store", !.cols = IF ok THEN columns ELSE {}]
    <3>1. "at" \in DOMAIN r /\ r.at = "store"
      BY <1>0
    <3>2. Becomes(w, r)
      BY <1>1, <2>3 DEF Lookup
    <3> HIDE DEF r
    <3> QED BY <2>1, <3>1, <3>2, ReadsOn DEF ReadPlaces
  <2> QED BY <2>2, <2>3
<1>2. ASSUME StoreColumns(w) PROVE EngineInv' /\ UNCHANGED rows
  <2>1. UNCHANGED <<config, rows, lastId, columns>>
    BY <1>2 DEF StoreColumns, table
  <2> DEFINE r == [worker[w] EXCEPT !.at = "select"]
  <2>2. "at" \in DOMAIN r /\ r.at = "select"
    BY <1>0
  <2>3. Becomes(w, r)
    BY <1>2 DEF StoreColumns
  <2> HIDE DEF r
  <2> QED BY <2>1, <2>2, <2>3, ReadsOn DEF ReadPlaces
<1>3. ASSUME Select(w) PROVE EngineInv' /\ UNCHANGED rows
  <2>1. UNCHANGED <<config, rows, lastId, columns>>
    BY <1>3 DEF Select, table, schema
  <2> DEFINE Found(page) ==
        [worker[w] EXCEPT !.at = IF page = <<>> THEN "count" ELSE "answer",
                          !.fields = Selected(worker[w]), !.shown = @ \o page,
                          !.total = Cardinality(Scope(worker[w].viewer, worker[w].key, worker[w].ask))]
  <2>2. PICK page : Becomes(w, Found(page))
    BY <1>3 DEF Select
  <2>3. "at" \in DOMAIN Found(page) /\ Found(page).at \in {"count", "answer"}
    BY <1>0
  <2> HIDE DEF Found
  <2> QED BY <2>1, <2>2, <2>3, ReadsOn DEF ReadPlaces
<1>4. ASSUME Count(w) PROVE EngineInv' /\ UNCHANGED rows
  <2>1. UNCHANGED <<config, rows, lastId, columns>>
    BY <1>4 DEF Count, table, schema
  <2> DEFINE r == [worker[w] EXCEPT !.at = "answer",
                     !.total = Cardinality(Scope(worker[w].viewer, worker[w].key, worker[w].ask))]
  <2>2. "at" \in DOMAIN r /\ r.at = "answer"
    BY <1>0
  <2>3. Becomes(w, r)
    BY <1>4 DEF Count
  <2> HIDE DEF r
  <2> QED BY <2>1, <2>2, <2>3, ReadsOn DEF ReadPlaces
<1>5. ASSUME Reply(w) PROVE EngineInv' /\ UNCHANGED rows
  <2>1. UNCHANGED <<config, rows, lastId, columns>>
    BY <1>5 DEF Reply, table, schema
  <2> DEFINE r == [worker[w] EXCEPT !.at = "lookup", !.page = @ + 1, !.cols = {}]
  <2>2. "at" \in DOMAIN r /\ r.at = "lookup"
    BY <1>0
  <2>3. Becomes(w, r) \/ Becomes(w, Idle)
    BY <1>5 DEF Reply
  <2> HIDE DEF r
  <2> QED BY <2>1, <2>2, <2>3, ReadsOn, GoesIdle DEF ReadPlaces
<1>6. ASSUME Fail(w) PROVE EngineInv' /\ UNCHANGED rows
  BY <1>6, GoesIdle DEF Fail, table, schema
<1> QED BY <1>1, <1>2, <1>3, <1>4, <1>5, <1>6 DEF ReadStep

LEMMA AuthorizeKeeps ==
  ASSUME EngineInv, NEW w \in Workers, Authorize(w)
  PROVE  EngineInv' /\ UNCHANGED rows
<1> DEFINE r == worker[w]
           to == [worker[w] EXCEPT !.at = worker[w].then]
<1>1. UNCHANGED <<config, rows, lastId, columns>>
  BY DEF Authorize, table, schema
<1>2. /\ r.at = "authorize" /\ {"at", "then", "viewer", "key"} \subseteq DOMAIN r
      /\ "quiet" \notin DOMAIN r /\ r.then \in WritePlaces /\ r.key \in 1..lastId
  BY DEF Authorize, EngineInv, WorkersOK, RequestOK, ReadPlaces
<1>3. CASE MayWrite(r.viewer, r.key)
  <2>1. Becomes(w, to)
    BY <1>3 DEF Authorize
  <2>2. /\ DOMAIN to = DOMAIN r /\ to.at = r.then /\ to.viewer = r.viewer /\ to.key = r.key
    BY <1>2
  <2>3. MayStill(r.viewer, r.key)
    BY <1>3 DEF MayWrite, MayStill
  <2> HIDE DEF to
  <2>4. worker'[w] = to
    BY <2>1 DEF Becomes, EngineInv, WorkersOK
  <2>5. RequestOK(worker[w])'
    BY <1>1, <1>2, <2>2, <2>3, <2>4 DEF RequestOK, MayStill, AuthorOnly, WritePlaces
  <2> QED BY <1>1, <2>1, <2>5, TableAlone, OneMoves DEF EngineInv, TableOK
<1>4. CASE ~MayWrite(r.viewer, r.key)
  <2>1. Becomes(w, Idle)
    BY <1>4 DEF Authorize
  <2> QED BY <1>1, <2>1, GoesIdle
<1> QED BY <1>3, <1>4

(* The steps that write.                                                     *)
LEMMA InsertKeeps ==
  ASSUME EngineInv, NEW w \in Workers, Insert(w)
  PROVE  EngineInv' /\ \A id \in DOMAIN rows : id \in DOMAIN rows' /\ rows'[id] = rows[id]
<1> DEFINE new == Inserted(worker[w].viewer, worker[w].body)
           row == Over(new, NewRow)
<1>1. /\ UNCHANGED <<config, columns>> /\ lastId' = lastId + 1 /\ DOMAIN new \subseteq columns
      /\ rows' = Over([id \in {lastId'} |-> row], rows) /\ Disturbs(w)
  BY DEF Insert, schema
<1>2. DOMAIN row = Stored
  <2>1. DOMAIN NewRow = Stored
    BY DEF NewRow
  <2> HIDE DEF new
  <2> QED BY <1>1, <2>1 DEF EngineInv, TableOK, Over
<1> HIDE DEF row
<1>3. lastId' \notin DOMAIN rows
  BY <1>1 DEF EngineInv, TableOK
<1>4. /\ DOMAIN rows' = DOMAIN rows \cup {lastId'} /\ rows'[lastId'] = row
      /\ \A id \in DOMAIN rows : rows'[id] = rows[id]
  BY <1>1, <1>3 DEF Over
<1>5. TableOK'
  BY <1>1, <1>2, <1>4 DEF EngineInv, TableOK
<1>6. KeepsAuthors
  BY <1>1, <1>4 DEF EngineInv, TableOK, KeepsAuthors
<1>7. WorkersOK'
  BY <1>1, <1>6, OthersDisturbed DEF EngineInv
<1> QED BY <1>4, <1>5, <1>7 DEF EngineInv

(* A row is written, or removed.                                             *)
LEMMA UpdateKeeps ==
  ASSUME EngineInv, NEW w \in Workers, Update(w)
  PROVE  /\ EngineInv'
         /\ \A id \in DOMAIN rows :
              id \notin DOMAIN rows' \/ rows'[id] # rows[id] => WrittenBy(w, id)
<1> DEFINE v == worker[w].viewer
           key == worker[w].key
           new == Accepted(v, worker[w].body)
<1>1. /\ worker[w].at = "update" /\ DOMAIN new \subseteq columns
      /\ rows' = IF key \in DOMAIN rows THEN [rows EXCEPT ![key] = Over(new, @)] ELSE rows
      /\ Disturbs(w) /\ UNCHANGED <<config, lastId, columns>>
  BY DEF Update, schema
<1>2. \A n \in DOMAIN new : Writable(v, n)
  BY DEF Accepted, Restrict
<1>3. "created_by" \notin DOMAIN new
  BY <1>2, EngineAssumption DEF Writable
<1>4. DOMAIN new \subseteq Stored
  BY <1>1 DEF EngineInv, TableOK
<1> HIDE DEF new
<1>5. DOMAIN rows' = DOMAIN rows /\ \A id \in DOMAIN rows : id # key => rows'[id] = rows[id]
  BY <1>1
<1>6. ASSUME key \in DOMAIN rows
      PROVE  /\ DOMAIN rows'[key] = Stored
             /\ \A n \in Stored : n \notin DOMAIN new => rows'[key][n] = rows[key][n]
  <2>1. rows'[key] = Over(new, rows[key])
    BY <1>1, <1>6
  <2>2. DOMAIN rows[key] = Stored
    BY <1>6 DEF EngineInv, TableOK
  <2> QED BY <1>4, <2>1, <2>2 DEF Over
<1>7. "created_by" \in Stored
  BY EngineAssumption
<1>8. \A id \in DOMAIN rows : rows'[id]["created_by"] = rows[id]["created_by"]
  BY <1>3, <1>5, <1>6, <1>7
<1>9. TableOK'
  BY <1>1, <1>5, <1>6 DEF EngineInv, TableOK
<1>10. KeepsAuthors
  BY <1>1, <1>5, <1>8 DEF KeepsAuthors, EngineInv, TableOK
<1>11. WorkersOK' /\ worker'[w] = Idle
  BY <1>1, <1>10, OthersDisturbed DEF EngineInv
<1>12. ASSUME NEW id \in DOMAIN rows, id \notin DOMAIN rows' \/ rows'[id] # rows[id]
       PROVE  WrittenBy(w, id)
  <2>1. id = key
    BY <1>5, <1>12
  <2>2. v.admin \/ ~AuthorOnly \/ rows[id]["created_by"] = v.user
    BY <1>1, <1>12, <2>1 DEF EngineInv, WorkersOK, RequestOK, MayStill, WritePlaces
  <2>3. ASSUME NEW n \in Stored, rows'[id][n] # rows[id][n]
        PROVE  n # "created_by" /\ VisibleInSchema(v, n)
    BY <1>2, <1>3, <1>6, <1>12, <2>1, <2>3 DEF Writable
  <2> QED BY <1>1, <1>11, <2>1, <2>2, <2>3 DEF WrittenBy
<1> QED BY <1>9, <1>11, <1>12 DEF EngineInv

LEMMA RemoveKeeps ==
  ASSUME EngineInv, NEW w \in Workers, RemoveRow(w)
  PROVE  /\ EngineInv'
         /\ \A id \in DOMAIN rows :
              id \notin DOMAIN rows' \/ rows'[id] # rows[id] => WrittenBy(w, id)
<1> DEFINE v == worker[w].viewer
           key == worker[w].key
<1>1. /\ worker[w].at = "delete" /\ Disturbs(w) /\ UNCHANGED <<config, lastId, columns>>
      /\ rows' = IF key \notin DOMAIN rows THEN rows
                 ELSE IF config.soft THEN [rows EXCEPT ![key]["deleted"] = TRUE]
                 ELSE Restrict(rows, DOMAIN rows \ {key})
  BY DEF RemoveRow, schema
<1>2. /\ DOMAIN rows' \subseteq DOMAIN rows
      /\ \A id \in DOMAIN rows : id # key => id \in DOMAIN rows' /\ rows'[id] = rows[id]
      /\ key \in DOMAIN rows' => /\ DOMAIN rows'[key] = DOMAIN rows[key]
                                 /\ \A n \in DOMAIN rows[key] : n # "deleted" => rows'[key][n] = rows[key][n]
  <2>1. CASE key \notin DOMAIN rows
    BY <1>1, <2>1
  <2>2. CASE key \in DOMAIN rows /\ config.soft
    <3>1. rows' = [rows EXCEPT ![key] = [rows[key] EXCEPT !["deleted"] = TRUE]]
      BY <1>1, <2>2
    <3>2. DOMAIN rows' = DOMAIN rows /\ rows'[key] = [rows[key] EXCEPT !["deleted"] = TRUE]
      BY <2>2, <3>1
    <3> QED BY <3>1, <3>2
  <2>3. CASE key \in DOMAIN rows /\ ~config.soft
    <3>1. rows' = [id \in DOMAIN rows \ {key} |-> rows[id]]
      BY <1>1, <2>3 DEF Restrict
    <3> QED BY <3>1
  <2> QED BY <2>1, <2>2, <2>3
<1>3. "created_by" \in Stored
  BY EngineAssumption
<1>4. \A id \in DOMAIN rows : DOMAIN rows[id] = Stored
  BY DEF EngineInv, TableOK
<1>5. \A id \in DOMAIN rows' :
        DOMAIN rows'[id] = Stored /\ rows'[id]["created_by"] = rows[id]["created_by"]
  BY <1>2, <1>3, <1>4
<1>6. TableOK'
  BY <1>1, <1>2, <1>5 DEF EngineInv, TableOK
<1>7. KeepsAuthors
  <2>1. config' = config /\ lastId' = lastId /\ lastId \in Nat
    BY <1>1 DEF EngineInv, TableOK
  <2> QED BY <1>2, <1>5, <2>1 DEF KeepsAuthors
<1>8. WorkersOK' /\ worker'[w] = Idle
  BY <1>1, <1>7, OthersDisturbed DEF EngineInv
<1>9. ASSUME NEW id \in DOMAIN rows, id \notin DOMAIN rows' \/ rows'[id] # rows[id]
      PROVE  WrittenBy(w, id)
  <2>1. id = key
    BY <1>2, <1>9
  <2>2. v.admin \/ ~AuthorOnly \/ rows[id]["created_by"] = v.user
    BY <1>1, <1>9, <2>1 DEF EngineInv, WorkersOK, RequestOK, MayStill, WritePlaces
  <2>3. ASSUME id \in DOMAIN rows', NEW n \in Stored, rows'[id][n] # rows[id][n]
        PROVE  n # "created_by" /\ n = "deleted"
    BY <1>2, <1>4, <1>9, <2>1, <2>3
  <2> QED BY <1>1, <1>8, <2>1, <2>2, <2>3 DEF WrittenBy
<1> QED BY <1>6, <1>8, <1>9 DEF EngineInv

LEMMA JobKeeps ==
  ASSUME EngineInv, NEW ok \in BOOLEAN, EnsureTable(ok) \/ AddColumns(ok) \/ ForgetColumns
  PROVE  EngineInv' /\ UNCHANGED rows
<1>1. UNCHANGED <<config, rows, lastId, worker>> /\ columns' \in {columns, Stored}
  BY DEF EnsureTable, AddColumns, ForgetColumns, table
<1>2. TableOK'
  BY <1>1, TableAlone DEF EngineInv, TableOK
<1>3. WorkersOK'
  BY <1>1 DEF EngineInv, WorkersOK, RequestOK, MayStill, AuthorOnly
<1> QED BY <1>1, <1>2, <1>3 DEF EngineInv

WritesAreRight ==
  \A id \in DOMAIN rows :
    id \notin DOMAIN rows' \/ rows'[id] # rows[id] => \E w \in Workers : WrittenBy(w, id)

LEMMA EngineNextKeeps ==
  ASSUME EngineInv, EngineNext
  PROVE  EngineInv' /\ WritesAreRight
<1>1. ASSUME EngineInv' /\ UNCHANGED rows PROVE EngineInv' /\ WritesAreRight
  BY <1>1 DEF WritesAreRight
<1>2. ASSUME NEW w \in Workers, NEW u \in Users \cup {Nobody},
             \/ \E ask \in Asks : List(w, u, ask)
             \/ \E id \in 1..lastId : View(w, u, id) \/ Delete(w, u, id)
             \/ \E body \in Bodies : Create(w, u, body) \/ \E id \in 1..lastId : Edit(w, u, id, body)
      PROVE  EngineInv' /\ WritesAreRight
  BY <1>1, <1>2, RequestsBegin
<1>3. ASSUME NEW w \in Workers, ReadStep(w) \/ WriteStep(w) \/ Fail(w)
      PROVE  EngineInv' /\ WritesAreRight
  <2>1. ASSUME ReadStep(w) \/ Fail(w) PROVE EngineInv' /\ WritesAreRight
    BY <1>1, <2>1, ReadStepKeeps
  <2>2. ASSUME Insert(w) PROVE EngineInv' /\ WritesAreRight
    BY <2>2, InsertKeeps DEF WritesAreRight
  <2>3. ASSUME Authorize(w) PROVE EngineInv' /\ WritesAreRight
    BY <1>1, <2>3, AuthorizeKeeps
  <2>4. ASSUME Update(w) PROVE EngineInv' /\ WritesAreRight
    BY <2>4, UpdateKeeps DEF WritesAreRight
  <2>5. ASSUME RemoveRow(w) PROVE EngineInv' /\ WritesAreRight
    BY <2>5, RemoveKeeps DEF WritesAreRight
  <2> QED BY <1>3, <2>1, <2>2, <2>3, <2>4, <2>5 DEF WriteStep
<1>4. ASSUME NEW ok \in BOOLEAN, EnsureTable(ok) \/ AddColumns(ok) \/ ForgetColumns
      PROVE  EngineInv' /\ WritesAreRight
  BY <1>1, <1>4, JobKeeps
<1>5. TRUE \in BOOLEAN
  OBVIOUS
<1> QED BY <1>2, <1>3, <1>4, <1>5 DEF EngineNext

LEMMA EngineStutters ==
  ASSUME EngineInv, UNCHANGED engineVars
  PROVE  EngineInv' /\ WritesAreRight
<1>1. UNCHANGED <<config, rows, lastId, columns, worker>>
  BY DEF engineVars
<1>2. TableOK' /\ WorkersOK'
  BY <1>1 DEF EngineInv, TableOK, WorkersOK, RequestOK, MayStill, AuthorOnly
<1> QED BY <1>1, <1>2 DEF EngineInv, WritesAreRight

(* Whatever happens between the check of a write and the write: a row        *)
(* is changed or removed by a request of an administrator, or of its author  *)
(* where the module is the authors' own, in fields its user is shown, and    *)
(* never changes its author (authorizeWriteBy, filterValidFields).           *)
THEOREM RowsAreWrittenByRight == MCSpec => WritesByRight
<1>1. EngineInv /\ [MCNext]_vars => EngineInv' /\ WritesAreRight
  <2> SUFFICES ASSUME EngineInv, [MCNext]_vars PROVE EngineInv' /\ WritesAreRight OBVIOUS
  <2>1. EngineNext \/ UNCHANGED engineVars
    BY DEF MCNext, vars
  <2> QED BY <2>1, EngineNextKeeps, EngineStutters
<1>2. MCInit => EngineInv
  BY EngineStart
<1>3. EngineInv /\ [MCNext]_vars => [WritesAreRight]_rows
  BY <1>1
<1> QED BY <1>1, <1>2, <1>3, PTL DEF MCSpec, vars, WritesByRight, WritesAreRight
-----------------------------------------------------------------------------
(* The columns of the table, where every look at them is whole.  What a     *)
(* request found is what the table has, or nothing; what is remembered is   *)
(* what the table has, or nothing, except between the change and the        *)
(* forgetting; and a request that came after the job reads no other columns.*)
Known(cols) == cols \in {{}, columns}

ServedFrom(r) ==
  /\ "at" \in DOMAIN r
  /\ r.at \in ReadPlaces =>
       {"cols", "fields", "late", "viewer"} \subseteq DOMAIN r /\ (r.late => job.at = "done")
  /\ r.at = "store" => Known(r.cols)
  /\ r.at = "select" /\ r.late => Known(r.cols)
  /\ r.at \in {"count", "answer"} /\ r.late => r.fields = {n \in columns : Readable(r.viewer, n)}

ColumnsInv ==
  /\ DOMAIN worker = Workers /\ columns \subseteq Stored
  /\ job.at # "forget" => Known(cached)
  /\ \A w \in Workers : ServedFrom(worker[w])

CalmColumnsInv == kind = "columns" => ColumnsInv

LEMMA ColumnsStart == MCInit => CalmColumnsInv
<1> SUFFICES ASSUME MCInit, kind = "columns" PROVE ColumnsInv
  BY DEF CalmColumnsInv
<1>1. EngineInit /\ cached = {}
  BY DEF MCInit
<1>2. columns \subseteq Stored
  BY <1>1, EngineAssumption DEF EngineInit
<1>3. ServedFrom(Idle)
  BY DEF ServedFrom, Idle, ReadPlaces
<1> QED BY <1>1, <1>2, <1>3 DEF ColumnsInv, EngineInit, Known

(* One request moves, and the table and the job stay.                        *)
LEMMA OneServed ==
  ASSUME ColumnsInv, NEW w \in Workers, NEW r, Becomes(w, r), ServedFrom(r),
         UNCHANGED <<columns, job>>, cached' = cached \/ Known(cached')
  PROVE  ColumnsInv'
<1>1. DOMAIN worker' = Workers /\ worker'[w] = r /\ \A x \in Workers \ {w} : worker'[x] = worker[x]
  BY DEF Becomes, ColumnsInv
<1>2. ServedFrom(worker[w])'
  BY <1>1 DEF ServedFrom, Known
<1>3. ASSUME NEW x \in Workers, x # w PROVE ServedFrom(worker[x])'
  BY <1>1, <1>3 DEF ColumnsInv, ServedFrom, Known
<1> QED BY <1>1, <1>2, <1>3 DEF ColumnsInv, Known

(* The same of a write, which ends its request and disturbs the lists.       *)
LEMMA DisturbedServed ==
  ASSUME ColumnsInv, NEW w \in Workers, Disturbs(w), UNCHANGED schema
  PROVE  ColumnsInv'
<1>1. DOMAIN worker' = Workers /\ worker'[w] = Idle /\ UNCHANGED <<columns, cached, job>>
  BY DEF Disturbs, schema
<1>2. ServedFrom(worker[w])'
  BY <1>1 DEF ServedFrom, Idle, ReadPlaces
<1>3. ASSUME NEW x \in Workers, x # w PROVE ServedFrom(worker[x])'
  <2>1. ServedFrom(worker[x])
    BY DEF ColumnsInv
  <2>2. CASE "quiet" \notin DOMAIN worker[x]
    <3>1. worker'[x] = worker[x]
      BY <1>3, <2>2 DEF Disturbs
    <3> QED BY <1>1, <2>1, <3>1 DEF ServedFrom, Known
  <2>3. CASE "quiet" \in DOMAIN worker[x]
    <3>1. worker'[x] = [worker[x] EXCEPT !.quiet = FALSE]
      BY <1>3, <2>3 DEF Disturbs
    <3>2. /\ DOMAIN worker'[x] = DOMAIN worker[x]
          /\ \A n \in DOMAIN worker[x] : n # "quiet" => worker'[x][n] = worker[x][n]
      BY <3>1
    <3>3. "at" \in DOMAIN worker[x] /\ worker'[x].at = worker[x].at
      BY <2>1, <3>2 DEF ServedFrom
    <3>4. worker[x].at \in ReadPlaces =>
            /\ worker'[x].cols = worker[x].cols /\ worker'[x].fields = worker[x].fields
            /\ worker'[x].late = worker[x].late /\ worker'[x].viewer = worker[x].viewer
      BY <2>1, <3>2 DEF ServedFrom
    <3> QED BY <1>1, <2>1, <3>2, <3>3, <3>4 DEF ServedFrom, Known, ReadPlaces
  <2> QED BY <2>2, <2>3
<1> QED BY <1>1, <1>2, <1>3 DEF ColumnsInv, Known

LEMMA BeginsServed ==
  ASSUME ColumnsInv, NEW w \in Workers, NEW u,
         \/ \E ask \in Asks : List(w, u, ask)
         \/ \E id \in 1..lastId : View(w, u, id) \/ Delete(w, u, id)
         \/ \E body \in Bodies : Create(w, u, body) \/ \E id \in 1..lastId : Edit(w, u, id, body)
  PROVE  ColumnsInv'
<1>1. ASSUME NEW mode, NEW r, Arrives(w, u, mode, r), ServedFrom(r) PROVE ColumnsInv'
  BY <1>1, OneServed DEF Arrives, schema
<1>2. ASSUME NEW key, NEW ask PROVE ServedFrom(Reading(u, key, ask))
  BY DEF ServedFrom, Reading, ReadPlaces
<1>3. ASSUME NEW v, NEW id, NEW body
      PROVE  /\ ServedFrom([at |-> "insert", viewer |-> v, body |-> body])
             /\ ServedFrom([at |-> "authorize", then |-> "update", viewer |-> v, key |-> id, body |-> body])
             /\ ServedFrom([at |-> "authorize", then |-> "delete", viewer |-> v, key |-> id])
  BY DEF ServedFrom, ReadPlaces
<1>4. ASSUME NEW ask \in Asks, List(w, u, ask) PROVE ColumnsInv'
  BY <1>1, <1>2, <1>4 DEF List
<1>5. ASSUME NEW id \in 1..lastId, View(w, u, id) \/ Delete(w, u, id) PROVE ColumnsInv'
  BY <1>1, <1>2, <1>3, <1>5 DEF View, Delete
<1>6. ASSUME NEW body \in Bodies, Create(w, u, body) PROVE ColumnsInv'
  BY <1>1, <1>3, <1>6 DEF Create
<1>7. ASSUME NEW body \in Bodies, NEW id \in 1..lastId, Edit(w, u, id, body) PROVE ColumnsInv'
  BY <1>1, <1>3, <1>7 DEF Edit
<1> QED BY <1>4, <1>5, <1>6, <1>7

LEMMA IdleIsServed == ServedFrom(Idle)
BY DEF ServedFrom, Idle, ReadPlaces

LEMMA LookupServed ==
  ASSUME ColumnsInv, NEW w \in Workers, NEW ok \in BOOLEAN, Lookup(w, ok)
  PROVE  ColumnsInv'
<1> DEFINE r == worker[w]
<1>1. UNCHANGED <<columns, job, cached>> /\ r.at = "lookup" /\ ServedFrom(r)
  BY DEF Lookup, schema, ColumnsInv
<1>2. {"at", "cols", "fields", "late", "viewer"} \subseteq DOMAIN r /\ (r.late => job.at = "done")
  BY <1>1 DEF ServedFrom, ReadPlaces
<1>3. CASE cached # {}
  <2> DEFINE to == [worker[w] EXCEPT !.at = "select", !.cols = cached]
  <2>1. Becomes(w, to)
    BY <1>3 DEF Lookup
  <2>2. DOMAIN to = DOMAIN r /\ to.at = "select" /\ to.cols = cached /\ to.late = r.late
    BY <1>2
  <2> HIDE DEF to
  <2>3. to.late => Known(cached)
    BY <1>2, <2>2 DEF ColumnsInv
  <2>4. ServedFrom(to)
    BY <1>2, <2>2, <2>3 DEF ServedFrom, ReadPlaces
  <2> QED BY <1>1, <2>1, <2>4, OneServed
<1>4. CASE cached = {}
  <2> DEFINE cols == IF ok THEN columns ELSE {}
             to == [worker[w] EXCEPT !.at = "store", !.cols = IF ok THEN columns ELSE {}]
  <2>1. Becomes(w, to)
    BY <1>4 DEF Lookup
  <2>2. DOMAIN to = DOMAIN r /\ to.at = "store" /\ to.cols = cols /\ to.late = r.late
    BY <1>2
  <2>3. Known(cols)
    BY DEF Known
  <2> HIDE DEF to, cols
  <2>4. ServedFrom(to)
    BY <1>2, <2>2, <2>3 DEF ServedFrom, ReadPlaces
  <2> QED BY <1>1, <2>1, <2>4, OneServed
<1> QED BY <1>3, <1>4

LEMMA StoreServed ==
  ASSUME ColumnsInv, NEW w \in Workers, StoreColumns(w)
  PROVE  ColumnsInv'
<1> DEFINE r == worker[w]
           to == [worker[w] EXCEPT !.at = "select"]
<1>1. /\ UNCHANGED <<columns, job>> /\ r.at = "store" /\ Becomes(w, to) /\ ServedFrom(r)
      /\ cached' = IF r.cols = {} THEN cached ELSE r.cols
  BY DEF StoreColumns, ColumnsInv
<1>2. {"at", "cols", "fields", "late", "viewer"} \subseteq DOMAIN r /\ (r.late => job.at = "done")
  BY <1>1 DEF ServedFrom, ReadPlaces
<1>3. Known(r.cols)
  BY <1>1 DEF ServedFrom
<1>4. DOMAIN to = DOMAIN r /\ to.at = "select" /\ to.cols = r.cols /\ to.late = r.late
  BY <1>2
<1> HIDE DEF to
<1>5. ServedFrom(to)
  BY <1>2, <1>3, <1>4 DEF ServedFrom, ReadPlaces
<1>6. cached' = cached \/ Known(cached')
  BY <1>1, <1>3
<1> QED BY <1>1, <1>5, <1>6, OneServed

(* The columns the page is read from are all there are: either they were    *)
(* known, or all the viewer may read were asked for and the table had them.  *)
LEMMA SelectServed ==
  ASSUME ColumnsInv, NEW w \in Workers, Select(w)
  PROVE  ColumnsInv'
<1> DEFINE r == worker[w]
           Onward(page) ==
             [worker[w] EXCEPT !.at = IF page = <<>> THEN "count" ELSE "answer",
                               !.fields = Selected(worker[w]), !.shown = @ \o page,
                               !.total = Cardinality(Scope(worker[w].viewer, worker[w].key, worker[w].ask))]
<1>1. /\ UNCHANGED <<columns, job, cached>> /\ r.at = "select" /\ ServedFrom(r)
      /\ Selected(r) \subseteq columns
  BY DEF Select, schema, ColumnsInv
<1>2. PICK page : Becomes(w, Onward(page))
  BY DEF Select
<1>3. {"at", "cols", "fields", "late", "viewer"} \subseteq DOMAIN r /\ (r.late => job.at = "done")
  BY <1>1 DEF ServedFrom, ReadPlaces
<1>4. /\ DOMAIN Onward(page) = DOMAIN r /\ Onward(page).at \in {"count", "answer"}
      /\ Onward(page).fields = Selected(r) /\ Onward(page).late = r.late /\ Onward(page).viewer = r.viewer
  BY <1>3
<1> HIDE DEF Onward
<1>5. r.late => Selected(r) = {n \in columns : Readable(r.viewer, n)}
  BY <1>1 DEF ServedFrom, Known, Selected, ColumnsInv
<1>6. ServedFrom(Onward(page))
  BY <1>3, <1>4, <1>5 DEF ServedFrom, ReadPlaces
<1> QED BY <1>1, <1>2, <1>6, OneServed

LEMMA AnswerServed ==
  ASSUME ColumnsInv, NEW w \in Workers, Count(w) \/ Reply(w)
  PROVE  ColumnsInv'
<1> DEFINE r == worker[w]
<1>1. UNCHANGED <<columns, job, cached>> /\ r.at \in {"count", "answer"} /\ ServedFrom(r)
  BY DEF Count, Reply, schema, ColumnsInv
<1>2. {"at", "cols", "fields", "late", "viewer"} \subseteq DOMAIN r /\ (r.late => job.at = "done")
  BY <1>1 DEF ServedFrom, ReadPlaces
<1>3. CASE Count(w)
  <2> DEFINE to == [worker[w] EXCEPT !.at = "answer",
                      !.total = Cardinality(Scope(worker[w].viewer, worker[w].key, worker[w].ask))]
  <2>1. Becomes(w, to)
    BY <1>3 DEF Count
  <2>2. /\ DOMAIN to = DOMAIN r /\ to.at = "answer" /\ to.fields = r.fields /\ to.late = r.late
        /\ to.viewer = r.viewer
    BY <1>2
  <2> HIDE DEF to
  <2>3. ServedFrom(to)
    BY <1>1, <1>2, <2>2 DEF ServedFrom, ReadPlaces
  <2> QED BY <1>1, <2>1, <2>3, OneServed
<1>4. CASE Reply(w)
  <2> DEFINE to == [worker[w] EXCEPT !.at = "lookup", !.page = @ + 1, !.cols = {}]
  <2>1. Becomes(w, to) \/ Becomes(w, Idle)
    BY <1>4 DEF Reply
  <2>2. DOMAIN to = DOMAIN r /\ to.at = "lookup" /\ to.late = r.late
    BY <1>2
  <2> HIDE DEF to
  <2>3. ServedFrom(to)
    BY <1>2, <2>2 DEF ServedFrom, ReadPlaces
  <2> QED BY <1>1, <2>1, <2>3, OneServed, IdleIsServed
<1> QED BY <1>3, <1>4

LEMMA OtherStepsServed ==
  ASSUME ColumnsInv, EngineInv, NEW w \in Workers, WriteStep(w) \/ Fail(w)
  PROVE  ColumnsInv'
<1>1. CASE Insert(w) \/ Update(w) \/ RemoveRow(w)
  BY <1>1, DisturbedServed DEF Insert, Update, RemoveRow
<1>2. CASE Fail(w)
  BY <1>2, OneServed, IdleIsServed DEF Fail, schema
<1>3. CASE Authorize(w)
  <2> DEFINE r == worker[w]
             to == [worker[w] EXCEPT !.at = worker[w].then]
  <2>1. UNCHANGED <<columns, job, cached>> /\ r.at = "authorize"
    BY <1>3 DEF Authorize, schema
  <2>2. Becomes(w, to) \/ Becomes(w, Idle)
    BY <1>3 DEF Authorize
  <2>3. "at" \in DOMAIN r /\ r.then \in WritePlaces
    BY <2>1 DEF EngineInv, WorkersOK, RequestOK
  <2>4. "at" \in DOMAIN to /\ to.at \in WritePlaces
    BY <2>3
  <2> HIDE DEF to
  <2>5. ServedFrom(to)
    BY <2>4 DEF ServedFrom, ReadPlaces, WritePlaces
  <2> QED BY <2>1, <2>2, <2>5, OneServed, IdleIsServed
<1> QED BY <1>1, <1>2, <1>3 DEF WriteStep

(* The job: nobody is about to remember what it looked at, so what is then   *)
(* forgotten stays forgotten.                                                *)
LEMMA JobServed ==
  ASSUME ColumnsInv, LooksAreWhole, NEW ok \in BOOLEAN,
         EnsureTable(ok) \/ AddColumns(ok) \/ ForgetColumns
  PROVE  ColumnsInv'
<1>1. /\ worker' = worker /\ columns' \in {columns, Stored}
      /\ job.at \in {"exists", "alter", "forget"}
      /\ job'.at \in {"alter", "forget", "done"} /\ job' # job
  BY DEF EnsureTable, AddColumns, ForgetColumns
<1>2. job'.at # "forget" => Known(cached)'
  <2>1. CASE EnsureTable(ok)
    <3>1. cached' = cached /\ Known(cached) /\ (columns' = columns \/ columns = {})
      BY <2>1 DEF EnsureTable, ColumnsInv
    <3> QED BY <3>1 DEF Known
  <2>2. CASE AddColumns(ok)
    <3>1. cached' = cached /\ Known(cached) /\ (job'.at # "forget" => columns' = columns)
      BY <2>2 DEF AddColumns, ColumnsInv
    <3> QED BY <3>1 DEF Known
  <2>3. CASE ForgetColumns
    BY <2>3 DEF ForgetColumns, Known
  <2> QED BY <2>1, <2>2, <2>3
<1>3. ASSUME NEW w \in Workers PROVE ServedFrom(worker[w])'
  <2>1. ServedFrom(worker[w]) /\ worker[w].at # "store"
    BY <1>1 DEF ColumnsInv, LooksAreWhole
  <2>2. worker[w].at \in ReadPlaces => ~worker[w].late
    BY <1>1, <2>1 DEF ServedFrom
  <2> QED BY <1>1, <2>1, <2>2 DEF ServedFrom, ReadPlaces
<1> QED BY <1>1, <1>2, <1>3 DEF ColumnsInv

LEMMA ColumnsNextKeeps ==
  ASSUME ColumnsInv, EngineInv, EngineNext, LooksAreWhole
  PROVE  ColumnsInv'
<1>1. ASSUME NEW w \in Workers, ReadStep(w) PROVE ColumnsInv'
  BY <1>1, LookupServed, StoreServed, SelectServed, AnswerServed DEF ReadStep
<1>2. ASSUME NEW w \in Workers, WriteStep(w) \/ Fail(w) PROVE ColumnsInv'
  BY <1>2, OtherStepsServed
<1>3. ASSUME NEW w \in Workers, NEW u \in Users \cup {Nobody},
             \/ \E ask \in Asks : List(w, u, ask)
             \/ \E id \in 1..lastId : View(w, u, id) \/ Delete(w, u, id)
             \/ \E body \in Bodies : Create(w, u, body) \/ \E id \in 1..lastId : Edit(w, u, id, body)
      PROVE  ColumnsInv'
  BY <1>3, BeginsServed
<1>4. ASSUME NEW ok \in BOOLEAN, EnsureTable(ok) \/ AddColumns(ok) \/ ForgetColumns
      PROVE  ColumnsInv'
  BY <1>4, JobServed
<1>5. TRUE \in BOOLEAN
  OBVIOUS
<1> QED BY <1>1, <1>2, <1>3, <1>4, <1>5 DEF EngineNext

LEMMA ColumnsStutter == ColumnsInv /\ UNCHANGED engineVars => ColumnsInv'
BY DEF engineVars, ColumnsInv, ServedFrom, Known

(* A request that came after the reconciliation of the table is answered     *)
(* with every column the table has and its viewer may read, as long as no    *)
(* step of the job falls between another's look at the columns and the entry *)
(* made of it (EnsureTableExists, tableColumnsCached).                       *)
THEOREM NewColumnsServed == MCSpec => []CalmNewColumnsAreServed
<1> DEFINE I == EngineInv /\ CalmColumnsInv
<1>1. I /\ [MCNext]_vars => I'
  <2> SUFFICES ASSUME I, [MCNext]_vars PROVE I' OBVIOUS
  <2>1. EngineInv'
    <3>1. EngineNext \/ UNCHANGED engineVars
      BY DEF MCNext, vars
    <3> QED BY <3>1, EngineNextKeeps, EngineStutters
  <2>2. ASSUME kind' = "columns" PROVE ColumnsInv'
    <3>1. kind = "columns"
      BY <2>2 DEF MCNext, vars
    <3>2. (EngineNext /\ LooksAreWhole) \/ UNCHANGED engineVars
      BY <3>1 DEF MCNext, vars
    <3> QED BY <3>1, <3>2, ColumnsNextKeeps, ColumnsStutter DEF CalmColumnsInv
  <2> QED BY <2>1, <2>2 DEF CalmColumnsInv
<1>2. I => CalmNewColumnsAreServed
  BY DEF CalmColumnsInv, ColumnsInv, ServedFrom, ReadPlaces, CalmNewColumnsAreServed, NewColumnsAreServed
<1> HIDE DEF I
<1>3. MCInit => I
  BY EngineStart, ColumnsStart DEF I
<1> QED BY <1>1, <1>2, <1>3, PTL DEF MCSpec, vars

-----------------------------------------------------------------------------
(* Fieldsets.  What the server describes is what the fields are, to the     *)
(* viewer whose session was read, with the rows the tables have as it       *)
(* answers, or with none where no connection is had.                        *)
LEMMA RefsOfVisible ==
  ASSUME NEW s, NEW m, NEW p
  PROVE  LET fields == VisibleFields(s, m)
         IN  \A r : r \in Refs(s, m) /\ r.key = p <=>
               /\ p \in Paths(fields) /\ HasTable(FieldAt(fields, p))
               /\ r = [key |-> p, table |-> FieldAt(fields, p).table]
<1> DEFINE fields == VisibleFields(s, m)
<1>1. Refs(s, m) = {[key |-> q, table |-> FieldAt(fields, q).table] :
                      q \in {x \in Paths(fields) : HasTable(FieldAt(fields, x))}}
  BY DEF Refs
<1> HIDE DEF fields
<1>2. \A r : r \in Refs(s, m) /\ r.key = p <=>
               /\ p \in Paths(fields) /\ HasTable(FieldAt(fields, p))
               /\ r = [key |-> p, table |-> FieldAt(fields, p).table]
  BY <1>1
<1> QED BY <1>2 DEF fields

(* The options found for a path are the rows of its own table, if it has one. *)
LEMMA OptionsAreRows ==
  ASSUME NEW s, NEW m, NEW p \in Paths(VisibleFields(s, m)), NEW f, f = FieldAt(VisibleFields(s, m), p)
  PROVE  Option(Fetched(Refs(s, m)), p) = Offered(f, tableRows)
<1> DEFINE refs == Refs(s, m)
           working == {r \in refs : RowsOf(tableRows, r.table) # 0}
           ref == [key |-> p, table |-> f.table]
<1>1. \A r : r \in refs /\ r.key = p <=> HasTable(f) /\ r = ref
  BY RefsOfVisible
<1>2. Fetched(refs) \in {OptionsOf(refs, refs), OptionsOf(working, refs)}
      /\ (Fetched(refs) = OptionsOf(refs, refs) \/ Fetched(refs) = OptionsOf(working, refs))
  BY DEF Fetched
<1>3. ASSUME NEW some, (some = refs /\ (\A r \in refs : r \in working)) \/ some = working
      PROVE  Option(OptionsOf(some, refs), p) = Offered(f, tableRows)
  <2>1. DOMAIN OptionsOf(some, refs) = {r.key : r \in some}
    BY DEF OptionsOf
  <2>2. CASE ~HasTable(f)
    <3>1. p \notin {r.key : r \in some}
      BY <1>1, <1>3, <2>2
    <3> QED BY <2>1, <2>2, <3>1 DEF Option, Offered
  <2>3. CASE HasTable(f)
    <3>1. ref \in refs /\ ref.key = p /\ ref.table = f.table
      BY <1>1, <2>3
    <3>2. (CHOOSE r \in refs : r.key = p) = ref
      BY <1>1, <2>3, <3>1
    <3>3. p \in {r.key : r \in some} <=> ref \in some
      BY <1>1, <1>3, <2>3, <3>1
    <3>4. ref \in some <=> RowsOf(tableRows, f.table) # 0
      BY <1>3, <3>1
    <3>5. ref \in some => OptionsOf(some, refs)[p] = RowsOf(tableRows, f.table)
      BY <3>1, <3>2, <3>3 DEF OptionsOf
    <3> QED BY <2>1, <2>3, <3>3, <3>4, <3>5 DEF Option, Offered
  <2> QED BY <2>2, <2>3
<1>4. \/ (\A r \in refs : r \in working) /\ Fetched(refs) = OptionsOf(refs, refs)
      \/ Fetched(refs) = OptionsOf(working, refs)
  BY DEF Fetched
<1> QED BY <1>3, <1>4

LEMMA NoOptions ==
  ASSUME NEW f, NEW p
  PROVE  Option(<<>>, p) = 0 /\ Offered(f, Nothing) = 0
<1>1. DOMAIN <<>> = {}
  OBVIOUS
<1>2. Option(<<>>, p) = 0
  BY <1>1 DEF Option
<1>3. Offered(f, Nothing) = 0
  BY DEF Offered, RowsOf, Nothing
<1> QED BY <1>2, <1>3

(* Options that are the rows of the tables make the description true.        *)
LEMMA RightOptions ==
  ASSUME NEW s, NEW m, NEW options, NEW contents,
         \A i \in DOMAIN VisibleFields(s, m) :
           /\ Option(options, <<i>>) = Offered(VisibleFields(s, m)[i], contents)
           /\ \A j \in DOMAIN VisibleFields(s, m)[i].columns :
                Option(options, <<i, j>>) = Offered(VisibleFields(s, m)[i].columns[j], contents)
  PROVE  [module |-> m, fields |-> WithOptions(VisibleFields(s, m), options)] = Truth(m, s, contents)
<1> DEFINE fields == VisibleFields(s, m)
           Inner(i) == [j \in DOMAIN fields[i].columns |->
                          [name |-> fields[i].columns[j].name, options |-> Option(options, <<i, j>>)]]
           InnerTruth(i) == [j \in DOMAIN fields[i].columns |->
                          [name |-> fields[i].columns[j].name,
                           options |-> Offered(fields[i].columns[j], contents)]]
           Whole(i) == [name |-> fields[i].name, modes |-> fields[i].modes,
                        options |-> Option(options, <<i>>), columns |-> Inner(i)]
           WholeTruth(i) == [name |-> fields[i].name, modes |-> fields[i].modes,
                        options |-> Offered(fields[i], contents), columns |-> InnerTruth(i)]
<1> HIDE DEF fields
<1>1. ASSUME NEW i \in DOMAIN fields PROVE Whole(i) = WholeTruth(i)
  <2>1. /\ Option(options, <<i>>) = Offered(fields[i], contents)
        /\ \A j \in DOMAIN fields[i].columns :
             Option(options, <<i, j>>) = Offered(fields[i].columns[j], contents)
    BY <1>1 DEF fields
  <2>2. Inner(i) = InnerTruth(i)
    BY <2>1
  <2> HIDE DEF Inner, InnerTruth
  <2> QED BY <2>1, <2>2
<1>2. WithOptions(fields, options) = [i \in DOMAIN fields |-> Whole(i)]
  BY DEF WithOptions
<1>3. Truth(m, s, contents) = [module |-> m, fields |-> [i \in DOMAIN fields |-> WholeTruth(i)]]
  BY DEF Truth, fields
<1> HIDE DEF Whole, WholeTruth
<1>4. [i \in DOMAIN fields |-> Whole(i)] = [i \in DOMAIN fields |-> WholeTruth(i)]
  BY <1>1
<1>5. [module |-> m, fields |-> WithOptions(fields, options)] = Truth(m, s, contents)
  BY <1>2, <1>3, <1>4
<1> QED BY <1>5 DEF fields

LEMMA DescriptionIsTruth ==
  ASSUME NEW ask
  PROVE  /\ Description(ask) = Truth(ask.module, ask.session, tableRows)
         /\ Bare(ask) = Truth(ask.module, ask.session, Nothing)
<1> DEFINE m == ask.module
           s == ask.session
           fields == VisibleFields(s, m)
           options == Fetched(Refs(s, m))
<1>1. ASSUME NEW i \in DOMAIN fields
      PROVE  /\ Option(options, <<i>>) = Offered(fields[i], tableRows)
             /\ \A j \in DOMAIN fields[i].columns :
                  Option(options, <<i, j>>) = Offered(fields[i].columns[j], tableRows)
  <2>1. <<i>> \in Paths(fields) /\ FieldAt(fields, <<i>>) = fields[i]
    BY <1>1 DEF Paths, FieldAt
  <2>2. ASSUME NEW j \in DOMAIN fields[i].columns
        PROVE  <<i, j>> \in Paths(fields) /\ FieldAt(fields, <<i, j>>) = fields[i].columns[j]
    <3>1. Len(<<i, j>>) # 1 /\ <<i, j>>[1] = i /\ <<i, j>>[2] = j
      OBVIOUS
    <3> QED BY <1>1, <2>2, <3>1 DEF Paths, FieldAt
  <2>3. Option(options, <<i>>) = Offered(fields[i], tableRows)
    BY <2>1, OptionsAreRows
  <2>4. ASSUME NEW j \in DOMAIN fields[i].columns
        PROVE  Option(options, <<i, j>>) = Offered(fields[i].columns[j], tableRows)
    BY <2>2, <2>4, OptionsAreRows
  <2> QED BY <2>3, <2>4
<1>2. [module |-> m, fields |-> WithOptions(fields, options)] = Truth(m, s, tableRows)
  BY <1>1, RightOptions
<1>3. [module |-> m, fields |-> WithOptions(fields, <<>>)] = Truth(m, s, Nothing)
  BY NoOptions, RightOptions
<1> QED BY <1>2, <1>3 DEF Description, Bare

(* What was so at some time since, and the requests on their way: what the   *)
(* newest of a tab has learnt is no older than the tab's asking for it.      *)
SeenSince(since, s) == \E i \in since..Len(past) : s = past[i].session
TrueSince(since, m, answer) ==
  \E i, j \in since..Len(past) : \E contents \in {past[j].tableRows, Nothing} :
    answer = Truth(m, past[i].session, contents)

AskOK(ask) ==
  /\ DOMAIN ask = {"tab", "number", "module", "cached", "at", "session", "answer"}
  /\ ask.tab \in Tabs /\ ask.number \in Nat /\ ask.number <= tab[ask.tab].asked
  /\ ask.number = tab[ask.tab].asked =>
       /\ ask.module = tab[ask.tab].module
       /\ ask.at = "described" => SeenSince(tab[ask.tab].since, ask.session)
       /\ ask.at = "answered"  => TrueSince(tab[ask.tab].since, ask.module, ask.answer)
       /\ ask.at = "unchanged" => TrueSince(tab[ask.tab].since, ask.module, ask.cached)

TabOK(t) ==
  /\ DOMAIN tab[t] = {"module", "asked", "status", "shown", "since"}
  /\ tab[t].asked \in Nat /\ tab[t].since \in 1..Len(past)
  /\ tab[t].status = "ready" => TrueSince(tab[t].since, tab[t].module, tab[t].shown)

Worlds == [session : Sessions, tableRows : [Tables -> Nat]]

FieldsInv ==
  /\ session \in Sessions /\ tableRows \in [Tables -> Nat]
  /\ past \in Seq(Worlds) /\ past # <<>> /\ past[Len(past)] = World
  /\ DOMAIN tab = Tabs /\ (\A t \in Tabs : TabOK(t))
  /\ \A ask \in asks : AskOK(ask)

LEMMA FieldsStart == FieldsetsInit => FieldsInv
<1> SUFFICES ASSUME FieldsetsInit PROVE FieldsInv OBVIOUS
<1>1. session \in Sessions /\ tableRows \in [Tables -> Nat] /\ World \in Worlds
  BY DEF FieldsetsInit, World, Worlds
<1>2. past = <<World>>
  BY DEF FieldsetsInit
<1> HIDE DEF World
<1>3. past \in Seq(Worlds) /\ past # <<>> /\ past[Len(past)] = World /\ Len(past) = 1
  BY <1>1, <1>2
<1>4. DOMAIN tab = Tabs /\ \A t \in Tabs : TabOK(t)
  BY <1>3 DEF FieldsetsInit, TabOK
<1>5. asks = {}
  BY DEF FieldsetsInit
<1> QED BY <1>1, <1>3, <1>4, <1>5 DEF FieldsInv

(* Time goes on and what was so stays so.                                    *)
LEMMA StillSince ==
  ASSUME past \in Seq(Worlds), past' \in Seq(Worlds), Len(past') >= Len(past),
         \A i \in 1..Len(past) : past'[i] = past[i],
         NEW since \in Nat, since >= 1
  PROVE  /\ \A s : SeenSince(since, s) => \E i \in since..Len(past') : s = past'[i].session
         /\ \A m, answer : TrueSince(since, m, answer) =>
              \E i, j \in since..Len(past') : \E contents \in {past'[j].tableRows, Nothing} :
                answer = Truth(m, past'[i].session, contents)
<1>1. \A i \in since..Len(past) : i \in since..Len(past') /\ i \in 1..Len(past)
  OBVIOUS
<1>2. \A i \in since..Len(past) : i \in since..Len(past') /\ past'[i] = past[i]
  BY <1>1
<1> QED BY <1>2 DEF SeenSince, TrueSince

Grows ==
  /\ session' \in Sessions /\ tableRows' \in [Tables -> Nat]
  /\ past' \in Seq(Worlds) /\ past' # <<>> /\ past'[Len(past')] = World'
  /\ Len(past') >= Len(past) /\ \A i \in 1..Len(past) : past'[i] = past[i]

LEMMA TabStays ==
  ASSUME FieldsInv, Grows, NEW t \in Tabs, tab'[t] = tab[t]
  PROVE  TabOK(t)'
<1>1. TabOK(t) /\ past \in Seq(Worlds)
  BY DEF FieldsInv
<1>2. tab[t].since \in Nat /\ tab[t].since >= 1 /\ tab[t].since \in 1..Len(past')
  BY <1>1 DEF TabOK, Grows
<1>3. tab[t].status = "ready" => TrueSince(tab[t].since, tab[t].module, tab[t].shown)
  BY <1>1 DEF TabOK
<1>4. \A m, answer : TrueSince(tab[t].since, m, answer) =>
        \E i, j \in tab[t].since..Len(past') : \E contents \in {past'[j].tableRows, Nothing} :
          answer = Truth(m, past'[i].session, contents)
  BY <1>1, <1>2, StillSince DEF Grows
<1>5. tab[t].status = "ready" =>
        \E i, j \in tab[t].since..Len(past') : \E contents \in {past'[j].tableRows, Nothing} :
          tab[t].shown = Truth(tab[t].module, past'[i].session, contents)
  BY <1>3, <1>4
<1> QED BY <1>1, <1>2, <1>5 DEF TabOK, TrueSince

LEMMA AskStays ==
  ASSUME FieldsInv, Grows, NEW ask, AskOK(ask), tab'[ask.tab].asked \in Nat,
         \/ tab'[ask.tab].asked > tab[ask.tab].asked
         \/ /\ tab'[ask.tab].asked = tab[ask.tab].asked /\ tab'[ask.tab].module = tab[ask.tab].module
            /\ tab'[ask.tab].since = tab[ask.tab].since
  PROVE  AskOK(ask)'
<1> DEFINE t == ask.tab
<1>1. t \in Tabs /\ TabOK(t) /\ past \in Seq(Worlds)
  BY DEF FieldsInv, AskOK
<1>2. tab[t].since \in Nat /\ tab[t].since >= 1 /\ tab[t].asked \in Nat
  BY <1>1 DEF TabOK
<1>3. ask.number \in Nat /\ ask.number <= tab[t].asked
  BY DEF AskOK
<1>4. CASE tab'[t].asked > tab[t].asked
  BY <1>1, <1>2, <1>3, <1>4 DEF AskOK
<1>5. CASE tab'[t].asked = tab[t].asked /\ tab'[t].module = tab[t].module /\ tab'[t].since = tab[t].since
  <2>1. \A s : SeenSince(tab[t].since, s) => \E i \in tab[t].since..Len(past') : s = past'[i].session
    BY <1>1, <1>2, StillSince DEF Grows
  <2>2. \A m, answer : TrueSince(tab[t].since, m, answer) =>
          \E i, j \in tab[t].since..Len(past') : \E contents \in {past'[j].tableRows, Nothing} :
            answer = Truth(m, past'[i].session, contents)
    BY <1>1, <1>2, StillSince DEF Grows
  <2> DEFINE Seen(s) == \E i \in tab[t].since..Len(past') : s = past'[i].session
             Was(m, answer) == \E i, j \in tab[t].since..Len(past') :
               \E contents \in {past'[j].tableRows, Nothing} : answer = Truth(m, past'[i].session, contents)
  <2>3. \A s : SeenSince(tab[t].since, s)' <=> Seen(s)
    BY <1>5 DEF SeenSince
  <2>4. \A m, answer : TrueSince(tab[t].since, m, answer)' <=> Was(m, answer)
    BY <1>5 DEF TrueSince
  <2> HIDE DEF Seen, Was
  <2>5. /\ SeenSince(tab[t].since, ask.session) => SeenSince(tab[t].since, ask.session)'
        /\ TrueSince(tab[t].since, ask.module, ask.answer) => TrueSince(tab[t].since, ask.module, ask.answer)'
        /\ TrueSince(tab[t].since, ask.module, ask.cached) => TrueSince(tab[t].since, ask.module, ask.cached)'
    BY <2>1, <2>2, <2>3, <2>4 DEF Seen, Was
  <2> QED BY <1>1, <1>3, <1>5, <2>5 DEF AskOK
<1> QED BY <1>4, <1>5

LEMMA NothingMoves ==
  ASSUME FieldsInv, UNCHANGED <<session, tableRows, past>>
  PROVE  Grows
<1>1. past' = past /\ World' = World
  BY DEF World
<1>2. Len(past) \in Nat
  BY DEF FieldsInv
<1> QED BY <1>1, <1>2 DEF FieldsInv, Grows

(* A tab turns to a module: what it asked before is no longer its newest.    *)
LEMMA TurnKeeps ==
  ASSUME FieldsInv, NEW t \in Tabs, NEW m \in ModuleNames, Turn(t, m)
  PROVE  FieldsInv'
<1> DEFINE old == tab[t]
           new == [tab[t] EXCEPT !.module = m, !.asked = tab[t].asked + 1, !.status = "loading", !.since = Len(past)]
           made == [tab |-> t, number |-> tab[t].asked + 1, module |-> m, cached |-> storage[m],
                   at |-> "sent", session |-> session, answer |-> NoFieldset]
<1>1. tab' = [tab EXCEPT ![t] = new] /\ asks' = asks \cup {made} /\ UNCHANGED <<session, tableRows, past>>
  <2>1. tab' = [tab EXCEPT ![t] = new]
    BY Zenon DEF Turn
  <2>2. asks' = asks \cup {made}
    BY Zenon DEF Turn
  <2>3. UNCHANGED <<session, tableRows, past>>
    BY Zenon DEF Turn
  <2> QED BY <2>1, <2>2, <2>3
<1>2. Grows /\ TabOK(t) /\ Len(past) \in Nat /\ Len(past) >= 1
  BY <1>1, NothingMoves DEF FieldsInv
<1>3. /\ DOMAIN new = DOMAIN old /\ new.module = m /\ new.asked = old.asked + 1
      /\ new.status = "loading" /\ new.since = Len(past)
  BY <1>2 DEF TabOK
<1>4. DOMAIN tab' = Tabs /\ tab'[t] = new /\ \A x \in Tabs \ {t} : tab'[x] = tab[x]
  BY <1>1 DEF FieldsInv
<1> HIDE DEF new
<1>5. TabOK(t)'
  BY <1>1, <1>2, <1>3, <1>4 DEF TabOK
<1>6. \A x \in Tabs : TabOK(x)'
  BY <1>2, <1>4, <1>5, TabStays
<1>7. PICK ask : ask = made
  OBVIOUS
<1>07. /\ DOMAIN ask = {"tab", "number", "module", "cached", "at", "session", "answer"}
      /\ ask.tab = t /\ ask.number = old.asked + 1 /\ ask.module = m /\ ask.at = "sent"
  BY <1>7
<1>8. AskOK(ask)'
  <2>1. old.asked \in Nat /\ ask.number = tab'[t].asked /\ ask.number \in Nat
    BY <1>2, <1>3, <1>4, <1>07 DEF TabOK
  <2>2. ask.module = tab'[t].module
    BY <1>3, <1>4, <1>07
  <2> QED BY <1>07, <2>1, <2>2 DEF AskOK
<1>9. ASSUME NEW a \in asks PROVE AskOK(a)'
  <2>1. AskOK(a) /\ a.tab \in Tabs
    BY DEF FieldsInv, AskOK
  <2>2. \A x \in Tabs : tab[x].asked \in Nat
    BY DEF FieldsInv, TabOK
  <2>3. CASE a.tab = t
    BY <1>2, <1>3, <1>4, <2>1, <2>2, <2>3, AskStays
  <2>4. CASE a.tab # t
    BY <1>2, <1>4, <2>1, <2>2, <2>4, AskStays
  <2> QED BY <2>3, <2>4
<1>10. \A a \in asks' : AskOK(a)'
  BY <1>1, <1>7, <1>8, <1>9
<1> QED BY <1>2, <1>4, <1>6, <1>10 DEF FieldsInv, Grows

(* A request moves on and nothing else changes.                              *)
LEMMA StepKeeps ==
  ASSUME FieldsInv, UNCHANGED <<session, tableRows, past, tab>>, NEW ask \in asks, NEW to,
         Step(ask, to), AskOK(to)
  PROVE  FieldsInv'
<1>1. Grows
  BY NothingMoves
<1>2. asks' \subseteq asks \cup {to}
  BY DEF Step
<1>3. \A x \in Tabs : TabOK(x)'
  BY <1>1, TabStays
<1>4. \A x \in Tabs : tab[x].asked \in Nat
  BY DEF FieldsInv, TabOK
<1>5. ASSUME NEW a \in asks' PROVE AskOK(a)'
  <2>1. AskOK(a) /\ a.tab \in Tabs
    BY <1>2 DEF FieldsInv, AskOK
  <2> QED BY <1>1, <1>4, <2>1, AskStays
<1>6. DOMAIN tab' = Tabs
  BY DEF FieldsInv
<1> QED BY <1>1, <1>3, <1>5, <1>6 DEF FieldsInv, Grows

(* The session that is read is the one there is.                             *)
LEMMA ReadKeeps ==
  ASSUME FieldsInv, NEW ask \in asks, ReadSession(ask)
  PROVE  FieldsInv'
<1> DEFINE to == [ask EXCEPT !.at = "described", !.session = session]
<1>1. Step(ask, to) /\ UNCHANGED <<session, tableRows, past, tab>>
  BY DEF ReadSession
<1>2. AskOK(ask)
  BY DEF FieldsInv
<1>3. /\ DOMAIN to = DOMAIN ask /\ to.tab = ask.tab /\ to.number = ask.number
      /\ to.module = ask.module /\ to.at = "described" /\ to.session = session
  BY <1>2 DEF AskOK
<1>4. SeenSince(tab[ask.tab].since, session)
  <2>1. Len(past) \in tab[ask.tab].since..Len(past) /\ past[Len(past)].session = session
    BY <1>2 DEF FieldsInv, AskOK, TabOK, World
  <2> QED BY <2>1 DEF SeenSince
<1> HIDE DEF to
<1>5. AskOK(to)
  BY <1>2, <1>3, <1>4 DEF AskOK
<1> QED BY <1>1, <1>5, StepKeeps

(* The answer is true of the session that was read and of the rows there     *)
(* are, or of none; whether it is sent or the browser has it.                *)
LEMMA RespondKeeps ==
  ASSUME FieldsInv, NEW ask \in asks, NEW answer,
         answer = Description(ask) \/ answer = Bare(ask), Respond(ask, answer)
  PROVE  FieldsInv'
<1>1. UNCHANGED <<session, tableRows, past, tab>> /\ ask.at = "described"
  BY DEF Respond
<1>2. AskOK(ask)
  BY DEF FieldsInv
<1>3. ASSUME ask.number = tab[ask.tab].asked PROVE TrueSince(tab[ask.tab].since, ask.module, answer)
  <2>1. PICK i \in tab[ask.tab].since..Len(past) : ask.session = past[i].session
    BY <1>1, <1>2, <1>3 DEF AskOK, SeenSince
  <2>2. Len(past) \in tab[ask.tab].since..Len(past) /\ past[Len(past)].tableRows = tableRows
    BY <1>2 DEF FieldsInv, AskOK, TabOK, World
  <2>3. \E contents \in {tableRows, Nothing} : answer = Truth(ask.module, past[i].session, contents)
    BY <2>1, DescriptionIsTruth
  <2> QED BY <2>1, <2>2, <2>3 DEF TrueSince
<1>4. CASE Same(ask, answer)
  <2> DEFINE to == [ask EXCEPT !.at = "unchanged"]
  <2>1. Step(ask, to)
    BY <1>4 DEF Respond
  <2>2. /\ DOMAIN to = DOMAIN ask /\ to.tab = ask.tab /\ to.number = ask.number
        /\ to.module = ask.module /\ to.at = "unchanged" /\ to.cached = answer
    BY <1>2, <1>4 DEF AskOK, Same
  <2> HIDE DEF to
  <2>3. AskOK(to)
    BY <1>2, <1>3, <2>2 DEF AskOK
  <2> QED BY <1>1, <2>1, <2>3, StepKeeps
<1>5. CASE ~Same(ask, answer)
  <2> DEFINE to == [ask EXCEPT !.at = "answered", !.answer = answer]
  <2>1. Step(ask, to)
    BY <1>5 DEF Respond
  <2>2. /\ DOMAIN to = DOMAIN ask /\ to.tab = ask.tab /\ to.number = ask.number
        /\ to.module = ask.module /\ to.at = "answered" /\ to.answer = answer
    BY <1>2 DEF AskOK
  <2> HIDE DEF to
  <2>3. AskOK(to)
    BY <1>2, <1>3, <2>2 DEF AskOK
  <2> QED BY <1>1, <2>1, <2>3, StepKeeps
<1> QED BY <1>4, <1>5

(* An answer arrives or is lost.  Only the newest of its tab tells.          *)
LEMMA EndsKeeps ==
  ASSUME FieldsInv, NEW ask \in asks, asks' = asks \ {ask}, UNCHANGED <<session, tableRows, past>>,
         DOMAIN tab' = Tabs, \A x \in Tabs : TabOK(x)',
         \A x \in Tabs : /\ tab'[x].asked = tab[x].asked /\ tab'[x].module = tab[x].module
                         /\ tab'[x].since = tab[x].since
  PROVE  FieldsInv'
<1>1. Grows
  BY NothingMoves
<1>2. \A x \in Tabs : tab[x].asked \in Nat
  BY DEF FieldsInv, TabOK
<1>3. ASSUME NEW a \in asks' PROVE AskOK(a)'
  <2>1. AskOK(a) /\ a.tab \in Tabs
    BY DEF FieldsInv, AskOK
  <2> QED BY <1>1, <1>2, <2>1, AskStays
<1> QED BY <1>1, <1>3 DEF FieldsInv, Grows

LEMMA ArriveKeeps ==
  ASSUME FieldsInv, NEW ask \in asks, Arrive(ask) \/ Lost(ask)
  PROVE  FieldsInv'
<1> DEFINE t == ask.tab
           shown == IF ask.at = "unchanged" THEN ask.cached ELSE ask.answer
           ready == [tab[t] EXCEPT !.shown = shown, !.status = "ready"]
           error == [tab[t] EXCEPT !.status = "error"]
<1>1. asks' = asks \ {ask} /\ UNCHANGED <<session, tableRows, past>>
  BY DEF Arrive, Lost
<1>2. AskOK(ask) /\ t \in Tabs /\ TabOK(t) /\ DOMAIN tab = Tabs
  BY DEF FieldsInv, AskOK
<1>3. Grows
  BY <1>1, NothingMoves
<1>4. CASE tab' = tab
  BY <1>1, <1>2, <1>3, <1>4, TabStays, EndsKeeps
<1>5. ASSUME NEW new, tab' = [tab EXCEPT ![t] = new], DOMAIN new = DOMAIN tab[t],
             new.asked = tab[t].asked, new.module = tab[t].module, new.since = tab[t].since,
             new.status = "ready" => TrueSince(tab[t].since, tab[t].module, new.shown)
      PROVE  FieldsInv'
  <2>1. DOMAIN tab' = Tabs /\ tab'[t] = new /\ \A x \in Tabs \ {t} : tab'[x] = tab[x]
    BY <1>2, <1>5
  <2>2. TrueSince(tab[t].since, tab[t].module, new.shown) =>
          \E i, j \in tab[t].since..Len(past) : \E contents \in {past[j].tableRows, Nothing} :
            new.shown = Truth(tab[t].module, past[i].session, contents)
    BY DEF TrueSince
  <2>3. TabOK(t)'
    BY <1>1, <1>2, <1>5, <2>1, <2>2 DEF TabOK, TrueSince
  <2>4. \A x \in Tabs : TabOK(x)'
    BY <1>3, <2>1, <2>3, TabStays
  <2> QED BY <1>1, <1>5, <2>1, <2>4, EndsKeeps
<1>6. CASE Arrive(ask) /\ Latest(ask)
  <2>1. tab' = [tab EXCEPT ![t] = ready]
    BY <1>6, Zenon DEF Arrive
  <2>2. ask.number = tab[t].asked /\ ask.at \in {"unchanged", "answered"}
    BY <1>6 DEF Arrive, Latest
  <2>3. TrueSince(tab[t].since, tab[t].module, shown)
    BY <1>2, <2>2 DEF AskOK
  <2> HIDE DEF shown
  <2>4. /\ DOMAIN ready = DOMAIN tab[t] /\ ready.asked = tab[t].asked /\ ready.module = tab[t].module
        /\ ready.since = tab[t].since /\ ready.shown = shown
    BY <1>2 DEF TabOK
  <2> HIDE DEF ready
  <2> QED BY <1>5, <2>1, <2>3, <2>4
<1>7. CASE Lost(ask) /\ Latest(ask)
  <2>1. tab' = [tab EXCEPT ![t] = error]
    BY <1>7, Zenon DEF Lost
  <2>2. /\ DOMAIN error = DOMAIN tab[t] /\ error.asked = tab[t].asked /\ error.module = tab[t].module
        /\ error.since = tab[t].since /\ error.status = "error"
    BY <1>2 DEF TabOK
  <2> HIDE DEF error
  <2> QED BY <1>5, <2>1, <2>2
<1>8. CASE ~Latest(ask)
  BY <1>4, <1>8 DEF Arrive, Lost
<1> QED BY <1>6, <1>7, <1>8

(* The tables or the session change: one more moment to have been true of.   *)
LEMMA ChangingKeeps ==
  ASSUME FieldsInv, Changing, session' \in Sessions, tableRows' \in [Tables -> Nat]
  PROVE  FieldsInv'
<1>1. past' = Append(past, World') /\ UNCHANGED <<tab, asks>>
  BY DEF Changing, World
<1>2. World' \in Worlds /\ past \in Seq(Worlds)
  BY DEF FieldsInv, World, Worlds
<1>3. Grows
  BY <1>1, <1>2 DEF Grows
<1>4. \A x \in Tabs : TabOK(x)'
  BY <1>1, <1>3, TabStays
<1>5. \A x \in Tabs : tab[x].asked \in Nat
  BY DEF FieldsInv, TabOK
<1>6. ASSUME NEW a \in asks' PROVE AskOK(a)'
  <2>1. AskOK(a) /\ a.tab \in Tabs
    BY <1>1 DEF FieldsInv, AskOK
  <2> QED BY <1>1, <1>3, <1>5, <2>1, AskStays
<1>7. DOMAIN tab' = Tabs
  BY <1>1 DEF FieldsInv
<1> QED BY <1>3, <1>4, <1>6, <1>7 DEF FieldsInv, Grows

LEMMA FieldsNextKeeps ==
  ASSUME FieldsInv, FieldsetsNext
  PROVE  FieldsInv'
<1>1. CASE Asking
  BY <1>1, TurnKeeps, ReadKeeps, RespondKeeps, ArriveKeeps DEF Asking
<1>2. CASE Starved
  BY <1>2, RespondKeeps DEF Starved
<1>3. ASSUME NEW t \in Tables, ChangeTable(t) PROVE FieldsInv'
  <2>1. tableRows' \in [Tables -> Nat] /\ session' = session /\ Changing
    BY <1>3 DEF ChangeTable, FieldsInv
  <2> QED BY <2>1, ChangingKeeps DEF FieldsInv
<1>4. ASSUME NEW s \in Sessions, ChangeSession(s) PROVE FieldsInv'
  BY <1>4, ChangingKeeps DEF ChangeSession, FieldsInv
<1> QED BY <1>1, <1>2, <1>3, <1>4 DEF FieldsetsNext, Worldly

LEMMA FieldsStutter ==
  ASSUME FieldsInv, UNCHANGED fieldsetsVars
  PROVE  FieldsInv'
<1>1. UNCHANGED <<session, tableRows, past, tab, asks>>
  BY DEF fieldsetsVars
<1>2. Grows
  BY <1>1, NothingMoves
<1>3. \A x \in Tabs : TabOK(x)'
  BY <1>1, <1>2, TabStays
<1>4. \A x \in Tabs : tab[x].asked \in Nat
  BY DEF FieldsInv, TabOK
<1>5. ASSUME NEW a \in asks' PROVE AskOK(a)'
  <2>1. AskOK(a) /\ a.tab \in Tabs
    BY <1>1 DEF FieldsInv, AskOK
  <2> QED BY <1>1, <1>2, <1>4, <2>1, AskStays
<1>6. DOMAIN tab' = Tabs
  BY <1>1 DEF FieldsInv
<1> QED BY <1>2, <1>3, <1>5, <1>6 DEF FieldsInv, Grows

(* A tab that is not waiting shows its own module as it was, to the viewer   *)
(* of then, at some time after it last asked, whatever the browser kept and  *)
(* whatever else was asked meanwhile (GetFieldset, fetchFieldset,            *)
(* fetchTableFieldOptions).                                                  *)
THEOREM FieldsetsAreCurrent == MCSpec => []ShownIsCurrent
<1>1. MCInit => FieldsInv
  BY FieldsStart DEF MCInit
<1>2. FieldsInv /\ [MCNext]_vars => FieldsInv'
  <2> SUFFICES ASSUME FieldsInv, [MCNext]_vars PROVE FieldsInv' OBVIOUS
  <2>1. FieldsetsNext \/ UNCHANGED fieldsetsVars
    BY DEF MCNext, vars
  <2> QED BY <2>1, FieldsNextKeeps, FieldsStutter
<1>3. FieldsInv => ShownIsCurrent
  BY DEF FieldsInv, TabOK, TrueSince, ShownIsCurrent
<1> QED BY <1>1, <1>2, <1>3, PTL DEF MCSpec, vars
=============================================================================
