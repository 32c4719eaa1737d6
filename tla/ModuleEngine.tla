----------------------------- MODULE ModuleEngine -----------------------------
(***************************************************************************)
(* The generic module engine: one module's table, read and written over    *)
(* HTTP through its fieldset (base_controller.go, fieldset_engine.go,      *)
(* rowscope.go, accessfilter.go), with the gate of the middleware before   *)
(* it and the reconciliation of the table's columns beside it (module.go). *)
(*                                                                         *)
(* A request takes its viewer from the session once; each of its queries   *)
(* is a step.  The rights themselves are the subject of Rights.  A row is  *)
(* a function from the names of the fields to values.                      *)
(***************************************************************************)
EXTENDS Rights, TLC

CONSTANTS
  Fields,     \* name -> [access, adminOnly, readOnly, submit, required, secret, default],
              \* the default a sequence of at most one value
  Configs,    \* declarations of a module: [owned, soft, lists]
  Friends,    \* sets of two users
  Subscribed, \* <<subscriber, author>>
  Blocked,    \* <<author, user>>
  Bodies,     \* what clients submit: functions from some of the fields
  FirstRows,  \* tables there may be at the start: id -> row
  FirstColumns, \* the columns they may have
  Asks,       \* what a list may ask for: [own, filter, sort, limit]
  Workers, MaxRequests, MaxRows

Stored == DOMAIN Fields
Unset == "unset"   \* no value
NoFilter == <<>>
AnyKey == 0
FirstPage == 1

VARIABLES
  config,   \* the module's declaration
  rows,     \* the table: id -> row
  lastId,   \* its sequence
  columns,  \* the columns the table has; none: there is no table
  cached,   \* tableColsCache; none: no entry
  job,      \* EnsureTableExists: where it is and the columns it found
  worker,   \* the requests under way
  requests  \* requests so far

engineVars == <<config, rows, lastId, columns, cached, job, worker, requests>>
table == <<rows, lastId>>
schema == <<columns, cached, job>>

Idle == [at |-> "idle"]

-----------------------------------------------------------------------------
(* What a viewer may see and do (accessfilter.go).                         *)
SystemFields == {"id", "uuid", "created", "updated", "created_by", "access"}
AuthorLists == {"visible_users", "visible_groups"}
SharingLists == AuthorLists \cup {"visible_anyone", "visible_friends", "visible_subscribers"}

VisibleInSchema(v, n) ==
  \/ v.admin
  \/ /\ ~Fields[n].adminOnly /\ n \notin SystemFields
     /\ Fields[n].access <= v.level
     /\ FieldModes(v, n) # {}

Readable(v, n) ==
  /\ ~Fields[n].secret
  /\ \/ v.admin
     \/ n \in SystemFields \ {"uuid"}
     \/ n \notin SystemFields /\ FieldModes(v, n) # {} /\ Fields[n].access <= v.level

Writable(v, n) == Fields[n].submit /\ ~Fields[n].readOnly /\ VisibleInSchema(v, n)

MayFilter(v, n) ==
  v.admin \/ (/\ "filters" \in v.modes /\ VisibleInSchema(v, n)
              /\ v.filters = AnyFilter \/ n \in v.filters)

(* buildVisibilityCondition: the sharing lists the module declares, or the  *)
(* row's access level.                                                      *)
Shared(row, v) ==
  \/ v.user # Nobody /\ row["created_by"] = v.user
  \/ "visible_users" \in config.lists /\ v.user \in row["visible_users"]
  \/ "visible_groups" \in config.lists /\ MyGroups(v.user) \cap row["visible_groups"] # {}
  \/ "visible_anyone" \in config.lists /\ row["visible_anyone"]
  \/ /\ "visible_friends" \in config.lists /\ row["visible_friends"]
     /\ v.user # Nobody /\ {v.user, row["created_by"]} \in Friends
  \/ /\ "visible_subscribers" \in config.lists /\ row["visible_subscribers"]
     /\ v.user # Nobody /\ <<v.user, row["created_by"]>> \in Subscribed

Withheld(row, v) ==
  /\ v.user # Nobody
  /\ \/ /\ "visible_to_blocked" \in config.lists /\ ~row["visible_to_blocked"]
        /\ <<row["created_by"], v.user>> \in Blocked
     \/ "hide_users" \in config.lists /\ v.user \in row["hide_users"]

Visible(row, v) ==
  \/ v.admin
  \/ config.lists \cap SharingLists # {} /\ Shared(row, v) /\ ~Withheld(row, v)
  \/ config.lists \cap SharingLists = {} /\ row["access"] <= v.level

(* buildScopeConditions; ask.own lets an administrator ask for his own.     *)
Passes(row, v, filter) ==
  filter = NoFilter \/ ~MayFilter(v, filter[1]) \/ row[filter[1]] = filter[2]

InScope(row, v, own) ==
  /\ Visible(row, v)
  /\ config.owned /\ v.user # Nobody /\ (~v.admin \/ own) => row["created_by"] = v.user
  /\ config.soft => ~row["deleted"]

Scope(v, key, ask) ==
  {id \in DOMAIN rows : /\ key \in {AnyKey, id}
                        /\ Passes(rows[id], v, ask.filter)
                        /\ InScope(rows[id], v, ask.own)}

(* ORDER BY one field the viewer may read, else the id: rows that are equal *)
(* in it come in any order.                                                 *)
SortField(v, ask) == IF ask.sort \in Stored /\ Readable(v, ask.sort) THEN ask.sort ELSE "id"
Value(id, sort) == IF sort = "id" THEN id ELSE rows[id][sort]
Orders(ids, sort) ==
  {s \in SetToSeqs(ids) : \A i, j \in DOMAIN s : i < j => Value(s[i], sort) <= Value(s[j], sort)}

Page(s, page, limit) == SubSeq(s, (page - 1) * limit + 1, Min({page * limit, Len(s)}))
Pages(total, limit) == (total + limit - 1) \div limit

-----------------------------------------------------------------------------
ASSUME EngineAssumption ==
  /\ \A n \in Stored :
       /\ Fields[n].access \in Nat
       /\ \A b \in {"adminOnly", "readOnly", "submit", "required", "secret"} : Fields[n][b] \in BOOLEAN
       /\ Len(Fields[n].default) <= 1
  /\ "created_by" \in Stored /\ Fields["created_by"].readOnly
  /\ \A b \in Bodies : DOMAIN b \subseteq Stored
  /\ FirstColumns \subseteq SUBSET Stored
  /\ \A t \in FirstRows : /\ IsFiniteSet(DOMAIN t) /\ DOMAIN t \subseteq 1..Cardinality(DOMAIN t)
                          /\ \A id \in DOMAIN t : DOMAIN t[id] = Stored
  /\ MaxRows \in Nat /\ MaxRequests \in Nat

EngineInit ==
  /\ config \in Configs
  /\ rows \in FirstRows /\ lastId = Cardinality(DOMAIN rows)
  /\ columns \in FirstColumns /\ cached \in {{}, columns} /\ job = [at |-> "exists"]
  /\ worker = [w \in Workers |-> Idle]
  /\ requests = 0

(* A step of one request, and what it means for the others: a list that has *)
(* begun is no longer of one state of the table.                            *)
Becomes(w, r) == worker' = [worker EXCEPT ![w] = r]
Disturbs(w) ==
  worker' = [x \in Workers |->
    IF x = w THEN Idle
    ELSE IF "quiet" \in DOMAIN worker[x] THEN [worker[x] EXCEPT !.quiet = FALSE] ELSE worker[x]]

(* The middleware lets a request through to a mode its user has.            *)
Arrives(w, u, mode, r) ==
  /\ worker[w] = Idle /\ requests < MaxRequests
  /\ requests' = requests + 1
  /\ HasMode(Resolved(u), mode)
  /\ Becomes(w, r)
  /\ UNCHANGED <<config, table, schema>>

Reading(u, key, ask) ==
  [at |-> "lookup", viewer |-> Resolved(u), key |-> key, ask |-> ask, page |-> FirstPage,
   cols |-> {}, fields |-> {}, shown |-> <<>>, total |-> 0,
   quiet |-> TRUE, late |-> job.at = "done"]
Plain == [own |-> FALSE, filter |-> NoFilter, sort |-> "", limit |-> 20]

List(w, u, ask) == Arrives(w, u, "list", Reading(u, AnyKey, ask))
View(w, u, id)  == Arrives(w, u, "view", Reading(u, id, Plain))
Create(w, u, body) ==
  Arrives(w, u, "create", [at |-> "insert", viewer |-> Resolved(u), body |-> body])
Edit(w, u, id, body) ==
  Arrives(w, u, "edit", [at |-> "authorize", then |-> "update", viewer |-> Resolved(u),
                         key |-> id, body |-> body])
Delete(w, u, id) ==
  Arrives(w, u, "delete", [at |-> "authorize", then |-> "delete", viewer |-> Resolved(u),
                           key |-> id])

(* A query or a hook fails: the request is answered with an error.          *)
Fail(w) ==
  /\ worker[w] # Idle /\ Becomes(w, Idle)
  /\ UNCHANGED <<config, table, schema, requests>>

(* tableColumnsCached: the entry, or a look at the table and then the entry.*)
Lookup(w, ok) ==
  /\ worker[w].at = "lookup"
  /\ Becomes(w, IF cached # {} THEN [worker[w] EXCEPT !.at = "select", !.cols = cached]
                ELSE [worker[w] EXCEPT !.at = "store", !.cols = IF ok THEN columns ELSE {}])
  /\ UNCHANGED <<config, table, schema, requests>>

StoreColumns(w) ==
  /\ worker[w].at = "store"
  /\ cached' = IF worker[w].cols = {} THEN cached ELSE worker[w].cols
  /\ Becomes(w, [worker[w] EXCEPT !.at = "select"])
  /\ UNCHANGED <<config, table, columns, job, requests>>

(* ExecuteQuery: a page of the rows in scope, with their number on each row *)
(* of it; the fields are those the viewer may read and the table is known   *)
(* to have.                                                                 *)
Selected(r) == {n \in Stored : Readable(r.viewer, n) /\ (r.cols = {} \/ n \in r.cols)}

Select(w) ==
  LET r   == worker[w]
      ids == Scope(r.viewer, r.key, r.ask)
  IN  /\ r.at = "select" /\ columns # {} /\ Selected(r) \subseteq columns
      /\ \E s \in Orders(ids, SortField(r.viewer, r.ask)) :
           LET page == Page(s, r.page, r.ask.limit)
           IN  Becomes(w, [r EXCEPT !.at = IF page = <<>> THEN "count" ELSE "answer",
                                    !.fields = Selected(r), !.shown = @ \o page,
                                    !.total = Cardinality(ids)])
      /\ UNCHANGED <<config, table, schema, requests>>

(* totalFromResults: an empty page has no row to read the number from.      *)
\* Mutant: an empty page says that there is nothing.
CountNothing(w) ==
  /\ worker[w].at = "count"
  /\ Becomes(w, [worker[w] EXCEPT !.at = "answer", !.total = 0])
  /\ UNCHANGED <<config, table, schema, requests>>

Count(w) ==
  LET r == worker[w]
  IN  /\ r.at = "count"
      /\ Becomes(w, [r EXCEPT !.at = "answer",
                              !.total = Cardinality(Scope(r.viewer, r.key, r.ask))])
      /\ UNCHANGED <<config, table, schema, requests>>

(* The answer; whoever lists goes on to the next page, or past the last.    *)
Reply(w) ==
  LET r == worker[w]
  IN  /\ r.at = "answer"
      /\ \/ r.key = AnyKey /\ r.page <= Pages(r.total, r.ask.limit)
              /\ Becomes(w, [r EXCEPT !.at = "lookup", !.page = @ + 1, !.cols = {}])
         \/ r.page >= Pages(r.total, r.ask.limit) /\ Becomes(w, Idle)
      /\ UNCHANGED <<config, table, schema, requests>>

-----------------------------------------------------------------------------
(* The values of new, and those of old where it has none.                   *)
Over(new, old) ==
  [n \in DOMAIN new \cup DOMAIN old |-> IF n \in DOMAIN new THEN new[n] ELSE old[n]]

(* Create: what is required must be submitted, whoever submits it; then     *)
(* what the viewer may not write is dropped, defaults fill in, and the      *)
(* author is stamped.                                                       *)
Missing(body) ==
  \E n \in Stored : /\ Fields[n].required /\ Fields[n].submit /\ Fields[n].default = <<>>
                    /\ n \notin DOMAIN body \/ body[n] = Unset
Accepted(v, body) == Restrict(body, {n \in DOMAIN body : Writable(v, n)})
Defaults == [n \in {x \in Stored : ~Fields[x].readOnly /\ Fields[x].default # <<>>} |->
               Fields[n].default[1]]
Author(v) == IF v.user = Nobody THEN <<>> ELSE "created_by" :> v.user
Inserted(v, body) == Author(v) @@ Accepted(v, body) @@ Defaults
NewRow == [n \in Stored |-> IF n = "created_by" THEN Nobody
                            ELSE IF Fields[n].default = <<>> THEN Unset ELSE Fields[n].default[1]]

Insert(w) ==
  LET r   == worker[w]
      new == Inserted(r.viewer, r.body)
  IN  /\ r.at = "insert" /\ ~Missing(r.body) /\ lastId < MaxRows
      /\ DOMAIN new \subseteq columns
      /\ lastId' = lastId + 1
      /\ rows' = Over([id \in {lastId'} |-> Over(new, NewRow)], rows)
      /\ Disturbs(w)
      /\ UNCHANGED <<config, schema, requests>>

(* authorizeWriteBy: the row must be in scope, and the author's own where   *)
(* the module is owner-scoped or shared by lists; administrators pass.      *)
AuthorOnly == config.owned \/ config.lists \cap AuthorLists # {}

\* Mutant: whoever sees a row may write it.
MayWriteSeen(v, id) == v.admin \/ id \in Scope(v, id, Plain)
MayWrite(v, id) ==
  v.admin \/ (/\ id \in Scope(v, id, Plain)
              /\ AuthorOnly => v.user # Nobody /\ rows[id]["created_by"] = v.user)

Authorize(w) ==
  LET r == worker[w]
  IN  /\ r.at = "authorize"
      /\ Becomes(w, IF MayWrite(r.viewer, r.key) THEN [r EXCEPT !.at = r.then] ELSE Idle)
      /\ UNCHANGED <<config, table, schema, requests>>

(* The row is written by its key, whatever has become of it.                *)
Update(w) ==
  LET r   == worker[w]
      new == Accepted(r.viewer, r.body)
  IN  /\ r.at = "update" /\ DOMAIN new # {} /\ DOMAIN new \subseteq columns
      /\ rows' = IF r.key \in DOMAIN rows THEN [rows EXCEPT ![r.key] = Over(new, @)] ELSE rows
      /\ Disturbs(w)
      /\ UNCHANGED <<config, lastId, schema, requests>>

RemoveRow(w) ==
  LET id == worker[w].key
  IN  /\ worker[w].at = "delete"
      /\ rows' = IF id \notin DOMAIN rows THEN rows
                 ELSE IF config.soft THEN [rows EXCEPT ![id]["deleted"] = TRUE]
                 ELSE Restrict(rows, DOMAIN rows \ {id})
      /\ Disturbs(w)
      /\ UNCHANGED <<config, lastId, schema, requests>>

-----------------------------------------------------------------------------
(* EnsureTableExists, in the background: create the table, or add what it   *)
(* lacks in one transaction and forget what was known of it.                *)
EnsureTable(ok) ==
  /\ job.at = "exists"
  /\ \/ ok /\ columns # {} /\ job' = [at |-> "alter"] /\ UNCHANGED columns
     \/ ok /\ columns = {} /\ job' = [at |-> "done"] /\ columns' = Stored
     \/ ~ok /\ job' = [at |-> "done"] /\ UNCHANGED columns
  /\ UNCHANGED <<config, table, cached, worker, requests>>

AddColumns(ok) ==
  /\ job.at = "alter"
  /\ columns' = IF ok THEN Stored ELSE columns
  /\ job' = [at |-> IF ok THEN "forget" ELSE "done"]
  /\ UNCHANGED <<config, table, cached, worker, requests>>

\* Mutant: what was known of the table stays.
KeepColumns ==
  /\ job.at = "forget" /\ job' = [at |-> "done"]
  /\ UNCHANGED <<config, table, columns, cached, worker, requests>>

ForgetColumns ==
  /\ job.at = "forget" /\ job' = [at |-> "done"]
  /\ cached' = {}
  /\ UNCHANGED <<config, table, columns, worker, requests>>

ReadStep(w) ==
  (\E ok \in BOOLEAN : Lookup(w, ok)) \/ StoreColumns(w) \/ Select(w) \/ Count(w) \/ Reply(w)
WriteStep(w) == Insert(w) \/ Authorize(w) \/ Update(w) \/ RemoveRow(w)

EngineNext ==
  \/ \E w \in Workers, u \in Users \cup {Nobody} :
       \/ \E ask \in Asks : List(w, u, ask)
       \/ \E id \in 1..lastId : View(w, u, id) \/ Delete(w, u, id)
       \/ \E body \in Bodies : Create(w, u, body) \/ \E id \in 1..lastId : Edit(w, u, id, body)
  \/ \E w \in Workers : ReadStep(w) \/ WriteStep(w) \/ Fail(w)
  \/ (\E ok \in BOOLEAN : EnsureTable(ok) \/ AddColumns(ok)) \/ ForgetColumns

-----------------------------------------------------------------------------
(* Properties.                                                             *)

EngineTypeOK ==
  /\ RightsTypeOK
  /\ config \in Configs
  /\ DOMAIN rows \subseteq 1..lastId /\ lastId \in 0..MaxRows
  /\ \A id \in DOMAIN rows : DOMAIN rows[id] = Stored
  /\ columns \subseteq Stored /\ cached \subseteq Stored
  /\ job.at \in {"exists", "alter", "forget", "done"}
  /\ \A w \in Workers : worker[w].at \in {"idle", "lookup", "store", "select", "count", "answer",
                                          "insert", "authorize", "update", "delete"}
  /\ requests \in 0..MaxRequests

(* The table is well formed (EngineTypeOK), and                             *)
(* walking through the pages of a list in the order of the ids, with no     *)
(* write to the table meanwhile, shows every row in the viewer's scope once *)
(* and says how many they are, on the page past the last too                *)
(* (ExecuteQuery, totalFromResults).                                        *)
PagesCoverScope ==
  EngineTypeOK /\ \A w \in Workers :
    LET r == worker[w]
        scope == Scope(r.viewer, r.key, r.ask)
    IN  /\ r.at = "answer" /\ r.quiet
        /\ SortField(r.viewer, r.ask) = "id"
        => /\ r.total = Cardinality(scope)
           /\ r.page >= Pages(r.total, r.ask.limit) =>
                IsInjective(r.shown) /\ Range(r.shown) = scope

(* A request that came after the reconciliation of the table is answered    *)
(* with every column the table has and its viewer may read, the new ones    *)
(* included (EnsureTableExists).                                            *)
NewColumnsAreServed ==
  \A w \in Workers :
    LET r == worker[w]
    IN  r.at = "answer" /\ r.late => {n \in columns : Readable(r.viewer, n)} = r.fields

(* Whatever happens between the check of a write and the write: a row is    *)
(* changed or removed by a request of an administrator, or of its author    *)
(* where the module is the authors' own, in fields the request's user is    *)
(* shown, and never changes its author (authorizeWriteBy,                   *)
(* filterValidFields).                                                      *)
WrittenBy(w, id) ==
  LET v == worker[w].viewer
  IN  /\ worker[w].at \in {"update", "delete"} /\ worker'[w] = Idle
      /\ worker[w].key = id
      /\ v.admin \/ ~AuthorOnly \/ rows[id]["created_by"] = v.user
      /\ id \in DOMAIN rows' =>
           \A n \in Stored : rows'[id][n] # rows[id][n] =>
             n # "created_by" /\ (VisibleInSchema(v, n) \/ n = "deleted")

WritesByRight ==
  [][\A id \in DOMAIN rows :
       id \notin DOMAIN rows' \/ rows'[id] # rows[id] => \E w \in Workers : WrittenBy(w, id)]_rows
=============================================================================
