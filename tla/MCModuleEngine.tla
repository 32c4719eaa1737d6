----------------------------- MODULE MCModuleEngine -----------------------------
(***************************************************************************)
(* A module and its rights.  A behaviour is of one kind, chosen at the     *)
(* start: administrators write the rights tables and users' modes are      *)
(* resolved; or the rights stand and the module is used, either while its  *)
(* table is reconciled or after; or a browser asks for fieldsets.          *)
(***************************************************************************)
EXTENDS ModuleEngine, Fieldsets

VARIABLE kind

Author1 == 5
Reader == 6
Admin == 7

MCGroupsOf == Author1 :> {1} @@ Reader :> {1, 2} @@ Admin :> {3}

Map(names, modes) == [n \in names |-> modes]
(* Readers may filter by the title; authors may write but the note.         *)
AuthorRow == [modes |-> {}, fields |-> Map({"title", "rank", "visible_users", "hide_users"}, Modes),
              filters |-> {}]
ReaderRow == [modes |-> {"filters"}, fields |-> <<>>, filters |-> {"title"}]

(* What administrators enter: modes, fields, filters.                        *)
MCRows ==
  {AuthorRow, ReaderRow,
   [modes |-> {"view", "filters"}, fields |-> Map({"title", "note"}, {"view", "edit"}),
    filters |-> {"title", "note"}],
   [modes |-> {"list", "edit"}, fields |-> Map({"note"}, {"view"}), filters |-> {}]}

Field(value) == [access |-> 0, adminOnly |-> FALSE, readOnly |-> FALSE, submit |-> TRUE,
                   required |-> FALSE, secret |-> FALSE, default |-> value]
System == [Field(<<>>) EXCEPT !.readOnly = TRUE, !.submit = FALSE]
Lists == {"visible_users", "visible_groups", "hide_users"}
Flags == {"visible_anyone", "visible_friends", "visible_subscribers", "visible_to_blocked"}
MCFields ==
  [n \in {"id", "uuid", "created_by"} |-> System]
  @@ "access"  :> [Field(<<0>>) EXCEPT !.submit = FALSE]
  @@ "deleted" :> [Field(<<FALSE>>) EXCEPT !.readOnly = TRUE, !.adminOnly = TRUE]
  @@ "title"   :> [Field(<<>>) EXCEPT !.required = TRUE]
  @@ "note"    :> [Field(<<>>) EXCEPT !.access = 2]
  @@ "rank"    :> Field(<<0>>)
  @@ [n \in Lists |-> Field(<<{}>>)] @@ [n \in Flags |-> Field(<<FALSE>>)]

MCConfigs ==
  {[owned |-> TRUE, soft |-> FALSE, lists |-> {}],
   [owned |-> FALSE, soft |-> TRUE, lists |-> {}],
   [owned |-> FALSE, soft |-> FALSE, lists |-> Lists \cup Flags]}

Row(by, access, title, rank, shown, flags) ==
  [n \in {"id", "uuid", "note"} |-> Unset] @@ "created_by" :> by @@ "access" :> access
  @@ "deleted" :> FALSE @@ "title" :> title @@ "rank" :> rank
  @@ [n \in Lists |-> shown[n]] @@ [n \in Flags |-> n \in flags]
To(users, groups, hidden) == [visible_users |-> users, visible_groups |-> groups, hide_users |-> hidden]

(* One for a user and the group of another, one for friends and subscribers *)
(* who are not blocked, one for anyone but a user.                          *)
MCFirstRows ==
  {1 :> Row(Author1, 0, "b", 1, To({Reader}, {0}, {}), {"visible_to_blocked"})
   @@ 2 :> Row(Reader, 2, "b", 0, To({}, {}, {}), {"visible_friends", "visible_subscribers"})
   @@ 3 :> Row(Author1, 0, "a", 1, To({}, {2}, {Reader}), {"visible_anyone"})}
MCFriends == {{Author1, Reader}}
MCSubscribed == {<<Author1, Reader>>}
MCBlocked == {<<Author1, Reader>>}
MCFirstColumns == {{}, DOMAIN MCFields \ {"note"}, DOMAIN MCFields}

MCBodies ==
  {"title" :> "c" @@ "note" :> "n" @@ "visible_users" :> {} @@ "created_by" :> Reader}
MCAsks ==
  {[own |-> FALSE, filter |-> NoFilter, sort |-> "", limit |-> 1],
   [own |-> FALSE, filter |-> <<"title", "b">>, sort |-> "", limit |-> 2],
   [own |-> TRUE, filter |-> NoFilter, sort |-> "rank", limit |-> 2]}

SelectField(name, access, source, within) ==
  [name |-> name, admin |-> FALSE, access |-> access, table |-> source, columns |-> within,
   modes |-> {"view", "edit"}]
MCFieldModules ==
  "m" :> <<SelectField("a", 1, "t", <<>>), SelectField("b", 0, "none", <<SelectField("k", 0, "u", <<>>)>>)>>
  @@ "n" :> <<SelectField("a", 0, "u", <<>>)>>
MCSessions ==
  {[admin |-> TRUE, level |-> 2, rights |-> <<>>],
   [admin |-> FALSE, level |-> 1, rights |-> "m" :> ("b" :> {"view"})]}
OneBroken == tableRows["u"] = 1 /\ (tableRows["t"] = 0 => session.admin)
NoneAsks == session.admin /\ tableRows = [t \in Tables |-> 1]

MCSymmetry == Permutations(Workers)

MCInit ==
  /\ kind \in {"rights", "rows", "columns", "fields"}
  /\ EngineInit /\ FieldsetsInit
  /\ IF kind = "fields" THEN OneBroken ELSE NoneAsks
  /\ \/ kind = "rights" /\ RightsInit
        /\ columns = Stored /\ cached = Stored /\ config = CHOOSE c \in Configs : TRUE
     \/ /\ kind # "rights"
        /\ kind # "columns" => columns = Stored /\ cached = Stored
        /\ kind = "columns" => cached = {}
        /\ kind # "rows" => config = CHOOSE c \in Configs : TRUE
        /\ default = "write" /\ query = NoQuery /\ writes = 0
        /\ granted = [g \in Groups |-> IF g = 1 THEN {AuthorRow} ELSE IF g = 2 THEN {ReaderRow} ELSE {}]
        /\ ceiling = [g \in Groups |-> {}] /\ personal = [u \in Users |-> <<>>]

(* The reconciliation does not fall between a look at the table and the     *)
(* entry made of it: a request that looked before the table was altered     *)
(* could enter what it saw after the entry was dropped.                     *)
LooksAreWhole == job' # job => \A w \in Workers : worker[w].at # "store"
OnlyFirstPages ==
  \A w \in Workers : worker'[w] # Idle =>
    /\ "page" \in DOMAIN worker'[w]
    /\ worker'[w].page = FirstPage /\ ~worker'[w].ask.own

MCNext ==
  /\ kind' = kind
  /\ \/ kind = "rights" /\ RightsNext /\ UNCHANGED <<engineVars, fieldsetsVars>>
     \/ kind = "fields" /\ FieldsetsNext /\ UNCHANGED <<rightsVars, engineVars>>
     \/ kind \in {"rows", "columns"} /\ EngineNext /\ UNCHANGED <<rightsVars, fieldsetsVars>>
        /\ IF kind = "columns" THEN LooksAreWhole /\ OnlyFirstPages ELSE UNCHANGED job

MCSpec == MCInit /\ [][MCNext]_<<rightsVars, engineVars, fieldsetsVars, kind>>

(* What the resolvers make of the rights tables.                            *)
RightsSound == ResolversAgree /\ RolesOnlyNarrow

(* The columns of the table, where every look at them is whole.             *)
CalmNewColumnsAreServed == kind = "columns" => NewColumnsAreServed
=================================================================================
