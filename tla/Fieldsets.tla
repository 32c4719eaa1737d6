------------------------------- MODULE Fieldsets -------------------------------
(***************************************************************************)
(* How a page comes by the fieldset of a module (fieldset_handler.go,      *)
(* accessfilter.go, FieldsetProvider.tsx): the server describes the fields *)
(* its viewer may see and gives selects the rows of their tables as        *)
(* options; the browser keeps the last answer of every module and sends    *)
(* its hash, and an answer that has not changed is not sent again.         *)
(*                                                                         *)
(* A fieldset stands for its own hash; a key such as "f1_c0" for the path  *)
(* <<1, 0>> of its indices, counted from 1.  Options that a function gives *)
(* are left out, and so is whatever else the description says of a field.  *)
(***************************************************************************)
EXTENDS Naturals, Sequences, FiniteSets, Functions

CONSTANTS
  FieldModules,  \* module -> its fields, [name, admin, access, table, columns]
  Sessions,      \* sessions a browser may have: [admin, level, rights]
  Tables,        \* tables selects take their options from
  Tabs,          \* pages of the browser
  MaxChanges,    \* bound: changes of the tables or of the session
  MaxAsks        \* bound: requests ever made

NoTable == "none"
NoFieldset == [module |-> "none", fields |-> <<>>]

ASSUME FieldsetsAssumption == MaxChanges \in Nat /\ MaxAsks \in Nat /\ NoTable \notin Tables

VARIABLES
  session,    \* of the browser, as the server knows it
  tableRows,     \* table -> its rows: a number, 0 where its query fails
  past,       \* history: every [session, tableRows] there has been, the last one current
  lastSent, \* session.Fieldset: module -> the last answer
  storage,    \* localStorage: module -> the answer kept, or NoFieldset
  tab,        \* [module, asked, status, shown, since]
  asks        \* requests under way

fieldsetsVars == <<session, tableRows, past, lastSent, storage, tab, asks>>

ModuleNames == DOMAIN FieldModules
World == [session |-> session, tableRows |-> tableRows]

FieldsetsInit ==
  /\ session \in Sessions
  /\ tableRows \in [Tables -> {0, 1}]
  /\ past = <<World>>
  /\ lastSent = [m \in ModuleNames |-> NoFieldset] /\ storage = [m \in ModuleNames |-> NoFieldset]
  /\ tab = [t \in Tabs |-> [module |-> "none", asked |-> 0, status |-> "error", shown |-> NoFieldset, since |-> 1]]
  /\ asks = {}

Asked == FoldFunctionOnSet(+, 0, [t \in Tabs |-> tab[t].asked], Tabs)

-----------------------------------------------------------------------------
(* fieldVisibleInSchema and fieldModeMask: rights is empty where the module *)
(* is not restricted.                                                       *)
Mask(s, m, f) ==
  IF m \notin DOMAIN s.rights THEN f.modes
  ELSE IF f.name \in DOMAIN s.rights[m] THEN f.modes \cap s.rights[m][f.name] ELSE {}

Described(s, m, f) ==
  /\ s.admin \/ (~f.admin /\ f.access <= s.level)
  /\ Mask(s, m, f) # {}

VisibleFields(s, m) ==
  LET seen == SelectSeq(FieldModules[m], LAMBDA f : Described(s, m, f))
  IN  [i \in DOMAIN seen |-> [seen[i] EXCEPT !.modes = Mask(s, m, seen[i])]]

(* collectTableFieldRefs: where every select is.  The mutant counts the     *)
(* fields that are hidden as well.                                          *)
Paths(fields) ==
  {<<i>> : i \in DOMAIN fields}
  \cup UNION {{<<i, j>> : j \in DOMAIN fields[i].columns} : i \in DOMAIN fields}
FieldAt(fields, path) == IF Len(path) = 1 THEN fields[path[1]] ELSE fields[path[1]].columns[path[2]]
HasTable(f) == f.table # NoTable /\ f.columns = <<>>

RefsOfAll(s, m) ==
  LET fields == FieldModules[m]
  IN  {[key |-> p, table |-> FieldAt(fields, p).table] : p \in {q \in Paths(fields) : HasTable(FieldAt(fields, q))}}
Refs(s, m) ==
  LET fields == VisibleFields(s, m)
  IN  {[key |-> p, table |-> FieldAt(fields, p).table] : p \in {q \in Paths(fields) : HasTable(FieldAt(fields, q))}}

(* fetchTableFieldOptions: one query for all, or, when that fails, one for  *)
(* each, of which those that work count; the query of a table that does not *)
(* exist fails.                                                             *)
RowsOf(contents, table) == IF table \in Tables THEN contents[table] ELSE 0
OptionsOf(some, refs) ==
  [k \in {r.key : r \in some} |-> RowsOf(tableRows, (CHOOSE r \in refs : r.key = k).table)]
Fetched(refs) ==
  LET working == {r \in refs : RowsOf(tableRows, r.table) # 0}
  IN  IF \A r \in refs : r \in working THEN OptionsOf(refs, refs) ELSE OptionsOf(working, refs)

(* resolveFieldOptions.                                                     *)
Option(options, key) == IF key \in DOMAIN options THEN options[key] ELSE 0
WithOptions(fields, options) ==
  [i \in DOMAIN fields |->
     [name |-> fields[i].name, modes |-> fields[i].modes, options |-> Option(options, <<i>>),
      columns |-> [j \in DOMAIN fields[i].columns |->
                     [name |-> fields[i].columns[j].name, options |-> Option(options, <<i, j>>)]]]]
Description(ask) == [module |-> ask.module,
                fields |-> WithOptions(VisibleFields(ask.session, ask.module), Fetched(Refs(ask.session, ask.module)))]

-----------------------------------------------------------------------------
(* fetchFieldset: a tab turns to a module, or asks again.                   *)
Turn(t, m) ==
  /\ Asked < MaxAsks
  /\ tab' = [tab EXCEPT ![t] = [@ EXCEPT !.module = m, !.asked = tab[t].asked + 1, !.status = "loading",
                                         !.since = Len(past)]]
  /\ asks' = asks \cup {[tab |-> t, number |-> tab[t].asked + 1, module |-> m, cached |-> storage[m],
                         at |-> "sent", session |-> session, answer |-> NoFieldset]}
  /\ UNCHANGED <<session, tableRows, past, lastSent, storage>>

Step(ask, to) == asks' = (asks \ {ask}) \cup {to}

(* The middleware has read the session.                                     *)
ReadSession(ask) ==
  /\ ask.at = "sent"
  /\ Step(ask, [ask EXCEPT !.at = "described", !.session = session])
  /\ UNCHANGED <<session, tableRows, past, lastSent, storage, tab>>

(* 304 for what the browser has.  Mutant: for what the session remembers.   *)
SameAsSent(ask, answer) == ask.cached # NoFieldset /\ lastSent[ask.module] = ask.cached
Same(ask, answer) == ask.cached = answer

Respond(ask, answer) ==
  /\ ask.at = "described"
  /\ IF Same(ask, answer)
     THEN Step(ask, [ask EXCEPT !.at = "unchanged"]) /\ UNCHANGED lastSent
     ELSE /\ Step(ask, [ask EXCEPT !.at = "answered", !.answer = answer])
          /\ lastSent' = [lastSent EXCEPT ![ask.module] = answer]
  /\ UNCHANGED <<session, tableRows, past, storage, tab>>

(* The connection for the options cannot be had: there are none.            *)
Bare(ask) == [module |-> ask.module, fields |-> WithOptions(VisibleFields(ask.session, ask.module), <<>>)]

-----------------------------------------------------------------------------
(* The answer is applied only by the tab that has asked nothing since.  The *)
(* mutant applies every answer.                                             *)
AnyAnswer(ask) == TRUE
Latest(ask) == tab[ask.tab].asked = ask.number

Arrive(ask) ==
  /\ ask.at \in {"unchanged", "answered"}
  /\ asks' = asks \ {ask}
  /\ LET shown == IF ask.at = "unchanged" THEN ask.cached ELSE ask.answer
     IN  IF ~Latest(ask) THEN UNCHANGED <<tab, storage>>
         ELSE /\ tab' = [tab EXCEPT ![ask.tab] = [@ EXCEPT !.shown = shown, !.status = "ready"]]
              /\ storage' = IF ask.at = "answered" THEN [storage EXCEPT ![ask.module] = shown] ELSE storage
  /\ UNCHANGED <<session, tableRows, past, lastSent>>

Lost(ask) ==
  /\ asks' = asks \ {ask}
  /\ tab' = IF Latest(ask) THEN [tab EXCEPT ![ask.tab] = [@ EXCEPT !.status = "error"]] ELSE tab
  /\ UNCHANGED <<session, tableRows, past, lastSent, storage>>

-----------------------------------------------------------------------------
(* Rows come and go, a table breaks or is mended; rights change, or someone *)
(* else signs in, whom nothing is lastSent of.                            *)
Changing ==
  /\ Len(past) <= MaxChanges
  /\ past' = Append(past, [session |-> session', tableRows |-> tableRows'])
  /\ UNCHANGED <<storage, tab, asks>>

ChangeTable(t) ==
  /\ tableRows' = [tableRows EXCEPT ![t] = IF @ = 0 THEN 1 ELSE @ - 1]
  /\ UNCHANGED <<session, lastSent>> /\ Changing

ChangeSession(s) ==
  /\ s # session /\ session' = s
  /\ UNCHANGED <<tableRows, lastSent>> /\ Changing

-----------------------------------------------------------------------------
Asking ==
  \/ \E t \in Tabs, m \in ModuleNames : Turn(t, m)
  \/ \E ask \in asks : ReadSession(ask) \/ Respond(ask, Description(ask)) \/ Arrive(ask) \/ Lost(ask)
Starved == \E ask \in asks : Respond(ask, Bare(ask))
Worldly == (\E t \in Tables : ChangeTable(t)) \/ (\E s \in Sessions : ChangeSession(s))

FieldsetsNext == Asking \/ Starved \/ Worldly

FieldsetsSpec == FieldsetsInit /\ [][FieldsetsNext]_fieldsetsVars

-----------------------------------------------------------------------------
(* Properties.                                                             *)

(* What a module's fields are to a viewer, every select with the rows of    *)
(* its own table.                                                           *)
Offered(f, contents) == IF HasTable(f) THEN RowsOf(contents, f.table) ELSE 0
Truth(m, s, rows) ==
  LET fields == VisibleFields(s, m)
  IN  [module |-> m, fields |-> [i \in DOMAIN fields |->
         [name |-> fields[i].name, modes |-> fields[i].modes, options |-> Offered(fields[i], rows),
          columns |-> [j \in DOMAIN fields[i].columns |->
             [name |-> fields[i].columns[j].name, options |-> Offered(fields[i].columns[j], rows)]]]]]

(* A tab that is not waiting shows its own module as it was, to the viewer  *)
(* of then, at some time after it last asked: whatever the browser has      *)
(* kept, for whomever, whatever else was asked meanwhile, and with one      *)
(* table's query failing not costing another's options, although none had   *)
(* when no connection was to be had (GetFieldset, fetchFieldset,            *)
(* fetchTableFieldOptions).                                                 *)
Nothing == [t \in Tables |-> 0]
ShownIsCurrent ==
  \A t \in Tabs : tab[t].status = "ready" =>
    \E i, j \in tab[t].since..Len(past) :
      \E rows \in {past[j].tableRows, Nothing} :
        tab[t].shown = Truth(tab[t].module, past[i].session, rows)
================================================================================
