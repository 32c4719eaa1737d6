------------------------------- MODULE Settings -------------------------------
(***************************************************************************)
(* The settings of users: the rows of the table config, for everyone, for  *)
(* a group and for a user; the effective settings that                     *)
(* controllers/config.Resolve makes of them, kept in the session and made  *)
(* again when an epoch has moved (auth/sessions.go); the profile page that *)
(* saves a user's own; and AppConfig of the browser, which reads them.     *)
(*                                                                         *)
(* A parameter is a key, and so is each pair of a module and a mode of     *)
(* module_views, which override each other pair by pair.  The rights of    *)
(* sessions are Sessions': here they are the epoch they were made at.      *)
(***************************************************************************)
EXTENDS Integers, FiniteSets, FiniteSetsExt, Folds, Functions

CONSTANTS
  Members,     \* users who are signed in
  Guest,       \* who is not
  Everyone,    \* the global scope
  Groups,      \* their ids
  Params, OwnParams, \* parameters; those the profile page offers
  Values, Unset,
  Defaults,    \* of each key; Unset where there is none
  Goroutines,      \* requests under way
  MaxAsks, MaxEdits \* bounds: requests; edits by administrators

People == Members \cup {Guest}
Settable == Values \cup {Unset}
Scopes == {Everyone} \cup Groups \cup Members
NoRow == [k \in {} |-> Unset]

ASSUME SettingsAssumption ==
  /\ Groups \subseteq Nat /\ IsFiniteSet(Groups)
  /\ Guest \notin Members /\ Everyone \notin Groups \cup Members /\ Unset \notin Values
  /\ OwnParams \subseteq Params /\ Defaults \in [Params -> Settable]
  /\ {MaxAsks, MaxEdits} \subseteq Nat

VARIABLES
  rows,      \* the row of each scope, NoRow where there is none
  groupsOf,
  epochs,    \* the config epoch and the rights epoch
  kept,      \* the session of each user
  page,      \* AppConfig of each user's browser, with what it was answered from
  job,       \* what each request is doing
  asked, edited \* requests and edits so far

settingsVars == <<rows, groupsOf, epochs, kept, page, job, asked, edited>>

(* clean: neither a statement failed nor a row changed while the settings   *)
(* were being resolved.                                                     *)
NoSettings == [config |-> [k \in Params |-> Unset], epochs |-> [config |-> 0, rights |-> 0], clean |-> FALSE]
Resting == [at |-> "idle"]

SettingsInit ==
  /\ rows \in [Scopes -> [Params -> Settable] \cup {NoRow}]
  /\ groupsOf \in [Members -> SUBSET Groups]
  /\ epochs = [config |-> 1, rights |-> 1]
  /\ kept = [u \in People |-> NoSettings]
  /\ page = [u \in People |-> [NoSettings EXCEPT !.config = Defaults]]
  /\ job = [t \in Goroutines |-> Resting]
  /\ asked = 0 /\ edited = 0

-----------------------------------------------------------------------------
(* apply of Resolve: what a row sets overrides, what it leaves empty not.   *)
Override(config, row) == [k \in Params |-> IF k \in DOMAIN row /\ row[k] # Unset THEN row[k] ELSE config[k]]
\* Mutant: what a level before has set stays.
FirstWins(config, row) ==
  [k \in Params |-> IF config[k] = Defaults[k] /\ k \in DOMAIN row /\ row[k] # Unset THEN row[k] ELSE config[k]]
Apply(config, row) == Override(config, row)

(* "higher id wins": the highest is applied last.                          *)
ByGroups(config, u) ==
  MapThenFoldSet(LAMBDA row, acc : Apply(acc, row), config, LAMBDA g : rows[g], Max, groupsOf[u])

(* rightsStale, configStale.                                               *)
Outdated(s) == s.epochs # epochs

(* ManageSession: the session as it is, or resolved anew; the rights are    *)
(* stamped before the settings are resolved.                                *)
Arrive(t, u, todo) ==
  /\ job[t] = Resting /\ asked < MaxAsks
  /\ todo = NoRow \/ u \in Members
  /\ LET s == kept[u]
         stale == Outdated(s)
     IN  job' = [job EXCEPT ![t] =
           [at |-> IF stale THEN "global" ELSE "keep", user |-> u, todo |-> todo, own |-> FALSE,
            config |-> IF stale THEN Defaults ELSE s.config,
            epochs |-> IF stale THEN [s.epochs EXCEPT !.rights = epochs.rights] ELSE s.epochs,
            clean |-> stale \/ s.clean]]
  /\ asked' = asked + 1
  /\ UNCHANGED <<rows, groupsOf, epochs, kept, page, edited>>

(* One statement for each level; one that fails leaves its level out.      *)
NextLevel(j) ==
  CASE j.at = "global" -> IF j.user \in Members THEN "group" ELSE "stamp"
    [] j.at = "group"  -> "own"
    [] j.at = "own"    -> "stamp"

Level(t, works) ==
  LET j == job[t]
      levels == CASE j.at = "global" -> Apply(j.config, rows[Everyone])
                  [] j.at = "group"  -> ByGroups(j.config, j.user)
                  [] j.at = "own"    -> Apply(j.config, rows[j.user])
  IN  /\ j.at \in {"global", "group", "own"}
      /\ job' = [job EXCEPT ![t].at = NextLevel(j),
                            ![t].config = IF works THEN levels ELSE j.config,
                            ![t].clean = j.clean /\ works]
      /\ UNCHANGED <<rows, groupsOf, epochs, kept, page, asked, edited>>

Stamp(t) ==
  /\ job[t].at = "stamp"
  /\ job' = [job EXCEPT ![t].at = "keep", ![t].epochs.config = epochs.config]
  /\ UNCHANGED <<rows, groupsOf, epochs, kept, page, asked, edited>>

Made(j) == [config |-> j.config, epochs |-> j.epochs, clean |-> j.clean]

Keep(t) ==
  /\ job[t].at = "keep"
  /\ kept' = [kept EXCEPT ![job[t].user] = Made(job[t])]
  /\ job' = [job EXCEPT ![t].at = "serve"]
  /\ UNCHANGED <<rows, groupsOf, epochs, page, asked, edited>>

(* userconfig.Get answers what the session it was given holds; AppConfig    *)
(* lays it over what it had.                                                *)
ServeConfig(t) ==
  LET j == job[t]
  IN  /\ j.at = "serve" /\ j.todo = NoRow
      /\ page' = [page EXCEPT ![j.user] = [Made(j) EXCEPT !.config = Override(page[j.user].config, j.config)]]
      /\ job' = [job EXCEPT ![t] = Resting]
      /\ UNCHANGED <<rows, groupsOf, epochs, kept, asked, edited>>

-----------------------------------------------------------------------------
(* saveUserConfigValue for each parameter of a saved profile: the row is    *)
(* looked for, then written.  A failure ends the save.                      *)
SelectOwn(t) ==
  /\ job[t].at = "serve" /\ job[t].todo # NoRow
  /\ job' = [job EXCEPT ![t].at = "write", ![t].own = rows[job[t].user] # NoRow]
  /\ UNCHANGED <<rows, groupsOf, epochs, kept, page, asked, edited>>

GivesUp(t) ==
  /\ job[t].at \in {"serve", "write"} /\ job[t].todo # NoRow
  /\ job' = [job EXCEPT ![t] = Resting]
  /\ UNCHANGED <<rows, groupsOf, epochs, kept, page, asked, edited>>

(* A change of a row while settings are being resolved.                    *)
Resolving(j) == j.at \in {"global", "group", "own", "stamp"}
Disturbed(js) == [t \in Goroutines |-> IF Resolving(js[t]) THEN [js[t] EXCEPT !.clean = FALSE] ELSE js[t]]

(* An insert beside a row that came in between fails (the table's UNIQUE);  *)
(* an update of a row that went in between changes nothing, and succeeds.   *)
WriteOwn(t, k) ==
  LET j == job[t]
      row == rows[j.user]
  IN  /\ j.at = "write" /\ k \in DOMAIN j.todo
      /\ j.own \/ row = NoRow
      /\ rows' = [rows EXCEPT ![j.user] =
           IF ~j.own THEN [q \in Params |-> IF q = k THEN j.todo[k] ELSE Unset]
           ELSE IF row = NoRow THEN NoRow ELSE [row EXCEPT ![k] = j.todo[k]]]
      /\ job' = Disturbed([job EXCEPT ![t].at = "bump", ![t].todo = Restrict(@, DOMAIN @ \ {k})])
      /\ UNCHANGED <<groupsOf, epochs, kept, page, asked, edited>>

BumpConfig(t) ==
  /\ job[t].at = "bump"
  /\ epochs' = [epochs EXCEPT !.config = @ + 1]
  /\ job' = [job EXCEPT ![t] = IF @.todo = NoRow THEN Resting ELSE [@ EXCEPT !.at = "serve"]]
  /\ UNCHANGED <<rows, groupsOf, kept, page, asked, edited>>

-----------------------------------------------------------------------------
(* Administrators, through the module engine: a write, then the callback   *)
(* that moves the epoch.                                                   *)
EditRow(t, s, row) ==
  /\ job[t] = Resting /\ edited < MaxEdits /\ rows[s] # row
  /\ rows' = [rows EXCEPT ![s] = row]
  /\ job' = Disturbed([job EXCEPT ![t] = [at |-> "bump", todo |-> NoRow]])
  /\ edited' = edited + 1
  /\ UNCHANGED <<groupsOf, epochs, kept, page, asked>>

EditGroups(t, u, gs) ==
  /\ job[t] = Resting /\ edited < MaxEdits /\ groupsOf[u] # gs
  /\ groupsOf' = [groupsOf EXCEPT ![u] = gs]
  /\ job' = Disturbed([job EXCEPT ![t] = [at |-> "bump rights"]])
  /\ edited' = edited + 1
  /\ UNCHANGED <<rows, epochs, kept, page, asked>>

BumpRights(t) ==
  /\ job[t].at = "bump rights"
  /\ epochs' = [epochs EXCEPT !.rights = @ + 1]
  /\ job' = [job EXCEPT ![t] = Resting]
  /\ UNCHANGED <<rows, groupsOf, kept, page, asked, edited>>

Saves == UNION {[ks -> Values] : ks \in SUBSET OwnParams}

SettingsNext ==
  \E t \in Goroutines :
    \/ \E u \in People, todo \in Saves : Arrive(t, u, todo)
    \/ \E works \in BOOLEAN : Level(t, works)
    \/ Stamp(t) \/ Keep(t) \/ ServeConfig(t)
    \/ SelectOwn(t) \/ GivesUp(t) \/ BumpConfig(t) \/ BumpRights(t)
    \/ \E k \in OwnParams : WriteOwn(t, k)
    \/ \E s \in Scopes, row \in [Params -> Settable] \cup {NoRow} : EditRow(t, s, row)
    \/ \E u \in Members, gs \in SUBSET Groups : EditGroups(t, u, gs)

SettingsSpec == SettingsInit /\ [][SettingsNext]_settingsVars

-----------------------------------------------------------------------------
(* Properties.                                                             *)

(* "user overriding group overriding global (over built-in defaults)"      *)
SetBy(s, k) == k \in DOMAIN rows[s] /\ rows[s][k] # Unset
Effective(u, k) ==
  LET gs == IF u \in Members THEN {g \in groupsOf[u] : SetBy(g, k)} ELSE {}
  IN  IF u \in Members /\ SetBy(u, k) THEN rows[u][k]
      ELSE IF gs # {} THEN rows[CHOOSE g \in gs : \A h \in gs : h <= g][k]
      ELSE IF SetBy(Everyone, k) THEN rows[Everyone][k]
      ELSE Defaults[k]

(* However requests, saves and edits overlap: settings that carry the       *)
(* present epochs, when no write has its epoch yet to move, are the         *)
(* effective ones, unless a statement failed or a row changed while they    *)
(* were being resolved; and so are those a browser was answered with, but   *)
(* for parameters without a default, which it keeps from before (Resolve,   *)
(* ManageSession, AppConfig.load).                                          *)
Current(s) ==
  /\ s.clean /\ s.epochs = epochs
  /\ \A t \in Goroutines : job[t].at \notin {"bump", "bump rights"}

SettingsSound ==
  \A u \in People, k \in Params :
    /\ Current(kept[u]) => kept[u].config[k] = Effective(u, k)
    /\ Current(page[u]) /\ Defaults[k] # Unset => page[u].config[k] = Effective(u, k)
===============================================================================
