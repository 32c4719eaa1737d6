-------------------------------- MODULE Events --------------------------------
(***************************************************************************)
(* Events, their reminders and their copies in Google's calendar           *)
(* (modules/events; pages/profile/googlepush.go).  An edit is a form that  *)
(* is loaded, changed and sent back whole; the engine's hook narrows the   *)
(* scope, derives whom the row is shown to and pushes the event to Google, *)
(* and only then is the row written.  A check every half a minute fires    *)
(* the reminders that are due.                                             *)
(*                                                                         *)
(* Every event has a reminder, at its start; titles and durations stand    *)
(* for themselves as a change of nothing else.  Membership of groups does  *)
(* not change.  The stream of a badge is that of Threads.                  *)
(***************************************************************************)
EXTENDS Naturals, FiniteSets

CONSTANTS
  People, RoleOf, GroupOf,  \* roles: "plain", "group_admin" or "admin"
  Editors,                  \* requests that create or edit
  EventIds, CopyIds,        \* bounds: events and copies ever made
  Repeats,                  \* intervals; 0: does not repeat
  LastInstant               \* bound: the clock's last instant

Groups == {GroupOf[p] : p \in People}
Instants == 0..LastInstant
NoCopy == "none"

ASSUME EventsAssumption ==
  /\ RoleOf \in [People -> {"plain", "group_admin", "admin"}]
  /\ DOMAIN GroupOf = People
  /\ IsFiniteSet(Editors)
  /\ Repeats \subseteq Nat /\ LastInstant \in Nat /\ NoCopy \notin CopyIds

VARIABLES
  clock,
  events,    \* id -> row
  copies,    \* the calendars at Google: id -> [owner, of, starts]
  connected, \* who has connected a calendar
  editor,    \* what every request is at
  fired      \* history: <<id, occurrence>> that fired since its time was last set

eventsVars == <<clock, events, copies, connected, editor, fired>>

Filling == [at |-> "idle"]
IsGone(id) == id \notin DOMAIN events
NewIds == {id \in EventIds : IsGone(id) /\ \A e \in Editors : editor[e] = Filling \/ editor[e].id # id}

EventsInit ==
  /\ clock = 0
  /\ events = <<>> /\ copies = <<>> /\ connected \in SUBSET People
  /\ editor = [e \in Editors |-> Filling]
  /\ fired = {}

At(e, state) == editor' = [editor EXCEPT ![e] = state]
With(f, x, y) == [z \in DOMAIN f \cup {x} |-> IF z = x THEN y ELSE f[z]]

-----------------------------------------------------------------------------
(* The form: what a client is offered and sends.  A scope goes with its     *)
(* target.                                                                  *)
Self == [kind |-> "self", target |-> NoCopy]
Scopes ==
  {Self, [kind |-> "global", target |-> NoCopy]}
  \cup [kind : {"group"}, target : Groups] \cup [kind : {"user"}, target : People]

FormOf(row) ==
  [scope |-> row.scope, starts |-> row.starts, repeat |-> row.repeat, sync |-> row.sync]

NewForm(e, who, id, scope, starts, repeat, sync) ==
  /\ editor[e] = Filling /\ id \in NewIds
  /\ At(e, [at |-> "filled", new |-> TRUE, sets |-> TRUE, who |-> who, id |-> id, copy |-> NoCopy,
            data |-> [scope |-> scope, starts |-> starts, repeat |-> repeat, sync |-> sync]])
  /\ UNCHANGED <<clock, events, copies, connected, fired>>

(* authorizeRowWrite lets the author and, here, administrators edit.        *)
MayWrite(who, id) == ~IsGone(id) /\ (events[id].by = who \/ RoleOf[who] = "admin")

LoadForm(e, who, id) ==
  /\ editor[e] = Filling /\ MayWrite(who, id)
  /\ At(e, [at |-> "form", new |-> FALSE, sets |-> FALSE, who |-> who, id |-> id, copy |-> NoCopy,
            data |-> FormOf(events[id])])
  /\ UNCHANGED <<clock, events, copies, connected, fired>>

Changes(f) ==
  {[f EXCEPT !.data.scope = s] : s \in Scopes}
  \cup {[f EXCEPT !.data.sync = b] : b \in BOOLEAN}
  \cup {[f EXCEPT !.data.starts = t, !.sets = TRUE] : t \in Instants \ {f.data.starts}}

Change(e) ==
  /\ editor[e].at = "form"
  /\ \E f \in Changes(editor[e]) : At(e, [f EXCEPT !.at = "filled"])
  /\ UNCHANGED <<clock, events, copies, connected, fired>>

-----------------------------------------------------------------------------
(* enforceScopeAuthority and deriveVisibility.                              *)
Enforced(who, scope) ==
  IF scope.kind = "self" \/ RoleOf[who] = "admin" THEN scope
  ELSE IF RoleOf[who] = "group_admin" /\ scope.kind = "group"
       THEN [scope EXCEPT !.target = GroupOf[who]]
  ELSE IF RoleOf[who] = "group_admin" /\ scope.kind = "user" /\ GroupOf[scope.target] = GroupOf[who]
       THEN scope
  ELSE Self

(* Mutant: only what a new row is shown to is derived.                      *)
DerivedOnce(row, scope) ==
  IF row.users # {} \/ row.groups # {} THEN row
  ELSE CASE scope.kind = "group" -> [row EXCEPT !.groups = {scope.target}]
         [] scope.kind = "user"  -> [row EXCEPT !.users = {scope.target}]
         [] OTHER -> row

Derived(row, scope) ==
  CASE scope.kind = "group" -> [row EXCEPT !.groups = {scope.target}]
    [] scope.kind = "user"  -> [row EXCEPT !.users = {scope.target}]
    [] OTHER -> row

(* The hook up to Google: the row's copy is read first.                     *)
Submit(e) ==
  LET f == editor[e]
  IN  /\ f.at = "filled"
      /\ f.new \/ MayWrite(f.who, f.id)
      /\ At(e, [f EXCEPT !.at = "google", !.data.scope = Enforced(f.who, f.data.scope),
                         !.copy = IF f.new THEN NoCopy ELSE events[f.id].copy])
      /\ UNCHANGED <<clock, events, copies, connected, fired>>

Refuse(e) ==
  /\ editor[e].at = "filled" /\ ~editor[e].new
  /\ ~MayWrite(editor[e].who, editor[e].id)
  /\ At(e, Filling)
  /\ UNCHANGED <<clock, events, copies, connected, fired>>

-----------------------------------------------------------------------------
(* pushToGoogleIfNeeded, by the account of whoever edits.                   *)
Own(f) == f.copy \in DOMAIN copies /\ copies[f.copy].owner = f.who
CopyOf(f) == [owner |-> f.who, of |-> f.id, starts |-> f.data.starts]

(* What becomes of the calendars and of the row's google_event_id.  The     *)
(* mutant creates a copy at every push.                                     *)
AlwaysCreated(f) ==
  {[all |-> With(copies, c, CopyOf(f)), copy |-> c] : c \in CopyIds \ DOMAIN copies}
Pushed(f) ==
  IF f.copy = NoCopy
  THEN {[all |-> With(copies, c, CopyOf(f)), copy |-> c] : c \in CopyIds \ DOMAIN copies}
  ELSE IF Own(f) THEN {[all |-> With(copies, f.copy, CopyOf(f)), copy |-> f.copy]}
  ELSE {[all |-> copies, copy |-> f.copy]}

Withdrawn(f) ==
  [all |-> [c \in DOMAIN copies \ (IF Own(f) THEN {f.copy} ELSE {}) |-> copies[c]], copy |-> NoCopy]

Push(e) ==
  LET f == editor[e]
  IN  /\ f.at = "google" /\ f.who \in connected
      /\ \E to \in IF f.data.sync THEN Pushed(f) ELSE {Withdrawn(f)} :
           copies' = to.all /\ At(e, [f EXCEPT !.at = "write", !.copy = to.copy])
      /\ UNCHANGED <<clock, events, connected, fired>>

(* With no account, or on an error, the push is skipped; the copy that was  *)
(* to be deleted is forgotten all the same.  An error may also follow on a  *)
(* push that was done.                                                      *)
PushSkipped(e) ==
  LET f == editor[e]
  IN  /\ f.at = "google"
      /\ At(e, [f EXCEPT !.at = "write", !.copy = IF f.data.sync THEN @ ELSE NoCopy])
      /\ UNCHANGED <<clock, events, copies, connected, fired>>

PushUnanswered(e) ==
  LET f == editor[e]
  IN  /\ f.at = "google" /\ f.who \in connected
      /\ \E to \in IF f.data.sync THEN Pushed(f) ELSE {Withdrawn(f)} :
           /\ copies' = to.all
           /\ At(e, [f EXCEPT !.at = "write", !.copy = IF f.data.sync THEN @ ELSE NoCopy])
      /\ UNCHANGED <<clock, events, connected, fired>>

-----------------------------------------------------------------------------
(* insertRecord, updateRecord: what the form and the hook gave is written,  *)
(* notified_at is not among it.                                             *)
NewRow(f) == [by |-> f.who, users |-> {}, groups |-> {}, notified |-> FALSE]
RowOf(f) ==
  LET old == IF f.new THEN NewRow(f) ELSE events[f.id]
  IN  Derived([by |-> old.by, users |-> old.users, groups |-> old.groups, notified |-> old.notified,
               scope |-> f.data.scope, starts |-> f.data.starts, repeat |-> f.data.repeat,
               sync |-> f.data.sync, copy |-> f.copy], f.data.scope)

Write(e) ==
  LET f == editor[e]
  IN  /\ f.at = "write" /\ At(e, Filling)
      /\ events' = IF f.new \/ ~IsGone(f.id) THEN With(events, f.id, RowOf(f)) ELSE events
      /\ fired' = IF f.sets THEN {o \in fired : o[1] # f.id} ELSE fired
      /\ UNCHANGED <<clock, copies, connected>>

WriteFails(e) ==
  /\ editor[e].at = "write" /\ At(e, Filling)
  /\ UNCHANGED <<clock, events, copies, connected, fired>>

(* The copies stay where they are.                                          *)
Remove(id) ==
  /\ ~IsGone(id)
  /\ events' = [i \in DOMAIN events \ {id} |-> events[i]]
  /\ UNCHANGED <<clock, copies, connected, editor, fired>>

(* handleGoogleCallback, handleGoogleDisconnect.                            *)
Connect(p) ==
  /\ connected' = IF p \in connected THEN connected \ {p} ELSE connected \cup {p}
  /\ UNCHANGED <<clock, events, copies, editor, fired>>

-----------------------------------------------------------------------------
(* checkDueNotifications: one statement marks what is due, or rolls it on   *)
(* to its next occurrence; then the recipients of each are pinged.          *)
Due == {id \in DOMAIN events : ~events[id].notified /\ events[id].starts <= clock}

(* Mutant: a repeating event stays where it is.                             *)
StaysArmed(row) == IF row.repeat = 0 THEN [row EXCEPT !.notified = TRUE] ELSE row
Fire(row) ==
  IF row.repeat = 0 THEN [row EXCEPT !.notified = TRUE] ELSE [row EXCEPT !.starts = @ + row.repeat]

Check ==
  /\ Due # {}
  /\ events' = [id \in DOMAIN events |-> IF id \in Due THEN Fire(events[id]) ELSE events[id]]
  /\ fired' = fired \cup {<<id, events[id].starts>> : id \in Due}
  /\ UNCHANGED <<clock, copies, connected, editor>>

Pass ==
  /\ clock < LastInstant /\ clock' = clock + 1
  /\ UNCHANGED <<events, copies, connected, editor, fired>>

(* recipientsOf.                                                            *)
Recipients(row) ==
  {row.by} \cup CASE row.scope.kind = "user"   -> {row.scope.target}
                  [] row.scope.kind = "group"  -> {p \in People : GroupOf[p] = row.scope.target}
                  [] row.scope.kind = "global" -> People
                  [] OTHER -> {}

(* visibilityACL, and the engine's condition after which it is written.     *)
Seers(row) ==
  {row.by} \cup row.users \cup {p \in People : GroupOf[p] \in row.groups}
  \cup (IF row.scope.kind = "global" THEN People ELSE {})

-----------------------------------------------------------------------------
Starting ==
  \E e \in Editors, who \in People, id \in EventIds :
     \/ LoadForm(e, who, id)
     \/ \E scope \in Scopes, starts \in Instants, repeat \in Repeats, sync \in BOOLEAN :
          NewForm(e, who, id, scope, starts, repeat, sync)
Editing == \E e \in Editors : Change(e) \/ Submit(e) \/ Refuse(e) \/ Push(e) \/ Write(e)
Skipping == \E e \in Editors : PushSkipped(e)
Failing ==
  \/ \E e \in Editors : PushUnanswered(e) \/ WriteFails(e)
  \/ \E id \in EventIds : Remove(id)
  \/ \E p \in People : Connect(p)

EventsNext == Starting \/ Editing \/ Skipping \/ Failing \/ Check \/ Pass

EventsSpec == EventsInit /\ [][EventsNext]_eventsVars

-----------------------------------------------------------------------------
(* Properties.                                                             *)

(* Whoever a reminder goes to can see the event it is of: what the hook     *)
(* derives keeps up with the scope, which the recipients are taken from     *)
(* (deriveVisibility, recipientsOf, visibilityACL).                         *)
RemindedCanSee == \A id \in DOMAIN events : Recipients(events[id]) \subseteq Seers(events[id])

(* "Derived sharing lists": an event is shown to those its scope names.     *)
SeenAsScoped == \A id \in DOMAIN events : Seers(events[id]) = Recipients(events[id])

(* "So it fires exactly once": nothing that is due has fired already, but   *)
(* for an event whose time was set again since (checkDueNotifications).     *)
FiresOnce == \A id \in Due : <<id, events[id].starts>> \notin fired

(* When nobody writes it, a synced event has one copy, in the calendar of its author and at its    *)
(* time, or at an earlier occurrence; any other has none ("update that same *)
(* Google event in place ... instead of creating a duplicate").             *)
CopiesOf(id) == {c \in DOMAIN copies : copies[c].of = id}
SameSeries(row, c) ==
  /\ copies[c].owner = row.by /\ copies[c].starts <= row.starts
  /\ row.starts # copies[c].starts => row.repeat # 0 /\ (row.starts - copies[c].starts) % row.repeat = 0
CalendarsMirror ==
  \A id \in DOMAIN events : LET row == events[id] IN
    (\A e \in Editors : editor[e].at \in {"google", "write"} => editor[e].id # id) =>
      /\ row.by \in connected => CopiesOf(id) = (IF row.sync THEN {row.copy} ELSE {})
      /\ \A c \in CopiesOf(id) : SameSeries(row, c)
===============================================================================
