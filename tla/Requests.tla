------------------------------- MODULE Requests -------------------------------
(***************************************************************************)
(* A request on its way through the middleware (route/middleware): the     *)
(* rules may deny it, the gate asks for the mode its method stands for,    *)
(* the router picks the operation, a page has a gate of its own; what is   *)
(* answered passes a recorder and for some administrators a buffer, and is *)
(* recorded in a bounded queue that one worker empties into a table        *)
(* (controllers/accesslog).  Refusals are logged as well (controllers/log).*)
(*                                                                         *)
(* A session's rights are what Sessions and Rights say they are; which     *)
(* addresses are denied is the subject of AccessRules.  Paths are what     *)
(* they lead to; bodies, headers of the answer and durations are left out. *)
(***************************************************************************)
EXTENDS Naturals, Sequences, SequencesExt, FiniteSets

CONSTANTS
  Clients, RoleOf,           \* "guest", "user" or "admin"
  Modules, Screens,          \* modules and pages that are registered
  ReadOnly, AdminOnly,       \* modules with IsReadOnly, pages with RequiresAdmin
  Grants,                    \* what the rights of a session may be
  Tasks,                     \* goroutines of net/http
  QueueSize,                 \* places in accesslog's queue
  Sinks,                     \* where events are stored: "file", "db"
  MinLevelKeepsWarnings,     \* log.level of the configuration
  MaxRequests                \* bound: requests ever made

Modes == {"list", "view", "create", "edit", "delete", "filters"}
Methods == {"GET", "HEAD", "POST", "PUT", "PATCH", "DELETE"}

ASSUME RequestsAssumption ==
  /\ RoleOf \in [Clients -> {"guest", "user", "admin"}]
  /\ ReadOnly \subseteq Modules /\ AdminOnly \subseteq Screens
  /\ Modules \cap Screens = {}
  /\ Grants \subseteq [Modules \cup Screens -> SUBSET Modes]
  /\ QueueSize \in Nat \ {0} /\ MaxRequests \in Nat
  /\ Sinks \subseteq {"file", "db"} /\ MinLevelKeepsWarnings \in BOOLEAN

VARIABLES
  session,   \* the session of each client
  denied,    \* clients the rules deny at present
  task,      \* what each goroutine is at
  menu,      \* the last menu each client was given, as <<id, mode>>
  waiting,   \* accesslog's queue
  storing,   \* the entry its worker holds
  accessLog, \* the table
  counted,   \* requests counted, dropped and failed
  journal,   \* requests whose refusal is stored, by sink
  told       \* history: what became of each request

requestsVars == <<session, denied, task, menu, waiting, storing, accessLog, counted, journal, told>>

Waiter == [at |-> "idle"]
NoEntry == [id |-> 0]
Sessions == [role : {"guest", "user", "admin"}, rights : Grants]
Admin(s) == s.role = "admin"

RequestsInit ==
  /\ session \in [Clients -> Sessions] /\ denied = {}
  /\ \A c \in Clients : session[c].role = RoleOf[c]
  /\ task = [t \in Tasks |-> Waiter]
  /\ menu = [c \in Clients |-> {}]
  /\ waiting = <<>> /\ storing = NoEntry /\ accessLog = <<>>
  /\ counted = [all |-> 0, dropped |-> 0, failed |-> 0]
  /\ journal = [s \in Sinks |-> {}]
  /\ told = <<>>

-----------------------------------------------------------------------------
(* The answer on its way out.  A status below 200 only informs; the first   *)
(* other one is the answer's, and a body without one makes it 200.          *)
Blank(buffered) ==
  [sent |-> 0, status |-> 200, written |-> FALSE, buffered |-> buffered, held |-> 0]

(* Mutant: the recorder follows every status.                               *)
LastHeader(a, code) ==
  [a EXCEPT !.status = code, !.written = TRUE,
            !.sent = IF @ = 0 /\ code >= 200 THEN code ELSE @]
Header(a, code) ==
  [a EXCEPT !.status = IF a.written THEN @ ELSE code, !.written = TRUE,
            !.sent = IF @ = 0 /\ code >= 200 THEN code ELSE @]
Body(a) == [a EXCEPT !.written = TRUE, !.sent = IF @ = 0 THEN 200 ELSE @]

Said(a, code) ==
  IF a.buffered THEN [a EXCEPT !.held = IF @ = 0 THEN code ELSE @] ELSE Header(a, code)
Wrote(a) == IF a.buffered THEN a ELSE Body(a)
Released(a) == IF a.buffered THEN Body(Header(a, IF a.held = 0 THEN 200 ELSE a.held)) ELSE a

-----------------------------------------------------------------------------
(* accesslog.Record never waits: a full queue drops the row, not the count. *)
RecordEntry(e) ==
  /\ counted' = [counted EXCEPT !.all = @ + 1,
                   !.dropped = IF Len(waiting) < QueueSize THEN @ ELSE @ + 1]
  /\ waiting' = IF Len(waiting) < QueueSize
                THEN Append(waiting, [e EXCEPT !.at = counted.all + 1]) ELSE waiting

Entry(x, status, blocked) ==
  [id |-> x.id, at |-> 0, status |-> status, blocked |-> blocked, api |-> x.api,
   reason |-> IF blocked THEN "ip_rule" ELSE IF status \in {401, 403} THEN "authz" ELSE "none"]

TakeEntry ==
  /\ storing = NoEntry /\ waiting # <<>>
  /\ storing' = Head(waiting) /\ waiting' = Tail(waiting)
  /\ UNCHANGED <<session, denied, task, menu, accessLog, counted, journal, told>>

(* persist, which gives up on a row the database refuses.                   *)
StoreEntry(works) ==
  /\ storing # NoEntry
  /\ storing' = NoEntry
  /\ accessLog' = IF works THEN Append(accessLog, storing) ELSE accessLog
  /\ counted' = [counted EXCEPT !.failed = IF works THEN @ ELSE @ + 1]
  /\ UNCHANGED <<session, denied, task, menu, waiting, journal, told>>

(* writeToLogFile, writeToDatabase: what a sink refuses is not stored there.*)
Sunk(s, id, refused) == IF s \in refused THEN journal[s] ELSE journal[s] \cup {id}

(* log.LogAuthEvent of a refusal, a warning.                                *)
Journaled(id, refused) ==
  journal' = [s \in Sinks |-> IF MinLevelKeepsWarnings THEN Sunk(s, id, refused) ELSE journal[s]]

-----------------------------------------------------------------------------
(* What is asked: a page of the site, a module's records, a description of  *)
(* a module's fields, the menu, a page's own endpoint or an action of it,   *)
(* an upload, or an endpoint for everybody.  A client marks what it asks    *)
(* of the API, or it looks like that by its method and what it accepts, or  *)
(* it is a browser that goes to a page.                                     *)
Ask(to, on, method, one, looks, query) ==
  [to |-> to, on |-> on, method |-> method, one |-> one, looks |-> looks, query |-> query]
Browsing(x) == Ask("page", x, "GET", FALSE, "plain", FALSE)
Asks ==
  {Browsing(m) : m \in Modules}
  \cup [to : {"module"}, on : Modules, method : Methods, one : BOOLEAN,
        looks : {"marked", "likely"}, query : BOOLEAN]
  \cup {Ask("fieldset", m, "GET", FALSE, "marked", FALSE) : m \in Modules}
  \cup {Ask("screen", s, "GET", FALSE, "marked", FALSE) : s \in Screens}
  \cup {Ask("screen", s, "PUT", FALSE, "marked", FALSE) : s \in Screens}
  \cup {Ask("action", s, "POST", FALSE, "marked", FALSE) : s \in Screens}
  \cup {Ask(to, "none", "GET", FALSE, "marked", FALSE) : to \in {"menu", "public"}}
  \cup {Ask("upload", "none", "POST", FALSE, "marked", FALSE)}

(* isAPICall.  The registered prefixes are compared with the query string.  *)
IsAPICall(x) ==
  \/ x.looks = "marked"
  \/ x.to \notin {"page", "module"}
  \/ x.looks = "likely" /\ x.to = "module" /\ (x.one \/ ~x.query)

HasMode(s, on, mode) == Admin(s) \/ mode \in s.rights[on]

ApiActionMode(method, one) ==
  CASE method = "POST" -> "create"
    [] method \in {"PUT", "PATCH"} -> "edit"
    [] method = "DELETE" -> "delete"
    [] OTHER -> IF one THEN "view" ELSE "list"

(* Mutant: a gate that looks at the method alone.                           *)
AnyReadLists(s, x) ==
  CASE x.to = "fieldset" -> HasMode(s, x.on, "view")
    [] x.to = "module"   -> HasMode(s, x.on, ApiActionMode(x.method, FALSE))
    [] x.to = "upload"   -> s.role # "guest"
    [] OTHER -> TRUE

AuthorizeAPIRequest(s, x) ==
  CASE x.to = "fieldset" -> HasMode(s, x.on, "view")
    [] x.to = "module"   -> HasMode(s, x.on, ApiActionMode(x.method, x.one))
    [] x.to = "upload"   -> s.role # "guest"
    [] OTHER -> TRUE

(* registerModuleSubrouter: the operation a request comes to, if any.       *)
Routed(x) ==
  CASE x.to # "module" -> x.to
    [] ~x.one /\ x.method = "GET"  -> "list"
    [] ~x.one /\ x.method = "POST" -> "create"
    [] x.one /\ x.method = "GET"   -> "view"
    [] x.one /\ x.method \in {"PUT", "PATCH"} -> "edit"
    [] x.one /\ x.method = "DELETE" -> "delete"
    [] OTHER -> "nowhere"

(* A page's own gate: hasMode, with denyForMode's answer.                   *)
ScreenMode(x) == IF x.method = "GET" THEN "view" ELSE "edit"
OpensScreen(s, p, mode) == Admin(s) \/ (p \notin AdminOnly /\ mode \in s.rights[p])
DenyForMode(s) == IF s.role = "guest" THEN 401 ELSE 403

-----------------------------------------------------------------------------
(* A request comes in: the rules are asked, and one they deny is recorded   *)
(* before it is answered.                                                   *)
Begin(t, c, x, stats) ==
  LET r == [at |-> "in", id |-> Len(told) + 1, session |-> session[c], client |-> c, ask |-> x, api |-> IsAPICall(x),
            answer |-> Blank(stats /\ Admin(session[c])), ran |-> "none"]
  IN  /\ task[t] = Waiter /\ Len(told) < MaxRequests
      /\ told' = Append(told, [ended |-> FALSE, sent |-> 0, ran |-> "none"])
      /\ IF c \in denied
         THEN /\ task' = [task EXCEPT ![t] = [r EXCEPT !.at = "denied", !.answer = Blank(FALSE)]]
              /\ RecordEntry(Entry(r, 403, TRUE))
         ELSE task' = [task EXCEPT ![t] = r] /\ UNCHANGED <<waiting, counted>>
      /\ UNCHANGED <<session, denied, menu, storing, accessLog, journal>>

Ended(r, sent) ==
  told' = [told EXCEPT ![r.id] = [ended |-> TRUE, sent |-> sent, ran |-> r.ran]]

Deny(t, refused) ==
  LET r == task[t]
      answer == Header(r.answer, 403)
  IN  /\ r.at = "denied"
      /\ Journaled(r.id, refused)
      /\ task' = [task EXCEPT ![t] = Waiter]
      /\ Ended(r, Body(answer).sent)
      /\ UNCHANGED <<session, denied, menu, waiting, storing, accessLog, counted>>

(* authorizeAPIRequest, and the refusal's log and answer.                   *)
Authorize(t, refused) ==
  LET r == task[t]
  IN  /\ r.at = "in" /\ r.api
      /\ IF AuthorizeAPIRequest(r.session, r.ask)
         THEN /\ task' = [task EXCEPT ![t].at = "serve", ![t].ran = Routed(r.ask)]
              /\ UNCHANGED journal
         ELSE /\ task' = [task EXCEPT ![t].at = "done", ![t].answer = Wrote(Said(@, 401))]
              /\ Journaled(r.id, refused)
      /\ UNCHANGED <<session, denied, menu, waiting, storing, accessLog, counted, told>>

Finishes(t, a) == task' = [task EXCEPT ![t].at = "done", ![t].answer = a]

(* controllers.Index: the early hints, then the page, or a template that    *)
(* does not parse.                                                          *)
Index(t, works) ==
  LET r == task[t]
      answer == Said(r.answer, 103)
  IN  /\ r.at = "in" /\ ~r.api
      /\ Finishes(t, Wrote(IF works THEN answer ELSE Said(answer, 500)))
      /\ UNCHANGED <<session, denied, menu, waiting, storing, accessLog, counted, journal, told>>

(* A handler that says a status, or none, and writes; one may also find     *)
(* after it began to write that it has to give up.                          *)
Serve(t, code, late) ==
  LET r == task[t]
      answer == IF code = 200 THEN r.answer ELSE Said(r.answer, code)
  IN  /\ r.at = "serve" /\ r.ran \notin {"nowhere", "menu", "screen", "action"}
      /\ Finishes(t, IF late THEN Said(Wrote(answer), 500) ELSE Wrote(answer))
      /\ UNCHANGED <<session, denied, menu, waiting, storing, accessLog, counted, journal, told>>

(* handleGet, handlePut and guard.                                          *)
ServeScreen(t, code) ==
  LET r == task[t]
      opens == OpensScreen(r.session, r.ask.on, ScreenMode(r.ask))
  IN  /\ r.at = "serve" /\ r.ran \in {"screen", "action"}
      /\ task' = [task EXCEPT ![t].at = "done", ![t].ran = IF opens THEN @ ELSE "refused",
                    ![t].answer = Wrote(Said(@, IF opens THEN code ELSE DenyForMode(r.session)))]
      /\ UNCHANGED <<session, denied, menu, waiting, storing, accessLog, counted, journal, told>>

NotFound(t) ==
  /\ task[t].at = "serve" /\ task[t].ran = "nowhere"
  /\ Finishes(t, Wrote(Said(task[t].answer, 404)))
  /\ UNCHANGED <<session, denied, menu, waiting, storing, accessLog, counted, journal, told>>

(* ModulesAPI: what the session may do, but no more than to read a module   *)
(* that is read-only; and the pages it may see.                             *)
ListedModes(s, m) ==
  {mode \in Modes : HasMode(s, m, mode)} \cap (IF m \in ReadOnly THEN {"list", "view"} ELSE Modes)
(* Mutant: a menu of every module.                                          *)
ListedAll(s) ==
  UNION {{<<m, mode>> : mode \in Modes} : m \in Modules}
  \cup {<<p, "view">> : p \in {q \in Screens : HasMode(s, q, "view")}}

ModuleEntries(s, m) == {<<m, mode>> : mode \in ListedModes(s, m)}
PageEntries(s) == {<<p, "view">> : p \in {q \in Screens : HasMode(s, q, "view")}}
Listed(s) == PageEntries(s) \cup UNION {ModuleEntries(s, m) : m \in Modules}

ModulesAPI(t) ==
  LET r == task[t]
  IN  /\ r.at = "serve" /\ r.ran = "menu"
      /\ menu' = [menu EXCEPT ![r.client] = Listed(r.session)]
      /\ Finishes(t, Wrote(r.answer))
      /\ UNCHANGED <<session, denied, waiting, storing, accessLog, counted, journal, told>>

(* A handler that panics: the deferred calls run and the connection ends.   *)
Panics(t) ==
  /\ task[t].at = "serve"
  /\ task' = [task EXCEPT ![t].at = "broken"]
  /\ UNCHANGED <<session, denied, menu, waiting, storing, accessLog, counted, journal, told>>

(* The buffer is released, then the request recorded; whatever was not said *)
(* yet net/http says.                                                       *)
Finish(t) ==
  LET r == task[t]
      answer == Released(r.answer)
  IN  /\ r.at \in {"done", "broken"}
      /\ RecordEntry(Entry(r, answer.status, FALSE))
      /\ Ended(r, IF r.at = "broken" THEN 0 ELSE IF answer.sent = 0 THEN 200 ELSE answer.sent)
      /\ task' = [task EXCEPT ![t] = Waiter]
      /\ UNCHANGED <<session, denied, menu, storing, accessLog, journal>>

(* What happens elsewhere: a session's rights change, the rules change.     *)
Regrant(c) ==
  /\ \E g \in Grants \ {session[c].rights} : session' = [session EXCEPT ![c].rights = g]
  /\ UNCHANGED <<denied, task, menu, waiting, storing, accessLog, counted, journal, told>>
Rule(c) ==
  /\ denied' = IF c \in denied THEN denied \ {c} ELSE denied \cup {c}
  /\ UNCHANGED <<session, task, menu, waiting, storing, accessLog, counted, journal, told>>

Codes == {200, 404}
RequestStep(t) ==
  \/ \E lost \in SUBSET (Sinks \cap {"db"}) : Deny(t, lost) \/ Authorize(t, lost)
  \/ \E works \in BOOLEAN : Index(t, works)
  \/ \E code \in Codes, late \in BOOLEAN : Serve(t, code, late)
  \/ \E code \in Codes : ServeScreen(t, code)
  \/ NotFound(t) \/ ModulesAPI(t) \/ Panics(t) \/ Finish(t)
LogStep == TakeEntry \/ \E works \in BOOLEAN : StoreEntry(works)

-----------------------------------------------------------------------------
Recorded == accessLog \o (IF storing = NoEntry THEN <<>> ELSE <<storing>>) \o waiting
StatusTrue(e) ==
  told[e.id].ended /\ told[e.id].sent # 0 => e.status = told[e.id].sent

(* Every request that was counted has one row on the way or in the table,   *)
(* or is counted as dropped or failed; rows keep the order they came in.    *)
EntriesConserved ==
  /\ counted.all = Len(Recorded) + counted.dropped + counted.failed
  /\ \A i, j \in DOMAIN Recorded :
       i < j => Recorded[i].at < Recorded[j].at /\ Recorded[i].id # Recorded[j].id

(* The row of a request for the API has the status its client was sent.     *)
ApiStatusTrue == \A i \in DOMAIN Recorded : Recorded[i].api => StatusTrue(Recorded[i])

(* The recorder captures the final status for access logging                *)
(* (recorder.go:10-11), whatever the request was for.                       *)
RecordedIsFinal == \A i \in DOMAIN Recorded : StatusTrue(Recorded[i])

(* What the router picks is what the session may do: the gate judges by the *)
(* method and the path, and the router by its own table.                    *)
WithinRights ==
  \A t \in Tasks : task[t].at = "serve" /\ task[t].ask.to = "module" /\ task[t].ran # "nowhere" =>
    HasMode(task[t].session, task[t].ask.on, task[t].ran)

(* A menu says what the gates say: a module's modes are those its requests  *)
(* are let through for, but for the writes of a module that is read-only,   *)
(* and the pages are those that open, but for an administrators' page.      *)
MenuTrue ==
  \A c \in Clients : menu[c] # {} =>
    /\ \A m \in Modules, method \in {"GET", "POST", "PUT", "DELETE"}, one \in BOOLEAN :
         LET x == Ask("module", m, method, one, "marked", FALSE)
         IN  \/ m \in ReadOnly /\ method # "GET"
             \/ AuthorizeAPIRequest(session[c], x) <=> <<m, ApiActionMode(method, one)>> \in menu[c]
    /\ \A p \in Screens \ AdminOnly :
         OpensScreen(session[c], p, "view") <=> <<p, "view">> \in menu[c]
=============================================================================
