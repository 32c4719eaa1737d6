-------------------------------- MODULE Threads --------------------------------
(***************************************************************************)
(* Direct messages between two users and the badge of those not read       *)
(* (messages.go, hub.go).  A request's statements and the pings of the hub *)
(* are steps; a stream asks for its count when it begins and after every   *)
(* ping.  What users say, and rows an administrator removes through the    *)
(* message log, which pings nobody, are left out.                          *)
(***************************************************************************)
EXTENDS Naturals, FiniteSets, Sequences, TLC

CONSTANTS
  Users, Streams, Handlers,
  Room,        \* pings a stream's channel has room for
  MaxMessages  \* bound

ASSUME ThreadsAssumption == Room \in Nat \ {0} /\ MaxMessages \in Nat

VARIABLES
  messages,  \* the table: <<[from, to, read], ...>>
  stream,    \* what every badge stream is at: [at, user, pings, badge]
  handler,   \* what every request is at: [at, user, other]
  shown,     \* history: messages a recipient's thread has selected
  overtaken  \* history: messages stored between such a SELECT and its UPDATE

threadsVars == <<messages, stream, handler, shown, overtaken>>
noted == <<shown, overtaken>>

Closed == [at |-> "closed"]
Free == [at |-> "free"]

IsUnread(i, u) == messages[i].to = u /\ ~messages[i].read
Unread(u) == Cardinality({i \in DOMAIN messages : IsUnread(i, u)})

ThreadsInit ==
  /\ messages = <<>>
  /\ stream = [s \in Streams |-> Closed]
  /\ handler = [h \in Handlers |-> Free]
  /\ shown = {} /\ overtaken = {}

-----------------------------------------------------------------------------
(* handleUnreadCount; hub.subscribe, hub.unsubscribe.                      *)
Subscribe(s, u) ==
  /\ stream[s] = Closed
  /\ stream' = [stream EXCEPT ![s] = [at |-> "count", user |-> u, pings |-> 0, badge |-> 0]]
  /\ UNCHANGED <<messages, handler, noted>>

Count(s) ==
  /\ stream[s].at = "count"
  /\ stream' = [stream EXCEPT ![s] = [@ EXCEPT !.at = "show", !.badge = Unread(stream[s].user)]]
  /\ UNCHANGED <<messages, handler, noted>>

Show(s) ==
  /\ stream[s].at = "show"
  /\ stream' = [stream EXCEPT ![s].at = "wait"]
  /\ UNCHANGED <<messages, handler, noted>>

Wake(s) ==
  /\ stream[s].at = "wait" /\ stream[s].pings > 0
  /\ stream' = [stream EXCEPT ![s] = [@ EXCEPT !.at = "count", !.pings = stream[s].pings - 1]]
  /\ UNCHANGED <<messages, handler, noted>>

(* The client leaves, or a query fails.                                    *)
Close(s) ==
  /\ stream[s].at \in {"count", "wait"}
  /\ stream' = [stream EXCEPT ![s] = Closed]
  /\ UNCHANGED <<messages, handler, noted>>

-----------------------------------------------------------------------------
(* hub.notify: a full channel is passed over.                              *)
Listens(s, u) == stream[s] # Closed /\ stream[s].user = u
(* Mutant: streams that have not shown their first count are not there yet. *)
PingedWaiting(u) ==
  [s \in Streams |->
     IF Listens(s, u) /\ stream[s].at = "wait" /\ stream[s].pings < Room
     THEN [stream[s] EXCEPT !.pings = @ + 1] ELSE stream[s]]

Pinged(u) ==
  [s \in Streams |->
     IF Listens(s, u) /\ stream[s].pings < Room THEN [stream[s] EXCEPT !.pings = @ + 1]
     ELSE stream[s]]

Notify(h) ==
  /\ handler[h].at = "notify"
  /\ stream' = Pinged(handler[h].user)
  /\ handler' = [handler EXCEPT ![h] = Free]
  /\ UNCHANGED <<messages, noted>>

(* handleSend.                                                             *)
Reading(h, u, other) ==
  handler[h].at = "mark" /\ handler[h].user = u /\ handler[h].other = other

Send(h, u, other) ==
  /\ handler[h] = Free /\ u # other /\ Len(messages) < MaxMessages
  /\ messages' = Append(messages, [from |-> u, to |-> other, read |-> FALSE])
  /\ overtaken' = IF \E g \in Handlers : Reading(g, other, u)
                  THEN overtaken \cup {Len(messages) + 1} ELSE overtaken
  /\ handler' = [handler EXCEPT ![h] = [at |-> "notify", user |-> other, other |-> u]]
  /\ UNCHANGED <<stream, shown>>

(* handleThread.                                                           *)
Between(i, u, other) == messages[i].to = u /\ messages[i].from = other

ReadThread(h, u, other) ==
  /\ handler[h] = Free /\ u # other
  /\ handler' = [handler EXCEPT ![h] = [at |-> "mark", user |-> u, other |-> other]]
  /\ shown' = shown \cup {i \in DOMAIN messages : Between(i, u, other)}
  /\ UNCHANGED <<messages, stream, overtaken>>

(* Mutant: both directions are marked, as both are selected.                *)
MarksThread(h) == {i \in DOMAIN messages :
  {messages[i].from, messages[i].to} = {handler[h].user, handler[h].other} /\ ~messages[i].read}

Marks(h) == {i \in DOMAIN messages :
               Between(i, handler[h].user, handler[h].other) /\ ~messages[i].read}

MarkRead(h) ==
  /\ handler[h].at = "mark"
  /\ messages' = [i \in DOMAIN messages |->
                    IF i \in Marks(h) THEN [messages[i] EXCEPT !.read = TRUE] ELSE messages[i]]
  /\ handler' = [handler EXCEPT ![h] = IF Marks(h) # {} THEN [@ EXCEPT !.at = "notify"] ELSE Free]
  /\ UNCHANGED <<stream, noted>>

(* Best effort.                                                            *)
MarkFails(h) ==
  /\ handler[h].at = "mark"
  /\ handler' = [handler EXCEPT ![h] = Free]
  /\ UNCHANGED <<messages, stream, noted>>

ThreadsNext ==
  \/ \E s \in Streams :
       Count(s) \/ Show(s) \/ Wake(s) \/ Close(s) \/ \E u \in Users : Subscribe(s, u)
  \/ \E h \in Handlers :
       \/ Notify(h) \/ MarkRead(h) \/ MarkFails(h)
       \/ \E u, other \in Users : Send(h, u, other) \/ ReadThread(h, u, other)

ThreadsSpec == ThreadsInit /\ [][ThreadsNext]_threadsVars

-----------------------------------------------------------------------------
(* Properties.                                                             *)

(* A stream that waits with no ping pending shows the count as it is,       *)
(* unless a request has yet to tell the hub: no ping is lost, neither to a  *)
(* full channel nor before the first count ("one event on connect, then     *)
(* one whenever handleSend/handleThread change it").                        *)
Owed(u) == \E h \in Handlers : handler[h].at = "notify" /\ handler[h].user = u

BadgeFresh ==
  \A s \in Streams :
    stream[s].at = "wait" /\ stream[s].pings = 0 /\ ~Owed(stream[s].user) =>
      stream[s].badge = Unread(stream[s].user)

(* A message is marked read only if its recipient has been shown it, or it  *)
(* came between the thread's SELECT and its UPDATE.                         *)
ReadMeansShown ==
  \A i \in DOMAIN messages : messages[i].read => i \in shown \cup overtaken

(* The count of unread messages and the marks it is made of: BadgeFresh and *)
(* ReadMeansShown.                                                          *)
BadgeSound == BadgeFresh /\ ReadMeansShown
================================================================================
