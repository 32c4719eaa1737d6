----------------------------- MODULE SignalStream -----------------------------
(***************************************************************************)
(* WebRTC signalling to one user: the per-room signal queue                *)
(* (mesh/signal.go), the wake-up hub (p2prendezvous/hub.go), the handlers  *)
(* that send a signal (p2prendezvous/handlers.go, calls.go) and the user's *)
(* server-sent event streams that drain it (handleStream).                 *)
(*                                                                         *)
(* A room is one queue of one chat, "p2p:<chat>" or "call:<chat>".  A      *)
(* sender checks the recipient's membership in the database, queues the    *)
(* signal, and only then wakes the streams; nothing joins these steps.  A  *)
(* stream that is woken lists the user's chats, drains their queues one at *)
(* a time and writes what it took to its client, which may be gone.        *)
(* The 25 second ticker only writes a ping: it takes no step here.         *)
(***************************************************************************)
EXTENDS Naturals, FiniteSets, Sequences

CONSTANTS
  Rooms,       \* signal queues the user may be reached through
  CallRooms,   \* those whose name starts with callChatPrefix
  Senders,     \* goroutines sending to the user
  Streams,     \* connections of the user to /api/p2p/stream
  ChanSize,    \* capacity of a subscriber's channel (4)
  QueryMayFail,\* may the database refuse the chat list
  MaxSignals   \* bound: signals sent

ASSUME SignalAssumption ==
  /\ Rooms # {}
  /\ CallRooms \subseteq Rooms
  /\ ChanSize \in Nat \ {0}
  /\ QueryMayFail \in BOOLEAN
  /\ MaxSignals \in Nat

VARIABLES
  member,     \* rooms of the chats the user is an accepted member of
  queue,      \* signalQueue: per room, the waiting signals, oldest first
  count,      \* signals queued so far; a signal is its number
  sender,     \* per sender, where it is, its room, and whether it is the relay
  pc,         \* per stream, where handleStream is
  tokens,     \* wake-ups buffered in the stream's channel
  listed,     \* rooms of the last chat list the stream got
  todo,       \* rooms of that list it has yet to drain
  batch,      \* signals taken from a queue and not yet written
  online,     \* streams whose client is still connected
  delivered,  \* per stream, what its clients received
  lost        \* signals taken from a queue that no client received

senderVars == <<queue, count, sender>>
streamVars == <<pc, listed, todo, batch, delivered, lost>>
vars == <<member, senderVars, streamVars, tokens, online>>

IdleSender == [at |-> "idle", room |-> CHOOSE r \in Rooms : TRUE, relay |-> FALSE]
Subscribed == {s \in Streams : pc[s] # "closed"}
Contents(s) == {s[i] : i \in 1..Len(s)}

Init ==
  /\ member = Rooms
  /\ queue = [r \in Rooms |-> <<>>]
  /\ count = 0
  /\ sender = [x \in Senders |-> IdleSender]
  /\ pc = [s \in Streams |-> "closed"]
  /\ tokens = [s \in Streams |-> 0]
  /\ listed = [s \in Streams |-> {}]
  /\ todo = [s \in Streams |-> {}]
  /\ batch = [s \in Streams |-> <<>>]
  /\ online = {}
  /\ delivered = [s \in Streams |-> <<>>]
  /\ lost = {}

-----------------------------------------------------------------------------
(* Senders.                                                                *)

(* handleSignal and handleCallSignal ask whether the target is an accepted *)
(* member; the relay node queues without asking.                           *)
CheckMember(x, r) ==
  /\ sender[x].at = "idle"
  /\ r \in member
  /\ sender' = [sender EXCEPT ![x] = [at |-> "queue", room |-> r, relay |-> FALSE]]
  /\ UNCHANGED <<member, queue, count, streamVars, tokens, online>>

RelaySignal(x, r) ==
  /\ sender[x].at = "idle"
  /\ r \in CallRooms
  /\ sender' = [sender EXCEPT ![x] = [at |-> "queue", room |-> r, relay |-> TRUE]]
  /\ UNCHANGED <<member, queue, count, streamVars, tokens, online>>

\* Mutant: the new signal goes to the front of the queue.
QueueInFront(x) ==
  LET r == sender[x].room
  IN  /\ sender[x].at = "queue"
      /\ count < MaxSignals
      /\ queue' = [queue EXCEPT ![r] = <<count + 1>> \o @]
      /\ count' = count + 1
      /\ sender' = [sender EXCEPT ![x].at = IF r \in CallRooms THEN "hook" ELSE "notify"]
      /\ UNCHANGED <<member, streamVars, tokens, online>>

(* The locked half of QueueSignal.  Its hooks run after the unlock; the    *)
(* hook of this module acts on call rooms alone.                           *)
QueueSignal(x) ==
  LET r == sender[x].room
  IN  /\ sender[x].at = "queue"
      /\ count < MaxSignals
      /\ queue' = [queue EXCEPT ![r] = Append(@, count + 1)]
      /\ count' = count + 1
      /\ sender' = [sender EXCEPT ![x].at = IF r \in CallRooms THEN "hook" ELSE "notify"]
      /\ UNCHANGED <<member, streamVars, tokens, online>>

\* Mutant: the channel is unbuffered, so only a stream that waits is woken.
NotifyUnbuffered ==
  tokens' = [s \in Streams |-> IF pc[s] = "wait" THEN ChanSize ELSE tokens[s]]

(* notifyHub.notify: a wake-up is dropped when the channel is full.        *)
Notify ==
  tokens' = [s \in Streams |->
               IF s \in Subscribed /\ tokens[s] < ChanSize THEN tokens[s] + 1 ELSE tokens[s]]

HookNotify(x) ==
  /\ sender[x].at = "hook"
  /\ Notify
  /\ sender' = [sender EXCEPT ![x] = IF sender[x].relay THEN IdleSender
                                     ELSE [sender[x] EXCEPT !.at = "notify"]]
  /\ UNCHANGED <<member, queue, count, streamVars, online>>

SenderNotify(x) ==
  /\ sender[x].at = "notify"
  /\ Notify
  /\ sender' = [sender EXCEPT ![x] = IdleSender]
  /\ UNCHANGED <<member, queue, count, streamVars, online>>

-----------------------------------------------------------------------------
(* Streams.                                                                *)

(* Subscribing comes before the first drain.                               *)
Open(s) ==
  /\ pc[s] = "closed"
  /\ pc' = [pc EXCEPT ![s] = "list"]
  /\ tokens' = [tokens EXCEPT ![s] = 0]
  /\ online' = online \cup {s}
  /\ UNCHANGED <<member, senderVars, listed, todo, batch, delivered, lost>>

(* drainSignals: the chat list, or an error that ends this drain.          *)
ListChats(s) ==
  /\ pc[s] = "list"
  /\ \/ /\ listed' = [listed EXCEPT ![s] = member]
        /\ todo' = [todo EXCEPT ![s] = member]
        /\ pc' = [pc EXCEPT ![s] = IF member = {} THEN "wait" ELSE "drain"]
     \/ /\ QueryMayFail
        /\ listed' = [listed EXCEPT ![s] = {}]
        /\ pc' = [pc EXCEPT ![s] = "wait"]
        /\ UNCHANGED todo
  /\ UNCHANGED <<member, senderVars, tokens, online, batch, delivered, lost>>

(* What is next when room r is drained: write its signals, the next room,  *)
(* or sleep.                                                               *)
AfterDrain(s, r) ==
  IF queue[r] # <<>> THEN "write" ELSE IF todo[s] \subseteq {r} THEN "wait" ELSE "drain"

\* Mutant: the drained signals are not deleted from the queue.
DrainKeeps(s, r) ==
  /\ pc[s] = "drain"
  /\ r \in todo[s]
  /\ batch' = [batch EXCEPT ![s] = queue[r]]
  /\ todo' = [todo EXCEPT ![s] = @ \ {r}]
  /\ pc' = [pc EXCEPT ![s] = AfterDrain(s, r)]
  /\ UNCHANGED <<member, senderVars, tokens, online, listed, delivered, lost>>

(* mesh.DrainSignal: take the whole queue under its lock.                  *)
DrainSignal(s, r) ==
  /\ pc[s] = "drain"
  /\ r \in todo[s]
  /\ batch' = [batch EXCEPT ![s] = queue[r]]
  /\ queue' = [queue EXCEPT ![r] = <<>>]
  /\ todo' = [todo EXCEPT ![s] = @ \ {r}]
  /\ pc' = [pc EXCEPT ![s] = AfterDrain(s, r)]
  /\ UNCHANGED <<member, count, sender, tokens, online, listed, delivered, lost>>

(* One signal of the batch.  It is written to nobody when the client is    *)
(* gone, and skipped when it is no JSON object.                            *)
WriteEvent(s) ==
  /\ pc[s] = "write"
  /\ batch' = [batch EXCEPT ![s] = Tail(@)]
  /\ \/ /\ s \in online
        /\ delivered' = [delivered EXCEPT ![s] = Append(@, Head(batch[s]))]
        /\ UNCHANGED lost
     \/ /\ lost' = lost \cup {Head(batch[s])}
        /\ UNCHANGED delivered
  /\ pc' = [pc EXCEPT ![s] = IF Len(batch[s]) > 1 THEN "write"
                             ELSE IF todo[s] = {} THEN "wait" ELSE "drain"]
  /\ UNCHANGED <<member, senderVars, tokens, online, listed, todo>>

Wake(s) ==
  /\ pc[s] = "wait"
  /\ tokens[s] > 0
  /\ tokens' = [tokens EXCEPT ![s] = @ - 1]
  /\ pc' = [pc EXCEPT ![s] = "list"]
  /\ UNCHANGED <<member, senderVars, online, listed, todo, batch, delivered, lost>>

(* The request's context is done: unsubscribe and return.                  *)
Close(s) ==
  /\ pc[s] = "wait"
  /\ s \notin online
  /\ pc' = [pc EXCEPT ![s] = "closed"]
  /\ tokens' = [tokens EXCEPT ![s] = 0]
  /\ listed' = [listed EXCEPT ![s] = {}]
  /\ UNCHANGED <<member, senderVars, online, todo, batch, delivered, lost>>

-----------------------------------------------------------------------------
(* The environment: the client goes, a chat is joined or left.             *)
Disconnect(s) ==
  /\ s \in online
  /\ online' = online \ {s}
  /\ UNCHANGED <<member, senderVars, streamVars, tokens>>

ChangeMembership(r) ==
  /\ member' = IF r \in member THEN member \ {r} ELSE member \cup {r}
  /\ UNCHANGED <<senderVars, streamVars, tokens, online>>

SenderStep(x) == QueueSignal(x) \/ HookNotify(x) \/ SenderNotify(x)
DrainStep(s) ==
  \/ ListChats(s)
  \/ \E r \in Rooms : DrainSignal(s, r)
  \/ WriteEvent(s)
  \/ Wake(s)
  \/ Close(s)

Next ==
  \/ \E x \in Senders, r \in Rooms : CheckMember(x, r) \/ RelaySignal(x, r)
  \/ \E x \in Senders : SenderStep(x)
  \/ \E s \in Streams : Open(s) \/ DrainStep(s) \/ Disconnect(s)
  \/ \E r \in Rooms : ChangeMembership(r)

Spec == Init /\ [][Next]_vars

(* The goroutines of requests that were started run on; clients, chats and *)
(* the arrival of requests are free.                                       *)
Fairness ==
  /\ \A x \in Senders : WF_vars(SenderStep(x))
  /\ \A s \in Streams : WF_vars(DrainStep(s))

FairSpec == Spec /\ Fairness

-----------------------------------------------------------------------------
(* Properties.                                                             *)

TypeOK ==
  /\ member \in SUBSET Rooms
  /\ count \in 0..MaxSignals
  /\ queue \in [Rooms -> Seq(1..MaxSignals)]
  /\ sender \in [Senders -> [at: {"idle", "queue", "hook", "notify"}, room: Rooms,
                             relay: BOOLEAN]]
  /\ pc \in [Streams -> {"closed", "list", "drain", "write", "wait"}]
  /\ tokens \in [Streams -> 0..ChanSize]
  /\ listed \in [Streams -> SUBSET Rooms]
  /\ todo \in [Streams -> SUBSET Rooms]
  /\ batch \in [Streams -> Seq(1..MaxSignals)]
  /\ online \in SUBSET Streams
  /\ delivered \in [Streams -> Seq(1..MaxSignals)]
  /\ lost \in SUBSET (1..MaxSignals)

(* The signals that left the queue.                                        *)
Handed == lost \cup UNION {Contents(batch[s]) \cup Contents(delivered[s]) : s \in Streams}

(* No signal reaches two streams, or one stream twice, and none vanishes:  *)
(* each queued signal is in exactly one queue, batch or client, or its     *)
(* writing failed (DrainSignal, drainRoom).                                *)
SignalConservation ==
  LET inQueues == UNION {Contents(queue[r]) : r \in Rooms}
  IN  /\ inQueues \cup Handed = 1..count
      /\ inQueues \cap Handed = {}
      /\ \A r1, r2 \in Rooms : r1 # r2 => Contents(queue[r1]) \cap Contents(queue[r2]) = {}
      /\ \A s1, s2 \in Streams : s1 # s2 =>
           (Contents(batch[s1]) \cup Contents(delivered[s1]))
             \cap (Contents(batch[s2]) \cup Contents(delivered[s2])) = {}
      /\ \A s \in Streams :
           /\ Contents(batch[s]) \cap Contents(delivered[s]) = {}
           /\ lost \cap (Contents(batch[s]) \cup Contents(delivered[s])) = {}

(* No lost wake-up: a stream that sleeps without a buffered wake-up has    *)
(* seen every signal of the chats it last listed, unless a sender that     *)
(* queued one is about to wake it.  It rests on subscribing before the     *)
(* first drain, queueing before notifying, and the channel's buffer.       *)
NoLostWakeup ==
  \A s \in Streams, r \in Rooms :
    pc[s] = "wait" /\ tokens[s] = 0 /\ r \in listed[s] /\ queue[r] # <<>>
      => \E x \in Senders : sender[x].at \in {"hook", "notify"} /\ sender[x].room = r

(* Within a queue the order of signals is kept to the wire: an ICE         *)
(* candidate never overtakes its offer on the way to one stream.           *)
OrderKept ==
  /\ \A r \in Rooms : \A i, j \in 1..Len(queue[r]) : i < j => queue[r][i] < queue[r][j]
  /\ \A s \in Streams : \A i, j \in 1..Len(batch[s]) : i < j => batch[s][i] < batch[s][j]

(* The queue and its readers implement the mailbox.                        *)
MB == INSTANCE Mailbox WITH pending <- queue, handed <- Handed
ImplementsMailbox == MB!Spec

(* A signal does not wait for ever in front of an open stream: it is       *)
(* taken, or the stream's last chat list did not have its room (a failed   *)
(* query, a membership that came later), or the client goes.               *)
QueuedIsTaken ==
  \A s \in Streams, r \in Rooms :
    queue[r] # <<>> /\ s \in online ~>
      \/ queue[r] = <<>> \/ s \notin online
      \/ (pc[s] = "wait" /\ r \notin listed[s])

(* handleStream's comment: a membership change cannot wake the stream, but *)
(* "a short keep-alive poll is simpler and still near-real-time".  So a    *)
(* signal queued for an accepted member with a live stream is taken.       *)
PolledIsTaken ==
  \A s \in Streams, r \in Rooms :
    queue[r] # <<>> /\ s \in online /\ r \in member ~>
      queue[r] = <<>> \/ s \notin online \/ r \notin member
=============================================================================
