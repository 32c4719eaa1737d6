------------------------------ MODULE RelayNode ------------------------------
(***************************************************************************)
(* The server's own relay peer in one call room                            *)
(* (go/engine/controllers/relaynode): relaynode.go keeps the connections,  *)
(* planner.go makes them follow the coordinator's plans.                   *)
(*                                                                         *)
(* Reconcile runs in the goroutine of whichever request planned, signals   *)
(* and the WebRTC library's callbacks in goroutines of their own, and each *)
(* takes rp.mu several times.  A worker is such a goroutine; one action is *)
(* what it does under the lock once, with the call it makes next on the    *)
(* connection it just found.  roomPeers and connections are numbered       *)
(* objects, because goroutines keep using those that left the maps.        *)
(***************************************************************************)
EXTENDS Naturals, FiniteSets, Sequences

CONSTANTS
  Peers,     \* the humans in the call
  Server,    \* mesh.ServerPeerID
  Plans,     \* plans the coordinator publishes, each a set of RelayEdges
  Workers,   \* goroutines running Reconcile, HandleSignal or a callback
  ConnectMayFail, \* may the library refuse a new connection
  MaxEvents  \* bound: reconciliations, signals, tracks and failures together

Sources == Peers \cup {Server}
Edges == [source: Sources, parent: Sources, child: Sources]

ASSUME RelayAssumption ==
  /\ Server \notin Peers
  /\ Plans \subseteq SUBSET Edges
  /\ ConnectMayFail \in BOOLEAN
  /\ MaxEvents \in Nat

VARIABLES
  rooms,      \* every roomPeers made for the room so far
  current,    \* the one m.rooms holds, 0 = none
  conns,      \* every peerCtx made so far
  worker,     \* what each goroutine has left to do
  callbacks,  \* connections whose state-change callback has yet to run
  arrived,    \* tracks that came in, as <<connection, source>>
  events      \* events started so far

nodeVars == <<rooms, current, conns, worker, callbacks, arrived, events>>

-----------------------------------------------------------------------------
(* What Reconcile reads from a plan.                                       *)
Desired(plan) ==
  [s \in Sources |-> {e.child : e \in {d \in plan : d.source = s /\ d.parent = Server}}]
Upstream(plan) == {e.parent : e \in {d \in plan : d.child = Server}}
ServerPresent(plan) == \E e \in plan : Server \in {e.parent, e.child}
Needed(plan) == Upstream(plan) \cup UNION {Desired(plan)[s] : s \in Sources}

EmptyRoom ==
  [peers |-> [p \in Sources |-> 0],           \* connection of each peer, 0 = none
   received |-> [s \in Sources |-> 0],        \* connection a source's track came over
   wiring |-> [s \in Sources |-> {}],
   lastDesired |-> [s \in Sources |-> {}]]

NoWork ==
  [at |-> "idle", room |-> 0, plan |-> {}, connect |-> {}, diff |-> FALSE, drop |-> {},
   send |-> {}, stop |-> {}, tear |-> FALSE, into |-> 0, job |-> <<>>]

(* The next thing a worker does, in the order of the code.                 *)
Settle(w) ==
  IF w.connect # {} THEN [w EXCEPT !.at = "connect"]
  ELSE IF w.diff THEN [w EXCEPT !.at = "diff"]
  ELSE IF w.drop # {} THEN [w EXCEPT !.at = "drop"]
  ELSE IF w.send # {} THEN [w EXCEPT !.at = "send"]
  ELSE IF w.stop # {} THEN [w EXCEPT !.at = "stop"]
  ELSE IF w.tear THEN [w EXCEPT !.at = "delete"]
  ELSE NoWork

(* m.room: the room's roomPeers, made when it is not there.                *)
RoomId == IF current # 0 THEN current ELSE Len(rooms) + 1
Rooms == IF current # 0 THEN rooms ELSE Append(rooms, EmptyRoom)

RelayInit ==
  /\ rooms = <<>>
  /\ current = 0
  /\ conns = <<>>
  /\ worker = [x \in Workers |-> NoWork]
  /\ callbacks = {}
  /\ arrived = {}
  /\ events = 0

Event == events < MaxEvents /\ events' = events + 1

-----------------------------------------------------------------------------
(* Reconcile, up to the diff; without the server in the plan, teardownRoom.*)
Reconcile(x, plan) ==
  /\ worker[x].at = "idle"
  /\ Event
  /\ rooms' = Rooms
  /\ current' = RoomId
  /\ worker' = [worker EXCEPT ![x] =
       IF ServerPresent(plan)
         THEN Settle([NoWork EXCEPT !.room = RoomId, !.plan = plan, !.diff = TRUE,
                                    !.connect = Needed(plan)])
         ELSE [NoWork EXCEPT !.at = "list", !.room = RoomId]]
  /\ UNCHANGED <<conns, callbacks, arrived>>

ListPeers(x) ==
  LET w == worker[x]
      listed == {p \in Sources : rooms[w.room].peers[p] # 0}
  IN  /\ w.at = "list"
      /\ worker' = [worker EXCEPT ![x] = Settle([w EXCEPT !.drop = listed, !.tear = TRUE])]
      /\ UNCHANGED <<rooms, current, conns, callbacks, arrived, events>>

DeleteRoom(x) ==
  /\ worker[x].at = "delete"
  /\ current' = 0
  /\ worker' = [worker EXCEPT ![x] = NoWork]
  /\ UNCHANGED <<rooms, conns, callbacks, arrived, events>>

(* HandleSignal finds or makes the sender's connection before anything.    *)
HandleSignal(x, p) ==
  /\ worker[x].at = "idle"
  /\ Event
  /\ worker' = [worker EXCEPT ![x] = Settle([NoWork EXCEPT !.connect = {p}])]
  /\ UNCHANGED <<rooms, current, conns, callbacks, arrived>>

(* getOrCreate, first half: look the peer up under the lock.  If it is not *)
(* there the connection is made with the lock released (CreateConn).       *)
Connect(x, p) ==
  LET w == worker[x]
  IN  /\ w.at = "connect"
      /\ p \in w.connect
      /\ rooms' = Rooms
      /\ current' = RoomId
      /\ worker' = [worker EXCEPT ![x] =
           IF Rooms[RoomId].peers[p] # 0
             THEN Settle([w EXCEPT !.connect = @ \ {p}])
             ELSE [w EXCEPT !.at = "create", !.connect = @ \ {p},
                            !.into = RoomId, !.job = <<p>>]]
      /\ UNCHANGED <<conns, callbacks, arrived, events>>

NewConn(p, room, senders) ==
  [peer |-> p, room |-> room, open |-> TRUE, senders |-> senders]

NoSenders == [s \in Sources |-> {}]

(* getOrCreate, second half: enter the new connection, whatever is there.  *)
(* When sendTrack asked for it, the track is added at once (see SendTrack).*)
CreateConn(x) ==
  LET w == worker[x]
      p == w.job[1]
      senders == IF Len(w.job) = 1 THEN NoSenders
                 ELSE [NoSenders EXCEPT ![w.job[2]] = {w.job[3]}]
  IN  /\ w.at = "create"
      /\ conns' = Append(conns, NewConn(p, w.into, senders))
      /\ rooms' = [rooms EXCEPT ![w.into].peers[p] = Len(conns) + 1]
      /\ worker' = [worker EXCEPT ![x] =
           Settle([w EXCEPT !.into = 0, !.job = <<>>])]
      /\ UNCHANGED <<current, callbacks, arrived, events>>

(* getOrCreate returns an error: its caller logs it and goes on.           *)
CreateFails(x) ==
  /\ ConnectMayFail
  /\ worker[x].at = "create"
  /\ worker' = [worker EXCEPT ![x] = Settle([worker[x] EXCEPT !.into = 0, !.job = <<>>])]
  /\ UNCHANGED <<rooms, current, conns, callbacks, arrived, events>>

\* Mutant: forwards that are no longer wanted stay in the wiring.
KeepsWiring(old, desired, s) ==
  old.wiring[s] \cup (IF old.received[s] = 0 THEN {} ELSE desired[s])

(* The wiring of source s after the diff: what is desired and already      *)
(* forwarded, and what is desired and has a track to forward.              *)
Rewired(old, desired, s) ==
  IF old.received[s] = 0 THEN old.wiring[s] \cap desired[s] ELSE desired[s]

\* Mutant: peers the plan does not name are left connected.
DiffDropsNobody(x) ==
  LET w == worker[x]
      old == rooms[w.room]
      desired == Desired(w.plan)
      wired == [s \in Sources |-> Rewired(old, desired, s)]
  IN  /\ w.at = "diff"
      /\ rooms' = [rooms EXCEPT ![w.room].wiring = wired, ![w.room].lastDesired = desired]
      /\ worker' = [worker EXCEPT ![x] = Settle([w EXCEPT !.diff = FALSE,
           !.send = UNION {{<<c, s, old.received[s]>> : c \in wired[s] \ old.wiring[s]} : s \in Sources},
           !.stop = UNION {{<<c, s>> : c \in old.wiring[s] \ desired[s]} : s \in Sources}])]
      /\ UNCHANGED <<current, conns, callbacks, arrived, events>>

(* The part of Reconcile that runs under rp.mu.                            *)
Diff(x) ==
  LET w == worker[x]
      old == rooms[w.room]
      desired == Desired(w.plan)
      wired == [s \in Sources |-> Rewired(old, desired, s)]
  IN  /\ w.at = "diff"
      /\ rooms' = [rooms EXCEPT ![w.room].wiring = wired, ![w.room].lastDesired = desired]
      /\ worker' = [worker EXCEPT ![x] = Settle([w EXCEPT !.diff = FALSE,
           !.drop = {p \in Sources : old.peers[p] # 0} \ Needed(w.plan),
           !.send = UNION {{<<c, s, old.received[s]>> : c \in wired[s] \ old.wiring[s]} : s \in Sources},
           !.stop = UNION {{<<c, s>> : c \in old.wiring[s] \ desired[s]} : s \in Sources}])]
      /\ UNCHANGED <<current, conns, callbacks, arrived, events>>

\* Mutant: the connection is closed and left on file.
DropKeepsEntry(x, p) ==
  LET w == worker[x]
      c == Rooms[RoomId].peers[p]
  IN  /\ w.at = "drop"
      /\ p \in w.drop
      /\ rooms' = Rooms
      /\ current' = RoomId
      /\ conns' = IF c = 0 THEN conns ELSE [conns EXCEPT ![c].open = FALSE]
      /\ callbacks' = IF c = 0 THEN callbacks ELSE callbacks \cup {c}
      /\ worker' = [worker EXCEPT ![x] = Settle([w EXCEPT !.drop = @ \ {p}])]
      /\ UNCHANGED <<arrived, events>>

(* dropPeer.  Closing the connection makes its state-change callback run.  *)
DropPeer(x, p) ==
  LET w == worker[x]
      o == Rooms[RoomId]
      c == o.peers[p]
  IN  /\ w.at = "drop"
      /\ p \in w.drop
      /\ current' = RoomId
      /\ rooms' = [Rooms EXCEPT
           ![RoomId] = [o EXCEPT !.peers[p] = 0, !.received[p] = 0,
                                 !.wiring = [s \in Sources |-> o.wiring[s] \ {p}]]]
      /\ conns' = IF c = 0 THEN conns ELSE [conns EXCEPT ![c].open = FALSE]
      /\ callbacks' = IF c = 0 THEN callbacks ELSE callbacks \cup {c}
      /\ worker' = [worker EXCEPT ![x] = Settle([w EXCEPT !.drop = @ \ {p}])]
      /\ UNCHANGED <<arrived, events>>

(* sendTrack: getOrCreate the child's connection and add the track to it.  *)
(* A closed connection refuses the track.                                  *)
SendTrack(x, job) ==
  LET w == worker[x]
      c == Rooms[RoomId].peers[job[1]]
  IN  /\ w.at = "send"
      /\ job \in w.send
      /\ rooms' = Rooms
      /\ current' = RoomId
      /\ IF c # 0
           THEN /\ conns' = IF conns[c].open
                              THEN [conns EXCEPT ![c].senders[job[2]] = @ \cup {job[3]}]
                              ELSE conns
                /\ worker' = [worker EXCEPT ![x] = Settle([w EXCEPT !.send = @ \ {job}])]
           ELSE /\ worker' = [worker EXCEPT ![x] =
                     [w EXCEPT !.at = "create", !.send = @ \ {job},
                               !.into = RoomId, !.job = job]]
                /\ UNCHANGED conns
      /\ UNCHANGED <<callbacks, arrived, events>>

\* Mutant: the forward is taken off the books, its sender is not removed.
StopKeepsSender(x, job) ==
  LET w == worker[x]
  IN  /\ w.at = "stop"
      /\ job \in w.stop
      /\ rooms' = Rooms
      /\ current' = RoomId
      /\ worker' = [worker EXCEPT ![x] = Settle([w EXCEPT !.stop = @ \ {job}])]
      /\ UNCHANGED <<conns, callbacks, arrived, events>>

StopSource(x, job) ==
  LET w == worker[x]
      c == Rooms[RoomId].peers[job[1]]
  IN  /\ w.at = "stop"
      /\ job \in w.stop
      /\ rooms' = Rooms
      /\ current' = RoomId
      /\ conns' = IF c = 0 THEN conns ELSE [conns EXCEPT ![c].senders[job[2]] = {}]
      /\ worker' = [worker EXCEPT ![x] = Settle([w EXCEPT !.stop = @ \ {job}])]
      /\ UNCHANGED <<callbacks, arrived, events>>

-----------------------------------------------------------------------------
(* Callbacks of the WebRTC library.                                        *)

(* OnTrack with a known trackMap, then forwardIfWanted under the lock of   *)
(* the roomPeers the connection was made for.                              *)
TrackArrives(x, c, s) ==
  LET o == rooms[conns[c].room]
      children == o.lastDesired[s] \ o.wiring[s]
  IN  /\ worker[x].at = "idle"
      /\ conns[c].open
      /\ <<c, s>> \notin arrived
      /\ \E plan \in Plans : [source |-> s, parent |-> conns[c].peer, child |-> Server] \in plan
      /\ Event
      /\ arrived' = arrived \cup {<<c, s>>}
      /\ rooms' = [rooms EXCEPT ![conns[c].room].received[s] = c,
                                ![conns[c].room].wiring[s] = @ \cup children]
      /\ worker' = [worker EXCEPT ![x] =
           Settle([NoWork EXCEPT !.send = {<<child, s, c>> : child \in children}])]
      /\ UNCHANGED <<current, conns, callbacks>>

ConnectionFails(c) ==
  /\ conns[c].open
  /\ c \notin callbacks
  /\ Event
  /\ callbacks' = callbacks \cup {c}
  /\ UNCHANGED <<rooms, current, conns, worker, arrived>>

(* OnConnectionStateChange: failed, disconnected or closed.                *)
StateChange(x, c) ==
  /\ worker[x].at = "idle"
  /\ c \in callbacks
  /\ callbacks' = callbacks \ {c}
  /\ worker' = [worker EXCEPT ![x] = Settle([NoWork EXCEPT !.drop = {conns[c].peer}])]
  /\ UNCHANGED <<rooms, current, conns, arrived, events>>

WorkerStep(x) ==
  \/ ListPeers(x)
  \/ DeleteRoom(x)
  \/ \E p \in Sources : Connect(x, p) \/ DropPeer(x, p)
  \/ CreateConn(x) \/ CreateFails(x)
  \/ Diff(x)
  \/ \E job \in worker[x].send : SendTrack(x, job)
  \/ \E job \in worker[x].stop : StopSource(x, job)

RelayNext ==
  \E x \in Workers :
    \/ WorkerStep(x)
    \/ \E plan \in Plans : Reconcile(x, plan)
    \/ \E p \in Peers : HandleSignal(x, p)
    \/ \E c \in 1..Len(conns), s \in Sources : TrackArrives(x, c, s)
    \/ \E c \in 1..Len(conns) : ConnectionFails(c)
    \/ \E c \in callbacks : StateChange(x, c)

-----------------------------------------------------------------------------
(* Properties.                                                             *)
NodeQuiet == callbacks = {} /\ \A x \in Workers : worker[x].at = "idle"
Registered == {p \in Sources : current # 0 /\ rooms[current].peers[p] # 0}
Forwards(o, s, p) == rooms[o].peers[p] # 0 /\ conns[rooms[o].peers[p]].senders[s] # {}

(* A peer is only ever wired to a source the latest diff wanted it to get, *)
(* whichever of Reconcile, OnTrack and dropPeer interleave.                *)
WiringWanted ==
  \A o \in 1..Len(rooms), s \in Sources :
    rooms[o].wiring[s] \subseteq rooms[o].lastDesired[s]

RelayTypeOK ==
  /\ current \in 0..Len(rooms)
  /\ \A o \in 1..Len(rooms) :
       /\ rooms[o].peers \in [Sources -> 0..Len(conns)]
       /\ rooms[o].received \in [Sources -> 0..Len(conns)]
       /\ rooms[o].wiring \in [Sources -> SUBSET Sources]
       /\ rooms[o].lastDesired \in [Sources -> SUBSET Sources]
  /\ \A c \in 1..Len(conns) :
       /\ conns[c].peer \in Sources /\ conns[c].room \in 1..Len(rooms)
       /\ conns[c].open \in BOOLEAN
       /\ conns[c].senders \in [Sources -> SUBSET (1..Len(conns))]
  /\ \A x \in Workers :
       worker[x].at \in {"idle", "list", "connect", "create", "diff", "drop", "send",
                         "stop", "delete"}
  /\ callbacks \subseteq 1..Len(conns)
  /\ arrived \subseteq (1..Len(conns)) \X Sources
  /\ events \in 0..MaxEvents

(* Every variable has its type, and the connection on file for a peer is   *)
(* that peer's, was made for these books, and is open: nothing is sent     *)
(* into a connection already closed.                                       *)
RegisteredIsOpen ==
  RelayTypeOK /\ \A o \in 1..Len(rooms), p \in Sources :
    LET c == rooms[o].peers[p]
    IN  c # 0 => conns[c].open /\ conns[c].peer = p /\ conns[c].room = o

(* Once the node is quiet, the wiring is exactly what is being sent: a     *)
(* wired child has a connection carrying one track of the source, and no   *)
(* other peer is sent it (Reconcile's toSend and toStop, dropPeer).        *)
WiringMatchesSenders ==
  NodeQuiet /\ current # 0 =>
    \A s \in Sources :
      /\ rooms[current].wiring[s] = {p \in Sources : Forwards(current, s, p)}
      /\ \A p \in Registered : Cardinality(conns[rooms[current].peers[p]].senders[s]) <= 1

(* A reconciliation ends with exactly the plan's connections, and with     *)
(* every desired forward that has a track wired.                           *)
AchievesPlan ==
  \A x \in Workers :
    worker[x].plan # {} /\ worker'[x] = NoWork =>
      /\ Registered' = Needed(worker[x].plan)
      /\ \A s \in Sources : rooms'[current'].received[s] # 0 =>
           rooms'[current'].wiring[s] = Desired(worker[x].plan)[s]

(* The wiring field is the "set of child peerIDs currently being forwarded *)
(* to": a wired child is sent the track now received for the source.       *)
WiringIsForwarding ==
  NodeQuiet /\ current # 0 =>
    \A s \in Sources : \A p \in rooms[current].wiring[s] :
      /\ rooms[current].peers[p] # 0
      /\ rooms[current].received[s] # 0 =>
           rooms[current].received[s] \in conns[rooms[current].peers[p]].senders[s]
=============================================================================
