--------------------------- MODULE ExchangesProofs ---------------------------
(***************************************************************************)
(* What holds of the exchanges for every value of the constants.           *)
(***************************************************************************)
EXTENDS MCExchanges, FiniteSetTheorems, TLAPS

-----------------------------------------------------------------------------
(* The relay node.  Types first: what a room, a connection and a goroutine  *)
(* hold, each by itself, and then that the numbers in them exist.           *)
Jobs == {<<>>} \cup {<<p>> : p \in Sources} \cup (Sources \X Sources \X Nat)
RoomRec ==
  [peers : [Sources -> Nat], received : [Sources -> Nat],
   wiring : [Sources -> SUBSET Sources], lastDesired : [Sources -> SUBSET Sources]]
ConnRec == [peer : Sources, room : Nat, open : BOOLEAN, senders : [Sources -> SUBSET Nat]]
WorkRec ==
  [at : {"idle", "list", "connect", "create", "diff", "drop", "send", "stop", "delete"},
   room : Nat, plan : SUBSET Edges, connect : SUBSET Sources, diff : BOOLEAN,
   drop : SUBSET Sources, send : SUBSET (Sources \X Sources \X Nat),
   stop : SUBSET (Sources \X Sources), tear : BOOLEAN, into : Nat, job : Jobs]

(* What a goroutine holds exists, among m rooms and n connections.          *)
WorkOK(w, m, n) ==
  /\ w \in WorkRec
  /\ w.at = "idle" => w = NoWork
  /\ IF w.at = "create" THEN w.into \in 1..m /\ w.job # <<>> ELSE w.job = <<>>
  /\ w.at = "list" \/ w.at = "diff" \/ w.diff => w.room \in 1..m
  /\ \A j \in w.send : j[3] \in 1..n
  /\ Len(w.job) = 3 => w.job[3] \in 1..n

RoomOK(r, o, C) ==
  /\ r \in RoomRec
  /\ \A s \in Sources : r.wiring[s] \subseteq r.lastDesired[s]
  /\ \A p \in Sources :
       /\ r.peers[p] <= Len(C) /\ r.received[p] <= Len(C)
       /\ r.peers[p] # 0 => /\ C[r.peers[p]].open /\ C[r.peers[p]].peer = p
                            /\ C[r.peers[p]].room = o

ConnOK(c, m, n) ==
  c \in ConnRec /\ c.room \in 1..m /\ \A s \in Sources : c.senders[s] \subseteq 1..n

NodeOK(R, k, C, W, B, A) ==
  /\ R \in Seq(RoomRec) /\ C \in Seq(ConnRec) /\ k \in 0..Len(R)
  /\ \A o \in 1..Len(R) : RoomOK(R[o], o, C)
  /\ \A c \in 1..Len(C) : ConnOK(C[c], Len(R), Len(C))
  /\ W \in [Workers -> WorkRec] /\ \A x \in Workers : WorkOK(W[x], Len(R), Len(C))
  /\ B \subseteq 1..Len(C) /\ A \subseteq (1..Len(C)) \X Sources

NodeInv == NodeOK(rooms, current, conns, worker, callbacks, arrived) /\ events \in 0..MaxEvents

(* Settle chooses what to do next and changes nothing else but that a       *)
(* goroutine with nothing left forgets what it was about.                   *)
LEMMA NoWorkTyped == NoWork \in WorkRec
BY DEF NoWork, WorkRec, Jobs

LEMMA NoWorkFields ==
  /\ NoWork.at = "idle" /\ NoWork.room = 0 /\ NoWork.plan = {} /\ NoWork.connect = {} /\ ~NoWork.diff
  /\ NoWork.drop = {} /\ NoWork.send = {} /\ NoWork.stop = {} /\ ~NoWork.tear /\ NoWork.into = 0
  /\ NoWork.job = <<>>
BY DEF NoWork

LEMMA Settled ==
  ASSUME NEW u \in WorkRec
  PROVE  LET v == Settle(u) IN
         /\ v \in WorkRec
         /\ v.connect = u.connect /\ v.diff = u.diff /\ v.drop = u.drop
         /\ v.send = u.send /\ v.stop = u.stop /\ v.tear = u.tear
         /\ \/ v = NoWork
            \/ v.room = u.room /\ v.plan = u.plan /\ v.into = u.into /\ v.job = u.job
         /\ v.at = "idle" => v = NoWork
         /\ v.at \notin {"create", "list"}
         /\ v.at = "diff" => u.diff /\ u.connect = {}
         /\ v.at = "delete" => u.tear /\ u.drop = {}
         /\ v = NoWork => ~u.diff /\ ~u.tear
<1> USE NoWorkTyped
<1>1. CASE u.connect # {}
  BY <1>1 DEF Settle, NoWork, WorkRec
<1>2. CASE u.connect = {} /\ u.diff
  BY <1>2 DEF Settle, NoWork, WorkRec
<1>3. CASE u.connect = {} /\ ~u.diff /\ u.drop # {}
  BY <1>3 DEF Settle, NoWork, WorkRec
<1>4. CASE u.connect = {} /\ ~u.diff /\ u.drop = {} /\ u.send # {}
  BY <1>4 DEF Settle, NoWork, WorkRec
<1>5. CASE u.connect = {} /\ ~u.diff /\ u.drop = {} /\ u.send = {} /\ u.stop # {}
  BY <1>5 DEF Settle, NoWork, WorkRec
<1>6. CASE u.connect = {} /\ ~u.diff /\ u.drop = {} /\ u.send = {} /\ u.stop = {} /\ u.tear
  BY <1>6 DEF Settle, NoWork, WorkRec
<1>7. CASE u.connect = {} /\ ~u.diff /\ u.drop = {} /\ u.send = {} /\ u.stop = {} /\ ~u.tear
  BY <1>7 DEF Settle, NoWork, WorkRec
<1>8. QED
  BY <1>1, <1>2, <1>3, <1>4, <1>5, <1>6, <1>7 DEF WorkRec

LEMMA WorkSettled ==
  ASSUME NEW u \in WorkRec, NEW m \in Nat, NEW n \in Nat, u.job = <<>>,
         u.diff => u.room \in 1..m, \A j \in u.send : j[3] \in 1..n
  PROVE  WorkOK(Settle(u), m, n)
<1> DEFINE v == Settle(u)
<1>1. /\ v \in WorkRec /\ v.diff = u.diff /\ v.send = u.send
      /\ \/ v = NoWork
         \/ v.room = u.room /\ v.job = u.job
      /\ v.at = "idle" => v = NoWork
      /\ v.at \notin {"create", "list"}
      /\ v.at = "diff" => u.diff
      /\ v = NoWork => ~u.diff
  BY Settled
<1> HIDE DEF v
<1>2. v.job = <<>>
  BY <1>1 DEF NoWork
<1>3. Len(v.job) # 3
  BY <1>2
<1>4. WorkOK(v, m, n)
  BY <1>1, <1>2, <1>3 DEF WorkOK
<1>5. QED
  BY <1>4 DEF v

LEMMA WorkStays ==
  ASSUME NEW w, NEW m \in Nat, NEW n \in Nat, NEW i \in Nat, NEW j \in Nat,
         m <= i, n <= j, WorkOK(w, m, n)
  PROVE  WorkOK(w, i, j)
BY DEF WorkOK

LEMMA JobFacts ==
  ASSUME NEW j \in Jobs, j # <<>>
  PROVE  /\ j[1] \in Sources
         /\ Len(j) = 1 \/ (Len(j) = 3 /\ j \in Sources \X Sources \X Nat)
         /\ Len(j) = 1 => j = <<j[1]>>
<1>1. CASE j \in {<<p>> : p \in Sources}
  BY <1>1
<1>2. CASE j \in Sources \X Sources \X Nat
  BY <1>2
<1>3. QED
  BY <1>1, <1>2 DEF Jobs

LEMMA RoomFields ==
  ASSUME NEW C \in Seq(ConnRec), NEW r, NEW o, RoomOK(r, o, C), NEW p \in Sources
  PROVE  /\ r.peers[p] \in 0..Len(C) /\ r.received[p] \in 0..Len(C)
         /\ r.wiring[p] \in SUBSET Sources /\ r.lastDesired[p] \in SUBSET Sources
         /\ r.wiring[p] \subseteq r.lastDesired[p]
         /\ r.peers[p] # 0 => /\ r.peers[p] \in 1..Len(C) /\ C[r.peers[p]].open
                               /\ C[r.peers[p]].peer = p /\ C[r.peers[p]].room = o
<1>1. r.peers[p] \in Nat /\ r.received[p] \in Nat /\ r.wiring[p] \in SUBSET Sources
      /\ r.lastDesired[p] \in SUBSET Sources
  BY DEF RoomOK, RoomRec
<1>2. QED
  BY <1>1 DEF RoomOK

(* A room whose connections stay open stays as it should be.                *)
LEMMA RoomStays ==
  ASSUME NEW C \in Seq(ConnRec), NEW D \in Seq(ConnRec), NEW r, NEW o, RoomOK(r, o, C),
         Len(C) <= Len(D),
         \A c \in 1..Len(C) : D[c].peer = C[c].peer /\ D[c].room = C[c].room,
         \A p \in Sources : r.peers[p] # 0 => D[r.peers[p]].open
  PROVE  RoomOK(r, o, D)
<1>1. r \in RoomRec /\ Len(C) \in Nat /\ Len(D) \in Nat
  BY DEF RoomOK
<1>2. ASSUME NEW p \in Sources
      PROVE  /\ r.peers[p] \in 0..Len(C) /\ r.received[p] \in 0..Len(C)
             /\ r.peers[p] # 0 => D[r.peers[p]].peer = p /\ D[r.peers[p]].room = o
  <2>1. r.peers[p] \in Nat /\ r.received[p] \in Nat
    BY <1>1 DEF RoomRec
  <2>2. r.peers[p] <= Len(C) /\ r.received[p] <= Len(C)
    BY DEF RoomOK
  <2>3. r.peers[p] # 0 => C[r.peers[p]].peer = p /\ C[r.peers[p]].room = o
    BY DEF RoomOK
  <2>4. QED
    BY <1>1, <2>1, <2>2, <2>3
<1>3. \A p \in Sources : r.peers[p] <= Len(D) /\ r.received[p] <= Len(D)
  BY <1>1, <1>2
<1>4. \A s \in Sources : r.wiring[s] \subseteq r.lastDesired[s]
  BY DEF RoomOK
<1>5. QED
  BY <1>1, <1>2, <1>3, <1>4 DEF RoomOK

LEMMA EmptyRoomOK ==
  ASSUME NEW o, NEW C \in Seq(ConnRec) PROVE EmptyRoom \in RoomRec /\ RoomOK(EmptyRoom, o, C)
<1>1. EmptyRoom \in RoomRec
  BY DEF EmptyRoom, RoomRec
<1>2. \A p \in Sources : EmptyRoom.peers[p] = 0 /\ EmptyRoom.received[p] = 0 /\ EmptyRoom.wiring[p] = {}
  BY DEF EmptyRoom
<1>3. QED
  BY <1>1, <1>2 DEF RoomOK

(* Opening a room, if none is, keeps everything as it should be.            *)
LEMMA Opened ==
  ASSUME NodeInv
  PROVE  /\ NodeOK(Rooms, RoomId, conns, worker, callbacks, arrived)
         /\ RoomId \in 1..Len(Rooms) /\ Len(rooms) <= Len(Rooms)
         /\ \A o \in 1..Len(rooms) : Rooms[o] = rooms[o]
         /\ current # 0 => RoomId = current /\ Rooms = rooms
         /\ current = 0 => Rooms[RoomId] = EmptyRoom
<1> USE DEF NodeInv, NodeOK
<1>1. CASE current # 0
  BY <1>1 DEF Rooms, RoomId
<1>2. CASE current = 0
  <2>1. EmptyRoom \in RoomRec /\ RoomOK(EmptyRoom, Len(rooms) + 1, conns)
    BY EmptyRoomOK
  <2>2. /\ Rooms = Append(rooms, EmptyRoom) /\ RoomId = Len(rooms) + 1
        /\ Rooms \in Seq(RoomRec) /\ Len(Rooms) = Len(rooms) + 1
        /\ \A o \in 1..Len(rooms) : Rooms[o] = rooms[o]
        /\ Rooms[Len(rooms) + 1] = EmptyRoom
    BY <1>2, <2>1 DEF Rooms, RoomId
  <2>3. \A o \in 1..Len(Rooms) : RoomOK(Rooms[o], o, conns)
    BY <2>1, <2>2
  <2>4. \A c \in 1..Len(conns) : ConnOK(conns[c], Len(Rooms), Len(conns))
    BY <2>2 DEF ConnOK
  <2>5. \A x \in Workers : WorkOK(worker[x], Len(Rooms), Len(conns))
    BY <2>2, WorkStays
  <2>6. QED
    BY <1>2, <2>2, <2>3, <2>4, <2>5
<1>3. QED
  BY <1>1, <1>2

-----------------------------------------------------------------------------
(* What the steps of the node do to rooms and connections, field by field.  *)

(* dropPeer.                                                                *)
WithoutPeer(R, k, p) ==
  [R EXCEPT ![k] =
    [R[k] EXCEPT !.peers[p] = 0, !.received[p] = 0,
                 !.wiring = [s \in Sources |-> R[k].wiring[s] \ {p}]]]

LEMMA Dropped ==
  ASSUME NEW R \in Seq(RoomRec), NEW k \in 1..Len(R), NEW p \in Sources
  PROVE  LET S == WithoutPeer(R, k, p) IN
         /\ S \in Seq(RoomRec) /\ Len(S) = Len(R)
         /\ \A o \in 1..Len(R) : o # k => S[o] = R[o]
         /\ S[k].lastDesired = R[k].lastDesired
         /\ \A q \in Sources :
              /\ S[k].peers[q] = IF q = p THEN 0 ELSE R[k].peers[q]
              /\ S[k].received[q] = IF q = p THEN 0 ELSE R[k].received[q]
              /\ S[k].wiring[q] = R[k].wiring[q] \ {p}
<1> DEFINE r == [R[k] EXCEPT !.peers[p] = 0, !.received[p] = 0,
                             !.wiring = [s \in Sources |-> R[k].wiring[s] \ {p}]]
           S == WithoutPeer(R, k, p)
<1>1. R[k] \in RoomRec
  OBVIOUS
<1>2. /\ r.peers = [R[k].peers EXCEPT ![p] = 0]
      /\ r.received = [R[k].received EXCEPT ![p] = 0]
      /\ r.wiring = [s \in Sources |-> R[k].wiring[s] \ {p}]
      /\ r.lastDesired = R[k].lastDesired
  BY <1>1 DEF RoomRec
<1>3. r \in RoomRec
  BY <1>1 DEF RoomRec
<1>4. \A q \in Sources :
         /\ r.peers[q] = IF q = p THEN 0 ELSE R[k].peers[q]
         /\ r.received[q] = IF q = p THEN 0 ELSE R[k].received[q]
         /\ r.wiring[q] = R[k].wiring[q] \ {p}
  BY <1>1, <1>2 DEF RoomRec
<1>5. S = [R EXCEPT ![k] = r]
  BY DEF WithoutPeer
<1> HIDE DEF r, S
<1>6. S \in Seq(RoomRec) /\ Len(S) = Len(R) /\ S[k] = r /\ \A o \in 1..Len(R) : o # k => S[o] = R[o]
  <2>1. R \in [1..Len(R) -> RoomRec] /\ Len(R) \in Nat
    OBVIOUS
  <2>2. S \in [1..Len(R) -> RoomRec] /\ S[k] = r /\ \A o \in 1..Len(R) : o # k => S[o] = R[o]
    BY <1>3, <1>5, <2>1
  <2>3. S \in Seq(RoomRec) /\ Len(S) = Len(R)
    BY <2>1, <2>2
  <2>4. QED
    BY <2>2, <2>3
<1>7. QED
  BY <1>2, <1>4, <1>6 DEF S

(* A connection closed, or with other senders.                              *)
WithClosed(C, c) == [C EXCEPT ![c].open = FALSE]

LEMMA Closed ==
  ASSUME NEW C \in Seq(ConnRec), NEW c \in 1..Len(C)
  PROVE  LET D == WithClosed(C, c) IN
         /\ D \in Seq(ConnRec) /\ Len(D) = Len(C)
         /\ \A i \in 1..Len(C) : /\ D[i].peer = C[i].peer /\ D[i].room = C[i].room
                                 /\ D[i].senders = C[i].senders
                                 /\ D[i].open <=> C[i].open /\ i # c
<1> DEFINE d == [C[c] EXCEPT !.open = FALSE]
           D == WithClosed(C, c)
<1>1. C[c] \in ConnRec
  OBVIOUS
<1>2. d \in ConnRec /\ d.peer = C[c].peer /\ d.room = C[c].room /\ d.senders = C[c].senders /\ ~d.open
  BY <1>1 DEF ConnRec
<1>3. D = [C EXCEPT ![c] = d]
  BY DEF WithClosed
<1> HIDE DEF d, D
<1>4. D \in Seq(ConnRec) /\ Len(D) = Len(C) /\ D[c] = d /\ \A i \in 1..Len(C) : i # c => D[i] = C[i]
  <2>1. C \in [1..Len(C) -> ConnRec] /\ Len(C) \in Nat
    OBVIOUS
  <2>2. D \in [1..Len(C) -> ConnRec] /\ D[c] = d /\ \A i \in 1..Len(C) : i # c => D[i] = C[i]
    BY <1>2, <1>3, <2>1
  <2>3. D \in Seq(ConnRec) /\ Len(D) = Len(C)
    BY <2>1, <2>2
  <2>4. QED
    BY <2>2, <2>3
<1>5. ASSUME NEW i \in 1..Len(C)
      PROVE  /\ D[i].peer = C[i].peer /\ D[i].room = C[i].room
             /\ D[i].senders = C[i].senders /\ (D[i].open <=> C[i].open /\ i # c)
  <2>1. CASE i = c
    BY <2>1, <1>2, <1>4
  <2>2. CASE i # c
    BY <2>2, <1>4
  <2>3. QED
    BY <2>1, <2>2
<1>6. QED
  BY <1>4, <1>5 DEF D

WithSenders(C, c, s, T) == [C EXCEPT ![c].senders[s] = T]

LEMMA Resent ==
  ASSUME NEW C \in Seq(ConnRec), NEW c \in 1..Len(C), NEW s \in Sources, NEW T \in SUBSET Nat
  PROVE  LET D == WithSenders(C, c, s, T) IN
         /\ D \in Seq(ConnRec) /\ Len(D) = Len(C)
         /\ \A i \in 1..Len(C) : /\ D[i].peer = C[i].peer /\ D[i].room = C[i].room
                                 /\ D[i].open = C[i].open
         /\ \A i \in 1..Len(C), t \in Sources :
              D[i].senders[t] = IF i = c /\ t = s THEN T ELSE C[i].senders[t]
<1> DEFINE d == [C[c] EXCEPT !.senders[s] = T]
           D == WithSenders(C, c, s, T)
<1>1. C[c] \in ConnRec
  OBVIOUS
<1>2. d.senders = [C[c].senders EXCEPT ![s] = T]
  BY <1>1 DEF ConnRec
<1>3. d \in ConnRec /\ d.peer = C[c].peer /\ d.room = C[c].room /\ d.open = C[c].open
  BY <1>1 DEF ConnRec
<1>4. \A t \in Sources : d.senders[t] = IF t = s THEN T ELSE C[c].senders[t]
  BY <1>1, <1>2 DEF ConnRec
<1>5. D = [C EXCEPT ![c] = d]
  BY DEF WithSenders
<1> HIDE DEF d, D
<1>6. D \in Seq(ConnRec) /\ Len(D) = Len(C) /\ D[c] = d /\ \A i \in 1..Len(C) : i # c => D[i] = C[i]
  <2>1. C \in [1..Len(C) -> ConnRec] /\ Len(C) \in Nat
    OBVIOUS
  <2>2. D \in [1..Len(C) -> ConnRec] /\ D[c] = d /\ \A i \in 1..Len(C) : i # c => D[i] = C[i]
    BY <1>3, <1>5, <2>1
  <2>3. D \in Seq(ConnRec) /\ Len(D) = Len(C)
    BY <2>1, <2>2
  <2>4. QED
    BY <2>2, <2>3
<1>7. ASSUME NEW i \in 1..Len(C)
      PROVE  /\ D[i].peer = C[i].peer /\ D[i].room = C[i].room /\ D[i].open = C[i].open
             /\ \A t \in Sources :
                  D[i].senders[t] = IF i = c /\ t = s THEN T ELSE C[i].senders[t]
  <2>1. CASE i = c
    BY <2>1, <1>3, <1>4, <1>6
  <2>2. CASE i # c
    BY <2>2, <1>6
  <2>3. QED
    BY <2>1, <2>2
<1>8. QED
  BY <1>6, <1>7 DEF D

(* A new connection, entered for its peer.                                  *)
WithPeer(R, k, p, n) == [R EXCEPT ![k].peers[p] = n]

LEMMA Entered ==
  ASSUME NEW R \in Seq(RoomRec), NEW k \in 1..Len(R), NEW p \in Sources, NEW n \in Nat
  PROVE  LET S == WithPeer(R, k, p, n) IN
         /\ S \in Seq(RoomRec) /\ Len(S) = Len(R)
         /\ \A o \in 1..Len(R) : o # k => S[o] = R[o]
         /\ S[k].lastDesired = R[k].lastDesired /\ S[k].wiring = R[k].wiring
         /\ S[k].received = R[k].received
         /\ \A q \in Sources : S[k].peers[q] = IF q = p THEN n ELSE R[k].peers[q]
<1> DEFINE r == [R[k] EXCEPT !.peers[p] = n]
           S == WithPeer(R, k, p, n)
<1>1. R[k] \in RoomRec
  OBVIOUS
<1>2. /\ r.peers = [R[k].peers EXCEPT ![p] = n]
      /\ r.lastDesired = R[k].lastDesired /\ r.wiring = R[k].wiring /\ r.received = R[k].received
  BY <1>1 DEF RoomRec
<1>3. r \in RoomRec
  BY <1>1 DEF RoomRec
<1>4. \A q \in Sources : r.peers[q] = IF q = p THEN n ELSE R[k].peers[q]
  BY <1>1, <1>2 DEF RoomRec
<1>5. S = [R EXCEPT ![k] = r]
  BY DEF WithPeer
<1> HIDE DEF r, S
<1>6. S \in Seq(RoomRec) /\ Len(S) = Len(R) /\ S[k] = r /\ \A o \in 1..Len(R) : o # k => S[o] = R[o]
  <2>1. R \in [1..Len(R) -> RoomRec] /\ Len(R) \in Nat
    OBVIOUS
  <2>2. S \in [1..Len(R) -> RoomRec] /\ S[k] = r /\ \A o \in 1..Len(R) : o # k => S[o] = R[o]
    BY <1>3, <1>5, <2>1
  <2>3. S \in Seq(RoomRec) /\ Len(S) = Len(R)
    BY <2>1, <2>2
  <2>4. QED
    BY <2>2, <2>3
<1>7. QED
  BY <1>2, <1>4, <1>6 DEF S

LEMMA Appended ==
  ASSUME NEW C \in Seq(ConnRec), NEW d \in ConnRec
  PROVE  /\ Append(C, d) \in Seq(ConnRec) /\ Len(Append(C, d)) = Len(C) + 1
         /\ Append(C, d)[Len(C) + 1] = d
         /\ \A i \in 1..Len(C) : Append(C, d)[i] = C[i]
OBVIOUS

(* The diff.                                                                *)
WithWiring(R, k, g, e) == [R EXCEPT ![k].wiring = g, ![k].lastDesired = e]

LEMMA Rewires ==
  ASSUME NEW R \in Seq(RoomRec), NEW k \in 1..Len(R), NEW g \in [Sources -> SUBSET Sources],
         NEW e \in [Sources -> SUBSET Sources]
  PROVE  LET S == WithWiring(R, k, g, e) IN
         /\ S \in Seq(RoomRec) /\ Len(S) = Len(R)
         /\ \A o \in 1..Len(R) : o # k => S[o] = R[o]
         /\ S[k].peers = R[k].peers /\ S[k].received = R[k].received
         /\ S[k].wiring = g /\ S[k].lastDesired = e
<1> DEFINE r == [R[k] EXCEPT !.wiring = g, !.lastDesired = e]
           S == WithWiring(R, k, g, e)
<1>1. R[k] \in RoomRec
  OBVIOUS
<1>2. r.wiring = g /\ r.lastDesired = e /\ r.peers = R[k].peers /\ r.received = R[k].received
  BY <1>1 DEF RoomRec
<1>3. r \in RoomRec
  BY <1>1 DEF RoomRec
<1>4. S = [R EXCEPT ![k] = r]
  BY DEF WithWiring
<1> HIDE DEF r, S
<1>5. S \in Seq(RoomRec) /\ Len(S) = Len(R) /\ S[k] = r /\ \A o \in 1..Len(R) : o # k => S[o] = R[o]
  <2>1. R \in [1..Len(R) -> RoomRec] /\ Len(R) \in Nat
    OBVIOUS
  <2>2. S \in [1..Len(R) -> RoomRec] /\ S[k] = r /\ \A o \in 1..Len(R) : o # k => S[o] = R[o]
    BY <1>3, <1>4, <2>1
  <2>3. S \in Seq(RoomRec) /\ Len(S) = Len(R)
    BY <2>1, <2>2
  <2>4. QED
    BY <2>2, <2>3
<1>6. QED
  BY <1>2, <1>5 DEF S

LEMMA PlanTyped ==
  ASSUME NEW plan \in SUBSET Edges
  PROVE  Desired(plan) \in [Sources -> SUBSET Sources] /\ Needed(plan) \in SUBSET Sources
         /\ \A s \in Sources : Desired(plan)[s] \subseteq Needed(plan)
<1>1. Desired(plan) \in [Sources -> SUBSET Sources]
  BY DEF Desired, Edges
<1>2. Upstream(plan) \in SUBSET Sources
  BY DEF Upstream, Edges
<1>3. UNION {Desired(plan)[s] : s \in Sources} \in SUBSET Sources
  BY <1>1
<1>4. \A s \in Sources : Desired(plan)[s] \subseteq UNION {Desired(plan)[t] : t \in Sources}
  BY Zenon
<1>5. QED
  BY <1>1, <1>2, <1>3, <1>4 DEF Needed

(* A goroutine with other work, the others as they were.                    *)
WithWork(x, v) == [worker EXCEPT ![x] = v]

LEMMA Works ==
  ASSUME worker \in [Workers -> WorkRec], NEW x \in Workers, NEW v \in WorkRec
  PROVE  /\ WithWork(x, v) \in [Workers -> WorkRec]
         /\ WithWork(x, v)[x] = v /\ \A y \in Workers \ {x} : WithWork(x, v)[y] = worker[y]
BY DEF WithWork

LEMMA WorkersStay ==
  ASSUME NEW m \in Nat, NEW n \in Nat, NEW i \in Nat, NEW j \in Nat, m <= i, n <= j,
         worker \in [Workers -> WorkRec], \A y \in Workers : WorkOK(worker[y], m, n),
         NEW x \in Workers, NEW v, WorkOK(v, i, j)
  PROVE  /\ WithWork(x, v) \in [Workers -> WorkRec]
         /\ \A y \in Workers : WorkOK(WithWork(x, v)[y], i, j)
<1>1. v \in WorkRec
  BY DEF WorkOK
<1>2. \A y \in Workers : WorkOK(worker[y], i, j)
  BY WorkStays
<1>3. QED
  BY <1>1, <1>2, Works

(* Steps that leave rooms and connections alone, but for opening a room.    *)
LEMMA NodeWorks ==
  ASSUME NodeInv, NEW x \in Workers, NEW v, worker' = WithWork(x, v),
         \/ rooms' = rooms /\ current' \in {0, current} /\ WorkOK(v, Len(rooms), Len(conns))
         \/ rooms' = Rooms /\ current' = RoomId /\ WorkOK(v, Len(Rooms), Len(conns)),
         conns' = conns, callbacks' \subseteq callbacks, arrived' = arrived, events' \in 0..MaxEvents
  PROVE  NodeInv'
<1>1. CASE rooms' = rooms /\ current' \in {0, current} /\ WorkOK(v, Len(rooms), Len(conns))
  <2>1. /\ worker' \in [Workers -> WorkRec]
        /\ \A y \in Workers : WorkOK(worker'[y], Len(rooms), Len(conns))
    BY <1>1, WorkersStay DEF NodeInv, NodeOK
  <2>2. QED
    BY <1>1, <2>1 DEF NodeInv, NodeOK
<1>2. CASE rooms' = Rooms /\ current' = RoomId /\ WorkOK(v, Len(Rooms), Len(conns))
  <2>1. NodeOK(Rooms, RoomId, conns, worker, callbacks, arrived)
    BY Opened
  <2>2. /\ worker' \in [Workers -> WorkRec]
        /\ \A y \in Workers : WorkOK(worker'[y], Len(Rooms), Len(conns))
    BY <1>2, <2>1, WorkersStay DEF NodeOK
  <2>3. QED
    BY <1>2, <2>1, <2>2 DEF NodeInv, NodeOK
<1>3. QED
  BY <1>1, <1>2
(* Each step of the node keeps it.                                          *)
LEMMA ReconcileKeeps ==
  ASSUME NodeInv, NEW x \in Workers, NEW plan \in Plans, Reconcile(x, plan)
  PROVE  NodeInv'
<1> DEFINE u == [NoWork EXCEPT !.room = RoomId, !.plan = plan, !.diff = TRUE, !.connect = Needed(plan)]
           l == [NoWork EXCEPT !.at = "list", !.room = RoomId]
           v == IF ServerPresent(plan) THEN Settle(u) ELSE l
<1>1. plan \in SUBSET Edges /\ Needed(plan) \in SUBSET Sources
  BY RelayAssumption, PlanTyped
<1>2. RoomId \in 1..Len(Rooms) /\ RoomId \in Nat /\ Len(Rooms) \in Nat /\ Len(conns) \in Nat
  BY Opened DEF NodeInv, NodeOK
<1>3. u \in WorkRec /\ u.job = <<>> /\ u.room = RoomId /\ u.send = {}
  BY <1>1, <1>2, NoWorkTyped, NoWorkFields DEF WorkRec
<1>4. WorkOK(l, Len(Rooms), Len(conns))
  <2>1. /\ l \in WorkRec /\ l.at = "list" /\ l.room = RoomId /\ l.job = <<>> /\ l.send = {}
    BY <1>2, NoWorkTyped, NoWorkFields DEF WorkRec
  <2>2. Len(l.job) # 3
    BY <2>1
  <2> HIDE DEF l
  <2>3. QED
    BY <1>2, <2>1, <2>2 DEF WorkOK
<1>5. worker' = WithWork(x, v)
  BY DEF Reconcile, WithWork
<1> HIDE DEF u, l
<1>6. WorkOK(Settle(u), Len(Rooms), Len(conns))
  BY <1>2, <1>3, WorkSettled
<1>7. WorkOK(v, Len(Rooms), Len(conns))
  BY <1>4, <1>6
<1>8. /\ rooms' = Rooms /\ current' = RoomId /\ conns' = conns /\ callbacks' = callbacks
      /\ arrived' = arrived /\ events' \in 0..MaxEvents
  BY RelayAssumption DEF Reconcile, Event, NodeInv
<1> HIDE DEF v
<1>9. QED
  BY <1>5, <1>7, <1>8, NodeWorks

LEMMA HandleSignalKeeps ==
  ASSUME NodeInv, NEW x \in Workers, NEW p \in Peers, HandleSignal(x, p)
  PROVE  NodeInv'
<1> DEFINE u == [NoWork EXCEPT !.connect = {p}]
<1>1. u \in WorkRec /\ u.job = <<>> /\ ~u.diff /\ u.send = {}
  BY NoWorkTyped DEF NoWork, WorkRec, Sources
<1>2. worker' = WithWork(x, Settle(u))
  BY DEF HandleSignal, WithWork
<1> HIDE DEF u
<1>3. WorkOK(Settle(u), Len(rooms), Len(conns))
  BY <1>1, WorkSettled DEF NodeInv, NodeOK
<1>4. /\ rooms' = rooms /\ current' = current /\ conns' = conns /\ callbacks' = callbacks
      /\ arrived' = arrived /\ events' \in 0..MaxEvents
  BY RelayAssumption DEF HandleSignal, Event, NodeInv
<1>5. QED
  BY <1>2, <1>3, <1>4, NodeWorks

LEMMA StateChangeKeeps ==
  ASSUME NodeInv, NEW x \in Workers, NEW c \in callbacks, StateChange(x, c)
  PROVE  NodeInv'
<1> DEFINE u == [NoWork EXCEPT !.drop = {conns[c].peer}]
<1>1. conns[c].peer \in Sources
  BY DEF NodeInv, NodeOK, ConnOK, ConnRec
<1>2. u \in WorkRec /\ u.job = <<>> /\ ~u.diff /\ u.send = {}
  BY <1>1, NoWorkTyped DEF NoWork, WorkRec
<1>3. worker' = WithWork(x, Settle(u))
  BY DEF StateChange, WithWork
<1> HIDE DEF u
<1>4. WorkOK(Settle(u), Len(rooms), Len(conns))
  BY <1>2, WorkSettled DEF NodeInv, NodeOK
<1>5. /\ rooms' = rooms /\ current' = current /\ conns' = conns /\ callbacks' \subseteq callbacks
      /\ arrived' = arrived /\ events' \in 0..MaxEvents
  BY DEF StateChange, NodeInv
<1>6. QED
  BY <1>3, <1>4, <1>5, NodeWorks

LEMMA ListPeersKeeps ==
  ASSUME NodeInv, NEW x \in Workers, ListPeers(x)
  PROVE  NodeInv'
<1> DEFINE w == worker[x]
           listed == {p \in Sources : rooms[w.room].peers[p] # 0}
           u == [w EXCEPT !.drop = listed, !.tear = TRUE]
<1>1. w \in WorkRec /\ WorkOK(w, Len(rooms), Len(conns)) /\ w.at = "list"
  BY DEF NodeInv, NodeOK, ListPeers
<1>2. u \in WorkRec /\ u.job = w.job /\ u.diff = w.diff /\ u.room = w.room /\ u.send = w.send
  BY <1>1 DEF WorkRec
<1>3. worker' = WithWork(x, Settle(u))
  BY DEF ListPeers, WithWork
<1>4. u.job = <<>> /\ (u.diff => u.room \in 1..Len(rooms)) /\ \A j \in u.send : j[3] \in 1..Len(conns)
  BY <1>1, <1>2 DEF WorkOK
<1> HIDE DEF u
<1>5. WorkOK(Settle(u), Len(rooms), Len(conns))
  BY <1>2, <1>4, WorkSettled DEF NodeInv, NodeOK
<1>6. /\ rooms' = rooms /\ current' = current /\ conns' = conns /\ callbacks' = callbacks
      /\ arrived' = arrived /\ events' \in 0..MaxEvents
  BY DEF ListPeers, NodeInv
<1>7. QED
  BY <1>3, <1>5, <1>6, NodeWorks

LEMMA DeleteRoomKeeps ==
  ASSUME NodeInv, NEW x \in Workers, DeleteRoom(x)
  PROVE  NodeInv'
<1>1. worker' = WithWork(x, NoWork)
  BY DEF DeleteRoom, WithWork
<1>2. WorkOK(NoWork, Len(rooms), Len(conns))
  BY NoWorkTyped DEF NoWork, WorkOK
<1>3. /\ rooms' = rooms /\ current' = 0 /\ conns' = conns /\ callbacks' = callbacks
      /\ arrived' = arrived /\ events' \in 0..MaxEvents
  BY DEF DeleteRoom, NodeInv
<1>4. QED
  BY <1>1, <1>2, <1>3, NodeWorks

LEMMA CreateFailsKeeps ==
  ASSUME NodeInv, NEW x \in Workers, CreateFails(x)
  PROVE  NodeInv'
<1> DEFINE w == worker[x]
           u == [w EXCEPT !.into = 0, !.job = <<>>]
<1>1. w \in WorkRec /\ WorkOK(w, Len(rooms), Len(conns)) /\ w.at = "create"
  BY DEF NodeInv, NodeOK, CreateFails
<1>2. u \in WorkRec /\ u.job = <<>> /\ u.diff = w.diff /\ u.room = w.room /\ u.send = w.send
  BY <1>1 DEF WorkRec, Jobs
<1>3. worker' = WithWork(x, Settle(u))
  BY DEF CreateFails, WithWork
<1>4. (u.diff => u.room \in 1..Len(rooms)) /\ \A j \in u.send : j[3] \in 1..Len(conns)
  BY <1>1, <1>2 DEF WorkOK
<1> HIDE DEF u
<1>5. WorkOK(Settle(u), Len(rooms), Len(conns))
  BY <1>2, <1>4, WorkSettled DEF NodeInv, NodeOK
<1>6. /\ rooms' = rooms /\ current' = current /\ conns' = conns /\ callbacks' = callbacks
      /\ arrived' = arrived /\ events' \in 0..MaxEvents
  BY DEF CreateFails, NodeInv
<1>7. QED
  BY <1>3, <1>5, <1>6, NodeWorks

LEMMA ConnectKeeps ==
  ASSUME NodeInv, NEW x \in Workers, NEW p \in Sources, Connect(x, p)
  PROVE  NodeInv'
<1> DEFINE w == worker[x]
           u == [w EXCEPT !.connect = @ \ {p}]
           d == [w EXCEPT !.at = "create", !.connect = @ \ {p}, !.into = RoomId, !.job = <<p>>]
           v == IF Rooms[RoomId].peers[p] # 0 THEN Settle(u) ELSE d
<1>1. w \in WorkRec /\ WorkOK(w, Len(Rooms), Len(conns)) /\ w.at = "connect"
  BY Opened DEF NodeOK, Connect
<1>2. RoomId \in 1..Len(Rooms) /\ Len(Rooms) \in Nat /\ Len(conns) \in Nat
  BY Opened DEF NodeInv, NodeOK
<1>3. u \in WorkRec /\ u.job = w.job /\ u.diff = w.diff /\ u.room = w.room /\ u.send = w.send
  BY <1>1 DEF WorkRec
<1>4. <<p>> \in Jobs /\ <<p>> # <<>> /\ Len(<<p>>) # 3
  BY DEF Jobs
<1>5. /\ d \in WorkRec /\ d.job = <<p>> /\ d.diff = w.diff /\ d.room = w.room /\ d.send = w.send
      /\ d.at = "create" /\ d.into = RoomId
  <2>1. RoomId \in Nat /\ w.connect \ {p} \in SUBSET Sources
    BY <1>1, <1>2 DEF WorkRec
  <2>2. d \in WorkRec
    BY <1>1, <1>4, <2>1 DEF WorkRec
  <2>3. QED
    BY <1>1, <2>2 DEF WorkRec
<1>6. worker' = WithWork(x, v)
  <2>1. CASE Rooms[RoomId].peers[p] # 0
    BY <2>1 DEF Connect, WithWork
  <2>2. CASE ~(Rooms[RoomId].peers[p] # 0)
    BY <2>2 DEF Connect, WithWork
  <2>3. QED
    BY <2>1, <2>2
<1>7. u.job = <<>> /\ (u.diff => u.room \in 1..Len(Rooms)) /\ \A j \in u.send : j[3] \in 1..Len(conns)
  BY <1>1, <1>3 DEF WorkOK
<1> HIDE DEF u, d, w
<1>8. WorkOK(Settle(u), Len(Rooms), Len(conns))
  BY <1>2, <1>3, <1>7, WorkSettled
<1>9. WorkOK(d, Len(Rooms), Len(conns))
  BY <1>1, <1>2, <1>4, <1>5 DEF WorkOK
<1>10. WorkOK(v, Len(Rooms), Len(conns))
  BY <1>8, <1>9
<1>11. /\ rooms' = Rooms /\ current' = RoomId /\ conns' = conns /\ callbacks' = callbacks
       /\ arrived' = arrived /\ events' \in 0..MaxEvents
  BY DEF Connect, NodeInv
<1> HIDE DEF v
<1>12. QED
  BY <1>6, <1>10, <1>11, NodeWorks

LEMMA ConnectionFailsKeeps ==
  ASSUME NodeInv, NEW c \in 1..Len(conns), ConnectionFails(c)
  PROVE  NodeInv'
BY RelayAssumption DEF ConnectionFails, Event, NodeInv, NodeOK
(* Steps that change rooms or connections.                                  *)
LEMMA NodeChanges ==
  ASSUME NEW R, NEW k, NodeOK(R, k, conns, worker, callbacks, arrived), events' \in 0..MaxEvents,
         rooms' \in Seq(RoomRec), conns' \in Seq(ConnRec), current' \in 0..Len(rooms'),
         Len(R) <= Len(rooms'), Len(conns) <= Len(conns'),
         \A o \in 1..Len(rooms') : RoomOK(rooms'[o], o, conns'),
         \A c \in 1..Len(conns') : ConnOK(conns'[c], Len(rooms'), Len(conns')),
         NEW x \in Workers, NEW v, worker' = WithWork(x, v), WorkOK(v, Len(rooms'), Len(conns')),
         callbacks' \subseteq 1..Len(conns'), arrived' \subseteq (1..Len(conns')) \X Sources
  PROVE  NodeInv'
<1>1. /\ Len(R) \in Nat /\ Len(rooms') \in Nat /\ Len(conns) \in Nat /\ Len(conns') \in Nat
      /\ worker \in [Workers -> WorkRec] /\ \A y \in Workers : WorkOK(worker[y], Len(R), Len(conns))
  BY DEF NodeOK
<1>2. /\ worker' \in [Workers -> WorkRec]
      /\ \A y \in Workers : WorkOK(worker'[y], Len(rooms'), Len(conns'))
  BY <1>1, WorkersStay
<1>3. QED
  BY <1>2 DEF NodeInv, NodeOK

DroppedConns(R, k, p) ==
  IF R[k].peers[p] = 0 THEN conns ELSE WithClosed(conns, R[k].peers[p])

LEMMA DropFacts ==
  ASSUME NEW R, NEW k \in 1..Len(R), NodeOK(R, k, conns, worker, callbacks, arrived), NEW p \in Sources
  PROVE  LET S == WithoutPeer(R, k, p)
             D == DroppedConns(R, k, p)
         IN  /\ S \in Seq(RoomRec) /\ Len(S) = Len(R) /\ D \in Seq(ConnRec) /\ Len(D) = Len(conns)
             /\ \A i \in 1..Len(conns) : /\ D[i].peer = conns[i].peer /\ D[i].room = conns[i].room
                                         /\ D[i].senders = conns[i].senders
                                         /\ D[i].open <=> conns[i].open /\ i # R[k].peers[p]
             /\ \A o \in 1..Len(R) : RoomOK(S[o], o, D)
             /\ \A i \in 1..Len(conns) : ConnOK(D[i], Len(S), Len(D))
<1> DEFINE S == WithoutPeer(R, k, p)
           D == DroppedConns(R, k, p)
           c == R[k].peers[p]
<1>1. /\ R \in Seq(RoomRec) /\ conns \in Seq(ConnRec) /\ Len(conns) \in Nat /\ Len(R) \in Nat
      /\ \A o \in 1..Len(R) : RoomOK(R[o], o, conns)
      /\ \A i \in 1..Len(conns) : ConnOK(conns[i], Len(R), Len(conns))
  BY DEF NodeOK
<1>2. RoomOK(R[k], k, conns) /\ R[k] \in RoomRec
  BY <1>1 DEF RoomOK
<1>3. c \in 0..Len(conns)
  BY <1>1, <1>2 DEF RoomOK, RoomRec
<1>4. /\ S \in Seq(RoomRec) /\ Len(S) = Len(R) /\ \A o \in 1..Len(R) : o # k => S[o] = R[o]
      /\ S[k].lastDesired = R[k].lastDesired
      /\ \A q \in Sources :
           /\ S[k].peers[q] = IF q = p THEN 0 ELSE R[k].peers[q]
           /\ S[k].received[q] = IF q = p THEN 0 ELSE R[k].received[q]
           /\ S[k].wiring[q] = R[k].wiring[q] \ {p}
  BY <1>1, Dropped
<1>5. /\ D \in Seq(ConnRec) /\ Len(D) = Len(conns)
      /\ \A i \in 1..Len(conns) : /\ D[i].peer = conns[i].peer /\ D[i].room = conns[i].room
                                  /\ D[i].senders = conns[i].senders
                                  /\ D[i].open <=> conns[i].open /\ i # c
  <2>1. CASE c = 0
    BY <2>1, <1>1 DEF DroppedConns
  <2>2. CASE c # 0
    BY <2>2, <1>1, <1>3, Closed DEF DroppedConns
  <2>3. QED
    BY <2>1, <2>2
<1>6. c # 0 => conns[c].peer = p /\ conns[c].room = k
  BY <1>2 DEF RoomOK
<1> HIDE DEF S, D, c
<1>7. ASSUME NEW o \in 1..Len(R)
      PROVE  RoomOK(S[o], o, D)
  <2>1. RoomOK(R[o], o, conns)
    BY <1>1
  <2>2. CASE o # k
    <3>1. \A q \in Sources : R[o].peers[q] # 0 => D[R[o].peers[q]].open
      <4> SUFFICES ASSUME NEW q \in Sources, R[o].peers[q] # 0 PROVE D[R[o].peers[q]].open
        OBVIOUS
      <4>1. R[o].peers[q] \in 1..Len(conns)
        BY <2>1, <1>1, RoomFields
      <4>2. conns[R[o].peers[q]].open /\ conns[R[o].peers[q]].room = o
        BY <2>1, <1>1, RoomFields
      <4>3. R[o].peers[q] # c
        BY <4>2, <2>2, <1>6
      <4>4. QED
        BY <4>1, <4>2, <4>3, <1>5
    <3>2. Len(conns) <= Len(D) /\ \A i \in 1..Len(conns) : D[i].peer = conns[i].peer /\ D[i].room = conns[i].room
      BY <1>1, <1>5
    <3>3. RoomOK(R[o], o, D)
      BY <3>1, <3>2, <2>1, <1>1, <1>5, RoomStays
    <3>4. QED
      BY <3>3, <2>2, <1>4
  <2>3. CASE o = k
    <3>1. S[k] \in RoomRec
      BY <1>4
    <3>2. \A t \in Sources : S[k].wiring[t] \subseteq S[k].lastDesired[t]
      BY <1>2, <1>4 DEF RoomOK
    <3>3. ASSUME NEW q \in Sources
          PROVE  /\ S[k].peers[q] <= Len(D) /\ S[k].received[q] <= Len(D)
                 /\ S[k].peers[q] # 0 => /\ D[S[k].peers[q]].open /\ D[S[k].peers[q]].peer = q
                                         /\ D[S[k].peers[q]].room = k
      <4>1. R[k].peers[q] \in 0..Len(conns) /\ R[k].received[q] \in 0..Len(conns)
        BY <1>1, <1>2, RoomFields
      <4>2. R[k].peers[q] # 0 => /\ conns[R[k].peers[q]].open /\ conns[R[k].peers[q]].peer = q
                                 /\ conns[R[k].peers[q]].room = k
        BY <1>2 DEF RoomOK
      <4>3. CASE q = p
        BY <4>3, <1>1, <1>4, <1>5
      <4>4. CASE q # p
        <5>1. S[k].peers[q] = R[k].peers[q] /\ S[k].received[q] = R[k].received[q]
          BY <4>4, <1>4
        <5>2. R[k].peers[q] # 0 => R[k].peers[q] # c
          BY <4>2, <4>4, <1>6
        <5>3. QED
          BY <4>1, <4>2, <5>1, <5>2, <1>5
      <4>5. QED
        BY <4>3, <4>4
    <3>4. QED
      BY <2>3, <3>1, <3>2, <3>3 DEF RoomOK
  <2>4. QED
    BY <2>2, <2>3
<1>8. \A i \in 1..Len(conns) : ConnOK(D[i], Len(S), Len(D))
  BY <1>1, <1>4, <1>5 DEF ConnOK
<1>9. QED
  BY <1>4, <1>5, <1>7, <1>8 DEF S, D, c

LEMMA DropPeerKeeps ==
  ASSUME NodeInv, NEW x \in Workers, NEW p \in Sources, DropPeer(x, p)
  PROVE  NodeInv'
<1> DEFINE w == worker[x]
           u == [w EXCEPT !.drop = @ \ {p}]
           c == Rooms[RoomId].peers[p]
<1>1. NodeOK(Rooms, RoomId, conns, worker, callbacks, arrived) /\ RoomId \in 1..Len(Rooms)
  BY Opened
<1>2. w \in WorkRec /\ WorkOK(w, Len(Rooms), Len(conns)) /\ w.at = "drop"
  BY <1>1 DEF NodeOK, DropPeer
<1>3. u \in WorkRec /\ u.job = w.job /\ u.diff = w.diff /\ u.room = w.room /\ u.send = w.send
  BY <1>2 DEF WorkRec
<1>4. /\ worker' = WithWork(x, Settle(u)) /\ rooms' = WithoutPeer(Rooms, RoomId, p)
      /\ current' = RoomId /\ arrived' = arrived
  BY DEF DropPeer, WithWork, WithoutPeer
<1>5. conns' = DroppedConns(Rooms, RoomId, p)
  BY DEF DropPeer, DroppedConns, WithClosed
<1>6. u.job = <<>> /\ (u.diff => u.room \in 1..Len(Rooms)) /\ \A j \in u.send : j[3] \in 1..Len(conns)
  BY <1>2, <1>3 DEF WorkOK
<1>7. Len(Rooms) \in Nat /\ Len(conns) \in Nat
  BY <1>1 DEF NodeOK
<1>8. callbacks' \subseteq 1..Len(conns)
  <2>1. c \in 0..Len(conns)
    BY <1>1, RoomFields DEF NodeOK
  <2>2. callbacks' = IF c = 0 THEN callbacks ELSE callbacks \cup {c}
    BY DEF DropPeer
  <2>3. callbacks \subseteq 1..Len(conns)
    BY DEF NodeInv, NodeOK
  <2> HIDE DEF c
  <2>4. QED
    BY <2>1, <2>2, <2>3, <1>7
<1> HIDE DEF u
<1>9. WorkOK(Settle(u), Len(Rooms), Len(conns))
  BY <1>3, <1>6, <1>7, WorkSettled
<1>10. /\ rooms' \in Seq(RoomRec) /\ Len(rooms') = Len(Rooms) /\ conns' \in Seq(ConnRec)
       /\ Len(conns') = Len(conns)
       /\ \A o \in 1..Len(Rooms) : RoomOK(rooms'[o], o, conns')
       /\ \A i \in 1..Len(conns) : ConnOK(conns'[i], Len(rooms'), Len(conns'))
  BY <1>1, <1>4, <1>5, DropFacts
<1>11. events' \in 0..MaxEvents /\ arrived \subseteq (1..Len(conns)) \X Sources
  BY DEF DropPeer, NodeInv, NodeOK
<1>12. QED
  BY <1>1, <1>4, <1>7, <1>8, <1>9, <1>10, <1>11, NodeChanges
(* Other senders leave the rooms as they should be.                         *)
LEMMA ResendFacts ==
  ASSUME NEW R, NEW k, NodeOK(R, k, conns, worker, callbacks, arrived),
         NEW c \in 1..Len(conns), NEW s \in Sources, NEW T \in SUBSET (1..Len(conns))
  PROVE  LET D == WithSenders(conns, c, s, T)
         IN  /\ D \in Seq(ConnRec) /\ Len(D) = Len(conns)
             /\ \A i \in 1..Len(conns) : D[i].peer = conns[i].peer /\ D[i].room = conns[i].room
                                        /\ D[i].open = conns[i].open
             /\ \A i \in 1..Len(conns), t \in Sources :
                  D[i].senders[t] = IF i = c /\ t = s THEN T ELSE conns[i].senders[t]
             /\ \A o \in 1..Len(R) : RoomOK(R[o], o, D)
             /\ \A i \in 1..Len(conns) : ConnOK(D[i], Len(R), Len(D))
<1> DEFINE D == WithSenders(conns, c, s, T)
<1>1. /\ R \in Seq(RoomRec) /\ conns \in Seq(ConnRec) /\ Len(conns) \in Nat /\ Len(R) \in Nat
      /\ \A o \in 1..Len(R) : RoomOK(R[o], o, conns)
      /\ \A i \in 1..Len(conns) : ConnOK(conns[i], Len(R), Len(conns))
  BY DEF NodeOK
<1>2. T \in SUBSET Nat
  BY <1>1
<1>3. /\ D \in Seq(ConnRec) /\ Len(D) = Len(conns)
      /\ \A i \in 1..Len(conns) : D[i].peer = conns[i].peer /\ D[i].room = conns[i].room
                                 /\ D[i].open = conns[i].open
      /\ \A i \in 1..Len(conns), t \in Sources :
           D[i].senders[t] = IF i = c /\ t = s THEN T ELSE conns[i].senders[t]
  BY <1>1, <1>2, Resent
<1> HIDE DEF D
<1>4. ASSUME NEW o \in 1..Len(R)
      PROVE  RoomOK(R[o], o, D)
  <2>1. RoomOK(R[o], o, conns)
    BY <1>1
  <2>2. \A q \in Sources : R[o].peers[q] # 0 => D[R[o].peers[q]].open
    BY <2>1, <1>1, <1>3, RoomFields
  <2>3. Len(conns) <= Len(D) /\ \A i \in 1..Len(conns) : D[i].peer = conns[i].peer /\ D[i].room = conns[i].room
    BY <1>1, <1>3
  <2>4. QED
    BY <2>1, <2>2, <2>3, <1>1, <1>3, RoomStays
<1>5. ASSUME NEW i \in 1..Len(conns)
      PROVE  ConnOK(D[i], Len(R), Len(D))
  <2>1. D[i] \in ConnRec /\ D[i].room = conns[i].room
    BY <1>3
  <2>2. conns[i].room \in 1..Len(R) /\ \A t \in Sources : conns[i].senders[t] \subseteq 1..Len(conns)
    BY <1>1 DEF ConnOK
  <2>3. \A t \in Sources : D[i].senders[t] \subseteq 1..Len(conns)
    BY <2>2, <1>3
  <2>4. QED
    BY <2>1, <2>2, <2>3, <1>3 DEF ConnOK
<1>6. QED
  BY <1>3, <1>4, <1>5 DEF D

LEMMA StopSourceKeeps ==
  ASSUME NodeInv, NEW x \in Workers, NEW job \in worker[x].stop, StopSource(x, job)
  PROVE  NodeInv'
<1> DEFINE w == worker[x]
           u == [w EXCEPT !.stop = @ \ {job}]
           c == Rooms[RoomId].peers[job[1]]
<1>1. NodeOK(Rooms, RoomId, conns, worker, callbacks, arrived) /\ RoomId \in 1..Len(Rooms)
  BY Opened
<1>2. w \in WorkRec /\ WorkOK(w, Len(Rooms), Len(conns)) /\ w.at = "stop"
  BY <1>1 DEF NodeOK, StopSource
<1>3. u \in WorkRec /\ u.job = w.job /\ u.diff = w.diff /\ u.room = w.room /\ u.send = w.send
  BY <1>2 DEF WorkRec
<1>4. job[1] \in Sources /\ job[2] \in Sources
  BY <1>2 DEF WorkRec
<1>5. /\ worker' = WithWork(x, Settle(u)) /\ rooms' = Rooms /\ current' = RoomId
      /\ arrived' = arrived /\ callbacks' = callbacks /\ events' = events
  BY DEF StopSource, WithWork
<1>6. conns' = IF c = 0 THEN conns ELSE WithSenders(conns, c, job[2], {})
  BY DEF StopSource, WithSenders
<1>7. u.job = <<>> /\ (u.diff => u.room \in 1..Len(Rooms)) /\ \A j \in u.send : j[3] \in 1..Len(conns)
  BY <1>2, <1>3 DEF WorkOK
<1>8. /\ Len(Rooms) \in Nat /\ Len(conns) \in Nat /\ Rooms \in Seq(RoomRec) /\ conns \in Seq(ConnRec)
      /\ callbacks \subseteq 1..Len(conns) /\ arrived \subseteq (1..Len(conns)) \X Sources
      /\ events \in 0..MaxEvents
  BY <1>1 DEF NodeOK, NodeInv
<1>9. c \in 0..Len(conns)
  BY <1>1, <1>4, RoomFields DEF NodeOK
<1> HIDE DEF u, c
<1>10. WorkOK(Settle(u), Len(Rooms), Len(conns))
  BY <1>3, <1>7, <1>8, WorkSettled
<1>11. CASE c = 0
  BY <1>11, <1>5, <1>6, <1>10, <1>8, NodeWorks
<1>12. CASE c # 0
  <2>1. /\ conns' \in Seq(ConnRec) /\ Len(conns') = Len(conns)
        /\ \A o \in 1..Len(Rooms) : RoomOK(Rooms[o], o, conns')
        /\ \A i \in 1..Len(conns) : ConnOK(conns'[i], Len(Rooms), Len(conns'))
    BY <1>12, <1>1, <1>4, <1>6, <1>9, <1>8, ResendFacts
  <2>2. QED
    BY <2>1, <1>1, <1>5, <1>8, <1>10, NodeChanges
<1>13. QED
  BY <1>11, <1>12

LEMMA SendTrackKeeps ==
  ASSUME NodeInv, NEW x \in Workers, NEW job \in worker[x].send, SendTrack(x, job)
  PROVE  NodeInv'
<1> DEFINE w == worker[x]
           u == [w EXCEPT !.send = @ \ {job}]
           d == [w EXCEPT !.at = "create", !.send = @ \ {job}, !.into = RoomId, !.job = job]
           c == Rooms[RoomId].peers[job[1]]
<1>1. NodeOK(Rooms, RoomId, conns, worker, callbacks, arrived) /\ RoomId \in 1..Len(Rooms)
  BY Opened
<1>2. w \in WorkRec /\ WorkOK(w, Len(Rooms), Len(conns)) /\ w.at = "send"
  BY <1>1 DEF NodeOK, SendTrack
<1>3. /\ Len(Rooms) \in Nat /\ Len(conns) \in Nat /\ Rooms \in Seq(RoomRec) /\ conns \in Seq(ConnRec)
      /\ callbacks \subseteq 1..Len(conns) /\ arrived \subseteq (1..Len(conns)) \X Sources
      /\ events \in 0..MaxEvents /\ RoomId \in Nat
  BY <1>1 DEF NodeOK, NodeInv
<1>4. job[1] \in Sources /\ job[2] \in Sources /\ job \in Sources \X Sources \X Nat /\ job \in Jobs
      /\ job # <<>> /\ job[3] \in 1..Len(conns)
  <2>1. job \in Sources \X Sources \X Nat
    BY <1>2 DEF WorkRec
  <2>2. job[3] \in 1..Len(conns)
    BY <1>2 DEF WorkOK
  <2>3. job[1] \in Sources /\ job[2] \in Sources /\ Len(job) = 3
    BY <2>1
  <2>4. job \in Jobs
    BY <2>1 DEF Jobs
  <2>5. job # <<>>
    <3>1. Len(<<>>) = 0
      OBVIOUS
    <3>2. Len(job) # Len(<<>>)
      BY <2>3, <3>1
    <3>3. QED
      BY <3>2, Zenon
  <2>6. QED
    BY <2>1, <2>2, <2>3, <2>4, <2>5
<1>5. w.send \ {job} \in SUBSET (Sources \X Sources \X Nat)
  BY <1>2 DEF WorkRec
<1>6. u \in WorkRec
  BY <1>2, <1>5 DEF WorkRec
<1>7. u.job = w.job /\ u.diff = w.diff /\ u.room = w.room /\ u.send = w.send \ {job}
  BY <1>2 DEF WorkRec
<1>8. d \in WorkRec
  BY <1>2, <1>3, <1>4, <1>5 DEF WorkRec
<1>9. d.job = job /\ d.diff = w.diff /\ d.room = w.room /\ d.send = w.send \ {job} /\ d.at = "create"
      /\ d.into = RoomId
  BY <1>2 DEF WorkRec
<1>10. u.job = <<>> /\ (w.diff => w.room \in 1..Len(Rooms)) /\ \A j \in w.send : j[3] \in 1..Len(conns)
  BY <1>2, <1>7 DEF WorkOK
<1>11. c \in 0..Len(conns) /\ (c # 0 => conns[c].open)
  BY <1>1, <1>3, <1>4, RoomFields DEF NodeOK
<1>12. /\ rooms' = Rooms /\ current' = RoomId
       /\ arrived' = arrived /\ callbacks' = callbacks /\ events' = events
  BY DEF SendTrack
<1>13. c # 0 => /\ worker' = WithWork(x, Settle(u))
                /\ conns' = WithSenders(conns, c, job[2], conns[c].senders[job[2]] \cup {job[3]})
  BY <1>11 DEF SendTrack, WithWork, WithSenders
<1>14. c = 0 => worker' = WithWork(x, d) /\ conns' = conns
  BY DEF SendTrack, WithWork
<1> HIDE DEF u, c, d
<1>15. WorkOK(Settle(u), Len(Rooms), Len(conns))
  BY <1>3, <1>6, <1>7, <1>10, WorkSettled
<1>16. WorkOK(d, Len(Rooms), Len(conns))
  BY <1>1, <1>4, <1>8, <1>9, <1>10 DEF WorkOK
<1>17. CASE c = 0
  BY <1>17, <1>3, <1>12, <1>14, <1>16, NodeWorks
<1>18. CASE c # 0
  <2> DEFINE T == conns[c].senders[job[2]] \cup {job[3]}
  <2>1. c \in 1..Len(conns) /\ T \in SUBSET (1..Len(conns))
    BY <1>18, <1>1, <1>4, <1>11, <1>3 DEF NodeOK, ConnOK
  <2>2. conns' = WithSenders(conns, c, job[2], T)
    BY <1>13, <1>18
  <2> HIDE DEF T
  <2>3. /\ conns' \in Seq(ConnRec) /\ Len(conns') = Len(conns)
        /\ \A o \in 1..Len(Rooms) : RoomOK(Rooms[o], o, conns')
        /\ \A i \in 1..Len(conns) : ConnOK(conns'[i], Len(Rooms), Len(conns'))
    BY <2>1, <2>2, <1>1, <1>4, <1>3, ResendFacts
  <2>4. worker' = WithWork(x, Settle(u))
    BY <1>13, <1>18
  <2>5. QED
    BY <2>3, <2>4, <1>1, <1>3, <1>12, <1>15, NodeChanges
<1>19. QED
  BY <1>17, <1>18
(* A new connection takes its peer's place in the room it was made for.     *)
EnterFactsOf(k, p, senders) ==
  LET S == WithPeer(rooms, k, p, Len(conns) + 1)
      D == Append(conns, NewConn(p, k, senders))
  IN  /\ S \in Seq(RoomRec) /\ Len(S) = Len(rooms) /\ D \in Seq(ConnRec) /\ Len(D) = Len(conns) + 1
      /\ D[Len(conns) + 1] = NewConn(p, k, senders)
      /\ \A i \in 1..Len(conns) : D[i] = conns[i]
      /\ \A o \in 1..Len(rooms) : o # k => S[o] = rooms[o]
      /\ S[k].lastDesired = rooms[k].lastDesired /\ S[k].wiring = rooms[k].wiring
      /\ S[k].received = rooms[k].received
      /\ \A q \in Sources : S[k].peers[q] = IF q = p THEN Len(conns) + 1 ELSE rooms[k].peers[q]

LEMMA EnterFacts ==
  ASSUME NodeInv, NEW k \in 1..Len(rooms), NEW p \in Sources,
         NEW senders \in [Sources -> SUBSET (1..Len(conns))]
  PROVE  LET S == WithPeer(rooms, k, p, Len(conns) + 1)
             D == Append(conns, NewConn(p, k, senders))
         IN  /\ EnterFactsOf(k, p, senders)
             /\ \A o \in 1..Len(rooms) : RoomOK(S[o], o, D)
             /\ \A i \in 1..Len(D) : ConnOK(D[i], Len(S), Len(D))
<1> DEFINE S == WithPeer(rooms, k, p, Len(conns) + 1)
           d == NewConn(p, k, senders)
           D == Append(conns, d)
           n == Len(conns) + 1
<1>1. /\ rooms \in Seq(RoomRec) /\ conns \in Seq(ConnRec) /\ Len(conns) \in Nat /\ Len(rooms) \in Nat
      /\ \A o \in 1..Len(rooms) : RoomOK(rooms[o], o, conns)
      /\ \A i \in 1..Len(conns) : ConnOK(conns[i], Len(rooms), Len(conns))
  BY DEF NodeInv, NodeOK
<1>2. senders \in [Sources -> SUBSET Nat]
  BY <1>1
<1>3. d \in ConnRec /\ d.peer = p /\ d.room = k /\ d.open /\ d.senders = senders
  BY <1>1, <1>2 DEF NewConn, ConnRec
<1> HIDE DEF d
<1>4. D \in Seq(ConnRec) /\ Len(D) = n /\ D[n] = d /\ \A i \in 1..Len(conns) : D[i] = conns[i]
  BY <1>1, <1>3, Appended
<1>5. n \in Nat /\ n \in 1..n /\ \A i \in 1..n : i = n \/ i \in 1..Len(conns)
  BY <1>1
<1>6. /\ S \in Seq(RoomRec) /\ Len(S) = Len(rooms) /\ \A o \in 1..Len(rooms) : o # k => S[o] = rooms[o]
      /\ S[k].lastDesired = rooms[k].lastDesired /\ S[k].wiring = rooms[k].wiring
      /\ S[k].received = rooms[k].received
      /\ \A q \in Sources : S[k].peers[q] = IF q = p THEN n ELSE rooms[k].peers[q]
  BY <1>1, <1>5, Entered
<1>7. EnterFactsOf(k, p, senders)
  BY <1>4, <1>6 DEF EnterFactsOf, d
<1> HIDE DEF S, D
<1>8. ASSUME NEW o \in 1..Len(rooms)
      PROVE  RoomOK(S[o], o, D)
  <2>1. RoomOK(rooms[o], o, conns)
    BY <1>1
  <2>2. RoomOK(rooms[o], o, D)
    <3>1. \A q \in Sources : rooms[o].peers[q] # 0 => D[rooms[o].peers[q]].open
      BY <2>1, <1>1, <1>4, RoomFields
    <3>2. Len(conns) <= Len(D) /\ \A i \in 1..Len(conns) : D[i].peer = conns[i].peer /\ D[i].room = conns[i].room
      BY <1>1, <1>4
    <3>3. QED
      BY <3>1, <3>2, <2>1, <1>1, <1>4, RoomStays
  <2>3. CASE o # k
    BY <2>2, <2>3, <1>6
  <2>4. CASE o = k
    <3>1. \A t \in Sources : S[k].wiring[t] \subseteq S[k].lastDesired[t]
      BY <2>2, <2>4, <1>4, <1>6, RoomFields
    <3>2. ASSUME NEW q \in Sources
          PROVE  /\ S[k].peers[q] <= Len(D) /\ S[k].received[q] <= Len(D)
                 /\ S[k].peers[q] # 0 => /\ D[S[k].peers[q]].open /\ D[S[k].peers[q]].peer = q
                                         /\ D[S[k].peers[q]].room = k
      <4>1. /\ rooms[k].peers[q] \in 0..Len(D) /\ rooms[k].received[q] \in 0..Len(D)
            /\ rooms[k].peers[q] # 0 => /\ D[rooms[k].peers[q]].open /\ D[rooms[k].peers[q]].peer = q
                                         /\ D[rooms[k].peers[q]].room = k
        BY <2>2, <2>4, <1>4, RoomFields
      <4>2. CASE q = p
        BY <4>1, <4>2, <1>3, <1>4, <1>5, <1>6
      <4>3. CASE q # p
        BY <4>1, <4>3, <1>6
      <4>4. QED
        BY <4>2, <4>3
    <3>3. QED
      BY <2>4, <3>1, <3>2, <1>6 DEF RoomOK
  <2>5. QED
    BY <2>3, <2>4
<1>9. ASSUME NEW i \in 1..Len(D)
      PROVE  ConnOK(D[i], Len(S), Len(D))
  <2>1. CASE i = n
    <3>1. \A t \in Sources : senders[t] \subseteq 1..n
      BY <1>1
    <3>2. QED
      BY <2>1, <3>1, <1>3, <1>4, <1>6 DEF ConnOK
  <2>2. CASE i \in 1..Len(conns)
    BY <2>2, <1>1, <1>4, <1>6 DEF ConnOK
  <2>3. QED
    BY <2>1, <2>2, <1>4, <1>5
<1>10. QED
  BY <1>7, <1>8, <1>9, <1>4, <1>6 DEF S, D, d

(* What sendTrack's new connection sends.                                   *)
FirstSenders(job) ==
  IF Len(job) = 1 THEN NoSenders ELSE [NoSenders EXCEPT ![job[2]] = {job[3]}]

LEMMA FirstSendersTyped ==
  ASSUME NEW n \in Nat, NEW job \in Jobs, job # <<>>, Len(job) = 3 => job[3] \in 1..n
  PROVE  /\ FirstSenders(job) \in [Sources -> SUBSET (1..n)]
         /\ \A s \in Sources : FirstSenders(job)[s] = IF Len(job) = 3 /\ s = job[2] THEN {job[3]} ELSE {}
<1>1. Len(job) = 1 \/ (Len(job) = 3 /\ job \in Sources \X Sources \X Nat)
  BY JobFacts
<1>2. CASE Len(job) = 1
  BY <1>2 DEF FirstSenders, NoSenders
<1>3. CASE Len(job) = 3 /\ job \in Sources \X Sources \X Nat
  <2>1. job[2] \in Sources /\ {job[3]} \in SUBSET (1..n)
    BY <1>3
  <2>2. FirstSenders(job) = [NoSenders EXCEPT ![job[2]] = {job[3]}]
    BY <1>3 DEF FirstSenders
  <2>3. NoSenders \in [Sources -> SUBSET (1..n)] /\ \A s \in Sources : NoSenders[s] = {}
    BY DEF NoSenders
  <2>4. QED
    BY <1>3, <2>1, <2>2, <2>3
<1>4. QED
  BY <1>1, <1>2, <1>3

LEMMA CreateConnKeeps ==
  ASSUME NodeInv, NEW x \in Workers, CreateConn(x)
  PROVE  NodeInv'
<1> DEFINE w == worker[x]
           u == [w EXCEPT !.into = 0, !.job = <<>>]
           p == w.job[1]
           senders == FirstSenders(w.job)
<1>1. NodeOK(rooms, current, conns, worker, callbacks, arrived)
  BY DEF NodeInv
<1>2. w \in WorkRec /\ WorkOK(w, Len(rooms), Len(conns)) /\ w.at = "create"
  BY <1>1 DEF NodeOK, CreateConn
<1>3. w.into \in 1..Len(rooms) /\ w.job # <<>> /\ w.job \in Jobs /\ (Len(w.job) = 3 => w.job[3] \in 1..Len(conns))
  BY <1>2 DEF WorkOK, WorkRec
<1>4. /\ Len(rooms) \in Nat /\ Len(conns) \in Nat /\ rooms \in Seq(RoomRec) /\ conns \in Seq(ConnRec)
      /\ callbacks \subseteq 1..Len(conns) /\ arrived \subseteq (1..Len(conns)) \X Sources
      /\ events \in 0..MaxEvents /\ current \in 0..Len(rooms)
  BY DEF NodeOK, NodeInv
<1>5. p \in Sources
  BY <1>3, JobFacts
<1>6. senders \in [Sources -> SUBSET (1..Len(conns))]
  BY <1>3, <1>4, FirstSendersTyped
<1>7. u \in WorkRec /\ u.job = <<>> /\ u.diff = w.diff /\ u.room = w.room /\ u.send = w.send
  BY <1>2 DEF WorkRec, Jobs
<1>8. /\ worker' = WithWork(x, Settle(u)) /\ rooms' = WithPeer(rooms, w.into, p, Len(conns) + 1)
      /\ conns' = Append(conns, NewConn(p, w.into, senders))
      /\ current' = current /\ arrived' = arrived /\ callbacks' = callbacks /\ events' = events
  BY DEF CreateConn, WithWork, WithPeer, FirstSenders
<1>9. (u.diff => u.room \in 1..Len(rooms)) /\ \A j \in u.send : j[3] \in 1..Len(conns)
  BY <1>2, <1>7 DEF WorkOK
<1> HIDE DEF u, senders, p
<1>10. WorkOK(Settle(u), Len(rooms), Len(conns))
  BY <1>7, <1>9, <1>4, WorkSettled
<1>11. /\ rooms' \in Seq(RoomRec) /\ Len(rooms') = Len(rooms) /\ conns' \in Seq(ConnRec)
       /\ Len(conns') = Len(conns) + 1
       /\ \A o \in 1..Len(rooms) : RoomOK(rooms'[o], o, conns')
       /\ \A i \in 1..Len(conns') : ConnOK(conns'[i], Len(rooms'), Len(conns'))
  BY <1>3, <1>5, <1>6, <1>8, EnterFacts DEF EnterFactsOf
<1>12. WorkOK(Settle(u), Len(rooms'), Len(conns'))
  BY <1>10, <1>11, <1>4, WorkStays
<1>13. callbacks' \subseteq 1..Len(conns') /\ arrived' \subseteq (1..Len(conns')) \X Sources
  <2>1. 1..Len(conns) \subseteq 1..Len(conns')
    BY <1>4, <1>11
  <2>2. QED
    BY <2>1, <1>4, <1>8
<1>14. QED
  BY <1>1, <1>4, <1>8, <1>11, <1>12, <1>13, NodeChanges
(* A track that came in reaches who wants it.                               *)
WithTrack(R, k, s, n, T) == [R EXCEPT ![k].received[s] = n, ![k].wiring[s] = @ \cup T]

LEMMA TrackFacts ==
  ASSUME NodeInv, NEW c \in 1..Len(conns), NEW s \in Sources
  PROVE  LET k == conns[c].room
             T == rooms[k].lastDesired[s] \ rooms[k].wiring[s]
             S == WithTrack(rooms, k, s, c, T)
         IN  /\ k \in 1..Len(rooms) /\ T \in SUBSET Sources
             /\ S \in Seq(RoomRec) /\ Len(S) = Len(rooms)
             /\ \A o \in 1..Len(rooms) : o # k => S[o] = rooms[o]
             /\ S[k].peers = rooms[k].peers /\ S[k].lastDesired = rooms[k].lastDesired
             /\ \A t \in Sources :
                  /\ S[k].received[t] = IF t = s THEN c ELSE rooms[k].received[t]
                  /\ S[k].wiring[t] = IF t = s THEN rooms[k].wiring[s] \cup T ELSE rooms[k].wiring[t]
             /\ \A o \in 1..Len(rooms) : RoomOK(S[o], o, conns)
<1> DEFINE k == conns[c].room
           T == rooms[k].lastDesired[s] \ rooms[k].wiring[s]
           S == WithTrack(rooms, k, s, c, T)
<1>1. /\ rooms \in Seq(RoomRec) /\ conns \in Seq(ConnRec) /\ Len(conns) \in Nat /\ Len(rooms) \in Nat
      /\ \A o \in 1..Len(rooms) : RoomOK(rooms[o], o, conns)
      /\ \A i \in 1..Len(conns) : ConnOK(conns[i], Len(rooms), Len(conns))
  BY DEF NodeInv, NodeOK
<1>2. k \in 1..Len(rooms)
  BY <1>1 DEF ConnOK
<1>3. RoomOK(rooms[k], k, conns)
  BY <1>1, <1>2
<1>4. T \in SUBSET Sources /\ c \in Nat
  BY <1>1, <1>3, RoomFields
<1>5. /\ S \in Seq(RoomRec) /\ Len(S) = Len(rooms)
      /\ \A o \in 1..Len(rooms) : o # k => S[o] = rooms[o]
      /\ S[k].peers = rooms[k].peers /\ S[k].lastDesired = rooms[k].lastDesired
      /\ \A t \in Sources :
           /\ S[k].received[t] = IF t = s THEN c ELSE rooms[k].received[t]
           /\ S[k].wiring[t] = IF t = s THEN rooms[k].wiring[s] \cup T ELSE rooms[k].wiring[t]
  <2> HIDE DEF T, k
  <2> DEFINE r == [rooms[k] EXCEPT !.received[s] = c, !.wiring[s] = @ \cup T]
  <2>1. rooms[k] \in RoomRec
    BY <1>1, <1>2
  <2>2. /\ r.received = [rooms[k].received EXCEPT ![s] = c]
        /\ r.wiring = [rooms[k].wiring EXCEPT ![s] = rooms[k].wiring[s] \cup T]
        /\ r.peers = rooms[k].peers /\ r.lastDesired = rooms[k].lastDesired
    BY <2>1 DEF RoomRec
  <2>3. rooms[k].wiring \in [Sources -> SUBSET Sources] /\ rooms[k].wiring[s] \cup T \in SUBSET Sources
    BY <2>1, <1>4 DEF RoomRec
  <2>4. r \in RoomRec
    BY <2>1, <2>3, <1>4 DEF RoomRec
  <2>5. \A t \in Sources :
           /\ r.received[t] = IF t = s THEN c ELSE rooms[k].received[t]
           /\ r.wiring[t] = IF t = s THEN rooms[k].wiring[s] \cup T ELSE rooms[k].wiring[t]
    BY <2>1, <2>2, <2>3 DEF RoomRec
  <2>6. S = [rooms EXCEPT ![k] = r]
    BY DEF WithTrack
  <2> HIDE DEF r, S
  <2>7. rooms \in [1..Len(rooms) -> RoomRec]
    BY <1>1
  <2>8. S \in [1..Len(rooms) -> RoomRec] /\ S[k] = r /\ \A o \in 1..Len(rooms) : o # k => S[o] = rooms[o]
    BY <1>2, <2>4, <2>6, <2>7
  <2>9. S \in Seq(RoomRec) /\ Len(S) = Len(rooms)
    BY <1>1, <2>8
  <2>10. QED
    BY <2>2, <2>5, <2>8, <2>9
<1>6. rooms[k].wiring[s] \cup T \subseteq rooms[k].lastDesired[s]
  BY <1>1, <1>3, RoomFields
<1> HIDE DEF S, T, k
<1>7. ASSUME NEW o \in 1..Len(rooms)
      PROVE  RoomOK(S[o], o, conns)
  <2>1. CASE o # k
    BY <2>1, <1>1, <1>5
  <2>2. CASE o = k
    <3>1. ASSUME NEW q \in Sources
          PROVE  /\ S[k].wiring[q] \subseteq S[k].lastDesired[q]
                 /\ S[k].peers[q] <= Len(conns) /\ S[k].received[q] <= Len(conns)
                 /\ S[k].peers[q] # 0 => /\ conns[S[k].peers[q]].open /\ conns[S[k].peers[q]].peer = q
                                         /\ conns[S[k].peers[q]].room = k
      <4>1. /\ rooms[k].wiring[q] \subseteq rooms[k].lastDesired[q]
            /\ rooms[k].peers[q] \in 0..Len(conns) /\ rooms[k].received[q] \in 0..Len(conns)
            /\ rooms[k].peers[q] # 0 => /\ conns[rooms[k].peers[q]].open /\ conns[rooms[k].peers[q]].peer = q
                                        /\ conns[rooms[k].peers[q]].room = k
        BY <1>1, <1>3, RoomFields
      <4>2. S[k].wiring[q] \subseteq S[k].lastDesired[q]
        BY <4>1, <1>5, <1>6
      <4>3. S[k].peers[q] = rooms[k].peers[q] /\ S[k].peers[q] <= Len(conns)
        BY <4>1, <1>1, <1>5
      <4>4. S[k].received[q] <= Len(conns)
        BY <4>1, <1>1, <1>5
      <4> QED BY <4>1, <4>2, <4>3, <4>4
    <3>2. QED
      BY <2>2, <3>1, <1>2, <1>5 DEF RoomOK
  <2>3. QED
    BY <2>1, <2>2
<1>8. QED
  BY <1>2, <1>4, <1>5, <1>7 DEF S, T, k

LEMMA TrackArrivesKeeps ==
  ASSUME NodeInv, NEW x \in Workers, NEW c \in 1..Len(conns), NEW s \in Sources, TrackArrives(x, c, s)
  PROVE  NodeInv'
<1> DEFINE k == conns[c].room
           T == rooms[k].lastDesired[s] \ rooms[k].wiring[s]
           u == [NoWork EXCEPT !.send = {<<child, s, c>> : child \in T}]
<1>1. NodeOK(rooms, current, conns, worker, callbacks, arrived)
  BY DEF NodeInv
<1>2. /\ Len(rooms) \in Nat /\ Len(conns) \in Nat /\ conns \in Seq(ConnRec) /\ current \in 0..Len(rooms)
      /\ \A i \in 1..Len(conns) : ConnOK(conns[i], Len(rooms), Len(conns))
      /\ callbacks \subseteq 1..Len(conns) /\ arrived \subseteq (1..Len(conns)) \X Sources
  BY <1>1 DEF NodeOK
<1>3. T \in SUBSET Sources
  BY TrackFacts
<1>4. {<<child, s, c>> : child \in T} \in SUBSET (Sources \X Sources \X Nat)
  BY <1>2, <1>3
<1>5. u \in WorkRec /\ u.job = <<>> /\ ~u.diff /\ u.send = {<<child, s, c>> : child \in T}
  BY <1>4, NoWorkTyped, NoWorkFields DEF WorkRec
<1>6. \A j \in u.send : j[3] \in 1..Len(conns)
  BY <1>5
<1>7. /\ rooms' = WithTrack(rooms, k, s, c, T) /\ conns' = conns /\ current' = current
      /\ callbacks' = callbacks /\ arrived' = arrived \cup {<<c, s>>} /\ worker' = WithWork(x, Settle(u))
  BY DEF TrackArrives, WithTrack, WithWork
<1>8. events' \in 0..MaxEvents
  BY RelayAssumption DEF TrackArrives, Event, NodeInv
<1> HIDE DEF u, T, k
<1>9. WorkOK(Settle(u), Len(rooms), Len(conns))
  BY <1>2, <1>5, <1>6, WorkSettled
<1>10. /\ rooms' \in Seq(RoomRec) /\ Len(rooms') = Len(rooms)
       /\ \A o \in 1..Len(rooms) : RoomOK(rooms'[o], o, conns)
  BY <1>7, TrackFacts DEF T, k
<1>11. QED
  BY <1>1, <1>2, <1>7, <1>8, <1>9, <1>10, NodeChanges

(* The diff decides what is sent and what is not any more.                  *)
NewWiring(r, plan) == [s \in Sources |-> Rewired(r, Desired(plan), s)]

LEMMA DiffFacts ==
  ASSUME NodeInv, NEW k \in 1..Len(rooms), NEW plan \in SUBSET Edges
  PROVE  LET g == NewWiring(rooms[k], plan)
             S == WithWiring(rooms, k, g, Desired(plan))
         IN  /\ S \in Seq(RoomRec) /\ Len(S) = Len(rooms)
             /\ g \in [Sources -> SUBSET Sources]
             /\ \A o \in 1..Len(rooms) : o # k => S[o] = rooms[o]
             /\ S[k].peers = rooms[k].peers /\ S[k].received = rooms[k].received
             /\ S[k].wiring = g /\ S[k].lastDesired = Desired(plan)
             /\ \A s \in Sources : g[s] \subseteq Desired(plan)[s]
             /\ \A s \in Sources : rooms[k].received[s] # 0 => g[s] = Desired(plan)[s]
             /\ \A s \in Sources : rooms[k].received[s] = 0 => g[s] = rooms[k].wiring[s] \cap Desired(plan)[s]
             /\ \A o \in 1..Len(rooms) : RoomOK(S[o], o, conns)
<1> DEFINE g == NewWiring(rooms[k], plan)
           S == WithWiring(rooms, k, g, Desired(plan))
<1>1. /\ rooms \in Seq(RoomRec) /\ conns \in Seq(ConnRec) /\ Len(conns) \in Nat /\ Len(rooms) \in Nat
      /\ \A o \in 1..Len(rooms) : RoomOK(rooms[o], o, conns)
  BY DEF NodeInv, NodeOK
<1>2. RoomOK(rooms[k], k, conns)
  BY <1>1
<1>3. Desired(plan) \in [Sources -> SUBSET Sources]
  BY PlanTyped
<1>4. \A s \in Sources : /\ g[s] \subseteq Desired(plan)[s]
                         /\ rooms[k].received[s] # 0 => g[s] = Desired(plan)[s]
                         /\ rooms[k].received[s] = 0 => g[s] = rooms[k].wiring[s] \cap Desired(plan)[s]
  BY DEF Rewired, NewWiring
<1>5. g \in [Sources -> SUBSET Sources]
  <2>1. \A s \in Sources : g[s] \in SUBSET Sources
    BY <1>3, <1>4
  <2>2. g = [s \in Sources |-> g[s]]
    BY DEF NewWiring
  <2>3. QED
    BY <2>1, <2>2
<1> HIDE DEF g
<1>6. /\ S \in Seq(RoomRec) /\ Len(S) = Len(rooms)
      /\ \A o \in 1..Len(rooms) : o # k => S[o] = rooms[o]
      /\ S[k].peers = rooms[k].peers /\ S[k].received = rooms[k].received
      /\ S[k].wiring = g /\ S[k].lastDesired = Desired(plan)
  BY <1>1, <1>3, <1>5, Rewires
<1> HIDE DEF S
<1>7. ASSUME NEW o \in 1..Len(rooms)
      PROVE  RoomOK(S[o], o, conns)
  <2>1. CASE o # k
    BY <2>1, <1>1, <1>6
  <2>2. CASE o = k
    <3>1. ASSUME NEW q \in Sources
          PROVE  /\ S[k].wiring[q] \subseteq S[k].lastDesired[q]
                 /\ S[k].peers[q] <= Len(conns) /\ S[k].received[q] <= Len(conns)
                 /\ S[k].peers[q] # 0 => /\ conns[S[k].peers[q]].open /\ conns[S[k].peers[q]].peer = q
                                         /\ conns[S[k].peers[q]].room = k
      BY <1>1, <1>2, <1>4, <1>6, RoomFields
    <3>2. QED
      BY <2>2, <3>1, <1>6 DEF RoomOK
  <2>3. QED
    BY <2>1, <2>2
<1>8. QED
  BY <1>4, <1>5, <1>6, <1>7 DEF S, g

LEMMA DiffKeeps ==
  ASSUME NodeInv, NEW x \in Workers, Diff(x)
  PROVE  NodeInv'
<1> DEFINE w == worker[x]
           k == w.room
           old == rooms[k]
           e == Desired(w.plan)
           g == NewWiring(old, w.plan)
           drop == {p \in Sources : old.peers[p] # 0} \ Needed(w.plan)
           send == UNION {{<<c, s, old.received[s]>> : c \in g[s] \ old.wiring[s]} : s \in Sources}
           stop == UNION {{<<c, s>> : c \in old.wiring[s] \ e[s]} : s \in Sources}
           u == [w EXCEPT !.diff = FALSE, !.drop = drop, !.send = send, !.stop = stop]
<1>1. NodeOK(rooms, current, conns, worker, callbacks, arrived)
  BY DEF NodeInv
<1>2. /\ Len(rooms) \in Nat /\ Len(conns) \in Nat /\ conns \in Seq(ConnRec) /\ current \in 0..Len(rooms)
      /\ \A o \in 1..Len(rooms) : RoomOK(rooms[o], o, conns)
      /\ \A i \in 1..Len(conns) : ConnOK(conns[i], Len(rooms), Len(conns))
      /\ callbacks \subseteq 1..Len(conns) /\ arrived \subseteq (1..Len(conns)) \X Sources
      /\ events \in 0..MaxEvents
  BY <1>1 DEF NodeOK, NodeInv
<1>3. w \in WorkRec /\ WorkOK(w, Len(rooms), Len(conns)) /\ w.at = "diff"
  BY <1>1 DEF NodeOK, Diff
<1>4. k \in 1..Len(rooms) /\ w.plan \in SUBSET Edges /\ w.job = <<>>
  BY <1>3 DEF WorkOK, WorkRec
<1>5. /\ g \in [Sources -> SUBSET Sources]
      /\ \A s \in Sources : old.received[s] = 0 => g[s] \subseteq old.wiring[s]
      /\ \A s \in Sources : old.received[s] \in 0..Len(conns) /\ old.wiring[s] \in SUBSET Sources
  <2>1. /\ g \in [Sources -> SUBSET Sources]
        /\ \A s \in Sources : old.received[s] = 0 => g[s] = old.wiring[s] \cap e[s]
    BY <1>4, DiffFacts
  <2>2. \A s \in Sources : old.received[s] \in 0..Len(conns) /\ old.wiring[s] \in SUBSET Sources
    BY <1>2, <1>4, RoomFields
  <2> HIDE DEF g, e
  <2>3. QED
    BY <2>1, <2>2
<1>6. /\ worker' = WithWork(x, Settle(u)) /\ rooms' = WithWiring(rooms, k, g, e)
      /\ current' = current /\ conns' = conns /\ callbacks' = callbacks /\ arrived' = arrived /\ events' = events
  BY DEF Diff, WithWork, WithWiring, NewWiring
<1>7. /\ rooms' \in Seq(RoomRec) /\ Len(rooms') = Len(rooms)
      /\ \A o \in 1..Len(rooms) : RoomOK(rooms'[o], o, conns)
  BY <1>4, <1>6, DiffFacts
<1> HIDE DEF g, e, old
<1>8. drop \in SUBSET Sources
  OBVIOUS
<1>9. send \in SUBSET (Sources \X Sources \X Nat) /\ \A j \in send : j[3] \in 1..Len(conns)
  <2> SUFFICES ASSUME NEW j \in send PROVE j \in Sources \X Sources \X Nat /\ j[3] \in 1..Len(conns)
    OBVIOUS
  <2>1. PICK s \in Sources : j \in {<<c, s, old.received[s]>> : c \in g[s] \ old.wiring[s]}
    OBVIOUS
  <2>2. PICK c \in g[s] \ old.wiring[s] : j = <<c, s, old.received[s]>>
    BY <2>1
  <2>3. old.received[s] \in 1..Len(conns) /\ c \in Sources
    BY <2>2, <1>2, <1>5
  <2>4. QED
    BY <2>2, <2>3, <1>2
<1>10. stop \in SUBSET (Sources \X Sources)
  BY <1>5
<1> HIDE DEF drop, send, stop
<1>11. u \in WorkRec
  BY <1>3, <1>8, <1>9, <1>10 DEF WorkRec
<1>12. u.job = <<>> /\ ~u.diff /\ u.send = send
  BY <1>3, <1>4 DEF WorkRec
<1> HIDE DEF u
<1>13. WorkOK(Settle(u), Len(rooms), Len(conns))
  BY <1>2, <1>9, <1>11, <1>12, WorkSettled
<1>14. QED
  BY <1>1, <1>2, <1>6, <1>7, <1>13, NodeChanges

LEMMA NodeStep == NodeInv /\ [RelayNext]_nodeVars => NodeInv'
<1> SUFFICES ASSUME NodeInv, [RelayNext]_nodeVars PROVE NodeInv'
  OBVIOUS
<1>1. CASE UNCHANGED nodeVars
  BY <1>1 DEF nodeVars, NodeInv, NodeOK
<1>2. ASSUME NEW x \in Workers, WorkerStep(x)
      PROVE  NodeInv'
  BY <1>2, ListPeersKeeps, DeleteRoomKeeps, ConnectKeeps, DropPeerKeeps, CreateConnKeeps, CreateFailsKeeps,
     DiffKeeps, SendTrackKeeps, StopSourceKeeps DEF WorkerStep
<1>3. QED
  BY <1>1, <1>2, ReconcileKeeps, HandleSignalKeeps, TrackArrivesKeeps, ConnectionFailsKeeps,
     StateChangeKeeps DEF RelayNext
-----------------------------------------------------------------------------
(* The node when goroutines take turns.  What is under way is the work of   *)
(* the one that is not idle.                                                *)
TheWork(W) ==
  IF \E x \in Workers : W[x].at # "idle" THEN W[CHOOSE x \in Workers : W[x].at # "idle"] ELSE NoWork

(* The tracks still to be sent, the one a connection is being made for      *)
(* included: m is the job of that connection.                               *)
ToSend(w, m) == w.send \cup (IF Len(m) = 3 THEN {m} ELSE {})
Awaits(w, m, s, p) == \E j \in ToSend(w, m) : j[1] = p /\ j[2] = s
Carries(r, C, s, p) == r.peers[p] # 0 /\ C[r.peers[p]].senders[s] # {}

(* Every open connection is on file.                                        *)
OnFile(R, k, C) ==
  \A c \in 1..Len(C) : C[c].open => k # 0 /\ R[k].peers[C[c].peer] = c

(* A wired child is sent the source, or is to be; and whoever is sent it is *)
(* wired, or is to be stopped.                                              *)
Matched(r, C, w, m) ==
  /\ \A s, p \in Sources :
       /\ Awaits(w, m, s, p) => p \in r.wiring[s] /\ ~Carries(r, C, s, p) /\ p \notin w.drop
       /\ <<p, s>> \in w.stop => p \notin r.wiring[s]
       /\ p \in r.wiring[s] => Awaits(w, m, s, p) \/ Carries(r, C, s, p)
       /\ Carries(r, C, s, p) => p \in r.wiring[s] \/ <<p, s>> \in w.stop
  /\ \A i, j \in ToSend(w, m) : i[1] = j[1] /\ i[2] = j[2] => i = j
  /\ Len(m) = 3 => m \notin w.send
  /\ \A p, s \in Sources : r.peers[p] # 0 =>
       \E n \in Nat : C[r.peers[p]].senders[s] \subseteq {n}

(* A reconciliation first connects whom the plan names; after the diff only *)
(* they are left, but for those it is about to drop, and what has a track   *)
(* is wired as the plan says.                                               *)
Follows(r, w, m) ==
  IF w.diff
  THEN \A p \in Needed(w.plan) : r.peers[p] # 0 \/ p \in w.connect \/ (m # <<>> /\ m[1] = p)
  ELSE /\ w.connect = {} /\ m = <<>> /\ r.lastDesired = Desired(w.plan)
       /\ \A p \in Needed(w.plan) : r.peers[p] # 0 /\ p \notin w.drop
       /\ \A p \in Sources : r.peers[p] # 0 => p \in Needed(w.plan) \/ p \in w.drop
       /\ \A s \in Sources : r.received[s] # 0 => r.wiring[s] = Desired(w.plan)[s]

Under(R, k, C, w, m) ==
  /\ OnFile(R, k, C)
  /\ k = 0 => w.send = {} /\ w.stop = {} /\ ~w.diff /\ ~w.tear /\ m = <<>> /\ w.plan = {}
  /\ w.diff => w.room = k /\ w.drop = {} /\ w.send = {} /\ w.stop = {} /\ ~w.tear /\ Len(m) # 3
  /\ w.tear => /\ w.connect = {} /\ w.send = {} /\ w.stop = {} /\ m = <<>> /\ ~w.diff /\ w.plan = {}
               /\ \A p \in Sources : R[k].peers[p] # 0 => p \in w.drop
  /\ k # 0 =>
       /\ m # <<>> => R[k].peers[m[1]] = 0
       /\ Matched(R[k], C, w, m)
       /\ w.plan # {} => Follows(R[k], w, m)

Making(w) == IF w.at = "create" THEN w.job ELSE <<>>

Busy(R, k, C, w) ==
  /\ Under(R, k, C, w, Making(w))
  /\ w.at = "create" => k # 0 /\ w.into = k
  /\ w.at = "list" =>
       /\ k # 0 /\ w.room = k /\ w.connect = {} /\ w.drop = {} /\ w.send = {} /\ w.stop = {}
       /\ ~w.diff /\ w.plan = {}
  /\ w.at = "delete" => w.tear /\ w.drop = {}
  /\ w.at = "diff" => w.diff /\ w.connect = {}

(* What a step of goroutine x leads to: it settles what is next, with the   *)
(* plan it had, makes a connection, lists the peers or is done.             *)
Proceeds(x) ==
  \/ \E u \in WorkRec :
       /\ worker' = WithWork(x, Settle(u)) /\ Under(rooms', current', conns', u, <<>>)
       /\ worker[x].plan \in {{}, u.plan}
  \/ \E v \in WorkRec :
       /\ worker' = WithWork(x, v) /\ Busy(rooms', current', conns', v)
       /\ v.at = "idle" => v = NoWork /\ worker[x].plan = {}

LEMMA BusySettles ==
  ASSUME NEW R, NEW k, NEW C, NEW u \in WorkRec, Under(R, k, C, u, <<>>)
  PROVE  Busy(R, k, C, Settle(u))
<1> DEFINE v == Settle(u)
<1>1. /\ v \in WorkRec
      /\ v.connect = u.connect /\ v.diff = u.diff /\ v.drop = u.drop
      /\ v.send = u.send /\ v.stop = u.stop /\ v.tear = u.tear
      /\ \/ v = NoWork
         \/ v.room = u.room /\ v.plan = u.plan
      /\ v.at \notin {"create", "list"}
      /\ v.at = "diff" => u.diff /\ u.connect = {}
      /\ v.at = "delete" => u.tear /\ u.drop = {}
      /\ v = NoWork => ~u.diff /\ ~u.tear
  BY Settled
<1> HIDE DEF v
<1>2. Making(v) = <<>>
  BY <1>1 DEF Making
<1>3. v.plan = u.plan \/ v.plan = {}
  BY <1>1, NoWorkFields
<1>4. v.diff => v.room = u.room
  BY <1>1
<1>5. ToSend(v, <<>>) = ToSend(u, <<>>)
  BY <1>1 DEF ToSend
<1>6. ASSUME k # 0
      PROVE  Matched(R[k], C, v, <<>>)
  <2>1. Matched(R[k], C, u, <<>>)
    BY <1>6 DEF Under
  <2>2. \A s, p \in Sources : Awaits(v, <<>>, s, p) <=> Awaits(u, <<>>, s, p)
    BY <1>5 DEF Awaits
  <2>3. QED
    BY <1>1, <1>5, <2>1, <2>2 DEF Matched
<1>7. ASSUME k # 0, v.plan # {}
      PROVE  Follows(R[k], v, <<>>)
  BY <1>1, <1>3, <1>7 DEF Under, Follows
<1>8. Under(R, k, C, v, <<>>)
  BY <1>1, <1>3, <1>4, <1>6, <1>7 DEF Under
<1>9. Busy(R, k, C, v)
  BY <1>1, <1>2, <1>8 DEF Busy
<1>10. QED
  BY <1>9 DEF v

LEMMA TheWorkIs ==
  ASSUME NEW W, NEW x \in Workers, \A y \in Workers \ {x} : W[y].at = "idle",
         W[x].at = "idle" => W[x] = NoWork
  PROVE  TheWork(W) = W[x]
<1>1. CASE W[x].at = "idle"
  <2>1. ~\E y \in Workers : W[y].at # "idle"
    BY <1>1
  <2>2. QED
    BY <1>1, <2>1 DEF TheWork
<1>2. CASE W[x].at # "idle"
  <2>1. \E y \in Workers : W[y].at # "idle"
    BY <1>2
  <2>2. (CHOOSE y \in Workers : W[y].at # "idle") = x
    BY <1>2
  <2>3. QED
    BY <2>1, <2>2 DEF TheWork
<1>3. QED
  BY <1>1, <1>2

(* With goroutines taking turns, a step of one is a step of the work.       *)
LEMMA OneAtWork ==
  ASSUME NodeInv, Turns, Turns', NEW x \in Workers, NEW v \in WorkRec, worker' = WithWork(x, v),
         v.at = "idle" => v = NoWork
  PROVE  \/ worker' = worker
         \/ TheWork(worker) = worker[x] /\ TheWork(worker') = v
<1>1. /\ worker \in [Workers -> WorkRec] /\ \A y \in Workers : worker[y].at = "idle" => worker[y] = NoWork
  BY DEF NodeInv, NodeOK, WorkOK
<1>2. worker' \in [Workers -> WorkRec] /\ worker'[x] = v /\ \A y \in Workers \ {x} : worker'[y] = worker[y]
  BY <1>1, Works
<1>3. CASE worker[x].at = "idle" /\ v.at = "idle"
  <2>1. worker[x] = v
    BY <1>1, <1>3
  <2>2. \A y \in Workers : worker'[y] = worker[y]
    BY <1>2, <2>1
  <2>3. QED
    BY <1>1, <1>2, <2>2
<1>4. CASE worker[x].at # "idle" \/ v.at # "idle"
  <2>1. \A y \in Workers \ {x} : worker[y].at = "idle" /\ worker'[y].at = "idle"
    BY <1>2, <1>4 DEF Turns
  <2>2. TheWork(worker) = worker[x]
    BY <1>1, <2>1, TheWorkIs
  <2>3. TheWork(worker') = worker'[x]
    BY <1>2, <2>1, TheWorkIs
  <2>4. QED
    BY <1>2, <2>2, <2>3
<1>5. QED
  BY <1>3, <1>4

(* Whoever has the same left to send and to stop has it under the same      *)
(* terms.                                                                   *)
LEMMA MatchedSame ==
  ASSUME NEW r, NEW C, NEW w, NEW m, Matched(r, C, w, m), NEW u, NEW n,
         ToSend(u, n) = ToSend(w, m), u.stop = w.stop, Len(n) = 3 => n \notin u.send,
         \A j \in ToSend(u, n) : j[1] \notin u.drop
  PROVE  Matched(r, C, u, n)
<1>1. \A s, p \in Sources : Awaits(u, n, s, p) <=> Awaits(w, m, s, p)
  BY DEF Awaits
<1>2. \A s, p \in Sources : Awaits(u, n, s, p) => p \notin u.drop
  BY DEF Awaits
<1>3. QED
  BY <1>1, <1>2 DEF Matched

(* The jobs under way are of peers that are not about to be dropped.        *)
LEMMA SentStay ==
  ASSUME NEW r, NEW C, NEW w \in WorkRec, NEW m \in Jobs, Matched(r, C, w, m)
  PROVE  \A j \in ToSend(w, m) : /\ j \in Sources \X Sources \X Nat /\ j[1] \notin w.drop
                                 /\ j[1] \in r.wiring[j[2]] /\ ~Carries(r, C, j[2], j[1])
<1> SUFFICES ASSUME NEW j \in ToSend(w, m)
             PROVE  /\ j \in Sources \X Sources \X Nat /\ j[1] \notin w.drop
                    /\ j[1] \in r.wiring[j[2]] /\ ~Carries(r, C, j[2], j[1])
  OBVIOUS
<1>1. j \in Sources \X Sources \X Nat
  <2>1. Len(m) = 3 => m \in Sources \X Sources \X Nat
    <3>1. Len(m) = 3 => m # <<>>
      OBVIOUS
    <3>2. QED
      BY <3>1, JobFacts
  <2>2. QED
    BY <2>1 DEF ToSend, WorkRec
<1>2. j[1] \in Sources /\ j[2] \in Sources
  BY <1>1
<1>3. Awaits(w, m, j[2], j[1])
  BY DEF Awaits
<1>4. QED
  BY <1>1, <1>2, <1>3 DEF Matched

(* Opening a room changes nothing of what is under way.                     *)
LEMMA UnderOpened ==
  ASSUME NodeInv, NEW w, NEW m, Under(rooms, current, conns, w, m)
  PROVE  Under(Rooms, RoomId, conns, w, m)
<1>1. CASE current # 0
  BY <1>1, Opened
<1>2. CASE current = 0
  <2>1. RoomId # 0 /\ Rooms[RoomId] = EmptyRoom
    BY <1>2, Opened
  <2>2. w.send = {} /\ w.stop = {} /\ ~w.diff /\ ~w.tear /\ m = <<>> /\ w.plan = {}
    BY <1>2 DEF Under
  <2>3. OnFile(Rooms, RoomId, conns)
    BY <1>2 DEF Under, OnFile
  <2>4. \A s \in Sources : EmptyRoom.peers[s] = 0 /\ EmptyRoom.wiring[s] = {}
    BY DEF EmptyRoom
  <2>5. Len(m) # 3
    BY <2>2
  <2>6. ToSend(w, m) = {}
    BY <2>2, <2>5 DEF ToSend
  <2>7. Matched(EmptyRoom, conns, w, m)
    BY <2>2, <2>4, <2>5, <2>6 DEF Matched, Awaits, Carries
  <2>8. QED
    BY <2>1, <2>2, <2>3, <2>7 DEF Under
<1>3. QED
  BY <1>1, <1>2

LEMMA BusyFields ==
  ASSUME NodeInv, NEW x \in Workers, Busy(rooms, current, conns, worker[x])
  PROVE  /\ worker[x] \in WorkRec /\ Under(rooms, current, conns, worker[x], Making(worker[x]))
         /\ Under(Rooms, RoomId, conns, worker[x], Making(worker[x]))
         /\ worker[x].at # "create" => Making(worker[x]) = <<>>
         /\ Making(worker[x]) \in Jobs
         /\ RoomId \in 1..Len(Rooms) /\ RoomId # 0
<1>1. Under(rooms, current, conns, worker[x], Making(worker[x]))
  BY DEF Busy
<1>2. worker[x] \in WorkRec /\ RoomId \in 1..Len(Rooms) /\ RoomId # 0
  BY Opened DEF NodeInv, NodeOK
<1>3. Making(worker[x]) \in Jobs
  BY <1>2 DEF Making, Jobs, WorkRec
<1>4. QED
  BY <1>1, <1>2, <1>3, UnderOpened DEF Making

(* What is needed of the goroutine that is about to settle: as before, it   *)
(* has the same tracks to send and to stop.                                 *)
LEMMA UnderSame ==
  ASSUME NEW R, NEW k, NEW C, NEW w, NEW m, Under(R, k, C, w, m), k # 0, NEW u, NEW n,
         u.send = w.send, u.stop = w.stop, ToSend(u, n) = ToSend(w, m), Len(n) = 3 => n \notin u.send,
         \A j \in ToSend(u, n) : j[1] \notin u.drop,
         u.diff => u.room = k /\ u.drop = {} /\ u.send = {} /\ u.stop = {} /\ ~u.tear /\ Len(n) # 3,
         u.tear => /\ u.connect = {} /\ u.send = {} /\ u.stop = {} /\ n = <<>> /\ ~u.diff /\ u.plan = {}
                   /\ \A p \in Sources : R[k].peers[p] # 0 => p \in u.drop,
         n # <<>> => R[k].peers[n[1]] = 0,
         u.plan # {} => Follows(R[k], u, n)
  PROVE  Under(R, k, C, u, n)
<1>1. OnFile(R, k, C) /\ Matched(R[k], C, w, m)
  BY DEF Under
<1>2. Matched(R[k], C, u, n)
  BY <1>1, MatchedSame
<1>3. QED
  BY <1>1, <1>2 DEF Under

LEMMA ReconcileProceeds ==
  ASSUME NodeInv, NEW x \in Workers, NEW plan \in Plans, Reconcile(x, plan),
         Busy(rooms, current, conns, worker[x])
  PROVE  Proceeds(x)
<1> DEFINE u == [NoWork EXCEPT !.room = RoomId, !.plan = plan, !.diff = TRUE, !.connect = Needed(plan)]
           l == [NoWork EXCEPT !.at = "list", !.room = RoomId]
<1>1. plan \in SUBSET Edges /\ Needed(plan) \in SUBSET Sources
  BY RelayAssumption, PlanTyped
<1>2. worker[x] = NoWork
  BY DEF Reconcile, NodeInv, NodeOK, WorkOK
<1>3. Under(Rooms, RoomId, conns, NoWork, <<>>) /\ RoomId \in 1..Len(Rooms) /\ RoomId # 0
  BY <1>2, NoWorkFields, BusyFields
<1>4. RoomId \in Nat
  BY Opened DEF NodeOK
<1>5. rooms' = Rooms /\ current' = RoomId /\ conns' = conns
  BY DEF Reconcile
<1>6. Len(<<>>) # 3
  OBVIOUS
<1>7. CASE ServerPresent(plan)
  <2>1. /\ u \in WorkRec /\ u.room = RoomId /\ u.plan = plan /\ u.diff /\ u.connect = Needed(plan)
        /\ u.send = {} /\ u.stop = {} /\ u.drop = {} /\ ~u.tear
    BY <1>1, <1>4, NoWorkTyped, NoWorkFields DEF WorkRec
  <2>2. worker' = WithWork(x, Settle(u))
    BY <1>7 DEF Reconcile, WithWork
  <2> HIDE DEF u
  <2>3. ToSend(u, <<>>) = {} /\ ToSend(NoWork, <<>>) = {}
    BY <1>6, <2>1, NoWorkFields DEF ToSend
  <2>4. Follows(Rooms[RoomId], u, <<>>)
    BY <2>1 DEF Follows
  <2>5. Under(Rooms, RoomId, conns, u, <<>>)
    BY <1>3, <1>6, <2>1, <2>3, <2>4, NoWorkFields, UnderSame
  <2>6. worker[x].plan = {}
    BY <1>2, NoWorkFields
  <2>7. QED
    BY <1>5, <2>1, <2>2, <2>5, <2>6 DEF Proceeds
<1>8. CASE ~ServerPresent(plan)
  <2>1. /\ l \in WorkRec /\ l.room = RoomId /\ l.plan = {} /\ ~l.diff /\ l.connect = {} /\ l.at = "list"
        /\ l.send = {} /\ l.stop = {} /\ l.drop = {} /\ ~l.tear
    BY <1>4, NoWorkTyped, NoWorkFields DEF WorkRec
  <2>2. worker' = WithWork(x, l)
    BY <1>8 DEF Reconcile, WithWork
  <2> HIDE DEF l
  <2>3. ToSend(l, <<>>) = {} /\ ToSend(NoWork, <<>>) = {}
    BY <1>6, <2>1, NoWorkFields DEF ToSend
  <2>4. Under(Rooms, RoomId, conns, l, <<>>)
    BY <1>3, <1>6, <2>1, <2>3, NoWorkFields, UnderSame
  <2>5. Busy(Rooms, RoomId, conns, l)
    BY <1>3, <2>1, <2>4 DEF Busy, Making
  <2>6. QED
    BY <1>5, <2>1, <2>2, <2>5 DEF Proceeds
<1>9. QED
  BY <1>7, <1>8

LEMMA HandleSignalProceeds ==
  ASSUME NodeInv, NEW x \in Workers, NEW p \in Peers, HandleSignal(x, p),
         Busy(rooms, current, conns, worker[x])
  PROVE  Proceeds(x)
<1> DEFINE u == [NoWork EXCEPT !.connect = {p}]
<1>1. worker[x] = NoWork
  BY DEF HandleSignal, NodeInv, NodeOK, WorkOK
<1>2. Under(rooms, current, conns, NoWork, <<>>)
  BY <1>1, NoWorkFields, BusyFields
<1>3. /\ u \in WorkRec /\ u.plan = {} /\ ~u.diff /\ u.send = {} /\ u.stop = {} /\ u.drop = {} /\ ~u.tear
  BY NoWorkTyped, NoWorkFields DEF WorkRec, Sources
<1>4. worker' = WithWork(x, Settle(u)) /\ rooms' = rooms /\ current' = current /\ conns' = conns
  BY DEF HandleSignal, WithWork
<1> HIDE DEF u
<1>5. Len(<<>>) # 3
  OBVIOUS
<1>6. ToSend(u, <<>>) = {} /\ ToSend(NoWork, <<>>) = {}
  BY <1>3, <1>5, NoWorkFields DEF ToSend
<1>7. CASE current # 0
  <2>1. Under(rooms, current, conns, u, <<>>)
    BY <1>2, <1>3, <1>5, <1>6, <1>7, NoWorkFields, UnderSame
  <2>2. QED
    BY <1>1, <1>3, <1>4, <2>1, NoWorkFields DEF Proceeds
<1>8. CASE current = 0
  <2>1. Under(rooms, current, conns, u, <<>>)
    BY <1>2, <1>3, <1>8 DEF Under
  <2>2. QED
    BY <1>1, <1>3, <1>4, <2>1, NoWorkFields DEF Proceeds
<1>9. QED
  BY <1>7, <1>8

LEMMA StateChangeProceeds ==
  ASSUME NodeInv, NEW x \in Workers, NEW c \in callbacks, StateChange(x, c),
         Busy(rooms, current, conns, worker[x])
  PROVE  Proceeds(x)
<1> DEFINE u == [NoWork EXCEPT !.drop = {conns[c].peer}]
<1>1. worker[x] = NoWork
  BY DEF StateChange, NodeInv, NodeOK, WorkOK
<1>2. Under(rooms, current, conns, NoWork, <<>>)
  BY <1>1, NoWorkFields, BusyFields
<1>3. conns[c].peer \in Sources
  BY DEF NodeInv, NodeOK, ConnOK, ConnRec
<1>4. /\ u \in WorkRec /\ u.plan = {} /\ ~u.diff /\ u.send = {} /\ u.stop = {} /\ ~u.tear
  BY <1>3, NoWorkTyped, NoWorkFields DEF WorkRec
<1>5. worker' = WithWork(x, Settle(u)) /\ rooms' = rooms /\ current' = current /\ conns' = conns
  BY DEF StateChange, WithWork
<1> HIDE DEF u
<1>6. Len(<<>>) # 3
  OBVIOUS
<1>7. ToSend(u, <<>>) = {} /\ ToSend(NoWork, <<>>) = {}
  BY <1>4, <1>6, NoWorkFields DEF ToSend
<1>8. Under(rooms, current, conns, u, <<>>)
  <2>1. CASE current # 0
    BY <1>2, <1>4, <1>6, <1>7, <2>1, NoWorkFields, UnderSame
  <2>2. CASE current = 0
    BY <1>2, <1>4, <2>2 DEF Under
  <2>3. QED
    BY <2>1, <2>2
<1>9. QED
  BY <1>1, <1>4, <1>5, <1>8, NoWorkFields DEF Proceeds

LEMMA ListPeersProceeds ==
  ASSUME NodeInv, NEW x \in Workers, ListPeers(x), Busy(rooms, current, conns, worker[x])
  PROVE  Proceeds(x)
<1> DEFINE w == worker[x]
           listed == {p \in Sources : rooms[w.room].peers[p] # 0}
           u == [w EXCEPT !.drop = listed, !.tear = TRUE]
<1>1. w.at = "list" /\ w \in WorkRec /\ Under(rooms, current, conns, w, <<>>)
  <2>1. w.at = "list"
    BY DEF ListPeers
  <2>2. QED
    BY <2>1, BusyFields
<1>2. /\ current # 0 /\ w.room = current /\ w.connect = {} /\ w.send = {} /\ w.stop = {}
      /\ ~w.diff /\ w.plan = {}
  BY <1>1 DEF Busy
<1>3. /\ u \in WorkRec /\ u.plan = {} /\ ~u.diff /\ u.connect = {} /\ u.send = {} /\ u.stop = {}
      /\ u.drop = listed /\ u.tear
  BY <1>1, <1>2 DEF WorkRec
<1>4. worker' = WithWork(x, Settle(u)) /\ rooms' = rooms /\ current' = current /\ conns' = conns
  BY DEF ListPeers, WithWork
<1>5. \A p \in Sources : rooms[current].peers[p] # 0 => p \in u.drop
  BY <1>2, <1>3
<1> HIDE DEF u
<1>6. Len(<<>>) # 3
  OBVIOUS
<1>7. ToSend(u, <<>>) = {} /\ ToSend(w, <<>>) = {}
  BY <1>2, <1>3, <1>6 DEF ToSend
<1>8. Under(rooms, current, conns, u, <<>>)
  BY <1>1, <1>2, <1>3, <1>5, <1>6, <1>7, UnderSame
<1>9. QED
  BY <1>2, <1>3, <1>4, <1>8 DEF Proceeds

LEMMA DeleteRoomProceeds ==
  ASSUME NodeInv, NEW x \in Workers, DeleteRoom(x), Busy(rooms, current, conns, worker[x])
  PROVE  Proceeds(x)
<1> DEFINE w == worker[x]
<1>1. w.at = "delete" /\ w \in WorkRec /\ Under(rooms, current, conns, w, <<>>)
  <2>1. w.at = "delete"
    BY DEF DeleteRoom
  <2>2. QED
    BY <2>1, BusyFields
<1>2. w.tear /\ w.drop = {}
  BY <1>1 DEF Busy
<1>3. w.plan = {} /\ \A p \in Sources : rooms[current].peers[p] = 0
  BY <1>1, <1>2 DEF Under
<1>4. OnFile(rooms, 0, conns)
  <2>1. \A c \in 1..Len(conns) : conns[c].peer \in Sources
    BY DEF NodeInv, NodeOK, ConnOK, ConnRec
  <2>2. OnFile(rooms, current, conns)
    BY <1>1 DEF Under
  <2>3. QED
    BY <1>3, <2>1, <2>2 DEF OnFile
<1>5. worker' = WithWork(x, NoWork) /\ rooms' = rooms /\ current' = 0 /\ conns' = conns
  BY DEF DeleteRoom, WithWork
<1>6. Busy(rooms, 0, conns, NoWork)
  BY <1>4, NoWorkFields DEF Busy, Under, Making
<1>7. QED
  BY <1>3, <1>5, <1>6, NoWorkTyped DEF Proceeds

LEMMA ConnectProceeds ==
  ASSUME NodeInv, NEW x \in Workers, NEW p \in Sources, Connect(x, p),
         Busy(rooms, current, conns, worker[x])
  PROVE  Proceeds(x)
<1> DEFINE w == worker[x]
           u == [w EXCEPT !.connect = @ \ {p}]
           d == [w EXCEPT !.at = "create", !.connect = @ \ {p}, !.into = RoomId, !.job = <<p>>]
<1>1. w.at = "connect" /\ p \in w.connect
  BY DEF Connect
<1>2. /\ w \in WorkRec /\ Under(Rooms, RoomId, conns, w, <<>>) /\ RoomId \in 1..Len(Rooms) /\ RoomId # 0
  BY <1>1, BusyFields
<1>3. ~w.tear /\ (w.diff => w.room = RoomId /\ w.drop = {} /\ w.send = {} /\ w.stop = {})
  BY <1>1, <1>2 DEF Under
<1>4. Matched(Rooms[RoomId], conns, w, <<>>)
  BY <1>2 DEF Under
<1>5. Len(<<>>) # 3 /\ Len(<<p>>) # 3 /\ <<p>> # <<>> /\ <<p>>[1] = p
  OBVIOUS
<1>6. <<>> \in Jobs /\ <<p>> \in Jobs
  BY DEF Jobs
<1>7. rooms' = Rooms /\ current' = RoomId /\ conns' = conns
  BY DEF Connect
<1>8. \A j \in ToSend(w, <<>>) : j[1] \notin w.drop
  BY <1>2, <1>4, <1>6, SentStay
<1>9. w.plan # {} => w.diff /\ \A q \in Needed(w.plan) : Rooms[RoomId].peers[q] # 0 \/ q \in w.connect
  BY <1>1, <1>2 DEF Under, Follows
<1>10. CASE Rooms[RoomId].peers[p] # 0
  <2>1. /\ u \in WorkRec /\ u.plan = w.plan /\ u.diff = w.diff /\ u.send = w.send /\ u.stop = w.stop
        /\ u.drop = w.drop /\ u.tear = w.tear /\ u.room = w.room /\ u.connect = w.connect \ {p}
    BY <1>2 DEF WorkRec
  <2>2. worker' = WithWork(x, Settle(u))
    BY <1>10 DEF Connect, WithWork
  <2> HIDE DEF u, w
  <2>3. ToSend(u, <<>>) = ToSend(w, <<>>)
    BY <2>1 DEF ToSend
  <2>4. u.plan # {} => Follows(Rooms[RoomId], u, <<>>)
    BY <1>9, <1>10, <2>1 DEF Follows
  <2>5. Under(Rooms, RoomId, conns, u, <<>>)
    BY <1>2, <1>3, <1>5, <1>8, <2>1, <2>3, <2>4, UnderSame
  <2>6. QED
    BY <1>7, <2>1, <2>2, <2>5 DEF Proceeds, w
<1>11. CASE ~(Rooms[RoomId].peers[p] # 0)
  <2>1. RoomId \in Nat /\ w.connect \ {p} \in SUBSET Sources
    BY <1>2 DEF WorkRec
  <2>2. d \in WorkRec
    BY <1>2, <1>6, <2>1 DEF WorkRec
  <2>3. /\ d.plan = w.plan /\ d.diff = w.diff /\ d.send = w.send /\ d.stop = w.stop /\ d.at = "create"
        /\ d.drop = w.drop /\ d.tear = w.tear /\ d.room = w.room /\ d.connect = w.connect \ {p}
        /\ d.into = RoomId /\ d.job = <<p>>
    BY <1>2, <2>2 DEF WorkRec
  <2>4. worker' = WithWork(x, d)
    BY <1>11 DEF Connect, WithWork
  <2> HIDE DEF d, w
  <2>5. ToSend(d, <<p>>) = ToSend(w, <<>>)
    BY <1>5, <2>3 DEF ToSend
  <2>6. d.plan # {} => Follows(Rooms[RoomId], d, <<p>>)
    BY <1>5, <1>9, <2>3 DEF Follows
  <2>7. Under(Rooms, RoomId, conns, d, <<p>>)
    BY <1>2, <1>3, <1>5, <1>8, <1>11, <2>3, <2>5, <2>6, UnderSame
  <2>8. Busy(Rooms, RoomId, conns, d)
    BY <1>2, <2>3, <2>7 DEF Busy, Making
  <2>9. QED
    BY <1>7, <2>2, <2>3, <2>4, <2>8 DEF Proceeds
<1>12. QED
  BY <1>10, <1>11

LEMMA CreateConnProceeds ==
  ASSUME NodeInv, NEW x \in Workers, CreateConn(x), Busy(rooms, current, conns, worker[x])
  PROVE  Proceeds(x)
<1> DEFINE w == worker[x]
           k == current
           n == Len(conns) + 1
           m == w.job
           p == w.job[1]
           senders == FirstSenders(w.job)
           u == [w EXCEPT !.into = 0, !.job = <<>>]
           S == rooms'
           D == conns'
<1>1. /\ rooms \in Seq(RoomRec) /\ conns \in Seq(ConnRec) /\ Len(conns) \in Nat /\ Len(rooms) \in Nat
      /\ current \in 0..Len(rooms) /\ \A o \in 1..Len(rooms) : RoomOK(rooms[o], o, conns)
      /\ \A i \in 1..Len(conns) : ConnOK(conns[i], Len(rooms), Len(conns))
  BY DEF NodeInv, NodeOK
<1>2. w.at = "create" /\ w \in WorkRec /\ WorkOK(w, Len(rooms), Len(conns))
  BY DEF CreateConn, NodeInv, NodeOK
<1>3. m # <<>> /\ m \in Jobs /\ (Len(m) = 3 => m[3] \in 1..Len(conns))
  BY <1>2 DEF WorkOK, WorkRec
<1>4. k # 0 /\ w.into = k /\ Under(rooms, k, conns, w, m)
  BY <1>2 DEF Busy, Making
<1>5. Len(m) = 1 \/ (Len(m) = 3 /\ m \in Sources \X Sources \X Nat)
  BY <1>3, JobFacts
<1>6. p \in Sources /\ p = m[1]
  BY <1>3, JobFacts
<1>7. /\ senders \in [Sources -> SUBSET (1..Len(conns))]
      /\ \A s \in Sources : senders[s] = IF Len(m) = 3 /\ s = m[2] THEN {m[3]} ELSE {}
  BY <1>1, <1>3, FirstSendersTyped
<1>8. /\ u \in WorkRec /\ u.plan = w.plan /\ u.diff = w.diff /\ u.send = w.send /\ u.stop = w.stop
      /\ u.drop = w.drop /\ u.tear = w.tear /\ u.room = w.room /\ u.connect = w.connect
  BY <1>2 DEF WorkRec, Jobs
<1>9. /\ worker' = WithWork(x, Settle(u)) /\ rooms' = WithPeer(rooms, k, p, n)
      /\ conns' = Append(conns, NewConn(p, k, senders)) /\ current' = current
  BY <1>4 DEF CreateConn, WithWork, WithPeer, FirstSenders
<1>10. EnterFactsOf(k, p, senders)
  <2>1. k \in 1..Len(rooms)
    BY <1>1, <1>4
  <2> HIDE DEF senders, p, k
  <2>2. QED
    BY <2>1, <1>6, <1>7, EnterFacts
<1>11. /\ D[n] = NewConn(p, k, senders) /\ \A i \in 1..Len(conns) : D[i] = conns[i]
       /\ Len(D) = n /\ S[k].wiring = rooms[k].wiring /\ S[k].received = rooms[k].received
       /\ S[k].lastDesired = rooms[k].lastDesired
       /\ \A q \in Sources : S[k].peers[q] = IF q = p THEN n ELSE rooms[k].peers[q]
  BY <1>9, <1>10 DEF EnterFactsOf
<1>12. D[n].peer = p /\ D[n].senders = senders
  BY <1>11 DEF NewConn
<1>13. rooms[k].peers[p] = 0 /\ Matched(rooms[k], conns, w, m) /\ OnFile(rooms, k, conns)
  BY <1>3, <1>4 DEF Under
<1>14. \A q \in Sources : rooms[k].peers[q] \in 0..Len(conns)
  BY <1>1, <1>4, RoomFields
<1>15. /\ w.diff => w.room = k /\ w.drop = {} /\ w.send = {} /\ w.stop = {} /\ Len(m) # 3
       /\ ~w.tear /\ (w.plan # {} => Follows(rooms[k], w, m))
  BY <1>3, <1>4 DEF Under
<1>16. /\ Len(<<>>) # 3 /\ ToSend(u, <<>>) = w.send
       /\ (Len(m) = 3 => m \notin w.send) /\ w.send \subseteq ToSend(w, m)
  BY <1>8, <1>13 DEF ToSend, Matched
<1>17. Len(m) = 3 => m[2] \in Sources /\ m \in ToSend(w, m) /\ Awaits(w, m, m[2], p)
  BY <1>3, <1>5 DEF ToSend, Awaits
<1> HIDE DEF u, S, D, senders, m, p, k, n, w
<1>18. OnFile(S, k, D)
  <2> SUFFICES ASSUME NEW c \in 1..n, D[c].open PROVE S[k].peers[D[c].peer] = c
    BY <1>4, <1>11 DEF OnFile
  <2>1. CASE c = n
    BY <2>1, <1>6, <1>11, <1>12
  <2>2. CASE c # n
    <3>1. c \in 1..Len(conns)
      BY <2>2, <1>1 DEF n
    <3>2. D[c] = conns[c] /\ conns[c].peer \in Sources /\ rooms[k].peers[conns[c].peer] = c
      BY <3>1, <1>1, <1>11, <1>13 DEF OnFile, ConnOK, ConnRec
    <3>3. conns[c].peer # p
      BY <3>1, <3>2, <1>13
    <3>4. QED
      BY <3>2, <3>3, <1>11
  <2>3. QED
    BY <2>1, <2>2
<1>19. ASSUME NEW s \in Sources, NEW q \in Sources, q # p
       PROVE  /\ Carries(S[k], D, s, q) <=> Carries(rooms[k], conns, s, q)
              /\ S[k].peers[q] # 0 => D[S[k].peers[q]].senders[s] = conns[rooms[k].peers[q]].senders[s]
  <2>1. S[k].peers[q] = rooms[k].peers[q] /\ rooms[k].peers[q] \in 0..Len(conns)
    BY <1>11, <1>14, <1>19
  <2>2. rooms[k].peers[q] # 0 => D[rooms[k].peers[q]] = conns[rooms[k].peers[q]]
    BY <2>1, <1>1, <1>11
  <2>3. QED
    BY <2>1, <2>2 DEF Carries
<1>20. ASSUME NEW s \in Sources
       PROVE  /\ Carries(S[k], D, s, p) <=> Len(m) = 3 /\ s = m[2]
              /\ \E i \in Nat : D[S[k].peers[p]].senders[s] \subseteq {i}
  <2>1. S[k].peers[p] = n /\ n # 0 /\ D[n].senders[s] = IF Len(m) = 3 /\ s = m[2] THEN {m[3]} ELSE {}
    BY <1>1, <1>6, <1>7, <1>11, <1>12 DEF n
  <2>2. Len(m) = 3 => m[3] \in Nat
    BY <1>3
  <2>3. QED
    BY <2>1, <2>2 DEF Carries
<1>21. ASSUME NEW s \in Sources, NEW q \in Sources
       PROVE  Awaits(w, m, s, q) <=> Awaits(u, <<>>, s, q) \/ (Len(m) = 3 /\ s = m[2] /\ q = p)
  <2>1. ToSend(w, m) = w.send \cup (IF Len(m) = 3 THEN {m} ELSE {})
    BY DEF ToSend
  <2>2. QED
    BY <2>1, <1>6, <1>16 DEF Awaits
<1>22. Len(m) = 3 => ~Awaits(u, <<>>, m[2], p)
  <2> SUFFICES ASSUME Len(m) = 3, NEW j \in w.send, j[1] = p, j[2] = m[2] PROVE FALSE
    BY <1>16 DEF Awaits
  <2>1. j \in ToSend(w, m) /\ m \in ToSend(w, m)
    BY <1>16, <1>17
  <2>2. j = m
    BY <2>1, <1>6, <1>13 DEF Matched
  <2>3. QED
    BY <2>2, <1>16
<1>23. Matched(S[k], D, u, <<>>)
  <2>1. ASSUME NEW s \in Sources, NEW q \in Sources
        PROVE  /\ Awaits(u, <<>>, s, q) => /\ q \in S[k].wiring[s] /\ ~Carries(S[k], D, s, q)
                                           /\ q \notin u.drop
               /\ <<q, s>> \in u.stop => q \notin S[k].wiring[s]
               /\ q \in S[k].wiring[s] => Awaits(u, <<>>, s, q) \/ Carries(S[k], D, s, q)
               /\ Carries(S[k], D, s, q) => q \in S[k].wiring[s] \/ <<q, s>> \in u.stop
    <3>1. /\ Awaits(w, m, s, q) => /\ q \in rooms[k].wiring[s] /\ ~Carries(rooms[k], conns, s, q)
                                   /\ q \notin w.drop
          /\ <<q, s>> \in w.stop => q \notin rooms[k].wiring[s]
          /\ q \in rooms[k].wiring[s] => Awaits(w, m, s, q) \/ Carries(rooms[k], conns, s, q)
          /\ Carries(rooms[k], conns, s, q) => q \in rooms[k].wiring[s] \/ <<q, s>> \in w.stop
      BY <1>13 DEF Matched
    <3>2. CASE q # p
      BY <3>1, <3>2, <1>8, <1>11, <1>19, <1>21
    <3>3. CASE q = p
      <4>1. ~Carries(rooms[k], conns, s, p)
        BY <1>13 DEF Carries
      <4>2. QED
        BY <3>1, <3>3, <4>1, <1>8, <1>11, <1>20, <1>21, <1>22
    <3>4. QED
      BY <3>2, <3>3
  <2>2. \A i, j \in ToSend(u, <<>>) : i[1] = j[1] /\ i[2] = j[2] => i = j
    BY <1>13, <1>16 DEF Matched
  <2>3. ASSUME NEW q \in Sources, NEW s \in Sources, S[k].peers[q] # 0
        PROVE  \E i \in Nat : D[S[k].peers[q]].senders[s] \subseteq {i}
    <3>1. CASE q = p
      BY <3>1, <1>20
    <3>2. CASE q # p
      <4>1. rooms[k].peers[q] # 0 => \E i \in Nat : conns[rooms[k].peers[q]].senders[s] \subseteq {i}
        BY <1>13 DEF Matched
      <4>2. QED
        BY <3>2, <4>1, <2>3, <1>11, <1>19
    <3>3. QED
      BY <3>1, <3>2
  <2>4. QED
    BY <2>1, <2>2, <2>3, <1>16 DEF Matched
<1>24. u.plan # {} => Follows(S[k], u, <<>>)
  <2> SUFFICES ASSUME u.plan # {} PROVE Follows(S[k], u, <<>>)
    OBVIOUS
  <2>1. Follows(rooms[k], w, m)
    BY <1>8, <1>15
  <2>2. w.diff /\ \A q \in Needed(w.plan) : rooms[k].peers[q] # 0 \/ q \in w.connect \/ q = p
    BY <2>1, <1>3 DEF Follows, p, m
  <2>3. w.plan \in SUBSET Edges
    BY <1>2 DEF WorkRec
  <2>4. Needed(w.plan) \in SUBSET Sources
    BY <2>3, PlanTyped
  <2>5. n # 0
    BY <1>1 DEF n
  <2>6. QED
    BY <2>2, <2>4, <2>5, <1>8, <1>11 DEF Follows
<1>25. Under(S, k, D, u, <<>>)
  BY <1>4, <1>8, <1>15, <1>16, <1>18, <1>23, <1>24 DEF Under
<1>26. QED
  BY <1>8, <1>9, <1>25 DEF Proceeds, S, D, w, k

LEMMA DiffProceeds ==
  ASSUME NodeInv, NEW x \in Workers, Diff(x), Busy(rooms, current, conns, worker[x])
  PROVE  Proceeds(x)
<1> DEFINE w == worker[x]
           k == current
           old == rooms[k]
           e == Desired(w.plan)
           g == NewWiring(old, w.plan)
           drop == {p \in Sources : old.peers[p] # 0} \ Needed(w.plan)
           send == UNION {{<<c, s, old.received[s]>> : c \in g[s] \ old.wiring[s]} : s \in Sources}
           stop == UNION {{<<c, s>> : c \in old.wiring[s] \ e[s]} : s \in Sources}
           u == [w EXCEPT !.diff = FALSE, !.drop = drop, !.send = send, !.stop = stop]
           S == rooms'
<1>1. /\ rooms \in Seq(RoomRec) /\ conns \in Seq(ConnRec) /\ Len(conns) \in Nat
      /\ current \in 0..Len(rooms) /\ \A o \in 1..Len(rooms) : RoomOK(rooms[o], o, conns)
  BY DEF NodeInv, NodeOK
<1>2. w.at = "diff" /\ w \in WorkRec
  BY DEF Diff, NodeInv, NodeOK
<1>3. Under(rooms, k, conns, w, <<>>) /\ w.diff /\ w.connect = {}
  BY <1>2, BusyFields DEF Busy
<1>4. k # 0 /\ w.room = k /\ w.drop = {} /\ w.send = {} /\ w.stop = {} /\ ~w.tear
  BY <1>3 DEF Under
<1>5. OnFile(rooms, k, conns) /\ Matched(old, conns, w, <<>>) /\ (w.plan # {} => Follows(old, w, <<>>))
  BY <1>3, <1>4 DEF Under
<1>6. w.plan \in SUBSET Edges /\ k \in 1..Len(rooms)
  BY <1>1, <1>2, <1>4 DEF WorkRec
<1>7. e \in [Sources -> SUBSET Sources] /\ Needed(w.plan) \in SUBSET Sources
      /\ \A s \in Sources : e[s] \subseteq Needed(w.plan)
  BY <1>6, PlanTyped
<1>8. /\ worker' = WithWork(x, Settle(u)) /\ rooms' = WithWiring(rooms, k, g, e)
      /\ current' = current /\ conns' = conns
  BY <1>4 DEF Diff, WithWork, WithWiring, NewWiring
<1>9. /\ g \in [Sources -> SUBSET Sources]
      /\ S[k].peers = old.peers /\ S[k].received = old.received /\ S[k].wiring = g /\ S[k].lastDesired = e
      /\ \A s \in Sources : g[s] \subseteq e[s]
      /\ \A s \in Sources : old.received[s] # 0 => g[s] = e[s]
      /\ \A s \in Sources : old.received[s] = 0 => g[s] = old.wiring[s] \cap e[s]
  BY <1>6, <1>8, DiffFacts
<1>10. \A s \in Sources : old.wiring[s] \in SUBSET Sources /\ old.received[s] \in 0..Len(conns)
  BY <1>1, <1>6, RoomFields
<1> HIDE DEF g, e, old, S
<1>11. send \in SUBSET (Sources \X Sources \X Nat) /\ stop \in SUBSET (Sources \X Sources)
  BY <1>1, <1>7, <1>9, <1>10
<1>12. \A s, p \in Sources :
         /\ (\E j \in send : j[1] = p /\ j[2] = s) <=> p \in g[s] \ old.wiring[s]
         /\ <<p, s>> \in stop <=> p \in old.wiring[s] \ e[s]
  <2> SUFFICES ASSUME NEW s \in Sources, NEW p \in Sources
               PROVE  /\ (\E j \in send : j[1] = p /\ j[2] = s) <=> p \in g[s] \ old.wiring[s]
                      /\ <<p, s>> \in stop <=> p \in old.wiring[s] \ e[s]
    OBVIOUS
  <2>1. ASSUME NEW j \in send, j[1] = p, j[2] = s PROVE p \in g[s] \ old.wiring[s]
    BY <2>1
  <2>2. ASSUME p \in g[s] \ old.wiring[s] PROVE \E j \in send : j[1] = p /\ j[2] = s
    <3>1. <<p, s, old.received[s]>> \in send
      BY <2>2
    <3>2. QED
      BY <3>1
  <2>3. <<p, s>> \in stop <=> p \in old.wiring[s] \ e[s]
    OBVIOUS
  <2>4. QED
    BY <2>1, <2>2, <2>3
<1>13. \A i, j \in send : i[1] = j[1] /\ i[2] = j[2] => i = j
  <2>1. \A j \in send : j = <<j[1], j[2], old.received[j[2]]>>
    OBVIOUS
  <2>2. QED
    BY <2>1
<1>14. drop \in SUBSET Sources /\ \A p \in Sources : p \in drop <=> old.peers[p] # 0 /\ p \notin Needed(w.plan)
  OBVIOUS
<1> HIDE DEF drop, send, stop
<1>15. u \in WorkRec
  BY <1>2, <1>11, <1>14 DEF WorkRec
<1>16. /\ ~u.diff /\ u.drop = drop /\ u.send = send /\ u.stop = stop /\ u.tear = w.tear
       /\ u.connect = {} /\ u.plan = w.plan
  BY <1>2, <1>3, <1>15 DEF WorkRec
<1> HIDE DEF u, w
<1>17. Len(<<>>) # 3
  OBVIOUS
<1>18. ToSend(u, <<>>) = send /\ ToSend(w, <<>>) = {}
  BY <1>4, <1>16, <1>17 DEF ToSend
<1>19. \A s, p \in Sources : Carries(S[k], conns, s, p) <=> Carries(old, conns, s, p)
  BY <1>9 DEF Carries
<1>20. \A s, p \in Sources : p \in old.wiring[s] <=> Carries(old, conns, s, p)
  BY <1>4, <1>5, <1>18 DEF Matched, Awaits
<1>21. Matched(S[k], conns, u, <<>>)
  <2>1. ASSUME NEW s \in Sources, NEW p \in Sources
        PROVE  /\ Awaits(u, <<>>, s, p) => /\ p \in S[k].wiring[s] /\ ~Carries(S[k], conns, s, p)
                                           /\ p \notin u.drop
               /\ <<p, s>> \in u.stop => p \notin S[k].wiring[s]
               /\ p \in S[k].wiring[s] => Awaits(u, <<>>, s, p) \/ Carries(S[k], conns, s, p)
               /\ Carries(S[k], conns, s, p) => p \in S[k].wiring[s] \/ <<p, s>> \in u.stop
    <3>1. Awaits(u, <<>>, s, p) <=> p \in g[s] \ old.wiring[s]
      <4>1. Awaits(u, <<>>, s, p) <=> \E j \in send : j[1] = p /\ j[2] = s
        BY <1>18 DEF Awaits
      <4>2. QED
        <5>1. (\E j \in send : j[1] = p /\ j[2] = s) <=> p \in g[s] \ old.wiring[s]
          BY <1>12, Zenon
        <5>2. QED
          BY <4>1, <5>1, Zenon
    <3>2. <<p, s>> \in u.stop <=> p \in old.wiring[s] \ e[s]
      BY <1>12, <1>16
    <3>3. Carries(S[k], conns, s, p) <=> p \in old.wiring[s]
      BY <1>19, <1>20
    <3>4. p \in u.drop => p \notin Needed(w.plan)
      BY <1>14, <1>16
    <3>5. QED
      BY <3>1, <3>2, <3>3, <3>4, <1>7, <1>9
  <2>2. \A p, s \in Sources : S[k].peers[p] # 0 =>
          \E n \in Nat : conns[S[k].peers[p]].senders[s] \subseteq {n}
    BY <1>5, <1>9 DEF Matched
  <2>3. QED
    BY <2>1, <2>2, <1>13, <1>17, <1>18 DEF Matched
<1>22. u.plan # {} => Follows(S[k], u, <<>>)
  <2> SUFFICES ASSUME u.plan # {} PROVE Follows(S[k], u, <<>>)
    OBVIOUS
  <2>1. Follows(old, w, <<>>)
    BY <1>5, <1>16
  <2>2. \A p \in Needed(w.plan) : old.peers[p] # 0
    BY <2>1, <1>3 DEF Follows, w
  <2>3. \A p \in Needed(w.plan) : p \notin u.drop
    BY <1>7, <1>14, <1>16
  <2>4. \A p \in Sources : S[k].peers[p] # 0 => p \in Needed(w.plan) \/ p \in u.drop
    BY <1>9, <1>14, <1>16
  <2>5. QED
    BY <2>2, <2>3, <2>4, <1>9, <1>16 DEF Follows, e
<1>23. OnFile(S, k, conns)
  BY <1>5, <1>9 DEF OnFile, old
<1>24. Under(S, k, conns, u, <<>>)
  BY <1>4, <1>16, <1>21, <1>22, <1>23 DEF Under
<1>25. QED
  BY <1>8, <1>15, <1>16, <1>24 DEF Proceeds, S, w, k

LEMMA DropPeerProceeds ==
  ASSUME NodeInv, NEW x \in Workers, NEW p \in Sources, DropPeer(x, p),
         Busy(rooms, current, conns, worker[x])
  PROVE  Proceeds(x)
<1> DEFINE w == worker[x]
           R == Rooms
           k == RoomId
           u == [w EXCEPT !.drop = @ \ {p}]
           S == rooms'
           D == conns'
           c == Rooms[RoomId].peers[p]
<1>1. /\ NodeOK(R, k, conns, worker, callbacks, arrived) /\ k \in 1..Len(R) /\ k # 0
  BY Opened, BusyFields
<1>2. /\ R \in Seq(RoomRec) /\ conns \in Seq(ConnRec) /\ Len(conns) \in Nat
      /\ RoomOK(R[k], k, conns) /\ \A i \in 1..Len(conns) : ConnOK(conns[i], Len(R), Len(conns))
  BY <1>1 DEF NodeOK
<1>3. w.at = "drop" /\ w \in WorkRec /\ p \in w.drop
  BY DEF DropPeer, NodeInv, NodeOK
<1>4. Under(R, k, conns, w, <<>>)
  BY <1>3, BusyFields
<1>5. /\ u \in WorkRec /\ u.plan = w.plan /\ u.diff = w.diff /\ u.send = w.send /\ u.stop = w.stop
      /\ u.drop = w.drop \ {p} /\ u.tear = w.tear /\ u.room = w.room /\ u.connect = w.connect
  BY <1>3 DEF WorkRec
<1>6. /\ worker' = WithWork(x, Settle(u)) /\ rooms' = WithoutPeer(R, k, p)
      /\ conns' = DroppedConns(R, k, p) /\ current' = k
  BY DEF DropPeer, WithWork, WithoutPeer, DroppedConns, WithClosed
<1>7. /\ Len(D) = Len(conns)
      /\ \A i \in 1..Len(conns) : /\ D[i].peer = conns[i].peer /\ D[i].senders = conns[i].senders
                                  /\ D[i].open <=> conns[i].open /\ i # c
  BY <1>1, <1>6, DropFacts
<1>8. /\ S[k].lastDesired = R[k].lastDesired
      /\ \A q \in Sources :
           /\ S[k].peers[q] = IF q = p THEN 0 ELSE R[k].peers[q]
           /\ S[k].received[q] = IF q = p THEN 0 ELSE R[k].received[q]
           /\ S[k].wiring[q] = R[k].wiring[q] \ {p}
  BY <1>1, <1>2, <1>6, Dropped
<1> HIDE DEF u, S, D, R, k, w
<1>9. /\ OnFile(R, k, conns) /\ Matched(R[k], conns, w, <<>>) /\ (w.plan # {} => Follows(R[k], w, <<>>))
      /\ ~w.diff
      /\ w.tear => /\ w.connect = {} /\ w.send = {} /\ w.stop = {} /\ w.plan = {}
                   /\ \A q \in Sources : R[k].peers[q] # 0 => q \in w.drop
  BY <1>1, <1>3, <1>4 DEF Under
<1>10. \A q \in Sources : R[k].peers[q] \in 0..Len(conns)
  BY <1>2, RoomFields
<1>11. OnFile(S, k, D)
  <2> SUFFICES ASSUME NEW i \in 1..Len(conns), D[i].open PROVE S[k].peers[D[i].peer] = i
    BY <1>1, <1>7 DEF OnFile
  <2>1. conns[i].open /\ i # c /\ D[i].peer = conns[i].peer
    BY <1>7
  <2>2. R[k].peers[conns[i].peer] = i /\ conns[i].peer \in Sources
    BY <2>1, <1>2, <1>9 DEF OnFile, ConnOK, ConnRec
  <2>3. conns[i].peer # p
    BY <2>1, <2>2 DEF R, k
  <2>4. QED
    BY <2>1, <2>2, <2>3, <1>8
<1>12. \A s, q \in Sources : Carries(S[k], D, s, q) <=> q # p /\ Carries(R[k], conns, s, q)
  BY <1>7, <1>8, <1>10 DEF Carries
<1>13. ToSend(u, <<>>) = ToSend(w, <<>>) /\ Len(<<>>) # 3
  BY <1>5 DEF ToSend
<1>14. \A s, q \in Sources : Awaits(u, <<>>, s, q) <=> Awaits(w, <<>>, s, q)
  BY <1>13 DEF Awaits
<1>15. Matched(S[k], D, u, <<>>)
  <2>1. ASSUME NEW s \in Sources, NEW q \in Sources
        PROVE  /\ Awaits(u, <<>>, s, q) => /\ q \in S[k].wiring[s] /\ ~Carries(S[k], D, s, q)
                                           /\ q \notin u.drop
               /\ <<q, s>> \in u.stop => q \notin S[k].wiring[s]
               /\ q \in S[k].wiring[s] => Awaits(u, <<>>, s, q) \/ Carries(S[k], D, s, q)
               /\ Carries(S[k], D, s, q) => q \in S[k].wiring[s] \/ <<q, s>> \in u.stop
    BY <1>3, <1>5, <1>8, <1>9, <1>12, <1>14 DEF Matched
  <2>2. ASSUME NEW q \in Sources, NEW s \in Sources, S[k].peers[q] # 0
        PROVE  \E n \in Nat : D[S[k].peers[q]].senders[s] \subseteq {n}
    <3>1. S[k].peers[q] = R[k].peers[q] /\ R[k].peers[q] \in 1..Len(conns)
      BY <2>2, <1>2, <1>8, <1>10
    <3>2. D[R[k].peers[q]].senders = conns[R[k].peers[q]].senders
      BY <3>1, <1>7
    <3>3. \E n \in Nat : conns[R[k].peers[q]].senders[s] \subseteq {n}
      BY <3>1, <1>9 DEF Matched
    <3>4. QED
      BY <3>1, <3>2, <3>3
  <2>3. QED
    BY <2>1, <2>2, <1>9, <1>13 DEF Matched
<1>16. u.plan # {} => Follows(S[k], u, <<>>)
  <2> SUFFICES ASSUME u.plan # {} PROVE Follows(S[k], u, <<>>)
    OBVIOUS
  <2>1. w.plan \in SUBSET Edges
    BY <1>3 DEF WorkRec
  <2>2. Needed(w.plan) \in SUBSET Sources /\ \A s \in Sources : Desired(w.plan)[s] \subseteq Needed(w.plan)
    BY <2>1, PlanTyped
  <2>3. /\ w.connect = {} /\ R[k].lastDesired = Desired(w.plan)
        /\ \A q \in Needed(w.plan) : R[k].peers[q] # 0 /\ q \notin w.drop
        /\ \A q \in Sources : R[k].peers[q] # 0 => q \in Needed(w.plan) \/ q \in w.drop
        /\ \A s \in Sources : R[k].received[s] # 0 => R[k].wiring[s] = Desired(w.plan)[s]
    BY <1>5, <1>9 DEF Follows
  <2>4. p \notin Needed(w.plan)
    BY <2>3, <1>3
  <2>5. \A q \in Needed(w.plan) : S[k].peers[q] # 0 /\ q \notin u.drop
    BY <2>2, <2>3, <2>4, <1>5, <1>8
  <2>6. \A q \in Sources : S[k].peers[q] # 0 => q \in Needed(w.plan) \/ q \in u.drop
    BY <2>3, <1>5, <1>8
  <2>7. \A s \in Sources : S[k].received[s] # 0 => S[k].wiring[s] = Desired(w.plan)[s]
    <3> SUFFICES ASSUME NEW s \in Sources, S[k].received[s] # 0 PROVE S[k].wiring[s] = Desired(w.plan)[s]
      OBVIOUS
    <3>1. R[k].received[s] # 0 /\ S[k].wiring[s] = R[k].wiring[s] \ {p}
      BY <1>8
    <3>2. R[k].wiring[s] = Desired(w.plan)[s]
      BY <2>3, <3>1
    <3>3. p \notin Desired(w.plan)[s]
      BY <2>2, <2>4
    <3>4. QED
      BY <3>1, <3>2, <3>3
  <2>8. QED
    BY <2>3, <2>5, <2>6, <2>7, <1>5, <1>8, <1>9 DEF Follows
<1>17. u.tear => \A q \in Sources : S[k].peers[q] # 0 => q \in u.drop
  BY <1>5, <1>8, <1>9
<1>18. Under(S, k, D, u, <<>>)
  BY <1>1, <1>5, <1>9, <1>11, <1>15, <1>16, <1>17 DEF Under
<1>19. QED
  BY <1>5, <1>6, <1>18 DEF Proceeds, S, D, w

(* A registered connection sent one track of a source, or none.             *)
AlongFacts(R, k, p, s, T) ==
  LET D == WithSenders(conns, R[k].peers[p], s, T)
  IN  /\ OnFile(R, k, D)
      /\ \A t, q \in Sources : Carries(R[k], D, t, q) <=>
           IF t = s /\ q = p THEN T # {} ELSE Carries(R[k], conns, t, q)
      /\ \A q, t \in Sources : R[k].peers[q] # 0 =>
           \E n \in Nat : D[R[k].peers[q]].senders[t] \subseteq {n}

LEMMA ResentAlong ==
  ASSUME NEW R, NEW k \in 1..Len(R), NodeOK(R, k, conns, worker, callbacks, arrived),
         NEW p \in Sources, NEW s \in Sources, R[k].peers[p] # 0,
         NEW T \in SUBSET (1..Len(conns)), \E n \in Nat : T \subseteq {n},
         OnFile(R, k, conns), NEW w, NEW m, Matched(R[k], conns, w, m)
  PROVE  AlongFacts(R, k, p, s, T)
<1> DEFINE c == R[k].peers[p]
           D == WithSenders(conns, c, s, T)
<1>1. /\ conns \in Seq(ConnRec) /\ Len(conns) \in Nat /\ RoomOK(R[k], k, conns)
  BY DEF NodeOK
<1>2. \A q \in Sources : R[k].peers[q] # 0 =>
        R[k].peers[q] \in 1..Len(conns) /\ conns[R[k].peers[q]].peer = q
  BY <1>1, RoomFields
<1>3. c \in 1..Len(conns)
  BY <1>2
<1>4. /\ Len(D) = Len(conns)
      /\ \A i \in 1..Len(conns) : D[i].peer = conns[i].peer /\ D[i].open = conns[i].open
      /\ \A i \in 1..Len(conns), t \in Sources :
           D[i].senders[t] = IF i = c /\ t = s THEN T ELSE conns[i].senders[t]
  BY <1>3, ResendFacts
<1> HIDE DEF D
<1>5. OnFile(R, k, D)
  BY <1>4 DEF OnFile
<1>6. ASSUME NEW t \in Sources, NEW q \in Sources, R[k].peers[q] # 0
      PROVE  D[R[k].peers[q]].senders[t] = IF t = s /\ q = p THEN T ELSE conns[R[k].peers[q]].senders[t]
  <2>1. R[k].peers[q] \in 1..Len(conns) /\ conns[R[k].peers[q]].peer = q /\ conns[c].peer = p
    BY <1>2, <1>6
  <2>2. R[k].peers[q] = c <=> q = p
    BY <2>1
  <2>3. QED
    BY <2>1, <2>2, <1>4
<1>7. ASSUME NEW t \in Sources, NEW q \in Sources
      PROVE  Carries(R[k], D, t, q) <=>
               IF t = s /\ q = p THEN T # {} ELSE Carries(R[k], conns, t, q)
  BY <1>6 DEF Carries
<1>8. ASSUME NEW q \in Sources, NEW t \in Sources, R[k].peers[q] # 0
      PROVE  \E n \in Nat : D[R[k].peers[q]].senders[t] \subseteq {n}
  <2>1. \E n \in Nat : conns[R[k].peers[q]].senders[t] \subseteq {n}
    BY <1>8 DEF Matched
  <2>2. QED
    BY <2>1, <1>6, <1>8
<1>9. QED
  BY <1>5, <1>7, <1>8 DEF D, AlongFacts

LEMMA SendTrackProceeds ==
  ASSUME NodeInv, NEW x \in Workers, NEW job \in worker[x].send, SendTrack(x, job),
         Busy(rooms, current, conns, worker[x])
  PROVE  Proceeds(x)
<1> DEFINE w == worker[x]
           R == Rooms
           k == RoomId
           p == job[1]
           s == job[2]
           c == Rooms[RoomId].peers[job[1]]
           T == conns[c].senders[job[2]] \cup {job[3]}
           u == [w EXCEPT !.send = @ \ {job}]
           d == [w EXCEPT !.at = "create", !.send = @ \ {job}, !.into = RoomId, !.job = job]
           D == conns'
<1>1. NodeOK(R, k, conns, worker, callbacks, arrived) /\ k \in 1..Len(R) /\ k # 0
  BY Opened, BusyFields
<1>2. /\ R \in Seq(RoomRec) /\ conns \in Seq(ConnRec) /\ Len(conns) \in Nat /\ k \in Nat
      /\ RoomOK(R[k], k, conns) /\ \A i \in 1..Len(conns) : ConnOK(conns[i], Len(R), Len(conns))
  BY <1>1 DEF NodeOK
<1>3. w.at = "send" /\ w \in WorkRec /\ WorkOK(w, Len(R), Len(conns))
  BY <1>1 DEF SendTrack, NodeOK
<1>4. Under(R, k, conns, w, <<>>)
  BY <1>3, BusyFields
<1>5. /\ OnFile(R, k, conns) /\ Matched(R[k], conns, w, <<>>) /\ (w.plan # {} => Follows(R[k], w, <<>>))
      /\ ~w.diff /\ ~w.tear
  BY <1>1, <1>4 DEF Under
<1>6. job \in Sources \X Sources \X Nat /\ p \in Sources /\ s \in Sources /\ job[3] \in 1..Len(conns)
  <2>1. job \in Sources \X Sources \X Nat
    BY <1>3 DEF WorkRec
  <2>2. QED
    BY <2>1, <1>3 DEF WorkOK
<1>7. Len(<<>>) # 3 /\ Len(job) = 3
  BY <1>6
<1>8. job # <<>>
  <2>1. Len(job) # Len(<<>>)
    BY <1>7
  <2>2. QED
    BY <2>1, Zenon
<1>9. ToSend(w, <<>>) = w.send /\ <<>> \in Jobs /\ job \in Jobs
  BY <1>6, <1>7 DEF ToSend, Jobs
<1>10. p \notin w.drop /\ p \in R[k].wiring[s] /\ ~Carries(R[k], conns, s, p)
  BY <1>3, <1>5, <1>9, SentStay
<1>11. current' = k /\ rooms' = R
  BY DEF SendTrack
<1>12. \A j \in w.send : j[1] = p /\ j[2] = s => j = job
  BY <1>5, <1>9 DEF Matched
<1>13. CASE c # 0
  <2>1. /\ u \in WorkRec /\ u.plan = w.plan /\ u.diff = w.diff /\ u.send = w.send \ {job} /\ u.stop = w.stop
        /\ u.drop = w.drop /\ u.tear = w.tear /\ u.room = w.room /\ u.connect = w.connect
    BY <1>3 DEF WorkRec
  <2>2. c \in 1..Len(conns) /\ conns[c].open
    BY <1>2, <1>6, <1>13, RoomFields
  <2>3. worker' = WithWork(x, Settle(u)) /\ D = WithSenders(conns, c, s, T)
    BY <1>13, <2>2 DEF SendTrack, WithWork, WithSenders
  <2>4. conns[c].senders[s] = {}
    BY <1>10, <1>13 DEF Carries
  <2>5. T \in SUBSET (1..Len(conns)) /\ T # {} /\ \E n \in Nat : T \subseteq {n}
    <3>1. T = {job[3]} /\ job[3] \in Nat
      BY <2>4, <1>2, <1>6
    <3>2. QED
      BY <3>1, <1>6
  <2> HIDE DEF u, w, R, k, T, D, p, s
  <2>6. /\ OnFile(R, k, D)
        /\ \A t, q \in Sources : Carries(R[k], D, t, q) <=>
             IF t = s /\ q = p THEN T # {} ELSE Carries(R[k], conns, t, q)
        /\ \A q, t \in Sources : R[k].peers[q] # 0 =>
             \E n \in Nat : D[R[k].peers[q]].senders[t] \subseteq {n}
    <3>1. R[k].peers[p] = c
      BY DEF R, k, p
    <3>2. D = WithSenders(conns, R[k].peers[p], s, T)
      BY <2>3, <3>1
    <3>3. R[k].peers[p] # 0 /\ Matched(R[k], conns, w, <<>>) /\ OnFile(R, k, conns)
      BY <3>1, <1>5, <1>13
    <3> HIDE DEF c
    <3>4. AlongFacts(R, k, p, s, T)
      BY <3>3, <2>5, <1>1, <1>6, ResentAlong
    <3>5. QED
      BY <3>2, <3>4 DEF AlongFacts
  <2>7. ToSend(u, <<>>) = w.send \ {job}
    BY <2>1, <1>7 DEF ToSend
  <2>8. \A t, q \in Sources : Awaits(u, <<>>, t, q) <=> Awaits(w, <<>>, t, q) /\ ~(t = s /\ q = p)
    BY <2>7, <1>9, <1>12 DEF Awaits, s, p
  <2>9. Matched(R[k], D, u, <<>>)
    <3>1. ASSUME NEW t \in Sources, NEW q \in Sources
          PROVE  /\ Awaits(u, <<>>, t, q) => /\ q \in R[k].wiring[t] /\ ~Carries(R[k], D, t, q)
                                             /\ q \notin u.drop
                 /\ <<q, t>> \in u.stop => q \notin R[k].wiring[t]
                 /\ q \in R[k].wiring[t] => Awaits(u, <<>>, t, q) \/ Carries(R[k], D, t, q)
                 /\ Carries(R[k], D, t, q) => q \in R[k].wiring[t] \/ <<q, t>> \in u.stop
      <4>1. /\ Awaits(w, <<>>, t, q) => /\ q \in R[k].wiring[t] /\ ~Carries(R[k], conns, t, q)
                                        /\ q \notin w.drop
            /\ <<q, t>> \in w.stop => q \notin R[k].wiring[t]
            /\ q \in R[k].wiring[t] => Awaits(w, <<>>, t, q) \/ Carries(R[k], conns, t, q)
            /\ Carries(R[k], conns, t, q) => q \in R[k].wiring[t] \/ <<q, t>> \in w.stop
        BY <1>5 DEF Matched
      <4>2. QED
        BY <4>1, <2>1, <2>5, <2>6, <2>8, <1>10
    <3>2. QED
      BY <3>1, <2>6, <2>7, <1>5, <1>7, <1>9 DEF Matched
  <2>10. u.plan # {} => Follows(R[k], u, <<>>)
    BY <1>5, <2>1 DEF Follows
  <2>11. Under(R, k, D, u, <<>>)
    BY <1>1, <1>5, <2>1, <2>6, <2>9, <2>10 DEF Under
  <2>12. QED
    BY <1>11, <2>1, <2>3, <2>11 DEF Proceeds, D, w
<1>14. CASE c = 0
  <2>1. w.send \ {job} \in SUBSET (Sources \X Sources \X Nat)
    BY <1>3 DEF WorkRec
  <2>2. d \in WorkRec
    BY <2>1, <1>2, <1>3, <1>9 DEF WorkRec
  <2>3. /\ d.plan = w.plan /\ d.diff = w.diff /\ d.send = w.send \ {job} /\ d.stop = w.stop
        /\ d.drop = w.drop /\ d.tear = w.tear /\ d.at = "create" /\ d.into = k /\ d.job = job
    BY <1>3, <2>2 DEF WorkRec
  <2>4. worker' = WithWork(x, d) /\ conns' = conns
    BY <1>14 DEF SendTrack, WithWork
  <2> HIDE DEF d, w
  <2>5. ToSend(d, job) = ToSend(w, <<>>) /\ job \notin d.send
    BY <2>3, <1>7, <1>9 DEF ToSend
  <2>6. \A j \in ToSend(d, job) : j[1] \notin d.drop
    BY <2>3, <2>5, <1>3, <1>5, <1>9, SentStay
  <2>7. Matched(R[k], conns, d, job)
    BY <2>3, <2>5, <2>6, <1>5, MatchedSame
  <2>8. d.plan = {}
    <3> SUFFICES ASSUME w.plan # {} PROVE FALSE
      BY <2>3
    <3>1. R[k].lastDesired = Desired(w.plan) /\ \A q \in Needed(w.plan) : R[k].peers[q] # 0
      BY <1>5 DEF Follows
    <3>2. w.plan \in SUBSET Edges
      BY <1>3 DEF WorkRec
    <3>3. p \in R[k].lastDesired[s]
      BY <1>2, <1>6, <1>10, RoomFields
    <3>4. p \in Needed(w.plan)
      BY <3>1, <3>2, <3>3, <1>6, PlanTyped
    <3>5. QED
      BY <3>1, <3>4, <1>14
  <2>9. Under(R, k, conns, d, job)
    BY <1>1, <1>5, <1>14, <2>3, <2>7, <2>8 DEF Under
  <2>10. Busy(R, k, conns, d)
    BY <1>1, <2>3, <2>9 DEF Busy, Making
  <2>11. QED
    BY <1>11, <2>2, <2>3, <2>4, <2>10 DEF Proceeds
<1>15. QED
  BY <1>13, <1>14

LEMMA StopSourceProceeds ==
  ASSUME NodeInv, NEW x \in Workers, NEW job \in worker[x].stop, StopSource(x, job),
         Busy(rooms, current, conns, worker[x])
  PROVE  Proceeds(x)
<1> DEFINE w == worker[x]
           R == Rooms
           k == RoomId
           p == job[1]
           s == job[2]
           c == Rooms[RoomId].peers[job[1]]
           u == [w EXCEPT !.stop = @ \ {job}]
           D == conns'
<1>1. NodeOK(R, k, conns, worker, callbacks, arrived) /\ k \in 1..Len(R) /\ k # 0
  BY Opened, BusyFields
<1>2. /\ conns \in Seq(ConnRec) /\ Len(conns) \in Nat /\ RoomOK(R[k], k, conns)
  BY <1>1 DEF NodeOK
<1>3. w.at = "stop" /\ w \in WorkRec
  BY <1>1 DEF StopSource, NodeOK
<1>4. Under(R, k, conns, w, <<>>)
  BY <1>3, BusyFields
<1>5. /\ OnFile(R, k, conns) /\ Matched(R[k], conns, w, <<>>) /\ (w.plan # {} => Follows(R[k], w, <<>>))
      /\ ~w.diff /\ ~w.tear
  BY <1>1, <1>4 DEF Under
<1>6. job = <<p, s>> /\ p \in Sources /\ s \in Sources
  <2>1. job \in Sources \X Sources
    BY <1>3 DEF WorkRec
  <2>2. QED
    BY <2>1
<1>7. p \notin R[k].wiring[s] /\ ~Awaits(w, <<>>, s, p)
  BY <1>5, <1>6 DEF Matched
<1>8. /\ u \in WorkRec /\ u.plan = w.plan /\ u.diff = w.diff /\ u.send = w.send /\ u.stop = w.stop \ {job}
      /\ u.drop = w.drop /\ u.tear = w.tear /\ u.connect = w.connect
  BY <1>3 DEF WorkRec
<1>9. worker' = WithWork(x, Settle(u)) /\ current' = k /\ rooms' = R
  BY DEF StopSource, WithWork
<1>10. /\ OnFile(R, k, D)
       /\ \A t, q \in Sources : Carries(R[k], D, t, q) <=>
            ~(t = s /\ q = p) /\ Carries(R[k], conns, t, q)
       /\ \A q, t \in Sources : R[k].peers[q] # 0 =>
            \E n \in Nat : D[R[k].peers[q]].senders[t] \subseteq {n}
  <2>1. CASE c = 0
    <3>1. D = conns /\ ~Carries(R[k], conns, s, p)
      BY <2>1 DEF StopSource, Carries
    <3> HIDE DEF D, R, k, p, s, w
    <3>2. QED
      BY <3>1, <1>5 DEF Matched
  <2>2. CASE c # 0
    <3>1. D = WithSenders(conns, R[k].peers[p], s, {}) /\ R[k].peers[p] # 0
      BY <2>2 DEF StopSource, WithSenders
    <3>2. {} \in SUBSET (1..Len(conns)) /\ \E n \in Nat : {} \subseteq {n}
      OBVIOUS
    <3> HIDE DEF D, R, k, p, s, w
    <3>3. AlongFacts(R, k, p, s, {})
      BY <3>1, <3>2, <1>1, <1>5, <1>6, ResentAlong
    <3>4. QED
      BY <3>1, <3>3 DEF AlongFacts
  <2>3. QED
    BY <2>1, <2>2
<1> HIDE DEF D, R, k, p, s, w, u
<1>11. ToSend(u, <<>>) = ToSend(w, <<>>) /\ Len(<<>>) # 3
  BY <1>8 DEF ToSend
<1>12. \A t, q \in Sources : Awaits(u, <<>>, t, q) <=> Awaits(w, <<>>, t, q)
  BY <1>11 DEF Awaits
<1>13. \A t, q \in Sources : <<q, t>> \in u.stop <=> <<q, t>> \in w.stop /\ ~(t = s /\ q = p)
  BY <1>6, <1>8
<1>14. Matched(R[k], D, u, <<>>)
  <2>1. ASSUME NEW t \in Sources, NEW q \in Sources
        PROVE  /\ Awaits(u, <<>>, t, q) => /\ q \in R[k].wiring[t] /\ ~Carries(R[k], D, t, q)
                                           /\ q \notin u.drop
               /\ <<q, t>> \in u.stop => q \notin R[k].wiring[t]
               /\ q \in R[k].wiring[t] => Awaits(u, <<>>, t, q) \/ Carries(R[k], D, t, q)
               /\ Carries(R[k], D, t, q) => q \in R[k].wiring[t] \/ <<q, t>> \in u.stop
    <3>1. /\ Awaits(w, <<>>, t, q) => /\ q \in R[k].wiring[t] /\ ~Carries(R[k], conns, t, q)
                                      /\ q \notin w.drop
          /\ <<q, t>> \in w.stop => q \notin R[k].wiring[t]
          /\ q \in R[k].wiring[t] => Awaits(w, <<>>, t, q) \/ Carries(R[k], conns, t, q)
          /\ Carries(R[k], conns, t, q) => q \in R[k].wiring[t] \/ <<q, t>> \in w.stop
      BY <1>5 DEF Matched
    <3>2. QED
      BY <3>1, <1>7, <1>8, <1>10, <1>12, <1>13
  <2>2. QED
    BY <2>1, <1>5, <1>10, <1>11 DEF Matched
<1>15. u.plan # {} => Follows(R[k], u, <<>>)
  BY <1>5, <1>8 DEF Follows
<1>16. Under(R, k, D, u, <<>>)
  BY <1>1, <1>5, <1>8, <1>10, <1>14, <1>15 DEF Under
<1>17. QED
  BY <1>8, <1>9, <1>16 DEF Proceeds, D, w

(* A track comes over a connection that is on file.  Whoever is wanted and  *)
(* not wired yet gets it; if nobody is, this is over at once.               *)
LEMMA TrackArrivesProceeds ==
  ASSUME NodeInv, NEW x \in Workers, NEW c \in 1..Len(conns), NEW s \in Sources,
         TrackArrives(x, c, s), NEW w \in WorkRec, Busy(rooms, current, conns, w)
  PROVE  \/ worker' = worker /\ Busy(rooms', current', conns', w)
         \/ worker'[x].at # "idle" /\ (w = NoWork => Proceeds(x))
<1> DEFINE k == current
           o == conns[c].room
           T == rooms[o].lastDesired[s] \ rooms[o].wiring[s]
           u == [NoWork EXCEPT !.send = {<<child, s, c>> : child \in T}]
           S == rooms'
<1>1. /\ rooms \in Seq(RoomRec) /\ conns \in Seq(ConnRec) /\ Len(conns) \in Nat
      /\ current \in 0..Len(rooms) /\ \A i \in 1..Len(rooms) : RoomOK(rooms[i], i, conns)
      /\ \A i \in 1..Len(conns) : ConnOK(conns[i], Len(rooms), Len(conns))
      /\ worker \in [Workers -> WorkRec] /\ worker[x] = NoWork
  BY DEF NodeInv, NodeOK, WorkOK, TrackArrives
<1>2. Under(rooms, k, conns, w, Making(w)) /\ OnFile(rooms, k, conns) /\ conns[c].open
  BY DEF Busy, Under, TrackArrives
<1>3. k # 0 /\ rooms[k].peers[conns[c].peer] = c /\ conns[c].peer \in Sources
  BY <1>1, <1>2 DEF OnFile, ConnOK, ConnRec
<1>4. k \in 1..Len(rooms) /\ o = k
  <2>1. k \in 1..Len(rooms)
    BY <1>1, <1>3
  <2>2. QED
    BY <2>1, <1>1, <1>3, RoomFields
<1>5. /\ T \in SUBSET Sources
      /\ S[k].peers = rooms[k].peers /\ S[k].lastDesired = rooms[k].lastDesired
      /\ \A t \in Sources :
           /\ S[k].received[t] = IF t = s THEN c ELSE rooms[k].received[t]
           /\ S[k].wiring[t] = IF t = s THEN rooms[k].wiring[s] \cup T ELSE rooms[k].wiring[t]
  <2>1. S = WithTrack(rooms, o, s, c, T)
    BY DEF TrackArrives, WithTrack
  <2>2. /\ T \in SUBSET Sources
        /\ WithTrack(rooms, o, s, c, T)[o].peers = rooms[o].peers
        /\ WithTrack(rooms, o, s, c, T)[o].lastDesired = rooms[o].lastDesired
        /\ \A t \in Sources :
             /\ WithTrack(rooms, o, s, c, T)[o].received[t] = IF t = s THEN c ELSE rooms[o].received[t]
             /\ WithTrack(rooms, o, s, c, T)[o].wiring[t] =
                  IF t = s THEN rooms[o].wiring[s] \cup T ELSE rooms[o].wiring[t]
    BY TrackFacts
  <2> HIDE DEF S, T, o, k
  <2>3. QED
    BY <2>1, <2>2, <1>4
<1>6. /\ worker' = WithWork(x, Settle(u)) /\ current' = k /\ conns' = conns
  BY DEF TrackArrives, WithWork
<1>7. T = rooms[k].lastDesired[s] \ rooms[k].wiring[s]
  BY <1>4
<1> HIDE DEF S, k, o, T
<1>8. \A t, q \in Sources : Carries(S[k], conns, t, q) <=> Carries(rooms[k], conns, t, q)
  BY <1>5 DEF Carries
<1>9. OnFile(S, k, conns)
  BY <1>2, <1>5 DEF OnFile
<1>10. CASE T = {}
  <2>1. {<<child, s, c>> : child \in T} = {}
    BY <1>10
  <2>2. u = NoWork
    <3>1. NoWork \in WorkRec /\ NoWork.send = {}
      BY NoWorkTyped, NoWorkFields
    <3>2. u = [NoWork EXCEPT !.send = NoWork.send]
      BY <2>1, <3>1
    <3>3. QED
      BY <3>1, <3>2 DEF WorkRec
  <2>3. Settle(NoWork) = NoWork
    BY DEF Settle, NoWork
  <2>4. worker' = worker
    BY <2>2, <2>3, <1>1, <1>6 DEF WithWork
  <2>5. \A t \in Sources : S[k].wiring[t] = rooms[k].wiring[t]
    BY <1>5, <1>10
  <2>6. Matched(rooms[k], conns, w, Making(w))
    BY <1>2, <1>3 DEF Under
  <2> HIDE DEF u
  <2>7. Matched(S[k], conns, w, Making(w))
    <3>1. ASSUME NEW t \in Sources, NEW q \in Sources
          PROVE  /\ Awaits(w, Making(w), t, q) =>
                      q \in S[k].wiring[t] /\ ~Carries(S[k], conns, t, q) /\ q \notin w.drop
                 /\ <<q, t>> \in w.stop => q \notin S[k].wiring[t]
                 /\ q \in S[k].wiring[t] => Awaits(w, Making(w), t, q) \/ Carries(S[k], conns, t, q)
                 /\ Carries(S[k], conns, t, q) => q \in S[k].wiring[t] \/ <<q, t>> \in w.stop
      BY <2>5, <2>6, <1>8 DEF Matched
    <3>2. \A p, t \in Sources : S[k].peers[p] # 0 =>
            \E n \in Nat : conns[S[k].peers[p]].senders[t] \subseteq {n}
      BY <2>6, <1>5 DEF Matched
    <3>3. QED
      BY <3>1, <3>2, <2>6 DEF Matched
  <2>8. ASSUME w.plan # {}
        PROVE  Follows(S[k], w, Making(w))
    <3>1. Follows(rooms[k], w, Making(w))
      BY <2>8, <1>2, <1>3 DEF Under
    <3>2. CASE w.diff
      BY <3>1, <3>2, <1>5 DEF Follows
    <3>3. CASE ~w.diff
      <4>1. rooms[k].wiring[s] = rooms[k].lastDesired[s]
        <5>1. rooms[k].wiring[s] \subseteq rooms[k].lastDesired[s]
          BY <1>1, <1>4, RoomFields
        <5>2. QED
          BY <5>1, <1>7, <1>10
      <4>2. rooms[k].lastDesired = Desired(w.plan)
        BY <3>1, <3>3 DEF Follows
      <4>3. \A t \in Sources : S[k].received[t] # 0 => S[k].wiring[t] = Desired(w.plan)[t]
        BY <3>1, <3>3, <4>1, <4>2, <2>5, <1>5 DEF Follows
      <4>4. QED
        BY <3>1, <3>3, <4>3, <1>5 DEF Follows
    <3>4. QED
      BY <3>2, <3>3
  <2>9. Under(S, k, conns, w, Making(w))
    BY <2>7, <2>8, <1>2, <1>3, <1>5, <1>9 DEF Under
  <2>10. Busy(S, k, conns, w)
    BY <2>9 DEF Busy, k
  <2>11. QED
    BY <2>4, <2>10, <1>6 DEF S
<1>11. ASSUME T # {}
       PROVE  worker'[x].at # "idle" /\ (w = NoWork => Proceeds(x))
  <2>1. {<<child, s, c>> : child \in T} \in SUBSET (Sources \X Sources \X Nat)
    BY <1>1, <1>5
  <2>2. /\ u \in WorkRec /\ ~u.diff /\ u.send = {<<child, s, c>> : child \in T} /\ u.stop = {} /\ u.drop = {}
        /\ ~u.tear /\ u.plan = {} /\ u.connect = {}
    BY <2>1, NoWorkTyped, NoWorkFields DEF WorkRec
  <2> HIDE DEF u
  <2>0. worker'[x].at # "idle"
    <3>1. Settle(u) \in WorkRec /\ Settle(u).send = u.send /\ (Settle(u).at = "idle" => Settle(u) = NoWork)
      BY <2>2, Settled
    <3>2. worker'[x] = Settle(u)
      BY <3>1, <1>1, <1>6, Works
    <3>3. u.send # {}
      BY <2>2, <1>11
    <3>4. QED
      BY <3>1, <3>2, <3>3, NoWorkFields
  <2> SUFFICES ASSUME w = NoWork PROVE Proceeds(x)
    BY <2>0
  <2>3. ToSend(u, <<>>) = {<<child, s, c>> : child \in T} /\ ToSend(NoWork, <<>>) = {} /\ Len(<<>>) # 3
    BY <2>2, NoWorkFields DEF ToSend
  <2>4. Making(w) = <<>>
    BY NoWorkFields DEF Making
  <2>5. \A t, q \in Sources : Awaits(u, <<>>, t, q) <=> t = s /\ q \in T
    <3> SUFFICES ASSUME NEW t \in Sources, NEW q \in Sources PROVE Awaits(u, <<>>, t, q) <=> t = s /\ q \in T
      OBVIOUS
    <3>1. ASSUME t = s, q \in T PROVE Awaits(u, <<>>, t, q)
      <4>1. <<q, s, c>> \in ToSend(u, <<>>)
        BY <3>1, <2>3
      <4>2. QED
        BY <3>1, <4>1 DEF Awaits
    <3>2. ASSUME Awaits(u, <<>>, t, q) PROVE t = s /\ q \in T
      BY <3>2, <2>3 DEF Awaits
    <3>3. QED
      BY <3>1, <3>2
  <2>6. \A t, q \in Sources : q \in rooms[k].wiring[t] <=> Carries(rooms[k], conns, t, q)
    <3>1. Matched(rooms[k], conns, NoWork, <<>>)
      BY <2>4, <1>2, <1>3 DEF Under
    <3>2. \A t, q \in Sources : ~Awaits(NoWork, <<>>, t, q)
      BY <2>3 DEF Awaits
    <3>3. QED
      BY <3>1, <3>2, NoWorkFields DEF Matched
  <2>7. Matched(S[k], conns, u, <<>>)
    <3>1. ASSUME NEW t \in Sources, NEW q \in Sources
          PROVE  /\ Awaits(u, <<>>, t, q) => /\ q \in S[k].wiring[t] /\ ~Carries(S[k], conns, t, q)
                                             /\ q \notin u.drop
                 /\ q \in S[k].wiring[t] => Awaits(u, <<>>, t, q) \/ Carries(S[k], conns, t, q)
                 /\ Carries(S[k], conns, t, q) => q \in S[k].wiring[t]
      BY <2>2, <2>5, <2>6, <1>5, <1>7, <1>8
    <3>2. \A i, j \in ToSend(u, <<>>) : i[1] = j[1] /\ i[2] = j[2] => i = j
      BY <2>3
    <3>3. \A p, t \in Sources : S[k].peers[p] # 0 =>
            \E n \in Nat : conns[S[k].peers[p]].senders[t] \subseteq {n}
      <4>1. Matched(rooms[k], conns, w, Making(w))
        BY <1>2, <1>3 DEF Under
      <4>2. QED
        BY <4>1, <1>5 DEF Matched
    <3>4. QED
      BY <3>1, <3>2, <3>3, <2>2, <2>3 DEF Matched
  <2>8. Under(S, k, conns, u, <<>>)
    BY <2>2, <2>7, <1>3, <1>9 DEF Under
  <2>9. QED
    BY <2>2, <2>8, <1>1, <1>6, NoWorkFields DEF Proceeds, S
<1>12. QED
  BY <1>10, <1>11

(* A goroutine that does something while the others idle is the work.       *)
LEMMA InTurn ==
  ASSUME NodeInv, Turns, Turns', NEW x \in Workers, NEW v \in WorkRec, worker' = WithWork(x, v),
         worker[x].at # "idle" \/ v.at # "idle"
  PROVE  TheWork(worker) = worker[x]
<1>1. /\ worker \in [Workers -> WorkRec] /\ \A y \in Workers : worker[y].at = "idle" => worker[y] = NoWork
  BY DEF NodeInv, NodeOK, WorkOK
<1>2. worker' \in [Workers -> WorkRec] /\ worker'[x] = v /\ \A y \in Workers \ {x} : worker'[y] = worker[y]
  BY <1>1, Works
<1>3. \A y \in Workers \ {x} : worker[y].at = "idle"
  BY <1>2 DEF Turns
<1>4. QED
  BY <1>1, <1>3, TheWorkIs

LEMMA StartsInTurn ==
  ASSUME NodeInv, Turns, Turns', NEW x \in Workers,
         \/ \E plan \in Plans : Reconcile(x, plan)
         \/ \E p \in Peers : HandleSignal(x, p)
         \/ \E c \in callbacks : StateChange(x, c)
  PROVE  TheWork(worker) = worker[x]
<1>1. ASSUME NEW plan \in Plans, Reconcile(x, plan)
      PROVE  TheWork(worker) = worker[x]
  <2> DEFINE u == [NoWork EXCEPT !.room = RoomId, !.plan = plan, !.diff = TRUE, !.connect = Needed(plan)]
             l == [NoWork EXCEPT !.at = "list", !.room = RoomId]
  <2>1. plan \in SUBSET Edges /\ Needed(plan) \in SUBSET Sources /\ RoomId \in Nat
    BY RelayAssumption, PlanTyped, Opened DEF NodeOK
  <2>2. u \in WorkRec /\ u.diff /\ l \in WorkRec /\ l.at = "list"
    BY <2>1, NoWorkTyped DEF WorkRec
  <2>3. worker' = WithWork(x, Settle(u)) \/ worker' = WithWork(x, l)
    <3>1. CASE ServerPresent(plan)
      BY <3>1, <1>1 DEF Reconcile, WithWork
    <3>2. CASE ~ServerPresent(plan)
      BY <3>2, <1>1 DEF Reconcile, WithWork
    <3>3. QED
      BY <3>1, <3>2
  <2> HIDE DEF u, l
  <2>4. Settle(u) \in WorkRec /\ Settle(u).at # "idle"
    BY <2>2, Settled
  <2>5. QED
    BY <2>2, <2>3, <2>4, InTurn
<1>2. ASSUME NEW p \in Peers, HandleSignal(x, p)
      PROVE  TheWork(worker) = worker[x]
  <2> DEFINE u == [NoWork EXCEPT !.connect = {p}]
  <2>1. u \in WorkRec /\ u.connect = {p}
    BY NoWorkTyped DEF WorkRec, Sources
  <2>2. worker' = WithWork(x, Settle(u))
    BY <1>2 DEF HandleSignal, WithWork
  <2> HIDE DEF u
  <2>3. Settle(u) \in WorkRec /\ Settle(u).at # "idle"
    BY <2>1, Settled, NoWorkFields
  <2>4. QED
    BY <2>2, <2>3, InTurn
<1>3. ASSUME NEW c \in callbacks, StateChange(x, c)
      PROVE  TheWork(worker) = worker[x]
  <2> DEFINE u == [NoWork EXCEPT !.drop = {conns[c].peer}]
  <2>1. conns[c].peer \in Sources
    BY DEF NodeInv, NodeOK, ConnOK, ConnRec
  <2>2. u \in WorkRec /\ u.drop = {conns[c].peer}
    BY <2>1, NoWorkTyped DEF WorkRec
  <2>3. worker' = WithWork(x, Settle(u))
    BY <1>3 DEF StateChange, WithWork
  <2> HIDE DEF u
  <2>4. Settle(u) \in WorkRec /\ Settle(u).at # "idle"
    BY <2>2, Settled, NoWorkFields
  <2>5. QED
    BY <2>3, <2>4, InTurn
<1>4. QED
  BY <1>1, <1>2, <1>3

LEMMA GoesOnInTurn ==
  ASSUME NodeInv, Turns, NEW x \in Workers, WorkerStep(x)
  PROVE  TheWork(worker) = worker[x]
<1>1. worker[x].at # "idle"
  BY DEF WorkerStep, ListPeers, DeleteRoom, Connect, DropPeer, CreateConn, CreateFails, Diff, SendTrack,
         StopSource
<1>2. \A y \in Workers \ {x} : worker[y].at = "idle"
  BY <1>1 DEF Turns
<1>3. QED
  BY <1>1, <1>2, TheWorkIs

LEMMA NeverFails ==
  ASSUME NodeInv, NoneRefused, NEW x \in Workers
  PROVE  ~CreateFails(x)
<1> SUFFICES ASSUME CreateFails(x) PROVE FALSE
  OBVIOUS
<1> DEFINE u == [worker[x] EXCEPT !.into = 0, !.job = <<>>]
<1>1. worker \in [Workers -> WorkRec] /\ worker[x] \in WorkRec
  BY DEF NodeInv, NodeOK
<1>2. u \in WorkRec
  BY <1>1 DEF WorkRec, Jobs
<1>3. worker' = WithWork(x, Settle(u)) /\ worker[x].at = "create" /\ conns' = conns
  BY DEF CreateFails, WithWork
<1> HIDE DEF u
<1>4. Settle(u) \in WorkRec /\ Settle(u).at # "create"
  BY <1>2, Settled
<1>5. worker'[x] # worker[x]
  BY <1>1, <1>3, <1>4, Works
<1>6. QED
  BY <1>3, <1>5 DEF NoneRefused

CalmStep ==
  \/ \E x \in Workers : Proceeds(x) /\ TheWork(worker) = worker[x]
  \/ worker' = worker /\ Busy(rooms', current', conns', TheWork(worker))

LEMMA StepsCalmly ==
  ASSUME NodeInv, NodeInv', Turns, Turns', NoneRefused, RelayNext,
         Busy(rooms, current, conns, TheWork(worker))
  PROVE  CalmStep
<1>1. ASSUME NEW x \in Workers, WorkerStep(x)
      PROVE  CalmStep
  <2>1. TheWork(worker) = worker[x]
    BY <1>1, GoesOnInTurn
  <2>2. Proceeds(x)
    BY <1>1, <2>1, NeverFails, ListPeersProceeds, DeleteRoomProceeds, ConnectProceeds, DropPeerProceeds,
       CreateConnProceeds, DiffProceeds, SendTrackProceeds, StopSourceProceeds DEF WorkerStep
  <2>3. QED
    BY <2>1, <2>2 DEF CalmStep
<1>2. ASSUME NEW x \in Workers,
             \/ \E plan \in Plans : Reconcile(x, plan)
             \/ \E p \in Peers : HandleSignal(x, p)
             \/ \E c \in callbacks : StateChange(x, c)
      PROVE  CalmStep
  <2>1. TheWork(worker) = worker[x]
    BY <1>2, StartsInTurn
  <2>2. Proceeds(x)
    BY <1>2, <2>1, ReconcileProceeds, HandleSignalProceeds, StateChangeProceeds
  <2>3. QED
    BY <2>1, <2>2 DEF CalmStep
<1>3. ASSUME NEW c \in 1..Len(conns), ConnectionFails(c)
      PROVE  CalmStep
  BY <1>3 DEF ConnectionFails, CalmStep
<1>4. ASSUME NEW x \in Workers, NEW c \in 1..Len(conns), NEW s \in Sources, TrackArrives(x, c, s)
      PROVE  CalmStep
  <2>1. TheWork(worker) \in WorkRec /\ worker \in [Workers -> WorkRec] /\ worker' \in [Workers -> WorkRec]
    <3>1. /\ worker \in [Workers -> WorkRec] /\ worker' \in [Workers -> WorkRec]
      BY DEF NodeInv, NodeOK
    <3>2. CASE \E y \in Workers : worker[y].at # "idle"
      BY <3>1, <3>2 DEF TheWork
    <3>3. CASE ~\E y \in Workers : worker[y].at # "idle"
      BY <3>1, <3>3, NoWorkTyped DEF TheWork
    <3>4. QED
      BY <3>1, <3>2, <3>3
  <2>2. CASE worker' = worker /\ Busy(rooms', current', conns', TheWork(worker))
    BY <2>2 DEF CalmStep
  <2>3. CASE worker'[x].at # "idle" /\ (TheWork(worker) = NoWork => Proceeds(x))
    <3>1. worker' = WithWork(x, worker'[x])
      BY <1>4, <2>1 DEF TrackArrives, WithWork
    <3>2. TheWork(worker) = worker[x]
      BY <2>1, <2>3, <3>1, InTurn
    <3>3. worker[x] = NoWork
      BY <1>4 DEF TrackArrives, NodeInv, NodeOK, WorkOK
    <3>4. QED
      BY <2>3, <3>2, <3>3 DEF CalmStep
  <2>4. QED
    BY <1>4, <2>1, <2>2, <2>3, TrackArrivesProceeds
<1>5. QED
  BY <1>1, <1>2, <1>3, <1>4 DEF RelayNext

LEMMA StaysBusy ==
  ASSUME NodeInv, Turns, Turns', CalmStep
  PROVE  Busy(rooms', current', conns', TheWork(worker'))
<1>1. CASE worker' = worker /\ Busy(rooms', current', conns', TheWork(worker))
  BY <1>1
<1>2. ASSUME NEW x \in Workers, Proceeds(x), TheWork(worker) = worker[x]
      PROVE  Busy(rooms', current', conns', TheWork(worker'))
  <2>1. PICK v \in WorkRec : /\ worker' = WithWork(x, v) /\ Busy(rooms', current', conns', v)
                             /\ v.at = "idle" => v = NoWork
    <3>1. ASSUME NEW u \in WorkRec, worker' = WithWork(x, Settle(u)), Under(rooms', current', conns', u, <<>>)
          PROVE  \E v \in WorkRec : /\ worker' = WithWork(x, v) /\ Busy(rooms', current', conns', v)
                                    /\ v.at = "idle" => v = NoWork
      BY <3>1, Settled, BusySettles
    <3>2. QED
      BY <3>1, <1>2 DEF Proceeds
  <2>2. worker' = worker \/ TheWork(worker') = v
    BY <2>1, OneAtWork
  <2>3. worker \in [Workers -> WorkRec]
    BY DEF NodeInv, NodeOK
  <2>4. worker' = worker => worker[x] = v
    BY <2>1, <2>3, Works
  <2>5. QED
    BY <2>1, <2>2, <2>4, <1>2
<1>3. QED
  BY <1>1, <1>2 DEF CalmStep

-----------------------------------------------------------------------------
(* The node among the other exchanges.                                      *)
CalmNodeInv == calm => Turns /\ Busy(rooms, current, conns, TheWork(worker))
NodeIInv == calm \in BOOLEAN /\ NodeInv /\ CalmNodeInv

LEMMA NodeInit == MCInit => NodeIInv
<1> SUFFICES ASSUME MCInit PROVE NodeIInv
  OBVIOUS
<1>1. /\ calm \in BOOLEAN /\ rooms = <<>> /\ current = 0 /\ conns = <<>>
      /\ worker = [x \in Workers |-> NoWork] /\ callbacks = {} /\ arrived = {} /\ events = 0
  BY DEF MCInit, RelayInit
<1>2. WorkOK(NoWork, 0, 0)
  BY NoWorkTyped DEF NoWork, WorkOK
<1>3. NodeInv
  BY <1>1, <1>2, NoWorkTyped, RelayAssumption DEF NodeInv, NodeOK
<1>4. \A x \in Workers : worker[x].at = "idle"
  BY <1>1, NoWorkFields
<1>5. TheWork(worker) = NoWork
  BY <1>4 DEF TheWork
<1>6. Busy(rooms, current, conns, NoWork)
  BY <1>1, NoWorkFields DEF Busy, Under, OnFile, Making
<1>7. QED
  BY <1>1, <1>3, <1>4, <1>5, <1>6 DEF NodeIInv, CalmNodeInv, Turns

NodeNext == RelayNext /\ calm' = calm /\ (calm => Turns' /\ NoneRefused)
NodeIdles == UNCHANGED nodeVars /\ calm' = calm

LEMMA NodeAmongOthers == [MCNext]_<<first, second, service, calm>> => NodeNext \/ NodeIdles
BY DEF MCNext, NodeNext, NodeIdles, first

LEMMA NodeNextKeeps == NodeIInv /\ (NodeNext \/ NodeIdles) => NodeIInv'
<1> SUFFICES ASSUME NodeIInv, NodeNext \/ NodeIdles PROVE NodeIInv'
  OBVIOUS
<1>1. CASE NodeIdles
  BY <1>1 DEF NodeIdles, nodeVars, NodeIInv, NodeInv, NodeOK, CalmNodeInv, Turns
<1>2. CASE NodeNext
  <2>1. NodeInv' /\ calm' \in BOOLEAN
    BY <1>2, NodeStep DEF NodeIInv, NodeNext
  <2>2. ASSUME calm
        PROVE  Turns' /\ Busy(rooms', current', conns', TheWork(worker'))
    BY <1>2, <2>1, <2>2, StepsCalmly, StaysBusy DEF NodeIInv, CalmNodeInv, NodeNext
  <2>3. QED
    BY <1>2, <2>1, <2>2 DEF NodeIInv, CalmNodeInv, NodeNext
<1>3. QED
  BY <1>1, <1>2

(* When nobody is at work, wired and sent are the same.                     *)
LEMMA QuietMatches == NodeIInv /\ calm => WiringMatchesSenders
<1> SUFFICES ASSUME NodeIInv, calm, NodeQuiet, current # 0, NEW s \in Sources
             PROVE  /\ rooms[current].wiring[s] = {p \in Sources : Forwards(current, s, p)}
                    /\ \A p \in Registered : Cardinality(conns[rooms[current].peers[p]].senders[s]) <= 1
  BY DEF WiringMatchesSenders
<1> DEFINE r == rooms[current]
<1>1. TheWork(worker) = NoWork
  BY DEF NodeQuiet, TheWork
<1>2. Matched(r, conns, NoWork, <<>>)
  BY <1>1, NoWorkFields DEF NodeIInv, CalmNodeInv, Busy, Under, Making
<1>3. r.wiring[s] \in SUBSET Sources
  <2>1. conns \in Seq(ConnRec) /\ RoomOK(r, current, conns)
    BY DEF NodeIInv, NodeInv, NodeOK
  <2>2. QED
    BY <2>1, RoomFields
<1>4. ToSend(NoWork, <<>>) = {}
  <2>1. Len(<<>>) # 3
    OBVIOUS
  <2>2. QED
    BY <2>1, NoWorkFields DEF ToSend
<1>5. \A p \in Sources : p \in r.wiring[s] <=> Carries(r, conns, s, p)
  BY <1>2, <1>4, NoWorkFields DEF Matched, Awaits
<1>6. \A p \in Sources : Carries(r, conns, s, p) <=> Forwards(current, s, p)
  BY DEF Carries, Forwards
<1>7. ASSUME NEW p \in Registered
      PROVE  Cardinality(conns[r.peers[p]].senders[s]) <= 1
  <2> DEFINE S == conns[r.peers[p]].senders[s]
  <2>1. p \in Sources /\ r.peers[p] # 0
    BY DEF Registered
  <2>2. PICK n \in Nat : S \subseteq {n}
    BY <2>1, <1>2 DEF Matched
  <2> HIDE DEF S
  <2>3. IsFiniteSet({n}) /\ Cardinality({n}) = 1
    BY FS_Singleton
  <2>4. Cardinality(S) <= Cardinality({n})
    BY <2>2, <2>3, FS_Subset
  <2>5. QED
    BY <2>3, <2>4 DEF S
<1>8. QED
  BY <1>3, <1>5, <1>6, <1>7

LEMMA NodeIsTyped == NodeInv => WiringWanted /\ RegisteredIsOpen
<1> SUFFICES ASSUME NodeInv PROVE WiringWanted /\ RegisteredIsOpen
  OBVIOUS
<1>1. /\ rooms \in Seq(RoomRec) /\ conns \in Seq(ConnRec) /\ current \in 0..Len(rooms)
      /\ \A o \in 1..Len(rooms) : RoomOK(rooms[o], o, conns)
      /\ \A c \in 1..Len(conns) : ConnOK(conns[c], Len(rooms), Len(conns))
      /\ worker \in [Workers -> WorkRec] /\ Len(conns) \in Nat
      /\ callbacks \subseteq 1..Len(conns) /\ arrived \subseteq (1..Len(conns)) \X Sources
      /\ events \in 0..MaxEvents
  BY DEF NodeInv, NodeOK
<1>2. \A o \in 1..Len(rooms), p \in Sources :
        /\ rooms[o].peers[p] \in 0..Len(conns) /\ rooms[o].received[p] \in 0..Len(conns)
        /\ rooms[o].wiring[p] \subseteq rooms[o].lastDesired[p]
        /\ rooms[o].peers[p] # 0 => /\ conns[rooms[o].peers[p]].open /\ conns[rooms[o].peers[p]].peer = p
                                    /\ conns[rooms[o].peers[p]].room = o
  BY <1>1, RoomFields
<1>3. ASSUME NEW o \in 1..Len(rooms)
      PROVE  /\ rooms[o].peers \in [Sources -> 0..Len(conns)]
             /\ rooms[o].received \in [Sources -> 0..Len(conns)]
             /\ rooms[o].wiring \in [Sources -> SUBSET Sources]
             /\ rooms[o].lastDesired \in [Sources -> SUBSET Sources]
  <2>1. rooms[o] \in RoomRec
    BY <1>1
  <2>2. /\ rooms[o].peers \in [Sources -> Nat] /\ rooms[o].received \in [Sources -> Nat]
        /\ rooms[o].wiring \in [Sources -> SUBSET Sources]
        /\ rooms[o].lastDesired \in [Sources -> SUBSET Sources]
    BY <2>1 DEF RoomRec
  <2>3. rooms[o].peers \in [Sources -> 0..Len(conns)]
    BY <2>2, <1>2
  <2>4. rooms[o].received \in [Sources -> 0..Len(conns)]
    BY <2>2, <1>2
  <2>5. QED
    BY <2>2, <2>3, <2>4
<1>4. ASSUME NEW c \in 1..Len(conns)
      PROVE  /\ conns[c].peer \in Sources /\ conns[c].room \in 1..Len(rooms)
             /\ conns[c].open \in BOOLEAN
             /\ conns[c].senders \in [Sources -> SUBSET (1..Len(conns))]
  BY <1>1 DEF ConnOK, ConnRec
<1>5. \A x \in Workers : worker[x].at \in {"idle", "list", "connect", "create", "diff", "drop", "send",
                                          "stop", "delete"}
  BY <1>1 DEF WorkRec
<1>6. RelayTypeOK
  BY <1>1, <1>3, <1>4, <1>5 DEF RelayTypeOK
<1>7. QED
  BY <1>2, <1>6 DEF WiringWanted, RegisteredIsOpen

(* Whatever goroutines of the node overlap and whatever fails, nobody is    *)
(* wired who is not wanted and a connection on file is open and its peer's; *)
(* and when goroutines take turns and every connection is made, a quiet     *)
(* node sends each source to exactly those it is wired to, once             *)
(* (planner.go Reconcile, forwardIfWanted, relaynode.go dropPeer).          *)
THEOREM NodeIsSound == MCSpec => []NodeSound
<1>1. MCInit => NodeIInv
  BY NodeInit
<1>2. NodeIInv /\ [MCNext]_<<first, second, service, calm>> => NodeIInv'
  BY NodeAmongOthers, NodeNextKeeps
<1>3. NodeIInv => NodeSound
  BY QuietMatches, NodeIsTyped DEF NodeIInv, NodeSound
<1>4. QED
  BY <1>1, <1>2, <1>3, PTL DEF MCSpec

(* A calm reconciliation ends with exactly the plan's connections, and with *)
(* every desired forward that has a track wired (planner.go Reconcile).     *)
LEMMA NodeAchieves ==
  ASSUME NodeIInv, NodeIInv', calm, NodeNext \/ NodeIdles
  PROVE  AchievesPlan
<1> SUFFICES ASSUME NEW x \in Workers, worker[x].plan # {}, worker'[x] = NoWork
             PROVE  /\ Registered' = Needed(worker[x].plan)
                    /\ \A s \in Sources : rooms'[current'].received[s] # 0 =>
                         rooms'[current'].wiring[s] = Desired(worker[x].plan)[s]
  BY DEF AchievesPlan
<1>1. worker \in [Workers -> WorkRec] /\ worker' # worker
  BY NoWorkFields DEF NodeIInv, NodeInv, NodeOK
<1>2. NodeNext /\ CalmStep
  BY <1>1, StepsCalmly DEF NodeIdles, nodeVars, NodeNext, NodeIInv, CalmNodeInv
<1>3. PICK y \in Workers : Proceeds(y)
  BY <1>1, <1>2 DEF CalmStep
<1>4. x = y
  <2>1. \E v \in WorkRec : worker' = WithWork(y, v)
    BY <1>3, Settled DEF Proceeds
  <2>2. \A z \in Workers \ {y} : worker'[z] = worker[z]
    BY <1>1, <2>1, Works
  <2>3. QED
    BY <2>2, NoWorkFields
<1>5. PICK u \in WorkRec : /\ worker' = WithWork(x, Settle(u)) /\ Under(rooms', current', conns', u, <<>>)
                           /\ u.plan = worker[x].plan
  <2>1. ASSUME NEW v \in WorkRec, worker' = WithWork(x, v), v.at = "idle" => worker[x].plan = {}
        PROVE  FALSE
    BY <1>1, <2>1, Works, NoWorkFields
  <2>2. QED
    BY <1>3, <1>4, <2>1 DEF Proceeds
<1>6. Settle(u) = NoWork
  BY <1>1, <1>5, Settled, Works
<1>7. ~u.diff /\ u.drop = {}
  BY <1>5, <1>6, Settled, NoWorkFields
<1> DEFINE r == rooms'[current']
<1>8. current' # 0 /\ Follows(r, u, <<>>)
  BY <1>5 DEF Under
<1>9. /\ \A p \in Needed(u.plan) : r.peers[p] # 0
      /\ \A p \in Sources : r.peers[p] # 0 => p \in Needed(u.plan)
      /\ \A s \in Sources : r.received[s] # 0 => r.wiring[s] = Desired(u.plan)[s]
  BY <1>7, <1>8 DEF Follows
<1>10. Needed(u.plan) \in SUBSET Sources
  <2>1. u.plan \in SUBSET Edges
    BY DEF WorkRec
  <2>2. QED
    BY <2>1, PlanTyped
<1>11. Registered' = {p \in Sources : r.peers[p] # 0}
  BY <1>8 DEF Registered
<1>12. QED
  BY <1>5, <1>9, <1>10, <1>11
-----------------------------------------------------------------------------
(* Accounts.  An account's password is written once and its identity only    *)
(* where there is no password; a goroutine that is about to link or to       *)
(* answer holds such an account, and the state in a browser's cookie is one  *)
(* that was made for the browser.                                            *)
AccountRec ==
  [email : Emails \cup {NoEmail}, identity : Identities \cup {NoIdentity},
   password : Owners \cup {NoOwner}, joined : BOOLEAN]
Places == Browsers \cup {"app"}
SigningRec ==
  [at : {"match", "byemail", "link", "insert", "join"}, who : Identities, client : BOOLEAN,
   from : Places, to : Places, row : Nat]
RegisterRec == [at : {"register"}, who : Owners, email : Emails]
ChangeRec == [at : {"change"}, row : Nat, email : Emails]

OneEach == \A q, r \in Rows : accounts[q].identity = accounts[r].identity /\ accounts[q].identity # NoIdentity => q = r
EitherWay == \A r \in Rows : accounts[r].identity = NoIdentity \/ accounts[r].password = NoOwner

Holds(s) ==
  /\ s.at \in {"link", "join"} => s.row \in Rows /\ accounts[s.row].password = NoOwner
  /\ s.at = "change" => s.row \in Rows

SignerOK(s) ==
  \/ s = Away
  \/ s \in SigningRec /\ s.from = s.to /\ Holds(s)
  \/ s \in RegisterRec
  \/ s \in ChangeRec /\ Holds(s)

AnswerOK(n) == n.row \in Rows /\ accounts[n.row].password \in {NoOwner, n.who} /\ n.from = n.to

CookiesOK ==
  /\ states \in Nat /\ DOMAIN cookie = Browsers
  /\ consents \subseteq [state : Nat, by : Browsers, who : Identities]
  /\ \A c \in consents : c.state <= states
  /\ \A q \in Browsers : cookie[q] \in Nat /\ cookie[q] <= states
  /\ \A q \in Browsers : \A c \in consents : c.state = cookie[q] /\ cookie[q] # NoState => c.by = q

TheAccounts == accounts \in Seq(AccountRec) /\ OneEach /\ EitherWay
TheSigners == DOMAIN signer = Signers /\ \A x \in Signers : SignerOK(signer[x])
TheAnswers == \A n \in answers : AnswerOK(n)
AccountsInv == TheAccounts /\ TheSigners /\ TheAnswers /\ CookiesOK

(* What a goroutine knows in a calm behaviour: the accounts are as it found  *)
(* them.                                                                     *)
Knows(s) ==
  /\ s.at \in {"byemail", "link", "insert"} => WithIdentity(s.who) = {}
  /\ s.at = "byemail" => s.who \in Verified
  /\ s.at = "insert" /\ s.who \in Verified => WithEmail(EmailOf[s.who]) = {}
  /\ s.at = "link" => accounts[s.row].identity = NoIdentity
  /\ s.at = "join" => accounts[s.row].identity = s.who
  /\ s.at = "register" => WithEmail(s.email) = {}
  /\ s.at = "change" => WithEmail(s.email) \subseteq {s.row}

Told(n) ==
  /\ n.who \in Identities => accounts[n.row].identity = n.who
  /\ n.client => accounts[n.row].joined
OneAddress == \A q, r \in Rows : accounts[q].email = accounts[r].email /\ accounts[q].email \in Emails => q = r
OneSigns == \A x, y \in Signers : signer[x] # Away /\ signer[y] # Away => x = y

CalmAccountsInv ==
  /\ OneAddress /\ OneSigns
  /\ \A x \in Signers : Knows(signer[x])
  /\ \A n \in answers : Told(n)

AccountsIInv == AccountsInv /\ (calm => CalmAccountsInv)

LEMMA AwayFields == Away.at = "idle" /\ Away \notin SigningRec /\ Away \notin RegisterRec /\ Away \notin ChangeRec
BY DEF Away, SigningRec, RegisterRec, ChangeRec

LEMMA AccountsStart == MCInit => AccountsIInv
<1> SUFFICES ASSUME MCInit PROVE AccountsIInv OBVIOUS
<1>1. AccountsInit
  BY DEF MCInit
<1>2. accounts = <<>> /\ accounts \in Seq(AccountRec) /\ Rows = {}
  BY <1>1 DEF AccountsInit, Rows
<1>3. TheAccounts
  BY <1>2 DEF TheAccounts, OneEach, EitherWay
<1>4. DOMAIN signer = Signers /\ \A x \in Signers : signer[x] = Away
  BY <1>1 DEF AccountsInit
<1>5. TheSigners
  BY <1>4 DEF TheSigners, SignerOK
<1>6. answers = {} /\ TheAnswers
  BY <1>1 DEF AccountsInit, TheAnswers
<1>7. CookiesOK
  BY <1>1 DEF AccountsInit, CookiesOK, NoState
<1>8. OneAddress /\ OneSigns
  BY <1>2, <1>4 DEF OneAddress, OneSigns
<1>9. \A x \in Signers : Knows(signer[x])
  BY <1>4, AwayFields DEF Knows
<1> QED BY <1>3, <1>5, <1>6, <1>7, <1>8, <1>9 DEF AccountsIInv, AccountsInv, CalmAccountsInv

(* Accounts are appended and keep their passwords.                           *)
Grown ==
  /\ Rows \subseteq Rows'
  /\ \A r \in Rows : accounts'[r].password = accounts[r].password

LEMMA HeldStays ==
  ASSUME Grown, NEW s, SignerOK(s)
  PROVE  SignerOK(s)'
BY DEF Grown, SignerOK, Holds

LEMMA AnswersStay ==
  ASSUME Grown, NEW n, AnswerOK(n)
  PROVE  AnswerOK(n)'
BY DEF Grown, AnswerOK

(* One goroutine takes a step and is then at s.                              *)
LEMMA OneSignsOn ==
  ASSUME TheSigners, Grown, NEW x \in Signers, NEW s, Signs(x, s), SignerOK(s)'
  PROVE  TheSigners'
<1>1. DOMAIN signer' = Signers /\ signer'[x] = s /\ \A y \in Signers \ {x} : signer'[y] = signer[y]
  BY DEF Signs, TheSigners
<1>2. ASSUME NEW y \in Signers PROVE SignerOK(signer[y])'
  <2>1. CASE y = x
    BY <1>1, <2>1 DEF SignerOK, Holds
  <2>2. CASE y # x
    <3>1. PICK t : t = signer[y]
      OBVIOUS
    <3>2. SignerOK(t)'
      BY <3>1, HeldStays DEF TheSigners
    <3> QED BY <1>1, <2>2, <3>1, <3>2 DEF SignerOK, Holds
  <2> QED BY <2>1, <2>2
<1> QED BY <1>1, <1>2 DEF TheSigners

LEMMA NobodyGrows ==
  ASSUME TheAccounts, UNCHANGED accounts
  PROVE  Grown /\ TheAccounts'
<1>1. Rows' = Rows
  BY DEF Rows
<1> QED BY <1>1 DEF Grown, TheAccounts, OneEach, EitherWay

(* A row more.                                                               *)
LEMMA RowAppended ==
  ASSUME TheAccounts, NEW row \in AccountRec, accounts' = Append(accounts, row)
  PROVE  /\ Grown /\ accounts' \in Seq(AccountRec) /\ Rows' = Rows \cup {Len(accounts) + 1}
         /\ Len(accounts) + 1 \notin Rows /\ accounts'[Len(accounts) + 1] = row
         /\ \A r \in Rows : accounts'[r] = accounts[r]
<1>1. accounts \in Seq(AccountRec) /\ Len(accounts) \in Nat
  BY DEF TheAccounts
<1>2. /\ Len(accounts') = Len(accounts) + 1 /\ accounts' \in Seq(AccountRec)
      /\ accounts'[Len(accounts) + 1] = row
      /\ \A r \in 1..Len(accounts) : accounts'[r] = accounts[r]
  BY <1>1
<1> QED BY <1>1, <1>2 DEF Grown, Rows

(* A row written.                                                            *)
LEMMA RowWritten ==
  ASSUME TheAccounts, NEW r \in Rows, NEW row \in AccountRec, accounts' = [accounts EXCEPT ![r] = row],
         row.password = accounts[r].password
  PROVE  /\ Grown /\ accounts' \in Seq(AccountRec) /\ Rows' = Rows
         /\ accounts'[r] = row /\ \A q \in Rows \ {r} : accounts'[q] = accounts[q]
<1>1. accounts \in Seq(AccountRec) /\ Len(accounts) \in Nat
  BY DEF TheAccounts
<1>2. accounts' \in Seq(AccountRec) /\ Len(accounts') = Len(accounts)
  BY <1>1 DEF Rows
<1>3. accounts'[r] = row /\ \A q \in Rows \ {r} : accounts'[q] = accounts[q]
  BY <1>1 DEF Rows
<1> QED BY <1>2, <1>3 DEF Grown, Rows

LEMMA SigningTyped ==
  ASSUME AccountsInv, NEW x \in Signers, signer[x].at \in {"match", "byemail", "link", "insert", "join"}
  PROVE  signer[x] \in SigningRec /\ signer[x].from = signer[x].to /\ Holds(signer[x])
BY AwayFields DEF AccountsInv, TheSigners, SignerOK, RegisterRec, ChangeRec

LEMMA OthersTyped ==
  ASSUME AccountsInv, NEW x \in Signers
  PROVE  /\ signer[x].at = "register" => signer[x] \in RegisterRec
         /\ signer[x].at = "change" => signer[x] \in ChangeRec /\ Holds(signer[x])
BY AwayFields DEF AccountsInv, TheSigners, SignerOK, RegisterRec, ChangeRec, SigningRec

(* A goroutine's step that leaves the accounts and what was answered.        *)
LEMMA SignsOn ==
  ASSUME AccountsInv, UNCHANGED <<accounts, answers>>, NEW x \in Signers, NEW s, Signs(x, s), SignerOK(s),
         CookiesOK'
  PROVE  AccountsInv'
<1>1. TheAccounts' /\ Grown
  BY NobodyGrows DEF AccountsInv
<1>2. SignerOK(s)'
  BY <1>1, HeldStays
<1>3. TheSigners'
  BY <1>1, <1>2, OneSignsOn DEF AccountsInv
<1>4. TheAnswers'
  BY <1>1, AnswersStay DEF AccountsInv, TheAnswers
<1> QED BY <1>1, <1>3, <1>4 DEF AccountsInv

LEMMA CookiesStay == CookiesOK /\ Keep => CookiesOK'
BY DEF CookiesOK, Keep

(* The record of a goroutine that signs somebody in, moved on.               *)
LEMMA MovedOn ==
  ASSUME NEW t \in SigningRec, NEW p \in {"match", "byemail", "link", "insert", "join"}, NEW u,
         u = [t EXCEPT !.at = p]
  PROVE  /\ u \in SigningRec /\ u.at = p /\ u.row = t.row /\ u.who = t.who /\ u.from = t.from
         /\ u.to = t.to /\ u.client = t.client /\ u # Away
<1>1. u \in SigningRec /\ u.at = p /\ u.row = t.row /\ u.who = t.who /\ u.from = t.from
      /\ u.to = t.to /\ u.client = t.client
  BY DEF SigningRec
<1> QED BY <1>1, AwayFields

(* What goroutines know stays true of accounts that stay, and where only one *)
(* goroutine is at work it is the only one to look at.                       *)
LEMMA StillKnown ==
  ASSUME UNCHANGED accounts, NEW t, Knows(t)
  PROVE  Knows(t)'
BY DEF Knows, WithIdentity, WithEmail, Rows

LEMMA OnlyOneKnows ==
  ASSUME TheSigners, CalmAccountsInv, OneSigns', NEW x \in Signers, NEW s, Signs(x, s), Knows(s)',
         s # Away \/ signer[x] # Away \/ UNCHANGED accounts
  PROVE  \A y \in Signers : Knows(signer[y])'
<1>1. signer'[x] = s /\ \A y \in Signers \ {x} : signer'[y] = signer[y]
  BY DEF Signs, TheSigners
<1> SUFFICES ASSUME NEW y \in Signers PROVE Knows(signer[y])'
  OBVIOUS
<1>2. CASE y = x
  BY <1>1, <1>2 DEF Knows
<1>3. CASE y # x /\ UNCHANGED accounts
  <2>1. PICK t : t = signer[y]
    OBVIOUS
  <2>2. Knows(t)'
    BY <1>3, <2>1, StillKnown DEF CalmAccountsInv
  <2> QED BY <1>1, <1>3, <2>1, <2>2 DEF Knows
<1>4. CASE y # x /\ (s # Away \/ signer[x] # Away)
  <2>1. signer'[y] = Away
    BY <1>1, <1>4 DEF CalmAccountsInv, OneSigns
  <2> QED BY <2>1, AwayFields DEF Knows
<1> QED BY <1>2, <1>3, <1>4

LEMMA CalmSignsOn ==
  ASSUME AccountsInv, CalmAccountsInv, UNCHANGED <<accounts, answers>>, OneSigns',
         NEW x \in Signers, NEW s, Signs(x, s), Knows(s)
  PROVE  CalmAccountsInv'
<1>1. Knows(s)'
  BY StillKnown
<1>2. \A y \in Signers : Knows(signer[y])'
  BY <1>1, OnlyOneKnows DEF AccountsInv
<1>3. OneAddress' /\ \A n \in answers' : Told(n)'
  BY DEF CalmAccountsInv, OneAddress, Told, Rows
<1> QED BY <1>2, <1>3 DEF CalmAccountsInv

LEMMA WithSome ==
  /\ \A i : \A r \in WithIdentity(i) : r \in Rows /\ accounts[r].identity = i
  /\ \A e : \A r \in WithEmail(e) : r \in Rows /\ accounts[r].email = e
BY DEF WithIdentity, WithEmail

LEMMA MatchKeeps ==
  ASSUME AccountsInv, AccountsAssumption, NEW x \in Signers, NEW fails \in BOOLEAN, Match(x, fails)
  PROVE  AccountsInv' /\ (CalmAccountsInv /\ ~fails /\ OneSigns' => CalmAccountsInv')
<1>1. PICK t : t = signer[x]
  OBVIOUS
<1>2. t.at = "match" /\ t \in SigningRec /\ t.from = t.to
  BY <1>1, SigningTyped DEF Match
<1>3. Keep /\ UNCHANGED <<accounts, answers>> /\ CookiesOK'
  BY CookiesStay DEF Match, AccountsInv
<1>4. t.who \in Identities /\ t.who # NoIdentity
  BY <1>2 DEF SigningRec, AccountsAssumption
<1>5. PICK u : Signs(x, u) /\ SignerOK(u) /\ (~fails => Knows(u))
  <2>1. CASE WithIdentity(t.who) # {} /\ ~fails
    <3>1. PICK r \in WithIdentity(t.who) : Signs(x, [t EXCEPT !.at = "join", !.row = r])
      BY <1>1, <2>1 DEF Match
    <3>2. r \in Rows /\ accounts[r].identity = t.who
      BY <3>1, WithSome
    <3>3. r \in Nat /\ accounts[r].password = NoOwner
      BY <1>4, <3>2 DEF Rows, AccountsInv, TheAccounts, EitherWay
    <3>4. PICK u : u = [t EXCEPT !.at = "join", !.row = r]
      OBVIOUS
    <3>5. u \in SigningRec /\ u.at = "join" /\ u.row = r /\ u.who = t.who /\ u.from = u.to
      BY <1>2, <3>3, <3>4 DEF SigningRec
    <3>6. SignerOK(u)
      BY <3>2, <3>3, <3>5 DEF SignerOK, Holds
    <3>7. Knows(u)
      BY <3>2, <3>5 DEF Knows
    <3> QED BY <3>1, <3>4, <3>6, <3>7
  <2>2. CASE ~(WithIdentity(t.who) # {} /\ ~fails)
    <3>1. PICK p : p = IF t.who \in Verified THEN "byemail" ELSE "insert"
      OBVIOUS
    <3>2. PICK u : u = [t EXCEPT !.at = p]
      OBVIOUS
    <3>3. Signs(x, u)
      BY <1>1, <2>2, <3>1, <3>2 DEF Match
    <3>4. u \in SigningRec /\ u.at = p /\ u.who = t.who /\ u.from = u.to
      BY <1>2, <3>1, <3>2, MovedOn
    <3>5. SignerOK(u)
      BY <3>1, <3>4 DEF SignerOK, Holds
    <3>6. ~fails => Knows(u)
      BY <2>2, <3>1, <3>4 DEF Knows
    <3> QED BY <3>3, <3>5, <3>6
  <2> QED BY <2>1, <2>2
<1>6. AccountsInv'
  BY <1>3, <1>5, SignsOn
<1>7. CalmAccountsInv /\ ~fails /\ OneSigns' => CalmAccountsInv'
  BY <1>3, <1>5, CalmSignsOn
<1> QED BY <1>6, <1>7

LEMMA FindByEmailKeeps ==
  ASSUME AccountsInv, AccountsAssumption, NEW x \in Signers, NEW fails \in BOOLEAN, FindByEmail(x, fails)
  PROVE  AccountsInv' /\ (CalmAccountsInv /\ ~fails /\ OneSigns' => CalmAccountsInv')
<1>1. PICK t : t = signer[x]
  OBVIOUS
<1>2. t.at = "byemail" /\ t \in SigningRec /\ t.from = t.to
  BY <1>1, SigningTyped DEF FindByEmail
<1>3. Keep /\ UNCHANGED <<accounts, answers>> /\ CookiesOK'
  BY CookiesStay DEF FindByEmail, AccountsInv
<1>4. PICK u : Signs(x, u) /\ SignerOK(u) /\ (~fails /\ CalmAccountsInv => Knows(u))
  <2>1. CASE WithEmail(EmailOf[t.who]) = {} \/ fails
    <3>1. PICK u : u = [t EXCEPT !.at = "insert"]
      OBVIOUS
    <3>2. Signs(x, u)
      BY <1>1, <2>1, <3>1 DEF FindByEmail
    <3>3. u \in SigningRec /\ u.at = "insert" /\ u.who = t.who /\ u.from = u.to
      BY <1>2, <3>1, MovedOn
    <3>4. SignerOK(u)
      BY <3>3 DEF SignerOK, Holds
    <3>5. CalmAccountsInv => Knows(t)
      BY <1>1 DEF CalmAccountsInv
    <3>6. ~fails /\ CalmAccountsInv => Knows(u)
      BY <1>2, <2>1, <3>3, <3>5 DEF Knows
    <3> QED BY <3>2, <3>4, <3>6
  <2>2. CASE ~(WithEmail(EmailOf[t.who]) = {} \/ fails)
    <3>1. PICK r \in WithEmail(EmailOf[t.who]) :
            Signs(x, IF Linkable(r) THEN [t EXCEPT !.at = "link", !.row = r] ELSE Away)
      BY <1>1, <2>2 DEF FindByEmail
    <3>2. r \in Rows /\ r \in Nat
      BY <3>1, WithSome DEF Rows
    <3>3. CASE Linkable(r)
      <4>1. PICK u : u = [t EXCEPT !.at = "link", !.row = r]
        OBVIOUS
      <4>2. u \in SigningRec /\ u.at = "link" /\ u.row = r /\ u.who = t.who /\ u.from = u.to
        BY <1>2, <3>2, <4>1 DEF SigningRec
      <4>3. SignerOK(u)
        BY <3>2, <3>3, <4>2 DEF SignerOK, Holds, Linkable
      <4>4. CalmAccountsInv => Knows(t)
        BY <1>1 DEF CalmAccountsInv
      <4>5. CalmAccountsInv => Knows(u)
        BY <1>2, <3>3, <4>2, <4>4 DEF Knows, Linkable
      <4> QED BY <3>1, <3>3, <4>1, <4>3, <4>5
    <3>4. CASE ~Linkable(r)
      <4>1. SignerOK(Away) /\ Knows(Away)
        BY AwayFields DEF SignerOK, Knows
      <4> QED BY <3>1, <3>4, <4>1
    <3> QED BY <3>3, <3>4
  <2> QED BY <2>1, <2>2
<1>5. AccountsInv'
  BY <1>3, <1>4, SignsOn
<1>6. CalmAccountsInv /\ ~fails /\ OneSigns' => CalmAccountsInv'
  BY <1>3, <1>4, CalmSignsOn
<1> QED BY <1>5, <1>6

(* A goroutine that has written to the accounts and is then at s.            *)
LEMMA SignsGrown ==
  ASSUME AccountsInv, Grown, TheAccounts', UNCHANGED answers, Keep, NEW x \in Signers, NEW s, Signs(x, s),
         SignerOK(s)'
  PROVE  AccountsInv'
<1>1. TheSigners'
  BY OneSignsOn DEF AccountsInv
<1>2. TheAnswers'
  BY AnswersStay DEF AccountsInv, TheAnswers
<1> QED BY <1>1, <1>2, CookiesStay DEF AccountsInv

LEMMA LinkKeeps ==
  ASSUME AccountsInv, AccountsAssumption, NEW x \in Signers, NEW fails \in BOOLEAN, Link(x, fails)
  PROVE  AccountsInv' /\ (CalmAccountsInv /\ ~fails /\ OneSigns' => CalmAccountsInv')
<1>1. PICK t : t = signer[x]
  OBVIOUS
<1>2. t.at = "link" /\ t \in SigningRec /\ t.from = t.to /\ t.row \in Rows /\ accounts[t.row].password = NoOwner
  BY <1>1, SigningTyped DEF Link, Holds
<1>3. Keep /\ UNCHANGED answers
  BY DEF Link
<1>4. t.who \in Identities /\ t.who # NoIdentity
  BY <1>2 DEF SigningRec, AccountsAssumption
<1>5. PICK u : u = [t EXCEPT !.at = "join"]
  OBVIOUS
<1>6. Signs(x, u)
  BY <1>1, <1>5 DEF Link
<1>7. u \in SigningRec /\ u.at = "join" /\ u.row = t.row /\ u.who = t.who /\ u.from = u.to /\ u # Away
  BY <1>2, <1>5, MovedOn
<1>8. TheAccounts /\ accounts \in Seq(AccountRec)
  BY DEF AccountsInv, TheAccounts
<1>9. CASE fails \/ WithIdentity(t.who) # {}
  <2>1. UNCHANGED accounts
    BY <1>1, <1>9 DEF Link
  <2>2. SignerOK(u)
    BY <1>2, <1>7 DEF SignerOK, Holds
  <2>3. AccountsInv'
    BY <1>3, <1>6, <2>1, <2>2, SignsOn, CookiesStay DEF AccountsInv
  <2>4. ~CalmAccountsInv \/ fails
    BY <1>1, <1>2, <1>9 DEF CalmAccountsInv, Knows
  <2> QED BY <2>3, <2>4
<1>10. CASE ~(fails \/ WithIdentity(t.who) # {})
  <2>1. PICK row : row = [accounts[t.row] EXCEPT !.identity = t.who]
    OBVIOUS
  <2>2. accounts[t.row] \in AccountRec
    BY <1>2, <1>8 DEF Rows
  <2>3. /\ row \in AccountRec /\ row.identity = t.who /\ row.password = NoOwner
        /\ row.email = accounts[t.row].email /\ row.joined = accounts[t.row].joined
    BY <1>2, <1>4, <2>1, <2>2 DEF AccountRec
  <2>4. accounts' = [accounts EXCEPT ![t.row] = row]
    BY <1>1, <1>10, <2>1 DEF Link
  <2>5. /\ Grown /\ accounts' \in Seq(AccountRec) /\ Rows' = Rows /\ accounts'[t.row] = row
        /\ \A q \in Rows \ {t.row} : accounts'[q] = accounts[q]
    BY <1>2, <1>8, <2>3, <2>4, RowWritten
  <2>6. \A q \in Rows : accounts[q].identity # t.who
    BY <1>10 DEF WithIdentity
  <2>7. TheAccounts'
    BY <1>8, <2>3, <2>5, <2>6 DEF TheAccounts, OneEach, EitherWay
  <2>8. SignerOK(u)'
    BY <1>2, <1>7, <2>3, <2>5 DEF SignerOK, Holds
  <2>9. AccountsInv'
    BY <1>3, <1>6, <2>5, <2>7, <2>8, SignsGrown
  <2>10. ASSUME CalmAccountsInv, ~fails, OneSigns' PROVE CalmAccountsInv'
    <3>1. Knows(u)'
      BY <1>7, <2>3, <2>5 DEF Knows
    <3>2. \A y \in Signers : Knows(signer[y])'
      BY <1>6, <1>7, <2>10, <3>1, OnlyOneKnows DEF AccountsInv
    <3>3. Knows(t)
      BY <1>1, <2>10 DEF CalmAccountsInv
    <3>4. accounts[t.row].identity = NoIdentity
      BY <1>2, <3>3 DEF Knows
    <3>5. OneAddress'
      BY <2>3, <2>5, <2>10 DEF CalmAccountsInv, OneAddress
    <3>6. ASSUME NEW n \in answers' PROVE Told(n)'
      <4>1. n \in answers /\ Told(n) /\ AnswerOK(n)
        BY <1>3, <2>10, <3>6 DEF CalmAccountsInv, AccountsInv, TheAnswers
      <4>2. n.who \in Identities => n.row # t.row
        BY <3>4, <4>1 DEF Told, AccountsAssumption
      <4> QED BY <2>3, <2>5, <4>1, <4>2 DEF Told, AnswerOK
    <3> QED BY <2>10, <3>2, <3>5, <3>6 DEF CalmAccountsInv
  <2> QED BY <2>9, <2>10
<1> QED BY <1>9, <1>10

(* A new row with an address nobody has, in a calm behaviour.                *)
LEMMA AddressStillOne ==
  ASSUME TheAccounts, OneAddress, NEW row \in AccountRec, accounts' = Append(accounts, row),
         row.email \in Emails => WithEmail(row.email) = {}
  PROVE  OneAddress'
<1>1. PICK k : k = Len(accounts) + 1
  OBVIOUS
<1>2. Rows' = Rows \cup {k} /\ k \notin Rows /\ accounts'[k] = row /\ \A r \in Rows : accounts'[r] = accounts[r]
  BY <1>1, RowAppended
<1>3. row.email \in Emails => \A r \in Rows : accounts[r].email # row.email
  BY DEF WithEmail
<1>4. ASSUME NEW q \in Rows', NEW r \in Rows', accounts'[q].email = accounts'[r].email, accounts'[q].email \in Emails
      PROVE  q = r
  <2>1. CASE q = k \/ r = k
    BY <1>2, <1>3, <1>4, <2>1
  <2>2. CASE q # k /\ r # k
    <3>1. q \in Rows /\ r \in Rows
      BY <1>2, <1>4, <2>2
    <3> QED BY <1>2, <1>4, <3>1 DEF OneAddress
  <2> QED BY <2>1, <2>2
<1> QED BY <1>4 DEF OneAddress

LEMMA ToldStays ==
  ASSUME TheAnswers, NEW row \in AccountRec, TheAccounts, accounts' = Append(accounts, row),
         \A n \in answers : Told(n)
  PROVE  \A n \in answers : Told(n)'
BY RowAppended DEF Told, TheAnswers, AnswerOK

LEMMA InsertKeeps ==
  ASSUME AccountsInv, AccountsAssumption, NEW x \in Signers, NEW fails \in BOOLEAN, Insert(x, fails)
  PROVE  AccountsInv' /\ (CalmAccountsInv /\ ~fails /\ OneSigns' => CalmAccountsInv')
<1>1. PICK t : t = signer[x]
  OBVIOUS
<1>2. t.at = "insert" /\ t \in SigningRec /\ t.from = t.to
  BY <1>1, SigningTyped DEF Insert
<1>3. Keep /\ UNCHANGED answers
  BY DEF Insert
<1>4. t.who \in Identities /\ t.who # NoIdentity /\ t.client \in BOOLEAN
  BY <1>2 DEF SigningRec, AccountsAssumption
<1>5. TheAccounts /\ accounts \in Seq(AccountRec) /\ Len(accounts) \in Nat
  BY DEF AccountsInv, TheAccounts
<1>6. CASE fails \/ WithIdentity(t.who) # {} \/ Len(accounts) = MaxAccounts
  <2>1. Signs(x, Away) /\ UNCHANGED accounts
    BY <1>1, <1>6 DEF Insert
  <2>2. SignerOK(Away) /\ Knows(Away)
    BY AwayFields DEF SignerOK, Knows
  <2>3. CookiesOK'
    BY <1>3, CookiesStay DEF AccountsInv
  <2> QED BY <1>3, <2>1, <2>2, <2>3, SignsOn, CalmSignsOn
<1>7. CASE ~(fails \/ WithIdentity(t.who) # {} \/ Len(accounts) = MaxAccounts)
  <2>1. PICK e : e = IF t.who \in Verified THEN EmailOf[t.who] ELSE NoEmail
    OBVIOUS
  <2>2. e \in Emails \cup {NoEmail}
    BY <1>4, <2>1 DEF AccountsAssumption
  <2>3. PICK row : row = NewAccount(e, t.who, NoOwner, t.client)
    OBVIOUS
  <2>4. /\ row \in AccountRec /\ row.identity = t.who /\ row.password = NoOwner /\ row.email = e
    BY <1>4, <2>2, <2>3 DEF NewAccount, AccountRec
  <2>5. PICK r : r = Len(accounts) + 1
    OBVIOUS
  <2>6. PICK u : u = [t EXCEPT !.at = "join", !.row = r]
    OBVIOUS
  <2>7. accounts' = Append(accounts, row) /\ Signs(x, u)
    BY <1>1, <1>7, <2>1, <2>3, <2>5, <2>6 DEF Insert
  <2>8. r \in Nat
    BY <1>5, <2>5
  <2>9. u \in SigningRec /\ u.at = "join" /\ u.row = r /\ u.who = t.who /\ u.from = u.to
    BY <1>2, <2>6, <2>8 DEF SigningRec
  <2>10. /\ Grown /\ accounts' \in Seq(AccountRec) /\ Rows' = Rows \cup {r}
         /\ r \notin Rows /\ accounts'[r] = row
         /\ \A q \in Rows : accounts'[q] = accounts[q]
    BY <1>5, <2>4, <2>5, <2>7, RowAppended
  <2>11. \A q \in Rows : accounts[q].identity # t.who
    BY <1>7 DEF WithIdentity
  <2>12. TheAccounts'
    BY <1>5, <2>4, <2>10, <2>11 DEF TheAccounts, OneEach, EitherWay
  <2>13. SignerOK(u)'
    BY <2>4, <2>9, <2>10 DEF SignerOK, Holds
  <2>14. AccountsInv'
    BY <1>3, <2>7, <2>10, <2>12, <2>13, SignsGrown
  <2>15. ASSUME CalmAccountsInv, ~fails, OneSigns' PROVE CalmAccountsInv'
    <3>1. Knows(u)'
      BY <2>4, <2>9, <2>10 DEF Knows
    <3>2. u # Away
      BY <2>9, AwayFields
    <3>3. \A y \in Signers : Knows(signer[y])'
      BY <2>7, <2>15, <3>1, <3>2, OnlyOneKnows DEF AccountsInv
    <3>4. Knows(t)
      BY <1>1, <2>15 DEF CalmAccountsInv
    <3>5. e \in Emails => WithEmail(e) = {}
      BY <1>2, <2>1, <3>4 DEF Knows, AccountsAssumption
    <3>6. OneAddress'
      BY <1>5, <2>4, <2>7, <2>15, <3>5, AddressStillOne DEF CalmAccountsInv
    <3>7. \A n \in answers : Told(n)'
      BY <1>5, <2>4, <2>7, <2>15, ToldStays DEF CalmAccountsInv, AccountsInv
    <3> QED BY <1>3, <2>15, <3>3, <3>6, <3>7 DEF CalmAccountsInv
  <2> QED BY <2>14, <2>15
<1> QED BY <1>6, <1>7

LEMMA JoinKeeps ==
  ASSUME AccountsInv, AccountsAssumption, NEW x \in Signers, NEW fails \in BOOLEAN, Join(x, fails)
  PROVE  AccountsInv' /\ (CalmAccountsInv /\ ~fails /\ OneSigns' => CalmAccountsInv')
<1>1. PICK t : t = signer[x]
  OBVIOUS
<1>2. t.at = "join" /\ t \in SigningRec /\ t.from = t.to /\ t.row \in Rows /\ accounts[t.row].password = NoOwner
  BY <1>1, SigningTyped DEF Join, Holds
<1>3. PICK n : n = [who |-> t.who, row |-> t.row, from |-> t.from, to |-> t.to, client |-> t.client]
  OBVIOUS
<1>4. n.who = t.who /\ n.row = t.row /\ n.from = t.from /\ n.to = t.to /\ n.client = t.client
  BY <1>3
<1>5. Keep /\ Signs(x, Away) /\ answers' = answers \cup {n} /\ x \in Signers /\ t # Away /\ signer[x] # Away
  BY <1>1, <1>2, <1>3, AwayFields DEF Join
<1>6. PICK row : row = IF t.client /\ ~fails THEN [accounts[t.row] EXCEPT !.joined = TRUE] ELSE accounts[t.row]
  OBVIOUS
<1>7. TheAccounts /\ accounts \in Seq(AccountRec) /\ accounts[t.row] \in AccountRec /\ t.client \in BOOLEAN
  BY <1>2 DEF AccountsInv, TheAccounts, Rows, SigningRec
<1>8. /\ row \in AccountRec /\ row.identity = accounts[t.row].identity /\ row.password = NoOwner
      /\ row.email = accounts[t.row].email /\ (accounts[t.row].joined => row.joined)
      /\ (t.client /\ ~fails => row.joined)
  <2>1. CASE t.client /\ ~fails
    <3>1. row = [accounts[t.row] EXCEPT !.joined = TRUE]
      BY <1>6, <2>1
    <3> QED BY <1>2, <1>7, <3>1 DEF AccountRec
  <2>2. CASE ~(t.client /\ ~fails)
    BY <1>2, <1>6, <1>7, <2>2
  <2> QED BY <2>1, <2>2
<1>9. accounts' = [accounts EXCEPT ![t.row] = row]
  <2>1. CASE t.client /\ ~fails
    BY <1>1, <1>6, <2>1 DEF Join
  <2>2. CASE ~(t.client /\ ~fails)
    <3>1. accounts' = accounts /\ row = accounts[t.row]
      BY <1>1, <1>6, <2>2 DEF Join
    <3> QED BY <1>2, <1>7, <3>1 DEF Rows
  <2> QED BY <2>1, <2>2
<1>10. /\ Grown /\ accounts' \in Seq(AccountRec) /\ Rows' = Rows /\ accounts'[t.row] = row
       /\ \A q \in Rows \ {t.row} : accounts'[q] = accounts[q]
  BY <1>2, <1>7, <1>8, <1>9, RowWritten, ZenonT(40)
<1>11. TheAccounts'
  <2>1. \A q \in Rows : accounts'[q].identity = accounts[q].identity
    BY <1>8, <1>10
  <2>2. \A q \in Rows : accounts'[q].password = accounts[q].password
    BY <1>2, <1>8, <1>10
  <2>3. OneEach'
    BY <1>7, <1>10, <2>1 DEF TheAccounts, OneEach
  <2>4. EitherWay'
    BY <1>7, <1>10, <2>1, <2>2 DEF TheAccounts, EitherWay
  <2> QED BY <1>10, <2>3, <2>4 DEF TheAccounts
<1>12. TheSigners'
  <2>1. SignerOK(Away)'
    BY DEF SignerOK
  <2> QED BY <1>5, <1>10, <2>1, OneSignsOn DEF AccountsInv
<1>13. TheAnswers'
  <2>1. AnswerOK(n)'
    BY <1>2, <1>4, <1>8, <1>10 DEF AnswerOK
  <2>2. ASSUME NEW m \in answers PROVE AnswerOK(m)'
    BY <1>10, AnswersStay DEF AccountsInv, TheAnswers
  <2> QED BY <1>5, <2>1, <2>2 DEF TheAnswers
<1>14. AccountsInv'
  BY <1>5, <1>11, <1>12, <1>13, CookiesStay DEF AccountsInv
<1>15. ASSUME CalmAccountsInv, ~fails, OneSigns' PROVE CalmAccountsInv'
  <2>1. Knows(Away)'
    BY AwayFields DEF Knows
  <2>2. \A y \in Signers : Knows(signer[y])'
    BY <1>5, <1>15, <2>1, OnlyOneKnows DEF AccountsInv
  <2>3. accounts[t.row].identity = t.who
    BY <1>1, <1>2, <1>15 DEF CalmAccountsInv, Knows
  <2>4. Told(n)'
    BY <1>4, <1>8, <1>10, <1>15, <2>3 DEF Told
  <2>5. ASSUME NEW m \in answers PROVE Told(m)'
    <3>1. Told(m) /\ m.row \in Rows
      BY <1>15 DEF CalmAccountsInv, AccountsInv, TheAnswers, AnswerOK
    <3> QED BY <1>8, <1>10, <3>1 DEF Told
  <2>6. OneAddress'
    BY <1>8, <1>10, <1>15 DEF CalmAccountsInv, OneAddress
  <2> QED BY <1>5, <1>15, <2>2, <2>4, <2>5, <2>6 DEF CalmAccountsInv
<1> QED BY <1>14, <1>15

(* Nobody signs on.                                                          *)
LEMMA NobodySigns ==
  ASSUME AccountsInv, UNCHANGED <<accounts, signer, answers>>, CookiesOK'
  PROVE  AccountsInv' /\ (CalmAccountsInv => CalmAccountsInv')
<1>1. TheAccounts' /\ Grown /\ Rows' = Rows
  BY NobodyGrows DEF AccountsInv, Rows
<1>2. TheSigners'
  <2>1. ASSUME NEW y \in Signers PROVE SignerOK(signer[y])'
    <3>1. PICK t : t = signer[y]
      OBVIOUS
    <3>2. SignerOK(t)'
      BY <1>1, <3>1, HeldStays DEF AccountsInv, TheSigners
    <3> QED BY <3>1, <3>2 DEF SignerOK, Holds
  <2> QED BY <2>1 DEF AccountsInv, TheSigners
<1>3. TheAnswers'
  BY <1>1, AnswersStay DEF AccountsInv, TheAnswers
<1>4. ASSUME CalmAccountsInv PROVE CalmAccountsInv'
  <2>1. OneAddress' /\ OneSigns'
    BY <1>1, <1>4 DEF CalmAccountsInv, OneAddress, OneSigns
  <2>2. ASSUME NEW y \in Signers PROVE Knows(signer[y])'
    <3>1. PICK t : t = signer[y]
      OBVIOUS
    <3>2. Knows(t)'
      BY <1>4, <3>1, StillKnown DEF CalmAccountsInv
    <3> QED BY <3>1, <3>2 DEF Knows
  <2>3. \A m \in answers' : Told(m)'
    BY <1>4 DEF CalmAccountsInv, Told
  <2> QED BY <2>1, <2>2, <2>3 DEF CalmAccountsInv
<1> QED BY <1>1, <1>2, <1>3, <1>4 DEF AccountsInv

LEMMA StartOAuthKeeps ==
  ASSUME AccountsInv, NEW q \in Browsers, NEW i \in Identities, StartOAuth(q, i)
  PROVE  AccountsInv' /\ (CalmAccountsInv => CalmAccountsInv')
<1>1. /\ states' = states + 1 /\ cookie' = [cookie EXCEPT ![q] = states + 1]
      /\ consents' = consents \cup {[state |-> states + 1, by |-> q, who |-> i]}
      /\ UNCHANGED <<accounts, signer, answers>>
  BY DEF StartOAuth
<1>2. CookiesOK
  BY DEF AccountsInv
<1>3. \A p \in Browsers : cookie'[p] = (IF p = q THEN states + 1 ELSE cookie[p])
  BY <1>1, <1>2 DEF CookiesOK
<1>4. DOMAIN cookie' = Browsers
  BY <1>1, <1>2 DEF CookiesOK
<1>5. PICK new : new = [state |-> states + 1, by |-> q, who |-> i]
  OBVIOUS
<1>6. new \in [state : Nat, by : Browsers, who : Identities] /\ new.state = states + 1 /\ new.by = q
  BY <1>2, <1>5 DEF CookiesOK
<1>7. \A c \in consents' : c = new \/ c \in consents
  BY <1>1, <1>5
<1>8. CookiesOK'
  BY <1>1, <1>2, <1>3, <1>4, <1>6, <1>7 DEF CookiesOK
<1> QED BY <1>1, <1>8, NobodySigns

LEMMA CompleteOAuthKeeps ==
  ASSUME AccountsInv, NEW x \in Signers, NEW q \in Browsers, NEW c, CompleteOAuth(x, q, c)
  PROVE  AccountsInv' /\ (CalmAccountsInv /\ OneSigns' => CalmAccountsInv')
<1>1. /\ c \in consents /\ c \in [state : Nat, by : Browsers, who : Identities]
      /\ cookie' = [cookie EXCEPT ![q] = NoState] /\ UNCHANGED <<accounts, states, answers>>
      /\ signer[x] = Away /\ CookiesOK
  BY DEF CompleteOAuth, AccountsInv, CookiesOK
<1>2. consents' \subseteq consents
  BY DEF CompleteOAuth
<1>3. DOMAIN cookie' = Browsers /\ cookie'[q] = NoState /\ \A p \in Browsers \ {q} : cookie'[p] = cookie[p]
  BY <1>1 DEF CookiesOK
<1>4. CookiesOK'
  BY <1>1, <1>2, <1>3 DEF CookiesOK, NoState
<1>5. CASE CheckStateCookie(q, c)
  <2>1. c.by = q
    BY <1>1, <1>5 DEF CheckStateCookie, CookiesOK
  <2>2. PICK u : u = [at |-> "match", who |-> c.who, client |-> FALSE, from |-> c.by, to |-> q, row |-> NoAccount]
    OBVIOUS
  <2>3. u \in SigningRec /\ u.from = u.to /\ u.at = "match"
    BY <1>1, <2>1, <2>2 DEF SigningRec, Places, NoAccount
  <2>4. SignerOK(u) /\ Knows(u)
    BY <2>3 DEF SignerOK, Holds, Knows
  <2>5. Signs(x, u)
    BY <1>5, <2>2 DEF CompleteOAuth
  <2> QED BY <1>1, <1>4, <2>4, <2>5, SignsOn, CalmSignsOn
<1>6. CASE ~CheckStateCookie(q, c)
  <2>1. UNCHANGED signer
    BY <1>6 DEF CompleteOAuth
  <2> QED BY <1>1, <1>4, <2>1, NobodySigns
<1> QED BY <1>5, <1>6

LEMMA TokenLoginKeeps ==
  ASSUME AccountsInv, NEW x \in Signers, NEW i \in Identities, NEW client \in BOOLEAN, TokenLogin(x, i, client)
  PROVE  AccountsInv' /\ (CalmAccountsInv /\ OneSigns' => CalmAccountsInv')
<1>1. PICK u : u = [at |-> "match", who |-> i, client |-> client, from |-> "app", to |-> "app", row |-> NoAccount]
  OBVIOUS
<1>2. u \in SigningRec /\ u.from = u.to /\ u.at = "match"
  BY <1>1 DEF SigningRec, Places, NoAccount
<1>3. SignerOK(u) /\ Knows(u)
  BY <1>2 DEF SignerOK, Holds, Knows
<1>4. Signs(x, u) /\ Keep /\ UNCHANGED <<accounts, answers>> /\ CookiesOK'
  BY <1>1, CookiesStay DEF TokenLogin, AccountsInv
<1> QED BY <1>3, <1>4, SignsOn, CalmSignsOn

LEMMA RegisterKeeps ==
  ASSUME AccountsInv, NEW x \in Signers, NEW p \in Owners, NEW e \in Emails, NEW fails \in BOOLEAN,
         Register(x, p, e, fails)
  PROVE  AccountsInv' /\ (CalmAccountsInv /\ ~fails /\ OneSigns' => CalmAccountsInv')
<1>1. Keep /\ UNCHANGED <<accounts, answers>> /\ CookiesOK'
  BY CookiesStay DEF Register, AccountsInv
<1>2. PICK u : u = [at |-> "register", who |-> p, email |-> e]
  OBVIOUS
<1>3. u \in RegisterRec /\ u.at = "register" /\ u.email = e
  BY <1>2 DEF RegisterRec
<1>4. SignerOK(u) /\ SignerOK(Away) /\ Knows(Away)
  BY <1>3, AwayFields DEF SignerOK, Knows
<1>5. CASE WithEmail(e) # {} /\ ~fails
  <2>1. Signs(x, Away)
    BY <1>5 DEF Register
  <2> QED BY <1>1, <1>4, <2>1, SignsOn, CalmSignsOn
<1>6. CASE ~(WithEmail(e) # {} /\ ~fails)
  <2>1. Signs(x, u)
    BY <1>2, <1>6 DEF Register
  <2>2. ~fails => Knows(u)
    BY <1>3, <1>6 DEF Knows
  <2> QED BY <1>1, <1>4, <2>1, <2>2, SignsOn, CalmSignsOn
<1> QED BY <1>5, <1>6

LEMMA InsertRegisteredKeeps ==
  ASSUME AccountsInv, AccountsAssumption, NEW x \in Signers, InsertRegistered(x)
  PROVE  AccountsInv' /\ (CalmAccountsInv /\ OneSigns' => CalmAccountsInv')
<1>1. PICK t : t = signer[x]
  OBVIOUS
<1>2. t.at = "register" /\ t \in RegisterRec /\ t.who \in Owners /\ t.email \in Emails /\ t # Away
  BY <1>1, OthersTyped, AwayFields DEF InsertRegistered, RegisterRec
<1>3. Keep /\ UNCHANGED answers /\ Signs(x, Away) /\ SignerOK(Away) /\ SignerOK(Away)' /\ Knows(Away) /\ Knows(Away)'
  BY AwayFields DEF InsertRegistered, SignerOK, Knows
<1>4. TheAccounts /\ accounts \in Seq(AccountRec)
  BY DEF AccountsInv, TheAccounts
<1>5. CASE Len(accounts) = MaxAccounts
  <2>1. UNCHANGED accounts /\ CookiesOK'
    BY <1>3, <1>5, CookiesStay DEF InsertRegistered, AccountsInv
  <2> QED BY <1>3, <2>1, SignsOn, CalmSignsOn
<1>6. CASE Len(accounts) # MaxAccounts
  <2>1. PICK row : row = NewAccount(t.email, NoIdentity, t.who, FALSE)
    OBVIOUS
  <2>2. row \in AccountRec /\ row.identity = NoIdentity /\ row.email = t.email
    BY <1>2, <2>1 DEF NewAccount, AccountRec
  <2>3. accounts' = Append(accounts, row)
    BY <1>1, <1>6, <2>1 DEF InsertRegistered
  <2>4. PICK k : k = Len(accounts) + 1
    OBVIOUS
  <2>5. /\ Grown /\ accounts' \in Seq(AccountRec) /\ Rows' = Rows \cup {k}
        /\ k \notin Rows /\ accounts'[k] = row
        /\ \A q \in Rows : accounts'[q] = accounts[q]
    BY <1>4, <2>2, <2>3, <2>4, RowAppended
  <2>6. TheAccounts'
    BY <1>4, <2>2, <2>5 DEF TheAccounts, OneEach, EitherWay
  <2>7. AccountsInv'
    BY <1>3, <2>5, <2>6, SignsGrown
  <2>8. ASSUME CalmAccountsInv, OneSigns' PROVE CalmAccountsInv'
    <3>1. signer[x] # Away
      BY <1>1, <1>2
    <3>2. \A y \in Signers : Knows(signer[y])'
      BY <1>3, <2>8, <3>1, OnlyOneKnows DEF AccountsInv
    <3>3. WithEmail(t.email) = {}
      BY <1>1, <1>2, <2>8 DEF CalmAccountsInv, Knows
    <3>4. OneAddress'
      BY <1>4, <2>2, <2>3, <2>8, <3>3, AddressStillOne DEF CalmAccountsInv
    <3>5. \A n \in answers : Told(n)'
      BY <1>4, <2>2, <2>3, <2>8, ToldStays DEF CalmAccountsInv, AccountsInv
    <3> QED BY <1>3, <2>8, <3>2, <3>4, <3>5 DEF CalmAccountsInv
  <2> QED BY <2>7, <2>8
<1> QED BY <1>5, <1>6

LEMMA LoginKeeps ==
  ASSUME AccountsInv, AccountsAssumption, NEW p \in Owners, NEW e \in Emails, Login(p, e)
  PROVE  AccountsInv' /\ (CalmAccountsInv => CalmAccountsInv')
<1>1. Keep /\ UNCHANGED <<accounts, signer>> /\ CookiesOK'
  BY CookiesStay DEF Login, AccountsInv
<1>2. PICK r \in WithEmail(e) :
        /\ accounts[r].password = p
        /\ answers' = answers \cup {[who |-> p, row |-> r, from |-> "app", to |-> "app", client |-> FALSE]}
  BY DEF Login
<1>3. PICK n : n = [who |-> p, row |-> r, from |-> "app", to |-> "app", client |-> FALSE]
  OBVIOUS
<1>4. n.who = p /\ n.row = r /\ n.from = n.to /\ ~n.client /\ r \in Rows /\ answers' = answers \cup {n}
  BY <1>2, <1>3, WithSome
<1>5. TheAccounts' /\ Grown /\ Rows' = Rows
  BY <1>1, NobodyGrows DEF AccountsInv, Rows
<1>6. TheSigners'
  <2>1. ASSUME NEW y \in Signers PROVE SignerOK(signer[y])'
    <3>1. PICK t : t = signer[y]
      OBVIOUS
    <3>2. SignerOK(t)'
      BY <1>5, <3>1, HeldStays DEF AccountsInv, TheSigners
    <3> QED BY <1>1, <3>1, <3>2 DEF SignerOK, Holds
  <2> QED BY <1>1, <2>1 DEF AccountsInv, TheSigners
<1>7. TheAnswers'
  <2>1. AnswerOK(n)'
    BY <1>1, <1>2, <1>4, <1>5 DEF AnswerOK
  <2>2. ASSUME NEW m \in answers PROVE AnswerOK(m)'
    BY <1>5, AnswersStay DEF AccountsInv, TheAnswers
  <2> QED BY <1>4, <2>1, <2>2 DEF TheAnswers
<1>8. ASSUME CalmAccountsInv PROVE CalmAccountsInv'
  <2>1. OneAddress' /\ OneSigns'
    BY <1>1, <1>5, <1>8 DEF CalmAccountsInv, OneAddress, OneSigns
  <2>2. ASSUME NEW y \in Signers PROVE Knows(signer[y])'
    <3>1. PICK t : t = signer[y]
      OBVIOUS
    <3>2. Knows(t)'
      BY <1>1, <1>8, <3>1, StillKnown DEF CalmAccountsInv
    <3> QED BY <1>1, <3>1, <3>2 DEF Knows
  <2>3. Told(n)'
    BY <1>4 DEF Told, AccountsAssumption
  <2>4. \A m \in answers : Told(m)'
    BY <1>1, <1>8 DEF CalmAccountsInv, Told
  <2> QED BY <1>4, <2>1, <2>2, <2>3, <2>4 DEF CalmAccountsInv
<1> QED BY <1>1, <1>5, <1>6, <1>7, <1>8 DEF AccountsInv

LEMMA ChangeEmailKeeps ==
  ASSUME AccountsInv, NEW x \in Signers, NEW r, NEW e \in Emails, ChangeEmail(x, r, e)
  PROVE  AccountsInv' /\ (CalmAccountsInv /\ OneSigns' => CalmAccountsInv')
<1>1. PICK u : u = [at |-> "change", row |-> r, email |-> e]
  OBVIOUS
<1>2. r \in Rows /\ r \in Nat
  BY DEF ChangeEmail, Rows
<1>3. u \in ChangeRec /\ u.row = r /\ u.at = "change" /\ u.email = e
  BY <1>1, <1>2 DEF ChangeRec
<1>4. SignerOK(u)
  BY <1>2, <1>3 DEF SignerOK, Holds
<1>5. Knows(u)
  BY <1>3 DEF Knows, ChangeEmail
<1>6. Signs(x, u) /\ Keep /\ UNCHANGED <<accounts, answers>> /\ CookiesOK'
  BY <1>1, CookiesStay DEF ChangeEmail, AccountsInv
<1> QED BY <1>4, <1>5, <1>6, SignsOn, CalmSignsOn

LEMMA WriteEmailKeeps ==
  ASSUME AccountsInv, AccountsAssumption, NEW x \in Signers, WriteEmail(x)
  PROVE  AccountsInv' /\ (CalmAccountsInv /\ OneSigns' => CalmAccountsInv')
<1>1. PICK t : t = signer[x]
  OBVIOUS
<1>2. t.at = "change" /\ t \in ChangeRec /\ t.row \in Rows /\ t.email \in Emails /\ t # Away
  BY <1>1, OthersTyped, AwayFields DEF WriteEmail, ChangeRec, Holds
<1>3. Keep /\ UNCHANGED answers /\ Signs(x, Away) /\ SignerOK(Away)' /\ Knows(Away)'
  BY AwayFields DEF WriteEmail, SignerOK, Knows
<1>4. TheAccounts /\ accounts \in Seq(AccountRec) /\ accounts[t.row] \in AccountRec
  BY <1>2 DEF AccountsInv, TheAccounts, Rows
<1>5. PICK row : row = [accounts[t.row] EXCEPT !.email = t.email]
  OBVIOUS
<1>6. /\ row \in AccountRec /\ row.email = t.email /\ row.identity = accounts[t.row].identity
      /\ row.password = accounts[t.row].password /\ row.joined = accounts[t.row].joined
  BY <1>2, <1>4, <1>5 DEF AccountRec
<1>7. accounts' = [accounts EXCEPT ![t.row] = row]
  BY <1>1, <1>5 DEF WriteEmail
<1>8. /\ Grown /\ accounts' \in Seq(AccountRec) /\ Rows' = Rows /\ accounts'[t.row] = row
      /\ \A q \in Rows \ {t.row} : accounts'[q] = accounts[q]
  BY <1>2, <1>4, <1>6, <1>7, RowWritten
<1>9. TheAccounts'
  BY <1>4, <1>6, <1>8 DEF TheAccounts, OneEach, EitherWay
<1>10. AccountsInv'
  BY <1>3, <1>8, <1>9, SignsGrown
<1>11. ASSUME CalmAccountsInv, OneSigns' PROVE CalmAccountsInv'
  <2>1. signer[x] # Away
    BY <1>1, <1>2
  <2>2. \A y \in Signers : Knows(signer[y])'
    BY <1>3, <1>11, <2>1, OnlyOneKnows DEF AccountsInv
  <2>3. \A q \in Rows \ {t.row} : accounts[q].email # t.email
    BY <1>1, <1>2, <1>11 DEF CalmAccountsInv, Knows, WithEmail
  <2>4. OneAddress'
    BY <1>6, <1>8, <1>11, <2>3 DEF CalmAccountsInv, OneAddress
  <2>5. ASSUME NEW n \in answers PROVE Told(n)'
    <3>1. Told(n) /\ n.row \in Rows
      BY <1>11 DEF CalmAccountsInv, AccountsInv, TheAnswers, AnswerOK
    <3> QED BY <1>6, <1>8, <3>1 DEF Told
  <2> QED BY <1>3, <1>11, <2>2, <2>4, <2>5 DEF CalmAccountsInv
<1> QED BY <1>10, <1>11

(* What is at most one.                                                      *)
LEMMA AtMostOne ==
  ASSUME NEW S, IsFiniteSet(S)
  PROVE  Cardinality(S) <= 1 <=> \A x, y \in S : x = y
<1>1. Cardinality(S) \in Nat /\ (Cardinality(S) = 0 <=> S = {}) /\ (Cardinality(S) = 1 <=> \E x : S = {x})
  BY FS_CardinalityType, FS_EmptySet, FS_Singleton
<1>2. ASSUME Cardinality(S) <= 1, NEW x \in S, NEW y \in S PROVE x = y
  <2>1. Cardinality(S) = 1
    BY <1>1, <1>2
  <2> QED BY <1>1, <1>2, <2>1
<1>3. ASSUME \A x, y \in S : x = y PROVE Cardinality(S) <= 1
  <2>1. CASE S = {}
    BY <1>1, <2>1
  <2>2. CASE S # {}
    <3>1. PICK x : x \in S
      BY <2>2
    <3>2. S = {x}
      BY <1>3, <3>1
    <3> QED BY <1>1, <3>2
  <2> QED BY <2>1, <2>2
<1> QED BY <1>2, <1>3

LEMMA TurnsAreTaken ==
  ASSUME AccountsAssumption, SignersTakeTurns'
  PROVE  OneSigns'
<1> DEFINE S == {x \in Signers : signer'[x] # Away}
<1>1. IsFiniteSet(S)
  BY FS_Subset DEF AccountsAssumption
<1>2. Cardinality(S) <= 1
  BY DEF SignersTakeTurns
<1>3. \A x, y \in S : x = y
  BY <1>1, <1>2, AtMostOne
<1> QED BY <1>3 DEF OneSigns

LEMMA AccountStepsKeep ==
  ASSUME AccountsInv, AccountsAssumption, calm \in BOOLEAN, AccountSteps
  PROVE  AccountsInv' /\ (calm /\ CalmAccountsInv /\ OneSigns' => CalmAccountsInv')
<1>1. ASSUME NEW x \in Signers, NEW fails \in {FALSE} \cup (IF calm THEN {} ELSE {TRUE}),
             \/ SignerStep(x, fails)
             \/ \E p \in Owners, e \in Emails : Register(x, p, e, fails)
      PROVE  AccountsInv' /\ (calm /\ CalmAccountsInv /\ OneSigns' => CalmAccountsInv')
  <2>1. fails \in BOOLEAN /\ (calm => ~fails)
    BY <1>1
  <2> QED
    BY <1>1, <2>1, MatchKeeps, FindByEmailKeeps, LinkKeeps, InsertKeeps, JoinKeeps, RegisterKeeps DEF SignerStep
<1>2. ASSUME NEW x \in Signers,
             \/ InsertRegistered(x) \/ WriteEmail(x)
             \/ \E i \in Identities, client \in BOOLEAN : TokenLogin(x, i, client)
             \/ \E q \in Browsers, c \in consents : CompleteOAuth(x, q, c)
             \/ \E r \in Rows, e \in Emails : ChangeEmail(x, r, e)
      PROVE  AccountsInv' /\ (CalmAccountsInv /\ OneSigns' => CalmAccountsInv')
  BY <1>2, InsertRegisteredKeeps, WriteEmailKeeps, TokenLoginKeeps, CompleteOAuthKeeps, ChangeEmailKeeps
<1>3. ASSUME \/ \E q \in Browsers, i \in Identities : StartOAuth(q, i)
             \/ \E p \in Owners, e \in Emails : Login(p, e)
      PROVE  AccountsInv' /\ (CalmAccountsInv => CalmAccountsInv')
  BY <1>3, StartOAuthKeeps, LoginKeeps
<1> QED BY <1>1, <1>2, <1>3 DEF AccountSteps

LEMMA AccountsKept ==
  ASSUME AccountsIInv, AccountsAssumption, calm \in BOOLEAN, [MCNext]_<<first, second, service, calm>>
  PROVE  AccountsIInv'
<1>1. calm' = calm
  BY DEF MCNext
<1>2. CASE UNCHANGED accountsVars
  <2>1. UNCHANGED <<accounts, signer, answers>> /\ CookiesOK'
    BY <1>2 DEF accountsVars, AccountsIInv, AccountsInv, CookiesOK
  <2> QED BY <1>1, <2>1, NobodySigns DEF AccountsIInv
<1>3. CASE AccountSteps /\ (calm => SignersTakeTurns')
  BY <1>1, <1>3, AccountStepsKeep, TurnsAreTaken DEF AccountsIInv
<1>4. UNCHANGED accountsVars \/ (AccountSteps /\ (calm => SignersTakeTurns'))
  <2>1. CASE UNCHANGED <<first, second, service, calm>>
    BY <2>1 DEF second
  <2>2. CASE MCNext
    BY <2>2 DEF MCNext, second
  <2> QED BY <2>1, <2>2
<1> QED BY <1>2, <1>3, <1>4

LEMMA AccountsAreWhole ==
  ASSUME AccountsIInv, AccountsAssumption, calm \in BOOLEAN
  PROVE  AccountsSound
<1>1. TheAccounts /\ accounts \in Seq(AccountRec) /\ Len(accounts) \in Nat
  BY DEF AccountsIInv, AccountsInv, TheAccounts
<1>2. IsFiniteSet(Rows)
  BY <1>1, FS_Interval DEF Rows
<1>3. \A i : IsFiniteSet(WithIdentity(i))
  BY <1>2, FS_Subset DEF WithIdentity
<1>4. \A e : IsFiniteSet(WithEmail(e))
  BY <1>2, FS_Subset DEF WithEmail
<1>5. OneWayIn
  <2>1. ASSUME NEW i \in Identities PROVE Cardinality(WithIdentity(i)) <= 1
    <3>1. \A q, r \in WithIdentity(i) : q = r
      BY <1>1, WithSome DEF TheAccounts, OneEach, AccountsAssumption
    <3> QED BY <1>3, <3>1, AtMostOne
  <2> QED BY <1>1, <2>1 DEF OneWayIn, TheAccounts, EitherWay
<1>6. OwnAccounts /\ SameBrowser
  BY DEF OwnAccounts, SameBrowser, AccountsIInv, AccountsInv, TheAnswers, AnswerOK
<1>7. ASSUME calm PROVE OnePerEmail /\ SameAccount /\ ClientsJoined
  <2>1. CalmAccountsInv
    BY <1>7 DEF AccountsIInv
  <2>2. ASSUME NEW e \in Emails PROVE Cardinality(WithEmail(e)) <= 1
    <3>1. \A q, r \in WithEmail(e) : q = r
      BY <2>1, WithSome DEF CalmAccountsInv, OneAddress
    <3> QED BY <1>4, <3>1, AtMostOne
  <2>3. \A n \in answers : Told(n) /\ n.row \in Rows
    BY <2>1 DEF CalmAccountsInv, AccountsIInv, AccountsInv, TheAnswers, AnswerOK
  <2>4. SameAccount
    BY <1>1, <2>3 DEF SameAccount, Told, TheAccounts, OneEach, AccountsAssumption
  <2> QED BY <2>2, <2>3, <2>4 DEF OnePerEmail, ClientsJoined, Told
<1> QED BY <1>5, <1>6, <1>7 DEF AccountsSound

(* Whatever overlaps and fails, an account has one way in and an identity    *)
(* one account, an answer goes to the browser it was begun in and is the     *)
(* owner's account; and where goroutines take turns and nothing fails an     *)
(* address and an identity lead to one account (oauth.go, auth.go).          *)
THEOREM AccountsAreSound == MCSpec => []AccountsSound
<1> DEFINE I == AccountsIInv /\ calm \in BOOLEAN
<1>1. MCInit => I
  BY AccountsStart DEF MCInit
<1>2. I /\ [MCNext]_<<first, second, service, calm>> => I'
  <2>1. [MCNext]_<<first, second, service, calm>> => calm' = calm
    BY DEF MCNext
  <2> QED BY <2>1, AccountsKept, AccountsAssumption
<1>3. I => AccountsSound
  BY AccountsAreWhole, AccountsAssumption
<1> QED BY <1>1, <1>2, <1>3, PTL DEF MCSpec

-----------------------------------------------------------------------------
(* Requests.  The log, as what is in the table, held and waiting; and the   *)
(* requests under way, whose answers say the status that was sent.          *)
AskRec ==
  [to : {"page", "module", "fieldset", "screen", "action", "menu", "public", "upload"},
   on : Modules \cup Screens \cup {"none", "posts"}, method : Methods, one : BOOLEAN,
   looks : {"plain", "marked", "likely"}, query : BOOLEAN]
Operations ==
  {"none", "page", "fieldset", "screen", "action", "menu", "public", "upload",
   "list", "create", "view", "edit", "delete", "nowhere", "refused"}
AnswerRec == [sent : Nat, status : Nat, written : BOOLEAN, buffered : BOOLEAN, held : Nat]
TaskRec ==
  [at : {"in", "denied", "serve", "done", "broken"}, id : Nat, session : Sessions, client : Clients,
   ask : AskRec, api : BOOLEAN, answer : AnswerRec, ran : Operations]
ToldRec == [ended : BOOLEAN, sent : Nat, ran : Operations]
LineRec ==
  [id : Nat, at : Nat, status : Nat, blocked : BOOLEAN, api : BOOLEAN,
   reason : {"ip_rule", "authz", "none"}]
CountRec == [all : Nat, dropped : Nat, failed : Nat]

(* The status an answer has is the one it was sent with, or the one it will *)
(* be sent with if nobody says another.                                     *)
Fair(y) ==
  IF y.buffered THEN ~y.written /\ y.sent = 0 /\ y.status = 200 /\ (y.held = 0 \/ y.held >= 200)
  ELSE IF y.written THEN y.sent = y.status /\ y.sent # 0
  ELSE y.sent = 0 /\ y.status = 200
FairOut(y) == y.status = IF y.sent = 0 THEN 200 ELSE y.sent

TaskOK(j, n) ==
  /\ j \in TaskRec /\ j.id \in 1..n
  /\ IF j.at = "denied" THEN j.answer = Blank(FALSE) ELSE j.api => Fair(j.answer)
  /\ j.at = "serve" /\ j.ask.to = "module" /\ j.ran # "nowhere" => HasMode(j.session, j.ask.on, j.ran)

(* Of two lines in the log, one came before the other.                      *)
Before(k, l) == k.at < l.at /\ k.id # l.id
RowsInTurn(s) == \A i, j \in 1..Len(s) : i < j => Before(s[i], s[j])
AllBefore(s, r) == \A i \in 1..Len(s), j \in 1..Len(r) : Before(s[i], r[j])
Holding == IF storing = NoEntry THEN <<>> ELSE <<storing>>
Lines ==
  {accessLog[i] : i \in 1..Len(accessLog)} \cup (IF storing = NoEntry THEN {} ELSE {storing})
  \cup {waiting[i] : i \in 1..Len(waiting)}

LogInv ==
  /\ accessLog \in Seq(LineRec) /\ waiting \in Seq(LineRec)
  /\ storing \in LineRec \cup {NoEntry} /\ counted \in CountRec
  /\ RowsInTurn(accessLog) /\ RowsInTurn(waiting) /\ AllBefore(accessLog, waiting)
  /\ storing # NoEntry => AllBefore(accessLog, <<storing>>) /\ AllBefore(<<storing>>, waiting)
  /\ \A e \in Lines : e.at <= counted.all /\ e.id # 0
  /\ counted.all = Len(accessLog) + (IF storing = NoEntry THEN 0 ELSE 1) + Len(waiting)
                     + counted.dropped + counted.failed

(* A line is of a request that was made; of one under way only if it was    *)
(* denied.                                                                  *)
LineOK(e, all, now) ==
  /\ e.id \in 1..Len(all)
  /\ e.api /\ all[e.id].ended /\ all[e.id].sent # 0 => e.status = all[e.id].sent
  /\ \A t \in Tasks : now[t] # Waiter /\ now[t].id = e.id => now[t].at = "denied" /\ e.status = 403

TasksOK(all, now) ==
  /\ all \in Seq(ToldRec) /\ now \in [Tasks -> {Waiter} \cup TaskRec]
  /\ \A t \in Tasks : now[t] # Waiter => TaskOK(now[t], Len(all)) /\ ~all[now[t].id].ended
  /\ \A t, u \in Tasks : now[t] # Waiter /\ now[u] # Waiter /\ now[t].id = now[u].id => t = u

TasksHold == TasksOK(told, task) /\ \A e \in Lines : LineOK(e, told, task)

RequestsInv ==
  /\ session \in [Clients -> Sessions] /\ menu = [c \in Clients |-> menu[c]]
  /\ LogInv /\ TasksOK(told, task)
  /\ \A e \in Lines : LineOK(e, told, task)

(* While rights stay as they are, a menu is what the session may do.        *)
CalmMenus ==
  /\ \A c \in Clients : menu[c] = {} \/ menu[c] = Listed(session[c])
  /\ \A t \in Tasks : task[t] # Waiter => task[t].session = session[task[t].client]

RequestsIInv == AtRequests => RequestsInv /\ (calm => CalmMenus)

-----------------------------------------------------------------------------
LEMMA AnswersFair ==
  ASSUME NEW y \in AnswerRec, NEW code \in Nat
  PROVE  /\ Said(y, code) \in AnswerRec /\ Wrote(y) \in AnswerRec /\ Released(y) \in AnswerRec
         /\ Fair(y) => Fair(Wrote(y)) /\ FairOut(Released(y)) /\ (code >= 200 => Fair(Said(y, code)))
<1> DEFINE H(z, k) == [z EXCEPT !.status = IF z.written THEN @ ELSE k, !.written = TRUE,
                                !.sent = IF @ = 0 /\ k >= 200 THEN k ELSE @]
           B(z) == [z EXCEPT !.written = TRUE, !.sent = IF @ = 0 THEN 200 ELSE @]
           G(z, k) == [z EXCEPT !.held = IF @ = 0 THEN k ELSE @]
<1>1. \A z \in AnswerRec, k \in Nat :
        /\ Header(z, k) \in AnswerRec
        /\ Header(z, k).status = IF z.written THEN z.status ELSE k
        /\ Header(z, k).written /\ Header(z, k).buffered = z.buffered /\ Header(z, k).held = z.held
        /\ Header(z, k).sent = IF z.sent = 0 /\ k >= 200 THEN k ELSE z.sent
  <2> SUFFICES ASSUME NEW z \in AnswerRec, NEW k \in Nat
               PROVE  /\ Header(z, k) \in AnswerRec
                      /\ Header(z, k).status = IF z.written THEN z.status ELSE k
                      /\ Header(z, k).written /\ Header(z, k).buffered = z.buffered
                      /\ Header(z, k).held = z.held
                      /\ Header(z, k).sent = IF z.sent = 0 /\ k >= 200 THEN k ELSE z.sent
    OBVIOUS
  <2>1. CASE z.written
    <3>1. Header(z, k) = [z EXCEPT !.written = TRUE, !.sent = IF z.sent = 0 /\ k >= 200 THEN k ELSE z.sent]
      BY <2>1 DEF Header, AnswerRec
    <3> QED BY <2>1, <3>1 DEF AnswerRec
  <2>2. CASE ~z.written
    <3>1. Header(z, k) = [z EXCEPT !.status = k, !.written = TRUE,
                                   !.sent = IF z.sent = 0 /\ k >= 200 THEN k ELSE z.sent]
      BY <2>2 DEF Header, AnswerRec
    <3> QED BY <2>2, <3>1 DEF AnswerRec
  <2> QED BY <2>1, <2>2
<1>2. \A z \in AnswerRec :
        /\ Body(z) \in AnswerRec /\ Body(z).written /\ Body(z).status = z.status
        /\ Body(z).buffered = z.buffered /\ Body(z).held = z.held
        /\ Body(z).sent = IF z.sent = 0 THEN 200 ELSE z.sent
  BY DEF AnswerRec, Body
<1>3. /\ G(y, code) \in AnswerRec
      /\ G(y, code).status = y.status /\ G(y, code).written = y.written
      /\ G(y, code).buffered = y.buffered /\ G(y, code).sent = y.sent
      /\ G(y, code).held = IF y.held = 0 THEN code ELSE y.held
  BY DEF AnswerRec
<1>4. y.held \in Nat /\ y.sent \in Nat /\ y.status \in Nat /\ y.buffered \in BOOLEAN /\ y.written \in BOOLEAN
  BY DEF AnswerRec
<1>5. Said(y, code) = IF y.buffered THEN G(y, code) ELSE Header(y, code)
  BY DEF Said
<1> HIDE DEF G, H, B
<1>6. Said(y, code) \in AnswerRec /\ (Fair(y) /\ code >= 200 => Fair(Said(y, code)))
  <2>1. CASE y.buffered
    BY <2>1, <1>3, <1>4, <1>5 DEF Fair
  <2>2. CASE ~y.buffered
    <3>1. Said(y, code) = Header(y, code) /\ Header(y, code) \in AnswerRec
      BY <2>2, <1>1, <1>5
    <3>2. /\ Header(y, code).status = (IF y.written THEN y.status ELSE code)
          /\ Header(y, code).written /\ ~Header(y, code).buffered
          /\ Header(y, code).sent = IF y.sent = 0 /\ code >= 200 THEN code ELSE y.sent
      BY <2>2, <1>1
    <3>3. ASSUME Fair(y), code >= 200 PROVE Fair(Header(y, code))
      <4>1. IF y.written THEN y.sent = y.status /\ y.sent # 0 ELSE y.sent = 0 /\ y.status = 200
        BY <2>2, <3>3 DEF Fair
      <4>2. Header(y, code).sent = Header(y, code).status /\ Header(y, code).sent # 0
        BY <3>2, <3>3, <4>1, <1>4
      <4> QED BY <3>2, <4>2 DEF Fair
    <3> QED BY <3>1, <3>3
  <2> QED BY <2>1, <2>2, <1>4
<1>7. Wrote(y) \in AnswerRec /\ (Fair(y) => Fair(Wrote(y)))
  BY <1>2, <1>4 DEF Wrote, Fair
<1>8. Released(y) \in AnswerRec /\ (Fair(y) => FairOut(Released(y)))
  <2>1. CASE y.buffered
    <3> DEFINE k == IF y.held = 0 THEN 200 ELSE y.held
    <3>1. k \in Nat /\ (Fair(y) => k >= 200)
      BY <2>1, <1>4 DEF Fair
    <3>2. Released(y) = Body(Header(y, k))
      BY <2>1 DEF Released
    <3> HIDE DEF k
    <3>3. Header(y, k) \in AnswerRec
      BY <3>1, <1>1
    <3>4. Body(Header(y, k)) \in AnswerRec /\ Body(Header(y, k)).status = Header(y, k).status
          /\ Body(Header(y, k)).sent = IF Header(y, k).sent = 0 THEN 200 ELSE Header(y, k).sent
      BY <3>3, <1>2
    <3>5. Header(y, k).status = (IF y.written THEN y.status ELSE k)
          /\ Header(y, k).sent = IF y.sent = 0 /\ k >= 200 THEN k ELSE y.sent
      BY <3>1, <1>1
    <3>6. Fair(y) => ~y.written /\ y.sent = 0
      BY <2>1 DEF Fair
    <3>7. Fair(y) => Body(Header(y, k)).sent = k /\ Body(Header(y, k)).status = k
      BY <3>1, <3>4, <3>5, <3>6
    <3> QED BY <3>2, <3>4, <3>7 DEF FairOut
  <2>2. CASE ~y.buffered
    BY <2>2, <1>4 DEF Released, Fair, FairOut
  <2> QED BY <2>1, <2>2, <1>4
<1> QED BY <1>6, <1>7, <1>8

LEMMA BlankAnswer ==
  ASSUME NEW y \in BOOLEAN
  PROVE  Blank(y) \in AnswerRec /\ Fair(Blank(y)) /\ (~y => Body(Header(Blank(y), 403)).sent = 403)
BY DEF Blank, AnswerRec, Fair, Body, Header

LEMMA AsksTyped ==
  ASSUME NEW x \in AskedNow
  PROVE  x \in AskRec /\ Routed(x) \in Operations /\ IsAPICall(x) \in BOOLEAN
<1>1. x \in FewAsks \cup Asks \cup {Menu}
  BY DEF AskedNow
<1>2. \A to, on, method, one, looks, query :
        /\ to \in {"page", "module", "fieldset", "screen", "action", "menu", "public", "upload"}
        /\ on \in Modules \cup Screens \cup {"none", "posts"} /\ method \in Methods
        /\ one \in BOOLEAN /\ looks \in {"plain", "marked", "likely"} /\ query \in BOOLEAN
        => Ask(to, on, method, one, looks, query) \in AskRec
  BY DEF Ask, AskRec
<1>3. {"GET", "PUT", "POST"} \subseteq Methods
  BY DEF Methods
<1>4. FewAsks \cup {Menu} \subseteq AskRec
  BY <1>2, <1>3 DEF FewAsks, Menu, Browsing
<1>5. ASSUME NEW y \in Asks PROVE y \in AskRec
  <2> DEFINE A1 == {Browsing(m) : m \in Modules}
             A2 == [to : {"module"}, on : Modules, method : Methods, one : BOOLEAN,
                    looks : {"marked", "likely"}, query : BOOLEAN]
             A3 == {Ask("fieldset", m, "GET", FALSE, "marked", FALSE) : m \in Modules}
             A0 == {Ask("screen", s, "GET", FALSE, "marked", FALSE) : s \in Screens}
             A4 == {Ask("screen", s, "PUT", FALSE, "marked", FALSE) : s \in Screens}
             A5 == {Ask("action", s, "POST", FALSE, "marked", FALSE) : s \in Screens}
             A6 == {Ask(to, "none", "GET", FALSE, "marked", FALSE) : to \in {"menu", "public"}}
             A7 == {Ask("upload", "none", "POST", FALSE, "marked", FALSE)}
  <2>1. Asks = A1 \cup A2 \cup A3 \cup A0 \cup A4 \cup A5 \cup A6 \cup A7
    BY DEF Asks
  <2>2. A2 \subseteq AskRec
    BY DEF AskRec
  <2>3. A1 \subseteq AskRec /\ A3 \subseteq AskRec
    BY <1>2, <1>3 DEF Browsing
  <2>4. A0 \subseteq AskRec /\ A4 \subseteq AskRec /\ A5 \subseteq AskRec
    BY <1>2, <1>3
  <2>5. A6 \subseteq AskRec /\ A7 \subseteq AskRec
    BY <1>2, <1>3
  <2> HIDE DEF A0, A1, A2, A3, A4, A5, A6, A7
  <2> QED BY <2>1, <2>2, <2>3, <2>4, <2>5
<1>6. x \in AskRec
  BY <1>1, <1>4, <1>5
<1> QED BY <1>6 DEF AskRec, Routed, Operations, IsAPICall

-----------------------------------------------------------------------------
(* The log.                                                                 *)
LEMMA LogFacts ==
  ASSUME LogInv
  PROVE  /\ accessLog \in Seq(LineRec) /\ waiting \in Seq(LineRec)
         /\ storing # NoEntry => storing \in LineRec
         /\ counted \in CountRec /\ counted.all \in Nat /\ counted.dropped \in Nat /\ counted.failed \in Nat
         /\ Len(waiting) \in Nat /\ Len(accessLog) \in Nat
         /\ RowsInTurn(accessLog) /\ RowsInTurn(waiting) /\ AllBefore(accessLog, waiting)
         /\ storing # NoEntry => AllBefore(accessLog, <<storing>>) /\ AllBefore(<<storing>>, waiting)
         /\ counted.all = Len(accessLog) + (IF storing = NoEntry THEN 0 ELSE 1) + Len(waiting)
                            + counted.dropped + counted.failed
BY DEF LogInv, CountRec

LEMMA LineTyped ==
  ASSUME LogInv
  PROVE  \A e \in Lines : /\ e \in LineRec /\ e.at \in Nat /\ e.id \in Nat
                           /\ e.at <= counted.all /\ e.id # 0
<1>1. \A e \in Lines : e.at <= counted.all /\ e.id # 0
  BY DEF LogInv
<1>2. \A e \in Lines : e \in LineRec
  BY LogFacts DEF Lines
<1> QED BY <1>1, <1>2 DEF LineRec

(* One line held, between what is stored and what waits.                    *)
LEMMA OneHeld ==
  ASSUME NEW x, NEW s, Len(s) \in Nat
  PROVE  /\ AllBefore(s, <<x>>) <=> \A i \in 1..Len(s) : Before(s[i], x)
         /\ AllBefore(<<x>>, s) <=> \A i \in 1..Len(s) : Before(x, s[i])
<1>1. Len(<<x>>) = 1 /\ <<x>>[1] = x /\ 1..1 = {1}
  OBVIOUS
<1> QED BY <1>1 DEF AllBefore

LEMMA Recording ==
  ASSUME LogInv, NEW e \in LineRec, e.id # 0, \A l \in Lines : l.id # e.id,
         RecordEntry(e), UNCHANGED <<accessLog, storing>>
  PROVE  /\ LogInv'
         /\ \A l \in Lines' : l \in Lines \/ (l.id = e.id /\ l.api = e.api /\ l.status = e.status)
<1> DEFINE n == [e EXCEPT !.at = counted.all + 1]
<1>1. /\ accessLog \in Seq(LineRec) /\ waiting \in Seq(LineRec) /\ counted \in CountRec
      /\ counted.all \in Nat /\ counted.dropped \in Nat /\ counted.failed \in Nat
      /\ Len(waiting) \in Nat /\ Len(accessLog) \in Nat
  BY DEF LogInv, CountRec
<1>2. n \in LineRec /\ n.at = counted.all + 1 /\ n.id = e.id /\ n.at \in Nat
      /\ n.api = e.api /\ n.status = e.status
  <2>1. PICK k \in Nat : k = counted.all + 1
    BY <1>1
  <2>2. n = [e EXCEPT !.at = k]
    BY <2>1
  <2>3. [e EXCEPT !.at = k] \in LineRec /\ [e EXCEPT !.at = k].at = k /\ [e EXCEPT !.at = k].id = e.id
        /\ [e EXCEPT !.at = k].api = e.api /\ [e EXCEPT !.at = k].status = e.status
    BY DEF LineRec
  <2> QED BY <2>1, <2>2, <2>3
<1>3. \A l \in Lines : Before(l, n)
  BY <1>1, <1>2, LineTyped DEF Before
<1>4. /\ counted' \in CountRec /\ counted'.all = counted.all + 1 /\ counted'.failed = counted.failed
      /\ counted'.dropped = IF Len(waiting) < QueueSize THEN counted.dropped ELSE counted.dropped + 1
  <2>1. PICK k \in Nat : k = counted.all + 1
    BY <1>1
  <2>2. PICK l \in Nat : l = IF Len(waiting) < QueueSize THEN counted.dropped ELSE counted.dropped + 1
    BY <1>1
  <2>3. counted' = [counted EXCEPT !.all = k, !.dropped = l]
    BY <2>1, <2>2 DEF RecordEntry
  <2>4. counted' \in CountRec /\ counted'.all = k /\ counted'.failed = counted.failed /\ counted'.dropped = l
    BY <2>3, <1>1 DEF CountRec
  <2> QED BY <2>1, <2>2, <2>4
<1>5. waiting' = IF Len(waiting) < QueueSize THEN Append(waiting, n) ELSE waiting
  BY DEF RecordEntry
<1> HIDE DEF n
<1>6. CASE Len(waiting) < QueueSize
  <2>1. PICK k : k = Len(waiting) + 1
    OBVIOUS
  <2>2. /\ waiting' \in Seq(LineRec) /\ Len(waiting') = k /\ waiting'[k] = n
        /\ \A i \in 1..Len(waiting) : waiting'[i] = waiting[i]
        /\ \A i \in 1..k : i \in 1..Len(waiting) \/ i = k
    BY <2>1, <1>1, <1>2, <1>5, <1>6
  <2>3. \A i \in 1..Len(waiting) : waiting[i] \in Lines
    BY DEF Lines
  <2>4. \A i \in 1..Len(accessLog) : accessLog[i] \in Lines
    BY DEF Lines
  <2>5. storing # NoEntry => storing \in Lines
    BY DEF Lines
  <2>6. RowsInTurn(waiting')
    <3> SUFFICES ASSUME NEW i \in 1..k, NEW j \in 1..k, i < j
                 PROVE  Before(waiting'[i], waiting'[j])
      BY <2>2 DEF RowsInTurn
    <3>1. i \in 1..Len(waiting) /\ waiting'[i] = waiting[i]
      BY <2>1, <2>2, <1>1
    <3>2. CASE j = k
      BY <3>1, <3>2, <2>2, <2>3, <1>3
    <3>3. CASE j # k
      <4>1. j \in 1..Len(waiting) /\ waiting'[j] = waiting[j]
        BY <3>3, <2>2
      <4> QED BY <3>1, <4>1, LogFacts DEF RowsInTurn
    <3> QED BY <3>2, <3>3
  <2>7. AllBefore(accessLog, waiting')
    BY <2>2, <2>4, <1>1, <1>3, LogFacts, OneHeld DEF AllBefore
  <2>8. ASSUME storing # NoEntry PROVE AllBefore(<<storing>>, waiting')
    <3>1. \A i \in 1..Len(waiting) : Before(storing, waiting[i])
      BY <2>8, <1>1, LogFacts, OneHeld
    <3>2. \A i \in 1..Len(waiting') : Before(storing, waiting'[i])
      BY <3>1, <2>2, <2>5, <2>8, <1>3
    <3>3. Len(waiting') \in Nat
      BY <2>1, <2>2, <1>1
    <3> QED BY <3>2, <3>3, OneHeld
  <2>9. Lines' \subseteq Lines \cup {n}
    BY <2>2, <2>3 DEF Lines
  <2>10. \A l \in Lines' : l.at <= counted'.all /\ l.id # 0
    BY <2>9, <1>1, <1>2, <1>4, LineTyped
  <2>11. counted'.all = Len(accessLog) + (IF storing = NoEntry THEN 0 ELSE 1) + Len(waiting')
                          + counted'.dropped + counted'.failed
    <3>1. Len(waiting') = Len(waiting) + 1 /\ counted'.dropped = counted.dropped
      BY <2>1, <2>2, <1>4, <1>6
    <3>2. CASE storing = NoEntry
      BY <3>1, <3>2, <1>1, <1>4, LogFacts
    <3>3. CASE storing # NoEntry
      BY <3>1, <3>3, <1>1, <1>4, LogFacts
    <3> QED BY <3>2, <3>3
  <2>12. LogInv'
    BY <2>2, <2>6, <2>7, <2>8, <2>10, <2>11, <1>4 DEF LogInv
  <2> QED BY <2>9, <2>12, <1>2
<1>7. CASE ~(Len(waiting) < QueueSize)
  <2>1. waiting' = waiting /\ Lines' = Lines
    BY <1>5, <1>7 DEF Lines
  <2>2. \A l \in Lines' : l.at <= counted'.all /\ l.id # 0
    BY <2>1, <1>1, <1>4, LineTyped
  <2>3. counted'.all = Len(accessLog) + (IF storing = NoEntry THEN 0 ELSE 1) + Len(waiting')
                          + counted'.dropped + counted'.failed
    <3>1. counted'.dropped = counted.dropped + 1
      BY <1>4, <1>7
    <3>2. CASE storing = NoEntry
      BY <3>1, <3>2, <2>1, <1>1, <1>4, LogFacts
    <3>3. CASE storing # NoEntry
      BY <3>1, <3>3, <2>1, <1>1, <1>4, LogFacts
    <3> QED BY <3>2, <3>3
  <2> QED BY <2>1, <2>2, <2>3, <1>4 DEF LogInv
<1> QED BY <1>6, <1>7

LEMMA Taking ==
  ASSUME LogInv, TakeEntry
  PROVE  LogInv' /\ Lines' \subseteq Lines
<1>1. /\ storing = NoEntry /\ waiting # <<>> /\ storing' = Head(waiting) /\ waiting' = Tail(waiting)
      /\ accessLog' = accessLog /\ counted' = counted
  BY DEF TakeEntry
<1>2. /\ accessLog \in Seq(LineRec) /\ waiting \in Seq(LineRec) /\ counted \in CountRec
      /\ Len(waiting) \in Nat \ {0} /\ Len(accessLog) \in Nat
  BY <1>1 DEF LogInv
<1>3. /\ Len(waiting') = Len(waiting) - 1 /\ waiting' \in Seq(LineRec)
      /\ \A i \in 1..Len(waiting') : i + 1 \in 1..Len(waiting) /\ waiting'[i] = waiting[i + 1]
      /\ 1 \in 1..Len(waiting) /\ storing' = waiting[1]
  BY <1>1, <1>2
<1>4. storing' \in LineRec /\ storing' # NoEntry
  <2>1. waiting[1] \in Lines
    BY <1>3 DEF Lines
  <2> QED BY <2>1, <1>3, LineTyped DEF LogInv, NoEntry
<1>5. Lines' \subseteq Lines
  BY <1>1, <1>3 DEF Lines
<1>6. RowsInTurn(waiting')
  <2> SUFFICES ASSUME NEW i \in 1..Len(waiting'), NEW j \in 1..Len(waiting'), i < j
               PROVE  Before(waiting'[i], waiting'[j])
    BY DEF RowsInTurn
  <2>1. PICK k \in 1..Len(waiting) : k = i + 1 /\ waiting'[i] = waiting[k]
    BY <1>3
  <2>2. PICK l \in 1..Len(waiting) : l = j + 1 /\ waiting'[j] = waiting[l]
    BY <1>3
  <2>3. k < l
    BY <2>1, <2>2, <1>2, <1>3
  <2> QED BY <2>1, <2>2, <2>3, LogFacts DEF RowsInTurn
<1>7. AllBefore(accessLog, waiting') /\ AllBefore(accessLog, <<storing'>>)
  <2>1. \A i \in 1..Len(accessLog), j \in 1..Len(waiting) : Before(accessLog[i], waiting[j])
    BY LogFacts DEF AllBefore
  <2>2. \A i \in 1..Len(accessLog), j \in 1..Len(waiting') : Before(accessLog[i], waiting'[j])
    BY <2>1, <1>3
  <2>3. \A i \in 1..Len(accessLog) : Before(accessLog[i], storing')
    BY <2>1, <1>3
  <2> QED BY <2>2, <2>3, <1>2, OneHeld DEF AllBefore
<1>8. AllBefore(<<storing'>>, waiting')
  <2>1. ASSUME NEW i \in 1..Len(waiting') PROVE Before(waiting[1], waiting'[i])
    <3>1. PICK k \in 1..Len(waiting) : k = i + 1 /\ waiting'[i] = waiting[k]
      BY <1>3
    <3>2. 1 < k
      BY <3>1, <1>2, <1>3
    <3> QED BY <3>1, <3>2, <1>3, LogFacts DEF RowsInTurn
  <2>2. Len(waiting') \in Nat
    BY <1>2, <1>3
  <2> QED BY <2>1, <2>2, <1>3, OneHeld
<1>9. counted.all = Len(accessLog) + 1 + Len(waiting') + counted.dropped + counted.failed
  <2>1. counted.all \in Nat /\ counted.dropped \in Nat /\ counted.failed \in Nat
    BY <1>2 DEF CountRec
  <2> QED BY <2>1, <1>1, <1>2, <1>3, LogFacts
<1> QED BY <1>1, <1>2, <1>3, <1>4, <1>5, <1>6, <1>7, <1>8, <1>9 DEF LogInv

LEMMA Storing ==
  ASSUME LogInv, NEW works \in BOOLEAN, StoreEntry(works)
  PROVE  LogInv' /\ Lines' \subseteq Lines
<1>1. /\ storing # NoEntry /\ storing' = NoEntry /\ waiting' = waiting
      /\ accessLog' = IF works THEN Append(accessLog, storing) ELSE accessLog
      /\ counted' = [counted EXCEPT !.failed = IF works THEN @ ELSE @ + 1]
  BY DEF StoreEntry
<1>2. /\ accessLog \in Seq(LineRec) /\ waiting \in Seq(LineRec) /\ counted \in CountRec
      /\ storing \in LineRec /\ Len(waiting) \in Nat /\ Len(accessLog) \in Nat
      /\ counted.all \in Nat /\ counted.dropped \in Nat /\ counted.failed \in Nat
  BY <1>1 DEF LogInv, CountRec
<1>3. /\ counted' \in CountRec /\ counted'.all = counted.all /\ counted'.dropped = counted.dropped
      /\ counted'.failed = IF works THEN counted.failed ELSE counted.failed + 1
  BY <1>1, <1>2 DEF CountRec
<1>4. CASE works
  <2>1. PICK k : k = Len(accessLog) + 1
    OBVIOUS
  <2>2. /\ accessLog' \in Seq(LineRec) /\ Len(accessLog') = k /\ accessLog'[k] = storing
        /\ \A i \in 1..Len(accessLog) : accessLog'[i] = accessLog[i]
        /\ \A i \in 1..k : i \in 1..Len(accessLog) \/ i = k
    BY <2>1, <1>1, <1>2, <1>4
  <2>3. Lines' \subseteq Lines
    BY <2>2, <1>1 DEF Lines
  <2>4. RowsInTurn(accessLog')
    BY <2>1, <2>2, <1>1, <1>2, LogFacts, OneHeld DEF RowsInTurn
  <2>5. AllBefore(accessLog', waiting)
    BY <2>2, <1>1, <1>2, LogFacts, OneHeld DEF AllBefore
  <2>6. counted'.all = Len(accessLog') + 0 + Len(waiting) + counted'.dropped + counted'.failed
    BY <2>1, <2>2, <1>1, <1>2, <1>3, <1>4, LogFacts
  <2> QED BY <2>2, <2>3, <2>4, <2>5, <2>6, <1>1, <1>2, <1>3 DEF LogInv
<1>5. CASE ~works
  <2>1. accessLog' = accessLog
    BY <1>1, <1>5
  <2>2. Lines' \subseteq Lines
    BY <2>1, <1>1 DEF Lines
  <2>3. counted'.all = Len(accessLog) + 0 + Len(waiting) + counted'.dropped + counted'.failed
    BY <1>1, <1>2, <1>3, <1>5, LogFacts
  <2> QED BY <2>1, <2>2, <2>3, <1>1, <1>2, <1>3 DEF LogInv
<1> QED BY <1>4, <1>5

LEMMA LogSteps ==
  ASSUME RequestsInv, LogStep
  PROVE  RequestsInv' /\ (CalmMenus => CalmMenus')
<1>1. LogInv' /\ Lines' \subseteq Lines
  BY Taking, Storing DEF LogStep, RequestsInv
<1>2. UNCHANGED <<session, task, menu, told>>
  BY DEF LogStep, TakeEntry, StoreEntry
<1>3. RequestsInv'
  BY <1>1, <1>2 DEF RequestsInv
<1> QED BY <1>2, <1>3 DEF CalmMenus

-----------------------------------------------------------------------------
(* The requests under way: one goes on, ends or starts.                     *)
LEMMA TaskFacts ==
  ASSUME NEW all, NEW now, TasksOK(all, now), NEW t \in Tasks, now[t] # Waiter
  PROVE  /\ now[t] \in TaskRec /\ TaskOK(now[t], Len(all)) /\ ~all[now[t].id].ended
         /\ now[t].id \in 1..Len(all) /\ Len(all) \in Nat /\ now[t].id \in Nat
         /\ now[t].ask \in AskRec /\ now[t].answer \in AnswerRec /\ now[t].session \in Sessions
         /\ now[t].client \in Clients /\ now[t].api \in BOOLEAN /\ now[t].ran \in Operations
<1>1. now[t] \in TaskRec /\ TaskOK(now[t], Len(all)) /\ ~all[now[t].id].ended /\ Len(all) \in Nat
  <2>1. TaskOK(now[t], Len(all)) /\ ~all[now[t].id].ended /\ all \in Seq(ToldRec)
    BY DEF TasksOK
  <2>2. now[t] \in TaskRec
    BY <2>1, Zenon DEF TaskOK
  <2>3. Len(all) \in Nat
    BY <2>1
  <2> QED BY <2>1, <2>2, <2>3
<1>2. now[t].id \in 1..Len(all)
  BY <1>1 DEF TaskOK
<1> QED BY <1>1, <1>2 DEF TaskRec

LEMMA NotWaiting ==
  ASSUME NEW j \in TaskRec
  PROVE  j # Waiter
BY DEF TaskRec, Waiter

LEMMA GoesOn ==
  ASSUME NEW all, NEW now, NEW S, TasksOK(all, now), \A e \in S : LineOK(e, all, now),
         NEW t \in Tasks, now[t] # Waiter, now[t].at # "denied",
         NEW j, TaskOK(j, Len(all)), j.id = now[t].id
  PROVE  /\ TasksOK(all, [now EXCEPT ![t] = j])
         /\ \A e \in S : LineOK(e, all, [now EXCEPT ![t] = j])
<1> DEFINE next == [now EXCEPT ![t] = j]
<1>1. now \in [Tasks -> {Waiter} \cup TaskRec] /\ j \in TaskRec /\ j # Waiter
  BY NotWaiting DEF TasksOK, TaskOK
<1>2. next \in [Tasks -> {Waiter} \cup TaskRec] /\ next[t] = j /\ \A u \in Tasks \ {t} : next[u] = now[u]
  BY <1>1
<1> HIDE DEF next
<1>3. TasksOK(all, next)
  <2>1. ASSUME NEW u \in Tasks, next[u] # Waiter PROVE TaskOK(next[u], Len(all)) /\ ~all[next[u].id].ended
    BY <2>1, <1>2, TaskFacts
  <2>2. ASSUME NEW u \in Tasks, NEW v \in Tasks, next[u] # Waiter, next[v] # Waiter, next[u].id = next[v].id
        PROVE  u = v
    BY <2>2, <1>2 DEF TasksOK
  <2> QED BY <1>2, <2>1, <2>2 DEF TasksOK
<1>4. ASSUME NEW e \in S PROVE LineOK(e, all, next)
  BY <1>2 DEF LineOK
<1> QED BY <1>3, <1>4 DEF next

LEMMA Ends ==
  ASSUME NEW all, NEW now, NEW S, TasksOK(all, now), NEW t \in Tasks, now[t] # Waiter,
         NEW sent \in Nat,
         \A e \in S : \/ LineOK(e, all, now) /\ e.id # now[t].id
                      \/ e.id = now[t].id /\ (e.api /\ sent # 0 => e.status = sent),
         NEW ends, ends = [all EXCEPT ![now[t].id] = [ended |-> TRUE, sent |-> sent, ran |-> now[t].ran]]
  PROVE  /\ TasksOK(ends, [now EXCEPT ![t] = Waiter])
         /\ \A e \in S : LineOK(e, ends, [now EXCEPT ![t] = Waiter])
<1> DEFINE next == [now EXCEPT ![t] = Waiter]
<1>1. PICK k : k = now[t].id
  OBVIOUS
<1>2. PICK z : z = [ended |-> TRUE, sent |-> sent, ran |-> now[t].ran]
  OBVIOUS
<1>3. z \in ToldRec /\ z.ended /\ z.sent = sent
  BY <1>2, TaskFacts DEF ToldRec
<1>4. all \in Seq(ToldRec) /\ Len(all) \in Nat /\ k \in 1..Len(all)
  BY <1>1, TaskFacts DEF TasksOK
<1>5. /\ ends \in Seq(ToldRec) /\ Len(ends) = Len(all) /\ ends[k] = z
      /\ \A i \in 1..Len(all) : i # k => ends[i] = all[i]
  BY <1>1, <1>2, <1>3, <1>4
<1>6. now \in [Tasks -> {Waiter} \cup TaskRec]
  BY DEF TasksOK
<1>7. next \in [Tasks -> {Waiter} \cup TaskRec] /\ next[t] = Waiter /\ \A u \in Tasks \ {t} : next[u] = now[u]
  BY <1>6
<1> HIDE DEF next
<1>8. \A u \in Tasks : next[u] # Waiter => u # t /\ next[u] = now[u] /\ now[u] # Waiter /\ now[u].id # k
  BY <1>1, <1>7 DEF TasksOK
<1>9. TasksOK(ends, next)
  <2>1. ASSUME NEW u \in Tasks, next[u] # Waiter PROVE TaskOK(next[u], Len(ends)) /\ ~ends[next[u].id].ended
    <3>1. TaskOK(now[u], Len(all)) /\ ~all[now[u].id].ended /\ now[u].id \in 1..Len(all)
      BY <2>1, <1>8, TaskFacts
    <3> QED BY <2>1, <3>1, <1>5, <1>8
  <2>2. ASSUME NEW u \in Tasks, NEW v \in Tasks, next[u] # Waiter, next[v] # Waiter, next[u].id = next[v].id
        PROVE  u = v
    BY <2>2, <1>8 DEF TasksOK
  <2> QED BY <1>5, <1>7, <2>1, <2>2 DEF TasksOK
<1>10. ASSUME NEW e \in S PROVE LineOK(e, ends, next)
  <2>1. CASE e.id = k
    BY <2>1, <1>1, <1>3, <1>4, <1>5, <1>8 DEF LineOK
  <2>2. CASE e.id # k
    <3>1. LineOK(e, all, now)
      BY <2>2, <1>1
    <3> QED BY <2>2, <3>1, <1>5, <1>8 DEF LineOK
  <2> QED BY <2>1, <2>2
<1> QED BY <1>9, <1>10 DEF next

LEMMA Starts ==
  ASSUME TasksOK(told, task), NEW t \in Tasks, task[t] = Waiter,
         NEW j, TaskOK(j, Len(told) + 1), j.id = Len(told) + 1,
         \A e \in Lines' : \/ LineOK(e, told, task)
                           \/ e.id = Len(told) + 1 /\ j.at = "denied" /\ e.status = 403,
         told' = Append(told, [ended |-> FALSE, sent |-> 0, ran |-> "none"]),
         task' = [task EXCEPT ![t] = j]
  PROVE  TasksHold'
<1>1. told \in Seq(ToldRec) /\ Len(told) \in Nat
  BY DEF TasksOK
<1>2. PICK k \in Nat : k = Len(told) + 1
  BY <1>1
<1>3. PICK z : z = [ended |-> FALSE, sent |-> 0, ran |-> "none"]
  OBVIOUS
<1>4. z \in ToldRec /\ ~z.ended
  BY <1>3 DEF ToldRec, Operations
<1>5. /\ told' \in Seq(ToldRec) /\ Len(told') = k /\ told'[k] = z
      /\ \A i \in 1..Len(told) : told'[i] = told[i] /\ i # k /\ i \in 1..k
  BY <1>1, <1>2, <1>3, <1>4
<1>6. task \in [Tasks -> {Waiter} \cup TaskRec] /\ j \in TaskRec /\ j # Waiter
  BY NotWaiting DEF TasksOK, TaskOK
<1>7. task' \in [Tasks -> {Waiter} \cup TaskRec] /\ task'[t] = j /\ \A u \in Tasks \ {t} : task'[u] = task[u]
  BY <1>6
<1>8. \A u \in Tasks \ {t} : task'[u] # Waiter =>
        /\ TaskOK(task'[u], Len(told)) /\ task'[u].id \in 1..Len(told) /\ ~told[task'[u].id].ended
        /\ task'[u] = task[u] /\ task[u] # Waiter
  BY <1>7, TaskFacts
<1>9. \A y : TaskOK(y, Len(told)) => TaskOK(y, k)
  <2>1. \A i \in 1..Len(told) : i \in 1..k
    BY <1>1, <1>2
  <2> QED BY <2>1 DEF TaskOK
<1>10. TasksOK(told', task')
  <2>1. ASSUME NEW u \in Tasks, task'[u] # Waiter PROVE TaskOK(task'[u], Len(told')) /\ ~told'[task'[u].id].ended
    <3>1. CASE u = t
      BY <3>1, <1>2, <1>4, <1>5, <1>7
    <3>2. CASE u # t
      BY <2>1, <3>2, <1>5, <1>8, <1>9
    <3> QED BY <3>1, <3>2
  <2>2. ASSUME NEW u \in Tasks, NEW v \in Tasks, task'[u] # Waiter, task'[v] # Waiter, task'[u].id = task'[v].id
        PROVE  u = v
    <3>1. CASE u = t
      BY <2>2, <3>1, <1>2, <1>5, <1>7, <1>8
    <3>2. CASE v = t
      BY <2>2, <3>2, <1>2, <1>5, <1>7, <1>8
    <3>3. CASE u # t /\ v # t
      BY <2>2, <3>3, <1>8 DEF TasksOK
    <3> QED BY <3>1, <3>2, <3>3
  <2> QED BY <1>5, <1>7, <2>1, <2>2 DEF TasksOK
<1>11. ASSUME NEW e \in Lines' PROVE LineOK(e, told', task')
  <2>1. CASE LineOK(e, told, task)
    <3>1. e.id \in 1..Len(told) /\ told'[e.id] = told[e.id] /\ e.id # k /\ e.id \in 1..k
      BY <2>1, <1>5 DEF LineOK
    <3> QED BY <2>1, <3>1, <1>2, <1>5, <1>7, <1>8 DEF LineOK
  <2>2. CASE e.id = Len(told) + 1 /\ j.at = "denied" /\ e.status = 403
    <3>1. e.id = k /\ e.id \in 1..k
      BY <2>2, <1>1, <1>2
    <3>2. \A u \in Tasks : task'[u] # Waiter /\ task'[u].id = k => u = t
      BY <1>5, <1>8
    <3> QED BY <2>2, <3>1, <3>2, <1>4, <1>5, <1>7 DEF LineOK
  <2> QED BY <2>1, <2>2
<1> QED BY <1>10, <1>11 DEF TasksHold

(* What a goroutine does with its request, from one state to the next.      *)
LEMMA ContinuesKeeps ==
  ASSUME RequestsInv, NEW t \in Tasks, task[t] # Waiter, task[t].at # "denied",
         NEW j, TaskOK(j, Len(told)), j.id = task[t].id,
         j.session = task[t].session, j.client = task[t].client,
         task' = [task EXCEPT ![t] = j], menu' = [c \in Clients |-> menu'[c]],
         UNCHANGED <<session, waiting, storing, accessLog, counted, told>>
  PROVE  RequestsInv' /\ (CalmMenus /\ menu' = menu => CalmMenus')
<1>1. LogInv' /\ Lines' = Lines /\ session' \in [Clients -> Sessions]
  BY DEF RequestsInv, LogInv, Lines
<1>2. TasksOK(told, task') /\ \A e \in Lines : LineOK(e, told, task')
  BY GoesOn DEF RequestsInv
<1>3. RequestsInv'
  BY <1>1, <1>2 DEF RequestsInv
<1>4. task' = [u \in Tasks |-> IF u = t THEN j ELSE task[u]]
  BY DEF RequestsInv, TasksOK
<1> QED BY <1>3, <1>4 DEF CalmMenus

Moved(r, at, y, ran) == [r EXCEPT !.at = at, !.answer = y, !.ran = ran]
LEMMA Changed ==
  ASSUME NEW r \in TaskRec, NEW at \in {"in", "denied", "serve", "done", "broken"},
         NEW y \in AnswerRec, NEW ran \in Operations
  PROVE  /\ Moved(r, at, y, ran) \in TaskRec /\ Moved(r, at, y, ran).at = at
         /\ Moved(r, at, y, ran).answer = y /\ Moved(r, at, y, ran).ran = ran
         /\ Moved(r, at, y, ran).id = r.id /\ Moved(r, at, y, ran).session = r.session
         /\ Moved(r, at, y, ran).client = r.client /\ Moved(r, at, y, ran).ask = r.ask
         /\ Moved(r, at, y, ran).api = r.api
BY DEF TaskRec, Moved

(* What the gate lets through is an operation the session has the mode for. *)
LEMMA GateAndRouterAgree ==
  ASSUME NEW s \in Sessions, NEW x \in AskRec, x.to = "module", AuthorizeAPIRequest(s, x),
         Routed(x) # "nowhere"
  PROVE  HasMode(s, x.on, Routed(x))
<1>1. x.method \in Methods /\ x.one \in BOOLEAN
  BY DEF AskRec
<1>2. HasMode(s, x.on, ApiActionMode(x.method, x.one))
  BY DEF AuthorizeAPIRequest
<1>3. Routed(x) = ApiActionMode(x.method, x.one)
  <2>1. CASE x.one
    BY <1>1, <2>1 DEF Routed, ApiActionMode, Methods
  <2>2. CASE ~x.one
    BY <1>1, <2>2 DEF Routed, ApiActionMode, Methods
  <2> QED BY <1>1, <2>1, <2>2
<1> QED BY <1>2, <1>3

LEMMA Done ==
  ASSUME RequestsInv, NEW t \in Tasks, task[t] # Waiter, task[t].at # "denied",
         NEW y \in AnswerRec, task[t].api => Fair(y), NEW ran \in Operations,
         task' = [task EXCEPT ![t] = Moved(task[t], "done", y, ran)],
         menu' = [c \in Clients |-> menu'[c]],
         UNCHANGED <<session, waiting, storing, accessLog, counted, told>>
  PROVE  RequestsInv' /\ (CalmMenus /\ menu' = menu => CalmMenus')
<1>1. task[t] \in TaskRec /\ task[t].id \in 1..Len(told)
  BY TaskFacts DEF RequestsInv
<1>2. PICK j : j = Moved(task[t], "done", y, ran)
  OBVIOUS
<1>3. /\ j \in TaskRec /\ j.at = "done" /\ j.answer = y /\ j.id = task[t].id
      /\ j.session = task[t].session /\ j.client = task[t].client /\ j.api = task[t].api
  BY <1>1, <1>2, Changed
<1>4. TaskOK(j, Len(told))
  BY <1>1, <1>3 DEF TaskOK
<1>5. task' = [task EXCEPT ![t] = j]
  BY <1>2
<1> QED BY <1>3, <1>4, <1>5, ContinuesKeeps

LEMMA MenuShape ==
  ASSUME RequestsInv, menu' = menu
  PROVE  menu' = [c \in Clients |-> menu'[c]]
BY DEF RequestsInv

LEMMA AuthorizeKeeps ==
  ASSUME RequestsInv, NEW t \in Tasks, NEW refused, Authorize(t, refused)
  PROVE  RequestsInv' /\ (CalmMenus => CalmMenus')
<1> DEFINE r == task[t]
<1>1. /\ r.at = "in" /\ r.api /\ r # Waiter
      /\ UNCHANGED <<session, menu, waiting, storing, accessLog, counted, told>>
  BY DEF Authorize, Waiter
<1>2. /\ r \in TaskRec /\ r.id \in 1..Len(told) /\ r.answer \in AnswerRec /\ r.ask \in AskRec
      /\ r.session \in Sessions /\ r.ran \in Operations /\ TaskOK(r, Len(told))
  BY <1>1, TaskFacts DEF RequestsInv
<1>3. Fair(r.answer)
  BY <1>1, <1>2 DEF TaskOK
<1>4. CASE AuthorizeAPIRequest(r.session, r.ask)
  <2>1. task' = [task EXCEPT ![t].at = "serve", ![t].ran = Routed(r.ask)]
    BY <1>4 DEF Authorize
  <2>3. PICK k \in Operations : k = Routed(r.ask)
    BY <1>2 DEF AskRec, Routed, Operations
  <2>2. PICK j : j = Moved(r, "serve", r.answer, k)
    OBVIOUS
  <2>4. /\ j \in TaskRec /\ j.at = "serve" /\ j.answer = r.answer /\ j.ran = k /\ j.id = r.id
        /\ j.session = r.session /\ j.client = r.client /\ j.ask = r.ask /\ j.api = r.api
    <3>1. PICK y \in AnswerRec : y = r.answer
      BY <1>2
    <3>2. PICK q \in TaskRec : q = r
      BY <1>2
    <3>3. j = Moved(q, "serve", y, k)
      BY <2>2, <3>1, <3>2
    <3>4. j \in TaskRec /\ j.at = "serve" /\ j.answer = y /\ j.ran = k
      BY <2>3, <3>1, <3>2, <3>3, Changed
    <3>5. j.id = q.id
      BY <2>3, <3>1, <3>2, <3>3, Changed, SMTT(20)
    <3>6. j.session = q.session
      BY <2>3, <3>1, <3>2, <3>3, Changed, SMTT(20)
    <3>7. j.client = q.client /\ j.ask = q.ask /\ j.api = q.api
      BY <2>3, <3>1, <3>2, <3>3, Changed
    <3> QED BY <3>1, <3>2, <3>4, <3>5, <3>6, <3>7
  <2>5. TaskOK(j, Len(told))
    BY <1>2, <1>3, <1>4, <2>3, <2>4, GateAndRouterAgree DEF TaskOK
  <2>6. task' = [task EXCEPT ![t] = j]
    <3>1. task' = [task EXCEPT ![t] = [r EXCEPT !.at = "serve", !.ran = Routed(r.ask)]]
      BY <2>1
    <3>2. [r EXCEPT !.at = "serve", !.ran = Routed(r.ask)] = j
      BY <1>2, <2>2, <2>3 DEF TaskRec, Moved
    <3> QED BY <3>1, <3>2
  <2> QED BY <1>1, <2>4, <2>5, <2>6, ContinuesKeeps, MenuShape
<1>5. CASE ~AuthorizeAPIRequest(r.session, r.ask)
  <2>1. task' = [task EXCEPT ![t].at = "done", ![t].answer = Wrote(Said(r.answer, 401))]
    BY <1>5 DEF Authorize
  <2>2. Said(r.answer, 401) \in AnswerRec /\ Fair(Said(r.answer, 401))
    BY <1>2, <1>3, AnswersFair
  <2>3. Wrote(Said(r.answer, 401)) \in AnswerRec /\ Fair(Wrote(Said(r.answer, 401)))
    BY <2>2, AnswersFair
  <2>4. task' = [task EXCEPT ![t] = Moved(r, "done", Wrote(Said(r.answer, 401)), r.ran)]
    <3>1. task' = [task EXCEPT ![t] = [r EXCEPT !.at = "done", !.answer = Wrote(Said(r.answer, 401))]]
      BY <2>1, ZenonT(40)
    <3>2. \A y : [r EXCEPT !.at = "done", !.answer = y] = Moved(r, "done", y, r.ran)
      BY <1>2 DEF TaskRec, Moved
    <3>3. PICK y : y = Wrote(Said(r.answer, 401))
      OBVIOUS
    <3>4. [r EXCEPT !.at = "done", !.answer = y] = Moved(r, "done", y, r.ran)
      BY <3>2, Zenon
    <3> QED BY <3>1, <3>3, <3>4
  <2> QED BY <1>1, <1>2, <2>3, <2>4, Done, MenuShape, ZenonT(40)
<1> QED BY <1>4, <1>5

LEMMA FinishesDone ==
  ASSUME RequestsInv, NEW t \in Tasks, task[t] # Waiter, task[t].at # "denied",
         NEW y \in AnswerRec, task[t].api => Fair(y), Finishes(t, y),
         menu' = [c \in Clients |-> menu'[c]],
         UNCHANGED <<session, waiting, storing, accessLog, counted, told>>
  PROVE  RequestsInv' /\ (CalmMenus /\ menu' = menu => CalmMenus')
<1>1. task[t] \in TaskRec /\ task[t].ran \in Operations
  BY TaskFacts DEF RequestsInv
<1>2. task' = [task EXCEPT ![t] = [task[t] EXCEPT !.at = "done", !.answer = y]]
  BY DEF Finishes
<1>3. [task[t] EXCEPT !.at = "done", !.answer = y] = Moved(task[t], "done", y, task[t].ran)
  BY <1>1 DEF TaskRec, Moved
<1>4. task' = [task EXCEPT ![t] = Moved(task[t], "done", y, task[t].ran)]
  BY <1>2, <1>3
<1> QED BY <1>1, <1>4, Done

LEMMA IndexKeeps ==
  ASSUME RequestsInv, NEW t \in Tasks, NEW works \in BOOLEAN, Index(t, works)
  PROVE  RequestsInv' /\ (CalmMenus => CalmMenus')
<1> DEFINE r == task[t]
           y == Said(r.answer, 103)
           z == IF works THEN y ELSE Said(y, 500)
<1>1. /\ r.at = "in" /\ ~r.api /\ r # Waiter /\ Finishes(t, Wrote(z))
      /\ UNCHANGED <<session, menu, waiting, storing, accessLog, counted, told>>
  BY DEF Index, Waiter
<1>2. r.answer \in AnswerRec
  BY <1>1, TaskFacts DEF RequestsInv
<1>3. y \in AnswerRec
  BY <1>2, AnswersFair
<1>4. z \in AnswerRec
  BY <1>3, AnswersFair
<1>5. Wrote(z) \in AnswerRec
  BY <1>4, AnswersFair
<1> HIDE DEF z
<1> QED BY <1>1, <1>5, FinishesDone, MenuShape

LEMMA ServeKeeps ==
  ASSUME RequestsInv, NEW t \in Tasks, NEW code \in Codes, NEW late \in BOOLEAN, Serve(t, code, late)
  PROVE  RequestsInv' /\ (CalmMenus => CalmMenus')
<1> DEFINE r == task[t]
           y == IF code = 200 THEN r.answer ELSE Said(r.answer, code)
           z == IF late THEN Said(Wrote(y), 500) ELSE Wrote(y)
<1>1. /\ r.at = "serve" /\ r # Waiter /\ Finishes(t, z)
      /\ UNCHANGED <<session, menu, waiting, storing, accessLog, counted, told>>
  BY DEF Serve, Waiter
<1>2. r.answer \in AnswerRec /\ TaskOK(r, Len(told)) /\ code \in Nat /\ code >= 200
  BY <1>1, TaskFacts DEF RequestsInv, Codes
<1>3. r.api => Fair(r.answer)
  BY <1>1, <1>2 DEF TaskOK
<1>4. y \in AnswerRec /\ (r.api => Fair(y))
  BY <1>2, <1>3, AnswersFair
<1> HIDE DEF y
<1>5. Wrote(y) \in AnswerRec /\ (r.api => Fair(Wrote(y)))
  BY <1>4, AnswersFair
<1>6. z \in AnswerRec /\ (r.api => Fair(z))
  BY <1>5, AnswersFair
<1> HIDE DEF z
<1> QED BY <1>1, <1>6, FinishesDone, MenuShape

LEMMA ServeScreenKeeps ==
  ASSUME RequestsInv, NEW t \in Tasks, NEW code \in Codes, ServeScreen(t, code)
  PROVE  RequestsInv' /\ (CalmMenus => CalmMenus')
<1> DEFINE r == task[t]
           opens == OpensScreen(r.session, r.ask.on, ScreenMode(r.ask))
           says == IF opens THEN code ELSE DenyForMode(r.session)
           runs == IF opens THEN r.ran ELSE "refused"
           y == Said(r.answer, says)
<1>1. /\ r.at = "serve" /\ r # Waiter
      /\ task' = [task EXCEPT ![t].at = "done", ![t].ran = runs, ![t].answer = Wrote(y)]
      /\ UNCHANGED <<session, menu, waiting, storing, accessLog, counted, told>>
  BY DEF ServeScreen, Waiter
<1>2. /\ r \in TaskRec /\ r.answer \in AnswerRec /\ TaskOK(r, Len(told)) /\ r.ran \in Operations
      /\ says \in Nat /\ says >= 200
  BY <1>1, TaskFacts DEF RequestsInv, Codes, DenyForMode
<1>3. r.api => Fair(r.answer)
  BY <1>1, <1>2 DEF TaskOK
<1>4. runs \in Operations
  BY <1>2 DEF Operations
<1> HIDE DEF opens, says, runs
<1>5. y \in AnswerRec /\ (r.api => Fair(y))
  BY <1>2, <1>3, AnswersFair
<1> HIDE DEF y
<1>6. PICK z \in AnswerRec : z = Wrote(y) /\ (r.api => Fair(z))
  BY <1>5, AnswersFair
<1>7. task' = [task EXCEPT ![t] = [r EXCEPT !.at = "done", !.ran = runs, !.answer = z]]
  BY <1>1, <1>6
<1>8. [r EXCEPT !.at = "done", !.ran = runs, !.answer = z] = Moved(r, "done", z, runs)
  BY <1>2, <1>4, <1>6 DEF TaskRec, Moved
<1>9. task' = [task EXCEPT ![t] = Moved(r, "done", z, runs)]
  BY <1>7, <1>8
<1>10. PICK j : j = Moved(r, "done", z, runs)
  OBVIOUS
<1>11. /\ j \in TaskRec /\ j.at = "done" /\ j.answer = z /\ j.id = r.id
      /\ j.session = r.session /\ j.client = r.client /\ j.api = r.api
  <2>1. PICK q \in TaskRec : q = r
    BY <1>2
  <2>2. PICK n \in Operations : n = runs
    BY <1>4
  <2>3. z \in AnswerRec
    BY <1>6
  <2>4. j = Moved(q, "done", z, n)
    BY <1>10, <2>1, <2>2
  <2>5. j \in TaskRec /\ j.at = "done" /\ j.answer = z
    BY <2>3, <2>4, Changed, SMTT(20)
  <2>6. j.id = q.id
    BY <2>3, <2>4, Changed, SMTT(20)
  <2>7. j.session = q.session
    BY <2>3, <2>4, Changed, SMTT(20)
  <2>8. j.client = q.client /\ j.api = q.api
    BY <2>3, <2>4, Changed, SMTT(20)
  <2> QED BY <2>1, <2>5, <2>6, <2>7, <2>8
<1>12. TaskOK(j, Len(told))
  BY <1>2, <1>6, <1>11 DEF TaskOK
<1> QED BY <1>1, <1>9, <1>10, <1>11, <1>12, ContinuesKeeps, MenuShape

LEMMA NotFoundKeeps ==
  ASSUME RequestsInv, NEW t \in Tasks, NotFound(t)
  PROVE  RequestsInv' /\ (CalmMenus => CalmMenus')
<1> DEFINE r == task[t]
           y == Said(r.answer, 404)
<1>1. /\ r.at = "serve" /\ r # Waiter /\ Finishes(t, Wrote(y))
      /\ UNCHANGED <<session, menu, waiting, storing, accessLog, counted, told>>
  BY DEF NotFound, Waiter
<1>2. r.answer \in AnswerRec /\ TaskOK(r, Len(told))
  BY <1>1, TaskFacts DEF RequestsInv
<1>3. r.api => Fair(r.answer)
  BY <1>1, <1>2 DEF TaskOK
<1>4. y \in AnswerRec /\ (r.api => Fair(y))
  <2>1. PICK k \in Nat : k = 404 /\ k >= 200
    OBVIOUS
  <2> QED BY <2>1, <1>2, <1>3, AnswersFair
<1>5. Wrote(y) \in AnswerRec /\ (r.api => Fair(Wrote(y)))
  BY <1>4, AnswersFair
<1> HIDE DEF y
<1> QED BY <1>1, <1>5, FinishesDone, MenuShape

LEMMA ModulesAPIKeeps ==
  ASSUME RequestsInv, NEW t \in Tasks, ModulesAPI(t)
  PROVE  RequestsInv' /\ (CalmMenus => CalmMenus')
<1> DEFINE r == task[t]
<1>1. /\ r.at = "serve" /\ r # Waiter /\ Finishes(t, Wrote(r.answer))
      /\ menu' = [menu EXCEPT ![r.client] = Listed(r.session)]
      /\ UNCHANGED <<session, waiting, storing, accessLog, counted, told>>
  BY DEF ModulesAPI, Waiter
<1>2. r \in TaskRec /\ r.answer \in AnswerRec /\ TaskOK(r, Len(told)) /\ r.client \in Clients
  BY <1>1, TaskFacts DEF RequestsInv
<1>3. r.api => Fair(r.answer)
  BY <1>1, <1>2 DEF TaskOK
<1>4. Wrote(r.answer) \in AnswerRec /\ (r.api => Fair(Wrote(r.answer)))
  BY <1>2, <1>3, AnswersFair
<1>5. menu' = [c \in Clients |-> IF c = r.client THEN Listed(r.session) ELSE menu[c]]
  BY <1>1 DEF RequestsInv
<1>6. menu' = [c \in Clients |-> menu'[c]]
  BY <1>5
<1>7. RequestsInv'
  BY <1>1, <1>4, <1>6, FinishesDone
<1>8. ASSUME CalmMenus PROVE CalmMenus'
  <2>1. \A c \in Clients : menu'[c] = {} \/ menu'[c] = Listed(session[c])
    BY <1>1, <1>5, <1>8 DEF CalmMenus
  <2>2. task' = [u \in Tasks |-> IF u = t THEN [r EXCEPT !.at = "done", !.answer = Wrote(r.answer)] ELSE task[u]]
    BY <1>1 DEF RequestsInv, TasksOK, Finishes
  <2>3. task'[t].session = r.session /\ task'[t].client = r.client
    BY <1>2, <2>2 DEF TaskRec
  <2>4. \A u \in Tasks : task'[u] # Waiter => task'[u].session = session[task'[u].client]
    BY <1>1, <1>8, <2>2, <2>3 DEF CalmMenus
  <2> QED BY <1>1, <2>1, <2>4 DEF CalmMenus
<1> QED BY <1>7, <1>8

LEMMA PanicsKeeps ==
  ASSUME RequestsInv, NEW t \in Tasks, Panics(t)
  PROVE  RequestsInv' /\ (CalmMenus => CalmMenus')
<1> DEFINE r == task[t]
<1>1. /\ r.at = "serve" /\ r # Waiter /\ task' = [task EXCEPT ![t].at = "broken"]
      /\ UNCHANGED <<session, menu, waiting, storing, accessLog, counted, told>>
  BY DEF Panics, Waiter
<1>2. r \in TaskRec /\ r.answer \in AnswerRec /\ TaskOK(r, Len(told)) /\ r.ran \in Operations
  BY <1>1, TaskFacts DEF RequestsInv
<1>3. PICK j : j = Moved(r, "broken", r.answer, r.ran)
  OBVIOUS
<1>4. /\ j \in TaskRec /\ j.at = "broken" /\ j.answer = r.answer /\ j.id = r.id
      /\ j.session = r.session /\ j.client = r.client /\ j.api = r.api
  BY <1>2, <1>3, Changed, SMTT(20)
<1>5. TaskOK(j, Len(told))
  BY <1>1, <1>2, <1>4 DEF TaskOK
<1>6. task' = [task EXCEPT ![t] = j]
  <2>1. [r EXCEPT !.at = "broken"] = j
    BY <1>2, <1>3 DEF TaskRec, Moved
  <2> QED BY <1>1, <2>1
<1> QED BY <1>1, <1>4, <1>5, <1>6, ContinuesKeeps, MenuShape

LEMMA RuledOut ==
  ASSUME NEW all, NEW now, NEW e, LineOK(e, all, now), NEW t \in Tasks, now[t] # Waiter, e.id = now[t].id
  PROVE  now[t].at = "denied" /\ e.status = 403
BY DEF LineOK

LEMMA DenyKeeps ==
  ASSUME RequestsInv, NEW t \in Tasks, NEW refused, Deny(t, refused)
  PROVE  RequestsInv' /\ (CalmMenus => CalmMenus')
<1> DEFINE r == task[t]
<1>1. /\ r.at = "denied" /\ r # Waiter /\ task' = [task EXCEPT ![t] = Waiter]
      /\ Ended(r, Body(Header(r.answer, 403)).sent)
      /\ UNCHANGED <<session, menu, waiting, storing, accessLog, counted>>
  BY DEF Deny, Waiter
<1>2. r.answer = Blank(FALSE)
  <2>1. TaskOK(r, Len(told))
    BY <1>1, TaskFacts DEF RequestsInv
  <2> QED BY <1>1, <2>1 DEF TaskOK
<1>3. PICK k \in Nat : k = 403
  OBVIOUS
<1>0. Body(Header(r.answer, 403)).sent = k
  <2>1. Body(Header(Blank(FALSE), 403)).sent = 403
    BY DEF Blank, Body, Header
  <2> QED BY <1>2, <1>3, <2>1
<1>4. told' = [told EXCEPT ![r.id] = [ended |-> TRUE, sent |-> k, ran |-> r.ran]]
  BY <1>1, <1>0 DEF Ended
<1>5. ASSUME NEW e \in Lines
      PROVE  \/ LineOK(e, told, task) /\ e.id # r.id
             \/ e.id = r.id /\ (e.api /\ k # 0 => e.status = k)
  BY <1>1, <1>3, RuledOut DEF RequestsInv
<1>6. TasksOK(told', task') /\ \A e \in Lines : LineOK(e, told', task')
  BY <1>1, <1>4, <1>5, Ends DEF RequestsInv
<1>7. LogInv' /\ Lines' = Lines
  BY <1>1 DEF RequestsInv, LogInv, Lines
<1>8. RequestsInv'
  BY <1>1, <1>6, <1>7 DEF RequestsInv
<1>9. task' = [u \in Tasks |-> IF u = t THEN Waiter ELSE task[u]]
  BY <1>1 DEF RequestsInv, TasksOK
<1> QED BY <1>1, <1>8, <1>9 DEF CalmMenus

LEMMA EntryTyped ==
  ASSUME NEW x, x.id \in Nat, x.api \in BOOLEAN, NEW status \in Nat, NEW blocked \in BOOLEAN
  PROVE  /\ Entry(x, status, blocked) \in LineRec /\ Entry(x, status, blocked).id = x.id
         /\ Entry(x, status, blocked).api = x.api /\ Entry(x, status, blocked).status = status
BY DEF Entry, LineRec

LEMMA FinishKeeps ==
  ASSUME RequestsInv, NEW t \in Tasks, Finish(t)
  PROVE  RequestsInv' /\ (CalmMenus => CalmMenus')
<1> DEFINE r == task[t]
           y == Released(r.answer)
           e == Entry(r, y.status, FALSE)
           out == IF y.sent = 0 THEN 200 ELSE y.sent
           sent == IF r.at = "broken" THEN 0 ELSE out
<1>1. /\ r.at \in {"done", "broken"} /\ r # Waiter /\ task' = [task EXCEPT ![t] = Waiter]
      /\ RecordEntry(e) /\ Ended(r, sent) /\ UNCHANGED <<session, menu, storing, accessLog>>
  <2>1. /\ r.at \in {"done", "broken"} /\ task' = [task EXCEPT ![t] = Waiter]
        /\ RecordEntry(e) /\ Ended(r, sent) /\ UNCHANGED <<session, menu, storing, accessLog>>
    BY Zenon DEF Finish
  <2>2. r # Waiter
    BY <2>1 DEF Waiter
  <2> HIDE DEF r, e, out, sent
  <2> QED BY <2>1, <2>2
<1>2. /\ r.answer \in AnswerRec /\ TaskOK(r, Len(told)) /\ r.api \in BOOLEAN
      /\ r.id \in 1..Len(told) /\ r.id \in Nat /\ r.id # 0
  BY <1>1, TaskFacts DEF RequestsInv
<1>3. y \in AnswerRec /\ (r.api => FairOut(y))
  <2>1. r.api => Fair(r.answer)
    BY <1>1, <1>2 DEF TaskOK
  <2> QED BY <1>2, <2>1, AnswersFair
<1>4. y.status \in Nat /\ y.sent \in Nat
  BY <1>3 DEF AnswerRec
<1>5. sent \in Nat /\ (r.api /\ sent # 0 => y.status = sent)
  <2>1. out \in Nat /\ (r.api => y.status = out)
    BY <1>3, <1>4 DEF FairOut
  <2> HIDE DEF out
  <2> QED BY <2>1
<1> HIDE DEF y, sent
<1>6. e \in LineRec /\ e.id = r.id /\ e.api = r.api /\ e.status = y.status
  BY <1>2, <1>4, EntryTyped
<1> HIDE DEF e
<1>7. \A l \in Lines : LineOK(l, told, task) /\ l.id # r.id
  BY <1>1, RuledOut DEF RequestsInv
<1>8. LogInv' /\ \A l \in Lines' : l \in Lines \/ (l.id = e.id /\ l.api = e.api /\ l.status = e.status)
  BY <1>1, <1>2, <1>6, <1>7, Recording DEF RequestsInv
<1>9. told' = [told EXCEPT ![r.id] = [ended |-> TRUE, sent |-> sent, ran |-> r.ran]]
  BY <1>1 DEF Ended
<1>10. ASSUME NEW l \in Lines'
       PROVE  \/ LineOK(l, told, task) /\ l.id # r.id
              \/ l.id = r.id /\ (l.api /\ sent # 0 => l.status = sent)
  BY <1>5, <1>6, <1>7, <1>8
<1>11. TasksOK(told', task') /\ \A l \in Lines' : LineOK(l, told', task')
  BY <1>1, <1>5, <1>9, <1>10, Ends DEF RequestsInv
<1>12. RequestsInv'
  BY <1>1, <1>8, <1>11 DEF RequestsInv
<1>13. task' = [u \in Tasks |-> IF u = t THEN Waiter ELSE task[u]]
  BY <1>1 DEF RequestsInv, TasksOK
<1> QED BY <1>1, <1>12, <1>13 DEF CalmMenus

LEMMA BeginKeeps ==
  ASSUME RequestsInv, NEW t \in Tasks, NEW c \in Clients, NEW x \in AskedNow, NEW stats \in BOOLEAN,
         Begin(t, c, x, stats)
  PROVE  RequestsInv' /\ (CalmMenus => CalmMenus')
<1> DEFINE n == Len(told) + 1
           y == Blank(stats /\ Admin(session[c]))
           r == [at |-> "in", id |-> n, session |-> session[c], client |-> c, ask |-> x,
                 api |-> IsAPICall(x), answer |-> y, ran |-> "none"]
           d == [r EXCEPT !.at = "denied", !.answer = Blank(FALSE)]
<1>1. /\ task[t] = Waiter /\ told' = Append(told, [ended |-> FALSE, sent |-> 0, ran |-> "none"])
      /\ IF c \in denied
         THEN task' = [task EXCEPT ![t] = d] /\ RecordEntry(Entry(r, 403, TRUE))
         ELSE task' = [task EXCEPT ![t] = r] /\ UNCHANGED <<waiting, counted>>
      /\ UNCHANGED <<session, menu, storing, accessLog>>
  BY Zenon DEF Begin
<1>2. told \in Seq(ToldRec) /\ Len(told) \in Nat /\ n \in Nat /\ n \in 1..n /\ n # 0
  BY DEF RequestsInv, TasksOK
<1>3. session[c] \in Sessions /\ x \in AskRec /\ IsAPICall(x) \in BOOLEAN
  BY AsksTyped DEF RequestsInv
<1>4. y \in AnswerRec /\ Fair(y) /\ Blank(FALSE) \in AnswerRec
  BY BlankAnswer
<1>0. n = Len(told) + 1
  OBVIOUS
<1> HIDE DEF n, y
<1>5. /\ r \in TaskRec /\ r.at = "in" /\ r.id = n /\ r.answer = y /\ r.api = IsAPICall(x)
      /\ r.session = session[c] /\ r.client = c
  BY <1>2, <1>3, <1>4 DEF TaskRec, Operations
<1>6. TaskOK(r, n)
  BY <1>2, <1>4, <1>5 DEF TaskOK
<1>8. /\ d \in TaskRec /\ d.at = "denied" /\ d.id = n /\ d.answer = Blank(FALSE)
      /\ d.session = session[c] /\ d.client = c
  BY <1>2, <1>3, <1>4 DEF TaskRec, Operations
<1>9. TaskOK(d, n)
  BY <1>2, <1>8 DEF TaskOK
<1>10. \A e \in Lines : LineOK(e, told, task) /\ e.id \in 1..Len(told) /\ e.id # n
  <2>1. \A i \in 1..Len(told) : i # n
    BY <1>2 DEF n
  <2> QED BY <2>1 DEF RequestsInv, LineOK
<1> HIDE DEF r, d
<1>11. PICK j : /\ j = (IF c \in denied THEN d ELSE r) /\ task' = [task EXCEPT ![t] = j]
                /\ TaskOK(j, n) /\ j.id = n /\ j.session = session[c] /\ j.client = c
                /\ (c \in denied => j.at = "denied")
  BY <1>1, <1>5, <1>6, <1>8, <1>9
<1>12. LogInv' /\ \A e \in Lines' : \/ LineOK(e, told, task)
                                    \/ e.id = n /\ j.at = "denied" /\ e.status = 403
  <2>1. CASE c \in denied
    <3>1. PICK k \in Nat : k = 403
      OBVIOUS
    <3>2. PICK e : e = Entry(r, k, TRUE)
      OBVIOUS
    <3>3. e \in LineRec /\ e.id = n /\ e.status = k
      BY <3>2, <1>2, <1>3, <1>5, EntryTyped
    <3>4. RecordEntry(e)
      BY <1>1, <2>1, <3>1, <3>2
    <3>5. LogInv' /\ \A l \in Lines' : l \in Lines \/ (l.id = e.id /\ l.status = e.status)
      BY <1>1, <1>2, <1>10, <3>3, <3>4, Recording DEF RequestsInv
    <3> QED BY <2>1, <3>1, <3>3, <3>5, <1>10, <1>11
  <2>2. CASE c \notin denied
    <3>1. UNCHANGED <<waiting, counted, storing, accessLog>>
      BY <1>1, <2>2
    <3> QED BY <3>1, <1>10 DEF RequestsInv, LogInv, Lines
  <2> QED BY <2>1, <2>2
<1>13. TasksHold'
  <2>1. TasksOK(told, task)
    BY DEF RequestsInv
  <2>2. task[t] = Waiter /\ told' = Append(told, [ended |-> FALSE, sent |-> 0, ran |-> "none"])
    BY <1>1
  <2>3. task' = [task EXCEPT ![t] = j] /\ TaskOK(j, Len(told) + 1) /\ j.id = Len(told) + 1
    BY <1>0, <1>11
  <2>4. \A e \in Lines' : LineOK(e, told, task) \/ (e.id = Len(told) + 1 /\ j.at = "denied" /\ e.status = 403)
    BY <1>0, <1>12
  <2> QED BY <2>1, <2>2, <2>3, <2>4, Starts
<1>14. RequestsInv'
  BY <1>1, <1>12, <1>13 DEF RequestsInv, TasksHold
<1>15. task' = [u \in Tasks |-> IF u = t THEN j ELSE task[u]]
  BY <1>11 DEF RequestsInv, TasksOK
<1> QED BY <1>1, <1>11, <1>14, <1>15 DEF CalmMenus

LEMMA ElsewhereKeeps ==
  ASSUME RequestsInv, NEW c
  PROVE  /\ Rule(c) => RequestsInv' /\ (CalmMenus => CalmMenus')
         /\ Regrant(c) => RequestsInv'
<1>1. ASSUME Rule(c) PROVE RequestsInv' /\ (CalmMenus => CalmMenus')
  <2>1. UNCHANGED <<session, task, menu, waiting, storing, accessLog, counted, told>>
    BY <1>1 DEF Rule
  <2> QED BY <2>1 DEF RequestsInv, LogInv, Lines, CalmMenus
<1>2. ASSUME Regrant(c) PROVE RequestsInv'
  <2>1. UNCHANGED <<task, menu, waiting, storing, accessLog, counted, told>>
    BY <1>2 DEF Regrant
  <2>2. PICK g \in Grants : session' = [session EXCEPT ![c].rights = g]
    BY <1>2 DEF Regrant
  <2>3. session \in [Clients -> Sessions]
    BY DEF RequestsInv
  <2>4. c \in Clients => [session[c] EXCEPT !.rights = g] \in Sessions
    BY <2>3 DEF Sessions
  <2>5. session' \in [Clients -> Sessions]
    BY <2>2, <2>3, <2>4
  <2> QED BY <2>1, <2>5 DEF RequestsInv, LogInv, Lines
<1> QED BY <1>1, <1>2

LEMMA RequestStepsKeep ==
  ASSUME RequestsInv, RequestSteps
  PROVE  RequestsInv' /\ (calm /\ CalmMenus => CalmMenus')
<1>1. ASSUME NEW t \in Tasks, RequestStep(t) PROVE RequestsInv' /\ (CalmMenus => CalmMenus')
  BY <1>1, DenyKeeps, AuthorizeKeeps, IndexKeeps, ServeKeeps, ServeScreenKeeps, NotFoundKeeps,
     ModulesAPIKeeps, PanicsKeeps, FinishKeeps DEF RequestStep
<1>2. ASSUME NEW t \in Tasks, AnyBegin(t) PROVE RequestsInv' /\ (CalmMenus => CalmMenus')
  BY <1>2, BeginKeeps DEF AnyBegin
<1> QED BY <1>1, <1>2, LogSteps, ElsewhereKeeps DEF RequestSteps

-----------------------------------------------------------------------------
(* What the invariant says of the log, the menus and the operations.        *)
LEMMA JoinedInTurn ==
  ASSUME NEW s \in Seq(LineRec), NEW r \in Seq(LineRec), RowsInTurn(s), RowsInTurn(r), AllBefore(s, r)
  PROVE  /\ s \o r \in Seq(LineRec) /\ Len(s \o r) = Len(s) + Len(r) /\ RowsInTurn(s \o r)
         /\ \A i \in 1..Len(s \o r) : \/ \E k \in 1..Len(s) : (s \o r)[i] = s[k]
                                      \/ \E k \in 1..Len(r) : (s \o r)[i] = r[k]
<1>1. Len(s) \in Nat /\ Len(r) \in Nat /\ s \o r \in Seq(LineRec) /\ Len(s \o r) = Len(s) + Len(r)
  OBVIOUS
<1>2. ASSUME NEW i \in 1..Len(s \o r)
      PROVE  \/ i \in 1..Len(s) /\ (s \o r)[i] = s[i]
             \/ i - Len(s) \in 1..Len(r) /\ i > Len(s) /\ (s \o r)[i] = r[i - Len(s)]
  BY <1>1
<1>3. ASSUME NEW i \in 1..Len(s \o r), NEW j \in 1..Len(s \o r), i < j
      PROVE  Before((s \o r)[i], (s \o r)[j])
  <2>1. CASE j \in 1..Len(s)
    <3>1. i \in 1..Len(s)
      BY <1>1, <1>3, <2>1
    <3>2. (s \o r)[i] = s[i] /\ (s \o r)[j] = s[j]
      BY <1>1, <2>1, <3>1
    <3> QED BY <1>3, <2>1, <3>1, <3>2 DEF RowsInTurn
  <2>2. CASE i \in 1..Len(s) /\ j \notin 1..Len(s)
    <3>1. (s \o r)[i] = s[i]
      BY <1>1, <2>2
    <3>2. PICK k \in 1..Len(r) : (s \o r)[j] = r[k]
      BY <1>2, <2>2
    <3> QED BY <2>2, <3>1, <3>2 DEF AllBefore
  <2>3. CASE i \notin 1..Len(s) /\ j \notin 1..Len(s)
    <3>1. PICK k \in 1..Len(r) : k = i - Len(s) /\ (s \o r)[i] = r[k]
      BY <1>2, <2>3
    <3>2. PICK l \in 1..Len(r) : l = j - Len(s) /\ (s \o r)[j] = r[l]
      BY <1>2, <2>3
    <3>3. k < l
      BY <1>1, <1>3, <3>1, <3>2
    <3> QED BY <3>1, <3>2, <3>3 DEF RowsInTurn
  <2> QED BY <1>1, <1>3, <2>1, <2>2, <2>3
<1> QED BY <1>1, <1>2, <1>3 DEF RowsInTurn

LEMMA AllRecorded ==
  ASSUME LogInv
  PROVE  EntriesConserved /\ \A i \in DOMAIN Recorded : Recorded[i] \in Lines
<1> DEFINE H == IF storing = NoEntry THEN <<>> ELSE <<storing>>
           S == accessLog \o H
<1>1. /\ accessLog \in Seq(LineRec) /\ waiting \in Seq(LineRec)
      /\ Len(waiting) \in Nat /\ Len(accessLog) \in Nat
  BY LogFacts
<1>2. H \in Seq(LineRec) /\ Len(H) = IF storing = NoEntry THEN 0 ELSE 1
  BY LogFacts
<1>3. RowsInTurn(H)
  BY DEF RowsInTurn
<1>4. AllBefore(accessLog, H)
  <2>1. CASE storing = NoEntry
    BY <2>1 DEF AllBefore
  <2>2. CASE storing # NoEntry
    BY <2>2, LogFacts
  <2> QED BY <2>1, <2>2
<1>5. AllBefore(H, waiting)
  <2>1. CASE storing = NoEntry
    BY <2>1 DEF AllBefore
  <2>2. CASE storing # NoEntry
    BY <2>2, LogFacts
  <2> QED BY <2>1, <2>2
<1>6. \A i \in 1..Len(H) : H[i] \in Lines
  BY DEF Lines
<1> HIDE DEF H
<1>7. /\ S \in Seq(LineRec) /\ Len(S) = Len(accessLog) + Len(H) /\ RowsInTurn(S)
      /\ \A i \in 1..Len(S) : \/ \E k \in 1..Len(accessLog) : S[i] = accessLog[k]
                              \/ \E k \in 1..Len(H) : S[i] = H[k]
  BY <1>1, <1>2, <1>3, <1>4, JoinedInTurn, LogFacts
<1> HIDE DEF S
<1>8. AllBefore(S, waiting)
  BY <1>5, <1>7, LogFacts DEF AllBefore
<1>9. /\ S \o waiting \in Seq(LineRec) /\ Len(S \o waiting) = Len(S) + Len(waiting) /\ RowsInTurn(S \o waiting)
      /\ \A i \in 1..Len(S \o waiting) : \/ \E k \in 1..Len(S) : (S \o waiting)[i] = S[k]
                                         \/ \E k \in 1..Len(waiting) : (S \o waiting)[i] = waiting[k]
  BY <1>1, <1>7, <1>8, JoinedInTurn, LogFacts
<1>10. Recorded = S \o waiting
  BY DEF Recorded, S, H
<1>11. counted.all = Len(S \o waiting) + counted.dropped + counted.failed
  <2>1. counted.all \in Nat /\ counted.dropped \in Nat /\ counted.failed \in Nat
    BY LogFacts
  <2>2. CASE storing = NoEntry
    BY <2>1, <2>2, <1>1, <1>2, <1>7, <1>9, LogFacts
  <2>3. CASE storing # NoEntry
    BY <2>1, <2>3, <1>1, <1>2, <1>7, <1>9, LogFacts
  <2> QED BY <2>2, <2>3
<1>12. ASSUME NEW i \in 1..Len(S \o waiting) PROVE (S \o waiting)[i] \in Lines
  <2>1. \A k \in 1..Len(accessLog) : accessLog[k] \in Lines
    BY DEF Lines
  <2>2. \A k \in 1..Len(waiting) : waiting[k] \in Lines
    BY DEF Lines
  <2> QED BY <2>1, <2>2, <1>6, <1>7, <1>9
<1>13. DOMAIN Recorded = 1..Len(S \o waiting)
  BY <1>9, <1>10
<1>14. EntriesConserved
  BY <1>9, <1>10, <1>11, <1>13 DEF EntriesConserved, RowsInTurn, Before
<1> QED BY <1>10, <1>12, <1>13, <1>14

LEMMA OnTheMenu ==
  ASSUME NEW s, NEW x
  PROVE  x \in Listed(s) <=> \/ \E m \in Modules : \E mode \in ListedModes(s, m) : x = <<m, mode>>
                             \/ \E p \in Screens : HasMode(s, p, "view") /\ x = <<p, "view">>
<1>1. \A m : x \in ModuleEntries(s, m) <=> \E mode \in ListedModes(s, m) : x = <<m, mode>>
  BY DEF ModuleEntries
<1>2. x \in PageEntries(s) <=> \E p \in Screens : HasMode(s, p, "view") /\ x = <<p, "view">>
  BY DEF PageEntries
<1>3. x \in Listed(s) <=> (\E m \in Modules : x \in ModuleEntries(s, m)) \/ x \in PageEntries(s)
  BY DEF Listed
<1> QED BY <1>1, <1>2, <1>3, Zenon

LEMMA MenuSays ==
  ASSUME RequestsAssumption, NEW s, NEW m \in Modules, NEW mode \in Modes
  PROVE  <<m, mode>> \in Listed(s) <=> HasMode(s, m, mode) /\ (m \in ReadOnly => mode \in {"list", "view"})
<1>1. \A p \in Screens : p # m
  BY DEF RequestsAssumption
<1>2. \A k, l : <<m, mode>> = <<k, l>> <=> m = k /\ mode = l
  OBVIOUS
<1>3. <<m, mode>> \in Listed(s) <=> mode \in ListedModes(s, m)
  <2>1. PICK x : x = <<m, mode>>
    OBVIOUS
  <2>2. x \in Listed(s) <=> \/ \E k \in Modules : \E l \in ListedModes(s, k) : x = <<k, l>>
                            \/ \E p \in Screens : HasMode(s, p, "view") /\ x = <<p, "view">>
    BY OnTheMenu
  <2>3. \A k, l : x = <<k, l>> <=> m = k /\ mode = l
    BY <2>1, <1>2
  <2>4. x \in Listed(s) <=> mode \in ListedModes(s, m)
    BY <1>1, <2>2, <2>3
  <2> QED BY <2>1, <2>4
<1> QED BY <1>3 DEF ListedModes

LEMMA PagesListed ==
  ASSUME RequestsAssumption, NEW s, NEW p \in Screens
  PROVE  <<p, "view">> \in Listed(s) <=> HasMode(s, p, "view")
<1>1. \A m \in Modules : p # m
  BY DEF RequestsAssumption
<1>2. \A k, l : <<p, "view">> = <<k, l>> <=> p = k /\ "view" = l
  OBVIOUS
<1>3. PICK x : x = <<p, "view">>
  OBVIOUS
<1>4. x \in Listed(s) <=> \/ \E k \in Modules : \E l \in ListedModes(s, k) : x = <<k, l>>
                          \/ \E q \in Screens : HasMode(s, q, "view") /\ x = <<q, "view">>
  BY OnTheMenu
<1>5. \A k, l : x = <<k, l>> <=> p = k /\ "view" = l
  BY <1>2, <1>3
<1>6. x \in Listed(s) <=> HasMode(s, p, "view")
  BY <1>1, <1>4, <1>5
<1> QED BY <1>3, <1>6

LEMMA MenusTrue ==
  ASSUME RequestsAssumption, RequestsInv, CalmMenus
  PROVE  MenuTrue
<1> SUFFICES ASSUME NEW c \in Clients, menu[c] # {}
             PROVE  /\ \A m \in Modules, method \in {"GET", "POST", "PUT", "DELETE"}, one \in BOOLEAN :
                         LET x == Ask("module", m, method, one, "marked", FALSE)
                         IN  \/ m \in ReadOnly /\ method # "GET"
                             \/ AuthorizeAPIRequest(session[c], x) <=> <<m, ApiActionMode(method, one)>> \in menu[c]
                    /\ \A p \in Screens \ AdminOnly :
                         OpensScreen(session[c], p, "view") <=> <<p, "view">> \in menu[c]
  BY DEF MenuTrue
<1>1. menu[c] = Listed(session[c])
  BY DEF CalmMenus
<1>2. ASSUME NEW m \in Modules, NEW method \in {"GET", "POST", "PUT", "DELETE"}, NEW one \in BOOLEAN,
             ~(m \in ReadOnly /\ method # "GET")
      PROVE  AuthorizeAPIRequest(session[c], Ask("module", m, method, one, "marked", FALSE))
               <=> <<m, ApiActionMode(method, one)>> \in menu[c]
  <2>1. PICK mode \in Modes : mode = ApiActionMode(method, one) /\ (method = "GET" => mode \in {"list", "view"})
    BY DEF ApiActionMode, Modes
  <2>2. AuthorizeAPIRequest(session[c], Ask("module", m, method, one, "marked", FALSE)) <=> HasMode(session[c], m, mode)
    BY <2>1 DEF AuthorizeAPIRequest, Ask
  <2>3. <<m, mode>> \in menu[c] <=> HasMode(session[c], m, mode)
    <3>1. m \in ReadOnly => mode \in {"list", "view"}
      BY <1>2, <2>1
    <3>2. <<m, mode>> \in Listed(session[c]) <=> HasMode(session[c], m, mode)
      BY <3>1, MenuSays, Zenon
    <3> QED BY <1>1, <3>2
  <2> QED BY <2>1, <2>2, <2>3
<1>3. ASSUME NEW p \in Screens \ AdminOnly
      PROVE  OpensScreen(session[c], p, "view") <=> <<p, "view">> \in menu[c]
  <2>1. <<p, "view">> \in menu[c] <=> HasMode(session[c], p, "view")
    BY <1>1, PagesListed
  <2> QED BY <2>1 DEF OpensScreen, HasMode
<1> QED BY <1>2, <1>3

LEMMA RequestsInitially ==
  ASSUME RequestsInit
  PROVE  RequestsInv /\ CalmMenus
<1>1. /\ session \in [Clients -> Sessions] /\ task = [t \in Tasks |-> Waiter] /\ menu = [c \in Clients |-> {}]
      /\ waiting = <<>> /\ storing = NoEntry /\ accessLog = <<>> /\ told = <<>>
      /\ counted = [all |-> 0, dropped |-> 0, failed |-> 0]
  BY DEF RequestsInit
<1>2. Lines = {}
  BY <1>1 DEF Lines
<1>3. LogInv
  <2>1. counted \in CountRec /\ counted.all = 0 /\ counted.dropped = 0 /\ counted.failed = 0
    BY <1>1 DEF CountRec
  <2>2. RowsInTurn(accessLog) /\ RowsInTurn(waiting) /\ AllBefore(accessLog, waiting)
    BY <1>1 DEF RowsInTurn, AllBefore
  <2>3. accessLog \in Seq(LineRec) /\ waiting \in Seq(LineRec) /\ Len(waiting) = 0 /\ Len(accessLog) = 0
    BY <1>1
  <2> QED BY <1>1, <1>2, <2>1, <2>2, <2>3 DEF LogInv
<1>4. TasksOK(told, task)
  BY <1>1 DEF TasksOK
<1> QED BY <1>1, <1>2, <1>3, <1>4 DEF RequestsInv, CalmMenus

LEMMA RequestsKept ==
  ASSUME RequestsIInv, [MCNext]_<<first, second, service, calm>>
  PROVE  RequestsIInv'
<1>1. calm' = calm /\ service' = service
  BY DEF MCNext
<1>2. CASE UNCHANGED requestsVars
  <2>1. UNCHANGED <<session, denied, task, menu, waiting, storing, accessLog, counted, told>>
    BY <1>2 DEF requestsVars
  <2> QED BY <1>1, <2>1 DEF RequestsIInv, AtRequests, RequestsInv, LogInv, Lines, CalmMenus
<1>3. CASE RequestSteps
  BY <1>1, <1>3, RequestStepsKeep DEF RequestsIInv, AtRequests
<1>4. UNCHANGED requestsVars \/ RequestSteps
  <2>1. CASE UNCHANGED <<first, second, service, calm>>
    BY <2>1 DEF second
  <2>2. CASE MCNext
    BY <2>2 DEF MCNext, second
  <2> QED BY <2>1, <2>2
<1> QED BY <1>2, <1>3, <1>4

(* Every counted request has one row, in the order they came, or is counted  *)
(* as dropped or failed; a row of a request for the API has the status that  *)
(* was sent; the router picks what the gate let through; and while rights    *)
(* stay as they are a menu is what the gates allow (accesslog.go, recorder.go,*)
(* auth.go, router.go).                                                      *)
THEOREM RequestsAreSound == MCSpec => []RequestsSound
<1>1. MCInit => RequestsIInv
  BY RequestsInitially DEF MCInit, RequestsIInv, AtRequests
<1>2. RequestsIInv /\ [MCNext]_<<first, second, service, calm>> => RequestsIInv'
  BY RequestsKept
<1>3. RequestsIInv => RequestsSound
  <2> SUFFICES ASSUME RequestsIInv, AtRequests
               PROVE  EntriesConserved /\ ApiStatusTrue /\ WithinRights /\ (calm => MenuTrue)
    BY DEF RequestsSound
  <2>1. RequestsInv /\ (calm => CalmMenus)
    BY DEF RequestsIInv
  <2>2. EntriesConserved /\ \A i \in DOMAIN Recorded : Recorded[i] \in Lines
    BY <2>1, AllRecorded DEF RequestsInv
  <2>3. ApiStatusTrue
    BY <2>1, <2>2 DEF ApiStatusTrue, StatusTrue, RequestsInv, LineOK
  <2>4. WithinRights
    <3> SUFFICES ASSUME NEW t \in Tasks, task[t].at = "serve", task[t].ask.to = "module", task[t].ran # "nowhere"
                 PROVE  HasMode(task[t].session, task[t].ask.on, task[t].ran)
      BY DEF WithinRights
    <3>1. task[t] # Waiter
      BY DEF Waiter
    <3>2. TaskOK(task[t], Len(told))
      BY <2>1, <3>1, TaskFacts DEF RequestsInv
    <3> QED BY <3>2 DEF TaskOK
  <2> QED BY <2>1, <2>2, <2>3, <2>4, MenusTrue, RequestsAssumption
<1> QED BY <1>1, <1>2, <1>3, PTL DEF MCSpec
=============================================================================
