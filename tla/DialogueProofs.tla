--------------------------- MODULE DialogueProofs ---------------------------
(***************************************************************************)
(* What holds of the exchanges between two sides for every value of the    *)
(* constants: the offers and answers of a connection, and the chats.       *)
(***************************************************************************)
EXTENDS ExchangesProofs, SequenceTheorems

-----------------------------------------------------------------------------
(* Negotiation.  Types, in all behaviours.                                  *)
MsgRec == [kind : {"offer", "answer", "candidate"}, id : Nat]
OfferRec == {Resting} \cup [at : {"create", "end"}] \cup [at : {"queue"}, id : Nat]
TakenRec ==
  {Resting} \cup [at : {"add"}, id : Nat] \cup [at : {"set", "drain", "answer", "reply"}, msg : MsgRec]
NodeRec ==
  [state : {"stable", "local", "remote"}, making : BOOLEAN, described : BOOLEAN, offer : Nat, agreed : Nat,
   tracks : Nat, settled : Nat, asked : BOOLEAN, pending : SUBSET Nat, added : SUBSET Nat]
HumanRec ==
  [here : BOOLEAN, state : {"stable", "local"}, offer : Nat, agreed : Nat, tracks : Nat, settled : Nat,
   restart : BOOLEAN]
NegotiationTypes ==
  /\ node \in NodeRec /\ calls \in Nat
  /\ offerer \in [Offerers -> OfferRec] /\ receiver \in [Receivers -> TakenRec]
  /\ human \in HumanRec /\ offers \in Seq(Nat) /\ toNode \in Seq(MsgRec) /\ toHuman \in Seq(MsgRec)
  /\ node.state = "local" => node.offer \in 1..Len(offers)
  /\ human.state = "local" => human.offer \in 1..Len(offers)

(* Calm behaviours.  Of the goroutines one at most is at work.              *)
OneGoroutine(O, R) ==
  /\ \A x, y \in Offerers : O[x] # Resting /\ O[y] # Resting => x = y
  /\ \A x, y \in Receivers : R[x] # Resting /\ R[y] # Resting => x = y
  /\ \A x \in Offerers, y \in Receivers : O[x] = Resting \/ R[y] = Resting

(* The human sends a description and a candidate after it.                  *)
InPairs(T) ==
  \A i \in 1..Len(T) :
    /\ i = Len(T) => T[i].kind = "candidate"
    /\ i # Len(T) => (T[i].kind = "candidate" <=> T[i + 1].kind # "candidate")

Has(M, kind) == \E i \in 1..Len(M) : M[i].kind = kind
Setting(R, kind) == \E y \in Receivers : R[y].at = "set" /\ R[y].msg.kind = kind
Queueing(O) == \E x \in Offerers : O[x].at = "queue"

(* An offer of the human's that the node has taken, or is about to take.    *)
Taken(r) == r.at \in {"set", "drain", "answer", "reply"} /\ r.msg.kind = "offer"

(* What each goroutine has done so far.                                     *)
OfferersOK(N, O, T, U) ==
  /\ N.making => \E x \in Offerers : O[x] # Resting
  /\ \A x \in Offerers :
       /\ O[x] # Resting => N.making
       /\ O[x].at = "create" => N.state = "stable"
       /\ O[x].at \in {"queue", "end"} => N.state = "local"
       /\ O[x].at = "queue" => O[x].id = N.offer /\ ~Has(U, "offer") /\ ~Has(T, "answer")
ReceiversOK(N, R, H, T, U) ==
  /\ N.state = "remote" => \E y \in Receivers : R[y].at \in {"drain", "answer"}
  /\ \A y \in Receivers :
       /\ Taken(R[y]) =>
            /\ U = <<>> /\ H.state = "local" /\ H.offer = R[y].msg.id
            /\ R[y].at = "set" => N.state = "stable"
            /\ R[y].at \in {"drain", "answer"} => N.state = "remote" /\ N.offer = R[y].msg.id
            /\ R[y].at = "reply" => N.state = "stable" /\ N.agreed = R[y].msg.id
       /\ R[y].at = "set" => R[y].msg.kind \in {"offer", "answer"}
       /\ R[y].at = "set" /\ R[y].msg.kind = "answer" =>
            /\ U = <<>> /\ ~Has(T, "answer")
            /\ N.state = "local" /\ R[y].msg.id = N.offer /\ H.agreed = N.offer
       /\ R[y].at \in {"drain", "answer"} /\ R[y].msg.kind # "offer" => N.state = "stable"
       /\ R[y].at = "reply" => R[y].msg.kind = "offer"

(* An answer on its way to the node is to the offer it has out; an offer on *)
(* its way to it is the human's last word, or an answer follows it.         *)
Current(R, H, T, U, i) ==
  /\ H.state = "local" /\ T[i].id = H.offer /\ ~Has(U, "answer")
  /\ \A y \in Receivers : ~Taken(R[y])
  /\ \A j \in i + 1..Len(T) : T[j].kind = "candidate"
ToNodeOK(N, R, H, T, U) ==
  /\ InPairs(T)
  /\ \A i \in 1..Len(T) :
       /\ T[i].kind = "answer" =>
            /\ U = <<>> /\ N.state = "local" /\ T[i].id = N.offer /\ H.agreed = N.offer
            /\ ~Setting(R, "answer")
            /\ \A j \in 1..Len(T) : T[j].kind = "answer" => i = j
       /\ T[i].kind = "offer" =>
            \/ Current(R, H, T, U, i)
            \/ \E j \in i + 1..Len(T) : T[j].kind = "answer"

(* An answer on its way to the human comes before an offer.                 *)
ToHumanOK(N, R, O, H, T, U) ==
  \A i \in 1..Len(U) :
    /\ U[i].kind \in {"offer", "answer"}
    /\ U[i].kind = "offer" =>
         /\ i = Len(U) /\ N.state = "local" /\ U[i].id = N.offer
         /\ ~Has(T, "answer") /\ ~Setting(R, "answer") /\ ~Queueing(O)
    /\ U[i].kind = "answer" =>
         /\ i = 1 /\ H.state = "local" /\ U[i].id = H.offer /\ N.agreed = H.offer
         /\ ~Has(T, "offer")

(* Whoever has an offer out will hear of it.                                *)
NothingLost(N, R, O, H, T, U) ==
  /\ N.state = "local" =>
       Queueing(O) \/ Has(U, "offer") \/ Has(T, "answer") \/ Setting(R, "answer")
  /\ H.state = "local" =>
       \/ \E i \in 1..Len(T) : T[i].kind = "offer" /\ Current(R, H, T, U, i)
       \/ \E y \in Receivers : Taken(R[y])
       \/ Has(U, "answer") \/ Has(U, "offer") \/ Queueing(O)

(* Both ends have agreed on the same, or one of them is about to hear of it.*)
Agreement(N, R, H, T, U) ==
  /\ \/ N.agreed = H.agreed
     \/ Has(T, "answer") \/ Setting(R, "answer") \/ Has(U, "answer")
     \/ \E y \in Receivers : R[y].at = "reply"
  /\ H.here /\ H.state = "stable" => H.agreed # 0
  /\ ~H.here => H.state = "stable"

(* An offer covers no more than there is, and the library asks for an offer *)
(* of what is not covered.                                                  *)
TracksOK(N, K, O, H, F) ==
  /\ N.settled <= N.tracks /\ H.settled <= H.tracks
  /\ N.state = "local" => F[N.offer] <= N.tracks
  /\ H.state = "local" => F[H.offer] <= H.tracks
  /\ N.state = "stable" /\ N.tracks > N.settled => N.asked
  /\ N.state = "stable" /\ N.asked => K > 0 \/ \E x \in Offerers : O[x].at = "create"

CalmEnds(N, K, O, R, H, F, T, U) ==
  /\ OneGoroutine(O, R)
  /\ OfferersOK(N, O, T, U)
  /\ ReceiversOK(N, R, H, T, U)
  /\ ToNodeOK(N, R, H, T, U)
  /\ ToHumanOK(N, R, O, H, T, U)
  /\ NothingLost(N, R, O, H, T, U)
  /\ Agreement(N, R, H, T, U)
  /\ TracksOK(N, K, O, H, F)

CalmNegotiationInv == CalmEnds(node, calls, offerer, receiver, human, offers, toNode, toHuman)
NegotiationIInv == NegotiationTypes /\ CandidatesReached /\ (calm => CalmNegotiationInv)

(* The parts of the goroutines' records.                                    *)
LEMMA GoroutineParts ==
  /\ Resting.at = "idle" /\ Resting \in OfferRec /\ Resting \in TakenRec
  /\ \A r \in OfferRec : r.at = "queue" => r.id \in Nat
  /\ \A r \in OfferRec : r.at \in {"idle", "create", "end", "queue"} /\ (r = Resting <=> r.at = "idle")
  /\ \A r \in TakenRec : r.at = "add" => r.id \in Nat
  /\ \A r \in TakenRec : r.at \in {"set", "drain", "answer", "reply"} => r.msg \in MsgRec
  /\ \A r \in TakenRec :
       r.at \in {"idle", "add", "set", "drain", "answer", "reply"} /\ (r = Resting <=> r.at = "idle")
BY DEF Resting, OfferRec, TakenRec

LEMMA GoroutineSteps ==
  /\ [at |-> "create"] \in OfferRec /\ [at |-> "end"] \in OfferRec
  /\ \A n \in Nat : [at |-> "queue", id |-> n] \in OfferRec /\ [at |-> "add", id |-> n] \in TakenRec
  /\ \A m \in MsgRec : [at |-> "set", msg |-> m] \in TakenRec
BY DEF OfferRec, TakenRec

MovedTo(r, r2, at) == r2.at = at /\ r2.msg = r.msg /\ r2 \in TakenRec
LEMMA MovesOn ==
  ASSUME NEW r \in TakenRec, r.at \in {"set", "drain", "answer", "reply"},
         NEW at \in {"set", "drain", "answer", "reply"}
  PROVE  MovedTo(r, [r EXCEPT !.at = at], at)
BY DEF MovedTo, TakenRec, Resting

(* What a negotiation asked for leaves of the node's end.                   *)
Becomes(n, k) ==
  /\ node' \in NodeRec /\ calls' \in Nat /\ calls' >= k
  /\ node'.state = n.state /\ node'.making = n.making /\ node'.described = n.described
  /\ node'.offer = n.offer /\ node'.agreed = n.agreed /\ node'.tracks = n.tracks
  /\ node'.settled = n.settled /\ node'.pending = n.pending /\ node'.added = n.added
  /\ n.state = "stable" /\ n.tracks > n.settled => node'.asked
  /\ n.state = "stable" /\ node'.asked => (n.asked /\ node.state = "stable") \/ calls' > 0

LEMMA NodeBecomesThat ==
  ASSUME node \in NodeRec, calls \in Nat, NEW n \in NodeRec, NodeBecomes(n)
  PROVE  Becomes(n, calls)
<1> DEFINE s == IF n.state = "stable" /\ node.state # "stable" THEN [n EXCEPT !.asked = FALSE] ELSE n
<1>1. /\ node' = IF AsksFor(s) THEN [s EXCEPT !.asked = TRUE] ELSE s
      /\ calls' = IF AsksFor(s) THEN calls + 1 ELSE calls
  BY DEF NodeBecomes
<1>2. /\ s \in NodeRec /\ s.state = n.state /\ s.making = n.making /\ s.described = n.described
      /\ s.offer = n.offer /\ s.agreed = n.agreed /\ s.tracks = n.tracks
      /\ s.settled = n.settled /\ s.pending = n.pending /\ s.added = n.added
      /\ s.asked => n.asked /\ (n.state = "stable" => node.state = "stable")
  BY DEF NodeRec
<1> HIDE DEF s
<1>3. CASE AsksFor(s)
  <2>1. node' = [s EXCEPT !.asked = TRUE] /\ calls' = calls + 1
    BY <1>1, <1>3, Zenon
  <2>2. /\ node' \in NodeRec /\ node'.state = s.state /\ node'.making = s.making
        /\ node'.described = s.described /\ node'.offer = s.offer /\ node'.agreed = s.agreed
        /\ node'.tracks = s.tracks /\ node'.settled = s.settled /\ node'.pending = s.pending
        /\ node'.added = s.added /\ node'.asked
    BY <1>2, <2>1 DEF NodeRec
  <2>3. calls' \in Nat /\ calls' >= calls /\ calls' > 0
    BY <2>1
  <2> QED BY <1>2, <2>2, <2>3 DEF Becomes
<1>4. CASE ~AsksFor(s)
  <2>1. node' = s /\ calls' = calls
    BY <1>1, <1>4, Zenon
  <2>2. n.state = "stable" /\ n.tracks > n.settled => s.asked
    BY <1>2, <1>4 DEF AsksFor
  <2> QED BY <1>2, <2>1, <2>2 DEF Becomes
<1> QED BY <1>3, <1>4

LEMMA MessageTyped ==
  ASSUME NEW kind \in {"offer", "answer", "candidate"}, NEW id \in Nat
  PROVE  Msg(kind, id) \in MsgRec /\ Msg(kind, id).kind = kind /\ Msg(kind, id).id = id
BY DEF Msg, MsgRec

(* In all behaviours: types, and what is kept is about to be added.         *)
LEMMA TakenOut ==
  ASSUME NEW S, NEW M \in Seq(S), NEW i \in DOMAIN M
  PROVE  RemoveAt(M, i) \in Seq(S) /\ M[i] \in S /\ i \in 1..Len(M) /\ M # <<>>
<1>1. i \in 1..Len(M) /\ M[i] \in S /\ Len(M) \in Nat
  OBVIOUS
<1>2. SubSeq(M, 1, i - 1) \in Seq(S) /\ SubSeq(M, i + 1, Len(M)) \in Seq(S)
  BY <1>1
<1> QED BY <1>1, <1>2 DEF RemoveAt

LEMMA OfferersKeep ==
  ASSUME NegotiationTypes, NEW x \in Offerers, Offering(x)
  PROVE  /\ NegotiationTypes'
         /\ receiver' = receiver /\ node'.pending = node.pending /\ node'.described = node.described
<1>1. /\ node \in NodeRec /\ calls \in Nat /\ offerer \in [Offerers -> OfferRec] /\ offers \in Seq(Nat)
      /\ human \in HumanRec /\ toHuman \in Seq(MsgRec) /\ Len(offers) \in Nat
      /\ node.state = "local" => node.offer \in 1..Len(offers)
      /\ human.state = "local" => human.offer \in 1..Len(offers)
      /\ offerer[x] \in OfferRec
  BY DEF NegotiationTypes
<1>2. \A r \in OfferRec : [offerer EXCEPT ![x] = r] \in [Offerers -> OfferRec]
  BY <1>1
<1>3. CASE Negotiate(x)
  <2>1. calls' = calls - 1 /\ calls > 0 /\ UNCHANGED <<receiver, human, offers, toNode, toHuman>>
    BY <1>3 DEF Negotiate
  <2>2. \/ node' = [node EXCEPT !.making = TRUE] /\ offerer' = [offerer EXCEPT ![x] = [at |-> "create"]]
        \/ UNCHANGED <<node, offerer>>
    BY <1>3 DEF Negotiate
  <2>3. /\ node' \in NodeRec /\ node'.state = node.state /\ node'.offer = node.offer
        /\ node'.pending = node.pending /\ node'.described = node.described
    BY <1>1, <2>2 DEF NodeRec
  <2>4. offerer' \in [Offerers -> OfferRec]
    <3>1. [at |-> "create"] \in OfferRec
      BY GoroutineSteps
    <3> QED BY <1>1, <1>2, <2>2, <3>1
  <2>5. calls' \in Nat
    BY <1>1, <2>1
  <2> QED BY <1>1, <2>1, <2>3, <2>4, <2>5 DEF NegotiationTypes
<1>4. CASE SetLocalOffer(x)
  <2>1. UNCHANGED <<calls, receiver, human, toNode, toHuman>>
    BY <1>4 DEF SetLocalOffer
  <2>2. CASE node.state = "stable"
    <3>1. /\ offers' = Append(offers, node.tracks) /\ node' = [node EXCEPT !.state = "local", !.offer = Fresh]
          /\ offerer' = [offerer EXCEPT ![x] = [at |-> "queue", id |-> Fresh]]
      BY <1>4, <2>2 DEF SetLocalOffer
    <3>2. Fresh \in Nat /\ Fresh = Len(offers) + 1 /\ node.tracks \in Nat
      BY <1>1 DEF Fresh, NodeRec
    <3>3. offers' \in Seq(Nat) /\ Len(offers') = Len(offers) + 1
      BY <1>1, <3>1, <3>2
    <3>4. /\ node' \in NodeRec /\ node'.offer = Fresh
          /\ node'.pending = node.pending /\ node'.described = node.described
      BY <1>1, <3>1, <3>2 DEF NodeRec
    <3>5. offerer' \in [Offerers -> OfferRec]
      BY <1>2, <3>1, <3>2, GoroutineSteps
    <3>6. node'.offer \in 1..Len(offers')
      BY <1>1, <3>2, <3>3, <3>4
    <3>7. human.state = "local" => human.offer \in 1..Len(offers')
      BY <1>1, <3>3
    <3> QED BY <2>1, <3>3, <3>4, <3>5, <3>6, <3>7 DEF NegotiationTypes
  <2>3. CASE node.state # "stable"
    <3>1. offerer' = [offerer EXCEPT ![x] = [at |-> "end"]] /\ UNCHANGED <<offers, node>>
      BY <1>4, <2>3 DEF SetLocalOffer
    <3>2. offerer' \in [Offerers -> OfferRec]
      BY <1>2, <3>1, GoroutineSteps
    <3> QED BY <2>1, <3>1, <3>2 DEF NegotiationTypes
  <2> QED BY <2>2, <2>3
<1>5. CASE QueueOffer(x)
  <2>1. /\ offerer[x].at = "queue" /\ toHuman' = Append(toHuman, Msg("offer", offerer[x].id))
        /\ offerer' = [offerer EXCEPT ![x] = [at |-> "end"]]
        /\ UNCHANGED <<node, calls, receiver, human, offers, toNode>>
    BY <1>5 DEF QueueOffer
  <2>2. Msg("offer", offerer[x].id) \in MsgRec
    BY <1>1, <2>1, GoroutineParts, MessageTyped
  <2>3. toHuman' \in Seq(MsgRec)
    BY <1>1, <2>1, <2>2
  <2>4. offerer' \in [Offerers -> OfferRec]
    BY <1>2, <2>1, GoroutineSteps
  <2> QED BY <2>1, <2>3, <2>4 DEF NegotiationTypes
<1>6. CASE EndOffer(x)
  <2>1. /\ node' = [node EXCEPT !.making = FALSE] /\ offerer' = [offerer EXCEPT ![x] = Resting]
        /\ UNCHANGED <<calls, receiver, human, offers, toNode, toHuman>>
    BY <1>6 DEF EndOffer
  <2>2. /\ node' \in NodeRec /\ node'.state = node.state /\ node'.offer = node.offer
        /\ node'.pending = node.pending /\ node'.described = node.described
    BY <1>1, <2>1 DEF NodeRec
  <2>3. offerer' \in [Offerers -> OfferRec]
    BY <1>2, <2>1, GoroutineParts
  <2> QED BY <1>1, <2>1, <2>2, <2>3 DEF NegotiationTypes
<1> QED BY <1>3, <1>4, <1>5, <1>6 DEF Offering

LEMMA OthersStay ==
  ASSUME receiver \in [Receivers -> TakenRec], NEW x \in Receivers, NEW r \in TakenRec, Stays(x, r)
  PROVE  /\ receiver' \in [Receivers -> TakenRec] /\ receiver'[x] = r
         /\ \A y \in Receivers \ {x} : receiver'[y] = receiver[y]
BY DEF Stays

(* What a receiver's step leaves of what was kept.                          *)
KeptReached ==
  node'.described /\ node'.pending # {} =>
    \/ \E y \in Receivers : receiver'[y].at = "drain"
    \/ /\ node.described /\ node.pending # {}
       /\ \A y \in Receivers : receiver[y].at = "drain" => receiver'[y].at = "drain"

LEMMA ReceiversKeep ==
  ASSUME NegotiationTypes, NEW x \in Receivers, Receiving(x)
  PROVE  NegotiationTypes' /\ KeptReached /\ offerer' = offerer
<1>1. /\ node \in NodeRec /\ calls \in Nat /\ offerer \in [Offerers -> OfferRec] /\ offers \in Seq(Nat)
      /\ receiver \in [Receivers -> TakenRec] /\ receiver[x] \in TakenRec
      /\ human \in HumanRec /\ toNode \in Seq(MsgRec) /\ toHuman \in Seq(MsgRec) /\ Len(offers) \in Nat
      /\ node.state = "local" => node.offer \in 1..Len(offers)
      /\ human.state = "local" => human.offer \in 1..Len(offers)
  BY DEF NegotiationTypes
<1>2. Resting \in TakenRec
  BY GoroutineParts
<1>3. ASSUME NEW i \in DOMAIN toNode, TakeCandidate(x, i)
      PROVE  NegotiationTypes' /\ KeptReached /\ offerer' = offerer
  <2>1. /\ toNode' = RemoveAt(toNode, i) /\ UNCHANGED <<calls, offerer, human, offers, toHuman>>
        /\ receiver[x] = Resting
    BY <1>3 DEF TakeCandidate
  <2>2. toNode' \in Seq(MsgRec) /\ toNode[i].id \in Nat
    <3>1. RemoveAt(toNode, i) \in Seq(MsgRec) /\ toNode[i] \in MsgRec
      BY <1>1, <1>3, TakenOut
    <3> QED BY <2>1, <3>1 DEF MsgRec
  <2>3. CASE node.described
    <3>1. Stays(x, [at |-> "add", id |-> toNode[i].id]) /\ UNCHANGED node
      BY <1>3, <2>3 DEF TakeCandidate
    <3>2. [at |-> "add", id |-> toNode[i].id] \in TakenRec
      BY <2>2, GoroutineSteps
    <3>3. receiver' \in [Receivers -> TakenRec] /\ \A y \in Receivers \ {x} : receiver'[y] = receiver[y]
      BY <1>1, <3>1, <3>2, OthersStay
    <3>4. receiver[x].at = "idle"
      BY <2>1, GoroutineParts
    <3> QED BY <2>1, <2>2, <2>3, <3>1, <3>3, <3>4 DEF NegotiationTypes, KeptReached
  <2>4. CASE ~node.described
    <3>1. node' = [node EXCEPT !.pending = @ \cup {toNode[i].id}] /\ UNCHANGED receiver
      BY <1>3, <2>4 DEF TakeCandidate
    <3>2. node' \in NodeRec /\ node'.described = node.described /\ node'.state = node.state /\ node'.offer = node.offer
      BY <1>1, <2>2, <3>1 DEF NodeRec
    <3> QED BY <2>1, <2>2, <2>4, <3>1, <3>2 DEF NegotiationTypes, KeptReached
  <2> QED BY <2>3, <2>4
<1>4. ASSUME NEW i \in DOMAIN toNode, TakeDescription(x, i)
      PROVE  NegotiationTypes' /\ KeptReached /\ offerer' = offerer
  <2>1. /\ toNode' = RemoveAt(toNode, i) /\ UNCHANGED <<node, calls, offerer, human, offers, toHuman>>
        /\ receiver[x] = Resting
        /\ UNCHANGED receiver \/ Stays(x, [at |-> "set", msg |-> toNode[i]])
    BY <1>4 DEF TakeDescription
  <2>2. toNode' \in Seq(MsgRec) /\ [at |-> "set", msg |-> toNode[i]] \in TakenRec
    <3>1. RemoveAt(toNode, i) \in Seq(MsgRec) /\ toNode[i] \in MsgRec
      BY <1>1, <1>4, TakenOut
    <3> QED BY <2>1, <3>1, GoroutineSteps
  <2>3. receiver' \in [Receivers -> TakenRec] /\ \A y \in Receivers \ {x} : receiver'[y] = receiver[y]
    BY <1>1, <2>1, <2>2, OthersStay
  <2>4. receiver[x].at = "idle"
    BY <2>1, GoroutineParts
  <2> QED BY <2>1, <2>2, <2>3, <2>4 DEF NegotiationTypes, KeptReached
<1>5. CASE AddCandidate(x)
  <2>1. /\ receiver[x].at = "add" /\ node' = [node EXCEPT !.added = @ \cup {receiver[x].id}]
        /\ Stays(x, Resting) /\ UNCHANGED <<calls, offerer, human, offers, toNode, toHuman>>
    BY <1>5 DEF AddCandidate
  <2>2. receiver[x].id \in Nat
    BY <1>1, <2>1, GoroutineParts
  <2>3. /\ node' \in NodeRec /\ node'.described = node.described /\ node'.state = node.state
        /\ node'.offer = node.offer /\ node'.pending = node.pending
    BY <1>1, <2>1, <2>2 DEF NodeRec
  <2>4. receiver' \in [Receivers -> TakenRec] /\ \A y \in Receivers \ {x} : receiver'[y] = receiver[y]
    BY <1>1, <1>2, <2>1, OthersStay
  <2> QED BY <1>1, <2>1, <2>3, <2>4 DEF NegotiationTypes, KeptReached
<1>6. CASE SetRemote(x)
  <2>1. receiver[x].at = "set" /\ UNCHANGED <<offerer, human, offers, toNode, toHuman>>
    BY <1>6 DEF SetRemote
  <2>2. receiver[x].msg \in MsgRec
    BY <1>1, <2>1, GoroutineParts
  <2>3. CASE node.state = (IF receiver[x].msg.kind = "offer" THEN "stable" ELSE "local")
    <3> DEFINE n == IF receiver[x].msg.kind = "offer"
                    THEN [node EXCEPT !.state = "remote", !.offer = receiver[x].msg.id, !.described = TRUE]
                    ELSE [node EXCEPT !.state = "stable", !.agreed = receiver[x].msg.id, !.described = TRUE,
                                      !.settled = offers[node.offer]]
    <3>1. NodeBecomes(n) /\ ThenDrains(x)
      BY <1>6, <2>3 DEF SetRemote
    <3>2. receiver[x].msg.id \in Nat /\ (receiver[x].msg.kind # "offer" => offers[node.offer] \in Nat)
      BY <1>1, <2>2, <2>3 DEF MsgRec
    <3>3. n \in NodeRec /\ n.state # "local"
      BY <1>1, <3>2 DEF NodeRec
    <3> HIDE DEF n
    <3>4. Becomes(n, calls)
      BY <1>1, <3>1, <3>3, NodeBecomesThat
    <3>5. receiver' \in [Receivers -> TakenRec] /\ receiver'[x].at = "drain"
      <4>1. MovedTo(receiver[x], [receiver[x] EXCEPT !.at = "drain"], "drain")
        BY <1>1, <2>1, MovesOn
      <4>2. Stays(x, [receiver[x] EXCEPT !.at = "drain"])
        BY <3>1 DEF ThenDrains
      <4> QED BY <1>1, <4>1, <4>2, OthersStay DEF MovedTo
    <3> QED BY <2>1, <3>3, <3>4, <3>5 DEF NegotiationTypes, KeptReached, Becomes
  <2>4. CASE node.state # (IF receiver[x].msg.kind = "offer" THEN "stable" ELSE "local")
    <3>1. Stays(x, Resting) /\ UNCHANGED <<node, calls>>
      BY <1>6, <2>4 DEF SetRemote
    <3>2. receiver' \in [Receivers -> TakenRec] /\ \A y \in Receivers \ {x} : receiver'[y] = receiver[y]
      BY <1>1, <1>2, <3>1, OthersStay
    <3> QED BY <2>1, <3>1, <3>2 DEF NegotiationTypes, KeptReached
  <2> QED BY <2>3, <2>4
<1>7. CASE DrainPending(x)
  <2>1. /\ receiver[x].at = "drain" /\ node' = [node EXCEPT !.pending = {}, !.added = @ \cup node.pending]
        /\ Stays(x, [receiver[x] EXCEPT !.at = "answer"])
        /\ UNCHANGED <<calls, offerer, human, offers, toNode, toHuman>>
    BY <1>7 DEF DrainPending
  <2>2. node' \in NodeRec /\ node'.state = node.state /\ node'.offer = node.offer /\ node'.pending = {}
    BY <1>1, <2>1 DEF NodeRec
  <2>3. receiver' \in [Receivers -> TakenRec]
    <3>1. MovedTo(receiver[x], [receiver[x] EXCEPT !.at = "answer"], "answer")
      BY <1>1, <2>1, MovesOn
    <3> QED BY <1>1, <2>1, <3>1, OthersStay DEF MovedTo
  <2> QED BY <1>1, <2>1, <2>2, <2>3 DEF NegotiationTypes, KeptReached
<1>8. CASE SetLocalAnswer(x)
  <2>1. receiver[x].at = "answer" /\ UNCHANGED <<offerer, human, offers, toNode, toHuman>>
    BY <1>8 DEF SetLocalAnswer
  <2>2. CASE receiver[x].msg.kind = "offer" /\ node.state = "remote"
    <3> DEFINE n == [node EXCEPT !.state = "stable", !.agreed = node.offer]
    <3>1. NodeBecomes(n) /\ Stays(x, [receiver[x] EXCEPT !.at = "reply"])
      BY <1>8, <2>2 DEF SetLocalAnswer
    <3>2. n \in NodeRec /\ n.state = "stable" /\ n.described = node.described /\ n.pending = node.pending
      BY <1>1 DEF NodeRec
    <3> HIDE DEF n
    <3>3. Becomes(n, calls)
      BY <1>1, <3>1, <3>2, NodeBecomesThat
    <3>4. receiver' \in [Receivers -> TakenRec] /\ \A y \in Receivers \ {x} : receiver'[y] = receiver[y]
      <4>1. MovedTo(receiver[x], [receiver[x] EXCEPT !.at = "reply"], "reply")
        BY <1>1, <2>1, MovesOn
      <4> QED BY <1>1, <3>1, <4>1, OthersStay DEF MovedTo
    <3> QED BY <2>1, <3>2, <3>3, <3>4 DEF NegotiationTypes, KeptReached, Becomes
  <2>3. CASE ~(receiver[x].msg.kind = "offer" /\ node.state = "remote")
    <3>1. Stays(x, Resting) /\ UNCHANGED <<node, calls>>
      BY <1>8, <2>3 DEF SetLocalAnswer
    <3>2. receiver' \in [Receivers -> TakenRec] /\ \A y \in Receivers \ {x} : receiver'[y] = receiver[y]
      BY <1>1, <1>2, <3>1, OthersStay
    <3> QED BY <2>1, <3>1, <3>2 DEF NegotiationTypes, KeptReached
  <2> QED BY <2>2, <2>3
<1>9. CASE QueueAnswer(x)
  <2>1. /\ receiver[x].at = "reply" /\ toHuman' = Append(toHuman, Msg("answer", receiver[x].msg.id))
        /\ Stays(x, Resting) /\ UNCHANGED <<node, calls, offerer, human, offers, toNode>>
    BY <1>9 DEF QueueAnswer
  <2>2. Msg("answer", receiver[x].msg.id) \in MsgRec
    <3>1. receiver[x].msg.id \in Nat
      BY <1>1, <2>1, GoroutineParts DEF MsgRec
    <3> QED BY <3>1, MessageTyped
  <2>3. toHuman' \in Seq(MsgRec)
    BY <1>1, <2>1, <2>2
  <2>4. receiver' \in [Receivers -> TakenRec] /\ \A y \in Receivers \ {x} : receiver'[y] = receiver[y]
    BY <1>1, <1>2, <2>1, OthersStay
  <2> QED BY <2>1, <2>3, <2>4 DEF NegotiationTypes, KeptReached
<1> QED BY <1>3, <1>4, <1>5, <1>6, <1>7, <1>8, <1>9 DEF Receiving

(* What the human does with a message, and what it makes of his end.        *)
TookOffer(msg) ==
  /\ human' = [human EXCEPT !.state = "stable", !.agreed = msg.id]
  /\ toNode' = toNode \o <<Msg("answer", msg.id), Msg("candidate", msg.id)>>
TookAnswer(msg) ==
  /\ human' = [human EXCEPT !.state = "stable", !.agreed = msg.id, !.restart = FALSE,
                            !.settled = offers[human.offer]]
  /\ toNode' = toNode
LEMMA HumanChooses ==
  ASSUME NEW msg, msg = Head(toHuman), HumanReceives
  PROVE  /\ msg.kind = "offer" => TookOffer(msg)
         /\ msg.kind = "answer" /\ human.state = "local" => TookAnswer(msg)
         /\ msg.kind = "answer" /\ human.state = "stable" =>
              human' = [human EXCEPT !.restart = TRUE] /\ toNode' = toNode
         /\ msg.kind # "offer" /\ (msg.kind = "answer" => human.state \notin {"local", "stable"}) =>
              UNCHANGED <<human, toNode>>
         /\ toHuman # <<>> /\ human.here /\ toHuman' = Tail(toHuman)
         /\ UNCHANGED <<node, calls, offerer, receiver, offers>>
<1>1. toHuman # <<>> /\ human.here /\ toHuman' = Tail(toHuman) /\ UNCHANGED <<node, calls, offerer, receiver, offers>>
  BY DEF HumanReceives
<1>2. CASE msg.kind = "offer"
  BY <1>1, <1>2 DEF HumanReceives, TakesOffer, TookOffer
<1>3. CASE msg.kind # "offer"
  BY <1>1, <1>3 DEF HumanReceives, TakesOffer, TookAnswer
<1> QED BY <1>2, <1>3

LEMMA TwoAppended ==
  ASSUME NEW S, NEW T \in Seq(S), NEW m \in S, NEW c \in S, NEW T2, T2 = T \o <<m, c>>
  PROVE  /\ T2 \in Seq(S) /\ Len(T2) = Len(T) + 2 /\ Len(T) \in Nat
         /\ T2[Len(T) + 1] = m /\ T2[Len(T) + 2] = c
         /\ \A i \in 1..Len(T) : T2[i] = T[i]
OBVIOUS

LEMMA HumansKeep ==
  ASSUME NegotiationTypes, AddTrack \/ HumanOffers \/ HumanAddsTrack \/ HumanReceives
  PROVE  /\ NegotiationTypes' /\ offerer' = offerer /\ receiver' = receiver
         /\ node'.pending = node.pending /\ node'.described = node.described
<1>1. /\ node \in NodeRec /\ calls \in Nat /\ offerer \in [Offerers -> OfferRec] /\ offers \in Seq(Nat)
      /\ receiver \in [Receivers -> TakenRec]
      /\ human \in HumanRec /\ toNode \in Seq(MsgRec) /\ toHuman \in Seq(MsgRec) /\ Len(offers) \in Nat
      /\ node.state = "local" => node.offer \in 1..Len(offers)
      /\ human.state = "local" => human.offer \in 1..Len(offers)
  BY DEF NegotiationTypes
<1>2. CASE AddTrack
  <2>0. PICK more \in Nat : more = node.tracks + 1
    <3>1. node.tracks \in Nat
      BY <1>1 DEF NodeRec
    <3> QED BY <3>1
  <2> DEFINE n == [node EXCEPT !.tracks = more]
  <2>1. NodeBecomes(n) /\ UNCHANGED <<offerer, receiver, human, offers, toNode, toHuman>>
    BY <1>2, <2>0 DEF AddTrack
  <2>2. /\ n \in NodeRec /\ n.state = node.state /\ n.offer = node.offer /\ n.described = node.described
        /\ n.pending = node.pending
    BY <1>1 DEF NodeRec
  <2> HIDE DEF n
  <2>3. Becomes(n, calls)
    BY <1>1, <2>1, <2>2, NodeBecomesThat
  <2> QED BY <1>1, <2>1, <2>2, <2>3 DEF NegotiationTypes, Becomes
<1>3. CASE HumanOffers
  <2>1. /\ offers' = Append(offers, human.tracks)
        /\ human' = [human EXCEPT !.here = TRUE, !.state = "local", !.offer = Fresh]
        /\ toNode' = toNode \o <<Msg("offer", Fresh), Msg("candidate", Fresh)>>
        /\ UNCHANGED <<node, calls, offerer, receiver, toHuman>>
    BY <1>3 DEF HumanOffers
  <2>2. Fresh \in Nat /\ Fresh = Len(offers) + 1 /\ human.tracks \in Nat
    BY <1>1 DEF Fresh, HumanRec
  <2>3. offers' \in Seq(Nat) /\ Len(offers') = Len(offers) + 1
    BY <1>1, <2>1, <2>2
  <2>4. human' \in HumanRec /\ human'.offer = Fresh
    BY <1>1, <2>1, <2>2 DEF HumanRec
  <2>5. Msg("offer", Fresh) \in MsgRec /\ Msg("candidate", Fresh) \in MsgRec
    BY <2>2, MessageTyped
  <2>6. toNode' \in Seq(MsgRec)
    BY <1>1, <2>1, <2>5
  <2>7. node.state = "local" => node.offer \in 1..Len(offers')
    BY <1>1, <2>3
  <2>8. human'.offer \in 1..Len(offers')
    BY <1>1, <2>2, <2>3, <2>4
  <2> QED BY <1>1, <2>1, <2>3, <2>4, <2>6, <2>7, <2>8 DEF NegotiationTypes
<1>4. CASE HumanAddsTrack
  <2>0. PICK more \in Nat : more = human.tracks + 1
    <3>1. human.tracks \in Nat
      BY <1>1 DEF HumanRec
    <3> QED BY <3>1
  <2>1. human' = [human EXCEPT !.tracks = more] /\ UNCHANGED <<node, calls, offerer, receiver, offers, toNode, toHuman>>
    BY <1>4, <2>0 DEF HumanAddsTrack
  <2>2. human' \in HumanRec /\ human'.state = human.state /\ human'.offer = human.offer
    BY <1>1, <2>1 DEF HumanRec
  <2> QED BY <1>1, <2>1, <2>2 DEF NegotiationTypes
<1>5. CASE HumanReceives
  <2> DEFINE msg == Head(toHuman)
  <2>1. /\ msg.kind = "offer" => TookOffer(msg)
        /\ msg.kind = "answer" /\ human.state = "local" => TookAnswer(msg)
        /\ msg.kind = "answer" /\ human.state = "stable" =>
             human' = [human EXCEPT !.restart = TRUE] /\ toNode' = toNode
        /\ msg.kind # "offer" /\ (msg.kind = "answer" => human.state \notin {"local", "stable"}) =>
             UNCHANGED <<human, toNode>>
        /\ toHuman # <<>> /\ toHuman' = Tail(toHuman)
        /\ UNCHANGED <<node, calls, offerer, receiver, offers>>
    BY <1>5, HumanChooses
  <2>2. msg \in MsgRec /\ toHuman' \in Seq(MsgRec)
    BY <1>1, <2>1
  <2>3. msg.id \in Nat
    BY <2>2 DEF MsgRec
  <2> HIDE DEF msg
  <2>4. human' \in HumanRec /\ toNode' \in Seq(MsgRec) /\ (human'.state = "local" => human'.offer \in 1..Len(offers))
    <3>1. CASE msg.kind = "offer"
      <4>1. human' \in HumanRec /\ human'.state = "stable"
        BY <1>1, <2>1, <2>3, <3>1 DEF HumanRec, TookOffer
      <4>2. Msg("answer", msg.id) \in MsgRec /\ Msg("candidate", msg.id) \in MsgRec
        BY <2>3, MessageTyped
      <4>3. toNode' \in Seq(MsgRec)
        <5>1. toNode' = toNode \o <<Msg("answer", msg.id), Msg("candidate", msg.id)>>
          BY <2>1, <3>1 DEF TookOffer
        <5> QED BY <1>1, <4>2, <5>1
      <4> QED BY <4>1, <4>3
    <3>2. CASE msg.kind = "answer" /\ human.state = "local"
      <4>1. offers[human.offer] \in Nat
        BY <1>1, <3>2
      <4> QED BY <1>1, <2>1, <2>3, <3>2, <4>1 DEF HumanRec, TookAnswer
    <3>3. CASE msg.kind = "answer" /\ human.state = "stable"
      BY <1>1, <2>1, <3>3 DEF HumanRec
    <3>4. CASE msg.kind # "offer" /\ (msg.kind = "answer" => human.state \notin {"local", "stable"})
      BY <1>1, <2>1, <3>4
    <3> QED BY <3>1, <3>2, <3>3, <3>4
  <2> QED BY <1>1, <2>1, <2>2, <2>4 DEF NegotiationTypes
<1> QED BY <1>2, <1>3, <1>4, <1>5

LEMMA NegotiationKeeps ==
  ASSUME NegotiationTypes, CandidatesReached, NegotiationNext
  PROVE  NegotiationTypes' /\ CandidatesReached'
<1>1. CASE AddTrack \/ HumanOffers \/ HumanAddsTrack \/ HumanReceives
  BY <1>1, HumansKeep DEF CandidatesReached
<1>2. CASE \E x \in Offerers : Offering(x)
  BY <1>2, OfferersKeep DEF CandidatesReached
<1>3. CASE \E x \in Receivers : Receiving(x)
  <2>1. NegotiationTypes' /\ KeptReached
    BY <1>3, ReceiversKeep
  <2> QED BY <2>1 DEF CandidatesReached, KeptReached
<1> QED BY <1>1, <1>2, <1>3 DEF NegotiationNext

(* Messages sent, and the first of them taken.                              *)
LEMMA NoneIsThere ==
  ASSUME NEW M, M = <<>>
  PROVE  Len(M) = 0 /\ \A kind : ~Has(M, kind)
BY DEF Has

LEMMA OneIsAppended ==
  ASSUME NEW M \in Seq(MsgRec), NEW m \in MsgRec, NEW M2, M2 = Append(M, m)
  PROVE  /\ Len(M2) = Len(M) + 1 /\ M2[Len(M2)] = m /\ \A i \in 1..Len(M) : M2[i] = M[i]
         /\ \A kind : Has(M2, kind) <=> Has(M, kind) \/ m.kind = kind
<1>1. /\ Len(M2) = Len(M) + 1 /\ M2[Len(M2)] = m /\ \A i \in 1..Len(M) : M2[i] = M[i]
      /\ Len(M) \in Nat
  OBVIOUS
<1>2. ASSUME NEW kind PROVE Has(M2, kind) <=> Has(M, kind) \/ m.kind = kind
  <2>1. ASSUME Has(M2, kind) PROVE Has(M, kind) \/ m.kind = kind
    BY <1>1, <2>1 DEF Has
  <2>2. ASSUME Has(M, kind) PROVE Has(M2, kind)
    <3>1. PICK i \in 1..Len(M) : M[i].kind = kind
      BY <2>2 DEF Has
    <3>2. i \in 1..Len(M2) /\ M2[i].kind = kind
      BY <1>1, <3>1
    <3> QED BY <3>2 DEF Has
  <2>3. ASSUME m.kind = kind PROVE Has(M2, kind)
    <3>1. Len(M2) \in 1..Len(M2)
      BY <1>1
    <3> QED BY <1>1, <2>3, <3>1 DEF Has
  <2> QED BY <2>1, <2>2, <2>3
<1> QED BY <1>1, <1>2

LEMMA FirstIsTaken ==
  ASSUME NEW M \in Seq(MsgRec), M # <<>>, NEW M2, M2 = Tail(M)
  PROVE  /\ Len(M2) = Len(M) - 1 /\ Len(M) \in Nat \ {0} /\ M[1] \in MsgRec /\ Head(M) = M[1]
         /\ M2 \in Seq(MsgRec) /\ \A i \in 1..Len(M2) : M2[i] = M[i + 1] /\ i + 1 \in 1..Len(M)
         /\ \A kind : Has(M, kind) <=> M[1].kind = kind \/ Has(M2, kind)
<1>1. /\ Len(M2) = Len(M) - 1 /\ Len(M) \in Nat \ {0} /\ M[1] \in MsgRec /\ Head(M) = M[1]
      /\ M2 \in Seq(MsgRec) /\ \A i \in 1..Len(M2) : M2[i] = M[i + 1] /\ i + 1 \in 1..Len(M)
  OBVIOUS
<1>2. ASSUME NEW kind PROVE Has(M, kind) <=> M[1].kind = kind \/ Has(M2, kind)
  <2>1. ASSUME Has(M, kind), M[1].kind # kind PROVE Has(M2, kind)
    <3>1. PICK i \in 1..Len(M) : M[i].kind = kind
      BY <2>1 DEF Has
    <3>2. i - 1 \in 1..Len(M2) /\ (i - 1) + 1 = i
      BY <1>1, <2>1, <3>1
    <3>3. M2[i - 1] = M[(i - 1) + 1]
      BY <1>1, <3>2
    <3>4. M2[i - 1].kind = kind
      BY <3>1, <3>2, <3>3
    <3> QED BY <3>2, <3>4 DEF Has
  <2>2. ASSUME M[1].kind = kind PROVE Has(M, kind)
    <3>1. 1 \in 1..Len(M)
      BY <1>1
    <3> QED BY <2>2, <3>1 DEF Has
  <2>3. ASSUME Has(M2, kind) PROVE Has(M, kind)
    BY <1>1, <2>3 DEF Has
  <2> QED BY <2>1, <2>2, <2>3
<1> QED BY <1>1, <1>2

(* Who is idle while another works.                                         *)
NoReceiver(R) == \A y \in Receivers : R[y].at = "idle"
NoOfferer(O) == \A y \in Offerers : O[y].at = "idle"
LEMMA ReceiversRest ==
  ASSUME NEW R, NoReceiver(R)
  PROVE  /\ ~Setting(R, "answer") /\ \A y \in Receivers : ~Taken(R[y])
         /\ \A N, H, T, U : N.state # "remote" => ReceiversOK(N, R, H, T, U)
BY DEF NoReceiver, Setting, Taken, ReceiversOK

LEMMA OfferersRest ==
  ASSUME NegotiationTypes, NoOfferer(offerer), OfferersOK(node, offerer, toNode, toHuman)
  PROVE  ~node.making /\ ~Queueing(offerer)
BY GoroutineParts DEF NoOfferer, OfferersOK, Queueing, NegotiationTypes

LEMMA NoOffererIsOK ==
  ASSUME NegotiationTypes, NoOfferer(offerer)
  PROVE  \A N, T, U : ~N.making => OfferersOK(N, offerer, T, U)
<1>1. \A x \in Offerers : offerer[x] = Resting /\ offerer[x].at = "idle"
  BY GoroutineParts DEF NoOfferer, NegotiationTypes
<1> QED BY <1>1 DEF OfferersOK

LEMMA WhileOffering ==
  ASSUME NegotiationTypes, CalmNegotiationInv, NEW x \in Offerers, offerer[x].at # "idle"
  PROVE  /\ NoReceiver(receiver) /\ \A y \in Offerers \ {x} : offerer[y].at = "idle"
         /\ node.making /\ node.state # "remote"
<1>1. /\ OneGoroutine(offerer, receiver) /\ OfferersOK(node, offerer, toNode, toHuman)
      /\ ReceiversOK(node, receiver, human, toNode, toHuman)
  BY DEF CalmNegotiationInv, CalmEnds
<1>2. offerer \in [Offerers -> OfferRec] /\ receiver \in [Receivers -> TakenRec]
  BY DEF NegotiationTypes
<1>3. offerer[x] # Resting
  BY GoroutineParts
<1>4. NoReceiver(receiver) /\ \A y \in Offerers \ {x} : offerer[y].at = "idle"
  BY <1>1, <1>2, <1>3, GoroutineParts DEF OneGoroutine, NoReceiver
<1>5. node.making
  BY <1>1, <1>3 DEF OfferersOK
<1>6. node.state # "remote"
  BY <1>1, <1>4 DEF ReceiversOK, NoReceiver
<1> QED BY <1>4, <1>5, <1>6

LEMMA WhileReceiving ==
  ASSUME NegotiationTypes, CalmNegotiationInv, NEW x \in Receivers, receiver[x].at # "idle"
  PROVE  /\ NoOfferer(offerer) /\ \A y \in Receivers \ {x} : receiver[y].at = "idle"
         /\ ~node.making /\ ~Queueing(offerer)
<1>1. OneGoroutine(offerer, receiver) /\ OfferersOK(node, offerer, toNode, toHuman)
  BY DEF CalmNegotiationInv, CalmEnds
<1>2. offerer \in [Offerers -> OfferRec] /\ receiver \in [Receivers -> TakenRec]
  BY DEF NegotiationTypes
<1>3. receiver[x] # Resting
  BY GoroutineParts
<1>4. NoOfferer(offerer) /\ \A y \in Receivers \ {x} : receiver[y].at = "idle"
  BY <1>1, <1>2, <1>3, GoroutineParts DEF OneGoroutine, NoOfferer
<1> QED BY <1>1, <1>4, OfferersRest

(* The node's offers, in calm behaviours.                                   *)
LEMMA AddTrackCalm ==
  ASSUME NegotiationTypes, CalmNegotiationInv, AddTrack, OneGoroutine(offerer', receiver')
  PROVE  CalmNegotiationInv'
<1>1. node \in NodeRec /\ calls \in Nat /\ offers \in Seq(Nat) /\ (node.state = "local" => node.offer \in 1..Len(offers))
  BY DEF NegotiationTypes
<1>2. PICK more \in Nat : more = node.tracks + 1
  <2>1. node.tracks \in Nat
    BY <1>1 DEF NodeRec
  <2> QED BY <2>1
<1> DEFINE n == [node EXCEPT !.tracks = more]
<1>3. NodeBecomes(n) /\ UNCHANGED <<offerer, receiver, human, offers, toNode, toHuman>>
  BY <1>2 DEF AddTrack
<1>4. /\ n \in NodeRec /\ n.state = node.state /\ n.offer = node.offer /\ n.agreed = node.agreed
      /\ n.making = node.making /\ n.settled = node.settled /\ n.tracks = more /\ n.asked = node.asked
  BY <1>1 DEF NodeRec
<1> HIDE DEF n
<1>5. Becomes(n, calls)
  BY <1>1, <1>3, <1>4, NodeBecomesThat
<1>6. /\ node'.state = node.state /\ node'.offer = node.offer /\ node'.agreed = node.agreed
      /\ node'.making = node.making /\ node'.settled = node.settled /\ node'.tracks = more
      /\ calls' \in Nat /\ calls' >= calls
      /\ node.state = "stable" /\ more > node.settled => node'.asked
      /\ node.state = "stable" /\ node'.asked => node.asked \/ calls' > 0
  BY <1>4, <1>5 DEF Becomes
<1>7. OfferersOK(node', offerer, toNode, toHuman)
  BY <1>6 DEF CalmNegotiationInv, CalmEnds, OfferersOK
<1>8. ReceiversOK(node', receiver, human, toNode, toHuman)
  BY <1>6 DEF CalmNegotiationInv, CalmEnds, ReceiversOK
<1>9. ToNodeOK(node', receiver, human, toNode, toHuman)
  BY <1>6 DEF CalmNegotiationInv, CalmEnds, ToNodeOK
<1>10. ToHumanOK(node', receiver, offerer, human, toNode, toHuman)
  BY <1>6 DEF CalmNegotiationInv, CalmEnds, ToHumanOK
<1>11. NothingLost(node', receiver, offerer, human, toNode, toHuman) /\ Agreement(node', receiver, human, toNode, toHuman)
  BY <1>6 DEF CalmNegotiationInv, CalmEnds, NothingLost, Agreement
<1>12. TracksOK(node', calls', offerer, human, offers)
  <2>1. TracksOK(node, calls, offerer, human, offers)
    BY DEF CalmNegotiationInv, CalmEnds
  <2>2. node.settled \in Nat /\ node.tracks \in Nat
    BY <1>1 DEF NodeRec
  <2>3. node.state = "local" => offers[node.offer] \in Nat
    BY <1>1
  <2> QED BY <1>1, <1>2, <1>6, <2>1, <2>2, <2>3 DEF TracksOK
<1> QED BY <1>3, <1>7, <1>8, <1>9, <1>10, <1>11, <1>12 DEF CalmNegotiationInv, CalmEnds

LEMMA NegotiateCalm ==
  ASSUME NegotiationTypes, CalmNegotiationInv, NEW x \in Offerers, Negotiate(x), OneGoroutine(offerer', receiver')
  PROVE  CalmNegotiationInv'
<1>1. /\ node \in NodeRec /\ calls \in Nat /\ offerer \in [Offerers -> OfferRec]
      /\ receiver \in [Receivers -> TakenRec]
  BY DEF NegotiationTypes
<1>2. /\ OneGoroutine(offerer, receiver) /\ OfferersOK(node, offerer, toNode, toHuman)
      /\ ReceiversOK(node, receiver, human, toNode, toHuman)
      /\ ToNodeOK(node, receiver, human, toNode, toHuman)
      /\ ToHumanOK(node, receiver, offerer, human, toNode, toHuman)
      /\ NothingLost(node, receiver, offerer, human, toNode, toHuman)
      /\ Agreement(node, receiver, human, toNode, toHuman)
      /\ TracksOK(node, calls, offerer, human, offers)
  BY DEF CalmNegotiationInv, CalmEnds
<1>3. calls' = calls - 1 /\ calls > 0 /\ offerer[x] = Resting /\ UNCHANGED <<receiver, human, offers, toNode, toHuman>>
  BY DEF Negotiate
<1>4. CASE MayOffer
  <2>1. node' = [node EXCEPT !.making = TRUE] /\ offerer' = [offerer EXCEPT ![x] = [at |-> "create"]]
    BY <1>4 DEF Negotiate
  <2>2. /\ node'.state = node.state /\ node'.offer = node.offer /\ node'.agreed = node.agreed
        /\ node'.making /\ node'.settled = node.settled /\ node'.tracks = node.tracks
        /\ node'.asked = node.asked /\ node.state = "stable" /\ ~node.making
    BY <1>1, <1>4, <2>1 DEF NodeRec, MayOffer
  <2>3. \A y \in Offerers : offerer[y].at = "idle"
    BY <1>1, <1>2, <2>2, GoroutineParts DEF OfferersOK
  <2>4. offerer'[x].at = "create" /\ \A y \in Offerers \ {x} : offerer'[y].at = "idle" /\ offerer'[y] = offerer[y]
    BY <1>1, <2>1, <2>3
  <2>5. OfferersOK(node', offerer', toNode, toHuman)
    <3>1. offerer'[x] # Resting
      BY <2>4, GoroutineParts
    <3> QED BY <2>2, <2>4, <3>1 DEF OfferersOK
  <2>6. ReceiversOK(node', receiver, human, toNode, toHuman)
    BY <1>2, <2>2 DEF ReceiversOK
  <2>7. ToNodeOK(node', receiver, human, toNode, toHuman)
    BY <1>2, <2>2 DEF ToNodeOK
  <2>8. ToHumanOK(node', receiver, offerer', human, toNode, toHuman)
    BY <1>2, <2>2 DEF ToHumanOK
  <2>9. NothingLost(node', receiver, offerer', human, toNode, toHuman)
    BY <1>2, <2>2, <2>3, <2>4 DEF NothingLost, Queueing
  <2>10. Agreement(node', receiver, human, toNode, toHuman)
    BY <1>2, <2>2 DEF Agreement
  <2>11. TracksOK(node', calls', offerer', human, offers)
    BY <1>2, <2>2, <2>4 DEF TracksOK
  <2> QED BY <1>3, <2>5, <2>6, <2>7, <2>8, <2>9, <2>10, <2>11 DEF CalmNegotiationInv, CalmEnds
<1>5. CASE ~MayOffer
  <2>1. UNCHANGED <<node, offerer>>
    BY <1>5 DEF Negotiate
  <2>2. TracksOK(node, calls', offerer, human, offers)
    <3>1. node.state = "stable" => \E y \in Offerers : offerer[y].at = "create"
      <4> SUFFICES ASSUME node.state = "stable" PROVE \E y \in Offerers : offerer[y].at = "create"
        OBVIOUS
      <4>1. node.making
        BY <1>1, <1>5 DEF MayOffer
      <4>2. PICK y \in Offerers : offerer[y] # Resting
        BY <1>2, <4>1 DEF OfferersOK
      <4>3. offerer[y].at \notin {"queue", "end", "idle"}
        BY <1>1, <1>2, <4>2, GoroutineParts DEF OfferersOK
      <4> QED BY <1>1, <4>3, GoroutineParts
    <3> QED BY <1>2, <3>1 DEF TracksOK
  <2> QED BY <1>2, <1>3, <2>1, <2>2 DEF CalmNegotiationInv, CalmEnds
<1> QED BY <1>4, <1>5

LEMMA SetLocalOfferCalm ==
  ASSUME NegotiationTypes, CalmNegotiationInv, NEW x \in Offerers, SetLocalOffer(x), OneGoroutine(offerer', receiver')
  PROVE  CalmNegotiationInv'
<1>1. /\ node \in NodeRec /\ calls \in Nat /\ offerer \in [Offerers -> OfferRec] /\ offers \in Seq(Nat)
      /\ receiver \in [Receivers -> TakenRec] /\ human \in HumanRec /\ Len(offers) \in Nat
      /\ human.state = "local" => human.offer \in 1..Len(offers)
      /\ node.tracks \in Nat
  BY DEF NegotiationTypes, NodeRec
<1>2. /\ OneGoroutine(offerer, receiver) /\ OfferersOK(node, offerer, toNode, toHuman)
      /\ ReceiversOK(node, receiver, human, toNode, toHuman)
      /\ ToNodeOK(node, receiver, human, toNode, toHuman)
      /\ ToHumanOK(node, receiver, offerer, human, toNode, toHuman)
      /\ NothingLost(node, receiver, offerer, human, toNode, toHuman)
      /\ Agreement(node, receiver, human, toNode, toHuman)
      /\ TracksOK(node, calls, offerer, human, offers)
  BY DEF CalmNegotiationInv, CalmEnds
<1>3. offerer[x].at = "create" /\ UNCHANGED <<calls, receiver, human, toNode, toHuman>>
  BY DEF SetLocalOffer
<1>4. node.state = "stable"
  BY <1>2, <1>3 DEF OfferersOK
<1>5. NoReceiver(receiver) /\ (\A y \in Offerers \ {x} : offerer[y].at = "idle") /\ node.making
  BY <1>3, WhileOffering
<1>6. PICK k \in Nat : k = Len(offers) + 1
  BY <1>1
<1>7. /\ offers' = Append(offers, node.tracks) /\ node' = [node EXCEPT !.state = "local", !.offer = k]
      /\ offerer' = [offerer EXCEPT ![x] = [at |-> "queue", id |-> k]]
  BY <1>4, <1>6 DEF SetLocalOffer, Fresh
<1>8. /\ node'.state = "local" /\ node'.offer = k /\ node'.agreed = node.agreed
      /\ node'.making /\ node'.settled = node.settled /\ node'.tracks = node.tracks
  BY <1>1, <1>5, <1>7 DEF NodeRec
<1>9. /\ offerer'[x].at = "queue" /\ offerer'[x].id = k
      /\ \A y \in Offerers \ {x} : offerer'[y].at = "idle"
  BY <1>1, <1>5, <1>7
<1>10. ~Has(toNode, "answer") /\ ~Has(toHuman, "offer")
  BY <1>2, <1>4 DEF ToNodeOK, ToHumanOK, Has
<1>11. OfferersOK(node', offerer', toNode, toHuman)
  BY <1>3, <1>8, <1>9, <1>10, GoroutineParts DEF OfferersOK
<1>12. ReceiversOK(node', receiver, human, toNode, toHuman)
  BY <1>5, <1>8, ReceiversRest
<1>13. ToNodeOK(node', receiver, human, toNode, toHuman)
  BY <1>2, <1>10 DEF ToNodeOK, Has
<1>14. ToHumanOK(node', receiver, offerer', human, toNode, toHuman)
  BY <1>2, <1>8, <1>10 DEF ToHumanOK, Has
<1>15. NothingLost(node', receiver, offerer', human, toNode, toHuman)
  BY <1>2, <1>9 DEF NothingLost, Queueing
<1>16. Agreement(node', receiver, human, toNode, toHuman)
  BY <1>2, <1>8 DEF Agreement
<1>17. TracksOK(node', calls, offerer', human, offers')
  <2>1. offers'[k] = node.tracks /\ \A i \in 1..Len(offers) : offers'[i] = offers[i]
    BY <1>1, <1>6, <1>7
  <2> QED BY <1>1, <1>2, <1>8, <2>1 DEF TracksOK
<1> QED BY <1>3, <1>11, <1>12, <1>13, <1>14, <1>15, <1>16, <1>17 DEF CalmNegotiationInv, CalmEnds

LEMMA QueueOfferCalm ==
  ASSUME NegotiationTypes, CalmNegotiationInv, NEW x \in Offerers, QueueOffer(x), OneGoroutine(offerer', receiver')
  PROVE  CalmNegotiationInv'
<1>1. /\ node \in NodeRec /\ offerer \in [Offerers -> OfferRec] /\ receiver \in [Receivers -> TakenRec]
      /\ toHuman \in Seq(MsgRec) /\ toNode \in Seq(MsgRec) /\ offerer[x] \in OfferRec
  BY DEF NegotiationTypes
<1>2. /\ OfferersOK(node, offerer, toNode, toHuman)
      /\ ToNodeOK(node, receiver, human, toNode, toHuman)
      /\ ToHumanOK(node, receiver, offerer, human, toNode, toHuman)
      /\ NothingLost(node, receiver, offerer, human, toNode, toHuman)
      /\ Agreement(node, receiver, human, toNode, toHuman)
      /\ TracksOK(node, calls, offerer, human, offers)
  BY DEF CalmNegotiationInv, CalmEnds
<1>3. PICK msg \in MsgRec : msg.kind = "offer" /\ msg.id = offerer[x].id /\ msg = Msg("offer", offerer[x].id)
  BY <1>1, GoroutineParts, MessageTyped DEF QueueOffer
<1>4. /\ offerer[x].at = "queue" /\ toHuman' = Append(toHuman, msg)
      /\ offerer' = [offerer EXCEPT ![x] = [at |-> "end"]]
      /\ UNCHANGED <<node, calls, receiver, human, offers, toNode>>
  BY <1>3 DEF QueueOffer
<1>5. /\ node.state = "local" /\ msg.id = node.offer /\ ~Has(toHuman, "offer") /\ ~Has(toNode, "answer")
  BY <1>2, <1>3, <1>4 DEF OfferersOK
<1>6. /\ Len(toHuman') = Len(toHuman) + 1 /\ toHuman'[Len(toHuman')] = msg /\ Len(toHuman) \in Nat
      /\ \A i \in 1..Len(toHuman) : toHuman'[i] = toHuman[i]
      /\ \A kind : Has(toHuman', kind) <=> Has(toHuman, kind) \/ msg.kind = kind
  <2>1. Len(toHuman) \in Nat /\ toHuman' = Append(toHuman, msg)
    BY <1>1, <1>4
  <2>2. \A M2 : M2 = Append(toHuman, msg) =>
          /\ Len(M2) = Len(toHuman) + 1 /\ M2[Len(M2)] = msg /\ \A i \in 1..Len(toHuman) : M2[i] = toHuman[i]
          /\ \A kind : Has(M2, kind) <=> Has(toHuman, kind) \/ msg.kind = kind
    BY <1>1, OneIsAppended
  <2> QED BY <2>1, <2>2
<1>7. NoReceiver(receiver) /\ (\A y \in Offerers \ {x} : offerer[y].at = "idle") /\ node.making
  BY <1>4, WhileOffering
<1>8. offerer'[x].at = "end" /\ \A y \in Offerers \ {x} : offerer'[y].at = "idle"
  BY <1>1, <1>4, <1>7
<1>9. OfferersOK(node, offerer', toNode, toHuman')
  BY <1>5, <1>7, <1>8, GoroutineParts DEF OfferersOK
<1>10. ReceiversOK(node, receiver, human, toNode, toHuman')
  BY <1>5, <1>7, ReceiversRest
<1>11. ToNodeOK(node, receiver, human, toNode, toHuman')
  <2>1. Has(toHuman', "answer") <=> Has(toHuman, "answer")
    BY <1>3, <1>6
  <2> QED BY <1>2, <1>5, <2>1 DEF ToNodeOK, Has, Current
<1>12. ToHumanOK(node, receiver, offerer', human, toNode, toHuman')
  <2>1. ~Setting(receiver, "answer") /\ ~Queueing(offerer')
    BY <1>7, <1>8, ReceiversRest DEF Queueing
  <2>2. ASSUME NEW i \in 1..Len(toHuman)
        PROVE  /\ toHuman[i].kind = "answer"
               /\ i = 1 /\ human.state = "local" /\ toHuman[i].id = human.offer /\ node.agreed = human.offer
               /\ ~Has(toNode, "offer")
    BY <1>2, <1>5 DEF ToHumanOK, Has
  <2>3. ASSUME NEW i \in 1..Len(toHuman') PROVE i \in 1..Len(toHuman) \/ i = Len(toHuman')
    BY <1>6
  <2>4. toHuman'[Len(toHuman')].kind = "offer" /\ toHuman'[Len(toHuman')].id = node.offer
    BY <1>3, <1>5, <1>6
  <2>5. \A i \in 1..Len(toHuman) : toHuman'[i] = toHuman[i]
    BY <1>6
  <2> QED BY <1>5, <2>1, <2>2, <2>3, <2>4, <2>5 DEF ToHumanOK
<1>13. NothingLost(node, receiver, offerer', human, toNode, toHuman')
  BY <1>3, <1>6 DEF NothingLost
<1>14. Agreement(node, receiver, human, toNode, toHuman')
  BY <1>2, <1>6 DEF Agreement
<1>15. TracksOK(node, calls, offerer', human, offers)
  BY <1>2, <1>5 DEF TracksOK
<1> QED BY <1>4, <1>9, <1>10, <1>11, <1>12, <1>13, <1>14, <1>15 DEF CalmNegotiationInv, CalmEnds

LEMMA EndOfferCalm ==
  ASSUME NegotiationTypes, CalmNegotiationInv, NEW x \in Offerers, EndOffer(x), OneGoroutine(offerer', receiver')
  PROVE  CalmNegotiationInv'
<1>1. node \in NodeRec /\ offerer \in [Offerers -> OfferRec]
  BY DEF NegotiationTypes
<1>2. /\ ToNodeOK(node, receiver, human, toNode, toHuman)
      /\ ToHumanOK(node, receiver, offerer, human, toNode, toHuman)
      /\ NothingLost(node, receiver, offerer, human, toNode, toHuman)
      /\ Agreement(node, receiver, human, toNode, toHuman)
      /\ TracksOK(node, calls, offerer, human, offers)
  BY DEF CalmNegotiationInv, CalmEnds
<1>3. /\ offerer[x].at = "end" /\ node' = [node EXCEPT !.making = FALSE] /\ offerer' = [offerer EXCEPT ![x] = Resting]
      /\ UNCHANGED <<calls, receiver, human, offers, toNode, toHuman>>
  BY DEF EndOffer
<1>4. NoReceiver(receiver) /\ (\A y \in Offerers \ {x} : offerer[y].at = "idle") /\ node.state # "remote"
  BY <1>3, WhileOffering
<1>5. \A y \in Offerers : offerer'[y] = Resting
  BY <1>1, <1>3, <1>4, GoroutineParts
<1>6. /\ ~node'.making /\ node'.state = node.state /\ node'.offer = node.offer /\ node'.agreed = node.agreed
      /\ node'.settled = node.settled /\ node'.tracks = node.tracks /\ node'.asked = node.asked
  BY <1>1, <1>3 DEF NodeRec
<1>7. ~Queueing(offerer) /\ ~Queueing(offerer')
  BY <1>3, <1>4, <1>5, GoroutineParts DEF Queueing
<1>8. OfferersOK(node', offerer', toNode, toHuman)
  BY <1>5, <1>6, GoroutineParts DEF OfferersOK
<1>9. ReceiversOK(node', receiver, human, toNode, toHuman)
  BY <1>4, <1>6, ReceiversRest
<1>10. ToNodeOK(node', receiver, human, toNode, toHuman)
  BY <1>2, <1>6 DEF ToNodeOK
<1>11. ToHumanOK(node', receiver, offerer', human, toNode, toHuman)
  BY <1>2, <1>6, <1>7 DEF ToHumanOK
<1>12. NothingLost(node', receiver, offerer', human, toNode, toHuman)
  BY <1>2, <1>6, <1>7 DEF NothingLost
<1>13. Agreement(node', receiver, human, toNode, toHuman)
  BY <1>2, <1>6 DEF Agreement
<1>14. TracksOK(node', calls, offerer', human, offers)
  <2>1. ~\E y \in Offerers : offerer[y].at = "create"
    BY <1>3, <1>4
  <2> QED BY <1>2, <1>6, <2>1 DEF TracksOK
<1> QED BY <1>3, <1>8, <1>9, <1>10, <1>11, <1>12, <1>13, <1>14 DEF CalmNegotiationInv, CalmEnds

(* The node takes the first message of the human's.                         *)
LEMMA NobodyWorks ==
  ASSUME NegotiationTypes, NegotiationAssumption, Working = 0
  PROVE  /\ \A x \in Offerers : offerer[x] = Resting
         /\ \A y \in Receivers : receiver[y] = Resting
<1> DEFINE S == {x \in Offerers : offerer[x] # Resting}
<1> DEFINE R == {x \in Receivers : receiver[x] # Resting}
<1>1. IsFiniteSet(S) /\ IsFiniteSet(R)
  BY FS_Subset DEF NegotiationAssumption
<1>2. Cardinality(S) \in Nat /\ Cardinality(R) \in Nat
  BY <1>1, FS_CardinalityType
<1>3. Cardinality(S) + Cardinality(R) = 0
  BY DEF Working
<1>4. Cardinality(S) = 0 /\ Cardinality(R) = 0
  BY <1>2, <1>3
<1>5. S = {} /\ R = {}
  BY <1>1, <1>4, FS_EmptySet
<1> QED BY <1>5

LEMMA AtMostOneWorks ==
  ASSUME NegotiationTypes', NegotiationAssumption, Working' <= 1
  PROVE  OneGoroutine(offerer', receiver')
<1> DEFINE S == {x \in Offerers : offerer'[x] # Resting}
<1> DEFINE R == {x \in Receivers : receiver'[x] # Resting}
<1>1. IsFiniteSet(S) /\ IsFiniteSet(R)
  BY FS_Subset DEF NegotiationAssumption
<1>2. Cardinality(S) \in Nat /\ Cardinality(R) \in Nat
  BY <1>1, FS_CardinalityType
<1>3. Cardinality(S) + Cardinality(R) <= 1
  BY DEF Working
<1>4. Cardinality(S) <= 1 /\ Cardinality(R) <= 1 /\ (Cardinality(S) = 0 \/ Cardinality(R) = 0)
  BY <1>2, <1>3
<1>5. (\A x, y \in S : x = y) /\ (\A x, y \in R : x = y)
  BY <1>1, <1>4, AtMostOne
<1>6. S = {} \/ R = {}
  BY <1>1, <1>4, FS_EmptySet
<1> QED BY <1>5, <1>6 DEF OneGoroutine

LEMMA PairsFollow ==
  ASSUME NEW T, NEW T2, Len(T) \in Nat \ {0}, InPairs(T), Len(T2) = Len(T) - 1,
         \A j \in 1..Len(T2) : T2[j] = T[j + 1]
  PROVE  InPairs(T2)
<1> SUFFICES ASSUME NEW j \in 1..Len(T2)
             PROVE  /\ j = Len(T2) => T2[j].kind = "candidate"
                    /\ j # Len(T2) => (T2[j].kind = "candidate" <=> T2[j + 1].kind # "candidate")
  BY DEF InPairs
<1>1. PICK k \in 1..Len(T) : k = j + 1
  OBVIOUS
<1>2. /\ k = Len(T) => T[k].kind = "candidate"
      /\ k # Len(T) => (T[k].kind = "candidate" <=> T[k + 1].kind # "candidate")
  BY DEF InPairs
<1>3. T2[j] = T[k] /\ (j # Len(T2) => T2[k] = T[k + 1] /\ k # Len(T))
  BY <1>1
<1> QED BY <1>1, <1>2, <1>3

LEMMA FirstOfPairs ==
  ASSUME NegotiationTypes, InPairs(toNode), NEW i \in DOMAIN toNode, RemoveAt(toNode, i) = Tail(toNode)
  PROVE  /\ i = 1 /\ toNode # <<>> /\ InPairs(Tail(toNode))
<1>1. /\ toNode \in Seq(MsgRec) /\ toNode # <<>> /\ Len(toNode) \in Nat \ {0} /\ i \in 1..Len(toNode)
  BY DEF NegotiationTypes
<1>2. ASSUME i # 1 PROVE FALSE
  <2>1. /\ SubSeq(toNode, 1, i - 1) \in Seq(MsgRec) /\ Len(SubSeq(toNode, 1, i - 1)) = i - 1
        /\ SubSeq(toNode, i + 1, Len(toNode)) \in Seq(MsgRec)
        /\ SubSeq(toNode, 1, i - 1)[1] = toNode[1]
    BY <1>1, <1>2
  <2>2. (SubSeq(toNode, 1, i - 1) \o SubSeq(toNode, i + 1, Len(toNode)))[1] = toNode[1]
    BY <1>1, <1>2, <2>1
  <2>3. Tail(toNode)[1] = toNode[2] /\ 1 # Len(toNode) /\ 1 \in 1..Len(toNode)
    BY <1>1, <1>2
  <2>4. toNode[1].kind = "candidate" <=> toNode[1 + 1].kind # "candidate"
    BY <2>3 DEF InPairs
  <2>5. RemoveAt(toNode, i)[1] = toNode[1]
    BY <2>2 DEF RemoveAt
  <2>6. toNode[1] = toNode[2]
    BY <2>3, <2>5
  <2> QED BY <2>4, <2>6
<1>3. InPairs(Tail(toNode))
  <2>1. /\ Len(Tail(toNode)) = Len(toNode) - 1
        /\ \A j \in 1..Len(Tail(toNode)) : Tail(toNode)[j] = toNode[j + 1]
    BY <1>1
  <2> QED BY <1>1, <2>1, PairsFollow
<1> QED BY <1>1, <1>2, <1>3

LEMMA FirstHeard ==
  ASSUME NegotiationTypes, NegotiationAssumption, CalmNegotiationInv, InOrder,
         NEW i \in DOMAIN toNode, toNode' = RemoveAt(toNode, i)
  PROVE  /\ i = 1 /\ toNode # <<>> /\ toNode' = Tail(toNode) /\ InPairs(toNode')
         /\ Len(toNode') = Len(toNode) - 1 /\ Len(toNode) \in Nat \ {0} /\ toNode[1] \in MsgRec
         /\ \A j \in 1..Len(toNode') : toNode'[j] = toNode[j + 1] /\ j + 1 \in 1..Len(toNode)
         /\ \A kind : Has(toNode, kind) <=> toNode[1].kind = kind \/ Has(toNode', kind)
         /\ NoReceiver(receiver) /\ NoOfferer(offerer)
<1>1. toNode \in Seq(MsgRec) /\ Len(toNode) \in Nat /\ i \in 1..Len(toNode)
  BY DEF NegotiationTypes
<1>2. Len(RemoveAt(toNode, i)) = Len(toNode) - 1
  <2>1. /\ SubSeq(toNode, 1, i - 1) \in Seq(MsgRec) /\ Len(SubSeq(toNode, 1, i - 1)) = i - 1
        /\ SubSeq(toNode, i + 1, Len(toNode)) \in Seq(MsgRec) /\ Len(SubSeq(toNode, i + 1, Len(toNode))) = Len(toNode) - i
    BY <1>1
  <2>2. PICK p, q \in Seq(MsgRec) :
          /\ p = SubSeq(toNode, 1, i - 1) /\ q = SubSeq(toNode, i + 1, Len(toNode))
          /\ Len(p) = i - 1 /\ Len(q) = Len(toNode) - i
    BY <2>1, Zenon
  <2>3. RemoveAt(toNode, i) = p \o q
    BY <2>2, Zenon DEF RemoveAt
  <2>4. Len(p \o q) = Len(p) + Len(q)
    OBVIOUS
  <2>5. Len(p \o q) = Len(toNode) - 1
    <3>1. Len(p) = i - 1 /\ Len(q) = Len(toNode) - i
      BY <2>2, Zenon
    <3> QED BY <1>1, <2>4, <3>1
  <2> QED BY <2>3, <2>5, Zenon
<1>3. Working = 0 /\ toNode' = Tail(toNode)
  BY <1>1, <1>2 DEF InOrder
<1>4. InPairs(toNode)
  BY DEF CalmNegotiationInv, CalmEnds, ToNodeOK
<1>5. i = 1 /\ toNode # <<>> /\ InPairs(Tail(toNode))
  BY <1>3, <1>4, FirstOfPairs
<1>6. /\ Len(Tail(toNode)) = Len(toNode) - 1 /\ Len(toNode) \in Nat \ {0} /\ toNode[1] \in MsgRec
      /\ \A j \in 1..Len(Tail(toNode)) : Tail(toNode)[j] = toNode[j + 1] /\ j + 1 \in 1..Len(toNode)
      /\ \A kind : Has(toNode, kind) <=> toNode[1].kind = kind \/ Has(Tail(toNode), kind)
  BY <1>1, <1>5, FirstIsTaken
<1>7. NoReceiver(receiver) /\ NoOfferer(offerer)
  BY <1>3, NobodyWorks, GoroutineParts DEF NoReceiver, NoOfferer
<1> QED BY <1>3, <1>5, <1>6, <1>7

LEMMA RestIsHeard ==
  ASSUME NEW N, NEW R, NEW R2, NEW H, NEW T, NEW T2, NEW U, ToNodeOK(N, R, H, T, U),
         Len(T) \in Nat \ {0}, Len(T2) = Len(T) - 1, \A j \in 1..Len(T2) : T2[j] = T[j + 1],
         \A y \in Receivers : Taken(R2[y]) => Taken(R[y]),
         Has(T2, "answer") => ~Setting(R2, "answer")
  PROVE  ToNodeOK(N, R2, H, T2, U)
<1>1. InPairs(T2)
  BY PairsFollow DEF ToNodeOK
<1>2. ASSUME NEW i \in 1..Len(T2), T2[i].kind = "answer"
      PROVE  /\ U = <<>> /\ N.state = "local" /\ T2[i].id = N.offer /\ H.agreed = N.offer
             /\ ~Setting(R2, "answer")
             /\ \A j \in 1..Len(T2) : T2[j].kind = "answer" => i = j
  <2>1. PICK k \in 1..Len(T) : k = i + 1 /\ T[k] = T2[i]
    OBVIOUS
  <2>2. /\ U = <<>> /\ N.state = "local" /\ T[k].id = N.offer /\ H.agreed = N.offer
        /\ \A j \in 1..Len(T) : T[j].kind = "answer" => k = j
    BY <1>2, <2>1 DEF ToNodeOK
  <2>3. Has(T2, "answer")
    BY <1>2 DEF Has
  <2>4. ASSUME NEW j \in 1..Len(T2), T2[j].kind = "answer" PROVE i = j
    <3>1. j + 1 \in 1..Len(T) /\ T[j + 1].kind = "answer"
      BY <2>4
    <3> QED BY <2>1, <2>2, <3>1
  <2> QED BY <2>1, <2>2, <2>3, <2>4
<1>3. ASSUME NEW i \in 1..Len(T2), T2[i].kind = "offer"
      PROVE  Current(R2, H, T2, U, i) \/ \E j \in i + 1..Len(T2) : T2[j].kind = "answer"
  <2>1. PICK k \in 1..Len(T) : k = i + 1 /\ T[k] = T2[i]
    OBVIOUS
  <2>2. CASE Current(R, H, T, U, k)
    <3>1. ASSUME NEW j \in i + 1..Len(T2) PROVE T2[j].kind = "candidate"
      <4>1. j + 1 \in k + 1..Len(T) /\ T2[j] = T[j + 1]
        BY <2>1
      <4> QED BY <2>2, <4>1 DEF Current
    <3> QED BY <2>1, <2>2, <3>1 DEF Current
  <2>3. ASSUME NEW j \in k + 1..Len(T), T[j].kind = "answer"
        PROVE  \E l \in i + 1..Len(T2) : T2[l].kind = "answer"
    <3>1. PICK l \in i + 1..Len(T2) : j = l + 1
      <4>1. j - 1 \in i + 1..Len(T2) /\ j = (j - 1) + 1
        BY <2>1
      <4> QED BY <4>1
    <3>2. T2[l] = T[j]
      BY <3>1
    <3> QED BY <2>3, <3>2
  <2> QED BY <1>3, <2>1, <2>2, <2>3 DEF ToNodeOK
<1> QED BY <1>1, <1>2, <1>3 DEF ToNodeOK

(* What the human has yet to hear of, of messages after the first.          *)
LEMMA RestIsCurrent ==
  ASSUME NEW R, NEW R2, NEW H, NEW T, NEW T2, NEW U,
         Len(T) \in Nat \ {0}, Len(T2) = Len(T) - 1, \A j \in 1..Len(T2) : T2[j] = T[j + 1],
         \A y \in Receivers : Taken(R2[y]) => Taken(R[y]),
         NEW i \in 1..Len(T), i # 1, T[i].kind = "offer", Current(R, H, T, U, i)
  PROVE  \E k \in 1..Len(T2) : T2[k].kind = "offer" /\ Current(R2, H, T2, U, k)
<1>1. PICK k \in 1..Len(T2) : i = k + 1
  <2>1. i - 1 \in 1..Len(T2) /\ i = (i - 1) + 1
    OBVIOUS
  <2> QED BY <2>1
<1>2. T2[k] = T[i]
  BY <1>1
<1>3. ASSUME NEW j \in k + 1..Len(T2) PROVE T2[j].kind = "candidate"
  <2>1. j + 1 \in i + 1..Len(T) /\ T2[j] = T[j + 1]
    BY <1>1
  <2> QED BY <2>1 DEF Current
<1> QED BY <1>2, <1>3 DEF Current

LEMMA TakeCandidateCalm ==
  ASSUME NegotiationTypes, NegotiationAssumption, CalmNegotiationInv, InOrder,
         NEW x \in Receivers, NEW i \in DOMAIN toNode, TakeCandidate(x, i), OneGoroutine(offerer', receiver')
  PROVE  CalmNegotiationInv'
<1>1. /\ node \in NodeRec /\ receiver \in [Receivers -> TakenRec] /\ offerer \in [Offerers -> OfferRec]
  BY DEF NegotiationTypes
<1>2. /\ OfferersOK(node, offerer, toNode, toHuman)
      /\ ReceiversOK(node, receiver, human, toNode, toHuman)
      /\ ToNodeOK(node, receiver, human, toNode, toHuman)
      /\ ToHumanOK(node, receiver, offerer, human, toNode, toHuman)
      /\ NothingLost(node, receiver, offerer, human, toNode, toHuman)
      /\ Agreement(node, receiver, human, toNode, toHuman)
      /\ TracksOK(node, calls, offerer, human, offers)
  BY DEF CalmNegotiationInv, CalmEnds
<1>3. /\ receiver[x] = Resting /\ toNode[i].kind = "candidate" /\ toNode' = RemoveAt(toNode, i)
      /\ UNCHANGED <<calls, offerer, human, offers, toHuman>>
  BY DEF TakeCandidate
<1>4. /\ i = 1 /\ Len(toNode') = Len(toNode) - 1 /\ Len(toNode) \in Nat \ {0}
      /\ \A j \in 1..Len(toNode') : toNode'[j] = toNode[j + 1]
      /\ \A kind : Has(toNode, kind) <=> toNode[1].kind = kind \/ Has(toNode', kind)
      /\ NoReceiver(receiver) /\ NoOfferer(offerer)
  BY <1>3, FirstHeard
<1>5. /\ node'.state = node.state /\ node'.making = node.making /\ node'.offer = node.offer
      /\ node'.agreed = node.agreed /\ node'.settled = node.settled /\ node'.tracks = node.tracks
      /\ node'.asked = node.asked
  BY <1>1 DEF TakeCandidate, NodeRec
<1>6. \A y \in Receivers : receiver'[y].at \in {"idle", "add"}
  BY <1>1, <1>4 DEF TakeCandidate, Stays, NoReceiver
<1>7. /\ (\A y \in Receivers : ~Taken(receiver[y]) /\ ~Taken(receiver'[y]))
      /\ ~Setting(receiver, "answer") /\ ~Setting(receiver', "answer")
  BY <1>4, <1>6 DEF Taken, Setting, NoReceiver
<1>8. (Has(toNode', "answer") <=> Has(toNode, "answer")) /\ (Has(toNode', "offer") <=> Has(toNode, "offer"))
  BY <1>3, <1>4
<1>9. OfferersOK(node', offerer, toNode', toHuman)
  BY <1>2, <1>5, <1>8 DEF OfferersOK
<1>10. ReceiversOK(node', receiver', human, toNode', toHuman)
  BY <1>2, <1>4, <1>5, <1>6, <1>7 DEF ReceiversOK, NoReceiver
<1>11. ToNodeOK(node', receiver', human, toNode', toHuman)
  <2>1. ToNodeOK(node, receiver', human, toNode', toHuman)
    BY <1>2, <1>4, <1>7, RestIsHeard
  <2> QED BY <1>5, <2>1 DEF ToNodeOK
<1>12. ToHumanOK(node', receiver', offerer, human, toNode', toHuman)
  BY <1>2, <1>5, <1>7, <1>8 DEF ToHumanOK
<1>13. NothingLost(node', receiver', offerer, human, toNode', toHuman)
  <2>1. node.state = "local" => Queueing(offerer) \/ Has(toHuman, "offer") \/ Has(toNode', "answer")
    BY <1>2, <1>7, <1>8 DEF NothingLost
  <2>2. human.state = "local" =>
          \/ \E j \in 1..Len(toNode) : toNode[j].kind = "offer" /\ Current(receiver, human, toNode, toHuman, j)
          \/ Has(toHuman, "answer") \/ Has(toHuman, "offer") \/ Queueing(offerer)
    BY <1>2, <1>7 DEF NothingLost
  <2>3. ASSUME NEW j \in 1..Len(toNode), toNode[j].kind = "offer", Current(receiver, human, toNode, toHuman, j)
        PROVE  \E k \in 1..Len(toNode') : toNode'[k].kind = "offer" /\ Current(receiver', human, toNode', toHuman, k)
    <3>1. j # 1
      BY <1>3, <1>4, <2>3
    <3> QED BY <1>4, <1>7, <2>3, <3>1, RestIsCurrent
  <2> QED BY <1>5, <2>1, <2>2, <2>3 DEF NothingLost
<1>14. Agreement(node', receiver', human, toNode', toHuman)
  <2>1. ~\E y \in Receivers : receiver[y].at = "reply"
    BY <1>4 DEF NoReceiver
  <2> QED BY <1>2, <1>5, <1>7, <1>8, <2>1 DEF Agreement
<1>15. TracksOK(node', calls, offerer, human, offers)
  BY <1>2, <1>5 DEF TracksOK
<1> QED BY <1>3, <1>9, <1>10, <1>11, <1>12, <1>13, <1>14, <1>15 DEF CalmNegotiationInv, CalmEnds

LEMMA AddCandidateCalm ==
  ASSUME NegotiationTypes, CalmNegotiationInv, NEW x \in Receivers, AddCandidate(x), OneGoroutine(offerer', receiver')
  PROVE  CalmNegotiationInv'
<1>1. /\ node \in NodeRec /\ receiver \in [Receivers -> TakenRec] /\ offerer \in [Offerers -> OfferRec]
  BY DEF NegotiationTypes
<1>2. /\ OfferersOK(node, offerer, toNode, toHuman)
      /\ ReceiversOK(node, receiver, human, toNode, toHuman)
      /\ ToNodeOK(node, receiver, human, toNode, toHuman)
      /\ ToHumanOK(node, receiver, offerer, human, toNode, toHuman)
      /\ NothingLost(node, receiver, offerer, human, toNode, toHuman)
      /\ Agreement(node, receiver, human, toNode, toHuman)
      /\ TracksOK(node, calls, offerer, human, offers)
  BY DEF CalmNegotiationInv, CalmEnds
<1>3. /\ receiver[x].at = "add" /\ node' = [node EXCEPT !.added = @ \cup {receiver[x].id}]
      /\ receiver' = [receiver EXCEPT ![x] = Resting] /\ UNCHANGED <<calls, offerer, human, offers, toNode, toHuman>>
  BY DEF AddCandidate, Stays
<1>4. /\ node'.state = node.state /\ node'.making = node.making /\ node'.offer = node.offer
      /\ node'.agreed = node.agreed /\ node'.settled = node.settled /\ node'.tracks = node.tracks
      /\ node'.asked = node.asked
  BY <1>1, <1>3 DEF NodeRec
<1>5. \A y \in Receivers \ {x} : receiver[y].at = "idle"
  BY <1>3, WhileReceiving
<1>6. NoReceiver(receiver')
  BY <1>1, <1>3, <1>5, GoroutineParts DEF NoReceiver
<1>7. /\ (\A y \in Receivers : ~Taken(receiver[y]) /\ ~Taken(receiver'[y]) /\ receiver[y].at # "reply")
      /\ ~Setting(receiver, "answer") /\ ~Setting(receiver', "answer") /\ node.state # "remote"
  BY <1>2, <1>3, <1>5, <1>6 DEF Taken, Setting, NoReceiver, ReceiversOK
<1>8. OfferersOK(node', offerer, toNode, toHuman) /\ TracksOK(node', calls, offerer, human, offers)
  BY <1>2, <1>4 DEF OfferersOK, TracksOK
<1>9. ReceiversOK(node', receiver', human, toNode, toHuman)
  BY <1>4, <1>6, <1>7, ReceiversRest
<1>10. ToNodeOK(node', receiver', human, toNode, toHuman)
  BY <1>2, <1>4, <1>7 DEF ToNodeOK, Current
<1>11. ToHumanOK(node', receiver', offerer, human, toNode, toHuman)
  BY <1>2, <1>4, <1>7 DEF ToHumanOK
<1>12. NothingLost(node', receiver', offerer, human, toNode, toHuman)
  BY <1>2, <1>4, <1>7 DEF NothingLost, Current
<1>13. Agreement(node', receiver', human, toNode, toHuman)
  BY <1>2, <1>4, <1>7 DEF Agreement
<1> QED BY <1>3, <1>8, <1>9, <1>10, <1>11, <1>12, <1>13 DEF CalmNegotiationInv, CalmEnds

LEMMA TakeDescriptionCalm ==
  ASSUME NegotiationTypes, NegotiationAssumption, CalmNegotiationInv, InOrder,
         NEW x \in Receivers, NEW i \in DOMAIN toNode, TakeDescription(x, i), OneGoroutine(offerer', receiver')
  PROVE  CalmNegotiationInv'
<1>1. /\ node \in NodeRec /\ receiver \in [Receivers -> TakenRec] /\ offerer \in [Offerers -> OfferRec]
      /\ toHuman \in Seq(MsgRec) /\ Len(toHuman) \in Nat /\ (toHuman # <<>> => 1 \in 1..Len(toHuman))
  BY DEF NegotiationTypes
<1>2. /\ OfferersOK(node, offerer, toNode, toHuman)
      /\ ReceiversOK(node, receiver, human, toNode, toHuman)
      /\ ToNodeOK(node, receiver, human, toNode, toHuman)
      /\ ToHumanOK(node, receiver, offerer, human, toNode, toHuman)
      /\ NothingLost(node, receiver, offerer, human, toNode, toHuman)
      /\ Agreement(node, receiver, human, toNode, toHuman)
      /\ TracksOK(node, calls, offerer, human, offers)
  BY DEF CalmNegotiationInv, CalmEnds
<1>3. /\ receiver[x] = Resting /\ toNode[i].kind \in {"offer", "answer"} /\ toNode' = RemoveAt(toNode, i)
      /\ UNCHANGED <<node, calls, offerer, human, offers, toHuman>>
  BY DEF TakeDescription
<1>4. /\ i = 1 /\ Len(toNode') = Len(toNode) - 1 /\ Len(toNode) \in Nat \ {0} /\ toNode[1] \in MsgRec
      /\ \A j \in 1..Len(toNode') : toNode'[j] = toNode[j + 1]
      /\ \A kind : Has(toNode, kind) <=> toNode[1].kind = kind \/ Has(toNode', kind)
      /\ NoReceiver(receiver) /\ NoOfferer(offerer)
  BY <1>3, FirstHeard
<1>5. ~node.making /\ ~Queueing(offerer) /\ node.state \in {"stable", "local"}
  <2>1. ~node.making /\ ~Queueing(offerer)
    BY <1>2, <1>4, OfferersRest
  <2>2. node.state # "remote"
    BY <1>2, <1>4 DEF ReceiversOK, NoReceiver
  <2> QED BY <1>1, <2>1, <2>2 DEF NodeRec
<1>6. /\ (\A y \in Receivers : ~Taken(receiver[y]) /\ receiver[y].at \notin {"set", "reply"})
      /\ ~Setting(receiver, "answer")
  BY <1>4 DEF Taken, Setting, NoReceiver
<1>7. 1 \in 1..Len(toNode)
  BY <1>4
<1>8. OfferersOK(node, offerer, toNode', toHuman)
  <2>1. Has(toNode', "answer") => Has(toNode, "answer")
    BY <1>4
  <2> QED BY <1>2, <2>1 DEF OfferersOK
<1>9. ASSUME NEW j \in 1..Len(toNode), toNode[j].kind = "offer", Current(receiver, human, toNode, toHuman, j), j # 1,
             \A y \in Receivers : ~Taken(receiver'[y])
      PROVE  \E k \in 1..Len(toNode') : toNode'[k].kind = "offer" /\ Current(receiver', human, toNode', toHuman, k)
  BY <1>4, <1>9, RestIsCurrent
<1>10. CASE Collides(toNode[i])
  <2>1. receiver' = receiver /\ toNode[1].kind = "offer" /\ node.state = "local"
    BY <1>4, <1>5, <1>10 DEF TakeDescription, Collides
  <2>2. Has(toNode, "answer") <=> Has(toNode', "answer")
    BY <1>4, <2>1
  <2>3. ReceiversOK(node, receiver, human, toNode', toHuman)
    BY <1>4, <1>5, ReceiversRest
  <2>4. ToNodeOK(node, receiver, human, toNode', toHuman)
    BY <1>2, <1>4, <1>6, RestIsHeard
  <2>5. ToHumanOK(node, receiver, offerer, human, toNode', toHuman)
    <3>1. Has(toNode', "offer") => Has(toNode, "offer")
      BY <1>4
    <3> QED BY <1>2, <2>2, <3>1 DEF ToHumanOK
  <2>6. Has(toHuman, "offer") \/ Has(toNode', "answer")
    BY <1>2, <1>5, <1>6, <2>1, <2>2 DEF NothingLost
  <2>7. human.state = "local" =>
          \/ \E k \in 1..Len(toNode') : toNode'[k].kind = "offer" /\ Current(receiver, human, toNode', toHuman, k)
          \/ Has(toHuman, "answer") \/ Has(toHuman, "offer")
    <3> SUFFICES ASSUME human.state = "local", ~Has(toHuman, "answer"), ~Has(toHuman, "offer")
                 PROVE  \E k \in 1..Len(toNode') :
                          toNode'[k].kind = "offer" /\ Current(receiver, human, toNode', toHuman, k)
      OBVIOUS
    <3>1. PICK j \in 1..Len(toNode) : toNode[j].kind = "offer" /\ Current(receiver, human, toNode, toHuman, j)
      BY <1>2, <1>5, <1>6 DEF NothingLost
    <3>2. j # 1
      <4> SUFFICES ASSUME j = 1 PROVE FALSE
        OBVIOUS
      <4>1. Has(toNode, "answer")
        BY <2>2, <2>6
      <4>2. PICK l \in 1..Len(toNode) : toNode[l].kind = "answer"
        BY <4>1 DEF Has
      <4>3. l = 1 \/ l \in 2..Len(toNode)
        BY <1>4
      <4> QED BY <2>1, <3>1, <4>2, <4>3 DEF Current
    <3> QED BY <1>6, <1>9, <2>1, <3>1, <3>2
  <2>8. NothingLost(node, receiver, offerer, human, toNode', toHuman)
    BY <2>6, <2>7 DEF NothingLost
  <2>9. Agreement(node, receiver, human, toNode', toHuman)
    BY <1>2, <2>2 DEF Agreement
  <2> QED BY <1>2, <1>3, <1>8, <2>1, <2>3, <2>4, <2>5, <2>8, <2>9 DEF CalmNegotiationInv, CalmEnds
<1>11. CASE ~Collides(toNode[i])
  <2>1. Stays(x, [at |-> "set", msg |-> toNode[1]])
    BY <1>4, <1>11 DEF TakeDescription
  <2>2. /\ receiver'[x].at = "set" /\ receiver'[x].msg = toNode[1]
        /\ \A y \in Receivers \ {x} : receiver'[y].at = "idle"
    BY <1>1, <1>4, <2>1 DEF Stays, NoReceiver
  <2>3. CASE toNode[1].kind = "answer"
    <3>1. /\ toHuman = <<>> /\ node.state = "local" /\ toNode[1].id = node.offer /\ human.agreed = node.offer
          /\ \A j \in 1..Len(toNode) : toNode[j].kind = "answer" => j = 1
      BY <1>2, <1>7, <2>3 DEF ToNodeOK
    <3>2. ~Has(toNode', "answer")
      <4>1. ASSUME NEW j \in 1..Len(toNode'), toNode'[j].kind = "answer" PROVE FALSE
        <5>1. j + 1 \in 1..Len(toNode) /\ toNode[j + 1].kind = "answer"
          BY <1>4, <4>1
        <5> QED BY <3>1, <5>1
      <4> QED BY <4>1 DEF Has
    <3>3. /\ (\A y \in Receivers : ~Taken(receiver'[y])) /\ Setting(receiver', "answer")
      BY <2>2, <2>3 DEF Taken, Setting
    <3>4. ReceiversOK(node, receiver', human, toNode', toHuman)
      BY <2>2, <2>3, <3>1, <3>2, <3>3 DEF ReceiversOK
    <3>5. ToNodeOK(node, receiver', human, toNode', toHuman)
      BY <1>2, <1>4, <3>2, <3>3, RestIsHeard
    <3>6. ToHumanOK(node, receiver', offerer, human, toNode', toHuman)
      BY <3>1 DEF ToHumanOK
    <3>7. ~Has(toHuman, "answer") /\ ~Has(toHuman, "offer")
      BY <3>1, NoneIsThere
    <3>8. NothingLost(node, receiver', offerer, human, toNode', toHuman)
      <4>1. ASSUME human.state = "local"
            PROVE  \E k \in 1..Len(toNode') : toNode'[k].kind = "offer" /\ Current(receiver', human, toNode', toHuman, k)
        <5>1. PICK j \in 1..Len(toNode) : toNode[j].kind = "offer" /\ Current(receiver, human, toNode, toHuman, j)
          BY <1>2, <1>5, <1>6, <3>7, <4>1 DEF NothingLost
        <5>2. j # 1
          BY <2>3, <5>1
        <5> QED BY <1>9, <3>3, <5>1, <5>2
      <4> QED BY <3>3, <4>1 DEF NothingLost
    <3>9. Agreement(node, receiver', human, toNode', toHuman)
      BY <1>2, <3>3 DEF Agreement
    <3> QED BY <1>2, <1>3, <1>8, <3>4, <3>5, <3>6, <3>8, <3>9 DEF CalmNegotiationInv, CalmEnds
  <2>4. CASE toNode[1].kind = "offer"
    <3>1. node.state = "stable"
      BY <1>4, <1>11, <2>4 DEF Collides
    <3>2. ~Has(toNode, "answer") /\ ~Has(toHuman, "offer")
      BY <1>2, <3>1 DEF ToNodeOK, ToHumanOK, Has
    <3>3. Current(receiver, human, toNode, toHuman, 1)
      <4>1. \A j \in 1 + 1..Len(toNode) : j \in 1..Len(toNode)
        BY <1>4
      <4>2. ~\E j \in 1 + 1..Len(toNode) : toNode[j].kind = "answer"
        BY <3>2, <4>1 DEF Has
      <4> QED BY <1>2, <1>7, <2>4, <4>2 DEF ToNodeOK
    <3>4. human.state = "local" /\ toNode[1].id = human.offer /\ ~Has(toHuman, "answer")
      BY <3>3 DEF Current
    <3>5. toHuman = <<>>
      <4> SUFFICES ASSUME toHuman # <<>> PROVE FALSE
        OBVIOUS
      <4>1. 1 \in 1..Len(toHuman) /\ toHuman[1].kind \in {"offer", "answer"}
        BY <1>1, <1>2 DEF ToHumanOK
      <4> QED BY <3>2, <3>4, <4>1 DEF Has
    <3>6. \A j \in 1..Len(toNode') : toNode'[j].kind = "candidate"
      <4>1. ASSUME NEW j \in 1..Len(toNode') PROVE toNode'[j].kind = "candidate"
        <5>1. j + 1 \in 1 + 1..Len(toNode)
          BY <1>4
        <5> QED BY <1>4, <3>3, <5>1 DEF Current
      <4> QED BY <4>1
    <3>7. InPairs(toNode')
      <4>1. InPairs(toNode)
        BY <1>2 DEF ToNodeOK
      <4> QED BY <1>4, <4>1, PairsFollow
    <3>8. Taken(receiver'[x]) /\ ~Setting(receiver', "answer")
      BY <2>2, <2>4 DEF Taken, Setting
    <3>9. ReceiversOK(node, receiver', human, toNode', toHuman)
      BY <2>2, <2>4, <3>1, <3>4, <3>5 DEF ReceiversOK, Taken
    <3>10. ToNodeOK(node, receiver', human, toNode', toHuman)
      BY <3>6, <3>7 DEF ToNodeOK
    <3>11. ToHumanOK(node, receiver', offerer, human, toNode', toHuman)
      BY <3>5 DEF ToHumanOK
    <3>12. NothingLost(node, receiver', offerer, human, toNode', toHuman)
      BY <3>1, <3>8 DEF NothingLost
    <3>13. Agreement(node, receiver', human, toNode', toHuman)
      BY <1>2, <1>6, <3>2, <3>4 DEF Agreement
    <3> QED BY <1>2, <1>3, <1>8, <3>9, <3>10, <3>11, <3>12, <3>13 DEF CalmNegotiationInv, CalmEnds
  <2> QED BY <1>3, <1>4, <2>3, <2>4
<1> QED BY <1>10, <1>11

LEMMA SetRemoteCalm ==
  ASSUME NegotiationTypes, CalmNegotiationInv, NEW x \in Receivers, SetRemote(x), OneGoroutine(offerer', receiver')
  PROVE  CalmNegotiationInv'
<1>1. /\ node \in NodeRec /\ calls \in Nat /\ receiver \in [Receivers -> TakenRec] /\ receiver[x] \in TakenRec
      /\ offers \in Seq(Nat) /\ (node.state = "local" => node.offer \in 1..Len(offers))
  BY DEF NegotiationTypes
<1>2. /\ ReceiversOK(node, receiver, human, toNode, toHuman)
      /\ ToNodeOK(node, receiver, human, toNode, toHuman)
      /\ ToHumanOK(node, receiver, offerer, human, toNode, toHuman)
      /\ NothingLost(node, receiver, offerer, human, toNode, toHuman)
      /\ Agreement(node, receiver, human, toNode, toHuman)
      /\ TracksOK(node, calls, offerer, human, offers)
  BY DEF CalmNegotiationInv, CalmEnds
<1>3. receiver[x].at = "set" /\ UNCHANGED <<offerer, human, offers, toNode, toHuman>>
  BY DEF SetRemote
<1>4. PICK msg \in MsgRec : msg = receiver[x].msg
  BY <1>1, <1>3, GoroutineParts
<1>5. NoOfferer(offerer) /\ (\A y \in Receivers \ {x} : receiver[y].at = "idle") /\ ~node.making /\ ~Queueing(offerer)
  BY <1>3, WhileReceiving
<1>6. msg.kind \in {"offer", "answer"} /\ toHuman = <<>> /\ msg.id \in Nat
  BY <1>2, <1>3, <1>4 DEF ReceiversOK, MsgRec, Taken
<1>7. ~Has(toHuman, "answer") /\ ~Has(toHuman, "offer")
  BY <1>6, NoneIsThere
<1>8. ASSUME ThenDrains(x)
      PROVE  /\ receiver'[x].at = "drain" /\ receiver'[x].msg = msg
             /\ \A y \in Receivers \ {x} : receiver'[y].at = "idle"
  <2>1. MovedTo(receiver[x], [receiver[x] EXCEPT !.at = "drain"], "drain")
    BY <1>1, <1>3, MovesOn
  <2> QED BY <1>1, <1>4, <1>5, <1>8, <2>1, OthersStay DEF ThenDrains, MovedTo
<1>10. CASE msg.kind = "offer"
  <2>1. /\ human.state = "local" /\ human.offer = msg.id /\ node.state = "stable"
    BY <1>2, <1>3, <1>4, <1>10 DEF ReceiversOK, Taken
  <2> DEFINE n == [node EXCEPT !.state = "remote", !.offer = msg.id, !.described = TRUE]
  <2>2. NodeBecomes(n) /\ ThenDrains(x)
    BY <1>3, <1>4, <1>10, <2>1 DEF SetRemote
  <2>3. /\ n \in NodeRec /\ n.state = "remote" /\ n.offer = msg.id /\ n.agreed = node.agreed
        /\ n.making = node.making /\ n.settled = node.settled /\ n.tracks = node.tracks
    BY <1>1, <1>6 DEF NodeRec
  <2> HIDE DEF n
  <2>4. Becomes(n, calls)
    BY <1>1, <2>2, <2>3, NodeBecomesThat
  <2>5. /\ node'.state = "remote" /\ node'.offer = msg.id /\ node'.agreed = node.agreed /\ ~node'.making
        /\ node'.settled = node.settled /\ node'.tracks = node.tracks
    BY <1>5, <2>3, <2>4 DEF Becomes
  <2>6. /\ receiver'[x].at = "drain" /\ receiver'[x].msg = msg
        /\ \A y \in Receivers \ {x} : receiver'[y].at = "idle"
    BY <1>8, <2>2
  <2>7. Taken(receiver[x]) /\ Taken(receiver'[x]) /\ ~Setting(receiver', "answer") /\ ~Setting(receiver, "answer")
    BY <1>3, <1>4, <1>5, <1>10, <2>6 DEF Taken, Setting
  <2>8. ~Has(toNode, "answer")
    BY <1>2, <2>1 DEF ToNodeOK, Has
  <2>9. \A j \in 1..Len(toNode) : toNode[j].kind = "candidate"
    <3>1. ASSUME NEW j \in 1..Len(toNode) PROVE toNode[j].kind # "offer"
      <4>1. ~Current(receiver, human, toNode, toHuman, j)
        BY <2>7 DEF Current
      <4>2. ~\E k \in j + 1..Len(toNode) : toNode[k].kind = "answer"
        <5>1. \A k \in j + 1..Len(toNode) : k \in 1..Len(toNode)
          OBVIOUS
        <5> QED BY <2>8, <5>1 DEF Has
      <4> QED BY <1>2, <4>1, <4>2 DEF ToNodeOK
    <3>2. \A j \in 1..Len(toNode) : toNode[j].kind \in {"offer", "answer", "candidate"}
      <4>1. \A j \in 1..Len(toNode) : toNode[j] \in MsgRec
        BY DEF NegotiationTypes
      <4> QED BY <4>1 DEF MsgRec
    <3> QED BY <2>8, <3>1, <3>2 DEF Has
  <2>10. OfferersOK(node', offerer, toNode, toHuman)
    BY <1>5, <2>5, NoOffererIsOK
  <2>11. ReceiversOK(node', receiver', human, toNode, toHuman)
    BY <1>6, <1>10, <2>1, <2>5, <2>6 DEF ReceiversOK, Taken
  <2>12. ToNodeOK(node', receiver', human, toNode, toHuman)
    BY <1>2, <2>9 DEF ToNodeOK
  <2>13. ToHumanOK(node', receiver', offerer, human, toNode, toHuman)
    BY <1>6 DEF ToHumanOK
  <2>14. NothingLost(node', receiver', offerer, human, toNode, toHuman)
    BY <2>5, <2>7 DEF NothingLost
  <2>15. Agreement(node', receiver', human, toNode, toHuman)
    <3>1. ~\E y \in Receivers : receiver[y].at = "reply"
      BY <1>3, <1>5
    <3> QED BY <1>2, <1>7, <2>5, <2>7, <2>8, <3>1 DEF Agreement
  <2>16. TracksOK(node', calls', offerer, human, offers)
    BY <1>2, <2>5 DEF TracksOK
  <2> QED BY <1>3, <2>10, <2>11, <2>12, <2>13, <2>14, <2>15, <2>16 DEF CalmNegotiationInv, CalmEnds
<1>11. CASE msg.kind = "answer"
  <2>1. /\ node.state = "local" /\ msg.id = node.offer /\ human.agreed = node.offer /\ ~Has(toNode, "answer")
    BY <1>2, <1>3, <1>4, <1>11 DEF ReceiversOK
  <2>2. offers[node.offer] \in Nat /\ offers[node.offer] <= node.tracks
    BY <1>1, <1>2, <2>1 DEF TracksOK
  <2> DEFINE n == [node EXCEPT !.state = "stable", !.agreed = msg.id, !.described = TRUE,
                               !.settled = offers[node.offer]]
  <2>3. NodeBecomes(n) /\ ThenDrains(x)
    BY <1>3, <1>4, <1>11, <2>1 DEF SetRemote
  <2>4. /\ n \in NodeRec /\ n.state = "stable" /\ n.agreed = msg.id
        /\ n.making = node.making /\ n.settled = offers[node.offer] /\ n.tracks = node.tracks
    BY <1>1, <1>6, <2>2 DEF NodeRec
  <2> HIDE DEF n
  <2>5. Becomes(n, calls)
    BY <1>1, <2>3, <2>4, NodeBecomesThat
  <2>6. /\ node'.state = "stable" /\ node'.agreed = msg.id /\ ~node'.making
        /\ node'.settled = offers[node.offer] /\ node'.tracks = node.tracks
        /\ node'.tracks > node'.settled => node'.asked
        /\ node'.asked => calls' > 0
    BY <1>5, <2>1, <2>4, <2>5 DEF Becomes
  <2>7. /\ receiver'[x].at = "drain" /\ receiver'[x].msg = msg
        /\ \A y \in Receivers \ {x} : receiver'[y].at = "idle"
    BY <1>8, <2>3
  <2>8. \A y \in Receivers : ~Taken(receiver'[y]) /\ ~Taken(receiver[y]) /\ ~Setting(receiver', "answer")
    BY <1>3, <1>4, <1>5, <1>11, <2>7 DEF Taken, Setting
  <2>9. OfferersOK(node', offerer, toNode, toHuman)
    BY <1>5, <2>6, NoOffererIsOK
  <2>10. ReceiversOK(node', receiver', human, toNode, toHuman)
    BY <1>11, <2>6, <2>7, <2>8 DEF ReceiversOK
  <2>11. ToNodeOK(node', receiver', human, toNode, toHuman)
    BY <1>2, <2>1, <2>8 DEF ToNodeOK, Current, Has
  <2>12. ToHumanOK(node', receiver', offerer, human, toNode, toHuman)
    BY <1>6 DEF ToHumanOK
  <2>13. NothingLost(node', receiver', offerer, human, toNode, toHuman)
    BY <1>2, <2>6, <2>8 DEF NothingLost, Current
  <2>14. Agreement(node', receiver', human, toNode, toHuman)
    BY <1>2, <2>1, <2>6 DEF Agreement
  <2>15. TracksOK(node', calls', offerer, human, offers)
    BY <1>2, <2>2, <2>6 DEF TracksOK
  <2> QED BY <1>3, <2>9, <2>10, <2>11, <2>12, <2>13, <2>14, <2>15 DEF CalmNegotiationInv, CalmEnds
<1> QED BY <1>6, <1>10, <1>11

LEMMA DrainPendingCalm ==
  ASSUME NegotiationTypes, CalmNegotiationInv, NEW x \in Receivers, DrainPending(x), OneGoroutine(offerer', receiver')
  PROVE  CalmNegotiationInv'
<1>1. node \in NodeRec /\ receiver \in [Receivers -> TakenRec] /\ receiver[x] \in TakenRec
  BY DEF NegotiationTypes
<1>2. /\ OfferersOK(node, offerer, toNode, toHuman)
      /\ ReceiversOK(node, receiver, human, toNode, toHuman)
      /\ ToNodeOK(node, receiver, human, toNode, toHuman)
      /\ ToHumanOK(node, receiver, offerer, human, toNode, toHuman)
      /\ NothingLost(node, receiver, offerer, human, toNode, toHuman)
      /\ Agreement(node, receiver, human, toNode, toHuman)
      /\ TracksOK(node, calls, offerer, human, offers)
  BY DEF CalmNegotiationInv, CalmEnds
<1>3. /\ receiver[x].at = "drain" /\ node' = [node EXCEPT !.pending = {}, !.added = @ \cup node.pending]
      /\ Stays(x, [receiver[x] EXCEPT !.at = "answer"])
      /\ UNCHANGED <<calls, offerer, human, offers, toNode, toHuman>>
  BY DEF DrainPending
<1>4. /\ node'.state = node.state /\ node'.making = node.making /\ node'.offer = node.offer
      /\ node'.agreed = node.agreed /\ node'.settled = node.settled /\ node'.tracks = node.tracks
      /\ node'.asked = node.asked
  BY <1>1, <1>3 DEF NodeRec
<1>5. /\ receiver'[x].at = "answer" /\ receiver'[x].msg = receiver[x].msg
      /\ \A y \in Receivers \ {x} : receiver'[y].at = "idle" /\ receiver[y].at = "idle"
  <2>1. MovedTo(receiver[x], [receiver[x] EXCEPT !.at = "answer"], "answer")
    BY <1>1, <1>3, MovesOn
  <2> QED BY <1>1, <1>3, <2>1, OthersStay, WhileReceiving DEF MovedTo
<1>6. /\ (\A y \in Receivers : Taken(receiver'[y]) <=> Taken(receiver[y]))
      /\ ~Setting(receiver, "answer") /\ ~Setting(receiver', "answer")
      /\ (\A y \in Receivers : receiver[y].at # "reply")
  BY <1>3, <1>5 DEF Taken, Setting
<1>7. OfferersOK(node', offerer, toNode, toHuman) /\ TracksOK(node', calls, offerer, human, offers)
  BY <1>2, <1>4 DEF OfferersOK, TracksOK
<1>8. ReceiversOK(node', receiver', human, toNode, toHuman)
  BY <1>2, <1>3, <1>4, <1>5, <1>6 DEF ReceiversOK, Taken
<1>9. ToNodeOK(node', receiver', human, toNode, toHuman)
  BY <1>2, <1>4, <1>6 DEF ToNodeOK, Current
<1>10. ToHumanOK(node', receiver', offerer, human, toNode, toHuman)
  BY <1>2, <1>4, <1>6 DEF ToHumanOK
<1>11. NothingLost(node', receiver', offerer, human, toNode, toHuman)
  BY <1>2, <1>4, <1>6 DEF NothingLost, Current
<1>12. Agreement(node', receiver', human, toNode, toHuman)
  BY <1>2, <1>4, <1>6 DEF Agreement
<1> QED BY <1>3, <1>7, <1>8, <1>9, <1>10, <1>11, <1>12 DEF CalmNegotiationInv, CalmEnds

LEMMA SetLocalAnswerCalm ==
  ASSUME NegotiationTypes, CalmNegotiationInv, NEW x \in Receivers, SetLocalAnswer(x), OneGoroutine(offerer', receiver')
  PROVE  CalmNegotiationInv'
<1>1. /\ node \in NodeRec /\ calls \in Nat /\ receiver \in [Receivers -> TakenRec] /\ receiver[x] \in TakenRec
  BY DEF NegotiationTypes
<1>2. /\ OfferersOK(node, offerer, toNode, toHuman)
      /\ ReceiversOK(node, receiver, human, toNode, toHuman)
      /\ ToNodeOK(node, receiver, human, toNode, toHuman)
      /\ ToHumanOK(node, receiver, offerer, human, toNode, toHuman)
      /\ NothingLost(node, receiver, offerer, human, toNode, toHuman)
      /\ Agreement(node, receiver, human, toNode, toHuman)
      /\ TracksOK(node, calls, offerer, human, offers)
  BY DEF CalmNegotiationInv, CalmEnds
<1>3. receiver[x].at = "answer" /\ UNCHANGED <<offerer, human, offers, toNode, toHuman>>
  BY DEF SetLocalAnswer
<1>4. NoOfferer(offerer) /\ (\A y \in Receivers \ {x} : receiver[y].at = "idle") /\ ~node.making /\ ~Queueing(offerer)
  BY <1>3, WhileReceiving
<1>5. ~Setting(receiver, "answer") /\ \A y \in Receivers : receiver[y].at # "reply"
  BY <1>3, <1>4 DEF Setting
<1>6. CASE receiver[x].msg.kind = "offer"
  <2>1. /\ toHuman = <<>> /\ human.state = "local" /\ human.offer = receiver[x].msg.id
        /\ node.state = "remote" /\ node.offer = receiver[x].msg.id /\ Taken(receiver[x])
    BY <1>2, <1>3, <1>6 DEF ReceiversOK, Taken
  <2> DEFINE n == [node EXCEPT !.state = "stable", !.agreed = node.offer]
  <2>2. NodeBecomes(n) /\ Stays(x, [receiver[x] EXCEPT !.at = "reply"])
    BY <1>6, <2>1 DEF SetLocalAnswer
  <2>3. /\ n \in NodeRec /\ n.state = "stable" /\ n.agreed = node.offer /\ n.making = node.making
        /\ n.settled = node.settled /\ n.tracks = node.tracks
    BY <1>1 DEF NodeRec
  <2> HIDE DEF n
  <2>4. Becomes(n, calls)
    BY <1>1, <2>2, <2>3, NodeBecomesThat
  <2>5. /\ node'.state = "stable" /\ node'.agreed = node.offer /\ ~node'.making
        /\ node'.settled = node.settled /\ node'.tracks = node.tracks
        /\ node'.tracks > node'.settled => node'.asked
        /\ node'.asked => calls' > 0
    BY <1>4, <2>1, <2>3, <2>4 DEF Becomes
  <2>6. /\ receiver'[x].at = "reply" /\ receiver'[x].msg = receiver[x].msg
        /\ \A y \in Receivers \ {x} : receiver'[y].at = "idle"
    <3>1. MovedTo(receiver[x], [receiver[x] EXCEPT !.at = "reply"], "reply")
      BY <1>1, <1>3, MovesOn
    <3> QED BY <1>1, <1>4, <2>2, <3>1, OthersStay DEF MovedTo
  <2>7. Taken(receiver'[x]) /\ ~Setting(receiver', "answer")
    BY <1>6, <2>6 DEF Taken, Setting
  <2>8. ~Has(toNode, "answer") /\ ~Has(toNode, "offer")
    <3>1. ~Has(toNode, "answer")
      BY <1>2, <2>1 DEF ToNodeOK, Has
    <3>2. ASSUME NEW j \in 1..Len(toNode), toNode[j].kind = "offer" PROVE FALSE
      <4>1. ~Current(receiver, human, toNode, toHuman, j)
        BY <2>1 DEF Current
      <4>2. \A k \in j + 1..Len(toNode) : k \in 1..Len(toNode)
        OBVIOUS
      <4> QED BY <1>2, <3>1, <3>2, <4>1, <4>2 DEF ToNodeOK, Has
    <3> QED BY <3>1, <3>2 DEF Has
  <2>9. OfferersOK(node', offerer, toNode, toHuman)
    BY <1>4, <2>5, NoOffererIsOK
  <2>10. ReceiversOK(node', receiver', human, toNode, toHuman)
    BY <1>6, <2>1, <2>5, <2>6 DEF ReceiversOK, Taken
  <2>11. ToNodeOK(node', receiver', human, toNode, toHuman)
    BY <1>2, <2>8 DEF ToNodeOK, Has
  <2>12. ToHumanOK(node', receiver', offerer, human, toNode, toHuman)
    BY <2>1 DEF ToHumanOK
  <2>13. NothingLost(node', receiver', offerer, human, toNode, toHuman)
    BY <2>5, <2>7 DEF NothingLost
  <2>14. Agreement(node', receiver', human, toNode, toHuman)
    BY <1>2, <2>6 DEF Agreement
  <2>15. TracksOK(node', calls', offerer, human, offers)
    BY <1>2, <2>5 DEF TracksOK
  <2> QED BY <1>3, <2>9, <2>10, <2>11, <2>12, <2>13, <2>14, <2>15 DEF CalmNegotiationInv, CalmEnds
<1>7. CASE receiver[x].msg.kind # "offer"
  <2>1. Stays(x, Resting) /\ UNCHANGED <<node, calls>> /\ node.state = "stable"
    BY <1>2, <1>3, <1>7 DEF SetLocalAnswer, ReceiversOK
  <2>2. NoReceiver(receiver')
    BY <1>1, <1>4, <2>1, GoroutineParts, OthersStay DEF NoReceiver
  <2>3. /\ (\A y \in Receivers : ~Taken(receiver[y]) /\ ~Taken(receiver'[y])) /\ ~Setting(receiver', "answer")
    BY <1>3, <1>4, <1>7, <2>2 DEF Taken, Setting, NoReceiver
  <2>4. ReceiversOK(node, receiver', human, toNode, toHuman)
    BY <2>1, <2>2, ReceiversRest
  <2>5. ToNodeOK(node, receiver', human, toNode, toHuman)
    BY <1>2, <2>3 DEF ToNodeOK, Current
  <2>6. ToHumanOK(node, receiver', offerer, human, toNode, toHuman)
    BY <1>2, <2>3 DEF ToHumanOK
  <2>7. NothingLost(node, receiver', offerer, human, toNode, toHuman)
    BY <1>2, <1>5, <2>3 DEF NothingLost, Current
  <2>8. Agreement(node, receiver', human, toNode, toHuman)
    BY <1>2, <1>5 DEF Agreement
  <2> QED BY <1>2, <1>3, <2>1, <2>4, <2>5, <2>6, <2>7, <2>8 DEF CalmNegotiationInv, CalmEnds
<1> QED BY <1>6, <1>7

LEMMA QueueAnswerCalm ==
  ASSUME NegotiationTypes, CalmNegotiationInv, NEW x \in Receivers, QueueAnswer(x), OneGoroutine(offerer', receiver')
  PROVE  CalmNegotiationInv'
<1>1. /\ node \in NodeRec /\ receiver \in [Receivers -> TakenRec] /\ receiver[x] \in TakenRec
  BY DEF NegotiationTypes
<1>2. /\ OfferersOK(node, offerer, toNode, toHuman)
      /\ ReceiversOK(node, receiver, human, toNode, toHuman)
      /\ ToNodeOK(node, receiver, human, toNode, toHuman)
      /\ TracksOK(node, calls, offerer, human, offers)
      /\ Agreement(node, receiver, human, toNode, toHuman)
  BY DEF CalmNegotiationInv, CalmEnds
<1>3. /\ receiver[x].at = "reply" /\ toHuman' = Append(toHuman, Msg("answer", receiver[x].msg.id))
      /\ Stays(x, Resting) /\ UNCHANGED <<node, calls, offerer, human, offers, toNode>>
  BY DEF QueueAnswer
<1>4. /\ toHuman = <<>> /\ human.state = "local" /\ human.offer = receiver[x].msg.id
      /\ node.state = "stable" /\ node.agreed = receiver[x].msg.id /\ Taken(receiver[x])
  BY <1>2, <1>3 DEF ReceiversOK, Taken
<1>5. PICK msg \in MsgRec : msg.kind = "answer" /\ msg.id = receiver[x].msg.id /\ msg = Msg("answer", receiver[x].msg.id)
  <2>1. receiver[x].msg.id \in Nat
    BY <1>1, <1>3, GoroutineParts DEF MsgRec
  <2> QED BY <2>1, MessageTyped
<1>6. toHuman' = <<msg>> /\ Len(toHuman') = 1 /\ toHuman'[1] = msg
  BY <1>3, <1>4, <1>5
<1>7. Has(toHuman', "answer")
  BY <1>5, <1>6 DEF Has
<1>8. NoReceiver(receiver') /\ NoOfferer(offerer) /\ ~node.making
  BY <1>1, <1>3, GoroutineParts, OthersStay, WhileReceiving DEF NoReceiver
<1>9. ~Has(toNode, "answer") /\ ~Has(toNode, "offer")
  <2>1. ~Has(toNode, "answer")
    BY <1>2, <1>4 DEF ToNodeOK, Has
  <2>2. ASSUME NEW j \in 1..Len(toNode), toNode[j].kind = "offer" PROVE FALSE
    <3>1. ~Current(receiver, human, toNode, toHuman, j)
      BY <1>4 DEF Current
    <3>2. \A k \in j + 1..Len(toNode) : k \in 1..Len(toNode)
      OBVIOUS
    <3> QED BY <1>2, <2>1, <2>2, <3>1, <3>2 DEF ToNodeOK, Has
  <2> QED BY <2>1, <2>2 DEF Has
<1>10. OfferersOK(node, offerer, toNode, toHuman')
  BY <1>8, NoOffererIsOK
<1>11. ReceiversOK(node, receiver', human, toNode, toHuman')
  BY <1>4, <1>8, ReceiversRest
<1>12. ToNodeOK(node, receiver', human, toNode, toHuman')
  BY <1>2, <1>9 DEF ToNodeOK, Has
<1>13. ToHumanOK(node, receiver', offerer, human, toNode, toHuman')
  BY <1>4, <1>5, <1>6, <1>9 DEF ToHumanOK
<1>14. NothingLost(node, receiver', offerer, human, toNode, toHuman')
  BY <1>4, <1>7 DEF NothingLost
<1>15. Agreement(node, receiver', human, toNode, toHuman')
  BY <1>2, <1>7 DEF Agreement
<1> QED BY <1>2, <1>3, <1>10, <1>11, <1>12, <1>13, <1>14, <1>15 DEF CalmNegotiationInv, CalmEnds

(* The human's end, in calm behaviours.                                     *)
PairSent(T, m, c, T2) ==
  /\ Len(T2) = Len(T) + 2 /\ Len(T) \in Nat /\ T2[Len(T) + 1] = m /\ T2[Len(T) + 2] = c
  /\ \A i \in 1..Len(T) : T2[i] = T[i]
  /\ \A kind : kind # "candidate" => (Has(T2, kind) <=> Has(T, kind) \/ m.kind = kind)
  /\ InPairs(T) => InPairs(T2)
LEMMA PairIsSent ==
  ASSUME NEW T \in Seq(MsgRec), NEW m \in MsgRec, NEW c \in MsgRec, NEW T2, T2 = T \o <<m, c>>,
         c.kind = "candidate", m.kind # "candidate"
  PROVE  PairSent(T, m, c, T2)
<1>1. /\ Len(T2) = Len(T) + 2 /\ Len(T) \in Nat /\ T2[Len(T) + 1] = m /\ T2[Len(T) + 2] = c
      /\ \A i \in 1..Len(T) : T2[i] = T[i]
  BY TwoAppended
<1>2. PICK k, l \in 1..Len(T2) : k = Len(T) + 1 /\ l = Len(T) + 2 /\ T2[k] = m /\ T2[l] = c
  <2>1. Len(T) + 1 \in 1..Len(T2) /\ Len(T) + 2 \in 1..Len(T2)
    BY <1>1
  <2> QED BY <1>1, <2>1
<1>3. \A i \in 1..Len(T2) : i \in 1..Len(T) \/ i = k \/ i = l
  BY <1>1, <1>2
<1>4. \A i \in 1..Len(T) : i \in 1..Len(T2)
  BY <1>1
<1>5. ASSUME NEW kind, kind # "candidate" PROVE Has(T2, kind) <=> Has(T, kind) \/ m.kind = kind
  <2>1. ASSUME Has(T2, kind) PROVE Has(T, kind) \/ m.kind = kind
    <3>1. PICK i \in 1..Len(T2) : T2[i].kind = kind
      BY <2>1 DEF Has
    <3>2. CASE i \in 1..Len(T)
      BY <1>1, <3>1, <3>2 DEF Has
    <3>3. CASE i = k \/ i = l
      BY <1>2, <1>5, <3>1, <3>3
    <3> QED BY <1>3, <3>2, <3>3
  <2>2. ASSUME Has(T, kind) PROVE Has(T2, kind)
    <3>1. PICK i \in 1..Len(T) : T[i].kind = kind
      BY <2>2 DEF Has
    <3> QED BY <1>1, <1>4, <3>1 DEF Has
  <2>3. ASSUME m.kind = kind PROVE Has(T2, kind)
    BY <1>2, <2>3 DEF Has
  <2> QED BY <2>1, <2>2, <2>3
<1>6. ASSUME InPairs(T) PROVE InPairs(T2)
  <2> SUFFICES ASSUME NEW i \in 1..Len(T2)
               PROVE  /\ i = Len(T2) => T2[i].kind = "candidate"
                      /\ i # Len(T2) => (T2[i].kind = "candidate" <=> T2[i + 1].kind # "candidate")
    BY DEF InPairs
  <2>1. CASE i \in 1..Len(T)
    <3>1. /\ i = Len(T) => T[i].kind = "candidate"
          /\ i # Len(T) => (T[i].kind = "candidate" <=> T[i + 1].kind # "candidate")
      BY <1>6, <2>1 DEF InPairs
    <3>2. CASE i = Len(T)
      <4>1. i + 1 = k /\ i # Len(T2) /\ T2[i] = T[i]
        BY <1>1, <1>2, <2>1, <3>2
      <4> QED BY <1>2, <3>1, <3>2, <4>1
    <3>3. CASE i # Len(T)
      <4>1. i + 1 \in 1..Len(T) /\ i # Len(T2)
        BY <1>1, <2>1, <3>3
      <4>2. T2[i] = T[i] /\ T2[i + 1] = T[i + 1]
        BY <1>1, <2>1, <4>1
      <4> QED BY <3>1, <3>3, <4>1, <4>2
    <3> QED BY <3>2, <3>3
  <2>2. CASE i = k
    <3>1. i # Len(T2) /\ i + 1 = l
      BY <1>1, <1>2, <2>2
    <3> QED BY <1>2, <2>2, <3>1
  <2>3. CASE i = l
    BY <1>1, <1>2, <2>3
  <2> QED BY <1>3, <2>1, <2>2, <2>3
<1> QED BY <1>1, <1>5, <1>6 DEF PairSent

LEMMA HumanOffersCalm ==
  ASSUME NegotiationTypes, CalmNegotiationInv, HumanOffers, OneGoroutine(offerer', receiver')
  PROVE  CalmNegotiationInv'
<1>1. /\ node \in NodeRec /\ calls \in Nat /\ offers \in Seq(Nat) /\ human \in HumanRec
      /\ toNode \in Seq(MsgRec) /\ toHuman \in Seq(MsgRec)
      /\ node.state = "local" => node.offer \in 1..Len(offers)
  BY DEF NegotiationTypes
<1>2. /\ OfferersOK(node, offerer, toNode, toHuman)
      /\ ReceiversOK(node, receiver, human, toNode, toHuman)
      /\ ToNodeOK(node, receiver, human, toNode, toHuman)
      /\ ToHumanOK(node, receiver, offerer, human, toNode, toHuman)
      /\ NothingLost(node, receiver, offerer, human, toNode, toHuman)
      /\ Agreement(node, receiver, human, toNode, toHuman)
      /\ TracksOK(node, calls, offerer, human, offers)
  BY DEF CalmNegotiationInv, CalmEnds
<1>3. PICK k \in Nat : k = Len(offers) + 1
  BY <1>1
<1>4. PICK m, c \in MsgRec :
        /\ m.kind = "offer" /\ m.id = k /\ c.kind = "candidate"
        /\ m = Msg("offer", k) /\ c = Msg("candidate", k)
  <2>1. Msg("offer", k) \in MsgRec /\ Msg("offer", k).kind = "offer" /\ Msg("offer", k).id = k
    BY MessageTyped
  <2>2. Msg("candidate", k) \in MsgRec /\ Msg("candidate", k).kind = "candidate"
    BY MessageTyped
  <2> QED BY <2>1, <2>2
<1>5. /\ human.state = "stable" /\ offers' = Append(offers, human.tracks)
      /\ human' = [human EXCEPT !.here = TRUE, !.state = "local", !.offer = k]
      /\ toNode' = toNode \o <<m, c>>
      /\ UNCHANGED <<node, calls, offerer, receiver, toHuman>>
  BY <1>3, <1>4 DEF HumanOffers, Fresh
<1>6. /\ human'.here /\ human'.state = "local" /\ human'.offer = k /\ human'.agreed = human.agreed
      /\ human'.tracks = human.tracks /\ human'.settled = human.settled
      /\ human.tracks \in Nat
  BY <1>1, <1>5 DEF HumanRec
<1>7. /\ Len(toNode') = Len(toNode) + 2 /\ Len(toNode) \in Nat
      /\ toNode'[Len(toNode) + 1] = m /\ toNode'[Len(toNode) + 2] = c
      /\ \A i \in 1..Len(toNode) : toNode'[i] = toNode[i]
      /\ \A kind : kind # "candidate" => (Has(toNode', kind) <=> Has(toNode, kind) \/ m.kind = kind)
      /\ InPairs(toNode) => InPairs(toNode')
  <2>1. PairSent(toNode, m, c, toNode')
    BY <1>1, <1>4, <1>5, PairIsSent
  <2> QED BY <2>1 DEF PairSent
<1>8. /\ (\A y \in Receivers : ~Taken(receiver[y]))
      /\ (Has(toNode', "answer") <=> Has(toNode, "answer")) /\ Has(toNode', "offer")
      /\ ~Has(toHuman, "answer")
  <2>1. \A y \in Receivers : ~Taken(receiver[y])
    BY <1>2, <1>5 DEF ReceiversOK
  <2>2. ~Has(toHuman, "answer")
    BY <1>2, <1>5 DEF ToHumanOK, Has
  <2> QED BY <1>4, <1>7, <2>1, <2>2
<1>9. OfferersOK(node, offerer, toNode', toHuman)
  BY <1>2, <1>8 DEF OfferersOK
<1>10. ReceiversOK(node, receiver, human', toNode', toHuman)
  BY <1>2, <1>6, <1>8 DEF ReceiversOK
<1>11. PICK e, f \in 1..Len(toNode') :
         /\ e = Len(toNode) + 1 /\ f = Len(toNode) + 2 /\ toNode'[e] = m /\ toNode'[f] = c
         /\ \A i \in 1..Len(toNode') : i \in 1..Len(toNode) \/ i = e \/ i = f
  <2>1. Len(toNode) + 1 \in 1..Len(toNode') /\ Len(toNode) + 2 \in 1..Len(toNode')
    BY <1>7
  <2>2. \A i \in 1..Len(toNode') : i \in 1..Len(toNode) \/ i = Len(toNode) + 1 \/ i = Len(toNode) + 2
    BY <1>7
  <2> QED BY <1>7, <2>1, <2>2
<1>12. Current(receiver, human', toNode', toHuman, e)
  <2>1. \A j \in e + 1..Len(toNode') : toNode'[j].kind = "candidate"
    <3>1. \A j \in e + 1..Len(toNode') : j = f
      BY <1>7, <1>11
    <3> QED BY <1>4, <1>11, <3>1
  <2> QED BY <1>4, <1>6, <1>8, <1>11, <2>1 DEF Current
<1>13. ToNodeOK(node, receiver, human', toNode', toHuman)
  <2>1. InPairs(toNode')
    BY <1>2, <1>7 DEF ToNodeOK
  <2>2. ASSUME NEW i \in 1..Len(toNode'), toNode'[i].kind = "answer"
        PROVE  /\ toHuman = <<>> /\ node.state = "local" /\ toNode'[i].id = node.offer /\ human'.agreed = node.offer
               /\ ~Setting(receiver, "answer")
               /\ \A j \in 1..Len(toNode') : toNode'[j].kind = "answer" => i = j
    <3>1. \A j \in 1..Len(toNode') : toNode'[j].kind = "answer" => j \in 1..Len(toNode) /\ toNode[j].kind = "answer"
      BY <1>4, <1>7, <1>11
    <3>2. i \in 1..Len(toNode) /\ toNode[i] = toNode'[i]
      BY <1>7, <2>2, <3>1
    <3> QED BY <1>2, <1>6, <2>2, <3>1, <3>2 DEF ToNodeOK
  <2>3. ASSUME NEW i \in 1..Len(toNode'), toNode'[i].kind = "offer"
        PROVE  Current(receiver, human', toNode', toHuman, i) \/ \E j \in i + 1..Len(toNode') : toNode'[j].kind = "answer"
    <3>1. CASE i = e
      BY <1>12, <3>1
    <3>2. CASE i \in 1..Len(toNode)
      <4>1. toNode[i].kind = "offer" /\ ~Current(receiver, human, toNode, toHuman, i)
        BY <1>5, <1>7, <2>3, <3>2 DEF Current
      <4>2. PICK j \in i + 1..Len(toNode) : toNode[j].kind = "answer"
        BY <1>2, <3>2, <4>1 DEF ToNodeOK
      <4>3. j \in i + 1..Len(toNode') /\ j \in 1..Len(toNode)
        BY <1>7, <3>2
      <4> QED BY <1>7, <4>2, <4>3
    <3>3. i # f
      BY <1>4, <1>11, <2>3
    <3> QED BY <1>11, <3>1, <3>2, <3>3
  <2> QED BY <2>1, <2>2, <2>3 DEF ToNodeOK
<1>14. ToHumanOK(node, receiver, offerer, human', toNode', toHuman)
  BY <1>2, <1>8 DEF ToHumanOK, Has
<1>15. NothingLost(node, receiver, offerer, human', toNode', toHuman)
  BY <1>2, <1>4, <1>8, <1>11, <1>12 DEF NothingLost
<1>16. Agreement(node, receiver, human', toNode', toHuman)
  BY <1>2, <1>6, <1>8 DEF Agreement
<1>17. TracksOK(node, calls, offerer, human', offers')
  <2>1. offers'[k] = human.tracks /\ \A i \in 1..Len(offers) : offers'[i] = offers[i]
    BY <1>1, <1>3, <1>5, <1>6
  <2> QED BY <1>1, <1>2, <1>6, <2>1 DEF TracksOK
<1> QED BY <1>5, <1>9, <1>10, <1>13, <1>14, <1>15, <1>16, <1>17 DEF CalmNegotiationInv, CalmEnds

LEMMA HumanAddsTrackCalm ==
  ASSUME NegotiationTypes, CalmNegotiationInv, HumanAddsTrack, OneGoroutine(offerer', receiver')
  PROVE  CalmNegotiationInv'
<1>1. /\ human \in HumanRec /\ offers \in Seq(Nat) /\ (human.state = "local" => human.offer \in 1..Len(offers))
  BY DEF NegotiationTypes
<1>2. PICK more \in Nat : more = human.tracks + 1 /\ human.tracks \in Nat
  BY <1>1 DEF HumanRec
<1>3. human' = [human EXCEPT !.tracks = more] /\ UNCHANGED <<node, calls, offerer, receiver, offers, toNode, toHuman>>
  BY <1>2 DEF HumanAddsTrack
<1>4. /\ human'.here = human.here /\ human'.state = human.state /\ human'.offer = human.offer
      /\ human'.agreed = human.agreed /\ human'.settled = human.settled /\ human'.tracks = more
  BY <1>1, <1>3 DEF HumanRec
<1>5. OfferersOK(node, offerer, toNode, toHuman)
  BY DEF CalmNegotiationInv, CalmEnds
<1>6. ReceiversOK(node, receiver, human', toNode, toHuman)
  BY <1>4 DEF CalmNegotiationInv, CalmEnds, ReceiversOK
<1>7. ToNodeOK(node, receiver, human', toNode, toHuman)
  BY <1>4 DEF CalmNegotiationInv, CalmEnds, ToNodeOK, Current
<1>8. ToHumanOK(node, receiver, offerer, human', toNode, toHuman)
  BY <1>4 DEF CalmNegotiationInv, CalmEnds, ToHumanOK
<1>9. NothingLost(node, receiver, offerer, human', toNode, toHuman)
  BY <1>4 DEF CalmNegotiationInv, CalmEnds, NothingLost, Current
<1>10. Agreement(node, receiver, human', toNode, toHuman)
  BY <1>4 DEF CalmNegotiationInv, CalmEnds, Agreement
<1>11. TracksOK(node, calls, offerer, human', offers)
  <2>1. TracksOK(node, calls, offerer, human, offers)
    BY DEF CalmNegotiationInv, CalmEnds
  <2>2. human.settled \in Nat /\ (human.state = "local" => offers[human.offer] \in Nat)
    BY <1>1 DEF HumanRec
  <2> QED BY <1>2, <1>4, <2>1, <2>2 DEF TracksOK
<1> QED BY <1>3, <1>5, <1>6, <1>7, <1>8, <1>9, <1>10, <1>11 DEF CalmNegotiationInv, CalmEnds

LEMMA HumanReceivesCalm ==
  ASSUME NegotiationTypes, CalmNegotiationInv, HumanReceives, OneGoroutine(offerer', receiver')
  PROVE  CalmNegotiationInv'
<1>1. /\ node \in NodeRec /\ offers \in Seq(Nat) /\ human \in HumanRec
      /\ toNode \in Seq(MsgRec) /\ toHuman \in Seq(MsgRec)
      /\ node.state = "local" => node.offer \in 1..Len(offers)
      /\ human.state = "local" => human.offer \in 1..Len(offers)
  BY DEF NegotiationTypes
<1>2. /\ OfferersOK(node, offerer, toNode, toHuman)
      /\ ReceiversOK(node, receiver, human, toNode, toHuman)
      /\ ToNodeOK(node, receiver, human, toNode, toHuman)
      /\ ToHumanOK(node, receiver, offerer, human, toNode, toHuman)
      /\ NothingLost(node, receiver, offerer, human, toNode, toHuman)
      /\ Agreement(node, receiver, human, toNode, toHuman)
      /\ TracksOK(node, calls, offerer, human, offers)
  BY DEF CalmNegotiationInv, CalmEnds
<1>3. toHuman # <<>> /\ human.here /\ toHuman' = Tail(toHuman) /\ UNCHANGED <<node, calls, offerer, receiver, offers>>
  BY DEF HumanReceives
<1>4. PICK msg \in MsgRec : msg = toHuman[1] /\ msg = Head(toHuman)
  BY <1>1, <1>3
<1>5. /\ Len(toHuman') = Len(toHuman) - 1 /\ Len(toHuman) \in Nat \ {0}
      /\ \A j \in 1..Len(toHuman') : toHuman'[j] = toHuman[j + 1] /\ j + 1 \in 1..Len(toHuman)
      /\ \A kind : Has(toHuman, kind) <=> msg.kind = kind \/ Has(toHuman', kind)
  <2>1. /\ Len(Tail(toHuman)) = Len(toHuman) - 1 /\ Len(toHuman) \in Nat \ {0}
        /\ \A j \in 1..Len(Tail(toHuman)) : Tail(toHuman)[j] = toHuman[j + 1] /\ j + 1 \in 1..Len(toHuman)
        /\ \A kind : Has(toHuman, kind) <=> toHuman[1].kind = kind \/ Has(Tail(toHuman), kind)
    BY <1>1, <1>3, FirstIsTaken
  <2>2. toHuman' = Tail(toHuman)
    BY <1>3
  <2> QED BY <1>4, <2>1, <2>2, Zenon
<1>6. 1 \in 1..Len(toHuman) /\ msg.id \in Nat
  BY <1>5 DEF MsgRec
<1>7. /\ (\A y \in Receivers : ~Taken(receiver[y])) /\ ~Setting(receiver, "answer")
  BY <1>2, <1>3 DEF ReceiversOK, Setting
<1>8. msg.kind = "offer" => TookOffer(msg)
  BY <1>4, HumanChooses
<1>9. msg.kind = "answer" /\ human.state = "local" => TookAnswer(msg)
  BY <1>4, HumanChooses
<1>10. CASE msg.kind = "offer"
  <2>1. /\ Len(toHuman) = 1 /\ node.state = "local" /\ msg.id = node.offer
        /\ ~Has(toNode, "answer") /\ ~Queueing(offerer)
    BY <1>2, <1>4, <1>6, <1>10 DEF ToHumanOK
  <2>2. toHuman' = <<>>
    <3>1. toHuman' \in Seq(MsgRec) /\ Len(toHuman') = 0
      BY <1>1, <1>3, <1>5, <2>1
    <3> QED BY <3>1
  <2>3. PICK m, c \in MsgRec :
          /\ m.kind = "answer" /\ m.id = msg.id /\ c.kind = "candidate"
          /\ m = Msg("answer", msg.id) /\ c = Msg("candidate", msg.id)
    <3>1. Msg("answer", msg.id) \in MsgRec /\ Msg("answer", msg.id).kind = "answer" /\ Msg("answer", msg.id).id = msg.id
      BY <1>6, MessageTyped
    <3>2. Msg("candidate", msg.id) \in MsgRec /\ Msg("candidate", msg.id).kind = "candidate"
      BY <1>6, MessageTyped
    <3> QED BY <3>1, <3>2
  <2>4. human' = [human EXCEPT !.state = "stable", !.agreed = msg.id] /\ toNode' = toNode \o <<m, c>>
    BY <1>8, <1>10, <2>3 DEF TookOffer
  <2>5. /\ human'.here /\ human'.state = "stable" /\ human'.agreed = msg.id
        /\ human'.tracks = human.tracks /\ human'.settled = human.settled
    BY <1>1, <1>3, <1>6, <2>4 DEF HumanRec
  <2>6. /\ Len(toNode') = Len(toNode) + 2 /\ Len(toNode) \in Nat
        /\ toNode'[Len(toNode) + 1] = m /\ toNode'[Len(toNode) + 2] = c
        /\ \A i \in 1..Len(toNode) : toNode'[i] = toNode[i]
        /\ \A kind : kind # "candidate" => (Has(toNode', kind) <=> Has(toNode, kind) \/ m.kind = kind)
        /\ InPairs(toNode) => InPairs(toNode')
    <3>1. PairSent(toNode, m, c, toNode')
      BY <1>1, <2>3, <2>4, PairIsSent
    <3> QED BY <3>1 DEF PairSent
  <2>7. PICK e, f \in 1..Len(toNode') :
          /\ e = Len(toNode) + 1 /\ f = Len(toNode) + 2 /\ toNode'[e] = m /\ toNode'[f] = c
          /\ \A i \in 1..Len(toNode') : i \in 1..Len(toNode) \/ i = e \/ i = f
    <3>1. Len(toNode) + 1 \in 1..Len(toNode') /\ Len(toNode) + 2 \in 1..Len(toNode')
      BY <2>6
    <3>2. \A i \in 1..Len(toNode') : i \in 1..Len(toNode) \/ i = Len(toNode) + 1 \/ i = Len(toNode) + 2
      BY <2>6
    <3> QED BY <2>6, <3>1, <3>2
  <2>8. Has(toNode', "answer")
    BY <2>3, <2>6
  <2>9. \A i \in 1..Len(toNode') : toNode'[i].kind = "answer" => i = e
    BY <2>1, <2>3, <2>6, <2>7 DEF Has
  <2>10. OfferersOK(node, offerer, toNode', toHuman')
    BY <1>2, <2>1 DEF OfferersOK, Queueing
  <2>11. ReceiversOK(node, receiver, human', toNode', toHuman')
    BY <1>2, <1>3, <1>7, <2>1 DEF ReceiversOK
  <2>12. ToNodeOK(node, receiver, human', toNode', toHuman')
    <3>1. InPairs(toNode')
      BY <1>2, <2>6 DEF ToNodeOK
    <3>2. ASSUME NEW i \in 1..Len(toNode'), toNode'[i].kind = "answer"
          PROVE  /\ toHuman' = <<>> /\ node.state = "local" /\ toNode'[i].id = node.offer /\ human'.agreed = node.offer
                 /\ ~Setting(receiver, "answer")
                 /\ \A j \in 1..Len(toNode') : toNode'[j].kind = "answer" => i = j
      BY <1>7, <2>1, <2>2, <2>3, <2>5, <2>7, <2>9, <3>2
    <3>3. ASSUME NEW i \in 1..Len(toNode'), toNode'[i].kind = "offer"
          PROVE  \E j \in i + 1..Len(toNode') : toNode'[j].kind = "answer"
      <4>1. i \in 1..Len(toNode)
        BY <2>3, <2>7, <3>3
      <4>2. e \in i + 1..Len(toNode')
        BY <2>6, <2>7, <4>1
      <4> QED BY <2>3, <2>7, <4>2
    <3> QED BY <3>1, <3>2, <3>3 DEF ToNodeOK
  <2>13. ToHumanOK(node, receiver, offerer, human', toNode', toHuman')
    BY <2>2 DEF ToHumanOK
  <2>14. NothingLost(node, receiver, offerer, human', toNode', toHuman')
    BY <2>5, <2>8 DEF NothingLost
  <2>15. Agreement(node, receiver, human', toNode', toHuman')
    BY <1>1, <2>1, <2>5, <2>8 DEF Agreement
  <2>16. TracksOK(node, calls, offerer, human', offers)
    BY <1>2, <2>5 DEF TracksOK
  <2> QED BY <1>3, <2>10, <2>11, <2>12, <2>13, <2>14, <2>15, <2>16 DEF CalmNegotiationInv, CalmEnds
<1>11. CASE msg.kind = "answer"
  <2>1. /\ human.state = "local" /\ msg.id = human.offer /\ node.agreed = human.offer /\ ~Has(toNode, "offer")
    BY <1>2, <1>4, <1>6, <1>11 DEF ToHumanOK
  <2>2. /\ human' = [human EXCEPT !.state = "stable", !.agreed = msg.id, !.restart = FALSE,
                                  !.settled = offers[human.offer]]
        /\ toNode' = toNode
    BY <1>9, <1>11, <2>1 DEF TookAnswer
  <2>3. offers[human.offer] \in Nat /\ offers[human.offer] <= human.tracks
    BY <1>1, <1>2, <2>1 DEF TracksOK
  <2>4. /\ human'.here /\ human'.state = "stable" /\ human'.agreed = msg.id
        /\ human'.tracks = human.tracks /\ human'.settled = offers[human.offer]
    BY <1>1, <1>3, <1>6, <2>2, <2>3 DEF HumanRec
  <2>5. Has(toHuman', "offer") <=> Has(toHuman, "offer")
    BY <1>5, <1>11
  <2>6. OfferersOK(node, offerer, toNode', toHuman')
    BY <1>2, <2>2, <2>5 DEF OfferersOK
  <2>7. ReceiversOK(node, receiver, human', toNode', toHuman')
    BY <1>2, <1>3, <1>7, <2>2 DEF ReceiversOK
  <2>8. ToNodeOK(node, receiver, human', toNode', toHuman')
    BY <1>2, <1>3, <2>1, <2>2 DEF ToNodeOK, Has
  <2>9. ToHumanOK(node, receiver, offerer, human', toNode', toHuman')
    <3>1. ASSUME NEW j \in 1..Len(toHuman')
          PROVE  /\ toHuman'[j].kind = "offer" /\ j = Len(toHuman')
                 /\ node.state = "local" /\ toHuman'[j].id = node.offer
                 /\ ~Has(toNode, "answer") /\ ~Setting(receiver, "answer") /\ ~Queueing(offerer)
      <4>1. PICK k \in 1..Len(toHuman) : k = j + 1 /\ toHuman[k] = toHuman'[j]
        BY <1>5
      <4>2. k # 1
        BY <4>1
      <4> QED BY <1>2, <1>5, <4>1, <4>2 DEF ToHumanOK
    <3> QED BY <2>2, <3>1 DEF ToHumanOK
  <2>10. NothingLost(node, receiver, offerer, human', toNode', toHuman')
    BY <1>2, <2>2, <2>4, <2>5 DEF NothingLost
  <2>11. Agreement(node, receiver, human', toNode', toHuman')
    BY <1>1, <2>1, <2>4 DEF Agreement
  <2>12. TracksOK(node, calls, offerer, human', offers)
    BY <1>2, <2>3, <2>4 DEF TracksOK
  <2> QED BY <1>3, <2>6, <2>7, <2>8, <2>9, <2>10, <2>11, <2>12 DEF CalmNegotiationInv, CalmEnds
<1>12. msg.kind \in {"offer", "answer"}
  BY <1>2, <1>4, <1>6 DEF ToHumanOK
<1> QED BY <1>10, <1>11, <1>12

LEMMA NegotiationKeepsCalm ==
  ASSUME NegotiationTypes, NegotiationAssumption, CalmNegotiationInv, NegotiationNext, CalmNegotiation
  PROVE  CalmNegotiationInv'
<1>1. NegotiationTypes'
  BY HumansKeep, OfferersKeep, ReceiversKeep DEF NegotiationNext
<1>2. OneGoroutine(offerer', receiver') /\ InOrder
  BY <1>1, AtMostOneWorks DEF CalmNegotiation
<1>3. CASE AddTrack \/ HumanOffers \/ HumanAddsTrack \/ HumanReceives
  BY <1>2, <1>3, AddTrackCalm, HumanOffersCalm, HumanAddsTrackCalm, HumanReceivesCalm
<1>4. CASE \E x \in Offerers : Offering(x)
  BY <1>2, <1>4, NegotiateCalm, SetLocalOfferCalm, QueueOfferCalm, EndOfferCalm DEF Offering
<1>5. CASE \E x \in Receivers : Receiving(x)
  BY <1>2, <1>5, TakeCandidateCalm, TakeDescriptionCalm, AddCandidateCalm, SetRemoteCalm, DrainPendingCalm,
     SetLocalAnswerCalm, QueueAnswerCalm DEF Receiving
<1> QED BY <1>3, <1>4, <1>5 DEF NegotiationNext

LEMMA NegotiationInitially ==
  ASSUME NegotiationInit
  PROVE  NegotiationTypes /\ CandidatesReached /\ CalmNegotiationInv
<1>1. /\ node \in NodeRec /\ node.state = "stable" /\ ~node.making /\ ~node.described /\ node.agreed = 0
      /\ node.tracks = 0 /\ node.settled = 0 /\ ~node.asked
  BY DEF NegotiationInit, NodeRec
<1>2. /\ human \in HumanRec /\ ~human.here /\ human.state = "stable" /\ human.agreed = 0
      /\ human.tracks = 0 /\ human.settled = 0
  BY DEF NegotiationInit, HumanRec
<1>3. /\ calls = 1 /\ offers = <<>> /\ toNode = <<>> /\ toHuman = <<>>
      /\ offerer = [x \in Offerers |-> Resting] /\ receiver = [x \in Receivers |-> Resting]
  BY DEF NegotiationInit
<1>4. /\ (\A x \in Offerers : offerer[x] = Resting) /\ (\A x \in Receivers : receiver[x] = Resting)
      /\ Resting.at = "idle" /\ Resting \in OfferRec /\ Resting \in TakenRec
  BY <1>3, GoroutineParts
<1>5. NegotiationTypes
  <2>1. offerer \in [Offerers -> OfferRec] /\ receiver \in [Receivers -> TakenRec]
    BY <1>3, <1>4
  <2> QED BY <1>1, <1>2, <1>3, <2>1 DEF NegotiationTypes
<1>6. CandidatesReached
  BY <1>1 DEF CandidatesReached
<1>7. NoReceiver(receiver) /\ NoOfferer(offerer)
  BY <1>4 DEF NoReceiver, NoOfferer
<1>8. OneGoroutine(offerer, receiver)
  BY <1>4 DEF OneGoroutine
<1>9. OfferersOK(node, offerer, toNode, toHuman) /\ ReceiversOK(node, receiver, human, toNode, toHuman)
  BY <1>1, <1>5, <1>7, NoOffererIsOK, ReceiversRest
<1>10. ToNodeOK(node, receiver, human, toNode, toHuman) /\ ToHumanOK(node, receiver, offerer, human, toNode, toHuman)
  BY <1>3 DEF ToNodeOK, ToHumanOK, InPairs
<1>11. NothingLost(node, receiver, offerer, human, toNode, toHuman) /\ Agreement(node, receiver, human, toNode, toHuman)
  BY <1>1, <1>2 DEF NothingLost, Agreement
<1>12. TracksOK(node, calls, offerer, human, offers)
  BY <1>1, <1>2 DEF TracksOK
<1> QED BY <1>5, <1>6, <1>8, <1>9, <1>10, <1>11, <1>12 DEF CalmNegotiationInv, CalmEnds

LEMMA NegotiationKept ==
  ASSUME NegotiationIInv, NegotiationAssumption, [MCNext]_<<first, second, service, calm>>
  PROVE  NegotiationIInv'
<1>1. calm' = calm
  BY DEF MCNext
<1>2. CASE UNCHANGED negotiationVars
  <2>1. UNCHANGED <<node, calls, offerer, receiver, human, offers, toNode, toHuman>>
    BY <1>2 DEF negotiationVars
  <2>2. NegotiationTypes' /\ CandidatesReached'
    BY <2>1 DEF NegotiationIInv, NegotiationTypes, CandidatesReached
  <2>3. calm => CalmNegotiationInv'
    BY <2>1 DEF NegotiationIInv, CalmNegotiationInv
  <2> QED BY <1>1, <2>2, <2>3 DEF NegotiationIInv
<1>3. CASE NegotiationNext /\ (calm => CalmNegotiation)
  BY <1>1, <1>3, NegotiationKeeps, NegotiationKeepsCalm DEF NegotiationIInv
<1>4. UNCHANGED negotiationVars \/ (NegotiationNext /\ (calm => CalmNegotiation))
  <2>1. CASE UNCHANGED <<first, second, service, calm>>
    BY <2>1 DEF first
  <2>2. CASE MCNext
    BY <2>2 DEF MCNext, first
  <2> QED BY <2>1, <2>2
<1> QED BY <1>2, <1>3, <1>4

LEMMA EndsHaveAgreed ==
  ASSUME NegotiationTypes, NegotiationAssumption, CalmNegotiationInv
  PROVE  EndsAgree
<1> SUFFICES ASSUME AtRest
             PROVE  /\ node.state = "stable" /\ human.state = "stable"
                    /\ node.agreed = human.agreed /\ node.agreed # 0
                    /\ node.settled = node.tracks /\ human.settled = human.tracks
  BY DEF EndsAgree
<1>1. /\ ReceiversOK(node, receiver, human, toNode, toHuman)
      /\ NothingLost(node, receiver, offerer, human, toNode, toHuman)
      /\ Agreement(node, receiver, human, toNode, toHuman)
      /\ TracksOK(node, calls, offerer, human, offers)
  BY DEF CalmNegotiationInv, CalmEnds
<1>2. node \in NodeRec /\ human \in HumanRec
  BY DEF NegotiationTypes
<1>3. /\ Working = 0 /\ calls = 0 /\ toNode = <<>> /\ toHuman = <<>> /\ human.here
      /\ human.state = "stable" => ~HumanAsks
  BY DEF AtRest
<1>4. /\ (\A x \in Offerers : offerer[x].at = "idle") /\ (\A y \in Receivers : receiver[y].at = "idle")
  BY <1>3, NobodyWorks, GoroutineParts
<1>5. /\ ~Has(toNode, "answer") /\ ~Has(toHuman, "answer") /\ ~Has(toHuman, "offer") /\ Len(toNode) = 0
      /\ ~Setting(receiver, "answer") /\ ~Queueing(offerer) /\ \A y \in Receivers : ~Taken(receiver[y])
  BY <1>3, <1>4, NoneIsThere DEF Setting, Queueing, Taken
<1>6. node.state = "stable"
  <2>1. node.state # "remote"
    BY <1>1, <1>4 DEF ReceiversOK
  <2>2. node.state # "local"
    BY <1>1, <1>5 DEF NothingLost
  <2> QED BY <1>2, <2>1, <2>2 DEF NodeRec
<1>7. human.state = "stable"
  <2>1. human.state # "local"
    BY <1>1, <1>5 DEF NothingLost
  <2> QED BY <1>2, <2>1 DEF HumanRec
<1>8. node.agreed = human.agreed /\ node.agreed # 0
  BY <1>1, <1>3, <1>4, <1>5, <1>7 DEF Agreement
<1>9. node.settled = node.tracks
  <2>1. ~(node.tracks > node.settled) /\ node.settled <= node.tracks
    BY <1>1, <1>3, <1>4, <1>6 DEF TracksOK
  <2> QED BY <1>2, <2>1 DEF NodeRec
<1>10. human.settled = human.tracks
  <2>1. ~(human.tracks > human.settled) /\ human.settled <= human.tracks
    BY <1>1, <1>3, <1>7 DEF TracksOK, HumanAsks
  <2> QED BY <1>2, <2>1 DEF HumanRec
<1> QED BY <1>6, <1>7, <1>8, <1>9, <1>10

(* Whatever overlaps, a candidate that came before its description is not   *)
(* forgotten; and where the node's goroutines take turns and it hears the   *)
(* human in the order he spoke, the two ends of a connection at rest have   *)
(* agreed on the same offer and every track is covered (relaynode.go        *)
(* negotiate, handleDescription, handleCandidate).                          *)
THEOREM NegotiationIsSound == MCSpec => []NegotiationSound
<1>1. MCInit => NegotiationIInv
  BY NegotiationInitially DEF MCInit, NegotiationIInv
<1>2. NegotiationIInv /\ [MCNext]_<<first, second, service, calm>> => NegotiationIInv'
  BY NegotiationKept, NegotiationAssumption
<1>3. NegotiationIInv => NegotiationSound
  BY EndsHaveAgreed, NegotiationAssumption DEF NegotiationIInv, NegotiationSound
<1> QED BY <1>1, <1>2, <1>3, PTL DEF MCSpec
-----------------------------------------------------------------------------
(* Chats, in behaviours in which handlers take turns and nothing fails.     *)
(* Types first.                                                             *)
ChatRec ==
  [type : {"direct", "group"}, admin : Users, member : [Users -> Statuses], gone : BOOLEAN]
UserPairs == {{p[1], p[2]} : p \in Pairs}
ChatsTyped(C) == C \in Seq(ChatRec) /\ \A i \in 1..Len(C) : C[i].gone => C[i].member = NoOne
TablesTyped(C, F, S, B, R) ==
  /\ ChatsTyped(C)
  /\ F \subseteq UserPairs /\ S \subseteq Pairs /\ B \subseteq Pairs /\ R \subseteq Users

(* A direct chat that stands has two rows, and the two are friends exactly  *)
(* if both have accepted; one that nobody is active in was ended.           *)
RowsOf(h) == {u \in Users : h.member[u] # "none"}
IsDirect(h) == h.type = "direct" /\ ~h.gone
HasRows(h, u, v, s, t) == IsDirect(h) /\ RowsOf(h) = {u, v} /\ h.member[u] = s /\ h.member[v] = t
Standing(h, F) ==
  \E p \in Pairs :
    \/ {p[1], p[2]} \in F /\ HasRows(h, p[1], p[2], "accepted", "accepted")
    \/ {p[1], p[2]} \notin F /\ HasRows(h, p[1], p[2], "accepted", "pending")
    \/ {p[1], p[2]} \notin F /\ HasRows(h, p[1], p[2], "unfriended", "unfriended")
Between(C, q) == {i \in 1..Len(C) : IsDirect(C[i]) /\ q \subseteq RowsOf(C[i])}

(* What a handler leaves, and keeps while it works but for the chat k, the  *)
(* friends q and the blocked r it is at.                                    *)
AllStand(C, F, k) == \A i \in 1..Len(C) : IsDirect(C[i]) /\ i # k => Standing(C[i], F)
NoneTwice(C) == \A q \in UserPairs : \A i, j \in Between(C, q) : i = j
FriendsHaveChats(C, F, q) == \A f \in F : f # q => Between(C, f) # {}
Parted(C, F, S, B, u, v) ==
  /\ {u, v} \notin F /\ <<u, v>> \notin S /\ <<v, u>> \notin S
  /\ \A i \in Between(C, {u, v}) : HasRows(C[i], u, v, "unfriended", "unfriended")
BlockedArePart(C, F, S, B, r) ==
  \A p \in B : {p[1], p[2]} # r => Parted(C, F, S, B, p[1], p[2])
InTune(C, F, S, B, k, q, r) ==
  AllStand(C, F, k) /\ NoneTwice(C) /\ FriendsHaveChats(C, F, q) /\ BlockedArePart(C, F, S, B, r)

Tuned(C, F, S, B) == InTune(C, F, S, B, 0, {}, {})

(* What a handler at work has read and written, for each list of writes it  *)
(* may have left.                                                           *)
Free(B, u, v) == <<u, v>> \in Pairs /\ <<u, v>> \notin B /\ <<v, u>> \notin B
To(w, job, todo) == w.at = "write" /\ w.job \in job /\ w.todo = todo

\* A request for a direct chat.
Subscribing(w) == <<Subscribe(w.by, w.to, TRUE)>>
Befriending(w) == <<Befriend(w.by, w.to, TRUE), Subscribe(w.by, w.to, TRUE)>>
Consenting(w) == <<Become({w.by}, "accepted"), Befriend(w.by, w.to, TRUE), Subscribe(w.by, w.to, TRUE)>>
Awaiting(w) == <<Become({w.to}, "pending"), Subscribe(w.by, w.to, TRUE)>>
Reopening(w) == <<Become({w.by}, "accepted"), Become({w.to}, "pending"), Subscribe(w.by, w.to, TRUE)>>
SecondRow(w) == <<AddRow(w.to, "pending"), Subscribe(w.by, w.to, TRUE)>>
FirstRow(w) == <<AddRow(w.by, "accepted"), AddRow(w.to, "pending"), Subscribe(w.by, w.to, TRUE)>>
Opening(w) ==
  <<NewChat("direct"), AddRow(w.by, "accepted"), AddRow(w.to, "pending"), Subscribe(w.by, w.to, TRUE)>>

Inquires(w, C, F, S, B) ==
  /\ w.job = "direct" /\ w.at \in {"reports", "find"} /\ w.todo = <<>>
  /\ Free(B, w.by, w.to) /\ Tuned(C, F, S, B)
Subscribes(w, C, F, S, B) ==
  To(w, {"direct"}, Subscribing(w)) /\ Free(B, w.by, w.to) /\ Tuned(C, F, S, B)
OpensChat(w, C, F, S, B) ==
  /\ To(w, {"direct"}, Opening(w)) /\ Free(B, w.by, w.to) /\ Tuned(C, F, S, B)
  /\ Between(C, {w.by, w.to}) = {}
WithChat(w, C, F, S, B) ==
  /\ Free(B, w.by, w.to) /\ {w.by, w.to} \notin F
  /\ w.chat \in 1..Len(C) /\ InTune(C, F, S, B, w.chat, {}, {})
AddsFirst(w, C, F, S, B) ==
  /\ To(w, {"direct"}, FirstRow(w)) /\ WithChat(w, C, F, S, B)
  /\ Between(C, {w.by, w.to}) = {} /\ IsDirect(C[w.chat]) /\ RowsOf(C[w.chat]) = {}
AddsSecond(w, C, F, S, B) ==
  /\ To(w, {"direct"}, SecondRow(w)) /\ WithChat(w, C, F, S, B)
  /\ Between(C, {w.by, w.to}) = {} /\ IsDirect(C[w.chat])
  /\ RowsOf(C[w.chat]) = {w.by} /\ C[w.chat].member[w.by] = "accepted"
Answers(w, C, F, S, B) ==
  /\ To(w, {"direct"}, Consenting(w)) /\ WithChat(w, C, F, S, B)
  /\ HasRows(C[w.chat], w.by, w.to, "pending", "accepted")
Befriends(w, C, F, S, B) ==
  /\ To(w, {"direct"}, Befriending(w)) /\ WithChat(w, C, F, S, B)
  /\ HasRows(C[w.chat], w.by, w.to, "accepted", "accepted")
Reopens(w, C, F, S, B) ==
  /\ To(w, {"direct"}, Reopening(w)) /\ WithChat(w, C, F, S, B)
  /\ HasRows(C[w.chat], w.by, w.to, "unfriended", "unfriended")
MakesPending(w, C, F, S, B) ==
  /\ To(w, {"direct"}, Awaiting(w)) /\ WithChat(w, C, F, S, B)
  /\ HasRows(C[w.chat], w.by, w.to, "accepted", "unfriended")
AtDirect(w, C, F, S, B) ==
  \/ Inquires(w, C, F, S, B) \/ Subscribes(w, C, F, S, B) \/ OpensChat(w, C, F, S, B)
  \/ AddsFirst(w, C, F, S, B) \/ AddsSecond(w, C, F, S, B) \/ Answers(w, C, F, S, B)
  \/ Befriends(w, C, F, S, B) \/ Reopens(w, C, F, S, B) \/ MakesPending(w, C, F, S, B)

\* A group is founded or joined.
Inviting == <<Invite>>
FoundersRow(w) == <<AddRow(w.by, "accepted"), Invite>>
Founding(w) == <<NewChat("group"), AddRow(w.by, "accepted"), Invite>>
JoinersRow(w, s) == <<AddRow(w.to, s)>>
OfGroup(w, C, F, S, B) ==
  /\ w.by \in Users /\ w.to \in Users /\ Tuned(C, F, S, B)
  /\ w.chat \in 1..Len(C) /\ C[w.chat].type = "group"
Founds(w, C, F, S, B) ==
  To(w, {"group"}, Founding(w)) /\ w.by \in Users /\ w.to \in Users /\ Tuned(C, F, S, B)
AddsFounder(w, C, F, S, B) == To(w, {"group"}, FoundersRow(w)) /\ OfGroup(w, C, F, S, B)
Invites(w, C, F, S, B) == To(w, {"group"}, Inviting) /\ OfGroup(w, C, F, S, B)
LooksUp(w, C, F, S, B) ==
  w.job \in {"group", "add"} /\ w.at = "join" /\ w.todo = <<>> /\ OfGroup(w, C, F, S, B)
AddsJoiner(w, C, F, S, B) ==
  /\ \E s \in {"accepted", "pending"} : To(w, {"group", "add"}, JoinersRow(w, s))
  /\ OfGroup(w, C, F, S, B)
AtGroup(w, C, F, S, B) ==
  \/ Founds(w, C, F, S, B) \/ AddsFounder(w, C, F, S, B) \/ Invites(w, C, F, S, B)
  \/ LooksUp(w, C, F, S, B) \/ AddsJoiner(w, C, F, S, B)

\* A chat was accepted; two who have now both accepted are not yet friends.
BothOf(w, v, C, F, S, B) ==
  /\ v \in Users /\ Free(B, w.by, v) /\ {w.by, v} \notin F
  /\ w.chat \in 1..Len(C) /\ InTune(C, F, S, B, w.chat, {}, {})
  /\ HasRows(C[w.chat], w.by, v, "accepted", "accepted")
Confirming(w, v) == <<Befriend(w.by, v, TRUE)>>
AcceptedGroup(w, C, F, S, B) ==
  /\ w.job = "accept" /\ w.at = "other" /\ w.todo = <<>> /\ w.by \in Users
  /\ w.chat \in 1..Len(C) /\ C[w.chat].type = "group" /\ Tuned(C, F, S, B)
AcceptedChat(w, C, F, S, B) ==
  w.job = "accept" /\ w.at = "other" /\ w.todo = <<>> /\ \E v \in Users : BothOf(w, v, C, F, S, B)
Confirms(w, C, F, S, B) ==
  \E v \in Users : To(w, {"accept"}, Confirming(w, v)) /\ BothOf(w, v, C, F, S, B)
AtAccept(w, C, F, S, B) ==
  AcceptedGroup(w, C, F, S, B) \/ AcceptedChat(w, C, F, S, B) \/ Confirms(w, C, F, S, B)

\* A chat is to end, has ended or is gone.
EndOf(w, v, C, F, S, B) ==
  /\ v \in Users /\ Free(B, w.by, v) /\ Tuned(C, F, S, B)
  /\ w.chat \in 1..Len(C) /\ IsDirect(C[w.chat]) /\ RowsOf(C[w.chat]) = {w.by, v}
  /\ C[w.chat].member[w.by] = "accepted"
ForgettingLast(w, v) == <<Subscribe(v, w.by, FALSE)>>
ForgettingBoth(w, v) == <<Subscribe(w.by, v, FALSE), Subscribe(v, w.by, FALSE)>>
Forgetting(w, v) == <<Befriend(w.by, v, FALSE), Subscribe(w.by, v, FALSE), Subscribe(v, w.by, FALSE)>>
Unfriending(w, v) ==
  <<Become(Users, "unfriended"), Befriend(w.by, v, FALSE), Subscribe(w.by, v, FALSE), Subscribe(v, w.by, FALSE)>>
Unlinking(w, v) == <<Befriend(w.by, v, FALSE)>>
Deleting(w, v) == <<DropChat, Befriend(w.by, v, FALSE)>>
EndsChat(w, C, F, S, B) ==
  /\ w.job \in {"unfriend", "delete"} /\ w.at = "other" /\ w.todo = <<>> /\ Tuned(C, F, S, B)
  /\ w.by \in Users /\ w.chat \in 1..Len(C)
  /\ IsDirect(C[w.chat]) /\ C[w.chat].member[w.by] = "accepted"
Unfriends(w, C, F, S, B) ==
  \E v \in Users : To(w, {"unfriend"}, Unfriending(w, v)) /\ EndOf(w, v, C, F, S, B)
Forgets(w, C, F, S, B) ==
  \E v \in Users :
    /\ To(w, {"unfriend"}, Forgetting(w, v)) /\ Free(B, w.by, v)
    /\ w.chat \in 1..Len(C) /\ InTune(C, F, S, B, w.chat, {w.by, v}, {})
    /\ HasRows(C[w.chat], w.by, v, "unfriended", "unfriended")
ForgetsBoth(w, C, F, S, B) ==
  \E v \in Users :
    To(w, {"unfriend"}, ForgettingBoth(w, v)) /\ Free(B, w.by, v) /\ Tuned(C, F, S, B)
ForgetsLast(w, C, F, S, B) ==
  \E v \in Users :
    To(w, {"unfriend"}, ForgettingLast(w, v)) /\ Free(B, w.by, v) /\ Tuned(C, F, S, B)
Deletes(w, C, F, S, B) ==
  \E v \in Users : To(w, {"delete"}, Deleting(w, v)) /\ EndOf(w, v, C, F, S, B)
Unlinks(w, C, F, S, B) ==
  \E v \in Users :
    /\ To(w, {"delete"}, Unlinking(w, v)) /\ Free(B, w.by, v)
    /\ InTune(C, F, S, B, 0, {w.by, v}, {}) /\ Between(C, {w.by, v}) = {}
AtEnding(w, C, F, S, B) ==
  \/ EndsChat(w, C, F, S, B) \/ Unfriends(w, C, F, S, B) \/ Forgets(w, C, F, S, B)
  \/ ForgetsBoth(w, C, F, S, B) \/ ForgetsLast(w, C, F, S, B)
  \/ Deletes(w, C, F, S, B) \/ Unlinks(w, C, F, S, B)

\* One has left the chat.
ActiveIn(h) == {u \in Users : h.member[u] \in {"pending", "accepted"}}
Abandoned(w, h) ==
  IF w.job = "decline" THEN Cardinality(ActiveIn(h)) <= 1 ELSE ActiveIn(h) = {}
Dropping == <<DropChat>>
LeftOne(w, C, F, S, B) ==
  /\ w.chat \in 1..Len(C)
  /\ \/ C[w.chat].type = "group" /\ Tuned(C, F, S, B)
     \/ /\ w.job = "decline" /\ IsDirect(C[w.chat]) /\ InTune(C, F, S, B, w.chat, {}, {})
        /\ \E v \in Users : RowsOf(C[w.chat]) = {v} /\ C[w.chat].member[v] = "accepted"
Leaves(w, C, F, S, B) ==
  w.job \in {"decline", "remove"} /\ w.at = "count" /\ w.todo = <<>> /\ LeftOne(w, C, F, S, B)
Drops(w, C, F, S, B) ==
  To(w, {"decline", "remove"}, Dropping) /\ LeftOne(w, C, F, S, B) /\ Abandoned(w, C[w.chat])
AtLeaving(w, C, F, S, B) == Leaves(w, C, F, S, B) \/ Drops(w, C, F, S, B)

\* A block: the subscriptions end, then the friendship.
Reporting(w) == IF w.job = "report" THEN <<Report>> ELSE <<>>
LastReport == <<Report>>
BlockingLast(w) == <<Befriend(w.by, w.to, FALSE)>> \o Reporting(w)
BlockingChat(w) == <<Become(Users, "unfriended"), Befriend(w.by, w.to, FALSE)>> \o Reporting(w)
BlockingFind(w) == <<Sever>> \o Reporting(w)
BlockingNext(w) == <<Subscribe(w.to, w.by, FALSE), Sever>> \o Reporting(w)
Blocking(w) == <<Subscribe(w.by, w.to, FALSE), Subscribe(w.to, w.by, FALSE), Sever>> \o Reporting(w)
BlockJobs == {"block", "report"}
BlockOf(w, C, F, S, B) == <<w.by, w.to>> \in Pairs /\ InTune(C, F, S, B, 0, {}, {w.by, w.to})
Silenced(w, S) == <<w.by, w.to>> \notin S /\ <<w.to, w.by>> \notin S
Blocks(w, C, F, S, B) == To(w, BlockJobs, Blocking(w)) /\ BlockOf(w, C, F, S, B)
BlocksNext(w, C, F, S, B) ==
  To(w, BlockJobs, BlockingNext(w)) /\ BlockOf(w, C, F, S, B) /\ <<w.by, w.to>> \notin S
BlocksFind(w, C, F, S, B) == To(w, BlockJobs, BlockingFind(w)) /\ BlockOf(w, C, F, S, B) /\ Silenced(w, S)
BlocksChat(w, C, F, S, B) ==
  /\ To(w, BlockJobs, BlockingChat(w)) /\ BlockOf(w, C, F, S, B) /\ Silenced(w, S)
  /\ w.chat \in 1..Len(C) /\ IsDirect(C[w.chat]) /\ RowsOf(C[w.chat]) = {w.by, w.to}
BlocksLast(w, C, F, S, B) ==
  /\ To(w, BlockJobs, BlockingLast(w)) /\ <<w.by, w.to>> \in Pairs /\ Silenced(w, S)
  /\ w.chat \in 1..Len(C) /\ InTune(C, F, S, B, w.chat, {w.by, w.to}, {w.by, w.to})
  /\ HasRows(C[w.chat], w.by, w.to, "unfriended", "unfriended")
ReportsLast(w, C, F, S, B) ==
  To(w, {"report"}, LastReport) /\ w.to \in Users /\ Tuned(C, F, S, B)
AtBlock(w, C, F, S, B) ==
  \/ Blocks(w, C, F, S, B) \/ BlocksNext(w, C, F, S, B) \/ BlocksFind(w, C, F, S, B)
  \/ BlocksChat(w, C, F, S, B) \/ BlocksLast(w, C, F, S, B) \/ ReportsLast(w, C, F, S, B)

Rests(w, C, F, S, B) == w = Idle /\ Tuned(C, F, S, B)
AtWork(w, C, F, S, B) ==
  \/ Rests(w, C, F, S, B)
  \/ AtDirect(w, C, F, S, B) \/ AtGroup(w, C, F, S, B) \/ AtAccept(w, C, F, S, B)
  \/ AtEnding(w, C, F, S, B) \/ AtLeaving(w, C, F, S, B) \/ AtBlock(w, C, F, S, B)

(* What a handler's record is made of, and the invariant.                   *)
HandlerShaped(w) ==
  w = [at |-> w.at, job |-> w.job, by |-> w.by, to |-> w.to, chat |-> w.chat, todo |-> w.todo]
OneWorks(x) == \A y \in Handlers \ {x} : handler[y] = Idle
ChatsIInv ==
  calm =>
    /\ TablesTyped(chats, friends, subscribed, blocks, reported) /\ asked \in 0..MaxAsked
    /\ DOMAIN handler = Handlers /\ \A x \in Handlers : HandlerShaped(handler[x])
    /\ \/ /\ \A x \in Handlers : handler[x] = Idle
          /\ Tuned(chats, friends, subscribed, blocks)
       \/ \E x \in Handlers :
            OneWorks(x) /\ AtWork(handler[x], chats, friends, subscribed, blocks)

-----------------------------------------------------------------------------
(* What one chat's row set says of the whole.                               *)
Replaced(C, k, h) == [C EXCEPT ![k] = h]

ButOne(D, C, k, h) ==
  /\ D \in Seq(ChatRec) /\ Len(D) = Len(C)
  /\ D[k] = h /\ \A i \in 1..Len(C) : i # k => D[i] = C[i]
LEMMA ReplacedChats ==
  ASSUME NEW C \in Seq(ChatRec), NEW k \in 1..Len(C), NEW h \in ChatRec
  PROVE  ButOne(Replaced(C, k, h), C, k, h)
  BY DEF Replaced, ButOne

LEMMA ReplacedBetween ==
  ASSUME NEW C \in Seq(ChatRec), NEW k \in 1..Len(C), NEW h \in ChatRec, NEW q
  PROVE  /\ \A i : i # k => (i \in Between(Replaced(C, k, h), q) <=> i \in Between(C, q))
         /\ k \in Between(Replaced(C, k, h), q) <=> IsDirect(h) /\ q \subseteq RowsOf(h)
         /\ k \in Between(C, q) <=> IsDirect(C[k]) /\ q \subseteq RowsOf(C[k])
<1> DEFINE D == Replaced(C, k, h)
<1>1. ButOne(D, C, k, h)
  BY ReplacedChats
<1> HIDE DEF D
<1> QED BY <1>1 DEF Between, ButOne, D

(* A chat changes hands between handlers' steps.                            *)
LEMMA TuneOpens ==
  ASSUME NEW C, NEW F, NEW S, NEW B, NEW k, NEW q, NEW r, InTune(C, F, S, B, 0, q, r)
  PROVE  InTune(C, F, S, B, k, q, r)
<1>1. AllStand(C, F, k)
  <2> SUFFICES ASSUME NEW i \in 1..Len(C), IsDirect(C[i]) PROVE Standing(C[i], F)
    BY DEF AllStand
  <2> QED BY DEF InTune, AllStand
<1> QED BY <1>1 DEF InTune

LEMMA TuneCloses ==
  ASSUME NEW C, NEW F, NEW S, NEW B, NEW k, NEW q, NEW r, InTune(C, F, S, B, k, q, r),
         k \in 1..Len(C) /\ IsDirect(C[k]) => Standing(C[k], F)
  PROVE  InTune(C, F, S, B, 0, q, r)
<1>1. AllStand(C, F, 0)
  BY DEF AllStand, InTune
<1> QED BY <1>1 DEF InTune

LEMMA TuneReplaced ==
  ASSUME NEW C \in Seq(ChatRec), NEW k \in 1..Len(C), NEW h \in ChatRec,
         NEW F, F \subseteq UserPairs, NEW S, NEW B, B \subseteq Pairs, NEW e \in {0, k}, NEW q, NEW r,
         InTune(C, F, S, B, e, q, r),
         \A f \in UserPairs : IsDirect(h) /\ f \subseteq RowsOf(h) => k \in Between(C, f),
         \A f \in F \ {q} : k \in Between(C, f) => IsDirect(h) /\ f \subseteq RowsOf(h),
         \A p \in B : {p[1], p[2]} # r => ~(IsDirect(h) /\ {p[1], p[2]} \subseteq RowsOf(h))
  PROVE  InTune(Replaced(C, k, h), F, S, B, k, q, r)
<1> DEFINE D == Replaced(C, k, h)
<1>0. ButOne(D, C, k, h)
  BY ReplacedChats, Zenon
<1>2. \A f : /\ \A i : i # k => (i \in Between(D, f) <=> i \in Between(C, f))
             /\ k \in Between(D, f) <=> IsDirect(h) /\ f \subseteq RowsOf(h)
  BY ReplacedBetween
<1> HIDE DEF D
<1>1. Len(D) = Len(C) /\ \A i \in 1..Len(C) : i # k => D[i] = C[i]
  BY <1>0 DEF ButOne
<1>3. AllStand(D, F, k)
  <2> SUFFICES ASSUME NEW i \in 1..Len(D), IsDirect(D[i]), i # k PROVE Standing(D[i], F)
    BY DEF AllStand
  <2>1. i \in 1..Len(C) /\ D[i] = C[i] /\ i # e
    BY <1>1
  <2> QED BY <2>1 DEF InTune, AllStand
<1>4. NoneTwice(D)
  <2> SUFFICES ASSUME NEW f \in UserPairs, NEW i \in Between(D, f), NEW j \in Between(D, f) PROVE i = j
    BY DEF NoneTwice
  <2>1. i \in Between(C, f) /\ j \in Between(C, f)
    BY <1>2
  <2> QED BY <2>1 DEF InTune, NoneTwice
<1>5. FriendsHaveChats(D, F, q)
  <2> SUFFICES ASSUME NEW f \in F, f # q PROVE Between(D, f) # {}
    BY DEF FriendsHaveChats
  <2>1. PICK i : i \in Between(C, f)
    BY DEF InTune, FriendsHaveChats
  <2> QED BY <1>2, <2>1
<1>6. BlockedArePart(D, F, S, B, r)
  <2> SUFFICES ASSUME NEW p \in B, {p[1], p[2]} # r PROVE Parted(D, F, S, B, p[1], p[2])
    BY DEF BlockedArePart
  <2>1. Parted(C, F, S, B, p[1], p[2])
    BY DEF InTune, BlockedArePart
  <2>2. ASSUME NEW i \in Between(D, {p[1], p[2]}) PROVE HasRows(D[i], p[1], p[2], "unfriended", "unfriended")
    <3>1. i # k /\ i \in Between(C, {p[1], p[2]}) /\ i \in 1..Len(C)
      BY <1>2, <1>1, <2>2 DEF Between
    <3> QED BY <1>1, <2>1, <3>1 DEF Parted
  <2> QED BY <2>1, <2>2 DEF Parted
<1> QED BY <1>3, <1>4, <1>5, <1>6 DEF InTune, D

(* Rows change their status, and the chat stays the two's.                  *)
LEMMA TuneRestated ==
  ASSUME NEW C \in Seq(ChatRec), NEW k \in 1..Len(C), NEW h \in ChatRec,
         NEW F, F \subseteq UserPairs, NEW S, NEW B, B \subseteq Pairs, NEW e \in {0, k}, NEW q, NEW r,
         InTune(C, F, S, B, e, q, r), NEW u \in Users, NEW v \in Users,
         IsDirect(C[k]), IsDirect(h), RowsOf(C[k]) = {u, v}, RowsOf(h) = {u, v},
         Free(B, u, v) \/ r = {u, v}
  PROVE  InTune(Replaced(C, k, h), F, S, B, k, q, r)
<1>1. \A f : k \in Between(C, f) <=> f \subseteq RowsOf(h)
  BY DEF Between
<1>2. ASSUME NEW p \in B, {p[1], p[2]} # r PROVE ~({p[1], p[2]} \subseteq RowsOf(h))
  <2>1. p \in Users \X Users /\ p = <<p[1], p[2]>> /\ p[1] # p[2]
    BY DEF Pairs
  <2>2. ASSUME {p[1], p[2]} \subseteq {u, v} PROVE FALSE
    <3>1. {p[1], p[2]} = {u, v} /\ (p = <<u, v>> \/ p = <<v, u>>)
      BY <2>1, <2>2
    <3> QED BY <3>1, <1>2 DEF Free
  <2> QED BY <2>2
<1> QED BY <1>1, <1>2, TuneReplaced

(* A group, or a chat with less than two rows, is nobody's direct chat.     *)
Loose(h) == IsDirect(h) => \E u : RowsOf(h) \subseteq {u}
LEMMA LooseHoldsNoPair ==
  ASSUME NEW h, Loose(h), IsDirect(h), NEW f \in UserPairs, f \subseteq RowsOf(h)
  PROVE  FALSE
<1>1. PICK p \in Pairs : f = {p[1], p[2]}
  BY DEF UserPairs
<1> QED BY <1>1 DEF Loose, Pairs

LEMMA TuneLoose ==
  ASSUME NEW C \in Seq(ChatRec), NEW k \in 1..Len(C), NEW h \in ChatRec,
         NEW F, F \subseteq UserPairs, NEW S, NEW B, B \subseteq Pairs, NEW e \in {0, k}, NEW q, NEW r,
         InTune(C, F, S, B, e, q, r), Loose(h), \A f \in F \ {q} : k \notin Between(C, f)
  PROVE  InTune(Replaced(C, k, h), F, S, B, k, q, r)
<1>1. \A f \in UserPairs : ~(IsDirect(h) /\ f \subseteq RowsOf(h))
  BY LooseHoldsNoPair
<1>2. \A p \in B : {p[1], p[2]} \in UserPairs
  BY DEF UserPairs
<1> QED BY <1>1, <1>2, TuneReplaced

(* A deleted chat.                                                          *)
LEMMA TuneDropped ==
  ASSUME NEW C \in Seq(ChatRec), NEW k \in 1..Len(C), NEW h \in ChatRec,
         NEW F, F \subseteq UserPairs, NEW S, NEW B, B \subseteq Pairs, NEW e \in {0, k}, NEW q, NEW r,
         InTune(C, F, S, B, e, q, r), h.gone, \A f \in F \ {q} : k \notin Between(C, f)
  PROVE  InTune(Replaced(C, k, h), F, S, B, 0, q, r)
<1>1. ~IsDirect(h) /\ Loose(h)
  BY DEF IsDirect, Loose
<1>2. InTune(Replaced(C, k, h), F, S, B, k, q, r)
  BY <1>1, TuneLoose
<1>3. ButOne(Replaced(C, k, h), C, k, h)
  BY ReplacedChats, Zenon
<1>4. ~IsDirect(Replaced(C, k, h)[k])
  BY <1>1, <1>3 DEF ButOne, IsDirect
<1> QED BY <1>2, <1>4, TuneCloses

LEMMA TuneGroup ==
  ASSUME NEW C \in Seq(ChatRec), NEW k \in 1..Len(C), NEW h \in ChatRec,
         NEW F, F \subseteq UserPairs, NEW S, NEW B, B \subseteq Pairs, NEW q, NEW r,
         InTune(C, F, S, B, 0, q, r), C[k].type = "group", h.type = "group"
  PROVE  InTune(Replaced(C, k, h), F, S, B, 0, q, r)
<1>1. ~IsDirect(h) /\ Loose(h) /\ \A f : k \notin Between(C, f)
  BY DEF IsDirect, Loose, Between
<1>2. InTune(Replaced(C, k, h), F, S, B, k, q, r)
  BY <1>1, TuneLoose
<1>3. ButOne(Replaced(C, k, h), C, k, h)
  BY ReplacedChats, Zenon
<1>4. ~IsDirect(Replaced(C, k, h)[k])
  BY <1>1, <1>3 DEF ButOne, IsDirect
<1> QED BY <1>2, <1>4, TuneCloses

(* A new chat has no rows yet.                                              *)
LEMMA TuneAppended ==
  ASSUME NEW C \in Seq(ChatRec), NEW h \in ChatRec, RowsOf(h) = {},
         NEW F, F \subseteq UserPairs, NEW S, NEW B, B \subseteq Pairs, InTune(C, F, S, B, 0, {}, {})
  PROVE  /\ InTune(Append(C, h), F, S, B, Len(C) + 1, {}, {})
         /\ \A f \in UserPairs : Between(Append(C, h), f) = Between(C, f)
<1> DEFINE D == Append(C, h)
<1>1. Len(D) = Len(C) + 1 /\ D[Len(C) + 1] = h /\ \A i \in 1..Len(C) : D[i] = C[i]
  OBVIOUS
<1>2. Len(C) \in Nat
  OBVIOUS
<1> HIDE DEF D
<1>3. ASSUME NEW f \in UserPairs PROVE Between(D, f) = Between(C, f)
  <2>1. Loose(h)
    BY DEF Loose
  <2>2. ~(IsDirect(h) /\ f \subseteq RowsOf(h))
    BY <2>1, LooseHoldsNoPair
  <2> QED BY <1>1, <1>2, <2>2 DEF Between
<1>4. AllStand(D, F, Len(C) + 1)
  <2> SUFFICES ASSUME NEW i \in 1..Len(D), IsDirect(D[i]), i # Len(C) + 1 PROVE Standing(D[i], F)
    BY DEF AllStand
  <2>1. i \in 1..Len(C) /\ D[i] = C[i] /\ i # 0
    BY <1>1, <1>2
  <2> QED BY <2>1 DEF InTune, AllStand
<1>5. NoneTwice(D)
  BY <1>3 DEF NoneTwice, InTune
<1>6. FriendsHaveChats(D, F, {})
  BY <1>3 DEF FriendsHaveChats, InTune
<1>7. BlockedArePart(D, F, S, B, {})
  <2> SUFFICES ASSUME NEW p \in B, {p[1], p[2]} # {} PROVE Parted(D, F, S, B, p[1], p[2])
    BY DEF BlockedArePart
  <2>1. Parted(C, F, S, B, p[1], p[2])
    BY DEF InTune, BlockedArePart
  <2>2. Between(D, {p[1], p[2]}) = Between(C, {p[1], p[2]})
    BY <1>3 DEF UserPairs
  <2>3. \A i \in Between(C, {p[1], p[2]}) : D[i] = C[i]
    BY <1>1 DEF Between
  <2> QED BY <2>1, <2>2, <2>3 DEF Parted
<1> QED BY <1>3, <1>4, <1>5, <1>6, <1>7 DEF InTune, D

(* The second row of a direct chat makes it the two's.                      *)
LEMMA TunePaired ==
  ASSUME NEW C \in Seq(ChatRec), NEW k \in 1..Len(C), NEW h \in ChatRec,
         NEW F, F \subseteq UserPairs, NEW S, NEW B, B \subseteq Pairs,
         InTune(C, F, S, B, k, {}, {}), NEW u \in Users, NEW v \in Users, Free(B, u, v), {u, v} \notin F,
         Loose(C[k]), Between(C, {u, v}) = {}, HasRows(h, u, v, "accepted", "pending")
  PROVE  InTune(Replaced(C, k, h), F, S, B, 0, {}, {})
<1> DEFINE D == Replaced(C, k, h)
<1>0. ButOne(D, C, k, h)
  BY ReplacedChats, Zenon
<1>2. \A f : /\ \A i : i # k => (i \in Between(D, f) <=> i \in Between(C, f))
             /\ k \in Between(D, f) <=> IsDirect(h) /\ f \subseteq RowsOf(h)
             /\ k \in Between(C, f) <=> IsDirect(C[k]) /\ f \subseteq RowsOf(C[k])
  BY ReplacedBetween
<1>3. \A f \in UserPairs : k \notin Between(C, f)
  BY <1>2, LooseHoldsNoPair
<1>4. ASSUME NEW f \in UserPairs, f \subseteq RowsOf(h) PROVE f = {u, v}
  <2>1. PICK p \in Pairs : f = {p[1], p[2]}
    BY DEF UserPairs
  <2> QED BY <2>1, <1>4 DEF Pairs, HasRows
<1>5. <<u, v>> \in Pairs /\ {u, v} \in UserPairs
  BY DEF Free, UserPairs
<1> HIDE DEF D
<1>1. Len(D) = Len(C) /\ D[k] = h /\ \A i \in 1..Len(C) : i # k => D[i] = C[i]
  BY <1>0 DEF ButOne
<1>6. AllStand(D, F, 0)
  <2> SUFFICES ASSUME NEW i \in 1..Len(D), IsDirect(D[i]) PROVE Standing(D[i], F)
    BY DEF AllStand
  <2>1. CASE i = k
    <3>1. D[i] = h
      BY <1>1, <2>1
    <3> QED BY <3>1, <1>5 DEF Standing
  <2>2. CASE i # k
    <3>1. i \in 1..Len(C) /\ D[i] = C[i]
      BY <1>1, <2>2
    <3> QED BY <3>1, <2>2 DEF InTune, AllStand
  <2> QED BY <2>1, <2>2
<1>7. NoneTwice(D)
  <2> SUFFICES ASSUME NEW f \in UserPairs, NEW i \in Between(D, f), NEW j \in Between(D, f) PROVE i = j
    BY DEF NoneTwice
  <2>1. CASE f = {u, v}
    BY <1>2, <2>1
  <2>2. CASE f # {u, v}
    <3>1. i # k /\ j # k
      BY <1>2, <1>4, <2>2
    <3>2. i \in Between(C, f) /\ j \in Between(C, f)
      BY <1>2, <3>1
    <3> QED BY <3>2 DEF NoneTwice, InTune
  <2> QED BY <2>1, <2>2
<1>8. FriendsHaveChats(D, F, {})
  <2> SUFFICES ASSUME NEW f \in F, f # {} PROVE Between(D, f) # {}
    BY DEF FriendsHaveChats
  <2>1. PICK i : i \in Between(C, f)
    BY DEF InTune, FriendsHaveChats
  <2>2. i # k
    BY <1>3, <2>1
  <2> QED BY <1>2, <2>1, <2>2
<1>9. BlockedArePart(D, F, S, B, {})
  <2> SUFFICES ASSUME NEW p \in B, {p[1], p[2]} # {} PROVE Parted(D, F, S, B, p[1], p[2])
    BY DEF BlockedArePart
  <2>1. Parted(C, F, S, B, p[1], p[2])
    BY DEF InTune, BlockedArePart
  <2>2. {p[1], p[2]} # {u, v}
    <3>1. p \in Users \X Users /\ p = <<p[1], p[2]>> /\ p[1] # p[2]
      BY DEF Pairs
    <3>2. p # <<u, v>> /\ p # <<v, u>>
      BY DEF Free
    <3> QED BY <3>1, <3>2
  <2>3. {p[1], p[2]} \in UserPairs
    BY DEF UserPairs
  <2>4. ASSUME NEW i \in Between(D, {p[1], p[2]}) PROVE HasRows(D[i], p[1], p[2], "unfriended", "unfriended")
    <3>1. i # k
      <4> SUFFICES ASSUME i = k PROVE FALSE
        OBVIOUS
      <4>1. {p[1], p[2]} \subseteq RowsOf(h)
        BY <1>2, <2>4
      <4> QED BY <1>4, <2>2, <2>3, <4>1
    <3>2. i \in Between(C, {p[1], p[2]}) /\ i \in 1..Len(C)
      BY <1>2, <3>1, <2>4 DEF Between
    <3> QED BY <1>1, <2>1, <3>1, <3>2 DEF Parted
  <2> QED BY <2>1, <2>4 DEF Parted
<1> QED BY <1>6, <1>7, <1>8, <1>9 DEF InTune, D

(* A chat's pair is one pair.                                               *)
LEMMA PairOf ==
  ASSUME NEW u \in Users, NEW v \in Users, NEW p \in Pairs, {p[1], p[2]} = {u, v}
  PROVE  p = <<u, v>> \/ p = <<v, u>>
<1>1. p \in Users \X Users /\ p = <<p[1], p[2]>> /\ p[1] # p[2]
  BY DEF Pairs
<1> QED BY <1>1

(* What is in tune stays so when a friendship begins or ends with the chat  *)
(* of the two, or without one.                                              *)
FitsPair(C, F, k, u, v) ==
  IF k = 0 THEN {u, v} \notin F /\ Between(C, {u, v}) = {}
  ELSE /\ k \in 1..Len(C) /\ IsDirect(C[k]) /\ RowsOf(C[k]) = {u, v}
       /\ Standing(C[k], F)
LEMMA TuneBefriended ==
  ASSUME NEW C \in Seq(ChatRec), NEW F, F \subseteq UserPairs, NEW G, NEW S, NEW B, B \subseteq Pairs,
         NEW k, NEW r, NEW u \in Users, NEW v \in Users, <<u, v>> \in Pairs,
         G \subseteq UserPairs, \A f : f # {u, v} => (f \in F <=> f \in G),
         InTune(C, F, S, B, k, {}, r) \/ InTune(C, F, S, B, k, {u, v}, r), FitsPair(C, G, k, u, v),
         \/ Free(B, u, v) /\ r = {}
         \/ r = {u, v} /\ Parted(C, G, S, B, u, v)
  PROVE  InTune(C, G, S, B, 0, {}, {})
<1>1. {u, v} \in UserPairs
  BY DEF UserPairs
<1>2. AllStand(C, F, k) /\ NoneTwice(C)
  BY DEF InTune
<1>3. AllStand(C, G, 0)
  <2> SUFFICES ASSUME NEW i \in 1..Len(C), IsDirect(C[i]) PROVE Standing(C[i], G)
    BY DEF AllStand
  <2>1. CASE i = k
    BY <2>1 DEF FitsPair
  <2>2. CASE i # k
    <3>1. Standing(C[i], F)
      BY <1>2, <2>2 DEF AllStand
    <3>2. ASSUME RowsOf(C[i]) = {u, v} PROVE FALSE
      <4>1. i \in Between(C, {u, v})
        BY <3>2 DEF Between
      <4>2. k # 0 /\ k \in Between(C, {u, v})
        BY <4>1 DEF FitsPair, Between
      <4> QED BY <1>1, <1>2, <2>2, <4>1, <4>2 DEF NoneTwice
    <3>3. PICK p \in Pairs :
            \/ {p[1], p[2]} \in F /\ HasRows(C[i], p[1], p[2], "accepted", "accepted")
            \/ {p[1], p[2]} \notin F /\ HasRows(C[i], p[1], p[2], "accepted", "pending")
            \/ {p[1], p[2]} \notin F /\ HasRows(C[i], p[1], p[2], "unfriended", "unfriended")
      BY <3>1 DEF Standing
    <3>4. {p[1], p[2]} # {u, v}
      BY <3>2, <3>3 DEF HasRows
    <3>5. {p[1], p[2]} \in F <=> {p[1], p[2]} \in G
      BY <3>4
    <3> QED BY <3>3, <3>5 DEF Standing
  <2> QED BY <2>1, <2>2
<1>4. FriendsHaveChats(C, G, {})
  <2> SUFFICES ASSUME NEW f \in G PROVE Between(C, f) # {}
    BY DEF FriendsHaveChats
  <2>1. CASE f = {u, v}
    BY <2>1 DEF FitsPair, Between
  <2>2. CASE f # {u, v}
    <3>1. f \in F /\ f # {}
      BY <2>2 DEF UserPairs
    <3> QED BY <3>1, <2>2 DEF InTune, FriendsHaveChats
  <2> QED BY <2>1, <2>2
<1>5. BlockedArePart(C, G, S, B, {})
  <2> SUFFICES ASSUME NEW p \in B PROVE Parted(C, G, S, B, p[1], p[2])
    BY DEF BlockedArePart
  <2>0. p \in Pairs
    OBVIOUS
  <2>1. CASE {p[1], p[2]} = {u, v}
    <3>1. p = <<u, v>> \/ p = <<v, u>>
      BY <2>0, <2>1, PairOf
    <3>2. r = {u, v} /\ Parted(C, G, S, B, u, v)
      BY <1>1, <3>1 DEF Free
    <3>3. Parted(C, G, S, B, v, u)
      <4>1. {v, u} = {u, v}
        OBVIOUS
      <4> QED BY <3>2, <4>1 DEF Parted, HasRows
    <3> QED BY <3>1, <3>2, <3>3
  <2>2. CASE {p[1], p[2]} # {u, v}
    <3>1. {p[1], p[2]} # r
      BY <2>2, <2>0 DEF Pairs
    <3>2. Parted(C, F, S, B, p[1], p[2])
      BY <3>1 DEF InTune, BlockedArePart
    <3> QED BY <3>2, <2>2 DEF Parted
  <2> QED BY <2>1, <2>2
<1> QED BY <1>2, <1>3, <1>4, <1>5 DEF InTune

(* Subscriptions are those of users who have not blocked each other.        *)
LEMMA TuneSubscribed ==
  ASSUME NEW C, NEW F, NEW S, NEW B, B \subseteq Pairs, NEW k, NEW q, NEW r, InTune(C, F, S, B, k, q, r),
         NEW T, NEW u, NEW v, T \subseteq S \/ (T \subseteq S \cup {<<u, v>>} /\ Free(B, u, v))
  PROVE  InTune(C, F, T, B, k, q, r)
<1> SUFFICES ASSUME NEW p \in B, {p[1], p[2]} # r PROVE Parted(C, F, T, B, p[1], p[2])
  BY DEF InTune, BlockedArePart
<1>1. Parted(C, F, S, B, p[1], p[2])
  BY DEF InTune, BlockedArePart
<1>2. p = <<p[1], p[2]>> /\ p \in B
  BY DEF Pairs
<1>3. Free(B, u, v) => <<p[1], p[2]>> # <<u, v>> /\ <<p[2], p[1]>> # <<u, v>>
  BY <1>2 DEF Free
<1> QED BY <1>1, <1>3 DEF Parted

(* A block begins or ends.                                                  *)
LEMMA TuneUnblocked ==
  ASSUME NEW C, NEW F, NEW S, NEW B, NEW k, NEW q, NEW r, InTune(C, F, S, B, k, q, r), NEW D, D \subseteq B
  PROVE  InTune(C, F, S, D, k, q, r)
  BY DEF InTune, BlockedArePart, Parted

LEMMA TuneBlocked ==
  ASSUME NEW C, NEW F, NEW S, NEW B, NEW k, NEW q, InTune(C, F, S, B, k, q, {}),
         NEW u, NEW v, B \subseteq Pairs
  PROVE  InTune(C, F, S, B \cup {<<u, v>>}, k, q, {u, v})
<1> SUFFICES ASSUME NEW p \in B, {p[1], p[2]} # {u, v} PROVE Parted(C, F, S, B \cup {<<u, v>>}, p[1], p[2])
  BY DEF InTune, BlockedArePart
<1>1. {p[1], p[2]} # {}
  OBVIOUS
<1> QED BY <1>1 DEF InTune, BlockedArePart, Parted

(* A chat both accept, one that an ended friendship left, and one asked for.*)
LEMMA StandingOf ==
  ASSUME NEW h, NEW F, NEW u, NEW v, <<u, v>> \in Pairs, IsDirect(h), RowsOf(h) = {u, v}
  PROVE  /\ {u, v} \in F /\ HasRows(h, u, v, "accepted", "accepted") => Standing(h, F)
         /\ {u, v} \notin F /\ HasRows(h, u, v, "accepted", "pending") => Standing(h, F)
         /\ {u, v} \notin F /\ HasRows(h, u, v, "unfriended", "unfriended") => Standing(h, F)
  BY DEF Standing

(* What an accepted, a pending and an ended row say of the other.           *)
OneOfTwo(h, F, u) ==
  \E v \in Users :
    /\ <<u, v>> \in Pairs /\ RowsOf(h) = {u, v}
    /\ \/ {u, v} \in F /\ HasRows(h, u, v, "accepted", "accepted")
       \/ {u, v} \notin F /\ \/ HasRows(h, u, v, "accepted", "pending")
                             \/ HasRows(h, u, v, "pending", "accepted")
                             \/ HasRows(h, u, v, "unfriended", "unfriended")
LEMMA StandingOne ==
  ASSUME NEW h, NEW F, Standing(h, F), NEW u \in RowsOf(h)
  PROVE  OneOfTwo(h, F, u)
<1>1. PICK p \in Pairs :
        \/ {p[1], p[2]} \in F /\ HasRows(h, p[1], p[2], "accepted", "accepted")
        \/ {p[1], p[2]} \notin F /\ HasRows(h, p[1], p[2], "accepted", "pending")
        \/ {p[1], p[2]} \notin F /\ HasRows(h, p[1], p[2], "unfriended", "unfriended")
  BY DEF Standing
<1>2. p[1] \in Users /\ p[2] \in Users /\ p[1] # p[2] /\ <<p[1], p[2]>> \in Pairs /\ <<p[2], p[1]>> \in Pairs
  BY DEF Pairs
<1>3. RowsOf(h) = {p[1], p[2]}
  BY <1>1 DEF HasRows
<1>4. CASE u = p[1]
  BY <1>1, <1>2, <1>3, <1>4 DEF OneOfTwo
<1>5. CASE u = p[2]
  <2>1. {p[2], p[1]} = {p[1], p[2]}
    OBVIOUS
  <2>2. \A s, t : HasRows(h, p[1], p[2], s, t) => HasRows(h, p[2], p[1], t, s)
    BY <2>1 DEF HasRows
  <2> QED BY <1>1, <1>2, <1>3, <1>5, <2>1, <2>2 DEF OneOfTwo
<1> QED BY <1>3, <1>4, <1>5

(* Two of whom one has accepted, or been asked for, have not blocked        *)
(* each other.                                                              *)
LEMMA NeitherBlocks ==
  ASSUME NEW C, NEW F, NEW S, NEW B, Tuned(C, F, S, B), NEW k \in 1..Len(C), NEW u, NEW v,
         <<u, v>> \in Pairs, IsDirect(C[k]), RowsOf(C[k]) = {u, v}, C[k].member[u] # "unfriended"
  PROVE  Free(B, u, v)
<1>1. k \in Between(C, {u, v}) /\ {v, u} = {u, v}
  BY DEF Between
<1>2. ~HasRows(C[k], u, v, "unfriended", "unfriended") /\ ~HasRows(C[k], v, u, "unfriended", "unfriended")
  BY DEF HasRows
<1>3. \A p \in B : Parted(C, F, S, B, p[1], p[2])
  <2>1. \A p : {p[1], p[2]} # {}
    OBVIOUS
  <2> QED BY <2>1 DEF Tuned, InTune, BlockedArePart
<1>4. <<u, v>> \notin B
  <2> SUFFICES ASSUME <<u, v>> \in B PROVE FALSE
    OBVIOUS
  <2>1. Parted(C, F, S, B, u, v)
    BY <1>3
  <2> QED BY <1>1, <1>2, <2>1 DEF Parted
<1>5. <<v, u>> \notin B
  <2> SUFFICES ASSUME <<v, u>> \in B PROVE FALSE
    OBVIOUS
  <2>1. Parted(C, F, S, B, v, u)
    BY <1>3
  <2> QED BY <1>1, <1>2, <2>1 DEF Parted
<1> QED BY <1>4, <1>5 DEF Free

-----------------------------------------------------------------------------
(* What is left to do is a short list.                                      *)
Begins(list, s, rest) == list # <<>> /\ Head(list) = s /\ Tail(list) = rest
LEMMA ListsBegin ==
  ASSUME NEW s, NEW t, NEW n, NEW m
  PROVE  /\ Begins(<<s>>, s, <<>>)
         /\ Begins(<<s, t>>, s, <<t>>)
         /\ Begins(<<s, t, n>>, s, <<t, n>>)
         /\ Begins(<<s, t, n, m>>, s, <<t, n, m>>)
  BY DEF Begins
LEMMA ListJoined ==
  ASSUME NEW M, NEW s \in Seq(M), NEW t \in Seq(M), NEW z \in Seq(M), Len(z) = Len(s) + Len(t),
         \A i \in 1..Len(s) : z[i] = s[i], \A i \in 1..Len(t) : z[Len(s) + i] = t[i]
  PROVE  s \o t = z
<1> DEFINE y == s \o t
<1>1. y \in Seq(M) /\ Len(y) = Len(s) + Len(t)
  BY ConcatProperties
<1>2. \A i \in 1..Len(s) + Len(t) : y[i] = IF i <= Len(s) THEN s[i] ELSE t[i - Len(s)]
  BY ConcatProperties
<1> HIDE DEF y
<1>3. Len(s) \in Nat /\ Len(t) \in Nat
  OBVIOUS
<1>4. ASSUME NEW i \in 1..Len(y) PROVE y[i] = z[i]
  <2>1. CASE i <= Len(s)
    BY <1>1, <1>2, <1>3, <2>1
  <2>2. CASE ~(i <= Len(s))
    <3>1. PICK j \in 1..Len(t) : j = i - Len(s)
      BY <1>1, <1>3, <2>2
    <3>2. i = Len(s) + j
      BY <1>3, <3>1
    <3> QED BY <1>1, <1>2, <1>3, <2>2, <3>1, <3>2
  <2> QED BY <2>1, <2>2
<1> QED BY <1>1, <1>4, SeqEqual DEF y

LEMMA NothingJoined ==
  ASSUME NEW s, NEW t, NEW n
  PROVE  <<s>> \o <<>> = <<s>> /\ <<s, t>> \o <<>> = <<s, t>> /\ <<s, t, n>> \o <<>> = <<s, t, n>>
<1> DEFINE M == {s, t, n}
<1>1. <<s>> \in Seq(M) /\ <<s, t>> \in Seq(M) /\ <<s, t, n>> \in Seq(M)
  OBVIOUS
<1> HIDE DEF M
<1> QED BY <1>1

LEMMA OneJoined ==
  ASSUME NEW s, NEW m
  PROVE  <<s>> \o <<m>> = <<s, m>>
<1> DEFINE M == {s, m}
<1>1. <<s>> \in Seq(M) /\ <<m>> \in Seq(M) /\ <<s, m>> \in Seq(M)
  OBVIOUS
<1> HIDE DEF M
<1>2. Len(<<s, m>>) = Len(<<s>>) + Len(<<m>>)
  OBVIOUS
<1>3. \A i \in 1..Len(<<s>>) : <<s, m>>[i] = <<s>>[i]
  OBVIOUS
<1>4. \A i \in 1..Len(<<m>>) : <<s, m>>[Len(<<s>>) + i] = <<m>>[i]
  OBVIOUS
<1> QED BY <1>1, <1>2, <1>3, <1>4, ListJoined, Zenon

LEMMA TwoJoined ==
  ASSUME NEW s, NEW t, NEW m
  PROVE  <<s, t>> \o <<m>> = <<s, t, m>>
<1> DEFINE M == {s, t, m}
<1>1. <<s, t>> \in Seq(M) /\ <<m>> \in Seq(M) /\ <<s, t, m>> \in Seq(M)
  OBVIOUS
<1> HIDE DEF M
<1>2. Len(<<s, t, m>>) = Len(<<s, t>>) + Len(<<m>>)
  OBVIOUS
<1>3. \A i \in 1..Len(<<s, t>>) : <<s, t, m>>[i] = <<s, t>>[i]
  OBVIOUS
<1>4. \A i \in 1..Len(<<m>>) : <<s, t, m>>[Len(<<s, t>>) + i] = <<m>>[i]
  OBVIOUS
<1> QED BY <1>1, <1>2, <1>3, <1>4, ListJoined, Zenon

LEMMA ThreeJoined ==
  ASSUME NEW s, NEW t, NEW n, NEW m
  PROVE  <<s, t, n>> \o <<m>> = <<s, t, n, m>>
<1> DEFINE M == {s, t, n, m}
<1>1. <<s, t, n>> \in Seq(M) /\ <<m>> \in Seq(M) /\ <<s, t, n, m>> \in Seq(M)
  OBVIOUS
<1> HIDE DEF M
<1>2. Len(<<s, t, n, m>>) = Len(<<s, t, n>>) + Len(<<m>>)
  OBVIOUS
<1>3. \A i \in 1..Len(<<s, t, n>>) : <<s, t, n, m>>[i] = <<s, t, n>>[i]
  OBVIOUS
<1>4. \A i \in 1..Len(<<m>>) : <<s, t, n, m>>[Len(<<s, t, n>>) + i] = <<m>>[i]
  OBVIOUS
<1> QED BY <1>1, <1>2, <1>3, <1>4, ListJoined, Zenon

LEMMA JoinedThree ==
  ASSUME NEW m, NEW s, NEW t, NEW n
  PROVE  <<m>> \o <<s, t, n>> = <<m, s, t, n>>
<1> DEFINE M == {m, s, t, n}
<1>1. <<m>> \in Seq(M) /\ <<s, t, n>> \in Seq(M) /\ <<m, s, t, n>> \in Seq(M)
  OBVIOUS
<1> HIDE DEF M
<1>2. Len(<<m, s, t, n>>) = Len(<<m>>) + Len(<<s, t, n>>)
  OBVIOUS
<1>3. \A i \in 1..Len(<<m>>) : <<m, s, t, n>>[i] = <<m>>[i]
  OBVIOUS
<1>4. \A i \in 1..Len(<<s, t, n>>) : <<m, s, t, n>>[Len(<<m>>) + i] = <<s, t, n>>[i]
  OBVIOUS
<1> QED BY <1>1, <1>2, <1>3, <1>4, ListJoined, Zenon

LEMMA LeftOf ==
  ASSUME NEW w, HandlerShaped(w), NEW t, t # <<>>, NEW d, d = Left(w, t)
  PROVE  /\ HandlerShaped(d) /\ d.at = "write" /\ d.todo = t
         /\ d.job = w.job /\ d.by = w.by /\ d.to = w.to /\ d.chat = w.chat
<1>1. d = [w EXCEPT !.at = "write", !.todo = t]
  BY DEF Left
<1>2. w = [at |-> w.at, job |-> w.job, by |-> w.by, to |-> w.to, chat |-> w.chat, todo |-> w.todo]
  BY DEF HandlerShaped
<1>3. PICK p, q, r, s, y, z : w = [at |-> p, job |-> q, by |-> r, to |-> s, chat |-> y, todo |-> z]
  BY <1>2
<1>4. d = [at |-> "write", job |-> q, by |-> r, to |-> s, chat |-> y, todo |-> t]
  BY <1>1, <1>3
<1> QED BY <1>3, <1>4 DEF HandlerShaped

LEMMA IdleShaped ==
  /\ HandlerShaped(Idle) /\ Idle.at = "idle" /\ \A w : Left(w, <<>>) = Idle
  BY DEF HandlerShaped, Idle, Left

(* The statement each list begins with, and what is left after it.          *)
Statement(w) == Head(w.todo)
LEMMA DirectLists ==
  ASSUME NEW w
  PROVE  /\ Begins(Subscribing(w), Subscribe(w.by, w.to, TRUE), <<>>)
         /\ Begins(Befriending(w), Befriend(w.by, w.to, TRUE), Subscribing(w))
         /\ Begins(Consenting(w), Become({w.by}, "accepted"), Befriending(w))
         /\ Begins(Awaiting(w), Become({w.to}, "pending"), Subscribing(w))
         /\ Begins(Reopening(w), Become({w.by}, "accepted"), Awaiting(w))
         /\ Begins(SecondRow(w), AddRow(w.to, "pending"), Subscribing(w))
         /\ Begins(FirstRow(w), AddRow(w.by, "accepted"), SecondRow(w))
         /\ Begins(Opening(w), NewChat("direct"), FirstRow(w))
<1>1. Begins(Subscribing(w), Subscribe(w.by, w.to, TRUE), <<>>)
  BY ListsBegin, Zenon DEF Subscribing
<1>2. Begins(Befriending(w), Befriend(w.by, w.to, TRUE), Subscribing(w))
  BY ListsBegin, Zenon DEF Befriending, Subscribing
<1>3. Begins(Consenting(w), Become({w.by}, "accepted"), Befriending(w))
  BY ListsBegin, Zenon DEF Consenting, Befriending
<1>4. Begins(Awaiting(w), Become({w.to}, "pending"), Subscribing(w))
  BY ListsBegin, Zenon DEF Awaiting, Subscribing
<1>5. Begins(Reopening(w), Become({w.by}, "accepted"), Awaiting(w))
  BY ListsBegin, Zenon DEF Reopening, Awaiting
<1>6. Begins(SecondRow(w), AddRow(w.to, "pending"), Subscribing(w))
  BY ListsBegin, Zenon DEF SecondRow, Subscribing
<1>7. Begins(FirstRow(w), AddRow(w.by, "accepted"), SecondRow(w))
  BY ListsBegin, Zenon DEF FirstRow, SecondRow
<1>8. Begins(Opening(w), NewChat("direct"), FirstRow(w))
  BY ListsBegin, Zenon DEF Opening, FirstRow
<1> QED BY <1>1, <1>2, <1>3, <1>4, <1>5, <1>6, <1>7, <1>8

LEMMA GroupLists ==
  ASSUME NEW w, NEW s
  PROVE  /\ Begins(Inviting, Invite, <<>>)
         /\ Begins(FoundersRow(w), AddRow(w.by, "accepted"), Inviting)
         /\ Begins(Founding(w), NewChat("group"), FoundersRow(w))
         /\ Begins(JoinersRow(w, s), AddRow(w.to, s), <<>>)
         /\ Begins(Dropping, DropChat, <<>>)
         /\ Begins(LastReport, Report, <<>>)
<1>1. Begins(Inviting, Invite, <<>>)
  BY ListsBegin, Zenon DEF Inviting
<1>2. Begins(FoundersRow(w), AddRow(w.by, "accepted"), Inviting)
  BY ListsBegin, Zenon DEF FoundersRow, Inviting
<1>3. Begins(Founding(w), NewChat("group"), FoundersRow(w))
  BY ListsBegin, Zenon DEF Founding, FoundersRow
<1>4. Begins(JoinersRow(w, s), AddRow(w.to, s), <<>>)
  BY ListsBegin, Zenon DEF JoinersRow
<1>5. Begins(Dropping, DropChat, <<>>)
  BY ListsBegin, Zenon DEF Dropping
<1>6. Begins(LastReport, Report, <<>>)
  BY ListsBegin, Zenon DEF LastReport
<1> QED BY <1>1, <1>2, <1>3, <1>4, <1>5, <1>6

LEMMA EndLists ==
  ASSUME NEW w, NEW v
  PROVE  /\ Begins(Confirming(w, v), Befriend(w.by, v, TRUE), <<>>)
         /\ Begins(ForgettingLast(w, v), Subscribe(v, w.by, FALSE), <<>>)
         /\ Begins(ForgettingBoth(w, v), Subscribe(w.by, v, FALSE), ForgettingLast(w, v))
         /\ Begins(Forgetting(w, v), Befriend(w.by, v, FALSE), ForgettingBoth(w, v))
         /\ Begins(Unfriending(w, v), Become(Users, "unfriended"), Forgetting(w, v))
         /\ Begins(Unlinking(w, v), Befriend(w.by, v, FALSE), <<>>)
         /\ Begins(Deleting(w, v), DropChat, Unlinking(w, v))
<1>1. Begins(Confirming(w, v), Befriend(w.by, v, TRUE), <<>>)
  BY ListsBegin, Zenon DEF Confirming
<1>2. Begins(ForgettingLast(w, v), Subscribe(v, w.by, FALSE), <<>>)
  BY ListsBegin, Zenon DEF ForgettingLast
<1>3. Begins(ForgettingBoth(w, v), Subscribe(w.by, v, FALSE), ForgettingLast(w, v))
  BY ListsBegin, Zenon DEF ForgettingBoth, ForgettingLast
<1>4. Begins(Forgetting(w, v), Befriend(w.by, v, FALSE), ForgettingBoth(w, v))
  BY ListsBegin, Zenon DEF Forgetting, ForgettingBoth
<1>5. Begins(Unfriending(w, v), Become(Users, "unfriended"), Forgetting(w, v))
  BY ListsBegin, Zenon DEF Unfriending, Forgetting
<1>6. Begins(Unlinking(w, v), Befriend(w.by, v, FALSE), <<>>)
  BY ListsBegin, Zenon DEF Unlinking
<1>7. Begins(Deleting(w, v), DropChat, Unlinking(w, v))
  BY ListsBegin, Zenon DEF Deleting, Unlinking
<1> QED BY <1>1, <1>2, <1>3, <1>4, <1>5, <1>6, <1>7

LEMMA BlockLists ==
  ASSUME NEW w
  PROVE  /\ Begins(BlockingLast(w), Befriend(w.by, w.to, FALSE), Reporting(w))
         /\ Begins(BlockingChat(w), Become(Users, "unfriended"), BlockingLast(w))
         /\ Begins(BlockingFind(w), Sever, Reporting(w))
         /\ Begins(BlockingNext(w), Subscribe(w.to, w.by, FALSE), BlockingFind(w))
         /\ Begins(Blocking(w), Subscribe(w.by, w.to, FALSE), BlockingNext(w))
<1>1. CASE Reporting(w) = <<>>
  <2>1. BlockingLast(w) = <<Befriend(w.by, w.to, FALSE)>>
    BY <1>1, NothingJoined DEF BlockingLast
  <2>2. BlockingChat(w) = <<Become(Users, "unfriended"), Befriend(w.by, w.to, FALSE)>>
    BY <1>1, NothingJoined DEF BlockingChat
  <2>3. BlockingFind(w) = <<Sever>>
    BY <1>1, NothingJoined DEF BlockingFind
  <2>4. BlockingNext(w) = <<Subscribe(w.to, w.by, FALSE), Sever>>
    BY <1>1, NothingJoined DEF BlockingNext
  <2>5. Blocking(w) = <<Subscribe(w.by, w.to, FALSE), Subscribe(w.to, w.by, FALSE), Sever>>
    BY <1>1, NothingJoined DEF Blocking
  <2> QED BY <1>1, <2>1, <2>2, <2>3, <2>4, <2>5, ListsBegin, Zenon
<1>2. CASE Reporting(w) = <<Report>>
  <2>1. BlockingLast(w) = <<Befriend(w.by, w.to, FALSE), Report>>
    BY <1>2, OneJoined DEF BlockingLast
  <2>2. BlockingChat(w) = <<Become(Users, "unfriended"), Befriend(w.by, w.to, FALSE), Report>>
    BY <1>2, TwoJoined DEF BlockingChat
  <2>3. BlockingFind(w) = <<Sever, Report>>
    BY <1>2, OneJoined DEF BlockingFind
  <2>4. BlockingNext(w) = <<Subscribe(w.to, w.by, FALSE), Sever, Report>>
    BY <1>2, TwoJoined DEF BlockingNext
  <2>5. Blocking(w) = <<Subscribe(w.by, w.to, FALSE), Subscribe(w.to, w.by, FALSE), Sever, Report>>
    BY <1>2, ThreeJoined DEF Blocking
  <2> QED BY <1>2, <2>1, <2>2, <2>3, <2>4, <2>5, ListsBegin, Zenon
<1> QED BY <1>1, <1>2 DEF Reporting

(* Which stages are at which statement.                                     *)
Writing(w, C, F, S, B, do) ==
  CASE do = "subscribe" -> Subscribes(w, C, F, S, B) \/ ForgetsBoth(w, C, F, S, B) \/ ForgetsLast(w, C, F, S, B) \/ Blocks(w, C, F, S, B) \/ BlocksNext(w, C, F, S, B)
    [] do = "friends" -> Befriends(w, C, F, S, B) \/ Confirms(w, C, F, S, B) \/ Forgets(w, C, F, S, B) \/ Unlinks(w, C, F, S, B) \/ BlocksLast(w, C, F, S, B)
    [] do = "status" -> Answers(w, C, F, S, B) \/ Reopens(w, C, F, S, B) \/ MakesPending(w, C, F, S, B) \/ Unfriends(w, C, F, S, B) \/ BlocksChat(w, C, F, S, B)
    [] do = "chat" -> OpensChat(w, C, F, S, B) \/ Founds(w, C, F, S, B)
    [] do = "row" -> AddsFirst(w, C, F, S, B) \/ AddsSecond(w, C, F, S, B) \/ AddsFounder(w, C, F, S, B) \/ AddsJoiner(w, C, F, S, B)
    [] do = "invite" -> Invites(w, C, F, S, B)
    [] do = "drop" -> Deletes(w, C, F, S, B) \/ Drops(w, C, F, S, B)
    [] do = "sever" -> BlocksFind(w, C, F, S, B)
    [] do = "report" -> ReportsLast(w, C, F, S, B)
LEMMA WhatIsWritten ==
  ASSUME NEW w, NEW C, NEW F, NEW S, NEW B, AtWork(w, C, F, S, B), w.at = "write"
  PROVE  w.todo # <<>> /\ Writing(w, C, F, S, B, Statement(w).do)
<1>1. ~Rests(w, C, F, S, B)
  BY IdleShaped DEF Rests
<1>2. ASSUME Subscribes(w, C, F, S, B) PROVE w.todo # <<>> /\ Statement(w).do = "subscribe"
  <2>1. w.todo = Subscribing(w)
    BY <1>2 DEF Subscribes, To
  <2>2. Begins(w.todo, Subscribe(w.by, w.to, TRUE), <<>>)
    BY <2>1, DirectLists, Zenon
  <2>3. w.todo # <<>> /\ Statement(w) = Subscribe(w.by, w.to, TRUE)
    BY <2>2 DEF Begins, Statement
  <2> QED BY <2>3 DEF Subscribe
<1>3. ASSUME ForgetsBoth(w, C, F, S, B) PROVE w.todo # <<>> /\ Statement(w).do = "subscribe"
  <2>1. PICK v : w.todo = ForgettingBoth(w, v)
    BY <1>3 DEF ForgetsBoth, To
  <2>2. Begins(w.todo, Subscribe(w.by, v, FALSE), ForgettingLast(w, v))
    BY <2>1, EndLists, Zenon
  <2>3. w.todo # <<>> /\ Statement(w) = Subscribe(w.by, v, FALSE)
    BY <2>2 DEF Begins, Statement
  <2> QED BY <2>3 DEF Subscribe
<1>4. ASSUME ForgetsLast(w, C, F, S, B) PROVE w.todo # <<>> /\ Statement(w).do = "subscribe"
  <2>1. PICK v : w.todo = ForgettingLast(w, v)
    BY <1>4 DEF ForgetsLast, To
  <2>2. Begins(w.todo, Subscribe(v, w.by, FALSE), <<>>)
    BY <2>1, EndLists, Zenon
  <2>3. w.todo # <<>> /\ Statement(w) = Subscribe(v, w.by, FALSE)
    BY <2>2 DEF Begins, Statement
  <2> QED BY <2>3 DEF Subscribe
<1>5. ASSUME Blocks(w, C, F, S, B) PROVE w.todo # <<>> /\ Statement(w).do = "subscribe"
  <2>1. w.todo = Blocking(w)
    BY <1>5 DEF Blocks, To
  <2>2. Begins(w.todo, Subscribe(w.by, w.to, FALSE), BlockingNext(w))
    BY <2>1, BlockLists, Zenon
  <2>3. w.todo # <<>> /\ Statement(w) = Subscribe(w.by, w.to, FALSE)
    BY <2>2 DEF Begins, Statement
  <2> QED BY <2>3 DEF Subscribe
<1>6. ASSUME BlocksNext(w, C, F, S, B) PROVE w.todo # <<>> /\ Statement(w).do = "subscribe"
  <2>1. w.todo = BlockingNext(w)
    BY <1>6 DEF BlocksNext, To
  <2>2. Begins(w.todo, Subscribe(w.to, w.by, FALSE), BlockingFind(w))
    BY <2>1, BlockLists, Zenon
  <2>3. w.todo # <<>> /\ Statement(w) = Subscribe(w.to, w.by, FALSE)
    BY <2>2 DEF Begins, Statement
  <2> QED BY <2>3 DEF Subscribe
<1>7. ASSUME Befriends(w, C, F, S, B) PROVE w.todo # <<>> /\ Statement(w).do = "friends"
  <2>1. w.todo = Befriending(w)
    BY <1>7 DEF Befriends, To
  <2>2. Begins(w.todo, Befriend(w.by, w.to, TRUE), Subscribing(w))
    BY <2>1, DirectLists, Zenon
  <2>3. w.todo # <<>> /\ Statement(w) = Befriend(w.by, w.to, TRUE)
    BY <2>2 DEF Begins, Statement
  <2> QED BY <2>3 DEF Befriend
<1>8. ASSUME Confirms(w, C, F, S, B) PROVE w.todo # <<>> /\ Statement(w).do = "friends"
  <2>1. PICK v : w.todo = Confirming(w, v)
    BY <1>8 DEF Confirms, To
  <2>2. Begins(w.todo, Befriend(w.by, v, TRUE), <<>>)
    BY <2>1, EndLists, Zenon
  <2>3. w.todo # <<>> /\ Statement(w) = Befriend(w.by, v, TRUE)
    BY <2>2 DEF Begins, Statement
  <2> QED BY <2>3 DEF Befriend
<1>9. ASSUME Forgets(w, C, F, S, B) PROVE w.todo # <<>> /\ Statement(w).do = "friends"
  <2>1. PICK v : w.todo = Forgetting(w, v)
    BY <1>9 DEF Forgets, To
  <2>2. Begins(w.todo, Befriend(w.by, v, FALSE), ForgettingBoth(w, v))
    BY <2>1, EndLists, Zenon
  <2>3. w.todo # <<>> /\ Statement(w) = Befriend(w.by, v, FALSE)
    BY <2>2 DEF Begins, Statement
  <2> QED BY <2>3 DEF Befriend
<1>10. ASSUME Unlinks(w, C, F, S, B) PROVE w.todo # <<>> /\ Statement(w).do = "friends"
  <2>1. PICK v : w.todo = Unlinking(w, v)
    BY <1>10 DEF Unlinks, To
  <2>2. Begins(w.todo, Befriend(w.by, v, FALSE), <<>>)
    BY <2>1, EndLists, Zenon
  <2>3. w.todo # <<>> /\ Statement(w) = Befriend(w.by, v, FALSE)
    BY <2>2 DEF Begins, Statement
  <2> QED BY <2>3 DEF Befriend
<1>11. ASSUME BlocksLast(w, C, F, S, B) PROVE w.todo # <<>> /\ Statement(w).do = "friends"
  <2>1. w.todo = BlockingLast(w)
    BY <1>11 DEF BlocksLast, To
  <2>2. Begins(w.todo, Befriend(w.by, w.to, FALSE), Reporting(w))
    BY <2>1, BlockLists, Zenon
  <2>3. w.todo # <<>> /\ Statement(w) = Befriend(w.by, w.to, FALSE)
    BY <2>2 DEF Begins, Statement
  <2> QED BY <2>3 DEF Befriend
<1>12. ASSUME Answers(w, C, F, S, B) PROVE w.todo # <<>> /\ Statement(w).do = "status"
  <2>1. w.todo = Consenting(w)
    BY <1>12 DEF Answers, To
  <2>2. Begins(w.todo, Become({w.by}, "accepted"), Befriending(w))
    BY <2>1, DirectLists, Zenon
  <2>3. w.todo # <<>> /\ Statement(w) = Become({w.by}, "accepted")
    BY <2>2 DEF Begins, Statement
  <2> QED BY <2>3 DEF Become
<1>13. ASSUME Reopens(w, C, F, S, B) PROVE w.todo # <<>> /\ Statement(w).do = "status"
  <2>1. w.todo = Reopening(w)
    BY <1>13 DEF Reopens, To
  <2>2. Begins(w.todo, Become({w.by}, "accepted"), Awaiting(w))
    BY <2>1, DirectLists, Zenon
  <2>3. w.todo # <<>> /\ Statement(w) = Become({w.by}, "accepted")
    BY <2>2 DEF Begins, Statement
  <2> QED BY <2>3 DEF Become
<1>14. ASSUME MakesPending(w, C, F, S, B) PROVE w.todo # <<>> /\ Statement(w).do = "status"
  <2>1. w.todo = Awaiting(w)
    BY <1>14 DEF MakesPending, To
  <2>2. Begins(w.todo, Become({w.to}, "pending"), Subscribing(w))
    BY <2>1, DirectLists, Zenon
  <2>3. w.todo # <<>> /\ Statement(w) = Become({w.to}, "pending")
    BY <2>2 DEF Begins, Statement
  <2> QED BY <2>3 DEF Become
<1>15. ASSUME Unfriends(w, C, F, S, B) PROVE w.todo # <<>> /\ Statement(w).do = "status"
  <2>1. PICK v : w.todo = Unfriending(w, v)
    BY <1>15 DEF Unfriends, To
  <2>2. Begins(w.todo, Become(Users, "unfriended"), Forgetting(w, v))
    BY <2>1, EndLists, Zenon
  <2>3. w.todo # <<>> /\ Statement(w) = Become(Users, "unfriended")
    BY <2>2 DEF Begins, Statement
  <2> QED BY <2>3 DEF Become
<1>16. ASSUME BlocksChat(w, C, F, S, B) PROVE w.todo # <<>> /\ Statement(w).do = "status"
  <2>1. w.todo = BlockingChat(w)
    BY <1>16 DEF BlocksChat, To
  <2>2. Begins(w.todo, Become(Users, "unfriended"), BlockingLast(w))
    BY <2>1, BlockLists, Zenon
  <2>3. w.todo # <<>> /\ Statement(w) = Become(Users, "unfriended")
    BY <2>2 DEF Begins, Statement
  <2> QED BY <2>3 DEF Become
<1>17. ASSUME OpensChat(w, C, F, S, B) PROVE w.todo # <<>> /\ Statement(w).do = "chat"
  <2>1. w.todo = Opening(w)
    BY <1>17 DEF OpensChat, To
  <2>2. Begins(w.todo, NewChat("direct"), FirstRow(w))
    BY <2>1, DirectLists, Zenon
  <2>3. w.todo # <<>> /\ Statement(w) = NewChat("direct")
    BY <2>2 DEF Begins, Statement
  <2> QED BY <2>3 DEF NewChat
<1>18. ASSUME Founds(w, C, F, S, B) PROVE w.todo # <<>> /\ Statement(w).do = "chat"
  <2>1. w.todo = Founding(w)
    BY <1>18 DEF Founds, To
  <2>2. Begins(w.todo, NewChat("group"), FoundersRow(w))
    BY <2>1, GroupLists, Zenon
  <2>3. w.todo # <<>> /\ Statement(w) = NewChat("group")
    BY <2>2 DEF Begins, Statement
  <2> QED BY <2>3 DEF NewChat
<1>19. ASSUME AddsFirst(w, C, F, S, B) PROVE w.todo # <<>> /\ Statement(w).do = "row"
  <2>1. w.todo = FirstRow(w)
    BY <1>19 DEF AddsFirst, To
  <2>2. Begins(w.todo, AddRow(w.by, "accepted"), SecondRow(w))
    BY <2>1, DirectLists, Zenon
  <2>3. w.todo # <<>> /\ Statement(w) = AddRow(w.by, "accepted")
    BY <2>2 DEF Begins, Statement
  <2> QED BY <2>3 DEF AddRow
<1>20. ASSUME AddsSecond(w, C, F, S, B) PROVE w.todo # <<>> /\ Statement(w).do = "row"
  <2>1. w.todo = SecondRow(w)
    BY <1>20 DEF AddsSecond, To
  <2>2. Begins(w.todo, AddRow(w.to, "pending"), Subscribing(w))
    BY <2>1, DirectLists, Zenon
  <2>3. w.todo # <<>> /\ Statement(w) = AddRow(w.to, "pending")
    BY <2>2 DEF Begins, Statement
  <2> QED BY <2>3 DEF AddRow
<1>21. ASSUME AddsFounder(w, C, F, S, B) PROVE w.todo # <<>> /\ Statement(w).do = "row"
  <2>1. w.todo = FoundersRow(w)
    BY <1>21 DEF AddsFounder, To
  <2>2. Begins(w.todo, AddRow(w.by, "accepted"), Inviting)
    BY <2>1, GroupLists, Zenon
  <2>3. w.todo # <<>> /\ Statement(w) = AddRow(w.by, "accepted")
    BY <2>2 DEF Begins, Statement
  <2> QED BY <2>3 DEF AddRow
<1>22. ASSUME AddsJoiner(w, C, F, S, B) PROVE w.todo # <<>> /\ Statement(w).do = "row"
  <2>1. PICK s : w.todo = JoinersRow(w, s)
    BY <1>22 DEF AddsJoiner, To
  <2>2. Begins(w.todo, AddRow(w.to, s), <<>>)
    BY <2>1, GroupLists, Zenon
  <2>3. w.todo # <<>> /\ Statement(w) = AddRow(w.to, s)
    BY <2>2 DEF Begins, Statement
  <2> QED BY <2>3 DEF AddRow
<1>23. ASSUME Invites(w, C, F, S, B) PROVE w.todo # <<>> /\ Statement(w).do = "invite"
  <2>1. w.todo = Inviting
    BY <1>23 DEF Invites, To
  <2>2. Begins(w.todo, Invite, <<>>)
    BY <2>1, GroupLists, Zenon
  <2>3. w.todo # <<>> /\ Statement(w) = Invite
    BY <2>2 DEF Begins, Statement
  <2> QED BY <2>3 DEF Invite
<1>24. ASSUME Deletes(w, C, F, S, B) PROVE w.todo # <<>> /\ Statement(w).do = "drop"
  <2>1. PICK v : w.todo = Deleting(w, v)
    BY <1>24 DEF Deletes, To
  <2>2. Begins(w.todo, DropChat, Unlinking(w, v))
    BY <2>1, EndLists, Zenon
  <2>3. w.todo # <<>> /\ Statement(w) = DropChat
    BY <2>2 DEF Begins, Statement
  <2> QED BY <2>3 DEF DropChat
<1>25. ASSUME Drops(w, C, F, S, B) PROVE w.todo # <<>> /\ Statement(w).do = "drop"
  <2>1. w.todo = Dropping
    BY <1>25 DEF Drops, To
  <2>2. Begins(w.todo, DropChat, <<>>)
    BY <2>1, GroupLists, Zenon
  <2>3. w.todo # <<>> /\ Statement(w) = DropChat
    BY <2>2 DEF Begins, Statement
  <2> QED BY <2>3 DEF DropChat
<1>26. ASSUME BlocksFind(w, C, F, S, B) PROVE w.todo # <<>> /\ Statement(w).do = "sever"
  <2>1. w.todo = BlockingFind(w)
    BY <1>26 DEF BlocksFind, To
  <2>2. Begins(w.todo, Sever, Reporting(w))
    BY <2>1, BlockLists, Zenon
  <2>3. w.todo # <<>> /\ Statement(w) = Sever
    BY <2>2 DEF Begins, Statement
  <2> QED BY <2>3 DEF Sever
<1>27. ASSUME ReportsLast(w, C, F, S, B) PROVE w.todo # <<>> /\ Statement(w).do = "report"
  <2>1. w.todo = LastReport
    BY <1>27 DEF ReportsLast, To
  <2>2. Begins(w.todo, Report, <<>>)
    BY <2>1, GroupLists, Zenon
  <2>3. w.todo # <<>> /\ Statement(w) = Report
    BY <2>2 DEF Begins, Statement
  <2> QED BY <2>3 DEF Report
<1>28. ~Inquires(w, C, F, S, B) /\ ~LooksUp(w, C, F, S, B) /\ ~AcceptedGroup(w, C, F, S, B)
  BY DEF Inquires, LooksUp, AcceptedGroup
<1>29. ~AcceptedChat(w, C, F, S, B) /\ ~EndsChat(w, C, F, S, B) /\ ~Leaves(w, C, F, S, B)
  BY DEF AcceptedChat, EndsChat, Leaves
<1> QED
  BY <1>1, <1>2, <1>3, <1>4, <1>5, <1>6, <1>7, <1>8, <1>9, <1>10, <1>11, <1>12, <1>13, <1>14, <1>15, <1>16, <1>17, <1>18, <1>19, <1>20, <1>21, <1>22, <1>23, <1>24, <1>25, <1>26, <1>27, <1>28, <1>29, Zenon
     DEF AtWork, AtDirect, AtGroup, AtAccept, AtEnding, AtLeaving, AtBlock, Writing

-----------------------------------------------------------------------------
(* A statement is written, and the handler goes on or rests: it keeps what  *)
(* its stage says.                                                          *)
Kept(d, C, F, S, B) == HandlerShaped(d) /\ AtWork(d, C, F, S, B)
Onward(w) == Left(w, Tail(w.todo))
LEMMA WritesOn ==
  ASSUME NEW w, HandlerShaped(w), NEW s, NEW rest, Begins(w.todo, s, rest), rest # <<>>
  PROVE  /\ HandlerShaped(Onward(w)) /\ Onward(w).at = "write" /\ Onward(w).todo = rest
         /\ Onward(w).job = w.job /\ Onward(w).by = w.by /\ Onward(w).to = w.to
         /\ Onward(w).chat = w.chat /\ Statement(w) = s
<1> DEFINE d == Onward(w)
<1>1. d = Left(w, rest) /\ Statement(w) = s
  BY DEF Begins, Onward, Statement
<1> HIDE DEF d
<1>2. /\ HandlerShaped(d) /\ d.at = "write" /\ d.todo = rest
      /\ d.job = w.job /\ d.by = w.by /\ d.to = w.to /\ d.chat = w.chat
  BY <1>1, LeftOf
<1> QED BY <1>1, <1>2 DEF d

LEMMA GoesIdle ==
  ASSUME NEW w, NEW s, Begins(w.todo, s, <<>>)
  PROVE  Onward(w) = Idle /\ HandlerShaped(Onward(w)) /\ Statement(w) = s
  BY IdleShaped DEF Begins, Onward, Statement

LEMMA GoesToRest ==
  ASSUME NEW d, NEW C, NEW F, NEW S, NEW B, d = Idle, Tuned(C, F, S, B)
  PROVE  Kept(d, C, F, S, B)
  BY IdleShaped DEF Kept, AtWork, Rests

(* Subscriptions.                                                           *)
Joined(T, s) == IF s.yes THEN T \cup {s.pair} ELSE T \ {s.pair}
LEMMA SubscribesKept ==
  ASSUME NEW w, HandlerShaped(w), NEW C, NEW F, NEW S, S \subseteq Pairs, NEW B, B \subseteq Pairs,
         Subscribes(w, C, F, S, B)
  PROVE  Joined(S, Statement(w)) \subseteq Pairs /\ Kept(Onward(w), C, F, Joined(S, Statement(w)), B)
<1>1. w.todo = Subscribing(w) /\ Free(B, w.by, w.to) /\ Tuned(C, F, S, B)
  BY DEF Subscribes, To
<1>2. Begins(w.todo, Subscribe(w.by, w.to, TRUE), <<>>)
  BY <1>1, DirectLists, Zenon
<1>3. Onward(w) = Idle /\ Statement(w) = Subscribe(w.by, w.to, TRUE)
  BY <1>2, GoesIdle, Zenon
<1>4. Joined(S, Statement(w)) = S \cup {<<w.by, w.to>>}
  BY <1>3 DEF Joined, Subscribe
<1>5. Tuned(C, F, Joined(S, Statement(w)), B)
  BY <1>1, <1>4, TuneSubscribed DEF Tuned
<1> QED BY <1>1, <1>3, <1>4, <1>5, GoesToRest DEF Free

LEMMA ForgetsBothKept ==
  ASSUME NEW w, HandlerShaped(w), NEW C, NEW F, NEW S, S \subseteq Pairs, NEW B, B \subseteq Pairs,
         ForgetsBoth(w, C, F, S, B)
  PROVE  Joined(S, Statement(w)) \subseteq Pairs /\ Kept(Onward(w), C, F, Joined(S, Statement(w)), B)
<1>1. PICK v \in Users : To(w, {"unfriend"}, ForgettingBoth(w, v)) /\ Free(B, w.by, v) /\ Tuned(C, F, S, B)
  BY DEF ForgetsBoth
<1>2. Begins(w.todo, Subscribe(w.by, v, FALSE), ForgettingLast(w, v)) /\ ForgettingLast(w, v) # <<>>
  BY <1>1, EndLists, Zenon DEF To, Begins
<1>3. /\ HandlerShaped(Onward(w)) /\ Onward(w).at = "write" /\ Onward(w).todo = ForgettingLast(w, v)
      /\ Onward(w).job = w.job /\ Onward(w).by = w.by
      /\ Statement(w) = Subscribe(w.by, v, FALSE)
  BY <1>2, WritesOn, Zenon
<1>4. Joined(S, Statement(w)) \subseteq S
  BY <1>3 DEF Joined, Subscribe
<1>5. Tuned(C, F, Joined(S, Statement(w)), B)
  BY <1>1, <1>4, TuneSubscribed DEF Tuned
<1>6. To(Onward(w), {"unfriend"}, ForgettingLast(Onward(w), v))
  BY <1>1, <1>3 DEF To, ForgettingLast
<1>7. ForgetsLast(Onward(w), C, F, Joined(S, Statement(w)), B)
  BY <1>1, <1>3, <1>5, <1>6 DEF ForgetsLast
<1> QED BY <1>3, <1>4, <1>7 DEF Kept, AtWork, AtEnding

LEMMA ForgetsLastKept ==
  ASSUME NEW w, HandlerShaped(w), NEW C, NEW F, NEW S, S \subseteq Pairs, NEW B, B \subseteq Pairs,
         ForgetsLast(w, C, F, S, B)
  PROVE  Joined(S, Statement(w)) \subseteq Pairs /\ Kept(Onward(w), C, F, Joined(S, Statement(w)), B)
<1>1. PICK v \in Users : To(w, {"unfriend"}, ForgettingLast(w, v)) /\ Free(B, w.by, v) /\ Tuned(C, F, S, B)
  BY DEF ForgetsLast
<1>2. Begins(w.todo, Subscribe(v, w.by, FALSE), <<>>)
  BY <1>1, EndLists, Zenon DEF To
<1>3. Onward(w) = Idle /\ Statement(w) = Subscribe(v, w.by, FALSE)
  BY <1>2, GoesIdle, Zenon
<1>4. Joined(S, Statement(w)) \subseteq S
  BY <1>3 DEF Joined, Subscribe
<1>5. Tuned(C, F, Joined(S, Statement(w)), B)
  BY <1>1, <1>4, TuneSubscribed DEF Tuned
<1> QED BY <1>3, <1>4, <1>5, GoesToRest

LEMMA BlocksKept ==
  ASSUME NEW w, HandlerShaped(w), NEW C, NEW F, NEW S, S \subseteq Pairs, NEW B, B \subseteq Pairs,
         Blocks(w, C, F, S, B)
  PROVE  Joined(S, Statement(w)) \subseteq Pairs /\ Kept(Onward(w), C, F, Joined(S, Statement(w)), B)
<1>1. To(w, BlockJobs, Blocking(w)) /\ <<w.by, w.to>> \in Pairs /\ InTune(C, F, S, B, 0, {}, {w.by, w.to})
  BY DEF Blocks, BlockOf
<1>2. Begins(w.todo, Subscribe(w.by, w.to, FALSE), BlockingNext(w)) /\ BlockingNext(w) # <<>>
  BY <1>1, BlockLists, Zenon DEF To, Begins
<1>3. /\ HandlerShaped(Onward(w)) /\ Onward(w).at = "write" /\ Onward(w).todo = BlockingNext(w)
      /\ Onward(w).job = w.job /\ Onward(w).by = w.by /\ Onward(w).to = w.to
      /\ Statement(w) = Subscribe(w.by, w.to, FALSE)
  BY <1>2, WritesOn, Zenon
<1>4. Joined(S, Statement(w)) = S \ {<<w.by, w.to>>}
  BY <1>3 DEF Joined, Subscribe
<1>5. InTune(C, F, Joined(S, Statement(w)), B, 0, {}, {w.by, w.to})
  BY <1>1, <1>4, TuneSubscribed
<1>6. To(Onward(w), BlockJobs, BlockingNext(Onward(w)))
  BY <1>1, <1>3 DEF To, BlockingNext, Reporting
<1>7. BlocksNext(Onward(w), C, F, Joined(S, Statement(w)), B)
  BY <1>1, <1>3, <1>4, <1>5, <1>6 DEF BlocksNext, BlockOf
<1> QED BY <1>3, <1>4, <1>7 DEF Kept, AtWork, AtBlock

LEMMA BlocksNextKept ==
  ASSUME NEW w, HandlerShaped(w), NEW C, NEW F, NEW S, S \subseteq Pairs, NEW B, B \subseteq Pairs,
         BlocksNext(w, C, F, S, B)
  PROVE  Joined(S, Statement(w)) \subseteq Pairs /\ Kept(Onward(w), C, F, Joined(S, Statement(w)), B)
<1>1. /\ To(w, BlockJobs, BlockingNext(w)) /\ <<w.by, w.to>> \in Pairs
      /\ InTune(C, F, S, B, 0, {}, {w.by, w.to}) /\ <<w.by, w.to>> \notin S
  BY DEF BlocksNext, BlockOf
<1>2. Begins(w.todo, Subscribe(w.to, w.by, FALSE), BlockingFind(w)) /\ BlockingFind(w) # <<>>
  BY <1>1, BlockLists, Zenon DEF To, Begins
<1>3. /\ HandlerShaped(Onward(w)) /\ Onward(w).at = "write" /\ Onward(w).todo = BlockingFind(w)
      /\ Onward(w).job = w.job /\ Onward(w).by = w.by /\ Onward(w).to = w.to
      /\ Statement(w) = Subscribe(w.to, w.by, FALSE)
  BY <1>2, WritesOn, Zenon
<1>4. Joined(S, Statement(w)) = S \ {<<w.to, w.by>>}
  BY <1>3 DEF Joined, Subscribe
<1>5. InTune(C, F, Joined(S, Statement(w)), B, 0, {}, {w.by, w.to})
  BY <1>1, <1>4, TuneSubscribed
<1>6. To(Onward(w), BlockJobs, BlockingFind(Onward(w)))
  BY <1>1, <1>3 DEF To, BlockingFind, Reporting
<1>7. Silenced(Onward(w), Joined(S, Statement(w)))
  BY <1>1, <1>3, <1>4 DEF Silenced
<1>8. BlocksFind(Onward(w), C, F, Joined(S, Statement(w)), B)
  BY <1>1, <1>3, <1>5, <1>6, <1>7 DEF BlocksFind, BlockOf
<1> QED BY <1>3, <1>4, <1>8 DEF Kept, AtWork, AtBlock

LEMMA SubscriptionKept ==
  ASSUME NEW w, HandlerShaped(w), NEW C, NEW F, NEW S, S \subseteq Pairs, NEW B, B \subseteq Pairs,
         AtWork(w, C, F, S, B), w.at = "write", Statement(w).do = "subscribe"
  PROVE  Joined(S, Statement(w)) \subseteq Pairs /\ Kept(Onward(w), C, F, Joined(S, Statement(w)), B)
<1>1. Writing(w, C, F, S, B, "subscribe")
  BY WhatIsWritten
<1>2. \/ Subscribes(w, C, F, S, B) \/ ForgetsBoth(w, C, F, S, B) \/ ForgetsLast(w, C, F, S, B)
      \/ Blocks(w, C, F, S, B) \/ BlocksNext(w, C, F, S, B)
  BY <1>1 DEF Writing
<1> QED BY <1>2, SubscribesKept, ForgetsBothKept, ForgetsLastKept, BlocksKept, BlocksNextKept, Zenon

(* Friendships.                                                             *)
LEMMA BecomeFriends ==
  ASSUME NEW C \in Seq(ChatRec), NEW F, F \subseteq UserPairs, NEW S, NEW B, B \subseteq Pairs, NEW k \in 1..Len(C),
         NEW u, NEW v, Free(B, u, v), InTune(C, F, S, B, k, {}, {}),
         HasRows(C[k], u, v, "accepted", "accepted")
  PROVE  F \cup {{u, v}} \subseteq UserPairs /\ Tuned(C, F \cup {{u, v}}, S, B)
<1> DEFINE G == F \cup {{u, v}}
<1>1. <<u, v>> \in Pairs /\ u \in Users /\ v \in Users
  BY DEF Free, Pairs
<1>2. {u, v} \in UserPairs /\ IsDirect(C[k]) /\ RowsOf(C[k]) = {u, v}
  BY <1>1 DEF UserPairs, HasRows
<1>3. Standing(C[k], G)
  BY <1>1, <1>2, StandingOf
<1>4. FitsPair(C, G, k, u, v)
  BY <1>2, <1>3 DEF FitsPair
<1>5. G \subseteq UserPairs /\ \A f : f # {u, v} => (f \in F <=> f \in G)
  BY <1>2
<1> HIDE DEF G
<1>6. InTune(C, G, S, B, 0, {}, {})
  BY <1>1, <1>4, <1>5, TuneBefriended
<1> QED BY <1>5, <1>6 DEF G, Tuned

LEMMA BefriendsKept ==
  ASSUME NEW w, HandlerShaped(w), NEW C \in Seq(ChatRec), NEW F, F \subseteq UserPairs, NEW S, NEW B,
         B \subseteq Pairs, Befriends(w, C, F, S, B)
  PROVE  Joined(F, Statement(w)) \subseteq UserPairs /\ Kept(Onward(w), C, Joined(F, Statement(w)), S, B)
<1>1. /\ To(w, {"direct"}, Befriending(w)) /\ Free(B, w.by, w.to) /\ w.chat \in 1..Len(C)
      /\ InTune(C, F, S, B, w.chat, {}, {}) /\ HasRows(C[w.chat], w.by, w.to, "accepted", "accepted")
  BY DEF Befriends, WithChat
<1>2. Begins(w.todo, Befriend(w.by, w.to, TRUE), Subscribing(w)) /\ Subscribing(w) # <<>>
  BY <1>1, DirectLists, Zenon DEF To, Begins
<1>3. /\ HandlerShaped(Onward(w)) /\ Onward(w).at = "write" /\ Onward(w).todo = Subscribing(w)
      /\ Onward(w).job = w.job /\ Onward(w).by = w.by /\ Onward(w).to = w.to
      /\ Statement(w) = Befriend(w.by, w.to, TRUE)
  BY <1>2, WritesOn, Zenon
<1>4. Joined(F, Statement(w)) = F \cup {{w.by, w.to}}
  BY <1>3 DEF Joined, Befriend
<1>5. F \cup {{w.by, w.to}} \subseteq UserPairs /\ Tuned(C, F \cup {{w.by, w.to}}, S, B)
  BY <1>1, BecomeFriends
<1>6. To(Onward(w), {"direct"}, Subscribing(Onward(w)))
  BY <1>1, <1>3 DEF To, Subscribing
<1>7. Subscribes(Onward(w), C, Joined(F, Statement(w)), S, B)
  BY <1>1, <1>3, <1>4, <1>5, <1>6 DEF Subscribes
<1> QED BY <1>3, <1>4, <1>5, <1>7 DEF Kept, AtWork, AtDirect

LEMMA ConfirmsKept ==
  ASSUME NEW w, HandlerShaped(w), NEW C \in Seq(ChatRec), NEW F, F \subseteq UserPairs, NEW S, NEW B,
         B \subseteq Pairs, Confirms(w, C, F, S, B)
  PROVE  Joined(F, Statement(w)) \subseteq UserPairs /\ Kept(Onward(w), C, Joined(F, Statement(w)), S, B)
<1>1. PICK v \in Users :
        /\ To(w, {"accept"}, Confirming(w, v)) /\ Free(B, w.by, v) /\ w.chat \in 1..Len(C)
        /\ InTune(C, F, S, B, w.chat, {}, {}) /\ HasRows(C[w.chat], w.by, v, "accepted", "accepted")
  BY DEF Confirms, BothOf
<1>2. Begins(w.todo, Befriend(w.by, v, TRUE), <<>>)
  BY <1>1, EndLists, Zenon DEF To
<1>3. Onward(w) = Idle /\ Statement(w) = Befriend(w.by, v, TRUE)
  BY <1>2, GoesIdle, Zenon
<1>4. Joined(F, Statement(w)) = F \cup {{w.by, v}}
  BY <1>3 DEF Joined, Befriend
<1>5. F \cup {{w.by, v}} \subseteq UserPairs /\ Tuned(C, F \cup {{w.by, v}}, S, B)
  BY <1>1, BecomeFriends
<1> QED BY <1>3, <1>4, <1>5, GoesToRest

LEMMA EndFriends ==
  ASSUME NEW C \in Seq(ChatRec), NEW F, F \subseteq UserPairs, NEW S, NEW B, B \subseteq Pairs, NEW k \in 1..Len(C),
         NEW r, NEW u, NEW v, <<u, v>> \in Pairs, InTune(C, F, S, B, k, {u, v}, r),
         HasRows(C[k], u, v, "unfriended", "unfriended"),
         \/ Free(B, u, v) /\ r = {}
         \/ r = {u, v} /\ <<u, v>> \notin S /\ <<v, u>> \notin S
  PROVE  Tuned(C, F \ {{u, v}}, S, B)
<1> DEFINE G == F \ {{u, v}}
<1>1. u \in Users /\ v \in Users
  BY DEF Pairs
<1>2. {u, v} \in UserPairs /\ IsDirect(C[k]) /\ RowsOf(C[k]) = {u, v}
  BY <1>1 DEF UserPairs, HasRows
<1>3. Standing(C[k], G)
  BY <1>1, <1>2, StandingOf
<1>4. FitsPair(C, G, k, u, v)
  BY <1>2, <1>3 DEF FitsPair
<1>5. G \subseteq UserPairs /\ {u, v} \notin G /\ \A f : f # {u, v} => (f \in F <=> f \in G)
  BY <1>2
<1> HIDE DEF G
<1>6. ASSUME r = {u, v}, <<u, v>> \notin S, <<v, u>> \notin S PROVE Parted(C, G, S, B, u, v)
  <2>1. \A i \in Between(C, {u, v}) : i = k
    BY <1>2 DEF InTune, NoneTwice, Between
  <2> QED BY <1>5, <1>6, <2>1 DEF Parted
<1>7. InTune(C, G, S, B, 0, {}, {})
  BY <1>1, <1>4, <1>5, <1>6, TuneBefriended
<1> QED BY <1>7 DEF G, Tuned

LEMMA ForgetsKept ==
  ASSUME NEW w, HandlerShaped(w), NEW C \in Seq(ChatRec), NEW F, F \subseteq UserPairs, NEW S, NEW B,
         B \subseteq Pairs, Forgets(w, C, F, S, B)
  PROVE  Joined(F, Statement(w)) \subseteq UserPairs /\ Kept(Onward(w), C, Joined(F, Statement(w)), S, B)
<1>1. PICK v \in Users :
        /\ To(w, {"unfriend"}, Forgetting(w, v)) /\ Free(B, w.by, v)
        /\ w.chat \in 1..Len(C) /\ InTune(C, F, S, B, w.chat, {w.by, v}, {})
        /\ HasRows(C[w.chat], w.by, v, "unfriended", "unfriended")
  BY DEF Forgets
<1>2. Begins(w.todo, Befriend(w.by, v, FALSE), ForgettingBoth(w, v)) /\ ForgettingBoth(w, v) # <<>>
  BY <1>1, EndLists, Zenon DEF To, Begins
<1>3. /\ HandlerShaped(Onward(w)) /\ Onward(w).at = "write" /\ Onward(w).todo = ForgettingBoth(w, v)
      /\ Onward(w).job = w.job /\ Onward(w).by = w.by
      /\ Statement(w) = Befriend(w.by, v, FALSE)
  BY <1>2, WritesOn, Zenon
<1>4. Joined(F, Statement(w)) = F \ {{w.by, v}}
  BY <1>3 DEF Joined, Befriend
<1>5. Tuned(C, F \ {{w.by, v}}, S, B)
  BY <1>1, EndFriends DEF Free
<1>6. To(Onward(w), {"unfriend"}, ForgettingBoth(Onward(w), v))
  BY <1>1, <1>3 DEF To, ForgettingBoth
<1>7. ForgetsBoth(Onward(w), C, Joined(F, Statement(w)), S, B)
  BY <1>1, <1>3, <1>4, <1>5, <1>6 DEF ForgetsBoth
<1> QED BY <1>3, <1>4, <1>7 DEF Kept, AtWork, AtEnding

LEMMA UnlinksKept ==
  ASSUME NEW w, HandlerShaped(w), NEW C \in Seq(ChatRec), NEW F, F \subseteq UserPairs, NEW S, NEW B,
         B \subseteq Pairs, Unlinks(w, C, F, S, B)
  PROVE  Joined(F, Statement(w)) \subseteq UserPairs /\ Kept(Onward(w), C, Joined(F, Statement(w)), S, B)
<1>1. PICK v \in Users :
        /\ To(w, {"delete"}, Unlinking(w, v)) /\ Free(B, w.by, v)
        /\ InTune(C, F, S, B, 0, {w.by, v}, {}) /\ Between(C, {w.by, v}) = {}
  BY DEF Unlinks
<1>2. Begins(w.todo, Befriend(w.by, v, FALSE), <<>>)
  BY <1>1, EndLists, Zenon DEF To
<1>3. Onward(w) = Idle /\ Statement(w) = Befriend(w.by, v, FALSE)
  BY <1>2, GoesIdle, Zenon
<1>4. Joined(F, Statement(w)) = F \ {{w.by, v}}
  BY <1>3 DEF Joined, Befriend
<1> DEFINE G == F \ {{w.by, v}}
<1>5. G \subseteq UserPairs /\ {w.by, v} \notin G /\ \A f : f # {w.by, v} => (f \in F <=> f \in G)
  OBVIOUS
<1> HIDE DEF G
<1>6. FitsPair(C, G, 0, w.by, v)
  BY <1>1, <1>5 DEF FitsPair
<1>7. <<w.by, v>> \in Pairs /\ w.by \in Users
  BY <1>1 DEF Free, Pairs
<1>8. InTune(C, G, S, B, 0, {}, {})
  BY <1>1, <1>5, <1>6, <1>7, TuneBefriended
<1> QED BY <1>3, <1>4, <1>5, <1>8, GoesToRest DEF G, Tuned

LEMMA BlocksLastKept ==
  ASSUME NEW w, HandlerShaped(w), NEW C \in Seq(ChatRec), NEW F, F \subseteq UserPairs, NEW S, NEW B,
         B \subseteq Pairs, BlocksLast(w, C, F, S, B)
  PROVE  Joined(F, Statement(w)) \subseteq UserPairs /\ Kept(Onward(w), C, Joined(F, Statement(w)), S, B)
<1>1. /\ To(w, BlockJobs, BlockingLast(w)) /\ <<w.by, w.to>> \in Pairs
      /\ <<w.by, w.to>> \notin S /\ <<w.to, w.by>> \notin S
      /\ w.chat \in 1..Len(C) /\ InTune(C, F, S, B, w.chat, {w.by, w.to}, {w.by, w.to})
      /\ HasRows(C[w.chat], w.by, w.to, "unfriended", "unfriended")
  BY DEF BlocksLast, Silenced
<1>2. Begins(w.todo, Befriend(w.by, w.to, FALSE), Reporting(w))
  BY <1>1, BlockLists, Zenon DEF To
<1>3. Statement(w) = Befriend(w.by, w.to, FALSE)
  BY <1>2 DEF Begins, Statement
<1>4. Joined(F, Statement(w)) = F \ {{w.by, w.to}}
  BY <1>3 DEF Joined, Befriend
<1>5. Tuned(C, F \ {{w.by, w.to}}, S, B)
  BY <1>1, EndFriends
<1>6. CASE w.job = "report"
  <2>1. Begins(w.todo, Befriend(w.by, w.to, FALSE), LastReport) /\ LastReport # <<>>
    BY <1>2, <1>6, GroupLists, Zenon DEF Reporting, LastReport, Begins
  <2>2. /\ HandlerShaped(Onward(w)) /\ Onward(w).at = "write" /\ Onward(w).todo = LastReport
        /\ Onward(w).job = w.job /\ Onward(w).to = w.to
    BY <2>1, WritesOn, Zenon
  <2>3. ReportsLast(Onward(w), C, Joined(F, Statement(w)), S, B)
    BY <1>1, <1>4, <1>5, <1>6, <2>2 DEF ReportsLast, To, Pairs
  <2> QED BY <1>4, <2>2, <2>3 DEF Kept, AtWork, AtBlock
<1>7. CASE w.job # "report"
  <2>1. Begins(w.todo, Befriend(w.by, w.to, FALSE), <<>>)
    BY <1>2, <1>7 DEF Reporting
  <2>2. Onward(w) = Idle
    BY <2>1, GoesIdle, Zenon
  <2> QED BY <1>4, <1>5, <2>2, GoesToRest
<1> QED BY <1>6, <1>7

LEMMA FriendshipKept ==
  ASSUME NEW w, HandlerShaped(w), NEW C \in Seq(ChatRec), NEW F, F \subseteq UserPairs, NEW S, NEW B,
         B \subseteq Pairs, AtWork(w, C, F, S, B), w.at = "write", Statement(w).do = "friends"
  PROVE  Joined(F, Statement(w)) \subseteq UserPairs /\ Kept(Onward(w), C, Joined(F, Statement(w)), S, B)
<1>1. Writing(w, C, F, S, B, "friends")
  BY WhatIsWritten
<1>2. \/ Befriends(w, C, F, S, B) \/ Confirms(w, C, F, S, B) \/ Forgets(w, C, F, S, B)
      \/ Unlinks(w, C, F, S, B) \/ BlocksLast(w, C, F, S, B)
  BY <1>1 DEF Writing
<1> QED BY <1>2, BefriendsKept, ConfirmsKept, ForgetsKept, UnlinksKept, BlocksLastKept, Zenon

(* Rows of a chat change their status.                                      *)
Restated(h, set, status) ==
  [h EXCEPT !.member = [u \in Users |-> IF u \in set /\ @[u] # "none" THEN status ELSE @[u]]]
RowsWritten(C, w) ==
  Replaced(C, w.chat, Restated(C[w.chat], Statement(w).users, Statement(w).status))

LEMMA RestatedRow ==
  ASSUME NEW h \in ChatRec, NEW set, NEW status \in Statuses \ {"none"}
  PROVE  /\ Restated(h, set, status) \in ChatRec /\ RowsOf(Restated(h, set, status)) = RowsOf(h)
         /\ Restated(h, set, status).type = h.type /\ Restated(h, set, status).admin = h.admin
         /\ Restated(h, set, status).gone = h.gone
         /\ \A u \in Users :
              Restated(h, set, status).member[u] =
                IF u \in set /\ h.member[u] # "none" THEN status ELSE h.member[u]
<1> DEFINE m == [u \in Users |-> IF u \in set /\ h.member[u] # "none" THEN status ELSE h.member[u]]
           g == Restated(h, set, status)
<1>1. g = [h EXCEPT !.member = m]
  BY DEF Restated
<1>2. m \in [Users -> Statuses]
  BY DEF ChatRec
<1>3. \A u \in Users : m[u] = IF u \in set /\ h.member[u] # "none" THEN status ELSE h.member[u]
  OBVIOUS
<1> HIDE DEF m, g
<1>4. g \in ChatRec /\ g.member = m /\ g.type = h.type /\ g.admin = h.admin /\ g.gone = h.gone
  BY <1>1, <1>2 DEF ChatRec
<1>5. RowsOf(g) = RowsOf(h)
  BY <1>3, <1>4 DEF RowsOf
<1> QED BY <1>3, <1>4, <1>5 DEF g

LEMMA ReplacedTyped ==
  ASSUME NEW C, ChatsTyped(C), NEW k \in 1..Len(C), NEW h \in ChatRec, h.gone => h.member = NoOne
  PROVE  ChatsTyped(Replaced(C, k, h)) /\ ButOne(Replaced(C, k, h), C, k, h)
<1>1. ButOne(Replaced(C, k, h), C, k, h)
  BY ReplacedChats, Zenon DEF ChatsTyped
<1> DEFINE D == Replaced(C, k, h)
<1> HIDE DEF D
<1>2. ButOne(D, C, k, h)
  BY <1>1 DEF D
<1>3. D \in Seq(ChatRec) /\ \A i \in 1..Len(D) : D[i].gone => D[i].member = NoOne
  BY <1>2 DEF ButOne, ChatsTyped
<1> QED BY <1>1, <1>3 DEF ChatsTyped, D

Became(D, h, C, k, u, v, set, status) ==
  /\ ChatsTyped(D) /\ k \in 1..Len(D) /\ D[k] = h
  /\ IsDirect(h) /\ RowsOf(h) = {u, v}
  /\ h.member[u] = IF u \in set THEN status ELSE C[k].member[u]
  /\ h.member[v] = IF v \in set THEN status ELSE C[k].member[v]
Becoming(C, k, u, v, status, F, S, B, e, q, r) ==
  /\ ChatsTyped(C) /\ k \in 1..Len(C) /\ IsDirect(C[k]) /\ RowsOf(C[k]) = {u, v}
  /\ status \in Statuses \ {"none"} /\ F \subseteq UserPairs /\ B \subseteq Pairs
  /\ e \in {0, k} /\ InTune(C, F, S, B, e, q, r) /\ (Free(B, u, v) \/ r = {u, v})
LEMMA RowsBecome ==
  ASSUME NEW C, NEW k, NEW u, NEW v, NEW set, NEW status, NEW F, NEW S, NEW B, NEW e, NEW q, NEW r,
         Becoming(C, k, u, v, status, F, S, B, e, q, r),
         NEW h, h = Restated(C[k], set, status), NEW D, D = Replaced(C, k, h)
  PROVE  Became(D, h, C, k, u, v, set, status) /\ InTune(D, F, S, B, k, q, r)
<1>0. /\ ChatsTyped(C) /\ k \in 1..Len(C) /\ IsDirect(C[k]) /\ RowsOf(C[k]) = {u, v}
      /\ status \in Statuses \ {"none"} /\ F \subseteq UserPairs /\ B \subseteq Pairs
      /\ e \in {0, k} /\ InTune(C, F, S, B, e, q, r) /\ (Free(B, u, v) \/ r = {u, v})
  BY DEF Becoming
<1>1. C \in Seq(ChatRec) /\ C[k] \in ChatRec
  BY <1>0 DEF ChatsTyped
<1>2. h \in ChatRec /\ RowsOf(h) = RowsOf(C[k]) /\ h.type = C[k].type /\ h.gone = C[k].gone
  BY <1>0, <1>1, RestatedRow
<1>3. \A y \in Users : h.member[y] = IF y \in set /\ C[k].member[y] # "none" THEN status ELSE C[k].member[y]
  BY <1>0, <1>1, RestatedRow
<1>4. u \in RowsOf(C[k]) /\ v \in RowsOf(C[k])
  BY <1>0
<1>5. u \in Users /\ v \in Users /\ C[k].member[u] # "none" /\ C[k].member[v] # "none"
  BY <1>4 DEF RowsOf
<1>6. IsDirect(h) /\ ~h.gone
  BY <1>0, <1>2 DEF IsDirect
<1>7. ChatsTyped(D) /\ ButOne(D, C, k, h)
  BY <1>0, <1>2, <1>6, ReplacedTyped
<1>8. InTune(D, F, S, B, k, q, r)
  BY <1>0, <1>1, <1>2, <1>5, <1>6, TuneRestated
<1>9. k \in 1..Len(D) /\ D[k] = h
  BY <1>0, <1>7 DEF ButOne
<1> QED BY <1>0, <1>2, <1>3, <1>5, <1>6, <1>7, <1>8, <1>9 DEF Became

LEMMA TuneForgives ==
  ASSUME NEW C, NEW F, F \subseteq UserPairs, NEW S, NEW B, NEW k, NEW q, NEW r, InTune(C, F, S, B, k, {}, r)
  PROVE  InTune(C, F, S, B, k, q, r)
<1>1. \A f \in F : f # {}
  BY DEF UserPairs
<1> QED BY <1>1 DEF InTune, FriendsHaveChats

LEMMA AnswersKept ==
  ASSUME NEW w, HandlerShaped(w), NEW C, ChatsTyped(C), NEW F, F \subseteq UserPairs, NEW S, NEW B,
         B \subseteq Pairs, Answers(w, C, F, S, B)
  PROVE  ChatsTyped(RowsWritten(C, w)) /\ Kept(Onward(w), RowsWritten(C, w), F, S, B)
<1>1. /\ To(w, {"direct"}, Consenting(w)) /\ Free(B, w.by, w.to) /\ {w.by, w.to} \notin F
      /\ w.chat \in 1..Len(C) /\ InTune(C, F, S, B, w.chat, {}, {})
      /\ HasRows(C[w.chat], w.by, w.to, "pending", "accepted") /\ w.by # w.to
  BY DEF Answers, WithChat, Free, Pairs
<1>2. Begins(w.todo, Become({w.by}, "accepted"), Befriending(w)) /\ Befriending(w) # <<>>
  BY <1>1, DirectLists, Zenon DEF To, Begins
<1>3. /\ HandlerShaped(Onward(w)) /\ Onward(w).at = "write" /\ Onward(w).todo = Befriending(w)
      /\ Onward(w).job = w.job /\ Onward(w).by = w.by /\ Onward(w).to = w.to
      /\ Onward(w).chat = w.chat /\ Statement(w) = Become({w.by}, "accepted")
  BY <1>2, WritesOn, Zenon
<1> DEFINE h == Restated(C[w.chat], {w.by}, "accepted")
           D == Replaced(C, w.chat, h)
<1>4. RowsWritten(C, w) = D
  BY <1>3 DEF RowsWritten, Become
<1> HIDE DEF D, h
<1>5. IsDirect(C[w.chat]) /\ RowsOf(C[w.chat]) = {w.by, w.to} /\ "accepted" \in Statuses \ {"none"}
  BY <1>1 DEF HasRows, Statuses
<1>51. Became(D, h, C, w.chat, w.by, w.to, {w.by}, "accepted") /\ InTune(D, F, S, B, w.chat, {}, {})
  <2>1. h = Restated(C[w.chat], {w.by}, "accepted") /\ D = Replaced(C, w.chat, h)
    BY DEF D, h
  <2>2. Becoming(C, w.chat, w.by, w.to, "accepted", F, S, B, w.chat, {}, {})
    BY <1>1, <1>5 DEF Becoming
  <2> QED BY <2>1, <2>2, RowsBecome, Zenon
<1>6. /\ ChatsTyped(D) /\ w.chat \in 1..Len(D) /\ D[w.chat] = h /\ InTune(D, F, S, B, w.chat, {}, {})
      /\ IsDirect(h) /\ RowsOf(h) = {w.by, w.to} /\ h.member[w.by] = "accepted"
      /\ h.member[w.to] = C[w.chat].member[w.to]
  BY <1>1, <1>5, <1>51 DEF Became
<1>7. HasRows(D[w.chat], w.by, w.to, "accepted", "accepted")
  BY <1>1, <1>6 DEF HasRows
<1>8. To(Onward(w), {"direct"}, Befriending(Onward(w)))
  BY <1>1, <1>3 DEF To, Befriending
<1>9. Befriends(Onward(w), D, F, S, B)
  BY <1>1, <1>3, <1>6, <1>7, <1>8 DEF Befriends, WithChat
<1> QED BY <1>3, <1>4, <1>6, <1>9 DEF Kept, AtWork, AtDirect

LEMMA ReopensKept ==
  ASSUME NEW w, HandlerShaped(w), NEW C, ChatsTyped(C), NEW F, F \subseteq UserPairs, NEW S, NEW B,
         B \subseteq Pairs, Reopens(w, C, F, S, B)
  PROVE  ChatsTyped(RowsWritten(C, w)) /\ Kept(Onward(w), RowsWritten(C, w), F, S, B)
<1>1. /\ To(w, {"direct"}, Reopening(w)) /\ Free(B, w.by, w.to) /\ {w.by, w.to} \notin F
      /\ w.chat \in 1..Len(C) /\ InTune(C, F, S, B, w.chat, {}, {})
      /\ HasRows(C[w.chat], w.by, w.to, "unfriended", "unfriended") /\ w.by # w.to
  BY DEF Reopens, WithChat, Free, Pairs
<1>2. Begins(w.todo, Become({w.by}, "accepted"), Awaiting(w)) /\ Awaiting(w) # <<>>
  BY <1>1, DirectLists, Zenon DEF To, Begins
<1>3. /\ HandlerShaped(Onward(w)) /\ Onward(w).at = "write" /\ Onward(w).todo = Awaiting(w)
      /\ Onward(w).job = w.job /\ Onward(w).by = w.by /\ Onward(w).to = w.to
      /\ Onward(w).chat = w.chat /\ Statement(w) = Become({w.by}, "accepted")
  BY <1>2, WritesOn, Zenon
<1> DEFINE h == Restated(C[w.chat], {w.by}, "accepted")
           D == Replaced(C, w.chat, h)
<1>4. RowsWritten(C, w) = D
  BY <1>3 DEF RowsWritten, Become
<1> HIDE DEF D, h
<1>5. IsDirect(C[w.chat]) /\ RowsOf(C[w.chat]) = {w.by, w.to} /\ "accepted" \in Statuses \ {"none"}
  BY <1>1 DEF HasRows, Statuses
<1>51. Became(D, h, C, w.chat, w.by, w.to, {w.by}, "accepted") /\ InTune(D, F, S, B, w.chat, {}, {})
  <2>1. h = Restated(C[w.chat], {w.by}, "accepted") /\ D = Replaced(C, w.chat, h)
    BY DEF D, h
  <2>2. Becoming(C, w.chat, w.by, w.to, "accepted", F, S, B, w.chat, {}, {})
    BY <1>1, <1>5 DEF Becoming
  <2> QED BY <2>1, <2>2, RowsBecome, Zenon
<1>6. /\ ChatsTyped(D) /\ w.chat \in 1..Len(D) /\ D[w.chat] = h /\ InTune(D, F, S, B, w.chat, {}, {})
      /\ IsDirect(h) /\ RowsOf(h) = {w.by, w.to} /\ h.member[w.by] = "accepted"
      /\ h.member[w.to] = C[w.chat].member[w.to]
  BY <1>1, <1>5, <1>51 DEF Became
<1>7. HasRows(D[w.chat], w.by, w.to, "accepted", "unfriended")
  BY <1>1, <1>6 DEF HasRows
<1>8. To(Onward(w), {"direct"}, Awaiting(Onward(w)))
  BY <1>1, <1>3 DEF To, Awaiting
<1>9. MakesPending(Onward(w), D, F, S, B)
  BY <1>1, <1>3, <1>6, <1>7, <1>8 DEF MakesPending, WithChat
<1> QED BY <1>3, <1>4, <1>6, <1>9 DEF Kept, AtWork, AtDirect

LEMMA MakesPendingKept ==
  ASSUME NEW w, HandlerShaped(w), NEW C, ChatsTyped(C), NEW F, F \subseteq UserPairs, NEW S, NEW B,
         B \subseteq Pairs, MakesPending(w, C, F, S, B)
  PROVE  ChatsTyped(RowsWritten(C, w)) /\ Kept(Onward(w), RowsWritten(C, w), F, S, B)
<1>1. /\ To(w, {"direct"}, Awaiting(w)) /\ Free(B, w.by, w.to) /\ {w.by, w.to} \notin F
      /\ w.chat \in 1..Len(C) /\ InTune(C, F, S, B, w.chat, {}, {})
      /\ HasRows(C[w.chat], w.by, w.to, "accepted", "unfriended")
      /\ w.by # w.to /\ <<w.by, w.to>> \in Pairs
  BY DEF MakesPending, WithChat, Free, Pairs
<1>2. Begins(w.todo, Become({w.to}, "pending"), Subscribing(w)) /\ Subscribing(w) # <<>>
  BY <1>1, DirectLists, Zenon DEF To, Begins
<1>3. /\ HandlerShaped(Onward(w)) /\ Onward(w).at = "write" /\ Onward(w).todo = Subscribing(w)
      /\ Onward(w).job = w.job /\ Onward(w).by = w.by /\ Onward(w).to = w.to
      /\ Statement(w) = Become({w.to}, "pending")
  BY <1>2, WritesOn, Zenon
<1> DEFINE h == Restated(C[w.chat], {w.to}, "pending")
           D == Replaced(C, w.chat, h)
<1>4. RowsWritten(C, w) = D
  BY <1>3 DEF RowsWritten, Become
<1> HIDE DEF D, h
<1>5. IsDirect(C[w.chat]) /\ RowsOf(C[w.chat]) = {w.by, w.to} /\ "pending" \in Statuses \ {"none"}
  BY <1>1 DEF HasRows, Statuses
<1>51. Became(D, h, C, w.chat, w.by, w.to, {w.to}, "pending") /\ InTune(D, F, S, B, w.chat, {}, {})
  <2>1. h = Restated(C[w.chat], {w.to}, "pending") /\ D = Replaced(C, w.chat, h)
    BY DEF D, h
  <2>2. Becoming(C, w.chat, w.by, w.to, "pending", F, S, B, w.chat, {}, {})
    BY <1>1, <1>5 DEF Becoming
  <2> QED BY <2>1, <2>2, RowsBecome, Zenon
<1>6. /\ ChatsTyped(D) /\ w.chat \in 1..Len(D) /\ D[w.chat] = h /\ InTune(D, F, S, B, w.chat, {}, {})
      /\ IsDirect(h) /\ RowsOf(h) = {w.by, w.to} /\ h.member[w.to] = "pending"
      /\ h.member[w.by] = C[w.chat].member[w.by]
  BY <1>1, <1>5, <1>51 DEF Became
<1>7. HasRows(h, w.by, w.to, "accepted", "pending")
  BY <1>1, <1>6 DEF HasRows
<1>8. Standing(D[w.chat], F)
  BY <1>1, <1>6, <1>7, StandingOf
<1>9. Tuned(D, F, S, B)
  BY <1>6, <1>8, TuneCloses DEF Tuned
<1>10. To(Onward(w), {"direct"}, Subscribing(Onward(w)))
  BY <1>1, <1>3 DEF To, Subscribing
<1>11. Subscribes(Onward(w), D, F, S, B)
  BY <1>1, <1>3, <1>9, <1>10 DEF Subscribes
<1> QED BY <1>3, <1>4, <1>6, <1>11 DEF Kept, AtWork, AtDirect

LEMMA UnfriendsKept ==
  ASSUME NEW w, HandlerShaped(w), NEW C, ChatsTyped(C), NEW F, F \subseteq UserPairs, NEW S, NEW B,
         B \subseteq Pairs, Unfriends(w, C, F, S, B)
  PROVE  ChatsTyped(RowsWritten(C, w)) /\ Kept(Onward(w), RowsWritten(C, w), F, S, B)
<1>1. PICK v \in Users :
        /\ To(w, {"unfriend"}, Unfriending(w, v)) /\ Free(B, w.by, v) /\ Tuned(C, F, S, B)
        /\ w.chat \in 1..Len(C) /\ IsDirect(C[w.chat]) /\ RowsOf(C[w.chat]) = {w.by, v}
  BY DEF Unfriends, EndOf
<1>2. Begins(w.todo, Become(Users, "unfriended"), Forgetting(w, v)) /\ Forgetting(w, v) # <<>>
  <2>1. w.todo = Unfriending(w, v)
    BY <1>1 DEF To
  <2>2. Begins(w.todo, Become(Users, "unfriended"), Forgetting(w, v))
    BY <2>1, EndLists, Zenon
  <2>3. Begins(Forgetting(w, v), Befriend(w.by, v, FALSE), ForgettingBoth(w, v))
    BY EndLists, Zenon
  <2> QED BY <2>2, <2>3 DEF Begins
<1>3. /\ HandlerShaped(Onward(w)) /\ Onward(w).at = "write" /\ Onward(w).todo = Forgetting(w, v)
      /\ Onward(w).job = w.job /\ Onward(w).by = w.by
      /\ Onward(w).chat = w.chat /\ Statement(w) = Become(Users, "unfriended")
  BY <1>2, WritesOn, Zenon
<1> DEFINE h == Restated(C[w.chat], Users, "unfriended")
           D == Replaced(C, w.chat, h)
<1>4. RowsWritten(C, w) = D
  BY <1>3 DEF RowsWritten, Become
<1> HIDE DEF D, h
<1>5. /\ InTune(C, F, S, B, 0, {w.by, v}, {}) /\ "unfriended" \in Statuses \ {"none"}
      /\ w.by \in Users /\ <<w.by, v>> \in Pairs
  BY <1>1, TuneForgives DEF Tuned, Statuses, Free, Pairs
<1>51. Became(D, h, C, w.chat, w.by, v, Users, "unfriended") /\ InTune(D, F, S, B, w.chat, {w.by, v}, {})
  <2>1. h = Restated(C[w.chat], Users, "unfriended") /\ D = Replaced(C, w.chat, h)
    BY DEF D, h
  <2>2. Becoming(C, w.chat, w.by, v, "unfriended", F, S, B, 0, {w.by, v}, {})
    BY <1>1, <1>5 DEF Becoming
  <2> QED BY <2>1, <2>2, RowsBecome, Zenon
<1>6. /\ ChatsTyped(D) /\ w.chat \in 1..Len(D) /\ D[w.chat] = h /\ InTune(D, F, S, B, w.chat, {w.by, v}, {})
      /\ IsDirect(h) /\ RowsOf(h) = {w.by, v} /\ h.member[w.by] = "unfriended"
      /\ h.member[v] = "unfriended"
  BY <1>1, <1>5, <1>51 DEF Became
<1>7. HasRows(D[w.chat], w.by, v, "unfriended", "unfriended")
  BY <1>6 DEF HasRows
<1>8. To(Onward(w), {"unfriend"}, Forgetting(Onward(w), v))
  BY <1>1, <1>3 DEF To, Forgetting
<1>9. Forgets(Onward(w), D, F, S, B)
  BY <1>1, <1>3, <1>6, <1>7, <1>8 DEF Forgets
<1> QED BY <1>3, <1>4, <1>6, <1>9 DEF Kept, AtWork, AtEnding

LEMMA BlocksChatKept ==
  ASSUME NEW w, HandlerShaped(w), NEW C, ChatsTyped(C), NEW F, F \subseteq UserPairs, NEW S, NEW B,
         B \subseteq Pairs, BlocksChat(w, C, F, S, B)
  PROVE  ChatsTyped(RowsWritten(C, w)) /\ Kept(Onward(w), RowsWritten(C, w), F, S, B)
<1>1. /\ To(w, BlockJobs, BlockingChat(w)) /\ <<w.by, w.to>> \in Pairs
      /\ InTune(C, F, S, B, 0, {}, {w.by, w.to}) /\ Silenced(w, S)
      /\ w.chat \in 1..Len(C) /\ IsDirect(C[w.chat]) /\ RowsOf(C[w.chat]) = {w.by, w.to}
  BY DEF BlocksChat, BlockOf
<1>2. Begins(w.todo, Become(Users, "unfriended"), BlockingLast(w)) /\ BlockingLast(w) # <<>>
  BY <1>1, BlockLists, Zenon DEF To, Begins
<1>3. /\ HandlerShaped(Onward(w)) /\ Onward(w).at = "write" /\ Onward(w).todo = BlockingLast(w)
      /\ Onward(w).job = w.job /\ Onward(w).by = w.by /\ Onward(w).to = w.to
      /\ Onward(w).chat = w.chat /\ Statement(w) = Become(Users, "unfriended")
  BY <1>2, WritesOn, Zenon
<1> DEFINE h == Restated(C[w.chat], Users, "unfriended")
           D == Replaced(C, w.chat, h)
<1>4. RowsWritten(C, w) = D
  BY <1>3 DEF RowsWritten, Become
<1> HIDE DEF D, h
<1>5. /\ InTune(C, F, S, B, 0, {w.by, w.to}, {w.by, w.to}) /\ "unfriended" \in Statuses \ {"none"}
      /\ w.by \in Users /\ w.to \in Users
  BY <1>1, TuneForgives DEF Statuses, Pairs
<1>51. Became(D, h, C, w.chat, w.by, w.to, Users, "unfriended") /\ InTune(D, F, S, B, w.chat, {w.by, w.to}, {w.by, w.to})
  <2>1. h = Restated(C[w.chat], Users, "unfriended") /\ D = Replaced(C, w.chat, h)
    BY DEF D, h
  <2>2. Becoming(C, w.chat, w.by, w.to, "unfriended", F, S, B, 0, {w.by, w.to}, {w.by, w.to})
    BY <1>1, <1>5 DEF Becoming
  <2> QED BY <2>1, <2>2, RowsBecome, Zenon
<1>6. /\ ChatsTyped(D) /\ w.chat \in 1..Len(D) /\ D[w.chat] = h
      /\ InTune(D, F, S, B, w.chat, {w.by, w.to}, {w.by, w.to})
      /\ IsDirect(h) /\ RowsOf(h) = {w.by, w.to} /\ h.member[w.by] = "unfriended"
      /\ h.member[w.to] = "unfriended"
  BY <1>1, <1>5, <1>51 DEF Became
<1>7. HasRows(D[w.chat], w.by, w.to, "unfriended", "unfriended")
  BY <1>6 DEF HasRows
<1>8. To(Onward(w), BlockJobs, BlockingLast(Onward(w))) /\ Silenced(Onward(w), S)
  BY <1>1, <1>3 DEF To, BlockingLast, Reporting, Silenced
<1>9. BlocksLast(Onward(w), D, F, S, B)
  BY <1>1, <1>3, <1>6, <1>7, <1>8 DEF BlocksLast
<1> QED BY <1>3, <1>4, <1>6, <1>9 DEF Kept, AtWork, AtBlock

LEMMA StatusKept ==
  ASSUME NEW w, HandlerShaped(w), NEW C, ChatsTyped(C), NEW F, F \subseteq UserPairs, NEW S, NEW B,
         B \subseteq Pairs, AtWork(w, C, F, S, B), w.at = "write", Statement(w).do = "status"
  PROVE  /\ w.chat \in 1..Len(C)
         /\ ChatsTyped(RowsWritten(C, w)) /\ Kept(Onward(w), RowsWritten(C, w), F, S, B)
<1>1. Writing(w, C, F, S, B, "status")
  BY WhatIsWritten
<1>2. \/ Answers(w, C, F, S, B) \/ Reopens(w, C, F, S, B) \/ MakesPending(w, C, F, S, B)
      \/ Unfriends(w, C, F, S, B) \/ BlocksChat(w, C, F, S, B)
  BY <1>1 DEF Writing
<1>3. w.chat \in 1..Len(C)
  BY <1>2 DEF Answers, Reopens, MakesPending, Unfriends, BlocksChat, WithChat, EndOf
<1> QED BY <1>2, <1>3, AnswersKept, ReopensKept, MakesPendingKept, UnfriendsKept, BlocksChatKept, Zenon

(* A chat is made.                                                          *)
MadeBy(w) == [type |-> Statement(w).type, admin |-> w.by, member |-> NoOne, gone |-> FALSE]
InChat(w, c, todo) == [w EXCEPT !.chat = c, !.todo = todo]
LEMMA InChatOf ==
  ASSUME NEW w, HandlerShaped(w), NEW c, NEW todo, NEW d, d = InChat(w, c, todo)
  PROVE  /\ HandlerShaped(d) /\ d.at = w.at /\ d.todo = todo
         /\ d.job = w.job /\ d.by = w.by /\ d.to = w.to /\ d.chat = c
<1>1. d = [w EXCEPT !.chat = c, !.todo = todo]
  BY DEF InChat
<1>2. w = [at |-> w.at, job |-> w.job, by |-> w.by, to |-> w.to, chat |-> w.chat, todo |-> w.todo]
  BY DEF HandlerShaped
<1>3. PICK p, q, r, s, y, z : w = [at |-> p, job |-> q, by |-> r, to |-> s, chat |-> y, todo |-> z]
  BY <1>2
<1>4. d = [at |-> p, job |-> q, by |-> r, to |-> s, chat |-> c, todo |-> todo]
  BY <1>1, <1>3
<1> QED BY <1>3, <1>4 DEF HandlerShaped

HasNew(D, C, k, h, F, S, B) ==
  /\ ChatsTyped(D) /\ k \in 1..Len(D) /\ D[k] = h
  /\ InTune(D, F, S, B, k, {}, {}) /\ RowsOf(h) = {}
  /\ \A f \in UserPairs : Between(D, f) = Between(C, f)
LEMMA MadeChat ==
  ASSUME NEW C, ChatsTyped(C), NEW type \in {"direct", "group"}, NEW u \in Users,
         NEW F, F \subseteq UserPairs, NEW S, NEW B, B \subseteq Pairs, Tuned(C, F, S, B),
         NEW h, h = [type |-> type, admin |-> u, member |-> NoOne, gone |-> FALSE],
         NEW D, D = Append(C, h), NEW k, k = Len(C) + 1
  PROVE  HasNew(D, C, k, h, F, S, B)
<1>1. h \in ChatRec /\ RowsOf(h) = {} /\ ~h.gone
  BY DEF ChatRec, NoOne, RowsOf, Statuses
<1>2. C \in Seq(ChatRec) /\ \A i \in 1..Len(C) : C[i].gone => C[i].member = NoOne
  BY DEF ChatsTyped
<1>3. InTune(D, F, S, B, k, {}, {}) /\ \A f \in UserPairs : Between(D, f) = Between(C, f)
  BY <1>1, <1>2, TuneAppended DEF Tuned
<1>4. /\ D \in Seq(ChatRec) /\ Len(D) = Len(C) + 1 /\ D[Len(C) + 1] = h
      /\ \A i \in 1..Len(C) : D[i] = C[i]
  BY <1>1, <1>2
<1>5. Len(C) \in Nat
  BY <1>2
<1>6. ChatsTyped(D)
  <2> SUFFICES ASSUME NEW i \in 1..Len(D), D[i].gone PROVE D[i].member = NoOne
    BY <1>4 DEF ChatsTyped
  <2>1. i \in 1..Len(C)
    BY <1>1, <1>4, <1>5
  <2> QED BY <1>2, <1>4, <2>1
<1>7. k \in 1..Len(D) /\ D[k] = h
  BY <1>4, <1>5
<1> QED BY <1>1, <1>3, <1>6, <1>7 DEF HasNew

LEMMA OpensChatKept ==
  ASSUME NEW w, HandlerShaped(w), NEW C, ChatsTyped(C), NEW F, F \subseteq UserPairs, NEW S, NEW B,
         B \subseteq Pairs, OpensChat(w, C, F, S, B), NEW D, D = Append(C, MadeBy(w)),
         NEW d, d = InChat(w, Len(C) + 1, Tail(w.todo))
  PROVE  ChatsTyped(D) /\ Kept(d, D, F, S, B)
<1>1. To(w, {"direct"}, Opening(w)) /\ Free(B, w.by, w.to) /\ Tuned(C, F, S, B) /\ Between(C, {w.by, w.to}) = {}
  BY DEF OpensChat
<1>2. Begins(w.todo, NewChat("direct"), FirstRow(w))
  <2>1. w.todo = Opening(w)
    BY <1>1 DEF To
  <2> QED BY <2>1, DirectLists, Zenon
<1>3. MadeBy(w) = [type |-> "direct", admin |-> w.by, member |-> NoOne, gone |-> FALSE]
  <2>1. Statement(w) = NewChat("direct")
    BY <1>2 DEF Begins, Statement
  <2>2. Statement(w).type = "direct"
    BY <2>1 DEF NewChat
  <2> QED BY <2>2, Zenon DEF MadeBy
<1>4. d = InChat(w, Len(C) + 1, FirstRow(w))
  BY <1>2 DEF Begins
<1>5. /\ HandlerShaped(d) /\ d.at = w.at /\ d.todo = FirstRow(w)
      /\ d.job = w.job /\ d.by = w.by /\ d.to = w.to /\ d.chat = Len(C) + 1
  BY <1>4, InChatOf
<1>6. w.by \in Users /\ w.to \in Users /\ {w.by, w.to} \in UserPairs /\ {w.by, w.to} # {}
  BY <1>1 DEF Free, Pairs, UserPairs
<1> DEFINE h == MadeBy(w)
           k == Len(C) + 1
<1> HIDE DEF h, k
<1>7. /\ ChatsTyped(D) /\ k \in 1..Len(D) /\ D[k] = h
      /\ InTune(D, F, S, B, k, {}, {}) /\ RowsOf(h) = {}
      /\ \A f \in UserPairs : Between(D, f) = Between(C, f)
  <2>1. h = [type |-> "direct", admin |-> w.by, member |-> NoOne, gone |-> FALSE] /\ k = Len(C) + 1
    BY <1>3 DEF h, k
  <2>2. D = Append(C, h) /\ "direct" \in {"direct", "group"}
    BY DEF h
  <2>3. HasNew(D, C, k, h, F, S, B)
    BY <1>1, <1>6, <2>1, <2>2, MadeChat, Zenon
  <2> QED BY <2>3 DEF HasNew
<1>8. IsDirect(h) /\ {w.by, w.to} \notin F
  <2>1. IsDirect(h)
    BY <1>3 DEF h, IsDirect
  <2> QED BY <1>1, <1>6, <2>1 DEF Tuned, InTune, FriendsHaveChats
<1>9. To(d, {"direct"}, FirstRow(d))
  BY <1>1, <1>5 DEF To, FirstRow
<1>10. AddsFirst(d, D, F, S, B)
  BY <1>1, <1>5, <1>6, <1>7, <1>8, <1>9 DEF AddsFirst, WithChat, k
<1> QED BY <1>5, <1>7, <1>10 DEF Kept, AtWork, AtDirect

LEMMA FoundsKept ==
  ASSUME NEW w, HandlerShaped(w), NEW C, ChatsTyped(C), NEW F, F \subseteq UserPairs, NEW S, NEW B,
         B \subseteq Pairs, Founds(w, C, F, S, B), NEW D, D = Append(C, MadeBy(w)),
         NEW d, d = InChat(w, Len(C) + 1, Tail(w.todo))
  PROVE  ChatsTyped(D) /\ Kept(d, D, F, S, B)
<1>1. To(w, {"group"}, Founding(w)) /\ w.by \in Users /\ w.to \in Users /\ Tuned(C, F, S, B)
  BY DEF Founds
<1>2. Begins(w.todo, NewChat("group"), FoundersRow(w))
  <2>1. w.todo = Founding(w)
    BY <1>1 DEF To
  <2> QED BY <2>1, GroupLists, Zenon
<1>3. MadeBy(w) = [type |-> "group", admin |-> w.by, member |-> NoOne, gone |-> FALSE]
  <2>1. Statement(w) = NewChat("group")
    BY <1>2 DEF Begins, Statement
  <2>2. Statement(w).type = "group"
    BY <2>1 DEF NewChat
  <2> QED BY <2>2, Zenon DEF MadeBy
<1>4. d = InChat(w, Len(C) + 1, FoundersRow(w))
  BY <1>2 DEF Begins
<1>5. /\ HandlerShaped(d) /\ d.at = w.at /\ d.todo = FoundersRow(w)
      /\ d.job = w.job /\ d.by = w.by /\ d.to = w.to /\ d.chat = Len(C) + 1
  BY <1>4, InChatOf
<1> DEFINE h == MadeBy(w)
           k == Len(C) + 1
<1> HIDE DEF h, k
<1>7. ChatsTyped(D) /\ k \in 1..Len(D) /\ D[k] = h /\ InTune(D, F, S, B, k, {}, {})
  <2>1. h = [type |-> "group", admin |-> w.by, member |-> NoOne, gone |-> FALSE] /\ k = Len(C) + 1
    BY <1>3 DEF h, k
  <2>2. D = Append(C, h) /\ "group" \in {"direct", "group"}
    BY DEF h
  <2>3. HasNew(D, C, k, h, F, S, B)
    BY <1>1, <2>1, <2>2, MadeChat, Zenon
  <2> QED BY <2>3 DEF HasNew
<1>8. ~IsDirect(D[k]) /\ D[k].type = "group"
  BY <1>3, <1>7 DEF h, IsDirect
<1>9. Tuned(D, F, S, B)
  BY <1>7, <1>8, TuneCloses DEF Tuned
<1>10. To(d, {"group"}, FoundersRow(d))
  BY <1>1, <1>5 DEF To, FoundersRow
<1>11. AddsFounder(d, D, F, S, B)
  BY <1>1, <1>5, <1>7, <1>8, <1>9, <1>10 DEF AddsFounder, OfGroup, k
<1> QED BY <1>5, <1>7, <1>11 DEF Kept, AtWork, AtGroup

LEMMA MadeKept ==
  ASSUME NEW w, HandlerShaped(w), NEW C, ChatsTyped(C), NEW F, F \subseteq UserPairs, NEW S, NEW B,
         B \subseteq Pairs, AtWork(w, C, F, S, B), w.at = "write", Statement(w).do = "chat",
         NEW D, D = Append(C, MadeBy(w)), NEW d, d = InChat(w, Len(C) + 1, Tail(w.todo))
  PROVE  ChatsTyped(D) /\ Kept(d, D, F, S, B)
<1>1. Writing(w, C, F, S, B, "chat")
  BY WhatIsWritten
<1>2. OpensChat(w, C, F, S, B) \/ Founds(w, C, F, S, B)
  BY <1>1 DEF Writing
<1> QED BY <1>2, OpensChatKept, FoundsKept, Zenon

(* A row is added, unless there is one or the chat is gone.                 *)
RowAdded(h, u, status) == [h EXCEPT !.member[u] = status]
Vacant(C, w) == ~C[w.chat].gone /\ C[w.chat].member[Statement(w).user] = "none"
RowPut(C, w) ==
  IF Vacant(C, w) THEN Replaced(C, w.chat, RowAdded(C[w.chat], Statement(w).user, Statement(w).status))
  ELSE C
AfterRow(C, w) == IF Vacant(C, w) THEN Onward(w) ELSE Idle

LEMMA AddedRow ==
  ASSUME NEW h \in ChatRec, NEW u \in Users, NEW status \in Statuses \ {"none"},
         NEW g, g = RowAdded(h, u, status)
  PROVE  /\ g \in ChatRec /\ RowsOf(g) = RowsOf(h) \cup {u} /\ g.member[u] = status
         /\ \A v \in Users : v # u => g.member[v] = h.member[v]
         /\ g.type = h.type /\ g.gone = h.gone
<1>1. g = [h EXCEPT !.member[u] = status]
  BY DEF RowAdded
<1>2. g.member = [h.member EXCEPT ![u] = status] /\ g.type = h.type /\ g.gone = h.gone /\ g.admin = h.admin
  BY <1>1 DEF ChatRec
<1>3. g \in ChatRec
  BY <1>1, <1>2 DEF ChatRec
<1>4. h.member \in [Users -> Statuses]
  BY DEF ChatRec
<1>5. g.member[u] = status /\ \A v \in Users : v # u => g.member[v] = h.member[v]
  BY <1>2, <1>4
<1>6. RowsOf(g) = RowsOf(h) \cup {u}
  BY <1>5 DEF RowsOf
<1> QED BY <1>2, <1>3, <1>5, <1>6

LEMMA AddsFirstKept ==
  ASSUME NEW w, HandlerShaped(w), NEW C, ChatsTyped(C), NEW F, F \subseteq UserPairs, NEW S, NEW B,
         B \subseteq Pairs, AddsFirst(w, C, F, S, B)
  PROVE  ChatsTyped(RowPut(C, w)) /\ Kept(AfterRow(C, w), RowPut(C, w), F, S, B)
<1>1. /\ To(w, {"direct"}, FirstRow(w)) /\ Free(B, w.by, w.to) /\ {w.by, w.to} \notin F
      /\ w.chat \in 1..Len(C) /\ InTune(C, F, S, B, w.chat, {}, {})
      /\ Between(C, {w.by, w.to}) = {} /\ IsDirect(C[w.chat]) /\ RowsOf(C[w.chat]) = {}
  BY DEF AddsFirst, WithChat
<1>2. Begins(w.todo, AddRow(w.by, "accepted"), SecondRow(w)) /\ SecondRow(w) # <<>>
  <2>1. w.todo = FirstRow(w)
    BY <1>1 DEF To
  <2>2. Begins(w.todo, AddRow(w.by, "accepted"), SecondRow(w))
    BY <2>1, DirectLists, Zenon
  <2>3. Begins(SecondRow(w), AddRow(w.to, "pending"), Subscribing(w))
    BY DirectLists, Zenon
  <2> QED BY <2>2, <2>3 DEF Begins
<1>3. /\ HandlerShaped(Onward(w)) /\ Onward(w).at = "write" /\ Onward(w).todo = SecondRow(w)
      /\ Onward(w).job = w.job /\ Onward(w).by = w.by /\ Onward(w).to = w.to
      /\ Onward(w).chat = w.chat /\ Statement(w) = AddRow(w.by, "accepted")
  BY <1>2, WritesOn, Zenon
<1>4. Statement(w).user = w.by /\ Statement(w).status = "accepted"
  BY <1>3 DEF AddRow
<1>5. w.by \in Users /\ w.to \in Users /\ w.by # w.to /\ {w.by, w.to} \in UserPairs
  BY <1>1 DEF Free, Pairs, UserPairs
<1>6. Vacant(C, w)
  BY <1>1, <1>4, <1>5 DEF Vacant, IsDirect, RowsOf
<1> DEFINE h == C[w.chat]
           g == RowAdded(h, w.by, "accepted")
           D == Replaced(C, w.chat, g)
<1>7. RowPut(C, w) = D /\ AfterRow(C, w) = Onward(w)
  BY <1>4, <1>6 DEF RowPut, AfterRow
<1>8. h \in ChatRec /\ C \in Seq(ChatRec) /\ "accepted" \in Statuses \ {"none"}
  BY <1>1 DEF ChatsTyped, Statuses
<1> HIDE DEF h, g, D
<1>9. g \in ChatRec /\ RowsOf(g) = {w.by} /\ g.member[w.by] = "accepted" /\ IsDirect(g) /\ ~g.gone
  BY <1>1, <1>5, <1>8, AddedRow DEF g, h, IsDirect
<1>10. Loose(g) /\ Loose(h)
  BY <1>1, <1>9 DEF Loose, h
<1>11. \A f \in F \ {{}} : w.chat \notin Between(C, f)
  <2> SUFFICES ASSUME NEW f \in F, w.chat \in Between(C, f) PROVE FALSE
    OBVIOUS
  <2>1. f \subseteq RowsOf(h) /\ IsDirect(h) /\ f \in UserPairs
    BY DEF Between, h
  <2> QED BY <1>10, <2>1, LooseHoldsNoPair
<1>12. InTune(D, F, S, B, w.chat, {}, {})
  BY <1>1, <1>8, <1>9, <1>10, <1>11, TuneLoose DEF D
<1>13. ChatsTyped(D) /\ ButOne(D, C, w.chat, g)
  BY <1>1, <1>9, ReplacedTyped DEF D
<1>14. Between(D, {w.by, w.to}) = {}
  <2>1. /\ \A i : i # w.chat => (i \in Between(D, {w.by, w.to}) <=> i \in Between(C, {w.by, w.to}))
        /\ w.chat \in Between(D, {w.by, w.to}) <=> IsDirect(g) /\ {w.by, w.to} \subseteq RowsOf(g)
    BY <1>1, <1>8, <1>9, ReplacedBetween DEF D
  <2> QED BY <1>1, <1>5, <1>9, <2>1
<1>15. D[w.chat] = g /\ w.chat \in 1..Len(D)
  BY <1>1, <1>13 DEF ButOne
<1>16. To(Onward(w), {"direct"}, SecondRow(Onward(w)))
  BY <1>1, <1>3 DEF To, SecondRow
<1>17. AddsSecond(Onward(w), D, F, S, B)
  BY <1>1, <1>3, <1>9, <1>12, <1>14, <1>15, <1>16 DEF AddsSecond, WithChat
<1> QED BY <1>3, <1>7, <1>13, <1>17 DEF Kept, AtWork, AtDirect

LEMMA AddsSecondKept ==
  ASSUME NEW w, HandlerShaped(w), NEW C, ChatsTyped(C), NEW F, F \subseteq UserPairs, NEW S, NEW B,
         B \subseteq Pairs, AddsSecond(w, C, F, S, B)
  PROVE  ChatsTyped(RowPut(C, w)) /\ Kept(AfterRow(C, w), RowPut(C, w), F, S, B)
<1>1. /\ To(w, {"direct"}, SecondRow(w)) /\ Free(B, w.by, w.to) /\ {w.by, w.to} \notin F
      /\ w.chat \in 1..Len(C) /\ InTune(C, F, S, B, w.chat, {}, {})
      /\ Between(C, {w.by, w.to}) = {} /\ IsDirect(C[w.chat])
      /\ RowsOf(C[w.chat]) = {w.by} /\ C[w.chat].member[w.by] = "accepted"
  BY DEF AddsSecond, WithChat
<1>2. Begins(w.todo, AddRow(w.to, "pending"), Subscribing(w)) /\ Subscribing(w) # <<>>
  <2>1. w.todo = SecondRow(w)
    BY <1>1 DEF To
  <2>2. Begins(w.todo, AddRow(w.to, "pending"), Subscribing(w))
    BY <2>1, DirectLists, Zenon
  <2>3. Begins(Subscribing(w), Subscribe(w.by, w.to, TRUE), <<>>)
    BY DirectLists, Zenon
  <2> QED BY <2>2, <2>3 DEF Begins
<1>3. /\ HandlerShaped(Onward(w)) /\ Onward(w).at = "write" /\ Onward(w).todo = Subscribing(w)
      /\ Onward(w).job = w.job /\ Onward(w).by = w.by /\ Onward(w).to = w.to
      /\ Statement(w) = AddRow(w.to, "pending")
  BY <1>2, WritesOn, Zenon
<1>4. Statement(w).user = w.to /\ Statement(w).status = "pending"
  BY <1>3 DEF AddRow
<1>5. w.by \in Users /\ w.to \in Users /\ w.by # w.to
  BY <1>1 DEF Free, Pairs
<1>6. Vacant(C, w)
  BY <1>1, <1>4, <1>5 DEF Vacant, IsDirect, RowsOf
<1> DEFINE h == C[w.chat]
           g == RowAdded(h, w.to, "pending")
           D == Replaced(C, w.chat, g)
<1>7. RowPut(C, w) = D /\ AfterRow(C, w) = Onward(w)
  BY <1>4, <1>6 DEF RowPut, AfterRow
<1>8. h \in ChatRec /\ C \in Seq(ChatRec) /\ "pending" \in Statuses \ {"none"}
  BY <1>1 DEF ChatsTyped, Statuses
<1> HIDE DEF h, g, D
<1>9. /\ g \in ChatRec /\ RowsOf(g) = {w.by, w.to} /\ g.member[w.by] = "accepted" /\ g.member[w.to] = "pending"
      /\ IsDirect(g) /\ ~g.gone
  BY <1>1, <1>5, <1>8, AddedRow DEF g, h, IsDirect
<1>10. HasRows(g, w.by, w.to, "accepted", "pending") /\ Loose(C[w.chat])
  BY <1>1, <1>9 DEF HasRows, Loose
<1>11. Tuned(D, F, S, B)
  BY <1>1, <1>5, <1>8, <1>9, <1>10, TunePaired DEF D, Tuned
<1>12. ChatsTyped(D)
  BY <1>1, <1>9, ReplacedTyped DEF D
<1>13. To(Onward(w), {"direct"}, Subscribing(Onward(w)))
  BY <1>1, <1>3 DEF To, Subscribing
<1>14. Subscribes(Onward(w), D, F, S, B)
  BY <1>1, <1>3, <1>11, <1>13 DEF Subscribes
<1> QED BY <1>3, <1>7, <1>12, <1>14 DEF Kept, AtWork, AtDirect

LEMMA GroupRowPut ==
  ASSUME NEW w, NEW C, ChatsTyped(C), NEW F, F \subseteq UserPairs, NEW S, NEW B,
         B \subseteq Pairs, OfGroup(w, C, F, S, B), NEW u \in Users, NEW status \in Statuses \ {"none"},
         Statement(w) = AddRow(u, status)
  PROVE  ChatsTyped(RowPut(C, w)) /\ OfGroup(w, RowPut(C, w), F, S, B)
<1>1. /\ w.by \in Users /\ w.to \in Users /\ Tuned(C, F, S, B)
      /\ w.chat \in 1..Len(C) /\ C[w.chat].type = "group" /\ C \in Seq(ChatRec)
  BY DEF OfGroup, ChatsTyped
<1>2. CASE ~Vacant(C, w)
  BY <1>2 DEF RowPut
<1>3. CASE Vacant(C, w)
  <2> DEFINE h == C[w.chat]
             g == RowAdded(h, u, status)
             D == Replaced(C, w.chat, g)
  <2>1. RowPut(C, w) = D /\ ~h.gone /\ h \in ChatRec
    BY <1>1, <1>3 DEF RowPut, AddRow, Vacant
  <2> HIDE DEF g, D, h
  <2>2. g \in ChatRec /\ g.type = h.type /\ g.gone = h.gone
    BY <2>1, AddedRow DEF g
  <2>3. h.type = "group" /\ h = C[w.chat]
    BY <1>1 DEF h
  <2>4. Tuned(D, F, S, B)
    BY <1>1, <2>2, <2>3, TuneGroup DEF D, Tuned
  <2>5. ChatsTyped(D) /\ ButOne(D, C, w.chat, g)
    BY <1>1, <2>1, <2>2, ReplacedTyped DEF D
  <2>6. w.chat \in 1..Len(D) /\ D[w.chat] = g
    BY <1>1, <2>5 DEF ButOne
  <2> QED BY <1>1, <2>1, <2>2, <2>3, <2>4, <2>5, <2>6 DEF OfGroup
<1> QED BY <1>2, <1>3

LEMMA AddsFounderKept ==
  ASSUME NEW w, HandlerShaped(w), NEW C, ChatsTyped(C), NEW F, F \subseteq UserPairs, NEW S, NEW B,
         B \subseteq Pairs, AddsFounder(w, C, F, S, B)
  PROVE  ChatsTyped(RowPut(C, w)) /\ Kept(AfterRow(C, w), RowPut(C, w), F, S, B)
<1>1. To(w, {"group"}, FoundersRow(w)) /\ OfGroup(w, C, F, S, B) /\ w.by \in Users
  BY DEF AddsFounder, OfGroup
<1>2. Begins(w.todo, AddRow(w.by, "accepted"), Inviting) /\ Inviting # <<>>
  <2>1. w.todo = FoundersRow(w)
    BY <1>1 DEF To
  <2>2. Begins(w.todo, AddRow(w.by, "accepted"), Inviting)
    BY <2>1, GroupLists, Zenon
  <2>3. Begins(Inviting, Invite, <<>>)
    BY GroupLists, Zenon
  <2> QED BY <2>2, <2>3 DEF Begins
<1>3. /\ HandlerShaped(Onward(w)) /\ Onward(w).at = "write" /\ Onward(w).todo = Inviting
      /\ Onward(w).job = w.job /\ Onward(w).by = w.by /\ Onward(w).to = w.to
      /\ Onward(w).chat = w.chat /\ Statement(w) = AddRow(w.by, "accepted")
  BY <1>2, WritesOn, Zenon
<1>4. ChatsTyped(RowPut(C, w)) /\ OfGroup(w, RowPut(C, w), F, S, B)
  BY <1>1, <1>3, GroupRowPut DEF Statuses
<1>5. CASE Vacant(C, w)
  <2>1. AfterRow(C, w) = Onward(w)
    BY <1>5 DEF AfterRow
  <2>2. Invites(Onward(w), RowPut(C, w), F, S, B)
    BY <1>1, <1>3, <1>4 DEF Invites, To, OfGroup
  <2> QED BY <1>3, <1>4, <2>1, <2>2 DEF Kept, AtWork, AtGroup
<1>6. CASE ~Vacant(C, w)
  BY <1>4, <1>6, GoesToRest DEF AfterRow, OfGroup
<1> QED BY <1>5, <1>6

LEMMA AddsJoinerKept ==
  ASSUME NEW w, HandlerShaped(w), NEW C, ChatsTyped(C), NEW F, F \subseteq UserPairs, NEW S, NEW B,
         B \subseteq Pairs, AddsJoiner(w, C, F, S, B)
  PROVE  ChatsTyped(RowPut(C, w)) /\ Kept(AfterRow(C, w), RowPut(C, w), F, S, B)
<1>1. PICK s \in {"accepted", "pending"} :
        To(w, {"group", "add"}, JoinersRow(w, s)) /\ OfGroup(w, C, F, S, B) /\ w.to \in Users
  BY DEF AddsJoiner, OfGroup
<1>2. Begins(w.todo, AddRow(w.to, s), <<>>)
  <2>1. w.todo = JoinersRow(w, s)
    BY <1>1 DEF To
  <2> QED BY <2>1, GroupLists, Zenon
<1>3. Onward(w) = Idle /\ Statement(w) = AddRow(w.to, s)
  BY <1>2, GoesIdle, Zenon
<1>4. ChatsTyped(RowPut(C, w)) /\ OfGroup(w, RowPut(C, w), F, S, B)
  BY <1>1, <1>3, GroupRowPut DEF Statuses
<1> QED BY <1>3, <1>4, GoesToRest DEF AfterRow, OfGroup

LEMMA RowKept ==
  ASSUME NEW w, HandlerShaped(w), NEW C, ChatsTyped(C), NEW F, F \subseteq UserPairs, NEW S, NEW B,
         B \subseteq Pairs, AtWork(w, C, F, S, B), w.at = "write", Statement(w).do = "row"
  PROVE  /\ w.chat \in 1..Len(C)
         /\ ChatsTyped(RowPut(C, w)) /\ Kept(AfterRow(C, w), RowPut(C, w), F, S, B)
<1>1. Writing(w, C, F, S, B, "row")
  BY WhatIsWritten
<1>2. \/ AddsFirst(w, C, F, S, B) \/ AddsSecond(w, C, F, S, B)
      \/ AddsFounder(w, C, F, S, B) \/ AddsJoiner(w, C, F, S, B)
  BY <1>1 DEF Writing
<1>3. w.chat \in 1..Len(C)
  BY <1>2 DEF AddsFirst, AddsSecond, AddsFounder, AddsJoiner, WithChat, OfGroup
<1> QED BY <1>2, <1>3, AddsFirstKept, AddsSecondKept, AddsFounderKept, AddsJoinerKept, Zenon

(* A chat is deleted.                                                       *)
Emptied(h) == [h EXCEPT !.gone = TRUE, !.member = NoOne]
LEMMA DroppedChat ==
  ASSUME NEW h \in ChatRec, NEW g, g = Emptied(h)
  PROVE  g \in ChatRec /\ g.gone /\ g.member = NoOne /\ g.type = h.type
<1>1. g = [h EXCEPT !.gone = TRUE, !.member = NoOne]
  BY DEF Emptied
<1>2. NoOne \in [Users -> Statuses]
  BY DEF NoOne, Statuses
<1> QED BY <1>1, <1>2 DEF ChatRec

ChatDropped(C, w) == Replaced(C, w.chat, Emptied(C[w.chat]))
LEMMA DeletesKept ==
  ASSUME NEW w, HandlerShaped(w), NEW C, ChatsTyped(C), NEW F, F \subseteq UserPairs, NEW S, NEW B,
         B \subseteq Pairs, Deletes(w, C, F, S, B)
  PROVE  ChatsTyped(ChatDropped(C, w)) /\ Kept(Onward(w), ChatDropped(C, w), F, S, B)
<1>1. PICK v \in Users :
        /\ To(w, {"delete"}, Deleting(w, v)) /\ Free(B, w.by, v) /\ Tuned(C, F, S, B)
        /\ w.chat \in 1..Len(C) /\ IsDirect(C[w.chat]) /\ RowsOf(C[w.chat]) = {w.by, v}
  BY DEF Deletes, EndOf
<1>2. Begins(w.todo, DropChat, Unlinking(w, v)) /\ Unlinking(w, v) # <<>>
  <2>1. w.todo = Deleting(w, v)
    BY <1>1 DEF To
  <2>2. Begins(w.todo, DropChat, Unlinking(w, v))
    BY <2>1, EndLists, Zenon
  <2>3. Begins(Unlinking(w, v), Befriend(w.by, v, FALSE), <<>>)
    BY EndLists, Zenon
  <2> QED BY <2>2, <2>3 DEF Begins
<1>3. /\ HandlerShaped(Onward(w)) /\ Onward(w).at = "write" /\ Onward(w).todo = Unlinking(w, v)
      /\ Onward(w).job = w.job /\ Onward(w).by = w.by
  BY <1>2, WritesOn, Zenon
<1> DEFINE h == C[w.chat]
           g == Emptied(h)
           D == Replaced(C, w.chat, g)
<1>4. ChatDropped(C, w) = D
  BY DEF ChatDropped
<1>5. h \in ChatRec /\ C \in Seq(ChatRec) /\ w.by \in Users /\ {w.by, v} \in UserPairs
  BY <1>1 DEF ChatsTyped, Free, Pairs, UserPairs
<1> HIDE DEF h, g, D
<1>6. g \in ChatRec /\ g.gone /\ g.member = NoOne
  BY <1>5, DroppedChat DEF g
<1>7. ChatsTyped(D)
  BY <1>1, <1>6, ReplacedTyped DEF D
<1>8. \A f \in F \ {{w.by, v}} : w.chat \notin Between(C, f)
  <2> SUFFICES ASSUME NEW f \in F, f # {w.by, v}, w.chat \in Between(C, f) PROVE FALSE
    OBVIOUS
  <2>1. f \subseteq {w.by, v} /\ f \in UserPairs
    BY <1>1 DEF Between
  <2>2. PICK p \in Pairs : f = {p[1], p[2]}
    BY <2>1 DEF UserPairs
  <2> QED BY <2>1, <2>2 DEF Pairs
<1>9. InTune(C, F, S, B, 0, {w.by, v}, {})
  BY <1>1, TuneForgives DEF Tuned
<1>10. InTune(D, F, S, B, 0, {w.by, v}, {})
  BY <1>1, <1>5, <1>6, <1>8, <1>9, TuneDropped DEF D
<1>11. Between(D, {w.by, v}) = {}
  <2>1. /\ \A i : i # w.chat => (i \in Between(D, {w.by, v}) <=> i \in Between(C, {w.by, v}))
        /\ w.chat \in Between(D, {w.by, v}) <=> IsDirect(g) /\ {w.by, v} \subseteq RowsOf(g)
    BY <1>1, <1>5, <1>6, ReplacedBetween DEF D
  <2>2. ~IsDirect(g)
    BY <1>6 DEF IsDirect
  <2>3. \A i \in Between(C, {w.by, v}) : i = w.chat
    BY <1>1, <1>5 DEF Tuned, InTune, NoneTwice, Between
  <2> QED BY <2>1, <2>2, <2>3
<1>12. To(Onward(w), {"delete"}, Unlinking(Onward(w), v))
  BY <1>1, <1>3 DEF To, Unlinking
<1>13. Unlinks(Onward(w), D, F, S, B)
  BY <1>1, <1>3, <1>10, <1>11, <1>12 DEF Unlinks
<1> QED BY <1>3, <1>4, <1>7, <1>13 DEF Kept, AtWork, AtEnding

LEMMA DropsKept ==
  ASSUME NEW w, HandlerShaped(w), NEW C, ChatsTyped(C), NEW F, F \subseteq UserPairs, NEW S, NEW B,
         B \subseteq Pairs, Drops(w, C, F, S, B)
  PROVE  ChatsTyped(ChatDropped(C, w)) /\ Kept(Onward(w), ChatDropped(C, w), F, S, B)
<1>1. To(w, {"decline", "remove"}, Dropping) /\ LeftOne(w, C, F, S, B) /\ w.chat \in 1..Len(C)
  BY DEF Drops, LeftOne
<1>2. Begins(w.todo, DropChat, <<>>)
  <2>1. w.todo = Dropping
    BY <1>1 DEF To
  <2> QED BY <2>1, GroupLists, Zenon
<1>3. Onward(w) = Idle
  BY <1>2, GoesIdle, Zenon
<1> DEFINE h == C[w.chat]
           g == Emptied(h)
           D == Replaced(C, w.chat, g)
<1>4. ChatDropped(C, w) = D
  BY DEF ChatDropped
<1>5. h \in ChatRec /\ C \in Seq(ChatRec)
  BY <1>1 DEF ChatsTyped
<1> HIDE DEF h, g, D
<1>6. g \in ChatRec /\ g.gone /\ g.member = NoOne
  BY <1>5, DroppedChat DEF g
<1>7. ChatsTyped(D)
  BY <1>1, <1>6, ReplacedTyped DEF D
<1>8. \A f \in F \ {{}} : w.chat \notin Between(C, f)
  <2> SUFFICES ASSUME NEW f \in F, w.chat \in Between(C, f) PROVE FALSE
    OBVIOUS
  <2>1. f \subseteq RowsOf(h) /\ IsDirect(h) /\ f \in UserPairs
    BY DEF Between, h
  <2>2. Loose(h)
    BY <1>1 DEF LeftOne, Loose, h, IsDirect
  <2> QED BY <2>1, <2>2, LooseHoldsNoPair
<1>9. \E e \in {0, w.chat} : InTune(C, F, S, B, e, {}, {})
  BY <1>1 DEF LeftOne, Tuned
<1>10. Tuned(D, F, S, B)
  BY <1>1, <1>5, <1>6, <1>8, <1>9, TuneDropped DEF D, Tuned
<1> QED BY <1>3, <1>4, <1>7, <1>10, GoesToRest

LEMMA DropKept ==
  ASSUME NEW w, HandlerShaped(w), NEW C, ChatsTyped(C), NEW F, F \subseteq UserPairs, NEW S, NEW B,
         B \subseteq Pairs, AtWork(w, C, F, S, B), w.at = "write", Statement(w).do = "drop"
  PROVE  /\ w.chat \in 1..Len(C)
         /\ ChatsTyped(ChatDropped(C, w)) /\ Kept(Onward(w), ChatDropped(C, w), F, S, B)
<1>1. Writing(w, C, F, S, B, "drop")
  BY WhatIsWritten
<1>2. Deletes(w, C, F, S, B) \/ Drops(w, C, F, S, B)
  BY <1>1 DEF Writing
<1>3. w.chat \in 1..Len(C)
  BY <1>2 DEF Deletes, Drops, EndOf, LeftOne
<1> QED BY <1>2, <1>3, DeletesKept, DropsKept, Zenon

(* A report is filed last.                                                  *)
LEMMA ReportKept ==
  ASSUME NEW w, NEW C, NEW F, NEW S, NEW B,
         AtWork(w, C, F, S, B), w.at = "write", Statement(w).do = "report"
  PROVE  w.to \in Users /\ Kept(Onward(w), C, F, S, B)
<1>1. Writing(w, C, F, S, B, "report")
  BY WhatIsWritten
<1>2. ReportsLast(w, C, F, S, B)
  BY <1>1 DEF Writing
<1>3. w.todo = LastReport /\ w.to \in Users /\ Tuned(C, F, S, B)
  BY <1>2 DEF ReportsLast, To
<1>4. Begins(w.todo, Report, <<>>)
  BY <1>3, GroupLists, Zenon
<1>5. Onward(w) = Idle
  BY <1>4, GoesIdle, Zenon
<1> QED BY <1>3, <1>5, GoesToRest

(* The founder's guest is looked up.                                        *)
LooksNext(w) == [w EXCEPT !.at = "join", !.todo = <<>>]
LEMMA InviteKept ==
  ASSUME NEW w, HandlerShaped(w), NEW C, NEW F, NEW S, NEW B,
         AtWork(w, C, F, S, B), w.at = "write", Statement(w).do = "invite"
  PROVE  Kept(Idle, C, F, S, B) /\ Kept(LooksNext(w), C, F, S, B)
<1>1. Writing(w, C, F, S, B, "invite")
  BY WhatIsWritten
<1>2. Invites(w, C, F, S, B)
  BY <1>1 DEF Writing
<1>3. w.job \in {"group"} /\ OfGroup(w, C, F, S, B) /\ Tuned(C, F, S, B)
  BY <1>2 DEF Invites, To, OfGroup
<1>4. w = [at |-> w.at, job |-> w.job, by |-> w.by, to |-> w.to, chat |-> w.chat, todo |-> w.todo]
  BY DEF HandlerShaped
<1>5. PICK p, q, r, s, y, z : w = [at |-> p, job |-> q, by |-> r, to |-> s, chat |-> y, todo |-> z]
  BY <1>4
<1> DEFINE d == LooksNext(w)
<1>51. d = [w EXCEPT !.at = "join", !.todo = <<>>]
  BY DEF LooksNext
<1> HIDE DEF d
<1>6. d = [at |-> "join", job |-> q, by |-> r, to |-> s, chat |-> y, todo |-> <<>>]
  BY <1>5, <1>51
<1>7. HandlerShaped(d) /\ d.at = "join" /\ d.job = w.job /\ d.by = w.by /\ d.to = w.to /\ d.chat = w.chat /\ d.todo = <<>>
  BY <1>5, <1>6 DEF HandlerShaped
<1>8. LooksUp(d, C, F, S, B)
  BY <1>3, <1>7 DEF LooksUp, OfGroup
<1> QED BY <1>3, <1>7, <1>8, GoesToRest DEF Kept, AtWork, AtGroup, d

(* A direct chat of the two stands as one of three.                         *)
StandsFor(C, F, k, u, v) ==
  /\ k \in 1..Len(C) /\ IsDirect(C[k]) /\ RowsOf(C[k]) = {u, v}
  /\ \/ {u, v} \in F /\ HasRows(C[k], u, v, "accepted", "accepted")
     \/ {u, v} \notin F /\ \/ HasRows(C[k], u, v, "accepted", "pending")
                           \/ HasRows(C[k], u, v, "pending", "accepted")
                           \/ HasRows(C[k], u, v, "unfriended", "unfriended")
LEMMA FoundStands ==
  ASSUME NEW C, NEW F, NEW k, NEW u, NEW v, k \in Between(C, {u, v}), u # v, AllStand(C, F, 0)
  PROVE  StandsFor(C, F, k, u, v)
<1>1. k \in 1..Len(C) /\ IsDirect(C[k]) /\ u \in RowsOf(C[k]) /\ v \in RowsOf(C[k]) /\ k # 0
  BY DEF Between
<1>2. Standing(C[k], F)
  BY <1>1 DEF AllStand
<1>3. PICK y \in Users :
        /\ RowsOf(C[k]) = {u, y}
        /\ \/ {u, y} \in F /\ HasRows(C[k], u, y, "accepted", "accepted")
           \/ {u, y} \notin F /\ \/ HasRows(C[k], u, y, "accepted", "pending")
                                 \/ HasRows(C[k], u, y, "pending", "accepted")
                                 \/ HasRows(C[k], u, y, "unfriended", "unfriended")
  BY <1>1, <1>2, StandingOne DEF OneOfTwo
<1>4. y = v
  BY <1>1, <1>3
<1> QED BY <1>1, <1>3, <1>4 DEF StandsFor

(* A block looks for the chat of the two.                                   *)
LEMMA SeverKept ==
  ASSUME NEW w, HandlerShaped(w), NEW C, ChatsTyped(C), NEW F, F \subseteq UserPairs, NEW S, NEW B,
         B \subseteq Pairs, AtWork(w, C, F, S, B), w.at = "write", Statement(w).do = "sever"
  PROVE  /\ Between(C, {w.by, w.to}) = {} => Kept(Onward(w), C, F, S, B)
         /\ \A c \in Between(C, {w.by, w.to}) :
              Kept(Left([w EXCEPT !.chat = c], Severed(w) \o Tail(w.todo)), C, F, S, B)
<1>1. Writing(w, C, F, S, B, "sever")
  BY WhatIsWritten
<1>2. BlocksFind(w, C, F, S, B)
  BY <1>1 DEF Writing
<1>3. /\ To(w, BlockJobs, BlockingFind(w)) /\ <<w.by, w.to>> \in Pairs
      /\ InTune(C, F, S, B, 0, {}, {w.by, w.to}) /\ Silenced(w, S)
  BY <1>2 DEF BlocksFind, BlockOf
<1>4. Begins(w.todo, Sever, Reporting(w))
  <2>1. w.todo = BlockingFind(w)
    BY <1>3 DEF To
  <2> QED BY <2>1, BlockLists, Zenon
<1>5. w.by \in Users /\ w.to \in Users /\ w.by # w.to /\ {w.by, w.to} # {}
  BY <1>3 DEF Pairs
<1>6. ASSUME Between(C, {w.by, w.to}) = {} PROVE Kept(Onward(w), C, F, S, B)
  <2>1. {w.by, w.to} \notin F
    BY <1>3, <1>5, <1>6 DEF InTune, FriendsHaveChats
  <2>2. Parted(C, F, S, B, w.by, w.to) /\ Parted(C, F, S, B, w.to, w.by)
    <3>1. {w.to, w.by} = {w.by, w.to}
      OBVIOUS
    <3> QED BY <1>3, <1>6, <2>1, <3>1 DEF Parted, Silenced
  <2>3. BlockedArePart(C, F, S, B, {})
    <3> SUFFICES ASSUME NEW p \in B PROVE Parted(C, F, S, B, p[1], p[2])
      BY DEF BlockedArePart
    <3>1. CASE {p[1], p[2]} = {w.by, w.to}
      <4>1. p = <<w.by, w.to>> \/ p = <<w.to, w.by>>
        BY <1>5, <3>1, PairOf
      <4> QED BY <2>2, <4>1
    <3>2. CASE {p[1], p[2]} # {w.by, w.to}
      BY <1>3, <3>2 DEF InTune, BlockedArePart
    <3> QED BY <3>1, <3>2
  <2>4. Tuned(C, F, S, B)
    BY <1>3, <2>3 DEF Tuned, InTune
  <2>5. CASE w.job = "report"
    <3>1. Begins(w.todo, Sever, LastReport) /\ LastReport # <<>>
      <4>1. Begins(w.todo, Sever, LastReport)
        BY <1>4, <2>5 DEF Reporting, LastReport
      <4>2. Begins(LastReport, Report, <<>>)
        BY GroupLists, Zenon
      <4> QED BY <4>1, <4>2 DEF Begins
    <3>2. /\ HandlerShaped(Onward(w)) /\ Onward(w).at = "write" /\ Onward(w).todo = LastReport
          /\ Onward(w).job = w.job /\ Onward(w).to = w.to
      BY <3>1, WritesOn, Zenon
    <3>3. ReportsLast(Onward(w), C, F, S, B)
      BY <1>5, <2>4, <2>5, <3>2 DEF ReportsLast, To
    <3> QED BY <3>2, <3>3 DEF Kept, AtWork, AtBlock
  <2>6. CASE w.job # "report"
    <3>1. Begins(w.todo, Sever, <<>>)
      BY <1>4, <2>6 DEF Reporting
    <3>2. Onward(w) = Idle
      BY <3>1, GoesIdle, Zenon
    <3> QED BY <2>4, <3>2, GoesToRest
  <2> QED BY <2>5, <2>6
<1>7. ASSUME NEW c \in Between(C, {w.by, w.to})
      PROVE  Kept(Left([w EXCEPT !.chat = c], Severed(w) \o Tail(w.todo)), C, F, S, B)
  <2> DEFINE y == InChat(w, c, w.todo)
             t == BlockingChat(w)
             d == Left(y, t)
  <2>1. Severed(w) \o Tail(w.todo) = t
    BY <1>4 DEF Begins, Severed, BlockingChat
  <2>2. [w EXCEPT !.chat = c] = y
    <3>1. w = [at |-> w.at, job |-> w.job, by |-> w.by, to |-> w.to, chat |-> w.chat, todo |-> w.todo]
      BY DEF HandlerShaped
    <3>2. PICK p, q, r, s, e, z : w = [at |-> p, job |-> q, by |-> r, to |-> s, chat |-> e, todo |-> z]
      BY <3>1
    <3> QED BY <3>2 DEF InChat
  <2>3. Left([w EXCEPT !.chat = c], Severed(w) \o Tail(w.todo)) = d
    BY <2>1, <2>2, Zenon
  <2> HIDE DEF d, y, t
  <2>4. /\ HandlerShaped(y) /\ y.job = w.job /\ y.by = w.by /\ y.to = w.to /\ y.chat = c
    BY InChatOf DEF y
  <2>5. t # <<>>
    <3>1. Begins(t, Become(Users, "unfriended"), BlockingLast(w))
      BY BlockLists, Zenon DEF t
    <3> QED BY <3>1 DEF Begins
  <2>6. /\ HandlerShaped(d) /\ d.at = "write" /\ d.todo = t
        /\ d.job = y.job /\ d.by = y.by /\ d.to = y.to /\ d.chat = y.chat
    BY <2>4, <2>5, LeftOf DEF d
  <2>7. c \in 1..Len(C) /\ IsDirect(C[c]) /\ RowsOf(C[c]) = {w.by, w.to}
    <3>1. AllStand(C, F, 0)
      BY <1>3 DEF InTune
    <3>2. StandsFor(C, F, c, w.by, w.to)
      BY <1>5, <1>7, <3>1, FoundStands, Zenon
    <3> QED BY <3>2 DEF StandsFor
  <2>8. t = BlockingChat(d)
    BY <2>4, <2>6 DEF t, BlockingChat, Reporting
  <2>9. BlocksChat(d, C, F, S, B)
    BY <1>3, <2>4, <2>6, <2>7, <2>8 DEF BlocksChat, To, BlockOf, Silenced
  <2> QED BY <2>3, <2>6, <2>9 DEF Kept, AtWork, AtBlock
<1> QED BY <1>6, <1>7

-----------------------------------------------------------------------------
(* The statements that read.                                                *)
LEMMA WritesAreWrites ==
  ASSUME NEW w, NEW C, NEW F, NEW S, NEW B, AtWork(w, C, F, S, B), w.at # "write"
  PROVE  \/ Rests(w, C, F, S, B) \/ Inquires(w, C, F, S, B) \/ LooksUp(w, C, F, S, B)
         \/ AcceptedGroup(w, C, F, S, B) \/ AcceptedChat(w, C, F, S, B)
         \/ EndsChat(w, C, F, S, B) \/ Leaves(w, C, F, S, B)
<1>1. AtDirect(w, C, F, S, B) => Inquires(w, C, F, S, B)
  BY DEF AtDirect, Subscribes, OpensChat, AddsFirst, AddsSecond, Answers, Befriends, Reopens, MakesPending, To
<1>2. AtGroup(w, C, F, S, B) => LooksUp(w, C, F, S, B)
  BY DEF AtGroup, Founds, AddsFounder, Invites, AddsJoiner, To
<1>3. AtAccept(w, C, F, S, B) => AcceptedGroup(w, C, F, S, B) \/ AcceptedChat(w, C, F, S, B)
  BY DEF AtAccept, Confirms, To
<1>4. AtEnding(w, C, F, S, B) => EndsChat(w, C, F, S, B)
  BY DEF AtEnding, Unfriends, Forgets, ForgetsBoth, ForgetsLast, Deletes, Unlinks, To
<1>5. AtLeaving(w, C, F, S, B) => Leaves(w, C, F, S, B)
  BY DEF AtLeaving, Drops, To
<1>6. ~AtBlock(w, C, F, S, B)
  BY DEF AtBlock, Blocks, BlocksNext, BlocksFind, BlocksChat, BlocksLast, ReportsLast, To
<1> QED BY <1>1, <1>2, <1>3, <1>4, <1>5, <1>6 DEF AtWork

LEMMA WhatIsRead ==
  ASSUME NEW w, NEW C, NEW F, NEW S, NEW B, AtWork(w, C, F, S, B)
  PROVE  /\ w.at = "idle" => Rests(w, C, F, S, B)
         /\ w.at \in {"reports", "find"} => Inquires(w, C, F, S, B)
         /\ w.at = "join" => LooksUp(w, C, F, S, B)
         /\ w.at = "other" =>
              AcceptedGroup(w, C, F, S, B) \/ AcceptedChat(w, C, F, S, B) \/ EndsChat(w, C, F, S, B)
         /\ w.at = "count" => Leaves(w, C, F, S, B)
<1>1. Rests(w, C, F, S, B) => w.at = "idle"
  BY IdleShaped DEF Rests
<1>2. (Inquires(w, C, F, S, B) => w.at \in {"reports", "find"}) /\ (LooksUp(w, C, F, S, B) => w.at = "join")
  BY DEF Inquires, LooksUp
<1>3. AcceptedGroup(w, C, F, S, B) \/ AcceptedChat(w, C, F, S, B) \/ EndsChat(w, C, F, S, B) => w.at = "other"
  BY DEF AcceptedGroup, AcceptedChat, EndsChat
<1>4. Leaves(w, C, F, S, B) => w.at = "count"
  BY DEF Leaves
<1> QED BY <1>1, <1>2, <1>3, <1>4, WritesAreWrites

LEMMA AtOf ==
  ASSUME NEW w, HandlerShaped(w), NEW place, NEW d, d = [w EXCEPT !.at = place]
  PROVE  /\ HandlerShaped(d) /\ d.at = place /\ d.todo = w.todo
         /\ d.job = w.job /\ d.by = w.by /\ d.to = w.to /\ d.chat = w.chat
<1>1. w = [at |-> w.at, job |-> w.job, by |-> w.by, to |-> w.to, chat |-> w.chat, todo |-> w.todo]
  BY DEF HandlerShaped
<1>2. PICK p, q, r, s, y, z : w = [at |-> p, job |-> q, by |-> r, to |-> s, chat |-> y, todo |-> z]
  BY <1>1
<1>3. d = [at |-> place, job |-> q, by |-> r, to |-> s, chat |-> y, todo |-> z]
  BY <1>2
<1> QED BY <1>2, <1>3 DEF HandlerShaped

(* Are there reports against the one who asks.                              *)
LEMMA ReportsReadKept ==
  ASSUME NEW w, HandlerShaped(w), NEW C, NEW F, NEW S, NEW B, AtWork(w, C, F, S, B), w.at = "reports",
         NEW d, d = Idle \/ d = [w EXCEPT !.at = "find"]
  PROVE  Kept(d, C, F, S, B)
<1>1. Inquires(w, C, F, S, B)
  BY WhatIsRead
<1>2. CASE d = Idle
  BY <1>1, <1>2, GoesToRest DEF Inquires
<1>3. CASE d = [w EXCEPT !.at = "find"]
  <2>1. /\ HandlerShaped(d) /\ d.at = "find" /\ d.todo = w.todo
        /\ d.job = w.job /\ d.by = w.by /\ d.to = w.to
    BY <1>3, AtOf
  <2>2. Inquires(d, C, F, S, B)
    BY <1>1, <2>1 DEF Inquires
  <2> QED BY <2>1, <2>2 DEF Kept, AtWork, AtDirect
<1> QED BY <1>2, <1>3

(* The chat that two may have.                                              *)
ToDo(h, u, v) ==
  IF h.member[u] = "pending"
    THEN <<Become({u}, "accepted"), Befriend(u, v, TRUE), Subscribe(u, v, TRUE)>>
  ELSE IF "unfriended" \in {h.member[u], h.member[v]}
    THEN <<Become({u}, "accepted"), Become({v}, "pending"), Subscribe(u, v, TRUE)>>
  ELSE <<>>
LEMMA ChatOf ==
  ASSUME NEW w, HandlerShaped(w), NEW c
  PROVE  [w EXCEPT !.chat = c] = InChat(w, c, w.todo)
<1>1. w = [at |-> w.at, job |-> w.job, by |-> w.by, to |-> w.to, chat |-> w.chat, todo |-> w.todo]
  BY DEF HandlerShaped
<1>2. PICK p, q, r, s, e, z : w = [at |-> p, job |-> q, by |-> r, to |-> s, chat |-> e, todo |-> z]
  BY <1>1
<1> QED BY <1>2 DEF InChat

LEMMA FindKept ==
  ASSUME NEW w, HandlerShaped(w), NEW C, ChatsTyped(C), NEW F, NEW S, NEW B,
         AtWork(w, C, F, S, B), w.at = "find"
  PROVE  /\ Between(C, {w.by, w.to}) = {} => Kept(Left(w, Opening(w)), C, F, S, B)
         /\ \A c \in Between(C, {w.by, w.to}) :
              Kept(Left([w EXCEPT !.chat = c], ToDo(C[c], w.by, w.to)), C, F, S, B)
<1>1. /\ w.job = "direct" /\ w.todo = <<>> /\ Free(B, w.by, w.to) /\ Tuned(C, F, S, B)
      /\ w.by # w.to /\ w.by \in Users /\ w.to \in Users
  BY WhatIsRead DEF Inquires, Free, Pairs
<1>2. ASSUME Between(C, {w.by, w.to}) = {} PROVE Kept(Left(w, Opening(w)), C, F, S, B)
  <2> DEFINE d == Left(w, Opening(w))
  <2>1. Opening(w) # <<>>
    <3>1. Begins(Opening(w), NewChat("direct"), FirstRow(w))
      BY DirectLists, Zenon
    <3> QED BY <3>1 DEF Begins
  <2> HIDE DEF d
  <2>2. /\ HandlerShaped(d) /\ d.at = "write" /\ d.todo = Opening(w)
        /\ d.job = w.job /\ d.by = w.by /\ d.to = w.to
    BY <2>1, LeftOf DEF d
  <2>3. Opening(w) = Opening(d)
    BY <2>2 DEF Opening
  <2>4. OpensChat(d, C, F, S, B)
    BY <1>1, <1>2, <2>2, <2>3 DEF OpensChat, To
  <2> QED BY <2>2, <2>4 DEF Kept, AtWork, AtDirect, d
<1>3. ASSUME NEW c \in Between(C, {w.by, w.to})
      PROVE  Kept(Left([w EXCEPT !.chat = c], ToDo(C[c], w.by, w.to)), C, F, S, B)
  <2> DEFINE y == InChat(w, c, w.todo)
             t == ToDo(C[c], w.by, w.to)
             d == Left(y, t)
  <2>1. Left([w EXCEPT !.chat = c], ToDo(C[c], w.by, w.to)) = d
    BY ChatOf, Zenon
  <2> HIDE DEF d, y, t
  <2>2. /\ HandlerShaped(y) /\ y.job = w.job /\ y.by = w.by /\ y.to = w.to /\ y.chat = c
    BY InChatOf DEF y
  <2>3. ASSUME t # <<>>
        PROVE  /\ HandlerShaped(d) /\ d.at = "write" /\ d.todo = t
               /\ d.job = w.job /\ d.by = w.by /\ d.to = w.to /\ d.chat = c
    <3>1. /\ HandlerShaped(d) /\ d.at = "write" /\ d.todo = t
          /\ d.job = y.job /\ d.by = y.by /\ d.to = y.to /\ d.chat = y.chat
      BY <2>2, <2>3, LeftOf DEF d
    <3> QED BY <2>2, <3>1
  <2>4. StandsFor(C, F, c, w.by, w.to)
    <3>1. AllStand(C, F, 0)
      BY <1>1 DEF Tuned, InTune
    <3> QED BY <1>1, <1>3, <3>1, FoundStands, Zenon
  <2>5. c \in 1..Len(C) /\ InTune(C, F, S, B, c, {}, {})
    BY <1>1, <2>4, TuneOpens DEF Tuned, StandsFor
  <2>6. CASE HasRows(C[c], w.by, w.to, "accepted", "accepted") \/ HasRows(C[c], w.by, w.to, "accepted", "pending")
    <3>1. t = <<>>
      BY <2>6 DEF t, ToDo, HasRows
    <3>2. d = Idle
      BY <3>1, IdleShaped DEF d
    <3> QED BY <1>1, <2>1, <3>2, GoesToRest
  <2>7. CASE HasRows(C[c], w.by, w.to, "pending", "accepted")
    <3>1. t = Consenting(w)
      BY <2>7 DEF t, ToDo, HasRows, Consenting
    <3>2. Begins(t, Become({w.by}, "accepted"), Befriending(w))
      BY <3>1, DirectLists, Zenon
    <3>3. /\ HandlerShaped(d) /\ d.at = "write" /\ d.todo = t
          /\ d.job = w.job /\ d.by = w.by /\ d.to = w.to /\ d.chat = c
      BY <2>3, <3>2 DEF Begins
    <3>4. Consenting(w) = Consenting(d) /\ {w.by, w.to} \notin F
      BY <2>4, <2>7, <3>3 DEF Consenting, StandsFor, HasRows
    <3>5. Answers(d, C, F, S, B)
      BY <1>1, <2>5, <2>7, <3>1, <3>3, <3>4 DEF Answers, To, WithChat
    <3> QED BY <2>1, <3>3, <3>5 DEF Kept, AtWork, AtDirect
  <2>8. CASE HasRows(C[c], w.by, w.to, "unfriended", "unfriended")
    <3>1. t = Reopening(w)
      BY <2>8 DEF t, ToDo, HasRows, Reopening
    <3>2. Begins(t, Become({w.by}, "accepted"), Awaiting(w))
      BY <3>1, DirectLists, Zenon
    <3>3. /\ HandlerShaped(d) /\ d.at = "write" /\ d.todo = t
          /\ d.job = w.job /\ d.by = w.by /\ d.to = w.to /\ d.chat = c
      BY <2>3, <3>2 DEF Begins
    <3>4. Reopening(w) = Reopening(d) /\ {w.by, w.to} \notin F
      BY <2>4, <2>8, <3>3 DEF Reopening, StandsFor, HasRows
    <3>5. Reopens(d, C, F, S, B)
      BY <1>1, <2>5, <2>8, <3>1, <3>3, <3>4 DEF Reopens, To, WithChat
    <3> QED BY <2>1, <3>3, <3>5 DEF Kept, AtWork, AtDirect
  <2> QED BY <2>4, <2>6, <2>7, <2>8 DEF StandsFor
<1> QED BY <1>2, <1>3

(* How the guest joins.                                                     *)
LEMMA JoinKept ==
  ASSUME NEW w, HandlerShaped(w), NEW C, NEW F, NEW S, NEW B,
         AtWork(w, C, F, S, B), w.at = "join"
  PROVE  /\ Kept(Idle, C, F, S, B)
         /\ \A s \in {"accepted", "pending"} : Kept(Left(w, <<AddRow(w.to, s)>>), C, F, S, B)
<1>1. w.job \in {"group", "add"} /\ OfGroup(w, C, F, S, B) /\ Tuned(C, F, S, B)
  BY WhatIsRead DEF LooksUp, OfGroup
<1>2. ASSUME NEW s \in {"accepted", "pending"} PROVE Kept(Left(w, <<AddRow(w.to, s)>>), C, F, S, B)
  <2> DEFINE d == Left(w, JoinersRow(w, s))
  <2>0. JoinersRow(w, s) = <<AddRow(w.to, s)>>
    BY DEF JoinersRow
  <2>1. JoinersRow(w, s) # <<>>
    <3>1. Begins(JoinersRow(w, s), AddRow(w.to, s), <<>>)
      BY GroupLists, Zenon
    <3> QED BY <3>1 DEF Begins
  <2> HIDE DEF d
  <2>2. /\ HandlerShaped(d) /\ d.at = "write" /\ d.todo = JoinersRow(w, s)
        /\ d.job = w.job /\ d.by = w.by /\ d.to = w.to /\ d.chat = w.chat
    BY <2>1, LeftOf DEF d
  <2>3. JoinersRow(w, s) = JoinersRow(d, s)
    BY <2>2 DEF JoinersRow
  <2>4. AddsJoiner(d, C, F, S, B)
    BY <1>1, <2>2, <2>3 DEF AddsJoiner, To, OfGroup
  <2>5. Kept(d, C, F, S, B)
    BY <2>2, <2>4 DEF Kept, AtWork, AtGroup
  <2> QED BY <2>0, <2>5, Zenon DEF d
<1> QED BY <1>1, <1>2, GoesToRest

(* The other side of a direct chat.                                         *)
OthersIn(h, u) == IF ~h.gone /\ h.type = "direct" THEN RowsOf(h) \ {u} ELSE {}
LEMMA OtherKept ==
  ASSUME NEW w, HandlerShaped(w), NEW C, ChatsTyped(C), NEW F, NEW S, NEW B, B \subseteq Pairs,
         AtWork(w, C, F, S, B), w.at = "other",
         NEW others, others = OthersIn(C[w.chat], w.by),
         NEW v \in IF others = {} THEN Users ELSE others
  PROVE  w.chat \in 1..Len(C) /\ Kept(Left(w, WithOther(w, others, v)), C, F, S, B)
<1>0. AcceptedGroup(w, C, F, S, B) \/ AcceptedChat(w, C, F, S, B) \/ EndsChat(w, C, F, S, B)
  BY WhatIsRead
<1> DEFINE d == Left(w, WithOther(w, others, v))
<1>1. CASE AcceptedGroup(w, C, F, S, B)
  <2>1. w.job = "accept" /\ w.chat \in 1..Len(C) /\ C[w.chat].type = "group" /\ Tuned(C, F, S, B)
    BY <1>1 DEF AcceptedGroup
  <2>2. others = {}
    BY <2>1 DEF OthersIn
  <2>3. WithOther(w, others, v) = <<>>
    BY <2>1, <2>2 DEF WithOther
  <2>4. d = Idle
    BY <2>3, IdleShaped
  <2> QED BY <2>1, <2>4, GoesToRest
<1>2. CASE AcceptedChat(w, C, F, S, B)
  <2>1. PICK y \in Users : BothOf(w, y, C, F, S, B)
    BY <1>2 DEF AcceptedChat
  <2>2. w.job = "accept" /\ w.chat \in 1..Len(C)
    BY <1>2, <2>1 DEF AcceptedChat, BothOf
  <2>3. others = {y} /\ v = y
    BY <2>1 DEF OthersIn, BothOf, HasRows, IsDirect, Free, Pairs
  <2>4. WithOther(w, others, v) = Confirming(w, v)
    BY <2>2, <2>3 DEF WithOther, Confirming
  <2>5. Confirming(w, v) # <<>>
    <3>1. Begins(Confirming(w, v), Befriend(w.by, v, TRUE), <<>>)
      BY EndLists, Zenon
    <3> QED BY <3>1 DEF Begins
  <2> HIDE DEF d
  <2>6. /\ HandlerShaped(d) /\ d.at = "write" /\ d.todo = Confirming(w, v)
        /\ d.job = w.job /\ d.by = w.by /\ d.to = w.to /\ d.chat = w.chat
    BY <2>4, <2>5, LeftOf DEF d
  <2>7. Confirming(w, v) = Confirming(d, v) /\ v \in Users
    BY <2>1, <2>3, <2>6 DEF Confirming
  <2>8. To(d, {"accept"}, Confirming(d, v)) /\ BothOf(d, v, C, F, S, B)
    BY <2>1, <2>2, <2>3, <2>6, <2>7 DEF To, BothOf
  <2>9. Confirms(d, C, F, S, B)
    BY <2>7, <2>8 DEF Confirms
  <2> QED BY <2>2, <2>6, <2>9 DEF Kept, AtWork, AtAccept, d
<1>3. CASE EndsChat(w, C, F, S, B)
  <2>1. /\ w.job \in {"unfriend", "delete"} /\ Tuned(C, F, S, B) /\ w.by \in Users /\ w.chat \in 1..Len(C)
        /\ IsDirect(C[w.chat]) /\ C[w.chat].member[w.by] = "accepted"
    BY <1>3 DEF EndsChat
  <2>2. w.by \in RowsOf(C[w.chat]) /\ Standing(C[w.chat], F)
    BY <2>1 DEF RowsOf, Tuned, InTune, AllStand
  <2> HIDE DEF d
  <2>3. PICK y \in Users : <<w.by, y>> \in Pairs /\ RowsOf(C[w.chat]) = {w.by, y}
    <3>1. OneOfTwo(C[w.chat], F, w.by)
      BY <2>2, StandingOne, Zenon
    <3> QED BY <3>1 DEF OneOfTwo
  <2> USE DEF d
  <2>4. others = {y} /\ v = y
    BY <2>1, <2>3 DEF OthersIn, IsDirect, Pairs
  <2>5. Free(B, w.by, y)
    BY <2>1, <2>3, NeitherBlocks
  <2>6. EndOf(w, v, C, F, S, B)
    BY <2>1, <2>3, <2>4, <2>5 DEF EndOf
  <2>7. CASE w.job = "unfriend"
    <3>1. WithOther(w, others, v) = Unfriending(w, v)
      <4>1. WithOther(w, others, v) =
              <<Become(Users, "unfriended")>> \o
              <<Befriend(w.by, v, FALSE), Subscribe(w.by, v, FALSE), Subscribe(v, w.by, FALSE)>>
        BY <2>4, <2>7 DEF WithOther
      <4> QED BY <4>1, JoinedThree, Zenon DEF Unfriending
    <3>2. Unfriending(w, v) # <<>>
      <4>1. Begins(Unfriending(w, v), Become(Users, "unfriended"), Forgetting(w, v))
        BY EndLists, Zenon
      <4> QED BY <4>1 DEF Begins
    <3> HIDE DEF d
    <3>3. /\ HandlerShaped(d) /\ d.at = "write" /\ d.todo = Unfriending(w, v)
          /\ d.job = w.job /\ d.by = w.by /\ d.to = w.to /\ d.chat = w.chat
      BY <3>1, <3>2, LeftOf DEF d
    <3>4. To(d, {"unfriend"}, Unfriending(d, v)) /\ EndOf(d, v, C, F, S, B) /\ v \in Users
      BY <2>4, <2>6, <2>7, <3>3 DEF To, EndOf, Unfriending
    <3>5. Unfriends(d, C, F, S, B)
      BY <3>4 DEF Unfriends
    <3> QED BY <2>1, <3>3, <3>5 DEF Kept, AtWork, AtEnding, d
  <2>8. CASE w.job = "delete"
    <3>1. WithOther(w, others, v) = Deleting(w, v)
      <4>1. WithOther(w, others, v) = <<DropChat>> \o <<Befriend(w.by, v, FALSE)>>
        BY <2>4, <2>8 DEF WithOther
      <4> QED BY <4>1, OneJoined, Zenon DEF Deleting
    <3>2. Deleting(w, v) # <<>>
      <4>1. Begins(Deleting(w, v), DropChat, Unlinking(w, v))
        BY EndLists, Zenon
      <4> QED BY <4>1 DEF Begins
    <3> HIDE DEF d
    <3>3. /\ HandlerShaped(d) /\ d.at = "write" /\ d.todo = Deleting(w, v)
          /\ d.job = w.job /\ d.by = w.by /\ d.to = w.to /\ d.chat = w.chat
      BY <3>1, <3>2, LeftOf DEF d
    <3>4. To(d, {"delete"}, Deleting(d, v)) /\ EndOf(d, v, C, F, S, B) /\ v \in Users
      BY <2>4, <2>6, <2>8, <3>3 DEF To, EndOf, Deleting
    <3>5. Deletes(d, C, F, S, B)
      BY <3>4 DEF Deletes
    <3> QED BY <2>1, <3>3, <3>5 DEF Kept, AtWork, AtEnding, d
  <2> QED BY <2>1, <2>7, <2>8
<1> QED BY <1>0, <1>1, <1>2, <1>3

(* Is anybody left.                                                         *)
CountOf(h) == IF ~h.gone THEN Cardinality(ActiveIn(h)) ELSE 0
LEMMA CountKept ==
  ASSUME NEW w, HandlerShaped(w), NEW C, ChatsTyped(C), NEW F, NEW S, NEW B,
         AtWork(w, C, F, S, B), w.at = "count",
         NEW d, d = Left(w, IF CountOf(C[w.chat]) <= MaxActiveMembers(w.job) THEN <<DropChat>> ELSE <<>>)
  PROVE  w.chat \in 1..Len(C) /\ Kept(d, C, F, S, B)
<1>1. w.job \in {"decline", "remove"} /\ LeftOne(w, C, F, S, B) /\ w.chat \in 1..Len(C)
  BY WhatIsRead DEF Leaves, LeftOne
<1> DEFINE h == C[w.chat]
<1>2. h \in ChatRec /\ (h.gone => h.member = NoOne)
  BY <1>1 DEF ChatsTyped
<1> HIDE DEF h
<1>3. IsFiniteSet(ActiveIn(h)) /\ Cardinality(ActiveIn(h)) \in Nat
  <2>1. ActiveIn(h) \subseteq Users
    BY DEF ActiveIn
  <2> QED BY <2>1, ChatsAssumption, FS_Subset, FS_CardinalityType
<1>4. h.gone => ActiveIn(h) = {}
  BY <1>2 DEF ActiveIn, NoOne
<1>5. Cardinality(ActiveIn(h)) = 0 <=> ActiveIn(h) = {}
  BY <1>3, FS_EmptySet
<1>6. CASE CountOf(h) <= MaxActiveMembers(w.job)
  <2>1. Abandoned(w, h)
    BY <1>1, <1>3, <1>4, <1>5, <1>6 DEF Abandoned, CountOf, MaxActiveMembers
  <2>2. d = Left(w, Dropping)
    BY <1>6 DEF h, Dropping
  <2>3. Dropping # <<>>
    <3>1. Begins(Dropping, DropChat, <<>>)
      BY GroupLists, Zenon
    <3> QED BY <3>1 DEF Begins
  <2>4. /\ HandlerShaped(d) /\ d.at = "write" /\ d.todo = Dropping
        /\ d.job = w.job /\ d.by = w.by /\ d.to = w.to /\ d.chat = w.chat
    BY <2>2, <2>3, LeftOf
  <2>5. LeftOne(d, C, F, S, B) /\ Abandoned(d, C[d.chat])
    BY <1>1, <2>1, <2>4 DEF LeftOne, Abandoned, h
  <2>6. Drops(d, C, F, S, B)
    BY <1>1, <2>4, <2>5 DEF Drops, To
  <2> QED BY <1>1, <2>4, <2>6 DEF Kept, AtWork, AtLeaving
<1>7. CASE ~(CountOf(h) <= MaxActiveMembers(w.job))
  <2>1. d = Idle
    BY <1>7, IdleShaped DEF h
  <2>2. ~IsDirect(h)
    <3> SUFFICES ASSUME IsDirect(h) PROVE FALSE
      OBVIOUS
    <3>1. PICK v \in Users : RowsOf(h) = {v} /\ h.member[v] = "accepted" /\ w.job = "decline"
      BY <1>1 DEF LeftOne, IsDirect, h
    <3>2. ActiveIn(h) = {v}
      BY <3>1 DEF ActiveIn, RowsOf
    <3>3. Cardinality(ActiveIn(h)) = 1
      BY <3>2, FS_Singleton
    <3> QED BY <1>7, <3>1, <3>3 DEF CountOf, MaxActiveMembers, IsDirect
  <2>3. Tuned(C, F, S, B)
    BY <1>1, <2>2 DEF LeftOne, h
  <2> QED BY <1>1, <2>1, <2>3, GoesToRest
<1> QED BY <1>6, <1>7 DEF h

-----------------------------------------------------------------------------
(* A request begins when nobody is at work.                                 *)
LEMMA ChatAt ==
  ASSUME NEW C, ChatsTyped(C), NEW c \in 1..Len(C)
  PROVE  C \in Seq(ChatRec) /\ C[c] \in ChatRec /\ C[c].type \in {"direct", "group"}
<1>1. C \in Seq(ChatRec) /\ C[c] \in ChatRec
  BY DEF ChatsTyped
<1> QED BY <1>1 DEF ChatRec

LEMMA CreateDirectKept ==
  ASSUME NEW C, NEW F, NEW S, NEW B, Tuned(C, F, S, B), NEW u, NEW v, Free(B, u, v),
         NEW d, d = [Idle EXCEPT !.at = "reports", !.job = "direct", !.by = u, !.to = v]
  PROVE  Kept(d, C, F, S, B)
<1>1. HandlerShaped(d) /\ d.at = "reports" /\ d.job = "direct" /\ d.by = u /\ d.to = v /\ d.todo = <<>>
  BY DEF Idle, HandlerShaped
<1> QED BY <1>1 DEF Kept, AtWork, AtDirect, Inquires

LEMMA FoundingKept ==
  ASSUME NEW C, NEW F, NEW S, NEW B, Tuned(C, F, S, B), NEW w, HandlerShaped(w), w.job = "group",
         w.by \in Users, w.to \in Users, NEW d, d = Left(w, Founding(w))
  PROVE  Kept(d, C, F, S, B)
<1>3. Founding(w) # <<>>
  <2>1. Begins(Founding(w), NewChat("group"), FoundersRow(w))
    BY GroupLists, Zenon
  <2> QED BY <2>1 DEF Begins
<1>4. /\ HandlerShaped(d) /\ d.at = "write" /\ d.todo = Founding(w)
      /\ d.job = w.job /\ d.by = w.by /\ d.to = w.to
  BY <1>3, LeftOf
<1>5. Founding(w) = Founding(d)
  BY <1>4 DEF Founding, FoundersRow
<1>6. Founds(d, C, F, S, B)
  BY <1>4, <1>5 DEF Founds, To
<1> QED BY <1>4, <1>6 DEF Kept, AtWork, AtGroup

LEMMA CreateGroupKept ==
  ASSUME NEW C, NEW F, NEW S, NEW B, Tuned(C, F, S, B), NEW u \in Users, NEW v \in Users,
         NEW w, w = [Idle EXCEPT !.job = "group", !.by = u, !.to = v]
  PROVE  Kept(Left(w, <<NewChat("group"), AddRow(u, "accepted"), Invite>>), C, F, S, B)
<1>1. HandlerShaped(w) /\ w.job = "group" /\ w.by = u /\ w.to = v
  <2>1. w = [at |-> "idle", job |-> "group", by |-> u, to |-> v, chat |-> 0, todo |-> <<>>]
    BY DEF Idle
  <2> QED BY <2>1 DEF HandlerShaped
<1>2. Founding(w) = <<NewChat("group"), AddRow(u, "accepted"), Invite>>
  BY <1>1, Zenon DEF Founding
<1>3. Kept(Left(w, Founding(w)), C, F, S, B)
  BY <1>1, FoundingKept
<1> QED BY <1>2, <1>3, Zenon

LEMMA AddMemberKept ==
  ASSUME NEW C, NEW F, NEW S, NEW B, Tuned(C, F, S, B), NEW u \in Users, NEW v \in Users, NEW c \in 1..Len(C),
         C[c].type = "group",
         NEW d, d = [Idle EXCEPT !.at = "join", !.job = "add", !.by = u, !.to = v, !.chat = c]
  PROVE  Kept(d, C, F, S, B)
<1>1. HandlerShaped(d) /\ d.at = "join" /\ d.job = "add" /\ d.by = u /\ d.to = v /\ d.chat = c /\ d.todo = <<>>
  BY DEF Idle, HandlerShaped
<1> QED BY <1>1 DEF Kept, AtWork, AtGroup, LooksUp, OfGroup

LEMMA EndChatKept ==
  ASSUME NEW C, NEW F, NEW S, NEW B, Tuned(C, F, S, B), NEW u \in Users, NEW c \in 1..Len(C),
         NEW job \in {"unfriend", "delete"}, IsDirect(C[c]), C[c].member[u] = "accepted",
         NEW d, d = [Idle EXCEPT !.at = "other", !.job = job, !.by = u, !.chat = c]
  PROVE  Kept(d, C, F, S, B)
<1>1. HandlerShaped(d) /\ d.at = "other" /\ d.job = job /\ d.by = u /\ d.chat = c /\ d.todo = <<>>
  BY DEF Idle, HandlerShaped
<1> QED BY <1>1 DEF Kept, AtWork, AtEnding, EndsChat

(* Rows of a group change.                                                  *)
GroupStays(D, c, h, F, S, B) ==
  ChatsTyped(D) /\ c \in 1..Len(D) /\ D[c] = h /\ Tuned(D, F, S, B)
LEMMA GroupRestated ==
  ASSUME NEW C, ChatsTyped(C), NEW F, F \subseteq UserPairs, NEW S, NEW B, B \subseteq Pairs,
         Tuned(C, F, S, B), NEW c \in 1..Len(C), C[c].type = "group", ~C[c].gone,
         NEW h \in ChatRec, h.type = "group", ~h.gone, NEW D, D = Replaced(C, c, h)
  PROVE  GroupStays(D, c, h, F, S, B)
<1>1. C \in Seq(ChatRec)
  BY DEF ChatsTyped
<1>2. ChatsTyped(D) /\ ButOne(D, C, c, h)
  BY ReplacedTyped
<1>3. InTune(D, F, S, B, 0, {}, {})
  BY <1>1, TuneGroup DEF Tuned
<1> QED BY <1>2, <1>3 DEF ButOne, Tuned, GroupStays

LEMMA AcceptKept ==
  ASSUME NEW C, ChatsTyped(C), NEW F, F \subseteq UserPairs, NEW S, NEW B, B \subseteq Pairs,
         Tuned(C, F, S, B), NEW u \in Users, NEW c \in 1..Len(C), ~C[c].gone, C[c].member[u] = "pending",
         NEW D, D = Replaced(C, c, Restated(C[c], {u}, "accepted")),
         NEW d, d = [Idle EXCEPT !.at = "other", !.job = "accept", !.by = u, !.chat = c]
  PROVE  ChatsTyped(D) /\ Kept(d, D, F, S, B)
<1>1. HandlerShaped(d) /\ d.at = "other" /\ d.job = "accept" /\ d.by = u /\ d.chat = c /\ d.todo = <<>>
  BY DEF Idle, HandlerShaped
<1> DEFINE h == Restated(C[c], {u}, "accepted")
<1>2. D = Replaced(C, c, h)
  OBVIOUS
<1>3. C[c] \in ChatRec /\ C[c].type \in {"direct", "group"} /\ "accepted" \in Statuses \ {"none"}
  <2>1. C[c] \in ChatRec /\ C[c].type \in {"direct", "group"}
    BY ChatAt, Zenon
  <2> QED BY <2>1 DEF Statuses
<1>4. h \in ChatRec /\ h.type = C[c].type /\ h.gone = C[c].gone
  BY <1>3, RestatedRow
<1>5. CASE C[c].type = "group"
  <2> HIDE DEF h
  <2>1. ChatsTyped(D) /\ c \in 1..Len(D) /\ D[c] = h /\ Tuned(D, F, S, B)
    <3>1. h.type = "group" /\ ~h.gone
      BY <1>4, <1>5
    <3>2. GroupStays(D, c, h, F, S, B)
      BY <1>2, <1>4, <1>5, <3>1, GroupRestated, Zenon
    <3> QED BY <3>2 DEF GroupStays
  <2>2. AcceptedGroup(d, D, F, S, B)
    BY <1>1, <1>4, <1>5, <2>1 DEF AcceptedGroup
  <2> QED BY <1>1, <2>1, <2>2 DEF Kept, AtWork, AtAccept
<1>6. CASE C[c].type = "direct"
  <2>1. IsDirect(C[c]) /\ u \in RowsOf(C[c])
    BY <1>6 DEF IsDirect, RowsOf
  <2>2. Standing(C[c], F)
    BY <2>1 DEF Tuned, InTune, AllStand
  <2>3. OneOfTwo(C[c], F, u)
    BY <2>1, <2>2, StandingOne, Zenon
  <2>4. PICK v \in Users :
          /\ <<u, v>> \in Pairs /\ RowsOf(C[c]) = {u, v} /\ {u, v} \notin F /\ C[c].member[v] = "accepted"
    BY <2>3 DEF OneOfTwo, HasRows
  <2>5. Free(B, u, v)
    BY <2>1, <2>4, NeitherBlocks
  <2>6. Becoming(C, c, u, v, "accepted", F, S, B, 0, {}, {})
    BY <1>3, <2>1, <2>4, <2>5 DEF Becoming, Tuned
  <2>7. h = Restated(C[c], {u}, "accepted")
    OBVIOUS
  <2> HIDE DEF h
  <2>8. Became(D, h, C, c, u, v, {u}, "accepted") /\ InTune(D, F, S, B, c, {}, {})
    BY <1>2, <2>6, <2>7, RowsBecome, Zenon
  <2>9. /\ ChatsTyped(D) /\ c \in 1..Len(D) /\ D[c] = h /\ HasRows(D[c], u, v, "accepted", "accepted")
    BY <2>4, <2>8 DEF Became, HasRows
  <2>10. BothOf(d, v, D, F, S, B)
    BY <1>1, <2>4, <2>5, <2>8, <2>9 DEF BothOf
  <2>11. AcceptedChat(d, D, F, S, B)
    BY <1>1, <2>10 DEF AcceptedChat
  <2> QED BY <1>1, <2>9, <2>11 DEF Kept, AtWork, AtAccept
<1> QED BY <1>3, <1>5, <1>6

LEMMA RemoveMemberKept ==
  ASSUME NEW C, ChatsTyped(C), NEW F, F \subseteq UserPairs, NEW S, NEW B, B \subseteq Pairs,
         Tuned(C, F, S, B), NEW u, NEW v, NEW c \in 1..Len(C), ~C[c].gone, C[c].type = "group",
         NEW D, D = Replaced(C, c, Restated(C[c], {v}, "left")),
         NEW d, d = [Idle EXCEPT !.at = "count", !.job = "remove", !.by = u, !.to = v, !.chat = c]
  PROVE  ChatsTyped(D) /\ Kept(d, D, F, S, B)
<1>1. HandlerShaped(d) /\ d.at = "count" /\ d.job = "remove" /\ d.chat = c /\ d.todo = <<>>
  BY DEF Idle, HandlerShaped
<1> DEFINE h == Restated(C[c], {v}, "left")
<1>2. D = Replaced(C, c, h)
  OBVIOUS
<1>3. C[c] \in ChatRec /\ "left" \in Statuses \ {"none"}
  BY DEF ChatsTyped, Statuses
<1>4. h \in ChatRec /\ h.type = C[c].type /\ h.gone = C[c].gone
  BY <1>3, RestatedRow
<1> HIDE DEF h
<1>5. ChatsTyped(D) /\ c \in 1..Len(D) /\ D[c] = h /\ Tuned(D, F, S, B)
  <2>1. h.type = "group" /\ ~h.gone
    BY <1>4
  <2>2. GroupStays(D, c, h, F, S, B)
    BY <1>2, <1>4, <2>1, GroupRestated, Zenon
  <2> QED BY <2>2 DEF GroupStays
<1>6. Leaves(d, D, F, S, B)
  BY <1>1, <1>4, <1>5 DEF Leaves, LeftOne
<1> QED BY <1>1, <1>5, <1>6 DEF Kept, AtWork, AtLeaving

RowGone(h, u) == [h EXCEPT !.member[u] = "none"]
LEMMA GoneRow ==
  ASSUME NEW h \in ChatRec, NEW u \in Users, NEW g, g = RowGone(h, u)
  PROVE  /\ g \in ChatRec /\ RowsOf(g) = RowsOf(h) \ {u}
         /\ \A v \in Users : v # u => g.member[v] = h.member[v]
         /\ g.type = h.type /\ g.gone = h.gone
<1>1. g = [h EXCEPT !.member[u] = "none"] /\ "none" \in Statuses
  BY DEF RowGone, Statuses
<1>2. g.member = [h.member EXCEPT ![u] = "none"] /\ g.type = h.type /\ g.gone = h.gone /\ g.admin = h.admin
  BY <1>1 DEF ChatRec
<1>3. g \in ChatRec
  BY <1>1, <1>2 DEF ChatRec
<1>4. h.member \in [Users -> Statuses]
  BY DEF ChatRec
<1>5. g.member[u] = "none" /\ \A v \in Users : v # u => g.member[v] = h.member[v]
  BY <1>2, <1>4
<1>6. RowsOf(g) = RowsOf(h) \ {u}
  BY <1>5 DEF RowsOf
<1> QED BY <1>2, <1>3, <1>5, <1>6

LEMMA DeclineKept ==
  ASSUME NEW C, ChatsTyped(C), NEW F, F \subseteq UserPairs, NEW S, NEW B, B \subseteq Pairs,
         Tuned(C, F, S, B), NEW u \in Users, NEW c \in 1..Len(C), ~C[c].gone, C[c].member[u] = "pending",
         NEW D, D = Replaced(C, c, RowGone(C[c], u)),
         NEW d, d = [Idle EXCEPT !.at = "count", !.job = "decline", !.by = u, !.chat = c]
  PROVE  ChatsTyped(D) /\ Kept(d, D, F, S, B)
<1>1. HandlerShaped(d) /\ d.at = "count" /\ d.job = "decline" /\ d.chat = c /\ d.todo = <<>>
  BY DEF Idle, HandlerShaped
<1> DEFINE h == C[c]
           g == RowGone(h, u)
<1>2. D = Replaced(C, c, g) /\ h = C[c] /\ g = RowGone(h, u)
  OBVIOUS
<1>3. h \in ChatRec /\ h.type \in {"direct", "group"} /\ C \in Seq(ChatRec)
  BY ChatAt, Zenon
<1> HIDE DEF g, h
<1>4. /\ g \in ChatRec /\ RowsOf(g) = RowsOf(h) \ {u} /\ g.type = h.type /\ g.gone = h.gone
      /\ \A v \in Users : v # u => g.member[v] = h.member[v]
  BY <1>2, <1>3, GoneRow
<1>5. CASE h.type = "group"
  <2>1. ChatsTyped(D) /\ c \in 1..Len(D) /\ D[c] = g /\ Tuned(D, F, S, B)
    <3>1. g.type = "group" /\ ~g.gone /\ C[c].type = "group"
      BY <1>2, <1>4, <1>5
    <3>2. GroupStays(D, c, g, F, S, B)
      BY <1>2, <1>4, <3>1, GroupRestated, Zenon
    <3> QED BY <3>2 DEF GroupStays
  <2>2. Leaves(d, D, F, S, B)
    BY <1>1, <1>4, <1>5, <2>1 DEF Leaves, LeftOne
  <2> QED BY <1>1, <2>1, <2>2 DEF Kept, AtWork, AtLeaving
<1>6. CASE h.type = "direct"
  <2>1. IsDirect(h) /\ u \in RowsOf(h)
    BY <1>2, <1>6 DEF IsDirect, RowsOf
  <2>2. Standing(h, F)
    BY <1>2, <2>1 DEF Tuned, InTune, AllStand
  <2>3. OneOfTwo(h, F, u)
    BY <2>1, <2>2, StandingOne, Zenon
  <2>4. PICK v \in Users :
          /\ <<u, v>> \in Pairs /\ RowsOf(h) = {u, v} /\ {u, v} \notin F /\ h.member[v] = "accepted"
    BY <1>2, <2>3 DEF OneOfTwo, HasRows
  <2>5. RowsOf(g) = {v} /\ g.member[v] = "accepted" /\ IsDirect(g) /\ Loose(g)
    BY <1>2, <1>4, <2>1, <2>4 DEF Pairs, IsDirect, Loose
  <2>6. \A f \in F \ {{}} : c \notin Between(C, f)
    <3> SUFFICES ASSUME NEW f \in F, c \in Between(C, f) PROVE FALSE
      OBVIOUS
    <3>1. f \subseteq {u, v} /\ f \in UserPairs
      BY <1>2, <2>4 DEF Between
    <3>2. PICK p \in Pairs : f = {p[1], p[2]}
      BY <3>1 DEF UserPairs
    <3>3. f = {u, v}
      BY <3>1, <3>2 DEF Pairs
    <3> QED BY <2>4, <3>3
  <2>7. InTune(D, F, S, B, c, {}, {})
    <3>1. InTune(C, F, S, B, 0, {}, {}) /\ 0 \in {0, c}
      BY DEF Tuned
    <3>2. InTune(Replaced(C, c, g), F, S, B, c, {}, {})
      BY <1>3, <1>4, <2>5, <2>6, <3>1, TuneLoose, Zenon
    <3> QED BY <1>2, <3>2, Zenon
  <2>8. ChatsTyped(D) /\ ButOne(D, C, c, g)
    BY <1>2, <1>4, ReplacedTyped
  <2>9. c \in 1..Len(D) /\ D[c] = g
    BY <2>8 DEF ButOne
  <2>10. Leaves(d, D, F, S, B)
    BY <1>1, <2>5, <2>7, <2>9 DEF Leaves, LeftOne
  <2> QED BY <1>1, <2>8, <2>10 DEF Kept, AtWork, AtLeaving
<1> QED BY <1>3, <1>5, <1>6

LEMMA BlockingKept ==
  ASSUME NEW C, NEW F, NEW S, NEW B, B \subseteq Pairs, Tuned(C, F, S, B), NEW w, HandlerShaped(w),
         w.job \in BlockJobs, <<w.by, w.to>> \in Pairs, NEW d, d = Left(w, Blocking(w))
  PROVE  Kept(d, C, F, S, B \cup {<<w.by, w.to>>})
<1>3. Blocking(w) # <<>>
  <2>1. Begins(Blocking(w), Subscribe(w.by, w.to, FALSE), BlockingNext(w))
    BY BlockLists, Zenon
  <2> QED BY <2>1 DEF Begins
<1>4. /\ HandlerShaped(d) /\ d.at = "write" /\ d.todo = Blocking(w)
      /\ d.job = w.job /\ d.by = w.by /\ d.to = w.to
  BY <1>3, LeftOf
<1>5. Blocking(w) = Blocking(d)
  BY <1>4 DEF Blocking, Reporting
<1> DEFINE D == B \cup {<<w.by, w.to>>}
<1>6. InTune(C, F, S, D, 0, {}, {w.by, w.to})
  BY TuneBlocked DEF Tuned
<1> HIDE DEF D
<1>7. Blocks(d, C, F, S, D)
  BY <1>4, <1>5, <1>6 DEF Blocks, To, BlockOf
<1> QED BY <1>4, <1>7 DEF Kept, AtWork, AtBlock, D

LEMMA BlockKept ==
  ASSUME NEW C, NEW F, NEW S, NEW B, B \subseteq Pairs, Tuned(C, F, S, B), NEW u, NEW v, <<u, v>> \in Pairs,
         NEW job \in {"block", "report"}, NEW w, w = [Idle EXCEPT !.job = job, !.by = u, !.to = v]
  PROVE  Kept(Left(w, <<Subscribe(u, v, FALSE), Subscribe(v, u, FALSE), Sever>>
                      \o IF job = "report" THEN <<Report>> ELSE <<>>), C, F, S, B \cup {<<u, v>>})
<1>1. HandlerShaped(w) /\ w.job = job /\ w.by = u /\ w.to = v
  <2>1. w = [at |-> "idle", job |-> job, by |-> u, to |-> v, chat |-> 0, todo |-> <<>>]
    BY DEF Idle
  <2> QED BY <2>1 DEF HandlerShaped
<1>2. Blocking(w) = <<Subscribe(u, v, FALSE), Subscribe(v, u, FALSE), Sever>>
                    \o IF job = "report" THEN <<Report>> ELSE <<>>
  BY <1>1, Zenon DEF Blocking, Reporting
<1>3. Kept(Left(w, Blocking(w)), C, F, S, B \cup {<<w.by, w.to>>})
  BY <1>1, BlockingKept DEF BlockJobs
<1> QED BY <1>1, <1>2, <1>3, Zenon

(* A block lifted while another handler works.                              *)
LEMMA AtWorkUnblocked ==
  ASSUME NEW w, NEW C, NEW F, NEW S, NEW B, NEW D, D \subseteq B, AtWork(w, C, F, S, B)
  PROVE  AtWork(w, C, F, S, D)
<1>1. \A k, q, r : InTune(C, F, S, B, k, q, r) => InTune(C, F, S, D, k, q, r)
  BY TuneUnblocked
<1>2. Tuned(C, F, S, B) => Tuned(C, F, S, D)
  BY <1>1 DEF Tuned
<1>3. \A u, v : Free(B, u, v) => Free(D, u, v)
  BY DEF Free
<1>4. AtDirect(w, C, F, S, B) => AtDirect(w, C, F, S, D)
  BY <1>1, <1>2, <1>3 DEF AtDirect, Inquires, Subscribes, OpensChat, AddsFirst, AddsSecond, Answers, Befriends,
     Reopens, MakesPending, WithChat
<1>5. AtGroup(w, C, F, S, B) => AtGroup(w, C, F, S, D)
  BY <1>2 DEF AtGroup, Founds, AddsFounder, Invites, LooksUp, AddsJoiner, OfGroup
<1>6. AtAccept(w, C, F, S, B) => AtAccept(w, C, F, S, D)
  BY <1>1, <1>2, <1>3 DEF AtAccept, AcceptedGroup, AcceptedChat, Confirms, BothOf
<1>7. AtEnding(w, C, F, S, B) => AtEnding(w, C, F, S, D)
  BY <1>1, <1>2, <1>3 DEF AtEnding, EndsChat, Unfriends, Forgets, ForgetsBoth, ForgetsLast, Deletes, Unlinks, EndOf
<1>8. AtLeaving(w, C, F, S, B) => AtLeaving(w, C, F, S, D)
  BY <1>1, <1>2 DEF AtLeaving, Leaves, Drops, LeftOne
<1>9. AtBlock(w, C, F, S, B) => AtBlock(w, C, F, S, D)
  BY <1>1, <1>2 DEF AtBlock, Blocks, BlocksNext, BlocksFind, BlocksChat, BlocksLast, ReportsLast, BlockOf
<1> QED BY <1>2, <1>4, <1>5, <1>6, <1>7, <1>8, <1>9 DEF AtWork, Rests

-----------------------------------------------------------------------------
(* The steps of the handler at work.                                        *)
StayLive(C, D) == \A c \in 1..Len(C) : ~C[c].gone => c \in 1..Len(D) /\ ~D[c].gone
BusyWell(x) ==
  /\ TablesTyped(chats, friends, subscribed, blocks, reported)
  /\ HandlerShaped(handler[x]) /\ AtWork(handler[x], chats, friends, subscribed, blocks)
Worked(x) ==
  \E d :
    /\ handler' = [handler EXCEPT ![x] = d] /\ Kept(d, chats', friends', subscribed', blocks')
    /\ TablesTyped(chats', friends', subscribed', blocks', reported')
    /\ asked' = asked /\ GoesAbandoned

LEMMA NoneGoes ==
  ASSUME StayLive(chats, chats') PROVE GoesAbandoned
<1> SUFFICES ASSUME NEW c \in ChatIds, ~Live(c)' PROVE FALSE
  BY DEF GoesAbandoned
<1>1. c \in 1..Len(chats) /\ ~chats[c].gone /\ chats'[c].gone
  BY DEF ChatIds, Live
<1> QED BY <1>1 DEF StayLive

LEMMA SameGoes ==
  ASSUME chats' = chats PROVE GoesAbandoned
<1>1. StayLive(chats, chats')
  BY DEF StayLive
<1> QED BY <1>1, NoneGoes

LEMMA ReplacedStays ==
  ASSUME NEW C, ChatsTyped(C), NEW k \in 1..Len(C), NEW h \in ChatRec, h.gone = C[k].gone,
         ChatsTyped(Replaced(C, k, h))
  PROVE  StayLive(C, Replaced(C, k, h))
<1>1. ButOne(Replaced(C, k, h), C, k, h)
  BY ReplacedChats, Zenon DEF ChatsTyped
<1> DEFINE D == Replaced(C, k, h)
<1> HIDE DEF D
<1>2. Len(D) = Len(C) /\ D[k] = h /\ \A i \in 1..Len(C) : i # k => D[i] = C[i]
  BY <1>1 DEF ButOne, D
<1>3. \A c \in 1..Len(C) : D[c].gone = C[c].gone
  BY <1>2
<1> QED BY <1>2, <1>3 DEF StayLive, D

(* What lives, lives on.                                                    *)
Lively == {"accepted", "pending", "unfriended"}
LEMMA BecomesLive ==
  ASSUME NEW w, NEW todo, w.todo = todo, NEW u, NEW s \in Lively, NEW rest, Begins(todo, Become(u, s), rest)
  PROVE  Statement(w).status \in Statuses \ {"none"}
<1>1. Statement(w) = Become(u, s)
  BY DEF Begins, Statement
<1> QED BY <1>1 DEF Become, Lively, Statuses

LEMMA StatusStays ==
  ASSUME NEW w, NEW C, ChatsTyped(C), NEW F, NEW S, NEW B, AtWork(w, C, F, S, B), w.at = "write",
         Statement(w).do = "status", w.chat \in 1..Len(C), ChatsTyped(RowsWritten(C, w))
  PROVE  StayLive(C, RowsWritten(C, w))
<1>1. Statement(w).status \in Statuses \ {"none"}
  <2>1. Writing(w, C, F, S, B, "status")
    BY WhatIsWritten
  <2>2. \/ Answers(w, C, F, S, B) \/ Reopens(w, C, F, S, B) \/ MakesPending(w, C, F, S, B)
        \/ Unfriends(w, C, F, S, B) \/ BlocksChat(w, C, F, S, B)
    BY <2>1 DEF Writing
  <2>3. \/ w.todo = Consenting(w) \/ w.todo = Reopening(w) \/ w.todo = Awaiting(w)
        \/ (\E v : w.todo = Unfriending(w, v)) \/ w.todo = BlockingChat(w)
    BY <2>2 DEF Answers, Reopens, MakesPending, Unfriends, BlocksChat, To
  <2>4. /\ Begins(Consenting(w), Become({w.by}, "accepted"), Befriending(w))
        /\ Begins(Reopening(w), Become({w.by}, "accepted"), Awaiting(w))
        /\ Begins(Awaiting(w), Become({w.to}, "pending"), Subscribing(w))
        /\ \A v : Begins(Unfriending(w, v), Become(Users, "unfriended"), Forgetting(w, v))
        /\ Begins(BlockingChat(w), Become(Users, "unfriended"), BlockingLast(w))
    BY DirectLists, EndLists, BlockLists, Zenon
  <2>5. "accepted" \in Lively /\ "pending" \in Lively /\ "unfriended" \in Lively
    BY DEF Lively
  <2>6. CASE w.todo = Consenting(w)
    BY <2>4, <2>5, <2>6, BecomesLive, Zenon
  <2>7. CASE w.todo = Reopening(w)
    BY <2>4, <2>5, <2>7, BecomesLive, Zenon
  <2>8. CASE w.todo = Awaiting(w)
    BY <2>4, <2>5, <2>8, BecomesLive, Zenon
  <2>9. CASE \E v : w.todo = Unfriending(w, v)
    BY <2>4, <2>5, <2>9, BecomesLive, Zenon
  <2>10. CASE w.todo = BlockingChat(w)
    BY <2>4, <2>5, <2>10, BecomesLive, Zenon
  <2> QED BY <2>3, <2>6, <2>7, <2>8, <2>9, <2>10
<1> DEFINE h == Restated(C[w.chat], Statement(w).users, Statement(w).status)
<1>2. C[w.chat] \in ChatRec
  BY ChatAt, Zenon
<1>3. h \in ChatRec /\ h.gone = C[w.chat].gone
  BY <1>1, <1>2, RestatedRow
<1>4. RowsWritten(C, w) = Replaced(C, w.chat, h)
  BY DEF RowsWritten
<1> HIDE DEF h
<1> QED BY <1>3, <1>4, ReplacedStays

LEMMA AppendStays ==
  ASSUME NEW C, ChatsTyped(C), NEW h
  PROVE  StayLive(C, Append(C, h))
<1>1. C \in Seq(ChatRec)
  BY DEF ChatsTyped
<1>2. \A c \in 1..Len(C) : c \in 1..Len(Append(C, h)) /\ Append(C, h)[c] = C[c]
  BY <1>1
<1> QED BY <1>2 DEF StayLive

LEMMA RowStays ==
  ASSUME NEW w, NEW C, ChatsTyped(C), NEW F, NEW S, NEW B, AtWork(w, C, F, S, B), w.at = "write",
         Statement(w).do = "row", w.chat \in 1..Len(C), ChatsTyped(RowPut(C, w))
  PROVE  StayLive(C, RowPut(C, w))
<1>1. Statement(w).user \in Users /\ Statement(w).status \in Statuses \ {"none"}
  <2>1. Writing(w, C, F, S, B, "row")
    BY WhatIsWritten
  <2>2. \/ AddsFirst(w, C, F, S, B) \/ AddsSecond(w, C, F, S, B)
        \/ AddsFounder(w, C, F, S, B) \/ AddsJoiner(w, C, F, S, B)
    BY <2>1 DEF Writing
  <2>3. /\ w.by \in Users /\ w.to \in Users
        /\ \/ w.todo = FirstRow(w) \/ w.todo = SecondRow(w) \/ w.todo = FoundersRow(w)
           \/ \E s \in {"accepted", "pending"} : w.todo = JoinersRow(w, s)
    BY <2>2 DEF AddsFirst, AddsSecond, AddsFounder, AddsJoiner, To, WithChat, OfGroup, Free, Pairs
  <2>4. \E u, s, rest : u \in {w.by, w.to} /\ s \in {"accepted", "pending"} /\ Begins(w.todo, AddRow(u, s), rest)
    <3>1. \A s : /\ Begins(FirstRow(w), AddRow(w.by, "accepted"), SecondRow(w))
                 /\ Begins(SecondRow(w), AddRow(w.to, "pending"), Subscribing(w))
                 /\ Begins(FoundersRow(w), AddRow(w.by, "accepted"), Inviting)
                 /\ Begins(JoinersRow(w, s), AddRow(w.to, s), <<>>)
      BY DirectLists, GroupLists, Zenon
    <3>2. "accepted" \in {"accepted", "pending"} /\ "pending" \in {"accepted", "pending"}
          /\ w.by \in {w.by, w.to} /\ w.to \in {w.by, w.to}
      OBVIOUS
    <3> QED BY <2>3, <3>1, <3>2, Zenon
  <2>5. PICK u, s, rest : u \in {w.by, w.to} /\ s \in {"accepted", "pending"} /\ Begins(w.todo, AddRow(u, s), rest)
    BY <2>4
  <2>6. Statement(w) = AddRow(u, s)
    BY <2>5 DEF Begins, Statement
  <2> QED BY <2>3, <2>5, <2>6 DEF AddRow, Statuses
<1> DEFINE h == RowAdded(C[w.chat], Statement(w).user, Statement(w).status)
<1>2. C[w.chat] \in ChatRec /\ h = RowAdded(C[w.chat], Statement(w).user, Statement(w).status)
  BY ChatAt, Zenon
<1> HIDE DEF h
<1>3. h \in ChatRec /\ h.gone = C[w.chat].gone
  BY <1>1, <1>2, AddedRow
<1>4. CASE Vacant(C, w)
  <2>1. RowPut(C, w) = Replaced(C, w.chat, h)
    BY <1>4 DEF RowPut, h
  <2> QED BY <1>3, <2>1, ReplacedStays
<1>5. CASE ~Vacant(C, w)
  BY <1>5 DEF RowPut, StayLive
<1> QED BY <1>4, <1>5

LEMMA DirectIs ==
  ASSUME NEW u, NEW v
  PROVE  Direct(u, v) = Between(chats, {u, v})
<1>1. \A c : c \in Direct(u, v) <=> c \in Between(chats, {u, v})
  BY DEF Direct, Between, ChatIds, Live, Members, Status, IsDirect, RowsOf
<1> QED BY <1>1

LEMMA WrittenOne ==
  ASSUME NEW x, BusyWell(x), NEW d, handler' = [handler EXCEPT ![x] = d],
         Kept(d, chats', friends', subscribed', blocks'), asked' = asked, blocks' = blocks,
         ChatsTyped(chats'), friends' \subseteq UserPairs, subscribed' \subseteq Pairs, reported' \subseteq Users,
         GoesAbandoned
  PROVE  Worked(x)
  BY DEF BusyWell, Worked, TablesTyped

LEMMA SubscribingWorks ==
  ASSUME NEW x, BusyWell(x), SetSubscribed(x)
  PROVE  Worked(x)
<1> DEFINE w == handler[x]
<1>1. w.at = "write" /\ Statement(w).do = "subscribe"
  BY DEF SetSubscribed, Writes, Statement
<1>2. /\ subscribed' = Joined(subscribed, Statement(w)) /\ handler' = [handler EXCEPT ![x] = Onward(w)]
      /\ UNCHANGED <<chats, friends, blocks, reported, asked>>
  BY DEF SetSubscribed, Writes, Proceed, Goes, Onward, Joined, Statement
<1>3. /\ HandlerShaped(w) /\ AtWork(w, chats, friends, subscribed, blocks) /\ ChatsTyped(chats)
      /\ friends \subseteq UserPairs /\ subscribed \subseteq Pairs /\ blocks \subseteq Pairs /\ reported \subseteq Users
  BY DEF BusyWell, TablesTyped
<1> HIDE DEF w
<1>4. /\ Joined(subscribed, Statement(w)) \subseteq Pairs
      /\ Kept(Onward(w), chats, friends, Joined(subscribed, Statement(w)), blocks)
  BY <1>1, <1>3, SubscriptionKept
<1> QED BY <1>2, <1>3, <1>4, SameGoes, WrittenOne

LEMMA FriendsWork ==
  ASSUME NEW x, BusyWell(x), SetFriends(x)
  PROVE  Worked(x)
<1> DEFINE w == handler[x]
<1>1. w.at = "write" /\ Statement(w).do = "friends"
  BY DEF SetFriends, Writes, Statement
<1>2. /\ friends' = Joined(friends, Statement(w)) /\ handler' = [handler EXCEPT ![x] = Onward(w)]
      /\ UNCHANGED <<chats, subscribed, blocks, reported, asked>>
  BY DEF SetFriends, Writes, Proceed, Goes, Onward, Joined, Statement
<1>3. /\ HandlerShaped(w) /\ AtWork(w, chats, friends, subscribed, blocks) /\ ChatsTyped(chats)
      /\ friends \subseteq UserPairs /\ subscribed \subseteq Pairs /\ blocks \subseteq Pairs /\ reported \subseteq Users
      /\ chats \in Seq(ChatRec)
  BY DEF BusyWell, TablesTyped, ChatsTyped
<1> HIDE DEF w
<1>4. /\ Joined(friends, Statement(w)) \subseteq UserPairs
      /\ Kept(Onward(w), chats, Joined(friends, Statement(w)), subscribed, blocks)
  BY <1>1, <1>3, FriendshipKept
<1> QED BY <1>2, <1>3, <1>4, SameGoes, WrittenOne

LEMMA WithStatusIs ==
  ASSUME NEW c \in 1..Len(chats), ChatsTyped(chats), NEW set, NEW status
  PROVE  WithStatus(c, set, status) = Replaced(chats, c, Restated(chats[c], set, status))
<1>1. chats \in Seq(ChatRec) /\ chats[c] \in ChatRec
  BY DEF ChatsTyped
<1> QED BY <1>1 DEF WithStatus, Replaced, Restated

LEMMA StatusWorks ==
  ASSUME NEW x, BusyWell(x), WriteStatus(x)
  PROVE  Worked(x)
<1> DEFINE w == handler[x]
<1>1. w.at = "write" /\ Statement(w).do = "status"
  BY DEF WriteStatus, Writes, Statement
<1>2. /\ chats' = WithStatus(w.chat, Statement(w).users, Statement(w).status)
      /\ handler' = [handler EXCEPT ![x] = Onward(w)]
      /\ UNCHANGED <<friends, subscribed, blocks, reported, asked>>
  BY DEF WriteStatus, Writes, Proceed, Goes, Onward, Statement
<1>3. /\ HandlerShaped(w) /\ AtWork(w, chats, friends, subscribed, blocks) /\ ChatsTyped(chats)
      /\ friends \subseteq UserPairs /\ subscribed \subseteq Pairs /\ blocks \subseteq Pairs /\ reported \subseteq Users
  BY DEF BusyWell, TablesTyped
<1> HIDE DEF w
<1>4. w.chat \in 1..Len(chats) /\ ChatsTyped(RowsWritten(chats, w))
      /\ Kept(Onward(w), RowsWritten(chats, w), friends, subscribed, blocks)
  BY <1>1, <1>3, StatusKept
<1>5. chats' = RowsWritten(chats, w)
  BY <1>2, <1>3, <1>4, WithStatusIs DEF RowsWritten
<1>6. StayLive(chats, chats')
  BY <1>1, <1>3, <1>4, <1>5, StatusStays
<1> QED BY <1>2, <1>3, <1>4, <1>5, <1>6, NoneGoes, WrittenOne

LEMMA ChatMadeWorks ==
  ASSUME NEW x, BusyWell(x), InsertChat(x)
  PROVE  Worked(x)
<1> DEFINE w == handler[x]
           d == InChat(w, Len(chats) + 1, Tail(w.todo))
<1>1. w.at = "write" /\ Statement(w).do = "chat"
  BY DEF InsertChat, Writes, Statement
<1>2. /\ chats' = Append(chats, MadeBy(w)) /\ handler' = [handler EXCEPT ![x] = d]
      /\ UNCHANGED <<friends, subscribed, blocks, reported, asked>>
  BY DEF InsertChat, Writes, Goes, MadeBy, Statement, InChat
<1>3. /\ HandlerShaped(w) /\ AtWork(w, chats, friends, subscribed, blocks) /\ ChatsTyped(chats)
      /\ friends \subseteq UserPairs /\ subscribed \subseteq Pairs /\ blocks \subseteq Pairs /\ reported \subseteq Users
  BY DEF BusyWell, TablesTyped
<1> HIDE DEF w
<1>4. ChatsTyped(Append(chats, MadeBy(w))) /\ Kept(d, Append(chats, MadeBy(w)), friends, subscribed, blocks)
  BY <1>1, <1>3, MadeKept
<1> HIDE DEF d
<1>5. StayLive(chats, chats')
  BY <1>2, <1>3, AppendStays
<1> QED BY <1>2, <1>3, <1>4, <1>5, NoneGoes, WrittenOne

LEMMA RowWorks ==
  ASSUME NEW x, BusyWell(x), InsertMember(x)
  PROVE  Worked(x)
<1> DEFINE w == handler[x]
<1>1. w.at = "write" /\ Statement(w).do = "row"
  BY DEF InsertMember, Writes, Statement
<1>2. /\ chats' = IF Vacant(chats, w) THEN [chats EXCEPT ![w.chat].member[Statement(w).user] = Statement(w).status]
                  ELSE chats
      /\ handler' = [handler EXCEPT ![x] = AfterRow(chats, w)]
      /\ UNCHANGED <<friends, subscribed, blocks, reported, asked>>
  BY DEF InsertMember, Writes, Proceed, Goes, Onward, AfterRow, Vacant, Live, Status, Statement
<1>3. /\ HandlerShaped(w) /\ AtWork(w, chats, friends, subscribed, blocks) /\ ChatsTyped(chats)
      /\ friends \subseteq UserPairs /\ subscribed \subseteq Pairs /\ blocks \subseteq Pairs /\ reported \subseteq Users
  BY DEF BusyWell, TablesTyped
<1> HIDE DEF w
<1>4. w.chat \in 1..Len(chats) /\ ChatsTyped(RowPut(chats, w))
      /\ Kept(AfterRow(chats, w), RowPut(chats, w), friends, subscribed, blocks)
  BY <1>1, <1>3, RowKept
<1>5. chats' = RowPut(chats, w)
  BY <1>2 DEF RowPut, Replaced, RowAdded
<1>6. StayLive(chats, chats')
  BY <1>1, <1>3, <1>4, <1>5, RowStays
<1> QED BY <1>2, <1>3, <1>4, <1>5, <1>6, NoneGoes, WrittenOne

LEMMA ReportWorks ==
  ASSUME NEW x, BusyWell(x), InsertReport(x)
  PROVE  Worked(x)
<1> DEFINE w == handler[x]
<1>1. w.at = "write" /\ Statement(w).do = "report"
  BY DEF InsertReport, Writes, Statement
<1>2. /\ reported' = reported \cup {w.to} /\ handler' = [handler EXCEPT ![x] = Onward(w)]
      /\ UNCHANGED <<chats, friends, subscribed, blocks, asked>>
  BY DEF InsertReport, Writes, Proceed, Goes, Onward, Statement
<1>3. /\ HandlerShaped(w) /\ AtWork(w, chats, friends, subscribed, blocks) /\ ChatsTyped(chats)
      /\ friends \subseteq UserPairs /\ subscribed \subseteq Pairs /\ blocks \subseteq Pairs /\ reported \subseteq Users
  BY DEF BusyWell, TablesTyped
<1> HIDE DEF w
<1>4. w.to \in Users /\ Kept(Onward(w), chats, friends, subscribed, blocks)
  BY <1>1, <1>3, ReportKept
<1> QED BY <1>2, <1>3, <1>4, SameGoes, WrittenOne

(* A step that writes nothing.                                              *)
LEMMA ReadOne ==
  ASSUME NEW x, BusyWell(x), NEW d, handler' = [handler EXCEPT ![x] = d], UNCHANGED <<tables, asked>>,
         Kept(d, chats, friends, subscribed, blocks)
  PROVE  Worked(x)
<1>1. UNCHANGED <<chats, friends, subscribed, blocks, reported, asked>>
  BY DEF tables
<1> QED BY <1>1, SameGoes DEF BusyWell, Worked

LEMMA WorkersRecord ==
  ASSUME NEW x, BusyWell(x)
  PROVE  /\ HandlerShaped(handler[x]) /\ AtWork(handler[x], chats, friends, subscribed, blocks) /\ ChatsTyped(chats)
         /\ friends \subseteq UserPairs /\ blocks \subseteq Pairs
  BY DEF BusyWell, TablesTyped

LEMMA InviteWorks ==
  ASSUME NEW x, BusyWell(x), NotBlocked(x)
  PROVE  Worked(x)
<1> DEFINE w == handler[x]
<1>1. w.at = "write" /\ Statement(w).do = "invite" /\ UNCHANGED <<tables, asked>>
  BY DEF NotBlocked, Writes, Statement
<1>2. PICK d : handler' = [handler EXCEPT ![x] = d] /\ (d = Idle \/ d = LooksNext(w))
  BY DEF NotBlocked, Goes, LooksNext
<1>3. HandlerShaped(w) /\ AtWork(w, chats, friends, subscribed, blocks)
  BY WorkersRecord
<1> HIDE DEF w
<1>4. Kept(Idle, chats, friends, subscribed, blocks) /\ Kept(LooksNext(w), chats, friends, subscribed, blocks)
  BY <1>1, <1>3, InviteKept
<1> QED BY <1>1, <1>2, <1>4, ReadOne

LEMMA SeverWorks ==
  ASSUME NEW x, BusyWell(x), SeverFriends(x)
  PROVE  Worked(x)
<1> DEFINE w == handler[x]
<1>1. w.at = "write" /\ Statement(w).do = "sever" /\ UNCHANGED <<tables, asked>>
  BY DEF SeverFriends, Writes, Statement
<1>2. \/ Direct(w.by, w.to) = {} /\ handler' = [handler EXCEPT ![x] = Onward(w)]
      \/ \E c \in Direct(w.by, w.to) :
           handler' = [handler EXCEPT ![x] = Left([w EXCEPT !.chat = c], Severed(w) \o Tail(w.todo))]
  BY Zenon DEF SeverFriends, Goes, Onward
<1>3. /\ HandlerShaped(w) /\ AtWork(w, chats, friends, subscribed, blocks) /\ ChatsTyped(chats)
      /\ friends \subseteq UserPairs /\ blocks \subseteq Pairs
  BY WorkersRecord
<1>4. Direct(w.by, w.to) = Between(chats, {w.by, w.to})
  BY DirectIs
<1> HIDE DEF w
<1>5. /\ Between(chats, {w.by, w.to}) = {} => Kept(Onward(w), chats, friends, subscribed, blocks)
      /\ \A c \in Between(chats, {w.by, w.to}) :
           Kept(Left([w EXCEPT !.chat = c], Severed(w) \o Tail(w.todo)), chats, friends, subscribed, blocks)
  BY <1>1, <1>3, SeverKept, Zenon
<1>6. PICK d : handler' = [handler EXCEPT ![x] = d] /\ Kept(d, chats, friends, subscribed, blocks)
  BY <1>2, <1>4, <1>5, Zenon
<1> QED BY <1>1, <1>6, ReadOne

(* A chat goes when it is deleted or abandoned.                             *)
LEMMA ActiveIs ==
  ASSUME NEW c
  PROVE  Active(c) = ActiveIn(chats[c])
  BY DEF Active, ActiveIn, Status

LEMMA MayGo ==
  ASSUME NEW w, NEW C, ChatsTyped(C), NEW F, NEW S, NEW B, AtWork(w, C, F, S, B), w.at = "write",
         Statement(w).do = "drop", w.chat \in 1..Len(C)
  PROVE  \/ w.job = "delete" /\ C[w.chat].member[w.by] = "accepted"
         \/ /\ w.job = "decline" /\ Cardinality(ActiveIn(C[w.chat])) <= 1
            /\ (C[w.chat].type = "direct" => ActiveIn(C[w.chat]) # {})
         \/ w.job = "remove" /\ ActiveIn(C[w.chat]) = {}
<1>1. Deletes(w, C, F, S, B) \/ Drops(w, C, F, S, B)
  <2>1. Writing(w, C, F, S, B, "drop")
    BY WhatIsWritten
  <2> QED BY <2>1 DEF Writing
<1>2. CASE Deletes(w, C, F, S, B)
  BY <1>2 DEF Deletes, To, EndOf
<1>3. CASE Drops(w, C, F, S, B)
  <2>1. w.job \in {"decline", "remove"} /\ LeftOne(w, C, F, S, B) /\ Abandoned(w, C[w.chat])
    BY <1>3 DEF Drops, To
  <2>2. CASE w.job = "remove"
    BY <2>1, <2>2 DEF Abandoned
  <2>3. CASE w.job = "decline"
    <3>1. Cardinality(ActiveIn(C[w.chat])) <= 1
      BY <2>1, <2>3 DEF Abandoned
    <3>2. C[w.chat].type = "direct" =>
            \E v \in Users : RowsOf(C[w.chat]) = {v} /\ C[w.chat].member[v] = "accepted"
      BY <2>1 DEF LeftOne
    <3>3. C[w.chat].type = "direct" => ActiveIn(C[w.chat]) # {}
      BY <3>2 DEF ActiveIn
    <3> QED BY <2>3, <3>1, <3>3
  <2> QED BY <2>1, <2>2, <2>3
<1> QED BY <1>1, <1>2, <1>3

LEMMA EmptiedIs ==
  ASSUME NEW C, ChatsTyped(C), NEW w, w.chat \in 1..Len(C)
  PROVE  [C EXCEPT ![w.chat].gone = TRUE, ![w.chat].member = NoOne] = ChatDropped(C, w)
<1>1. C \in Seq(ChatRec)
  BY DEF ChatsTyped
<1>2. PICK k : k = w.chat
  OBVIOUS
<1>3. [C EXCEPT ![k].gone = TRUE, ![k].member = NoOne] = [C EXCEPT ![k] = [C[k] EXCEPT !.gone = TRUE, !.member = NoOne]]
  BY <1>1, <1>2
<1> QED BY <1>2, <1>3 DEF ChatDropped, Replaced, Emptied

LEMMA DropWorks ==
  ASSUME NEW x \in Handlers, BusyWell(x), DeleteChat(x)
  PROVE  Worked(x)
<1> DEFINE w == handler[x]
<1>1. w.at = "write" /\ Statement(w).do = "drop"
  BY DEF DeleteChat, Writes, Statement
<1>2. /\ chats' = [chats EXCEPT ![w.chat].gone = TRUE, ![w.chat].member = NoOne]
      /\ handler' = [handler EXCEPT ![x] = Onward(w)]
      /\ UNCHANGED <<friends, subscribed, blocks, reported, asked>>
  BY DEF DeleteChat, Writes, Proceed, Goes, Onward
<1>3. /\ HandlerShaped(w) /\ AtWork(w, chats, friends, subscribed, blocks) /\ ChatsTyped(chats)
      /\ friends \subseteq UserPairs /\ subscribed \subseteq Pairs /\ blocks \subseteq Pairs /\ reported \subseteq Users
  BY DEF BusyWell, TablesTyped
<1>4. PICK v : v = w
  OBVIOUS
<1>5. v.chat \in 1..Len(chats) /\ ChatsTyped(ChatDropped(chats, v))
      /\ Kept(Onward(v), ChatDropped(chats, v), friends, subscribed, blocks)
  BY <1>1, <1>3, <1>4, DropKept
<1>6. chats' = ChatDropped(chats, v)
  BY <1>2, <1>3, <1>4, <1>5, EmptiedIs
<1>7. GoesAbandoned
  <2>1. \/ v.job = "delete" /\ chats[v.chat].member[v.by] = "accepted"
        \/ /\ v.job = "decline" /\ Cardinality(ActiveIn(chats[v.chat])) <= 1
           /\ (chats[v.chat].type = "direct" => ActiveIn(chats[v.chat]) # {})
        \/ v.job = "remove" /\ ActiveIn(chats[v.chat]) = {}
    BY <1>1, <1>3, <1>4, <1>5, MayGo
  <2> SUFFICES ASSUME NEW c \in ChatIds, ~Live(c)'
               PROVE  /\ handler[x].chat = c
                      /\ \/ handler[x].job = "delete" /\ Status(c, handler[x].by) = "accepted"
                         \/ handler[x].job = "decline" /\ Cardinality(Active(c)) <= 1
                            /\ (chats[c].type = "direct" => Active(c) # {})
                         \/ handler[x].job = "remove" /\ Active(c) = {}
    BY Zenon DEF GoesAbandoned
  <2>2. c \in 1..Len(chats) /\ ~chats[c].gone /\ chats'[c].gone
    BY DEF ChatIds, Live
  <2>3. c = v.chat
    <3>1. c # v.chat => ChatDropped(chats, v)[c] = chats[c]
      BY <1>3, <1>5, <2>2 DEF ChatDropped, Replaced, ChatsTyped
    <3> QED BY <1>6, <2>2, <3>1
  <2>4. Active(c) = ActiveIn(chats[c]) /\ Status(c, v.by) = chats[c].member[v.by]
    BY ActiveIs DEF Status
  <2> QED BY <1>4, <2>1, <2>3, <2>4
<1>8. /\ handler' = [handler EXCEPT ![x] = Onward(v)] /\ UNCHANGED <<friends, subscribed, blocks, reported, asked>>
  BY <1>2, <1>4
<1> QED BY <1>3, <1>5, <1>6, <1>7, <1>8, WrittenOne

(* What is read.                                                            *)
LEMMA ReportsWork ==
  ASSUME NEW x, BusyWell(x), HasOpenReport(x)
  PROVE  Worked(x)
<1> DEFINE w == handler[x]
<1>1. w.at = "reports" /\ UNCHANGED <<tables, asked>>
  BY DEF HasOpenReport, Reads
<1>2. PICK d : handler' = [handler EXCEPT ![x] = d] /\ (d = Idle \/ d = [w EXCEPT !.at = "find"])
  BY DEF HasOpenReport, Goes
<1>3. HandlerShaped(w) /\ AtWork(w, chats, friends, subscribed, blocks)
  BY WorkersRecord
<1> HIDE DEF w
<1>4. Kept(d, chats, friends, subscribed, blocks)
  BY <1>1, <1>2, <1>3, ReportsReadKept, Zenon
<1> QED BY <1>1, <1>2, <1>4, ReadOne

LEMMA FindWorks ==
  ASSUME NEW x, BusyWell(x), FindDirect(x)
  PROVE  Worked(x)
<1> DEFINE w == handler[x]
<1>1. w.at = "find" /\ UNCHANGED <<tables, asked>>
  BY DEF FindDirect, Reads
<1>2. \/ Direct(w.by, w.to) = {} /\ handler' = [handler EXCEPT ![x] = Left(w, Opening(w))]
      \/ \E c \in Direct(w.by, w.to) :
           handler' = [handler EXCEPT ![x] = Left([w EXCEPT !.chat = c], ToDo(chats[c], w.by, w.to))]
  BY Zenon DEF FindDirect, Goes, Opening, ToDo, AskAgain, Status
<1>3. HandlerShaped(w) /\ AtWork(w, chats, friends, subscribed, blocks) /\ ChatsTyped(chats)
  BY WorkersRecord
<1>4. Direct(w.by, w.to) = Between(chats, {w.by, w.to})
  BY DirectIs
<1> HIDE DEF w
<1>5. /\ Between(chats, {w.by, w.to}) = {} => Kept(Left(w, Opening(w)), chats, friends, subscribed, blocks)
      /\ \A c \in Between(chats, {w.by, w.to}) :
           Kept(Left([w EXCEPT !.chat = c], ToDo(chats[c], w.by, w.to)), chats, friends, subscribed, blocks)
  BY <1>1, <1>3, FindKept, Zenon
<1>6. PICK d : handler' = [handler EXCEPT ![x] = d] /\ Kept(d, chats, friends, subscribed, blocks)
  BY <1>2, <1>4, <1>5, Zenon
<1> QED BY <1>1, <1>6, ReadOne

LEMMA JoinWorks ==
  ASSUME NEW x, BusyWell(x), MemberJoinStatus(x)
  PROVE  Worked(x)
<1> DEFINE w == handler[x]
<1>1. w.at = "join" /\ UNCHANGED <<tables, asked>>
  BY DEF MemberJoinStatus, Reads
<1>2. \/ handler' = [handler EXCEPT ![x] = Left(w, <<AddRow(w.to, "accepted")>>)]
      \/ handler' = [handler EXCEPT ![x] = Left(w, <<AddRow(w.to, "pending")>>)]
      \/ handler' = [handler EXCEPT ![x] = Idle]
  BY Zenon DEF MemberJoinStatus, Goes
<1>3. HandlerShaped(w) /\ AtWork(w, chats, friends, subscribed, blocks)
  BY WorkersRecord
<1> HIDE DEF w
<1>4. /\ Kept(Idle, chats, friends, subscribed, blocks)
      /\ \A s \in {"accepted", "pending"} : Kept(Left(w, <<AddRow(w.to, s)>>), chats, friends, subscribed, blocks)
  BY <1>1, <1>3, JoinKept, Zenon
<1>5. /\ Kept(Left(w, <<AddRow(w.to, "accepted")>>), chats, friends, subscribed, blocks)
      /\ Kept(Left(w, <<AddRow(w.to, "pending")>>), chats, friends, subscribed, blocks)
  BY <1>4
<1>6. PICK d : handler' = [handler EXCEPT ![x] = d] /\ Kept(d, chats, friends, subscribed, blocks)
  BY <1>2, <1>4, <1>5, Zenon
<1> QED BY <1>1, <1>6, ReadOne

LEMMA OtherWorks ==
  ASSUME NEW x, BusyWell(x), FindOther(x)
  PROVE  Worked(x)
<1> DEFINE w == handler[x]
           others == OthersIn(chats[w.chat], w.by)
<1>1. w.at = "other" /\ UNCHANGED <<tables, asked>>
  BY DEF FindOther, Reads
<1>2. \E v \in IF others = {} THEN Users ELSE others :
        handler' = [handler EXCEPT ![x] = Left(w, WithOther(w, others, v))]
  BY Zenon DEF FindOther, Goes, OthersIn, Members, RowsOf, Live, Status
<1>3. HandlerShaped(w) /\ AtWork(w, chats, friends, subscribed, blocks) /\ ChatsTyped(chats) /\ blocks \subseteq Pairs
  BY WorkersRecord
<1> HIDE DEF w
<1>4. PICK v \in IF others = {} THEN Users ELSE others :
        handler' = [handler EXCEPT ![x] = Left(w, WithOther(w, others, v))]
  BY <1>2
<1>5. Kept(Left(w, WithOther(w, others, v)), chats, friends, subscribed, blocks)
  BY <1>1, <1>3, OtherKept, Zenon
<1> HIDE DEF others
<1>6. PICK d : d = Left(w, WithOther(w, others, v))
  OBVIOUS
<1> QED BY <1>1, <1>4, <1>5, <1>6, ReadOne

LEMMA CountWorks ==
  ASSUME NEW x, BusyWell(x), DeleteIfAbandoned(x)
  PROVE  Worked(x)
<1> DEFINE w == handler[x]
           d == Left(w, IF CountOf(chats[w.chat]) <= MaxActiveMembers(w.job) THEN <<DropChat>> ELSE <<>>)
<1>1. w.at = "count" /\ UNCHANGED <<tables, asked>>
  BY DEF DeleteIfAbandoned, Reads
<1>2. handler' = [handler EXCEPT ![x] = d]
  BY Zenon, ActiveIs DEF DeleteIfAbandoned, Goes, CountOf, Live
<1>3. HandlerShaped(w) /\ AtWork(w, chats, friends, subscribed, blocks) /\ ChatsTyped(chats)
  BY WorkersRecord
<1> HIDE DEF w
<1>4. Kept(d, chats, friends, subscribed, blocks)
  BY <1>1, <1>3, CountKept, Zenon
<1> HIDE DEF d
<1> QED BY <1>1, <1>2, <1>4, ReadOne

-----------------------------------------------------------------------------
(* Whoever works works alone, and what it does keeps the invariant.         *)
AllRest ==
  /\ TablesTyped(chats, friends, subscribed, blocks, reported) /\ asked \in 0..MaxAsked
  /\ DOMAIN handler = Handlers /\ \A x \in Handlers : handler[x] = Idle
  /\ Tuned(chats, friends, subscribed, blocks)
WorkedOn(x) ==
  \E d :
    /\ handler' = [handler EXCEPT ![x] = d] /\ Kept(d, chats', friends', subscribed', blocks')
    /\ TablesTyped(chats', friends', subscribed', blocks', reported')
    /\ asked' \in 0..MaxAsked /\ GoesAbandoned
SetsOut(x) ==
  handler[x].at = "idle" /\ \E d : handler' = [handler EXCEPT ![x] = d] /\ d.at # "idle"

LEMMA WorkerKnown ==
  ASSUME ChatsIInv, calm, NEW x \in Handlers, handler[x].at # "idle"
  PROVE  OneWorks(x) /\ BusyWell(x)
<1>1. /\ TablesTyped(chats, friends, subscribed, blocks, reported) /\ HandlerShaped(handler[x])
      /\ \/ \A y \in Handlers : handler[y] = Idle
         \/ \E y \in Handlers : OneWorks(y) /\ AtWork(handler[y], chats, friends, subscribed, blocks)
  BY Zenon DEF ChatsIInv
<1>2. handler[x] # Idle
  BY IdleShaped
<1>3. PICK y \in Handlers : OneWorks(y) /\ AtWork(handler[y], chats, friends, subscribed, blocks)
  BY <1>1, <1>2
<1>4. x = y
  BY <1>2, <1>3 DEF OneWorks
<1> QED BY <1>1, <1>3, <1>4, Zenon DEF BusyWell

LEMMA NobodyHandles ==
  ASSUME ChatsIInv, calm, \A x \in Handlers : handler[x].at = "idle"
  PROVE  AllRest
<1>1. /\ TablesTyped(chats, friends, subscribed, blocks, reported) /\ asked \in 0..MaxAsked
      /\ DOMAIN handler = Handlers
      /\ \/ (\A y \in Handlers : handler[y] = Idle) /\ Tuned(chats, friends, subscribed, blocks)
         \/ \E y \in Handlers : OneWorks(y) /\ AtWork(handler[y], chats, friends, subscribed, blocks)
  BY Zenon DEF ChatsIInv
<1>2. ASSUME NEW y \in Handlers, OneWorks(y), AtWork(handler[y], chats, friends, subscribed, blocks)
      PROVE  (\A z \in Handlers : handler[z] = Idle) /\ Tuned(chats, friends, subscribed, blocks)
  <2>1. Rests(handler[y], chats, friends, subscribed, blocks)
    BY <1>2, WhatIsRead
  <2> QED BY <1>2, <2>1 DEF Rests, OneWorks
<1>3. (\A z \in Handlers : handler[z] = Idle) /\ Tuned(chats, friends, subscribed, blocks)
  BY <1>1, <1>2
<1> QED BY <1>1, <1>3 DEF AllRest

LEMMA Alone ==
  ASSUME ChatsIInv, calm, ChatsAssumption, NEW x \in Handlers, SetsOut(x), HandlersTakeTurns'
  PROVE  AllRest
<1>1. PICK d : handler' = [handler EXCEPT ![x] = d] /\ d.at # "idle"
  BY DEF SetsOut
<1>2. DOMAIN handler = Handlers
  BY DEF ChatsIInv
<1>3. \A y, z \in {y \in Handlers : handler'[y].at # "idle"} : y = z
  <2>1. IsFiniteSet({y \in Handlers : handler'[y].at # "idle"})
    BY FS_Subset DEF ChatsAssumption
  <2> QED BY <2>1, AtMostOne DEF HandlersTakeTurns
<1>4. \A y \in Handlers : handler[y].at = "idle"
  BY <1>1, <1>2, <1>3 DEF SetsOut
<1> QED BY <1>4, NobodyHandles

LEMMA Continues ==
  ASSUME ChatsIInv, calm, NEW x \in Handlers, OneWorks(x), WorkedOn(x)
  PROVE  ChatsIInv'
<1>1. DOMAIN handler = Handlers /\ \A y \in Handlers : HandlerShaped(handler[y])
  BY Zenon DEF ChatsIInv
<1>2. PICK d :
        /\ handler' = [handler EXCEPT ![x] = d] /\ Kept(d, chats', friends', subscribed', blocks')
        /\ TablesTyped(chats', friends', subscribed', blocks', reported')
        /\ asked' \in 0..MaxAsked
  BY DEF WorkedOn
<1>3. /\ DOMAIN handler' = Handlers /\ handler'[x] = d
      /\ \A y \in Handlers : y # x => handler'[y] = handler[y]
  BY <1>1, <1>2
<1>4. /\ \A y \in Handlers : HandlerShaped(handler'[y])
      /\ AtWork(handler'[x], chats', friends', subscribed', blocks')
  BY <1>1, <1>2, <1>3, Zenon DEF Kept
<1>5. \A y \in Handlers \ {x} : handler'[y] = Idle
  BY <1>3 DEF OneWorks
<1> QED BY <1>2, <1>3, <1>4, <1>5, Zenon DEF ChatsIInv, OneWorks

LEMMA BegunOne ==
  ASSUME NEW x, AllRest, Request(x), NEW d, handler' = [handler EXCEPT ![x] = d],
         Kept(d, chats', friends', subscribed', blocks'), ChatsTyped(chats'), blocks' \subseteq Pairs,
         UNCHANGED <<friends, subscribed, reported>>, GoesAbandoned, MaxAsked \in Nat
  PROVE  WorkedOn(x)
<1>1. asked' \in 0..MaxAsked
  BY DEF AllRest, Request
<1>2. TablesTyped(chats', friends', subscribed', blocks', reported')
  BY DEF AllRest, TablesTyped
<1> QED BY <1>1, <1>2 DEF WorkedOn

LEMMA RestingTables ==
  ASSUME AllRest
  PROVE  /\ Tuned(chats, friends, subscribed, blocks) /\ ChatsTyped(chats)
         /\ friends \subseteq UserPairs /\ blocks \subseteq Pairs /\ DOMAIN handler = Handlers
  BY DEF AllRest, TablesTyped

LEMMA Requested ==
  ASSUME NEW job, NEW u, NEW v, NEW w, w = [Idle EXCEPT !.job = job, !.by = u, !.to = v]
  PROVE  HandlerShaped(w)
<1>1. w = [at |-> "idle", job |-> job, by |-> u, to |-> v, chat |-> 0, todo |-> <<>>]
  BY DEF Idle
<1> QED BY <1>1 DEF HandlerShaped

LEMMA CreateDirectBegins ==
  ASSUME NEW x, NEW u, NEW v, CreateDirect(x, u, v)
  PROVE  /\ SetsOut(x)
         /\ <<u, v>> \in Pairs /\ AllRest /\ MaxAsked \in Nat => WorkedOn(x)
<1> DEFINE d == [Idle EXCEPT !.at = "reports", !.job = "direct", !.by = u, !.to = v]
<1>1. handler[x].at = "idle" /\ handler' = [handler EXCEPT ![x] = d] /\ ~Blocked(u, v) /\ UNCHANGED tables
  BY DEF CreateDirect, Request, Goes
<1>2. d.at # "idle"
  BY DEF Idle
<1>3. ASSUME <<u, v>> \in Pairs, AllRest, MaxAsked \in Nat PROVE WorkedOn(x)
  <2>1. Free(blocks, u, v)
    BY <1>1, <1>3 DEF Free, Blocked
  <2>2. Kept(d, chats, friends, subscribed, blocks)
    BY <1>3, <2>1, CreateDirectKept, RestingTables
  <2> HIDE DEF d
  <2>3. UNCHANGED <<chats, friends, subscribed, blocks, reported>>
    BY <1>1 DEF tables
  <2>4. Request(x)
    BY DEF CreateDirect
  <2> QED BY <1>1, <1>3, <2>2, <2>3, <2>4, RestingTables, SameGoes, BegunOne
<1> HIDE DEF d
<1> QED BY <1>1, <1>2, <1>3 DEF SetsOut

LEMMA CreateGroupBegins ==
  ASSUME NEW x, NEW u, NEW v, CreateGroup(x, u, v)
  PROVE  /\ SetsOut(x)
         /\ <<u, v>> \in Pairs /\ AllRest /\ MaxAsked \in Nat => WorkedOn(x)
<1> DEFINE w == [Idle EXCEPT !.job = "group", !.by = u, !.to = v]
           list == <<NewChat("group"), AddRow(u, "accepted"), Invite>>
           d == Left(w, list)
<1>1. handler[x].at = "idle" /\ handler' = [handler EXCEPT ![x] = d] /\ UNCHANGED tables /\ Request(x)
  BY Zenon DEF CreateGroup, Request, Goes
<1>2. d.at # "idle"
  <2>1. HandlerShaped(w)
    BY Requested
  <2>2. list # <<>>
    OBVIOUS
  <2> HIDE DEF w, list
  <2> QED BY <2>1, <2>2, LeftOf
<1>3. ASSUME <<u, v>> \in Pairs, AllRest, MaxAsked \in Nat PROVE WorkedOn(x)
  <2>1. u \in Users /\ v \in Users
    BY <1>3 DEF Pairs
  <2>2. Kept(d, chats, friends, subscribed, blocks)
    BY <1>3, <2>1, CreateGroupKept, RestingTables
  <2> HIDE DEF d
  <2>3. UNCHANGED <<chats, friends, subscribed, blocks, reported>>
    BY <1>1 DEF tables
  <2> QED BY <1>1, <1>3, <2>2, <2>3, RestingTables, SameGoes, BegunOne
<1> HIDE DEF d
<1> QED BY <1>1, <1>2, <1>3 DEF SetsOut

LEMMA AddMemberBegins ==
  ASSUME NEW x \in Handlers, NEW u, NEW v, NEW c \in ChatIds, AddMember(x, u, v, c)
  PROVE  /\ SetsOut(x)
         /\ <<u, v>> \in Pairs /\ AllRest /\ MaxAsked \in Nat /\ GroupsGrow => WorkedOn(x)
<1> DEFINE d == [Idle EXCEPT !.at = "join", !.job = "add", !.by = u, !.to = v, !.chat = c]
<1>1. handler[x].at = "idle" /\ handler' = [handler EXCEPT ![x] = d] /\ UNCHANGED tables /\ Request(x)
  BY DEF AddMember, Request, Goes
<1>2. d.at # "idle" /\ d.job = "add" /\ d.chat = c
  BY DEF Idle
<1>3. ASSUME <<u, v>> \in Pairs, AllRest, MaxAsked \in Nat, GroupsGrow PROVE WorkedOn(x)
  <2>1. u \in Users /\ v \in Users /\ c \in 1..Len(chats)
    BY <1>3 DEF Pairs, ChatIds
  <2>2. chats[c].type = "group"
    <3>1. handler'[x] = d
      BY <1>1, <1>3, RestingTables
    <3> HIDE DEF d
    <3> QED BY <1>1, <1>2, <1>3, <3>1 DEF GroupsGrow, Started
  <2>3. Kept(d, chats, friends, subscribed, blocks)
    BY <1>3, <2>1, <2>2, AddMemberKept, RestingTables
  <2> HIDE DEF d
  <2>4. UNCHANGED <<chats, friends, subscribed, blocks, reported>>
    BY <1>1 DEF tables
  <2> QED BY <1>1, <1>3, <2>3, <2>4, RestingTables, SameGoes, BegunOne
<1> HIDE DEF d
<1> QED BY <1>1, <1>2, <1>3 DEF SetsOut

LEMMA EndChatBegins ==
  ASSUME NEW x, NEW u \in Users, NEW c \in ChatIds, NEW job \in {"unfriend", "delete"}, EndChat(x, u, c, job)
  PROVE  /\ SetsOut(x)
         /\ AllRest /\ MaxAsked \in Nat => WorkedOn(x)
<1> DEFINE d == [Idle EXCEPT !.at = "other", !.job = job, !.by = u, !.chat = c]
<1>1. handler[x].at = "idle" /\ handler' = [handler EXCEPT ![x] = d] /\ UNCHANGED tables /\ Request(x)
  BY DEF EndChat, Request, Goes
<1>2. d.at # "idle"
  BY DEF Idle
<1>3. c \in 1..Len(chats) /\ IsDirect(chats[c]) /\ chats[c].member[u] = "accepted"
  BY DEF EndChat, ChatIds, Live, Status, IsDirect
<1>4. ASSUME AllRest, MaxAsked \in Nat PROVE WorkedOn(x)
  <2>1. Kept(d, chats, friends, subscribed, blocks)
    BY <1>3, <1>4, EndChatKept, RestingTables
  <2> HIDE DEF d
  <2>2. UNCHANGED <<chats, friends, subscribed, blocks, reported>>
    BY <1>1 DEF tables
  <2> QED BY <1>1, <1>4, <2>1, <2>2, RestingTables, SameGoes, BegunOne
<1> HIDE DEF d
<1> QED BY <1>1, <1>2, <1>4 DEF SetsOut

LEMMA BlockBegins ==
  ASSUME NEW x, NEW u, NEW v, NEW job \in {"block", "report"}, Block(x, u, v, job)
  PROVE  /\ SetsOut(x)
         /\ <<u, v>> \in Pairs /\ AllRest /\ MaxAsked \in Nat => WorkedOn(x)
<1> DEFINE w == [Idle EXCEPT !.job = job, !.by = u, !.to = v]
           list == <<Subscribe(u, v, FALSE), Subscribe(v, u, FALSE), Sever>>
                   \o IF job = "report" THEN <<Report>> ELSE <<>>
           d == Left(w, list)
<1>1. /\ handler[x].at = "idle" /\ handler' = [handler EXCEPT ![x] = d] /\ Request(x)
      /\ blocks' = blocks \cup {<<u, v>>} /\ UNCHANGED <<chats, friends, subscribed, reported>>
  BY Zenon DEF Block, Request, Goes
<1>2. d.at # "idle"
  <2>1. HandlerShaped(w)
    BY Requested
  <2>2. list # <<>>
    OBVIOUS
  <2> HIDE DEF w, list
  <2> QED BY <2>1, <2>2, LeftOf
<1>3. ASSUME <<u, v>> \in Pairs, AllRest, MaxAsked \in Nat PROVE WorkedOn(x)
  <2>1. Kept(d, chats, friends, subscribed, blocks \cup {<<u, v>>})
    BY <1>3, BlockKept, RestingTables
  <2> HIDE DEF d
  <2>2. blocks' \subseteq Pairs /\ ChatsTyped(chats') /\ Kept(d, chats', friends', subscribed', blocks')
    BY <1>1, <1>3, <2>1, RestingTables
  <2> QED BY <1>1, <1>3, <2>2, SameGoes, BegunOne
<1> HIDE DEF d
<1> QED BY <1>1, <1>2, <1>3 DEF SetsOut

LEMMA AcceptBegins ==
  ASSUME NEW x, NEW u \in Users, NEW c \in ChatIds, Accept(x, u, c)
  PROVE  /\ SetsOut(x)
         /\ AllRest /\ MaxAsked \in Nat => WorkedOn(x)
<1> DEFINE d == [Idle EXCEPT !.at = "other", !.job = "accept", !.by = u, !.chat = c]
           D == Replaced(chats, c, Restated(chats[c], {u}, "accepted"))
<1>1. /\ handler[x].at = "idle" /\ handler' = [handler EXCEPT ![x] = d] /\ Request(x)
      /\ chats' = WithStatus(c, {u}, "accepted") /\ UNCHANGED <<friends, subscribed, blocks, reported>>
      /\ chats[c].member[u] = "pending"
  BY DEF Accept, Request, Goes, Status
<1>2. d.at # "idle"
  BY DEF Idle
<1>3. c \in 1..Len(chats) /\ ~chats[c].gone
  BY DEF ChatIds, Live
<1>4. ASSUME AllRest, MaxAsked \in Nat PROVE WorkedOn(x)
  <2>1. ChatsTyped(D) /\ Kept(d, D, friends, subscribed, blocks)
    BY <1>1, <1>3, <1>4, AcceptKept, RestingTables
  <2>2. chats' = D
    BY <1>1, <1>3, <1>4, RestingTables, WithStatusIs
  <2>3. chats[c] \in ChatRec
    BY <1>3, <1>4, RestingTables, ChatAt
  <2>4. PICK h : h = Restated(chats[c], {u}, "accepted")
    OBVIOUS
  <2>5. h \in ChatRec /\ h.gone = chats[c].gone
    BY <2>3, <2>4, RestatedRow DEF Statuses
  <2>6. StayLive(chats, chats')
    BY <1>3, <1>4, <2>1, <2>2, <2>4, <2>5, RestingTables, ReplacedStays
  <2> HIDE DEF d, D
  <2> QED BY <1>1, <1>4, <2>1, <2>2, <2>6, RestingTables, NoneGoes, BegunOne
<1> HIDE DEF d
<1> QED BY <1>1, <1>2, <1>4 DEF SetsOut

LEMMA DeclineBegins ==
  ASSUME NEW x \in Handlers, NEW u \in Users, NEW c \in ChatIds, Decline(x, u, c)
  PROVE  /\ SetsOut(x)
         /\ AllRest /\ MaxAsked \in Nat /\ PendingDeclined => WorkedOn(x)
<1> DEFINE d == [Idle EXCEPT !.at = "count", !.job = "decline", !.by = u, !.chat = c]
           D == Replaced(chats, c, RowGone(chats[c], u))
<1>1. /\ handler[x].at = "idle" /\ handler' = [handler EXCEPT ![x] = d] /\ Request(x)
      /\ chats' = IF Status(c, u) = "pending" THEN [chats EXCEPT ![c].member[u] = "none"] ELSE chats
      /\ UNCHANGED <<friends, subscribed, blocks, reported>>
  BY DEF Decline, Request, Goes
<1>2. d.at # "idle" /\ d.job = "decline" /\ d.by = u /\ d.chat = c
  BY DEF Idle
<1>3. c \in 1..Len(chats) /\ ~chats[c].gone
  BY DEF ChatIds, Live
<1>4. ASSUME AllRest, MaxAsked \in Nat, PendingDeclined PROVE WorkedOn(x)
  <2>1. Status(c, u) = "pending"
    <3>1. handler'[x] = d
      BY <1>1, <1>4, RestingTables
    <3> HIDE DEF d
    <3> QED BY <1>1, <1>2, <1>4, <3>1 DEF PendingDeclined, Started
  <2>2. chats[c].member[u] = "pending"
    BY <2>1 DEF Status
  <2>3. ChatsTyped(D) /\ Kept(d, D, friends, subscribed, blocks)
    BY <1>3, <1>4, <2>2, DeclineKept, RestingTables
  <2>4. chats' = D
    BY <1>1, <2>1 DEF Replaced, RowGone
  <2>5. chats[c] \in ChatRec
    BY <1>3, <1>4, RestingTables, ChatAt
  <2>6. PICK h : h = RowGone(chats[c], u)
    OBVIOUS
  <2>7. h \in ChatRec /\ h.gone = chats[c].gone
    BY <2>5, <2>6, GoneRow
  <2>8. StayLive(chats, chats')
    BY <1>3, <1>4, <2>3, <2>4, <2>6, <2>7, RestingTables, ReplacedStays
  <2> HIDE DEF d, D
  <2> QED BY <1>1, <1>4, <2>3, <2>4, <2>8, RestingTables, NoneGoes, BegunOne
<1> HIDE DEF d
<1> QED BY <1>1, <1>2, <1>4 DEF SetsOut

LEMMA RemoveMemberBegins ==
  ASSUME NEW x, NEW u \in Users, NEW v \in Users, NEW c \in ChatIds, RemoveMember(x, u, v, c)
  PROVE  /\ SetsOut(x)
         /\ AllRest /\ MaxAsked \in Nat => WorkedOn(x)
<1> DEFINE d == [Idle EXCEPT !.at = "count", !.job = "remove", !.by = u, !.to = v, !.chat = c]
           D == Replaced(chats, c, Restated(chats[c], {v}, "left"))
<1>1. /\ handler[x].at = "idle" /\ handler' = [handler EXCEPT ![x] = d] /\ Request(x)
      /\ chats' = WithStatus(c, {v}, "left") /\ UNCHANGED <<friends, subscribed, blocks, reported>>
      /\ chats[c].type = "group"
  BY DEF RemoveMember, Request, Goes
<1>2. d.at # "idle"
  BY DEF Idle
<1>3. c \in 1..Len(chats) /\ ~chats[c].gone
  BY DEF ChatIds, Live
<1>4. ASSUME AllRest, MaxAsked \in Nat PROVE WorkedOn(x)
  <2>1. ChatsTyped(D) /\ Kept(d, D, friends, subscribed, blocks)
    BY <1>1, <1>3, <1>4, RemoveMemberKept, RestingTables
  <2>2. chats' = D
    BY <1>1, <1>3, <1>4, RestingTables, WithStatusIs
  <2>3. chats[c] \in ChatRec
    BY <1>3, <1>4, RestingTables, ChatAt
  <2>4. PICK h : h = Restated(chats[c], {v}, "left")
    OBVIOUS
  <2>5. h \in ChatRec /\ h.gone = chats[c].gone
    BY <2>3, <2>4, RestatedRow DEF Statuses
  <2>6. StayLive(chats, chats')
    BY <1>3, <1>4, <2>1, <2>2, <2>4, <2>5, RestingTables, ReplacedStays
  <2> HIDE DEF d, D
  <2> QED BY <1>1, <1>4, <2>1, <2>2, <2>6, RestingTables, NoneGoes, BegunOne
<1> HIDE DEF d
<1> QED BY <1>1, <1>2, <1>4 DEF SetsOut

(* A block is lifted, or the reports against a user are cleared, while      *)
(* another handler may be at work.                                          *)
LEMMA ClearedKeeps ==
  ASSUME ChatsIInv, calm, ChatsAssumption, NEW D, D \subseteq blocks, blocks' = D, reported' \subseteq Users,
         asked < MaxAsked, asked' = asked + 1, UNCHANGED <<chats, friends, subscribed, handler>>
  PROVE  ChatsIInv' /\ GoesAbandoned
<1>1. /\ TablesTyped(chats, friends, subscribed, blocks, reported) /\ asked \in 0..MaxAsked
      /\ DOMAIN handler = Handlers /\ \A x \in Handlers : HandlerShaped(handler[x])
      /\ \/ (\A x \in Handlers : handler[x] = Idle) /\ Tuned(chats, friends, subscribed, blocks)
         \/ \E x \in Handlers : OneWorks(x) /\ AtWork(handler[x], chats, friends, subscribed, blocks)
  BY Zenon DEF ChatsIInv
<1>2. TablesTyped(chats', friends', subscribed', blocks', reported')
  BY <1>1 DEF TablesTyped
<1>3. asked' \in 0..MaxAsked
  BY <1>1 DEF ChatsAssumption
<1>4. Tuned(chats, friends, subscribed, blocks) => Tuned(chats, friends, subscribed, D)
  BY TuneUnblocked DEF Tuned
<1>5. \A x \in Handlers : AtWork(handler[x], chats, friends, subscribed, blocks) =>
                          AtWork(handler[x], chats, friends, subscribed, D)
  BY AtWorkUnblocked
<1>6. ChatsIInv'
  BY <1>1, <1>2, <1>3, <1>4, <1>5, Zenon DEF ChatsIInv, OneWorks
<1> QED BY <1>6, SameGoes

LEMMA HandlesOn ==
  ASSUME ChatsIInv, calm, NEW x \in Handlers, OneWorks(x), WorkedOn(x)
  PROVE  ChatsIInv' /\ GoesAbandoned
<1>1. GoesAbandoned
  BY DEF WorkedOn
<1> QED BY <1>1, Continues

LEMMA WorksOn ==
  ASSUME ChatsIInv, calm, NEW x \in Handlers, handler[x].at # "idle", BusyWell(x) => Worked(x)
  PROVE  ChatsIInv' /\ GoesAbandoned
<1>1. OneWorks(x) /\ BusyWell(x)
  BY WorkerKnown
<1>2. asked \in 0..MaxAsked
  BY Zenon DEF ChatsIInv
<1>3. WorkedOn(x)
  BY <1>1, <1>2 DEF Worked, WorkedOn
<1> QED BY <1>1, <1>3, HandlesOn

LEMMA BeginsAlone ==
  ASSUME ChatsIInv, calm, ChatsAssumption, NEW x \in Handlers, SetsOut(x), HandlersTakeTurns',
         AllRest /\ MaxAsked \in Nat => WorkedOn(x)
  PROVE  ChatsIInv' /\ GoesAbandoned
<1>1. AllRest
  BY Alone
<1>2. OneWorks(x)
  BY <1>1 DEF AllRest, OneWorks
<1>3. WorkedOn(x)
  BY <1>1 DEF ChatsAssumption
<1> QED BY <1>2, <1>3, HandlesOn

LEMMA HandleKeeps ==
  ASSUME ChatsIInv, calm, ChatsAssumption, NEW x \in Handlers, Handle(x), GroupsGrow, PendingDeclined,
         HandlersTakeTurns'
  PROVE  ChatsIInv' /\ GoesAbandoned
<1>1. ASSUME NEW p \in Pairs,
             \/ CreateDirect(x, p[1], p[2]) \/ CreateGroup(x, p[1], p[2])
             \/ \E c \in ChatIds : AddMember(x, p[1], p[2], c)
             \/ \E job \in {"block", "report"} : Block(x, p[1], p[2], job)
      PROVE  ChatsIInv' /\ GoesAbandoned
  <2>1. <<p[1], p[2]>> \in Pairs
    BY DEF Pairs
  <2>2. SetsOut(x) /\ (AllRest /\ MaxAsked \in Nat => WorkedOn(x))
    BY <1>1, <2>1, CreateDirectBegins, CreateGroupBegins, AddMemberBegins, BlockBegins
  <2> QED BY <2>2, BeginsAlone
<1>2. ASSUME NEW p \in Pairs, Unblock(x, p[1], p[2]) PROVE ChatsIInv' /\ GoesAbandoned
  <2>1. /\ asked < MaxAsked /\ asked' = asked + 1 /\ blocks' \subseteq blocks
        /\ UNCHANGED <<chats, friends, subscribed, reported, handler>>
    BY <1>2 DEF Unblock, Request
  <2>2. PICK D : D = blocks'
    OBVIOUS
  <2>3. reported' \subseteq Users
    BY <2>1, Zenon DEF ChatsIInv, TablesTyped
  <2> QED BY <2>1, <2>2, <2>3, ClearedKeeps
<1>3. ASSUME NEW u \in Users, NEW c \in ChatIds,
             \/ Accept(x, u, c) \/ Decline(x, u, c)
             \/ \E v \in Users : RemoveMember(x, u, v, c)
             \/ \E job \in {"unfriend", "delete"} : EndChat(x, u, c, job)
      PROVE  ChatsIInv' /\ GoesAbandoned
  <2>1. SetsOut(x) /\ (AllRest /\ MaxAsked \in Nat => WorkedOn(x))
    BY <1>3, AcceptBegins, DeclineBegins, RemoveMemberBegins, EndChatBegins
  <2> QED BY <2>1, BeginsAlone
<1>4. CASE HasOpenReport(x) \/ FindDirect(x) \/ MemberJoinStatus(x) \/ FindOther(x) \/ DeleteIfAbandoned(x)
  <2>1. handler[x].at # "idle"
    BY <1>4 DEF HasOpenReport, FindDirect, MemberJoinStatus, FindOther, DeleteIfAbandoned, Reads
  <2>2. BusyWell(x) => Worked(x)
    BY <1>4, ReportsWork, FindWorks, JoinWorks, OtherWorks, CountWorks
  <2> QED BY <2>1, <2>2, WorksOn
<1>5. CASE NotBlocked(x) \/ SeverFriends(x) \/ WriteStatus(x) \/ SetFriends(x) \/ SetSubscribed(x)
           \/ InsertChat(x) \/ InsertMember(x) \/ DeleteChat(x) \/ InsertReport(x)
  <2>1. handler[x].at # "idle"
    BY <1>5 DEF NotBlocked, SeverFriends, WriteStatus, SetFriends, SetSubscribed, InsertChat, InsertMember,
       DeleteChat, InsertReport, Writes
  <2>2. BusyWell(x) => Worked(x)
    BY <1>5, InviteWorks, SeverWorks, StatusWorks, FriendsWork, SubscribingWorks, ChatMadeWorks, RowWorks,
       DropWorks, ReportWorks
  <2> QED BY <2>1, <2>2, WorksOn
<1> QED BY <1>1, <1>2, <1>3, <1>4, <1>5, Zenon DEF Handle

LEMMA ChatStepsKeep ==
  ASSUME ChatsIInv, calm, ChatsAssumption, ChatSteps
  PROVE  ChatsIInv' /\ GoesAbandoned
<1>1. GroupsGrow /\ PendingDeclined /\ HandlersTakeTurns'
  BY DEF ChatSteps
<1>2. (\E x \in Handlers : Handle(x)) \/ \E u \in Users : ClearReport(u)
  BY DEF ChatSteps
<1>3. ASSUME NEW x \in Handlers, Handle(x) PROVE ChatsIInv' /\ GoesAbandoned
  BY <1>1, <1>3, HandleKeeps
<1>4. ASSUME NEW u \in Users, ClearReport(u) PROVE ChatsIInv' /\ GoesAbandoned
  <2>1. /\ asked < MaxAsked /\ asked' = asked + 1 /\ reported' \subseteq reported
        /\ UNCHANGED <<chats, friends, subscribed, blocks, handler>>
    BY <1>4 DEF ClearReport
  <2>2. PICK D : D = blocks
    OBVIOUS
  <2>3. reported' \subseteq Users
    BY <2>1, Zenon DEF ChatsIInv, TablesTyped
  <2> QED BY <2>1, <2>2, <2>3, ClearedKeeps
<1> QED BY <1>2, <1>3, <1>4

LEMMA ChatsAmongOthers ==
  ASSUME ChatsIInv, ChatsAssumption, [MCNext]_<<first, second, service, calm>>
  PROVE  ChatsIInv' /\ (calm => GoesAbandoned)
<1>1. calm' = calm /\ (ChatSteps \/ UNCHANGED chatsVars)
  BY Zenon DEF MCNext, first
<1>2. CASE ~calm
  BY <1>1, <1>2 DEF ChatsIInv
<1>3. CASE calm /\ ChatSteps
  BY <1>3, ChatStepsKeep
<1>4. CASE UNCHANGED chatsVars
  <2>1. UNCHANGED <<chats, friends, subscribed, blocks, reported, handler, asked>>
    BY <1>4 DEF chatsVars, tables
  <2> QED BY <1>1, <2>1, SameGoes, Zenon DEF ChatsIInv, OneWorks
<1> QED BY <1>1, <1>2, <1>3, <1>4

LEMMA ChatsInitially ==
  ASSUME ChatsInit, ChatsAssumption
  PROVE  ChatsIInv
<1>1. /\ chats = <<>> /\ friends = {} /\ subscribed = {} /\ blocks = {} /\ reported = {}
      /\ handler = [x \in Handlers |-> Idle] /\ asked = 0 /\ MaxAsked \in Nat
  BY DEF ChatsInit, ChatsAssumption
<1>2. chats \in Seq(ChatRec) /\ Len(chats) = 0
  BY <1>1
<1>3. TablesTyped(chats, friends, subscribed, blocks, reported)
  BY <1>1, <1>2 DEF TablesTyped, ChatsTyped
<1>4. Tuned(chats, friends, subscribed, blocks)
  BY <1>1, <1>2 DEF Tuned, InTune, AllStand, NoneTwice, FriendsHaveChats, BlockedArePart, Between
<1>5. DOMAIN handler = Handlers /\ \A x \in Handlers : handler[x] = Idle /\ HandlerShaped(handler[x])
  BY <1>1, IdleShaped
<1>6. asked \in 0..MaxAsked
  BY <1>1
<1> QED BY <1>3, <1>4, <1>5, <1>6, Zenon DEF ChatsIInv

(* What the tables then say.                                                *)
LEMMA NobodyTwice ==
  ASSUME NEW w, NEW C, NEW F, NEW S, NEW B, AtWork(w, C, F, S, B)
  PROVE  NoneTwice(C)
<1>1. Tuned(C, F, S, B) \/ (\E k, q, r : InTune(C, F, S, B, k, q, r)) => NoneTwice(C)
  BY DEF Tuned, InTune
<1>2. AtDirect(w, C, F, S, B) => Tuned(C, F, S, B) \/ \E k, q, r : InTune(C, F, S, B, k, q, r)
  BY DEF AtDirect, Inquires, Subscribes, OpensChat, AddsFirst, AddsSecond, Answers, Befriends,
     Reopens, MakesPending, WithChat
<1>3. AtGroup(w, C, F, S, B) => Tuned(C, F, S, B)
  BY DEF AtGroup, Founds, AddsFounder, Invites, LooksUp, AddsJoiner, OfGroup
<1>4. AtAccept(w, C, F, S, B) => Tuned(C, F, S, B) \/ \E k, q, r : InTune(C, F, S, B, k, q, r)
  BY DEF AtAccept, AcceptedGroup, AcceptedChat, Confirms, BothOf
<1>5. AtEnding(w, C, F, S, B) => Tuned(C, F, S, B) \/ \E k, q, r : InTune(C, F, S, B, k, q, r)
  BY DEF AtEnding, EndsChat, Unfriends, Forgets, ForgetsBoth, ForgetsLast, Deletes, Unlinks, EndOf
<1>6. AtLeaving(w, C, F, S, B) => Tuned(C, F, S, B) \/ \E k, q, r : InTune(C, F, S, B, k, q, r)
  BY DEF AtLeaving, Leaves, Drops, LeftOne
<1>7. AtBlock(w, C, F, S, B) => Tuned(C, F, S, B) \/ \E k, q, r : InTune(C, F, S, B, k, q, r)
  BY DEF AtBlock, Blocks, BlocksNext, BlocksFind, BlocksChat, BlocksLast, ReportsLast, BlockOf
<1> QED BY <1>1, <1>2, <1>3, <1>4, <1>5, <1>6, <1>7 DEF AtWork, Rests

LEMMA WhereAtWork ==
  ASSUME NEW w, NEW C, NEW F, NEW S, NEW B, AtWork(w, C, F, S, B)
  PROVE  w.at \in {"idle", "reports", "find", "join", "other", "count", "write"}
<1> SUFFICES ASSUME w.at # "write" PROVE w.at \in {"idle", "reports", "find", "join", "other", "count", "write"}
  OBVIOUS
<1>1. \/ Rests(w, C, F, S, B) \/ Inquires(w, C, F, S, B) \/ LooksUp(w, C, F, S, B)
      \/ AcceptedGroup(w, C, F, S, B) \/ AcceptedChat(w, C, F, S, B)
      \/ EndsChat(w, C, F, S, B) \/ Leaves(w, C, F, S, B)
  BY WritesAreWrites
<1>2. Rests(w, C, F, S, B) => w.at = "idle"
  BY IdleShaped DEF Rests
<1> QED BY <1>1, <1>2 DEF Inquires, LooksUp, AcceptedGroup, AcceptedChat, EndsChat, Leaves

LEMMA ChatsAreTyped ==
  ASSUME ChatsIInv, calm
  PROVE  ChatsTypeOK /\ NoneTwice(chats) /\ ChatsTyped(chats)
<1>1. /\ TablesTyped(chats, friends, subscribed, blocks, reported) /\ asked \in 0..MaxAsked
      /\ \/ (\A x \in Handlers : handler[x] = Idle) /\ Tuned(chats, friends, subscribed, blocks)
         \/ \E x \in Handlers : OneWorks(x) /\ AtWork(handler[x], chats, friends, subscribed, blocks)
  BY Zenon DEF ChatsIInv
<1>2. \A c \in 1..Len(chats) :
        /\ chats[c].type \in {"direct", "group"} /\ chats[c].admin \in Users
        /\ chats[c].member \in [Users -> Statuses] /\ chats[c].gone \in BOOLEAN
  <2>1. \A c \in 1..Len(chats) : chats[c] \in ChatRec
    BY <1>1 DEF TablesTyped, ChatsTyped
  <2> QED BY <2>1 DEF ChatRec
<1>3. ASSUME NEW x \in Handlers
      PROVE  handler[x].at \in {"idle", "reports", "find", "join", "other", "count", "write"}
  BY <1>1, IdleShaped, WhereAtWork DEF OneWorks
<1>4. NoneTwice(chats)
  BY <1>1, NobodyTwice DEF Tuned, InTune
<1>5. /\ friends \subseteq {{p[1], p[2]} : p \in Pairs} /\ subscribed \subseteq Pairs /\ blocks \subseteq Pairs
      /\ reported \subseteq Users /\ ChatsTyped(chats)
  BY <1>1 DEF TablesTyped, UserPairs
<1> QED BY <1>1, <1>2, <1>3, <1>4, <1>5, Zenon DEF ChatsTypeOK

LEMMA NeverTwice ==
  ASSUME NoneTwice(chats), ChatsTyped(chats)
  PROVE  OneDirectChat
<1> SUFFICES ASSUME NEW p \in Pairs PROVE Cardinality(Direct(p[1], p[2])) <= 1
  BY DEF OneDirectChat
<1>1. Direct(p[1], p[2]) = Between(chats, {p[1], p[2]})
  BY DirectIs
<1>2. \A i, j \in Between(chats, {p[1], p[2]}) : i = j
  BY DEF NoneTwice, UserPairs
<1>3. IsFiniteSet(Direct(p[1], p[2]))
  <2>1. Len(chats) \in Nat
    BY DEF ChatsTyped
  <2>2. IsFiniteSet(1..Len(chats))
    BY <2>1, FS_Interval
  <2> QED BY <1>1, <2>2, FS_Subset DEF Between
<1> QED BY <1>1, <1>2, <1>3, AtMostOne

LEMMA TablesAgree ==
  ASSUME AllRest, NEW p \in Pairs
  PROVE  /\ {p[1], p[2]} \in friends <=> BothAccepted(p[1], p[2])
         /\ p \in blocks =>
              /\ {p[1], p[2]} \notin friends
              /\ {<<p[1], p[2]>>, <<p[2], p[1]>>} \cap subscribed = {}
              /\ \A c \in Direct(p[1], p[2]) : Active(c) \cap {p[1], p[2]} = {}
<1> DEFINE u == p[1]
           v == p[2]
<1>1. u \in Users /\ v \in Users /\ u # v /\ {u, v} # {}
  BY DEF Pairs
<1> HIDE DEF u, v
<1>2. /\ AllStand(chats, friends, 0) /\ FriendsHaveChats(chats, friends, {})
      /\ BlockedArePart(chats, friends, subscribed, blocks, {})
  BY RestingTables DEF Tuned, InTune
<1>3. Direct(u, v) = Between(chats, {u, v})
  BY DirectIs
<1>4. \A k \in Between(chats, {u, v}) : StandsFor(chats, friends, k, u, v)
  BY <1>1, <1>2, FoundStands
<1>5. ASSUME {u, v} \in friends PROVE BothAccepted(u, v)
  <2>1. PICK k : k \in Between(chats, {u, v})
    BY <1>1, <1>2, <1>5 DEF FriendsHaveChats
  <2>2. HasRows(chats[k], u, v, "accepted", "accepted")
    BY <1>4, <1>5, <2>1 DEF StandsFor
  <2> QED BY <1>3, <2>1, <2>2 DEF BothAccepted, HasRows, Status
<1>6. ASSUME BothAccepted(u, v) PROVE {u, v} \in friends
  <2>1. PICK k \in Between(chats, {u, v}) : chats[k].member[u] = "accepted" /\ chats[k].member[v] = "accepted"
    BY <1>3, <1>6 DEF BothAccepted, Status
  <2> QED BY <1>4, <2>1 DEF StandsFor, HasRows
<1>7. ASSUME p \in blocks
      PROVE  /\ {u, v} \notin friends /\ {<<u, v>>, <<v, u>>} \cap subscribed = {}
             /\ \A c \in Direct(u, v) : Active(c) \cap {u, v} = {}
  <2>1. Parted(chats, friends, subscribed, blocks, u, v)
    BY <1>1, <1>2, <1>7 DEF BlockedArePart, u, v
  <2>2. ASSUME NEW c \in Direct(u, v) PROVE Active(c) \cap {u, v} = {}
    <3>1. HasRows(chats[c], u, v, "unfriended", "unfriended")
      BY <1>3, <2>1, <2>2 DEF Parted
    <3> QED BY <3>1, ActiveIs DEF HasRows, ActiveIn
  <2> QED BY <2>1, <2>2 DEF Parted
<1> QED BY <1>5, <1>6, <1>7 DEF u, v

LEMMA ChatsAgree ==
  ASSUME ChatsIInv, calm
  PROVE  FriendsMatchChats /\ OneDirectChat /\ BlockSevers
<1>1. ASSUME ChatsQuiet PROVE AllRest
  BY <1>1, NobodyHandles DEF ChatsQuiet
<1>2. ChatsTypeOK /\ OneDirectChat
  BY ChatsAreTyped, NeverTwice
<1>3. FriendsMatchChats
  BY <1>1, <1>2, TablesAgree DEF FriendsMatchChats
<1>4. ASSUME ChatsQuiet, NEW p \in blocks
      PROVE  /\ {p[1], p[2]} \notin friends
             /\ {<<p[1], p[2]>>, <<p[2], p[1]>>} \cap subscribed = {}
             /\ \A c \in Direct(p[1], p[2]) : Active(c) \cap {p[1], p[2]} = {}
  <2>1. AllRest /\ p \in Pairs
    BY <1>1, <1>4, RestingTables DEF AllRest, TablesTyped
  <2> QED BY <1>4, <2>1, TablesAgree
<1>5. BlockSevers
  BY <1>4 DEF BlockSevers
<1> QED BY <1>2, <1>3, <1>5

(* In a calm behaviour, whatever is asked for, in whatever order: once no   *)
(* handler is at work two users are friends exactly when both have accepted *)
(* their chat, of which they never have two, and a block has left the two   *)
(* neither friendship nor subscription nor open request (chats.go           *)
(* setFriends, handlers.go handleCreateDirect, blocks.go blockUser).        *)
THEOREM ChatsTablesAgree == MCSpec => []CalmTablesAgree
<1>1. MCInit => ChatsIInv
  BY ChatsInitially, ChatsAssumption DEF MCInit
<1>2. ChatsIInv /\ [MCNext]_<<first, second, service, calm>> => ChatsIInv'
  BY ChatsAmongOthers, ChatsAssumption
<1>3. ChatsIInv => CalmTablesAgree
  BY ChatsAgree DEF CalmTablesAgree
<1> QED BY <1>1, <1>2, <1>3, PTL DEF MCSpec

(* In a calm behaviour a reconciliation ends with exactly its plan's        *)
(* connections and forwards, and a chat goes for the reasons it may         *)
(* (planner.go Reconcile, handlers.go deleteIfAbandoned, handleDeleteChat). *)
THEOREM CalmExchangesAchieve == MCSpec => CalmAchieves
<1>1. MCInit => NodeIInv /\ ChatsIInv
  BY NodeInit, ChatsInitially, ChatsAssumption DEF MCInit
<1>2. NodeIInv /\ [MCNext]_<<first, second, service, calm>> => NodeIInv'
  BY NodeAmongOthers, NodeNextKeeps
<1>3. ChatsIInv /\ [MCNext]_<<first, second, service, calm>> => ChatsIInv'
  BY ChatsAmongOthers, ChatsAssumption
<1>4. NodeIInv /\ NodeIInv' /\ ChatsIInv /\ [MCNext]_<<first, second, service, calm>> =>
        [calm => AchievesPlan /\ GoesAbandoned]_<<nodeVars, chatsVars, calm>>
  BY NodeAmongOthers, NodeAchieves, ChatsAmongOthers, ChatsAssumption
<1> QED BY <1>1, <1>2, <1>3, <1>4, PTL DEF MCSpec, CalmAchieves
=============================================================================
