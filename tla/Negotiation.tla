---------------------------- MODULE Negotiation ----------------------------
(***************************************************************************)
(* Offers and answers of one connection between the relay node (relaynode/ *)
(* relaynode.go, always the impolite end) and a human, whose end is mesh.ts *)
(* (the clients of calls are ports of it).  Both offer when they connect   *)
(* and whenever they have tracks the other has not agreed to.              *)
(*                                                                         *)
(* The node's steps are those between which another goroutine may run: a   *)
(* lock that is let go, a call into the library, a queued message.  What   *)
(* the human's browser does for one event is one step, its operations are  *)
(* chained.  An offer is a number, and a candidate bears the number of the *)
(* offer it came with.  ignoreOffer is left out: it only decides whether a *)
(* candidate the library refuses is answered with an error.                *)
(***************************************************************************)
EXTENDS Naturals, Sequences, FiniteSets, SequencesExt

CONSTANTS
  Offerers, Receivers,  \* goroutines of negotiate and of HandleSignal
  MaxOffers,            \* bound: offers ever made
  MaxTracks             \* bound: tracks of either end

ASSUME NegotiationAssumption ==
  /\ IsFiniteSet(Offerers) /\ IsFiniteSet(Receivers)
  /\ MaxOffers \in Nat /\ MaxTracks \in Nat

VARIABLES
  node,      \* the node's end: the library's state and peerCtx
  calls,     \* goroutines of negotiate that have not begun
  offerer,   \* where each one that has is
  receiver,  \* where each HandleSignal is
  human,     \* the human's end
  offers,    \* the tracks each offer made so far covers
  toNode,    \* messages posted to the node, each in a request of its own
  toHuman    \* messages queued for the human

negotiationVars == <<node, calls, offerer, receiver, human, offers, toNode, toHuman>>

Resting == [at |-> "idle"]
Msg(kind, id) == [kind |-> kind, id |-> id]
Fresh == Len(offers) + 1

NegotiationInit ==
  /\ node = [state |-> "stable", making |-> FALSE, described |-> FALSE, offer |-> 0, agreed |-> 0,
             tracks |-> 0, settled |-> 0, asked |-> FALSE, pending |-> {}, added |-> {}]
  /\ calls = 1
  /\ offerer = [x \in Offerers |-> Resting] /\ receiver = [x \in Receivers |-> Resting]
  /\ human = [here |-> FALSE, state |-> "stable", offer |-> 0, agreed |-> 0,
              tracks |-> 0, settled |-> 0, restart |-> FALSE]
  /\ offers = <<>> /\ toNode = <<>> /\ toHuman = <<>>

-----------------------------------------------------------------------------
(* The library asks for a negotiation once, until the connection is stable  *)
(* again.                                                                   *)
AsksFor(n) == n.tracks > n.settled /\ n.state = "stable" /\ ~n.asked

(* The node's end becomes n: NegotiationNeeded may fire.                    *)
NodeBecomes(n) ==
  LET s == IF n.state = "stable" /\ node.state # "stable" THEN [n EXCEPT !.asked = FALSE] ELSE n
  IN  /\ node' = IF AsksFor(s) THEN [s EXCEPT !.asked = TRUE] ELSE s
      /\ calls' = IF AsksFor(s) THEN calls + 1 ELSE calls

AddTrack ==
  /\ node.tracks < MaxTracks
  /\ NodeBecomes([node EXCEPT !.tracks = @ + 1])
  /\ UNCHANGED <<offerer, receiver, human, offers, toNode, toHuman>>

(* negotiate, up to the lock let go.                                        *)
MayOffer == ~node.making /\ node.state = "stable"
Negotiate(x) ==
  /\ offerer[x] = Resting /\ calls > 0 /\ calls' = calls - 1
  /\ IF MayOffer
     THEN /\ node' = [node EXCEPT !.making = TRUE]
          /\ offerer' = [offerer EXCEPT ![x] = [at |-> "create"]]
     ELSE UNCHANGED <<node, offerer>>
  /\ UNCHANGED <<receiver, human, offers, toNode, toHuman>>

(* CreateOffer and SetLocalDescription, refused unless stable.              *)
SetLocalOffer(x) ==
  /\ offerer[x].at = "create"
  /\ IF node.state = "stable"
     THEN /\ Len(offers) < MaxOffers
          /\ offers' = Append(offers, node.tracks)
          /\ node' = [node EXCEPT !.state = "local", !.offer = Fresh]
          /\ offerer' = [offerer EXCEPT ![x] = [at |-> "queue", id |-> Fresh]]
     ELSE /\ offerer' = [offerer EXCEPT ![x] = [at |-> "end"]]
          /\ UNCHANGED <<offers, node>>
  /\ UNCHANGED <<calls, receiver, human, toNode, toHuman>>

QueueOffer(x) ==
  /\ offerer[x].at = "queue"
  /\ toHuman' = Append(toHuman, Msg("offer", offerer[x].id))
  /\ offerer' = [offerer EXCEPT ![x] = [at |-> "end"]]
  /\ UNCHANGED <<node, calls, receiver, human, offers, toNode>>

EndOffer(x) ==
  /\ offerer[x].at = "end"
  /\ node' = [node EXCEPT !.making = FALSE]
  /\ offerer' = [offerer EXCEPT ![x] = Resting]
  /\ UNCHANGED <<calls, receiver, human, offers, toNode, toHuman>>

-----------------------------------------------------------------------------
(* HandleSignal takes a posted message, in whatever order requests come.    *)
Stays(x, r) == receiver' = [receiver EXCEPT ![x] = r]

(* handleCandidate: under the lock it is kept or let through.               *)
TakeCandidate(x, i) ==
  /\ receiver[x] = Resting /\ toNode[i].kind = "candidate"
  /\ toNode' = RemoveAt(toNode, i)
  /\ IF node.described
     THEN Stays(x, [at |-> "add", id |-> toNode[i].id]) /\ UNCHANGED node
     ELSE node' = [node EXCEPT !.pending = @ \cup {toNode[i].id}] /\ UNCHANGED receiver
  /\ UNCHANGED <<calls, offerer, human, offers, toHuman>>

AddCandidate(x) ==
  /\ receiver[x].at = "add"
  /\ node' = [node EXCEPT !.added = @ \cup {receiver[x].id}]
  /\ Stays(x, Resting)
  /\ UNCHANGED <<calls, offerer, human, offers, toNode, toHuman>>

(* handleDescription, up to the lock let go: a colliding offer is ignored.  *)
Collides(msg) == msg.kind = "offer" /\ (node.making \/ node.state # "stable")
TakeDescription(x, i) ==
  /\ receiver[x] = Resting /\ toNode[i].kind \in {"offer", "answer"}
  /\ toNode' = RemoveAt(toNode, i)
  /\ IF Collides(toNode[i]) THEN UNCHANGED receiver ELSE Stays(x, [at |-> "set", msg |-> toNode[i]])
  /\ UNCHANGED <<node, calls, offerer, human, offers, toHuman>>

(* SetRemoteDescription: an offer is taken when stable, an answer to an     *)
(* offer that is out.                                                       *)
(* Mutant: whoever sets a description does not look at what was kept.       *)
LeavesPending(x) == Stays(x, [receiver[x] EXCEPT !.at = "answer"])
ThenDrains(x) == Stays(x, [receiver[x] EXCEPT !.at = "drain"])
SetRemote(x) ==
  LET msg == receiver[x].msg
      fits == node.state = (IF msg.kind = "offer" THEN "stable" ELSE "local")
  IN  /\ receiver[x].at = "set"
      /\ IF fits
         THEN /\ NodeBecomes(IF msg.kind = "offer"
                   THEN [node EXCEPT !.state = "remote", !.offer = msg.id, !.described = TRUE]
                   ELSE [node EXCEPT !.state = "stable", !.agreed = msg.id, !.described = TRUE,
                                     !.settled = offers[node.offer]])
              /\ ThenDrains(x)
         ELSE Stays(x, Resting) /\ UNCHANGED <<node, calls>>
      /\ UNCHANGED <<offerer, human, offers, toNode, toHuman>>

DrainPending(x) ==
  /\ receiver[x].at = "drain"
  /\ node' = [node EXCEPT !.pending = {}, !.added = @ \cup node.pending]
  /\ Stays(x, [receiver[x] EXCEPT !.at = "answer"])
  /\ UNCHANGED <<calls, offerer, human, offers, toNode, toHuman>>

(* CreateAnswer and SetLocalDescription, unless an answer was taken.        *)
SetLocalAnswer(x) ==
  /\ receiver[x].at = "answer"
  /\ IF receiver[x].msg.kind = "offer" /\ node.state = "remote"
     THEN /\ NodeBecomes([node EXCEPT !.state = "stable", !.agreed = node.offer])
          /\ Stays(x, [receiver[x] EXCEPT !.at = "reply"])
     ELSE Stays(x, Resting) /\ UNCHANGED <<node, calls>>
  /\ UNCHANGED <<offerer, human, offers, toNode, toHuman>>

QueueAnswer(x) ==
  /\ receiver[x].at = "reply"
  /\ toHuman' = Append(toHuman, Msg("answer", receiver[x].msg.id))
  /\ Stays(x, Resting)
  /\ UNCHANGED <<node, calls, offerer, human, offers, toNode>>

-----------------------------------------------------------------------------
(* The human's end.  connect negotiates whatever there is; later the        *)
(* browser asks for it.                                                     *)
HumanAsks == human.here /\ (human.tracks > human.settled \/ human.restart)
HumanOffers ==
  /\ human.state = "stable" /\ (~human.here \/ HumanAsks)
  /\ Len(offers) < MaxOffers
  /\ offers' = Append(offers, human.tracks)
  /\ human' = [human EXCEPT !.here = TRUE, !.state = "local", !.offer = Fresh]
  /\ toNode' = toNode \o <<Msg("offer", Fresh), Msg("candidate", Fresh)>>
  /\ UNCHANGED <<node, calls, offerer, receiver, toHuman>>

HumanAddsTrack ==
  /\ human.here /\ human.tracks < MaxTracks
  /\ human' = [human EXCEPT !.tracks = @ + 1]
  /\ UNCHANGED <<node, calls, offerer, receiver, offers, toNode, toHuman>>

(* handleSignal: an offer is answered, one of his own that is out is rolled *)
(* back; an answer that finds no offer out restarts the negotiation.        *)
(* Mutant: he is not polite either.                                         *)
NeverYields == human.state = "stable"
TakesOffer == TRUE
HumanReceives ==
  LET msg == Head(toHuman)
  IN  /\ toHuman # <<>> /\ human.here
      /\ toHuman' = Tail(toHuman)
      /\ CASE msg.kind = "offer" /\ TakesOffer ->
                /\ human' = [human EXCEPT !.state = "stable", !.agreed = msg.id]
                /\ toNode' = toNode \o <<Msg("answer", msg.id), Msg("candidate", msg.id)>>
           [] msg.kind = "answer" /\ human.state = "local" ->
                /\ human' = [human EXCEPT !.state = "stable", !.agreed = msg.id, !.restart = FALSE,
                                          !.settled = offers[human.offer]]
                /\ UNCHANGED toNode
           [] msg.kind = "answer" /\ human.state = "stable" ->
                human' = [human EXCEPT !.restart = TRUE] /\ UNCHANGED toNode
           [] OTHER -> UNCHANGED <<human, toNode>>
      /\ UNCHANGED <<node, calls, offerer, receiver, offers>>

-----------------------------------------------------------------------------
Offering(x) == Negotiate(x) \/ SetLocalOffer(x) \/ QueueOffer(x) \/ EndOffer(x)
Receiving(x) ==
  \/ \E i \in DOMAIN toNode : TakeCandidate(x, i) \/ TakeDescription(x, i)
  \/ AddCandidate(x) \/ SetRemote(x) \/ DrainPending(x) \/ SetLocalAnswer(x) \/ QueueAnswer(x)
NegotiationNext ==
  \/ AddTrack \/ HumanOffers \/ HumanAddsTrack \/ HumanReceives
  \/ \E x \in Offerers : Offering(x)
  \/ \E x \in Receivers : Receiving(x)

Working ==
  Cardinality({x \in Offerers : offerer[x] # Resting})
  + Cardinality({x \in Receivers : receiver[x] # Resting})
AtRest ==
  /\ Working = 0 /\ calls = 0 /\ toNode = <<>> /\ toHuman = <<>>
  /\ human.here /\ (human.state = "stable" => ~HumanAsks)

(* A candidate that came before its description is not forgotten: once      *)
(* there is a description somebody is about to add what was kept.           *)
CandidatesReached ==
  node.described /\ node.pending # {} => \E x \in Receivers : receiver[x].at = "drain"

(* When nothing is left to do both ends have agreed on the same offer, and  *)
(* every track of either has been agreed to.                                *)
EndsAgree ==
  AtRest =>
    /\ node.state = "stable" /\ human.state = "stable"
    /\ node.agreed = human.agreed /\ node.agreed # 0
    /\ node.settled = node.tracks /\ human.settled = human.tracks
=============================================================================
