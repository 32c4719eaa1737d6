------------------------------- MODULE Rendezvous -------------------------------
(***************************************************************************)
(* The server by which phones find each other (modules/p2prendezvous):     *)
(* tokens, heartbeats by UDP, who is online and where, and the invitation  *)
(* to a call, which rings every member of a chat.  What becomes of a       *)
(* signal once it is queued is SignalStream's subject.                     *)
(*                                                                         *)
(* The phones are not in this repository: they may send a heartbeat with   *)
(* any token they were given, from any address.  A datagram may be lost,   *)
(* and may arrive late and more than once.                                 *)
(***************************************************************************)
EXTENDS Naturals, FiniteSets

CONSTANTS
  Phones, Addresses,
  TokenTTL, OnlineWindow,
  LastTick,    \* bound: the last time
  MaxSent,     \* bound: datagrams ever sent
  MaxTokens    \* bound: tokens a phone is ever given

Never == 0
StartTime == 1 + TokenTTL + OnlineWindow
Times == StartTime..LastTick
Nowhere == [addr |-> "none", seen |-> Never]
NoCall == [by |-> "none", at |-> "idle", to |-> {}]

ASSUME RendezvousAssumption == TokenTTL \in Nat /\ OnlineWindow \in Nat /\ LastTick \in Nat

VARIABLES
  time,
  tokens,     \* [user, expires]
  wallets,    \* the tokens each phone was given
  net,        \* datagrams sent: [token, addr]
  presence,   \* user -> [addr, seen]
  beat,       \* history: <<user, address>> -> when a heartbeat was last sent from there
  status,     \* user -> "none", "pending" or "accepted" in the chat
  call,       \* the invitation under way: [by, at, to]
  rang,       \* whose queues the last invitation has been put in
  been, stayed \* history: who was a member during it at some time, and all the time

rendezvousVars ==
  <<time, tokens, wallets, net, presence, beat, status, call, rang, been, stayed>>
registry == <<time, tokens, wallets, net, presence, beat>>
calls == <<status, call, rang, been, stayed>>

Accepted == {p \in Phones : status[p] = "accepted"}

RendezvousInit ==
  /\ time = StartTime
  /\ tokens = {} /\ wallets = [p \in Phones |-> {}] /\ net = {}
  /\ presence = [p \in Phones |-> Nowhere]
  /\ beat = [l \in Phones \X Addresses |-> Never]
  /\ status = [p \in Phones |-> "accepted"]
  /\ call = NoCall /\ rang = {} /\ been = {} /\ stayed = {}

-----------------------------------------------------------------------------
(* handleToken, mintToken: a second token does not end the first.           *)
Mint(p) ==
  LET token == [user |-> p, expires |-> time + TokenTTL] IN
  /\ Cardinality(wallets[p]) < MaxTokens
  /\ tokens' = tokens \cup {token}
  /\ wallets' = [wallets EXCEPT ![p] = @ \cup {token}]
  /\ UNCHANGED <<time, net, presence, beat, calls>>

Send(p, addr, token) ==
  /\ token \in wallets[p] /\ Cardinality(net) < MaxSent
  /\ net' = net \cup {[token |-> token, addr |-> addr]}
  /\ beat' = [beat EXCEPT ![<<p, addr>>] = time]
  /\ UNCHANGED <<time, tokens, wallets, presence, calls>>

(* verifyToken sweeps what has expired.  Mutant: nothing is swept before    *)
(* the token is looked for.                                                 *)
NotSwept == tokens
Swept == {t \in tokens : time <= t.expires}

(* startUDPListener, setAddr.                                               *)
Hear(datagram) ==
  /\ datagram \in net
  /\ tokens' = Swept
  /\ IF datagram.token \in Swept
     THEN presence' = [presence EXCEPT ![datagram.token.user] = [addr |-> datagram.addr, seen |-> time]]
     ELSE UNCHANGED presence
  /\ UNCHANGED <<time, wallets, net, beat, calls>>

(* lookup.                                                                  *)
Online(p) == presence[p] # Nowhere /\ time - presence[p].seen <= OnlineWindow

PassTime ==
  /\ time < LastTick /\ time' = time + 1
  /\ UNCHANGED <<tokens, wallets, net, presence, beat, calls>>

RestartFinder ==
  /\ tokens' = {} /\ presence' = [p \in Phones |-> Nowhere] 
  /\ call' = NoCall /\ rang' = {} /\ been' = {} /\ stayed' = {}
  /\ UNCHANGED <<time, wallets, net, beat, status>>

-----------------------------------------------------------------------------
(* Members come and go (chats).                                             *)
Enter(p) ==
  /\ status' = [status EXCEPT ![p] = CASE @ = "none" -> "pending" [] @ = "pending" -> "accepted" [] OTHER -> @]
  /\ status' # status
  /\ been' = been \cup {q \in Phones : status'[q] = "accepted"}
  /\ UNCHANGED <<registry, call, rang, stayed>>

Leave(p) ==
  /\ status[p] # "none" /\ status' = [status EXCEPT ![p] = "none"]
  /\ stayed' = stayed \ {p}
  /\ UNCHANGED <<registry, call, rang, been>>

(* handleCallInvite: two queries, then a queue at a time.                   *)
Invite(p) ==
  /\ call.at \in {"idle", "rung"} /\ p \in Accepted
  /\ call' = [by |-> p, at |-> "checked", to |-> {}]
  /\ rang' = {} /\ been' = Accepted /\ stayed' = Accepted
  /\ UNCHANGED <<registry, status>>

(* Mutant: whoever has been asked into the chat is rung as well.            *)
EveryoneAsked == {p \in Phones : status[p] # "none"}
Members == Accepted

ListMembers ==
  /\ call.at = "checked"
  /\ call' = [call EXCEPT !.at = "ringing", !.to = Members \ {call.by}]
  /\ UNCHANGED <<registry, status, rang, been, stayed>>

Ring(p) ==
  /\ call.at = "ringing" /\ p \in call.to
  /\ call' = [call EXCEPT !.to = @ \ {p}]
  /\ rang' = rang \cup {p}
  /\ UNCHANGED <<registry, status, been, stayed>>

Rung ==
  /\ call.at = "ringing" /\ call.to = {}
  /\ call' = [call EXCEPT !.at = "rung"]
  /\ UNCHANGED <<registry, status, rang, been, stayed>>

-----------------------------------------------------------------------------
Finding ==
  \/ \E p \in Phones : Mint(p) \/ \E addr \in Addresses, t \in wallets[p] : Send(p, addr, t)
  \/ \E d \in net : Hear(d)
  \/ PassTime
Calling ==
  \/ \E p \in Phones : Enter(p) \/ Leave(p) \/ Invite(p) \/ Ring(p)
  \/ ListMembers \/ Rung

RendezvousNext == Finding \/ Calling \/ RestartFinder

RendezvousSpec == RendezvousInit /\ [][RendezvousNext]_rendezvousVars

-----------------------------------------------------------------------------
(* Properties.                                                             *)

(* Whoever is shown as online was at the address that is handed out no      *)
(* longer ago than a token and a heartbeat last, however datagrams were      *)
(* held up or doubled and whenever the server was restarted (tokens.go,      *)
(* presence.go): a token is "kept short ... on purpose".                     *)
OnlineWasHere ==
  \A p \in Phones : Online(p) =>
    time <= beat[<<p, presence[p].addr>>] + TokenTTL + OnlineWindow

(* An invitation rings every member who stays, once, and nobody who was not *)
(* a member at any time of it (handleCallInvite).                           *)
RingsMembers ==
  /\ rang \subseteq been
  /\ call.at = "rung" => stayed \ {call.by} \subseteq rang
==================================================================================
