--------------------------- MODULE BackgroundProofs ---------------------------
(***************************************************************************)
(* What holds of the services beside the requests for every value of the   *)
(* constants: any number of phones, of requests, of rules and filters.     *)
(***************************************************************************)
EXTENDS MCBackground, FiniteSetTheorems, TLAPS

-----------------------------------------------------------------------------
(* The cap on relayed bytes.  That a month found over the cap stays so      *)
(* rests on what a check can still bring: one under way in such a month was *)
(* asked in it, and what it counts is not below the cap, since what is      *)
(* reported of a month only grows.                                          *)
CheckCounts ==
  foundOver = month =>
    /\ reported >= CapBytes
    /\ asking.at # "idle" => asking.month = month
    /\ asking.at = "counted" => asking.total >= CapBytes

UsageOK ==
  /\ month \in Nat /\ relayed \in Nat /\ reported \in 0..relayed
  /\ foundOver \in 0..month
  /\ asking \in [at : {"idle", "asked", "counted"}, month : 0..month, total : Nat]
  /\ asking.at = "idle" => asking = NoCheck
  /\ asking.at # "idle" => foundOver <= asking.month
  /\ asking.at = "counted" /\ asking.month = month /\ asking.total >= CapBytes => reported >= CapBytes

UsageInv == UsageOK /\ CheckCounts /\ SuspendedForTheMonth

LEMMA UsageStep == UsageInv /\ [UsageNext]_usageVars => UsageInv'
<1> SUFFICES ASSUME UsageInv, [UsageNext]_usageVars PROVE UsageInv'
  OBVIOUS
<1> USE UsageAssumption DEF UsageInv, UsageOK, CheckCounts, SuspendedForTheMonth, NoCheck
<1>1. CASE Relay
  BY <1>1 DEF Relay
<1>2. CASE CountUp
  BY <1>2 DEF CountUp
<1>3. CASE EndMonth
  BY <1>3 DEF EndMonth
<1>4. CASE ExpireCredentials \/ WantServers \/ FetchCredentials \/ UNCHANGED usageVars
  BY <1>4 DEF ExpireCredentials, WantServers, FetchCredentials, usageVars
<1>5. CASE AskUsage
  BY <1>5 DEF AskUsage
<1>6. ASSUME NEW was \in {0, CapBytes}, CountUsage(was)
      PROVE  UsageInv'
  <2> DEFINE total == IF asking.month = month THEN reported ELSE was
  <2>1. total \in Nat /\ (asking.month = month => total = reported)
    OBVIOUS
  <2>2. asking' = [asking EXCEPT !.at = "counted", !.total = total]
    BY <1>6 DEF CountUsage
  <2> HIDE DEF total
  <2>3. asking'.at = "counted" /\ asking'.month = asking.month /\ asking'.total = total
    BY <2>2
  <2>4. UNCHANGED <<month, relayed, reported, overCap, live, client, foundOver>>
    BY <1>6 DEF CountUsage
  <2>5. asking' \in [at : {"idle", "asked", "counted"}, month : 0..month, total : Nat]
    BY <2>1, <2>2
  <2>6. asking.at = "asked"
    BY <1>6 DEF CountUsage
  <2>7. QED
    BY <2>1, <2>3, <2>4, <2>5, <2>6
<1>7. CASE Checked
  <2>1. CASE asking.total >= CapBytes
    <3>1. overCap'
      BY <1>7, <2>1, Zenon DEF Checked
    <3>2. QED
      BY <1>7, <2>1, <3>1 DEF Checked
  <2>2. CASE ~(asking.total >= CapBytes)
    <3>1. ~overCap'
      BY <1>7, <2>2, Zenon DEF Checked
    <3>2. QED
      BY <1>7, <2>2, <3>1 DEF Checked
  <2>3. QED
    BY <2>1, <2>2
<1>8. CASE CheckFails
  BY <1>8 DEF CheckFails, KeepOver
<1>9. QED
  BY <1>1, <1>2, <1>3, <1>4, <1>5, <1>6, <1>7, <1>8 DEF UsageNext, Checking

(* Whatever the cap, and however long months and checks take: a month that  *)
(* was found over the cap stays suspended (CheckUsage).                     *)
THEOREM MonthStaysSuspended == UsageSpec => []SuspendedForTheMonth
<1>1. UsageInit => UsageInv
  <2> SUFFICES ASSUME UsageInit PROVE UsageInv
    OBVIOUS
  <2>1. asking \in [at : {"idle", "asked", "counted"}, month : 0..month, total : Nat]
    BY DEF UsageInit, NoCheck
  <2>2. asking.at = "idle" /\ foundOver # month
    BY DEF UsageInit, NoCheck
  <2>3. month \in Nat /\ relayed \in Nat /\ reported \in 0..relayed /\ foundOver \in 0..month
    BY DEF UsageInit
  <2>4. QED
    BY <2>1, <2>2, <2>3 DEF UsageInit, UsageInv, UsageOK, CheckCounts, SuspendedForTheMonth
<1>2. UsageInv => SuspendedForTheMonth
  BY DEF UsageInv
<1>3. QED
  BY <1>1, <1>2, UsageStep, PTL DEF UsageSpec

-----------------------------------------------------------------------------
(* Presence.  A token is good for TokenTTL after it was minted, so what was *)
(* sent with it is no older than that when it is heard; and once heard it   *)
(* is believed for OnlineWindow.                                            *)
Minted(p) == [user : {p}, expires : 0..time + TokenTTL]

PresenceOK ==
  /\ time \in Nat
  /\ wallets \in [Phones -> SUBSET [user : Phones, expires : Nat]]
  /\ \A p \in Phones : wallets[p] \subseteq Minted(p)
  /\ beat \in [Phones \X Addresses -> Nat]
  /\ \A l \in Phones \X Addresses : beat[l] <= time
  /\ net \subseteq [token : [user : Phones, expires : Nat], addr : Addresses]
  /\ \A d \in net : d.token.expires <= beat[<<d.token.user, d.addr>>] + TokenTTL
  /\ presence \in [Phones -> {Nowhere} \cup [addr : Addresses, seen : Nat]]
  /\ \A p \in Phones : presence[p] # Nowhere =>
       /\ presence[p].addr \in Addresses
       /\ presence[p].seen <= beat[<<p, presence[p].addr>>] + TokenTTL

LEMMA BelievedNoLonger == PresenceOK => OnlineWasHere
<1> SUFFICES ASSUME PresenceOK, NEW p \in Phones, Online(p)
             PROVE  time <= beat[<<p, presence[p].addr>>] + TokenTTL + OnlineWindow
  BY DEF OnlineWasHere
<1>1. presence[p] # Nowhere /\ time - presence[p].seen <= OnlineWindow
  BY DEF Online
<1>2. presence[p].addr \in Addresses /\ presence[p] \in [addr : Addresses, seen : Nat]
  BY <1>1 DEF PresenceOK
<1>3. <<p, presence[p].addr>> \in Phones \X Addresses
  BY <1>2
<1>4. beat[<<p, presence[p].addr>>] \in Nat /\ presence[p].seen \in Nat /\ time \in Nat
  BY <1>2, <1>3 DEF PresenceOK
<1>5. presence[p].seen <= beat[<<p, presence[p].addr>>] + TokenTTL
  BY <1>1 DEF PresenceOK
<1>6. QED
  BY <1>1, <1>4, <1>5, RendezvousAssumption

(* The steps that write any of it.                                          *)
LEMMA MintKeeps == ASSUME PresenceOK, NEW p \in Phones, Mint(p) PROVE PresenceOK'
<1> DEFINE token == [user |-> p, expires |-> time + TokenTTL]
<1>1. token \in Minted(p) /\ token \in [user : Phones, expires : Nat]
  BY RendezvousAssumption DEF PresenceOK, Minted
<1>2. wallets' = [wallets EXCEPT ![p] = @ \cup {token}] /\ UNCHANGED <<time, net, presence, beat>>
  BY DEF Mint
<1> HIDE DEF token
<1>3. wallets' \in [Phones -> SUBSET [user : Phones, expires : Nat]]
  BY <1>1, <1>2 DEF PresenceOK
<1>4. ASSUME NEW q \in Phones PROVE wallets'[q] \subseteq Minted(q)'
  BY <1>1, <1>2 DEF PresenceOK, Minted
<1>5. QED
  BY <1>2, <1>3, <1>4 DEF PresenceOK

LEMMA SendKeeps ==
  ASSUME PresenceOK, NEW p \in Phones, NEW addr \in Addresses, NEW token \in wallets[p],
         Send(p, addr, token)
  PROVE  PresenceOK'
<1> DEFINE here == <<p, addr>>
           datagram == [token |-> token, addr |-> addr]
<1>1. /\ net' = net \cup {datagram} /\ beat' = [beat EXCEPT ![here] = time]
      /\ UNCHANGED <<time, wallets, presence>>
  BY DEF Send
<1>2. /\ token \in [user : Phones, expires : Nat] /\ token.user = p
      /\ token.expires <= time + TokenTTL
  <2>1. token \in Minted(p) /\ token \in [user : Phones, expires : Nat]
    BY DEF PresenceOK
  <2>2. QED
    BY <2>1 DEF Minted
<1>3. datagram \in [token : [user : Phones, expires : Nat], addr : Addresses]
  BY <1>2
<1>4. datagram.token = token /\ datagram.addr = addr /\ here \in Phones \X Addresses
  OBVIOUS
<1> HIDE DEF here, datagram
<1>5. beat' \in [Phones \X Addresses -> Nat] /\ time \in Nat
  BY <1>1, <1>4 DEF PresenceOK
<1>6. \A l \in Phones \X Addresses : beat[l] <= beat'[l] /\ beat'[l] <= time /\ beat[l] \in Nat
  BY <1>1 DEF PresenceOK
<1>7. beat'[here] = time
  BY <1>1, <1>4 DEF PresenceOK
<1>8. ASSUME NEW d \in net' PROVE d.token.expires <= beat'[<<d.token.user, d.addr>>] + TokenTTL
  <2>1. CASE d = datagram
    BY <2>1, <1>2, <1>4, <1>7 DEF here
  <2>2. CASE d \in net
    <3>1. d \in [token : [user : Phones, expires : Nat], addr : Addresses]
      BY <2>2 DEF PresenceOK
    <3>2. <<d.token.user, d.addr>> \in Phones \X Addresses /\ d.token.expires \in Nat
      BY <3>1
    <3>3. d.token.expires <= beat[<<d.token.user, d.addr>>] + TokenTTL
      BY <2>2 DEF PresenceOK
    <3> DEFINE l == <<d.token.user, d.addr>>
    <3>4. beat[l] <= beat'[l] /\ beat[l] \in Nat /\ beat'[l] \in Nat
      BY <3>2, <1>5, <1>6
    <3>5. QED
      BY <3>2, <3>3, <3>4, RendezvousAssumption
  <2>3. QED
    BY <2>1, <2>2, <1>1
<1>9. ASSUME NEW q \in Phones, presence'[q] # Nowhere
      PROVE  /\ presence'[q].addr \in Addresses
             /\ presence'[q].seen <= beat'[<<q, presence'[q].addr>>] + TokenTTL
  <2> DEFINE l == <<q, presence[q].addr>>
  <2>1. presence[q].addr \in Addresses /\ presence[q].seen <= beat[l] + TokenTTL
    BY <1>1, <1>9 DEF PresenceOK
  <2>2. presence[q] \in [addr : Addresses, seen : Nat]
    BY <1>1, <1>9 DEF PresenceOK
  <2>3. beat[l] <= beat'[l] /\ beat[l] \in Nat /\ beat'[l] \in Nat
    BY <2>1, <1>5, <1>6
  <2>4. QED
    BY <1>1, <2>1, <2>2, <2>3, RendezvousAssumption
<1>10. net' \subseteq [token : [user : Phones, expires : Nat], addr : Addresses]
  BY <1>1, <1>3 DEF PresenceOK
<1>11. \A q \in Phones : wallets'[q] \subseteq Minted(q)'
  BY <1>1 DEF PresenceOK, Minted
<1>12. QED
  BY <1>1, <1>5, <1>6, <1>8, <1>9, <1>10, <1>11 DEF PresenceOK

LEMMA HearKeeps == ASSUME PresenceOK, NEW d \in net, Hear(d) PROVE PresenceOK'
<1> DEFINE now == [addr |-> d.addr, seen |-> time]
           p == d.token.user
<1>1. UNCHANGED <<time, wallets, net, beat>>
  BY DEF Hear
<1>2. d \in [token : [user : Phones, expires : Nat], addr : Addresses] /\ time \in Nat
  BY DEF PresenceOK
<1>3. now \in [addr : Addresses, seen : Nat] /\ p \in Phones /\ now.addr = d.addr /\ now.seen = time
  BY <1>2
<1>4. \A q \in Phones : wallets'[q] \subseteq Minted(q)'
  BY <1>1 DEF PresenceOK, Minted
<1>5. CASE UNCHANGED presence
  BY <1>1, <1>4, <1>5 DEF PresenceOK
<1>6. CASE d.token \in Swept /\ presence' = [presence EXCEPT ![p] = now]
  <2>1. time <= d.token.expires
    BY <1>6 DEF Swept
  <2>2. d.token.expires <= beat[<<p, d.addr>>] + TokenTTL
    BY DEF PresenceOK
  <2>3. <<p, d.addr>> \in Phones \X Addresses /\ d.token.expires \in Nat
    BY <1>2
  <2>4. beat[<<p, d.addr>>] \in Nat
    BY <2>3 DEF PresenceOK
  <2>5. now.seen <= beat[<<p, now.addr>>] + TokenTTL
    BY <1>2, <1>3, <2>1, <2>2, <2>3, <2>4, RendezvousAssumption
  <2> HIDE DEF now, p
  <2>6. presence' \in [Phones -> {Nowhere} \cup [addr : Addresses, seen : Nat]]
    BY <1>3, <1>6 DEF PresenceOK
  <2>7. ASSUME NEW q \in Phones, presence'[q] # Nowhere
        PROVE  /\ presence'[q].addr \in Addresses
               /\ presence'[q].seen <= beat'[<<q, presence'[q].addr>>] + TokenTTL
    <3>1. CASE q = p
      <4>1. presence'[q] = now
        BY <3>1, <1>6 DEF PresenceOK
      <4>2. QED
        BY <4>1, <3>1, <2>5, <1>1, <1>2, <1>3
    <3>2. CASE q # p
      <4>1. presence'[q] = presence[q]
        BY <3>2, <1>6 DEF PresenceOK
      <4>2. QED
        BY <4>1, <2>7, <1>1 DEF PresenceOK
    <3>3. QED
      BY <3>1, <3>2
  <2>8. QED
    BY <1>1, <1>4, <2>6, <2>7 DEF PresenceOK
<1>7. QED
  BY <1>5, <1>6 DEF Hear

LEMMA TimeKeeps == ASSUME PresenceOK, PassTime PROVE PresenceOK'
<1>1. time' = time + 1 /\ UNCHANGED <<wallets, net, presence, beat>> /\ time \in Nat
  BY DEF PassTime, PresenceOK
<1>2. \A l \in Phones \X Addresses : beat[l] \in Nat /\ beat[l] <= time'
  BY <1>1 DEF PresenceOK
<1>3. ASSUME NEW p \in Phones PROVE wallets'[p] \subseteq Minted(p)'
  BY <1>1, RendezvousAssumption DEF PresenceOK, Minted
<1>4. QED
  BY <1>1, <1>2, <1>3 DEF PresenceOK

LEMMA RestartKeeps == ASSUME PresenceOK, RestartFinder PROVE PresenceOK'
<1>1. presence' = [p \in Phones |-> Nowhere] /\ UNCHANGED <<time, wallets, net, beat>>
  BY DEF RestartFinder
<1>2. \A p \in Phones : wallets'[p] \subseteq Minted(p)' /\ presence'[p] = Nowhere
  BY <1>1 DEF PresenceOK, Minted
<1>3. QED
  BY <1>1, <1>2 DEF PresenceOK

(* Who is shown online sent a heartbeat from there no longer ago than a     *)
(* token and a heartbeat last, for any clock, numbers and delays.           *)
LEMMA PresenceStep == PresenceOK /\ [RendezvousNext]_rendezvousVars => PresenceOK'
<1> SUFFICES ASSUME PresenceOK, [RendezvousNext]_rendezvousVars PROVE PresenceOK'
  OBVIOUS
<1>1. ASSUME UNCHANGED <<time, wallets, net, presence, beat>> PROVE PresenceOK'
  <2>1. \A p \in Phones : wallets'[p] \subseteq Minted(p)'
    BY <1>1 DEF PresenceOK, Minted
  <2>2. QED
    BY <1>1, <2>1 DEF PresenceOK
<1>2. CASE Calling \/ UNCHANGED rendezvousVars
  BY <1>1, <1>2 DEF Calling, Enter, Leave, Invite, Ring, ListMembers, Rung, rendezvousVars, registry
<1>3. CASE Finding
  BY <1>3, MintKeeps, SendKeeps, HearKeeps, TimeKeeps DEF Finding
<1>4. CASE RestartFinder
  BY <1>4, RestartKeeps
<1>5. QED
  BY <1>2, <1>3, <1>4 DEF RendezvousNext

-----------------------------------------------------------------------------
(* Invitations.  Members of the moment are among those who have been, and   *)
(* those who stayed among the members; whom the list named and who has not  *)
(* been rung yet is still to be.                                            *)
CallOK ==
  /\ call.at \in {"idle", "checked", "ringing", "rung"}
  /\ call.at # "idle" => Accepted \subseteq been
  /\ stayed \subseteq Accepted
  /\ rang \subseteq been /\ call.to \subseteq been
  /\ status \in [Phones -> {"none", "pending", "accepted"}]
  /\ call.at = "ringing" => stayed \ {call.by} \subseteq rang \cup call.to
  /\ call.at = "rung" => stayed \ {call.by} \subseteq rang

LEMMA CallStep == CallOK /\ [RendezvousNext]_rendezvousVars => CallOK'
<1> SUFFICES ASSUME CallOK, [RendezvousNext]_rendezvousVars PROVE CallOK'
  OBVIOUS
<1>1. CASE UNCHANGED calls
  BY <1>1 DEF calls, CallOK, Accepted
<1>2. ASSUME NEW p \in Phones, Enter(p) PROVE CallOK'
  <2> DEFINE next == CASE status[p] = "none" -> "pending"
                       [] status[p] = "pending" -> "accepted"
                       [] OTHER -> status[p]
  <2>1. /\ status' = [status EXCEPT ![p] = next] /\ been' = been \cup Accepted'
        /\ UNCHANGED <<call, rang, stayed>>
    BY <1>2 DEF Enter, Accepted
  <2>2. /\ next \in {"none", "pending", "accepted"}
        /\ status[p] = "accepted" => next = "accepted"
    BY DEF CallOK
  <2> HIDE DEF next
  <2>3. status' \in [Phones -> {"none", "pending", "accepted"}]
    BY <2>1, <2>2 DEF CallOK
  <2>4. Accepted \subseteq Accepted'
    BY <2>1, <2>2 DEF CallOK, Accepted
  <2>5. QED
    BY <2>1, <2>3, <2>4 DEF CallOK
<1>3. ASSUME NEW p \in Phones, Leave(p) PROVE CallOK'
  BY <1>3 DEF Leave, CallOK, Accepted
<1>4. ASSUME NEW p \in Phones, Invite(p) PROVE CallOK'
  BY <1>4 DEF Invite, CallOK, Accepted
<1>5. CASE ListMembers
  BY <1>5 DEF ListMembers, CallOK, Accepted, Members
<1>6. ASSUME NEW p \in Phones, Ring(p) PROVE CallOK'
  BY <1>6 DEF Ring, CallOK, Accepted
<1>7. CASE Rung
  BY <1>7 DEF Rung, CallOK, Accepted
<1>8. CASE RestartFinder
  BY <1>8 DEF RestartFinder, CallOK, Accepted, NoCall
<1>9. CASE Finding \/ UNCHANGED rendezvousVars
  BY <1>1, <1>9 DEF Finding, Mint, Send, Hear, PassTime, rendezvousVars, calls
<1>10. QED
  BY <1>2, <1>3, <1>4, <1>5, <1>6, <1>7, <1>8, <1>9 DEF RendezvousNext, Calling

(* For any phones, addresses, delays and repetitions of datagrams, and any  *)
(* coming and going of members: who is shown online was there lately, and   *)
(* an invitation rings the members who stay and nobody who never was one.   *)
THEOREM PhonesAreFound == RendezvousSpec => []FindingSound
<1>1. RendezvousInit => PresenceOK
  <2> SUFFICES ASSUME RendezvousInit PROVE PresenceOK
    OBVIOUS
  <2>1. time \in Nat /\ StartTime \in Nat
    BY RendezvousAssumption DEF RendezvousInit, StartTime
  <2>2. \A l \in Phones \X Addresses : beat[l] = 0
    BY DEF RendezvousInit, Never
  <2>3. \A p \in Phones : wallets[p] = {} /\ presence[p] = Nowhere
    BY DEF RendezvousInit
  <2>4. net = {} /\ beat \in [Phones \X Addresses -> Nat]
    BY DEF RendezvousInit, Never
  <2>5. /\ wallets \in [Phones -> SUBSET [user : Phones, expires : Nat]]
        /\ presence \in [Phones -> {Nowhere} \cup [addr : Addresses, seen : Nat]]
    BY DEF RendezvousInit
  <2>6. QED
    BY <2>1, <2>2, <2>3, <2>4, <2>5 DEF PresenceOK
<1>2. RendezvousInit => CallOK
  BY DEF RendezvousInit, CallOK, NoCall, Accepted
<1>3. PresenceOK /\ CallOK => FindingSound
  <2> SUFFICES ASSUME PresenceOK, CallOK PROVE RingsMembers
    BY BelievedNoLonger DEF FindingSound
  <2>1. QED
    BY DEF CallOK, RingsMembers
<1>4. QED
  BY <1>1, <1>2, <1>3, PresenceStep, CallStep, PTL DEF RendezvousSpec
-----------------------------------------------------------------------------
(* Rules.  While nothing fails and rounds follow each other, a round under  *)
(* way is for the rules in memory, and what it has yet to do is the         *)
(* difference between them and what is denied.                              *)
RoundsOK ==
  /\ troubles \in Nat /\ OneRound
  /\ reconcile = [on |-> reconcile.on, deny |-> reconcile.deny, lift |-> reconcile.lift]
  /\ waiting \subseteq {rules}
  /\ ranges \ applied \subseteq {{ip} : ip \in uaBlocked}
  /\ Settled => applied = Want(rules)
  /\ ~reconcile.on => reconcile.deny = {} /\ reconcile.lift = {}
  /\ reconcile.on => /\ reconcile.deny = Want(rules) \ applied
                     /\ reconcile.lift = applied \ Want(rules)

RulesInv == AppliedIsDenied /\ (calm => RoundsOK)

(* One round step that is calm.                                             *)
LEMMA RoundKeeps == ASSUME RoundsOK, AccessNext, CalmRules PROVE RoundsOK'
<1> USE DEF CalmRules
<1>1. CASE \E ip \in IPs, agent \in Agents : Decide(ip, agent)
  BY <1>1 DEF Decide, RoundsOK, Settled, Want, counters
<1>2. ASSUME NEW l \in Loaders, Read(l) PROVE RoundsOK'
  BY <1>2 DEF Read, RoundsOK, Settled, Want, counters, wall
<1>3. ASSUME NEW l \in Loaders, Store(l) PROVE RoundsOK'
  <2>1. waiting' = {rules'} /\ UNCHANGED <<wall, counters>>
    BY <1>3 DEF Store, RoundsOK, OneRound, Settled
  <2>2. ~reconcile.on
    BY <1>3 DEF Store, RoundsOK, OneRound, Settled
  <2>3. QED
    BY <2>1, <2>2 DEF RoundsOK, Settled, wall, counters
<1>4. CASE (\E r \in Rules : Edit(r)) \/ ExpireRules \/ ReadFails
  BY <1>4 DEF Edit, ExpireRules, ReadFails, RoundsOK, Settled, Want, wall, counters
<1>5. CASE Lock
  <2>1. PICK w \in waiting :
          /\ reconcile' = [on |-> TRUE, deny |-> Want(w) \ applied, lift |-> applied \ Want(w)]
          /\ waiting' = waiting \ {w}
    BY <1>5 DEF Lock
  <2>2. w = rules /\ UNCHANGED <<rules, applied, uaBlocked, ranges, troubles>>
    BY <1>5, <2>1 DEF Lock, RoundsOK, counters
  <2>3. /\ reconcile'.on /\ reconcile'.deny = Want(rules) \ applied /\ reconcile'.lift = applied \ Want(rules)
        /\ reconcile' = [on |-> reconcile'.on, deny |-> reconcile'.deny, lift |-> reconcile'.lift]
    BY <2>1, <2>2
  <2>4. Want(rules)' = Want(rules)
    BY <2>2 DEF Want
  <2>5. waiting' = {}
    BY <2>1, <2>2 DEF RoundsOK
  <2>6. QED
    BY <2>2, <2>3, <2>4, <2>5 DEF RoundsOK, Settled, CalmRules
<1>6. ASSUME NEW c \in SUBSET IPs, NEW ok \in BOOLEAN, Deny(c, ok) PROVE RoundsOK'
  <2>1. ok
    BY <1>6 DEF Deny, Tried, RoundsOK
  <2>2. /\ c \in reconcile.deny /\ applied' = applied \cup {c} /\ ranges' = ranges \cup {c}
        /\ UNCHANGED <<rules, waiting, uaBlocked, troubles>>
    BY <1>6, <2>1 DEF Deny, CalmRules
  <2>3. reconcile' = [on |-> reconcile.on, deny |-> reconcile.deny \ {c}, lift |-> reconcile.lift]
    BY <1>6 DEF Deny, RoundsOK
  <2>4. reconcile'.on = reconcile.on /\ reconcile'.deny = reconcile.deny \ {c} /\ reconcile'.lift = reconcile.lift
    BY <2>3
  <2>5. Want(rules)' = Want(rules)
    BY <2>2 DEF Want
  <2>6. reconcile.on
    BY <1>6 DEF Deny, RoundsOK
  <2>7. QED
    BY <2>2, <2>3, <2>4, <2>5, <2>6 DEF RoundsOK, Settled, OneRound
<1>7. ASSUME NEW c \in SUBSET IPs, NEW ok \in BOOLEAN, Lift(c, ok) PROVE RoundsOK'
  <2>1. ok
    BY <1>7 DEF Lift, Tried, RoundsOK
  <2>2. /\ c \in reconcile.lift /\ applied' = applied \ {c} /\ ranges' = ranges \ {c}
        /\ UNCHANGED <<rules, waiting, uaBlocked, troubles>>
    BY <1>7, <2>1 DEF Lift, Lifted, CalmRules
  <2>3. reconcile' = [on |-> reconcile.on, deny |-> reconcile.deny, lift |-> reconcile.lift \ {c}]
    BY <1>7 DEF Lift, RoundsOK
  <2>4. reconcile'.on = reconcile.on /\ reconcile'.deny = reconcile.deny /\ reconcile'.lift = reconcile.lift \ {c}
    BY <2>3
  <2>5. Want(rules)' = Want(rules)
    BY <2>2 DEF Want
  <2>6. reconcile.on
    BY <1>7 DEF Lift, RoundsOK
  <2>7. QED
    BY <2>2, <2>3, <2>4, <2>5, <2>6 DEF RoundsOK, Settled, OneRound
<1>8. CASE Unlock
  BY <1>8 DEF Unlock, RoundsOK, Settled, Want, counters, Resting, OneRound
<1>9. ASSUME NEW ip \in toBlock, NEW ok \in BOOLEAN, Block(ip, ok) PROVE RoundsOK'
  BY <1>9 DEF Block, RoundsOK, Settled, Want, counters
<1>10. ~RestartServer
  BY DEF RestartServer, RoundsOK
<1>11. QED
  BY <1>1, <1>2, <1>3, <1>4, <1>5, <1>6, <1>7, <1>8, <1>9, <1>10
     DEF AccessNext, Ruling, Walling, Troubling

LEMMA AppliedStep == AppliedIsDenied /\ [AccessNext]_accessVars => AppliedIsDenied'
<1> SUFFICES ASSUME AppliedIsDenied, [AccessNext]_accessVars PROVE AppliedIsDenied'
  OBVIOUS
<1> USE DEF AppliedIsDenied
<1>1. CASE Ruling \/ UNCHANGED accessVars
  BY <1>1 DEF Ruling, Decide, Read, Store, Edit, ExpireRules, ReadFails, wall, accessVars
<1>2. CASE Walling
  BY <1>2 DEF Walling, Lock, Unlock, Deny, Lift, Lifted, Block
<1>3. CASE Troubling
  BY <1>3 DEF Troubling, RestartServer, Deny, Lift, Lifted, Block
<1>4. QED
  BY <1>1, <1>2, <1>3 DEF AccessNext

(* What each step of a behaviour is to the rules.                           *)
LEMMA RulesMove ==
  [MCNext]_<<first, second, service, calm>> =>
    /\ calm' = calm
    /\ (AccessNext /\ (calm => CalmRules)) \/ UNCHANGED accessVars
BY DEF MCNext, first, second

(* For any rules, addresses and requests that reload them: what is          *)
(* remembered as denied is, and when rounds have been made one after the    *)
(* other the firewall denies the ranges of the rules in memory.             *)
THEOREM FirewallAsRuled == MCSpec => []RulesSound
<1>1. MCInit => RulesInv
  <2> SUFFICES ASSUME MCInit PROVE RulesInv
    OBVIOUS
  <2>1. AccessInit
    BY DEF MCInit
  <2>2. /\ reconcile.on = FALSE /\ \A l \in Loaders : loader[l].on = FALSE
        /\ troubles = 0 /\ waiting = {rules} /\ applied = {} /\ ranges = {}
        /\ reconcile = [on |-> reconcile.on, deny |-> reconcile.deny, lift |-> reconcile.lift]
        /\ reconcile.deny = {} /\ reconcile.lift = {}
    BY <2>1 DEF AccessInit, NotLoading, Resting
  <2>3. QED
    BY <2>2 DEF RulesInv, AppliedIsDenied, RoundsOK, OneRound, Settled
<1>2. RulesInv /\ [MCNext]_<<first, second, service, calm>> => RulesInv'
  <2> SUFFICES ASSUME RulesInv, [MCNext]_<<first, second, service, calm>> PROVE RulesInv'
    OBVIOUS
  <2>1. AppliedIsDenied'
    BY RulesMove, AppliedStep DEF RulesInv
  <2>2. calm /\ UNCHANGED accessVars => RoundsOK'
    BY DEF RulesInv, RoundsOK, OneRound, Settled, Want, accessVars
  <2>3. calm => RoundsOK'
    BY <2>2, RulesMove, RoundKeeps DEF RulesInv
  <2>4. QED
    BY <2>1, <2>3, RulesMove DEF RulesInv
<1>3. RulesInv => RulesSound
  BY DEF RulesInv, RulesSound, RoundsOK, FirewallFollows
<1>4. QED
  BY <1>1, <1>2, <1>3, PTL DEF MCSpec
-----------------------------------------------------------------------------
(* The filtered stream.  From the moment it is registered until its worker  *)
(* has removed it, the session's filter is one that was made and is open;   *)
(* whatever other was made has been closed, once.                           *)
Live == start \in {"registered", "running"} /\ worker # "gone"
Working == {"wait", "filter", "write", "clean"}

FiltersOK ==
  /\ filters \in Seq(Nat)
  /\ worker \in Working \cup {"none", "gone"}
  /\ start \in {"idle", "setup"} => ~registered /\ worker = "none" /\ ffmpeg # "over"
  /\ start \in {"idle", "setup"} => \A s \in Switchers : switcher[s] # "found"
  /\ worker # "none" => start = "running"
  /\ registered \/ (\E s \in Switchers : switcher[s] = "found") => active \in DOMAIN filters
  /\ Live => active \in DOMAIN filters /\ filters[active] = 0
  /\ switcher \in [Switchers -> {"idle", "found"}]
  /\ worker = "filter" => using = active

CleanedOK ==
  /\ start \in {"idle", "setup"} => filters = <<>>
  /\ Live => \A f \in DOMAIN filters : f # active => filters[f] = 1
  /\ worker \in {"clean", "gone"} => ffmpeg = "killed"
  /\ worker = "gone" => /\ conn = "closed" /\ ~registered
                        /\ \A s \in Switchers : switcher[s] # "found"
                        /\ \A f \in DOMAIN filters : filters[f] = 1

StreamInv == FiltersOK /\ (calm => CleanedOK)

(* A change: the filter before is closed and another made.                  *)
LEMMA SwitchMakes ==
  ASSUME NEW fs \in Seq(Nat), NEW a \in DOMAIN fs,
         NEW gs, gs = Append([fs EXCEPT ![a] = @ + 1], 0)
  PROVE  /\ gs \in Seq(Nat) /\ Len(gs) = Len(fs) + 1 /\ DOMAIN gs = 1..Len(fs) + 1
         /\ gs[Len(fs) + 1] = 0 /\ gs[a] = fs[a] + 1
         /\ \A f \in DOMAIN fs : f # a => gs[f] = fs[f]
<1> DEFINE hs == [fs EXCEPT ![a] = @ + 1]
<1>1. hs \in Seq(Nat) /\ Len(hs) = Len(fs) /\ DOMAIN hs = DOMAIN fs
  OBVIOUS
<1>2. hs[a] = fs[a] + 1 /\ \A f \in DOMAIN fs : f # a => hs[f] = fs[f]
  OBVIOUS
<1> HIDE DEF hs
<1>3. gs = Append(hs, 0)
  BY DEF hs
<1>4. QED
  BY <1>1, <1>2, <1>3

LEMMA FiltersStep == FiltersOK /\ [StreamNext]_streamVars => FiltersOK'
<1> SUFFICES ASSUME FiltersOK, [StreamNext]_streamVars PROVE FiltersOK'
  OBVIOUS
<1> USE DEF FiltersOK, Live, Working, frames
<1>1. CASE Launch
  BY <1>1 DEF Launch
<1>2. CASE Register
  BY <1>2 DEF Register
<1>3. CASE SetupFails
  BY <1>3 DEF SetupFails
<1>4. CASE Run
  BY <1>4 DEF Run
<1>5. CASE Give \/ Take \/ Filtered \/ Written
  BY <1>5 DEF Give, Take, Filtered, Written
<1>6. CASE ProcessEnds \/ Finish
  BY <1>6 DEF ProcessEnds, Finish
<1>7. CASE RemoveStream
  <2>1. filters' = [filters EXCEPT ![active] = @ + 1] /\ active \in DOMAIN filters /\ filters[active] = 0
    BY <1>7 DEF RemoveStream
  <2>2. filters' \in Seq(Nat) /\ DOMAIN filters' = DOMAIN filters
    BY <2>1
  <2>3. QED
    BY <1>7, <2>1, <2>2 DEF RemoveStream
<1>8. ASSUME NEW s \in Switchers, Find(s) PROVE FiltersOK'
  BY <1>8 DEF Find
<1>9. ASSUME NEW s \in Switchers, Switch(s) PROVE FiltersOK'
  <2>1. /\ active \in DOMAIN filters /\ filters \in Seq(Nat)
        /\ filters' = Append([filters EXCEPT ![active] = @ + 1], 0) /\ active' = Len(filters) + 1
    BY <1>9 DEF Switch
  <2>2. filters' \in Seq(Nat) /\ active' \in DOMAIN filters' /\ filters'[active'] = 0
    BY <2>1, SwitchMakes
  <2>3. QED
    BY <1>9, <2>2 DEF Switch
<1>10. CASE UNCHANGED streamVars
  BY <1>10 DEF streamVars
<1>11. QED
  BY <1>1, <1>2, <1>3, <1>4, <1>5, <1>6, <1>7, <1>8, <1>9, <1>10 DEF StreamNext, Streaming

LEMMA CleanedStep ==
  ASSUME FiltersOK, CleanedOK, StreamNext, CalmStream PROVE CleanedOK'
<1> USE DEF FiltersOK, CleanedOK, Live, Working, frames, CalmStream
<1>1. CASE Launch
  BY <1>1 DEF Launch
<1>2. CASE Register
  BY <1>2 DEF Register
<1>3. CASE SetupFails
  BY <1>3 DEF SetupFails
<1>4. CASE Run
  BY <1>4 DEF Run
<1>5. CASE Give \/ Take \/ Filtered \/ Written
  BY <1>5 DEF Give, Take, Filtered, Written
<1>6. CASE ProcessEnds \/ Finish
  BY <1>6 DEF ProcessEnds, Finish
<1>7. CASE RemoveStream
  <2>1. filters' = [filters EXCEPT ![active] = @ + 1] /\ active \in DOMAIN filters /\ filters[active] = 0
    BY <1>7 DEF RemoveStream
  <2>2. \A f \in DOMAIN filters : f # active => filters[f] = 1
    BY <1>7 DEF RemoveStream
  <2>3. \A f \in DOMAIN filters' : filters'[f] = 1
    BY <2>1, <2>2
  <2>4. QED
    BY <1>7, <2>3 DEF RemoveStream
<1>8. ASSUME NEW s \in Switchers, Find(s) PROVE CleanedOK'
  BY <1>8 DEF Find
<1>9. ASSUME NEW s \in Switchers, Switch(s) PROVE CleanedOK'
  <2>1. /\ active \in DOMAIN filters /\ filters \in Seq(Nat)
        /\ filters' = Append([filters EXCEPT ![active] = @ + 1], 0) /\ active' = Len(filters) + 1
    BY <1>9 DEF Switch
  <2>2. worker # "gone" /\ UNCHANGED <<start, worker, conn, registered, ffmpeg>>
    BY <1>9 DEF Switch
  <2>3. ASSUME Live, NEW f \in DOMAIN filters', f # active' PROVE filters'[f] = 1
    <3>1. f \in DOMAIN filters
      BY <2>1, <2>3, SwitchMakes
    <3>2. CASE f = active
      <4>1. filters'[active] = filters[active] + 1 /\ filters[active] = 0
        BY <2>1, <2>3, SwitchMakes
      <4>2. QED
        BY <3>2, <4>1
    <3>3. CASE f # active
      <4>1. filters'[f] = filters[f]
        BY <2>1, <3>1, <3>3, SwitchMakes
      <4>2. QED
        BY <2>3, <3>1, <3>3, <4>1
    <3>4. QED
      BY <3>2, <3>3
  <2>4. start \notin {"idle", "setup"}
    BY <1>9 DEF Switch
  <2>5. QED
    BY <2>2, <2>3, <2>4
<1>10. QED
  BY <1>1, <1>2, <1>3, <1>4, <1>5, <1>6, <1>7, <1>8, <1>9 DEF StreamNext, Streaming

LEMMA StreamMoves ==
  [MCNext]_<<first, second, service, calm>> =>
    /\ calm' = calm
    /\ (StreamNext /\ (calm => CalmStream)) \/ UNCHANGED streamVars
BY DEF MCNext, first, second

(* For any number of changes, filters and frames: no frame goes through a   *)
(* closed filter; and but for a change that found the stream before it was  *)
(* removed, a stream that is over leaves nothing open and closed nothing    *)
(* twice.                                                                   *)
THEOREM FiltersAreClosed == MCSpec => []StreamSound
<1>1. MCInit => StreamInv
  BY DEF MCInit, StreamInit, StreamInv, FiltersOK, CleanedOK, Live, Working
<1>2. StreamInv /\ [MCNext]_<<first, second, service, calm>> => StreamInv'
  <2> SUFFICES ASSUME StreamInv, [MCNext]_<<first, second, service, calm>> PROVE StreamInv'
    OBVIOUS
  <2>1. FiltersOK'
    BY StreamMoves, FiltersStep DEF StreamInv
  <2>2. calm /\ UNCHANGED streamVars => CleanedOK'
    BY DEF StreamInv, CleanedOK, Live, streamVars
  <2>3. calm => CleanedOK'
    BY <2>2, StreamMoves, CleanedStep DEF StreamInv
  <2>4. QED
    BY <2>1, <2>3, StreamMoves DEF StreamInv
<1>3. StreamInv => StreamSound
  <2> SUFFICES ASSUME StreamInv PROVE StreamSound
    OBVIOUS
  <2>1. NoClosedFilter
    BY DEF NoClosedFilter, StreamInv, FiltersOK, Live
  <2>2. calm => NothingKept
    BY DEF NothingKept, OpenFilters, StreamInv, CleanedOK
  <2>3. QED
    BY <2>1, <2>2 DEF StreamSound
<1>4. QED
  BY <1>1, <1>2, <1>3, PTL DEF MCSpec
-----------------------------------------------------------------------------
(* The video tool.  What the page waits for is the one request of its job   *)
(* that it still hears; what was ever made stays as long as its directory.  *)
Tasks ==
  {NoTask}
  \cup [op : {"load"}, job : Jobs, open : BOOLEAN]
  \cup [op : {"track"}, job : Jobs]
  \cup [op : {"export"}, job : Jobs, format : Formats, edit : Nat \ {0}, open : BOOLEAN,
        at : {"asked", "running"}]
Outputs == {NoOutput} \cup [format : Formats, edit : Nat \ {0}]

VideoType ==
  /\ jobs \subseteq Jobs /\ dirs \subseteq Jobs /\ edits \in Nat
  /\ job \in [Jobs -> [source : BOOLEAN, track : BOOLEAN, output : Outputs]]
  /\ files \in [Files -> SUBSET Nat]
  /\ task \in [Handlers -> Tasks]
  /\ tool \in [job : Jobs \cup {NoJob}, track : BOOLEAN,
              phase : {"idle", "running", "done", "error"},
              format : Formats \cup {"none"}, edit : Nat]

Heard(h, op) == task[h].op = op /\ task[h].open
Encoding(h) == task[h].op = "export" /\ task[h].at = "running"

OneHeard ==
  /\ \A h \in Handlers : Heard(h, "load") => tool.job = NoJob /\ tool.phase = "idle"
  /\ \A h, g \in Handlers : Heard(h, "load") /\ Heard(g, "load") => h = g
  /\ \A h \in Handlers : Heard(h, "export") =>
       /\ tool.job = task[h].job /\ tool.phase = "running"
       /\ tool.format = task[h].format /\ tool.edit = task[h].edit
  /\ \A h, g \in Handlers : Heard(h, "export") /\ Heard(g, "export") => h = g

MadeStays ==
  /\ \A id \in Jobs : job[id].output # NoOutput =>
       /\ job[id].source
       /\ id \in dirs => files[<<id, job[id].output.format>>] # {}
  /\ \A h \in Handlers : Encoding(h) => job[task[h].job].source
  /\ tool.job # NoJob => job[tool.job].source
  /\ tool.phase = "done" => tool.job # NoJob /\ job[tool.job].output # NoOutput

(* While no connection is lost, a job's file is written by one export, and  *)
(* a track goes to the job the page works on.                               *)
OneWriter ==
  /\ \A h \in Handlers : task[h].op = "load" =>
       /\ task[h].open /\ ~job[task[h].job].source
       /\ \A g \in Handlers : task[g].op = "export" => task[g].job # task[h].job
  /\ \A h \in Handlers : task[h].op = "export" /\ ~task[h].open => task[h].job # tool.job
  /\ \A h, g \in Handlers :
       task[h].op = "export" /\ task[g].op = "export" /\ task[h].job = task[g].job => h = g
  /\ \A h \in Handlers : Encoding(h) /\ task[h].job \in dirs =>
       files[<<task[h].job, task[h].format>>] = {task[h].edit}
  /\ tool.phase = "done" /\ tool.job \in dirs =>
       /\ job[tool.job].output = [format |-> tool.format, edit |-> tool.edit]
       /\ files[<<tool.job, tool.format>>] = {tool.edit}
TrackHasJob ==
  /\ \A h \in Handlers : task[h].op = "track" => task[h].job = tool.job
  /\ tool.track => tool.job # NoJob /\ job[tool.job].track

VideoInv ==
  /\ VideoType /\ OneHeard /\ MadeStays
  /\ calm => OneWriter /\ TrackHasJob

(* The fields of a task of each kind.                                       *)
LEMMA TaskKinds ==
  ASSUME VideoType, NEW h \in Handlers
  PROVE  /\ task[h].op \in {"none", "load", "track", "export"}
         /\ task[h].op = "none" => task[h] = NoTask
         /\ task[h].op = "load" => task[h] \in [op : {"load"}, job : Jobs, open : BOOLEAN]
         /\ task[h].op = "track" => task[h] \in [op : {"track"}, job : Jobs]
         /\ task[h].op = "export" =>
              task[h] \in [op : {"export"}, job : Jobs, format : Formats, edit : Nat \ {0},
                          open : BOOLEAN, at : {"asked", "running"}]
<1>1. task[h] \in Tasks
  BY DEF VideoType
<1>2. QED
  BY <1>1 DEF Tasks, NoTask

LEMMA NewJobKeeps ==
  ASSUME VideoInv, NEW h \in Handlers, NEW id \in Jobs, NewJob(h, id), UNCHANGED calm, calm => CalmVideo
  PROVE  VideoInv'
<1> DEFINE load == [op |-> "load", job |-> id, open |-> TRUE]
<1> USE DEF VideoInv
<1>1. /\ \A g \in Handlers : ~Heard(g, "load")
      /\ ~job[id].source /\ task[h] = NoTask
      /\ \A g \in Handlers : task[g] # NoTask => task[g].job # id
      /\ jobs' = jobs \cup {id} /\ dirs' = dirs \cup {id} /\ tool' = Blank
      /\ task' = [g \in Handlers |-> IF g = h THEN load ELSE Closed(task[g])]
      /\ UNCHANGED <<job, files, edits>>
  BY DEF NewJob, Idle, Loading, Heard, Reset
<1>2. /\ task'[h] = load /\ load \in Tasks /\ load.op = "load" /\ load.job = id /\ load.open
  BY <1>1 DEF Tasks
<1> HIDE DEF load
<1>3. ASSUME NEW g \in Handlers, g # h
      PROVE  /\ task'[g] \in Tasks /\ task'[g].op = task[g].op
             /\ task[g].op # "none" => task'[g].job = task[g].job /\ task[g].job # id
             /\ task[g].op = "load" => task'[g].open = task[g].open
             /\ task[g].op = "export" =>
                  ~task'[g].open /\ task'[g].format = task[g].format /\ task'[g].edit = task[g].edit
                  /\ task'[g].at = task[g].at
  <2>1. task'[g] = Closed(task[g])
    BY <1>1, <1>3
  <2>2. CASE task[g].op # "export"
    BY <1>1, <2>1, <2>2, TaskKinds DEF Closed, Tasks, NoTask
  <2>3. CASE task[g].op = "export"
    BY <1>1, <2>1, <2>3, TaskKinds DEF Closed, Tasks, NoTask
  <2>4. QED
    BY <2>2, <2>3
<1>4. tool'.job = NoJob /\ tool'.phase = "idle" /\ tool'.track = FALSE
  BY <1>1 DEF Blank
<1>5. VideoType'
  BY <1>1, <1>2, <1>3 DEF VideoType, Blank
<1>6. OneHeard'
  <2>1. \A g \in Handlers : ~Heard(g, "export")'
    BY <1>2, <1>3 DEF Heard
  <2>2. \A g \in Handlers : Heard(g, "load")' => g = h
    BY <1>1, <1>2, <1>3 DEF Heard
  <2>3. QED
    BY <2>1, <2>2, <1>4 DEF OneHeard
<1>7. MadeStays'
  BY <1>1, <1>2, <1>3, <1>4 DEF MadeStays, Encoding
<1>8. calm => OneWriter'
  <2> SUFFICES ASSUME calm PROVE OneWriter'
    OBVIOUS
  <2>1. \A g \in Handlers : task[g].op # "load"
    BY <1>1 DEF OneWriter, Heard
  <2>2. \A g \in Handlers : task[g].op = "export" => task[g].job \in Jobs
    BY TaskKinds
  <2>3. QED
    BY <1>1, <1>2, <1>3, <1>4, <2>1, <2>2, JobsAssumption DEF OneWriter, Encoding
<1>9. calm => TrackHasJob'
  <2> SUFFICES ASSUME calm PROVE TrackHasJob'
    OBVIOUS
  <2>1. ASSUME NEW g \in Handlers, task[g].op = "track" PROVE FALSE
    <3>1. tool'.job = tool.job
      BY <2>1 DEF CalmVideo
    <3>2. task[g].job \in Jobs /\ task[g].job = tool.job
      BY <2>1, TaskKinds DEF TrackHasJob
    <3>3. QED
      BY <3>1, <3>2, <1>4, JobsAssumption
  <2>2. QED
    BY <1>2, <1>3, <1>4, <2>1 DEF TrackHasJob
<1>10. QED
  BY <1>5, <1>6, <1>7, <1>8, <1>9

(* A task that ends, and nothing else of the tasks.                         *)
LEMMA TaskEnds ==
  ASSUME VideoInv, NEW h \in Handlers, Goes(h, NoTask)
  PROVE  /\ task'[h].op = "none" /\ task'[h] \in Tasks
         /\ \A g \in Handlers \ {h} : task'[g] = task[g]
         /\ task' \in [Handlers -> Tasks]
BY DEF Goes, VideoInv, VideoType, Tasks, NoTask

(* A directory goes, and with it what was made in it.                       *)
LEMMA DirGoes ==
  ASSUME VideoInv, NEW id \in Jobs, UNCHANGED <<job, tool, edits, calm>>,
         jobs' \subseteq jobs, dirs' = dirs \ {id},
         files' = [f \in Files |-> IF f[1] = id THEN {} ELSE files[f]],
         task' \in [Handlers -> Tasks],
         \A g \in Handlers : task'[g] = task[g] \/ task'[g].op = "none"
  PROVE  VideoInv'
<1> USE DEF VideoInv
<1>1. \A g \in Handlers : task[g].op = "export" => task[g].job \in Jobs /\ task[g].format \in Formats
  BY TaskKinds
<1>2. \A j \in Jobs, f \in Formats : j # id => files'[<<j, f>>] = files[<<j, f>>]
  BY DEF Files
<1>3. VideoType'
  BY DEF VideoType
<1>4. OneHeard'
  BY DEF OneHeard, Heard
<1>5. \A g \in Handlers : Encoding(g)' => Encoding(g) /\ task'[g] = task[g]
  BY DEF Encoding
<1>6. MadeStays'
  <2>1. \A j \in Jobs : job[j].output # NoOutput => job[j].output.format \in Formats
    BY DEF VideoType, Outputs
  <2>2. \A j \in Jobs : job[j].output # NoOutput /\ j \in dirs' => files'[<<j, job[j].output.format>>] # {}
    BY <1>2, <2>1 DEF MadeStays
  <2>3. \A g \in Handlers : Encoding(g)' => job'[task'[g].job].source
    BY <1>5 DEF MadeStays
  <2>4. QED
    BY <2>2, <2>3 DEF MadeStays
<1>7. calm => OneWriter'
  <2> SUFFICES ASSUME calm PROVE OneWriter'
    OBVIOUS
  <2>1. ASSUME NEW g \in Handlers, Encoding(g)', task'[g].job \in dirs'
        PROVE  files'[<<task'[g].job, task'[g].format>>] = {task'[g].edit}
    <3>1. Encoding(g) /\ task'[g] = task[g] /\ task[g].job \in dirs /\ task[g].job # id
      BY <1>5, <2>1
    <3>2. task[g].job \in Jobs /\ task[g].format \in Formats
      BY <1>1, <3>1 DEF Encoding
    <3>3. files[<<task[g].job, task[g].format>>] = {task[g].edit}
      BY <3>1 DEF OneWriter
    <3>4. QED
      BY <1>2, <3>1, <3>2, <3>3
  <2>2. tool.phase = "done" /\ tool.job \in dirs' =>
          /\ job[tool.job].output = [format |-> tool.format, edit |-> tool.edit]
          /\ files'[<<tool.job, tool.format>>] = {tool.edit}
    <3> SUFFICES ASSUME tool.phase = "done", tool.job \in dirs, tool.job # id
                 PROVE  /\ job[tool.job].output = [format |-> tool.format, edit |-> tool.edit]
                        /\ files'[<<tool.job, tool.format>>] = {tool.edit}
      OBVIOUS
    <3>1. job[tool.job].output = [format |-> tool.format, edit |-> tool.edit]
      BY DEF OneWriter
    <3>2. tool.job \in Jobs /\ job[tool.job].output \in [format : Formats, edit : Nat \ {0}]
      BY DEF MadeStays, VideoType, Outputs
    <3>3. tool.format \in Formats
      BY <3>1, <3>2
    <3>4. QED
      BY <1>2, <3>1, <3>2, <3>3 DEF OneWriter
  <2>3. \A g \in Handlers : task'[g].op \in {"load", "export"} => task'[g] = task[g]
    OBVIOUS
  <2>4. \A g \in Handlers : task'[g].op = "load" =>
         /\ task'[g].open /\ ~job'[task'[g].job].source
         /\ \A k \in Handlers : task'[k].op = "export" => task'[k].job # task'[g].job
    BY <2>3 DEF OneWriter
  <2>5. /\ \A g \in Handlers : task'[g].op = "export" /\ ~task'[g].open => task'[g].job # tool'.job
        /\ \A g, k \in Handlers :
             task'[g].op = "export" /\ task'[k].op = "export" /\ task'[g].job = task'[k].job => g = k
    BY <2>3 DEF OneWriter
  <2>6. QED
    BY <2>1, <2>2, <2>4, <2>5 DEF OneWriter
<1>8. calm => TrackHasJob'
  BY DEF TrackHasJob
<1>9. QED
  BY <1>3, <1>4, <1>6, <1>7, <1>8

LEMMA LoadEndKeeps ==
  ASSUME VideoInv, NEW h \in Handlers, Loaded(h) \/ LoadFails(h), UNCHANGED calm, calm => CalmVideo
  PROVE  VideoInv'
<1> USE DEF VideoInv
<1>1. /\ Goes(h, NoTask) /\ Loading(h) /\ edits' = edits
      /\ task[h].job \in Jobs /\ task[h].open \in BOOLEAN
  BY TaskKinds DEF Loaded, LoadFails, Loading
<1>2. task'[h].op = "none" /\ (\A g \in Handlers \ {h} : task'[g] = task[g]) /\ task' \in [Handlers -> Tasks]
  BY <1>1, TaskEnds
<1>3. \A g \in Handlers : task[g].op = "export" => task[g].job \in Jobs
  BY TaskKinds
<1>4. CASE Loaded(h)
  <2>1. /\ job' = [job EXCEPT ![task[h].job].source = TRUE]
        /\ tool' = IF task[h].open THEN [tool EXCEPT !.job = task[h].job] ELSE tool
        /\ UNCHANGED <<jobs, dirs, files>> /\ task[h].job \in dirs
    BY <1>4 DEF Loaded
  <2>2. /\ task[h].open => tool.job = NoJob /\ tool.phase = "idle" /\ tool'.job = task[h].job
        /\ ~task[h].open => tool'.job = tool.job
        /\ tool'.phase = tool.phase /\ tool'.format = tool.format /\ tool'.edit = tool.edit
        /\ tool'.track = tool.track
    BY <1>1, <2>1 DEF OneHeard, Heard, Loading, VideoType
  <2>3. \A id \in Jobs : /\ job'[id].output = job[id].output /\ job'[id].track = job[id].track
                         /\ job'[id].source = (job[id].source \/ id = task[h].job)
    BY <1>1, <2>1 DEF VideoType
  <2>4. VideoType'
    BY <1>1, <1>2, <2>1 DEF VideoType
  <2>5. OneHeard'
    BY <1>1, <1>2, <2>2 DEF OneHeard, Heard, Loading
  <2>6. MadeStays'
    <3>1. \A g \in Handlers : Encoding(g)' => Encoding(g) /\ task'[g] = task[g]
      BY <1>2 DEF Encoding
    <3>2. tool.job # NoJob => tool.job \in Jobs
      BY DEF VideoType
    <3>3. \A id \in Jobs : job'[id].output # NoOutput =>
             job'[id].source /\ (id \in dirs' => files'[<<id, job'[id].output.format>>] # {})
      BY <2>1, <2>3 DEF MadeStays
    <3>4. tool'.job # NoJob => job'[tool'.job].source
      BY <1>1, <2>2, <2>3, <3>2 DEF MadeStays
    <3>5. tool'.phase = "done" => tool'.job # NoJob /\ job'[tool'.job].output # NoOutput
      BY <1>1, <2>2, <2>3, <3>2 DEF MadeStays
    <3>6. \A g \in Handlers : Encoding(g)' => job'[task'[g].job].source
      BY <1>3, <2>3, <3>1 DEF MadeStays, Encoding
    <3>7. QED
      BY <3>3, <3>4, <3>5, <3>6 DEF MadeStays
  <2>7. calm => OneWriter'
    <3> SUFFICES ASSUME calm PROVE OneWriter'
      OBVIOUS
    <3>1. task[h].open /\ ~job[task[h].job].source
      BY <1>1 DEF OneWriter, Loading
    <3>2. \A g \in Handlers : task[g].op # "load" \/ g = h
      BY <1>1, <3>1 DEF OneWriter, OneHeard, Heard, Loading
    <3>3. \A g \in Handlers : task[g].op = "export" => task[g].job # task[h].job
      BY <1>1 DEF OneWriter, Loading
    <3>4. QED
      BY <1>2, <2>1, <2>2, <3>1, <3>2, <3>3 DEF OneWriter, Encoding
  <2>8. calm => TrackHasJob'
    <3> SUFFICES ASSUME calm PROVE TrackHasJob'
      OBVIOUS
    <3>1. task[h].open /\ tool.job = NoJob /\ tool'.job = task[h].job /\ task[h].job # NoJob
      BY <1>1, <2>2, JobsAssumption DEF OneWriter, Loading
    <3>2. \A g \in Handlers : task[g].op # "track"
      BY <3>1 DEF CalmVideo
    <3>3. ~tool.track
      BY <3>1 DEF TrackHasJob
    <3>4. QED
      BY <1>2, <2>2, <3>1, <3>2, <3>3 DEF TrackHasJob
  <2>9. QED
    BY <2>4, <2>5, <2>6, <2>7, <2>8
<1>5. CASE LoadFails(h)
  BY <1>1, <1>2, <1>5, DirGoes DEF LoadFails
<1>6. QED
  BY <1>4, <1>5

LEMMA TrackKeeps ==
  ASSUME VideoInv, NEW h \in Handlers, SendTrack(h) \/ TrackDone(h), UNCHANGED calm
  PROVE  VideoInv'
<1> USE DEF VideoInv
<1>1. CASE SendTrack(h)
  <2> DEFINE track == [op |-> "track", job |-> tool.job]
  <2>1. /\ task' = [task EXCEPT ![h] = track] /\ tool.job \in Jobs
        /\ UNCHANGED <<jobs, dirs, job, files, tool, edits>>
    BY <1>1 DEF SendTrack, Goes, VideoType
  <2>2. track \in Tasks /\ track.op = "track" /\ track.job = tool.job
    BY <2>1 DEF Tasks
  <2> HIDE DEF track
  <2>3. task'[h] = track /\ \A g \in Handlers \ {h} : task'[g] = task[g]
    BY <2>1 DEF VideoType
  <2>4. VideoType' /\ OneHeard'
    BY <2>1, <2>2, <2>3 DEF VideoType, OneHeard, Heard
  <2>5. MadeStays'
    BY <2>1, <2>2, <2>3 DEF MadeStays, Encoding
  <2>6. calm => OneWriter' /\ TrackHasJob'
    BY <2>1, <2>2, <2>3 DEF OneWriter, TrackHasJob, Encoding
  <2>7. QED
    BY <2>4, <2>5, <2>6
<1>2. CASE TrackDone(h)
  <2>1. /\ task[h].op = "track" /\ task[h].job \in Jobs
        /\ Goes(h, NoTask) /\ UNCHANGED <<jobs, dirs, files, edits>>
    BY <1>2, TaskKinds DEF TrackDone
  <2>2. task'[h].op = "none" /\ (\A g \in Handlers \ {h} : task'[g] = task[g]) /\ task' \in [Handlers -> Tasks]
    BY <2>1, TaskEnds
  <2> DEFINE Tool == [job : Jobs \cup {NoJob}, track : BOOLEAN, phase : {"idle", "running", "done", "error"},
                       format : Formats \cup {"none"}, edit : Nat]
             Rows == [source : BOOLEAN, track : BOOLEAN, output : Outputs]
  <2>3. /\ tool'.job = tool.job /\ tool'.phase = tool.phase /\ tool'.format = tool.format
        /\ tool'.edit = tool.edit /\ tool' \in Tool
        /\ tool'.track => tool.track \/ job'[task[h].job].track
    <3>1. CASE /\ job' = [job EXCEPT ![task[h].job].track = TRUE]
               /\ tool' = [tool EXCEPT !.track = TRUE]
      <4>1. job'[task[h].job].track
        BY <2>1, <3>1 DEF VideoType
      <4>2. QED
        BY <3>1, <4>1 DEF VideoType
    <3>2. CASE UNCHANGED <<job, tool>>
      BY <3>2 DEF VideoType
    <3>3. QED
      BY <1>2, <3>1, <3>2 DEF TrackDone
  <2>4. job' \in [Jobs -> Rows]
    <3>1. CASE job' = [job EXCEPT ![task[h].job].track = TRUE]
      <4>1. [job[task[h].job] EXCEPT !.track = TRUE] \in Rows
        BY <2>1 DEF VideoType
      <4>2. QED
        BY <3>1, <4>1 DEF VideoType
    <3>2. CASE job' = job
      BY <3>2 DEF VideoType
    <3>3. QED
      BY <1>2, <3>1, <3>2 DEF TrackDone
  <2>5. \A id \in Jobs : /\ job'[id].output = job[id].output /\ job'[id].source = job[id].source
                         /\ job[id].track => job'[id].track
    BY <1>2, <2>1 DEF TrackDone, VideoType
  <2>6. VideoType' /\ OneHeard'
    <3>1. VideoType'
      BY <2>1, <2>2, <2>3, <2>4 DEF VideoType
    <3>2. OneHeard'
      BY <2>1, <2>2, <2>3 DEF OneHeard, Heard
    <3>3. QED
      BY <3>1, <3>2
  <2>7. \A g \in Handlers : task[g].op \in {"load", "export"} => task[g].job \in Jobs
    BY TaskKinds
  <2>8. tool.job # NoJob => tool.job \in Jobs
    BY DEF VideoType
  <2>9. MadeStays'
    <3>1. \A g \in Handlers : Encoding(g)' => task'[g].job \in Jobs /\ job[task'[g].job].source
      BY <2>2, <2>7 DEF MadeStays, Encoding
    <3>2. QED
      BY <2>1, <2>3, <2>5, <2>8, <3>1 DEF MadeStays
  <2>10. calm => OneWriter'
    <3> SUFFICES ASSUME calm PROVE OneWriter'
      OBVIOUS
    <3>1. tool.job \in dirs => tool.job \in Jobs
      BY DEF VideoType
    <3>2. QED
      BY <2>1, <2>2, <2>3, <2>5, <2>7, <3>1 DEF OneWriter, Encoding
  <2>11. calm => TrackHasJob'
    BY <2>1, <2>2, <2>3, <2>5, <2>8, JobsAssumption DEF TrackHasJob
  <2>12. QED
    BY <2>6, <2>9, <2>10, <2>11
<1>3. QED
  BY <1>1, <1>2

LEMMA ExportKeeps ==
  ASSUME VideoInv, NEW h \in Handlers, NEW format \in Formats, Export(h, format), UNCHANGED calm
  PROVE  VideoInv'
<1> USE DEF VideoInv
<1> DEFINE export == [op |-> "export", job |-> tool.job, format |-> format, edit |-> edits + 1,
                      open |-> TRUE, at |-> "asked"]
<1>1. /\ task' = [task EXCEPT ![h] = export] /\ tool.job # NoJob /\ tool.phase # "running"
      /\ tool' = [tool EXCEPT !.phase = "running", !.format = format, !.edit = edits + 1]
      /\ edits' = edits + 1 /\ edits \in Nat /\ UNCHANGED <<jobs, dirs, job, files>>
  BY DEF Export, Goes, VideoType
<1>2. tool.job \in Jobs
  BY <1>1 DEF VideoType
<1>3. /\ export \in Tasks /\ export.op = "export" /\ export.job = tool.job /\ export.format = format
      /\ export.edit = edits + 1 /\ export.open /\ export.at = "asked"
  BY <1>1, <1>2 DEF Tasks
<1> HIDE DEF export
<1>4. /\ task'[h] = export /\ (\A g \in Handlers \ {h} : task'[g] = task[g])
      /\ task' \in [Handlers -> Tasks]
  BY <1>1, <1>3 DEF VideoType
<1>5. /\ tool'.job = tool.job /\ tool'.track = tool.track /\ tool'.phase = "running"
      /\ tool'.format = format /\ tool'.edit = edits + 1
  BY <1>1 DEF VideoType
<1>6. \A g \in Handlers : ~Heard(g, "export") /\ ~Heard(g, "load")
  BY <1>1 DEF OneHeard
<1>7. VideoType'
  <2>1. edits + 1 \in Nat
    BY <1>1
  <2>2. tool' \in [job : Jobs \cup {NoJob}, track : BOOLEAN, phase : {"idle", "running", "done", "error"},
                  format : Formats \cup {"none"}, edit : Nat]
    BY <1>1, <2>1 DEF VideoType
  <2>3. QED
    BY <1>1, <1>4, <2>1, <2>2 DEF VideoType
<1>8. OneHeard'
  BY <1>3, <1>4, <1>5, <1>6 DEF OneHeard, Heard
<1>9. MadeStays'
  BY <1>1, <1>3, <1>4, <1>5 DEF MadeStays, Encoding
<1>10. calm => OneWriter'
  <2> SUFFICES ASSUME calm PROVE OneWriter'
    OBVIOUS
  <2>1. \A g \in Handlers : task[g].op # "load"
    BY <1>6 DEF OneWriter, Heard
  <2>2. \A g \in Handlers : task[g].op = "export" => task[g].job # tool.job
    BY <1>6, TaskKinds DEF OneWriter, Heard
  <2>3. QED
    BY <1>1, <1>3, <1>4, <1>5, <2>1, <2>2 DEF OneWriter, Encoding
<1>11. calm => TrackHasJob'
  BY <1>1, <1>3, <1>4, <1>5 DEF TrackHasJob
<1>12. QED
  BY <1>7, <1>8, <1>9, <1>10, <1>11

(* ffmpeg empties the file and writes it anew.                              *)
LEMMA EncodeKeeps ==
  ASSUME VideoInv, NEW h \in Handlers, Encode(h), UNCHANGED calm
  PROVE  VideoInv'
<1> USE DEF VideoInv
<1> DEFINE t == task[h]
           runs == [t EXCEPT !.at = "running"]
           file == <<t.job, t.format>>
<1>1. /\ t.op = "export" /\ t.at = "asked" /\ task' = [task EXCEPT ![h] = runs]
      /\ job[t.job].source /\ t.job \in dirs
      /\ files' = [files EXCEPT ![file] = {t.edit}]
      /\ UNCHANGED <<jobs, dirs, job, tool, edits>>
  BY DEF Encode, Goes
<1>2. t \in [op : {"export"}, job : Jobs, format : Formats, edit : Nat \ {0}, open : BOOLEAN,
            at : {"asked", "running"}]
  BY <1>1, TaskKinds
<1>3. /\ runs \in Tasks /\ runs.op = "export" /\ runs.job = t.job /\ runs.format = t.format
      /\ runs.edit = t.edit /\ runs.open = t.open /\ runs.at = "running"
  BY <1>2 DEF Tasks
<1>4. t.job \in Jobs /\ t.format \in Formats /\ t.edit \in Nat \ {0} /\ file \in Files
  BY <1>2 DEF Files
<1> HIDE DEF runs
<1>5. /\ task'[h] = runs /\ (\A g \in Handlers \ {h} : task'[g] = task[g])
      /\ task' \in [Handlers -> Tasks]
  BY <1>1, <1>3 DEF VideoType
<1>6. files'[file] = {t.edit} /\ files' \in [Files -> SUBSET Nat]
  BY <1>1, <1>4 DEF VideoType
<1>7. \A j \in Jobs, f \in Formats : <<j, f>> # file => files'[<<j, f>>] = files[<<j, f>>]
  BY <1>1 DEF VideoType, Files
<1>8. VideoType'
  BY <1>1, <1>5, <1>6 DEF VideoType
<1>9. OneHeard'
  BY <1>1, <1>3, <1>5 DEF OneHeard, Heard
<1>10. MadeStays'
  <2>1. ASSUME NEW id \in Jobs, job[id].output # NoOutput, id \in dirs
        PROVE  files'[<<id, job[id].output.format>>] # {}
    <3>1. job[id].output.format \in Formats
      BY <2>1 DEF VideoType, Outputs
    <3>2. files[<<id, job[id].output.format>>] # {}
      BY <2>1 DEF MadeStays
    <3>3. QED
      BY <1>6, <1>7, <3>1, <3>2
  <2>2. \A g \in Handlers : Encoding(g)' => job[task'[g].job].source
    BY <1>1, <1>3, <1>5 DEF MadeStays, Encoding
  <2>3. QED
    BY <1>1, <2>1, <2>2 DEF MadeStays
<1>11. calm => OneWriter'
  <2> SUFFICES ASSUME calm PROVE OneWriter'
    OBVIOUS
  <2>1. \A g \in Handlers : task'[g].op = task[g].op
    BY <1>1, <1>3, <1>5
  <2>2. \A g \in Handlers : task[g].op = "load" => task'[g] = task[g]
    BY <1>1, <1>5
  <2>3. \A g \in Handlers : task[g].op = "export" => task'[g].job = task[g].job /\ task'[g].open = task[g].open
    BY <1>3, <1>5
  <2>4. ASSUME NEW g \in Handlers, Encoding(g)', task'[g].job \in dirs'
        PROVE  files'[<<task'[g].job, task'[g].format>>] = {task'[g].edit}
    <3>1. CASE g = h
      BY <1>3, <1>5, <1>6, <3>1
    <3>2. CASE g # h
      <4>1. Encoding(g) /\ task'[g] = task[g] /\ task[g].job # t.job
        BY <1>1, <1>5, <2>4, <3>2 DEF OneWriter, Encoding
      <4>2. task[g].job \in Jobs /\ task[g].format \in Formats
        BY <4>1, TaskKinds DEF Encoding
      <4>3. files[<<task[g].job, task[g].format>>] = {task[g].edit}
        BY <1>1, <2>4, <4>1 DEF OneWriter
      <4>4. QED
        BY <1>7, <4>1, <4>2, <4>3
    <3>3. QED
      BY <3>1, <3>2
  <2>5. tool.phase = "done" /\ tool.job \in dirs =>
          /\ job[tool.job].output = [format |-> tool.format, edit |-> tool.edit]
          /\ files'[<<tool.job, tool.format>>] = {tool.edit}
    <3> SUFFICES ASSUME tool.phase = "done", tool.job \in dirs
                 PROVE  /\ job[tool.job].output = [format |-> tool.format, edit |-> tool.edit]
                        /\ files'[<<tool.job, tool.format>>] = {tool.edit}
      OBVIOUS
    <3>1. job[tool.job].output = [format |-> tool.format, edit |-> tool.edit]
      BY DEF OneWriter
    <3>2. tool.job \in Jobs /\ job[tool.job].output \in [format : Formats, edit : Nat \ {0}]
      BY DEF MadeStays, VideoType, Outputs
    <3>3. tool.format \in Formats
      BY <3>1, <3>2
    <3>4. tool.job # t.job
      BY <1>1, <1>2 DEF OneWriter, OneHeard, Heard
    <3>5. QED
      BY <1>7, <3>1, <3>2, <3>3, <3>4 DEF OneWriter
  <2>6. QED
    BY <1>1, <2>1, <2>2, <2>3, <2>4, <2>5 DEF OneWriter
<1>12. calm => TrackHasJob'
  BY <1>1, <1>3, <1>5 DEF TrackHasJob
<1>13. QED
  BY <1>8, <1>9, <1>10, <1>11, <1>12

(* An export ends: what it wrote stays while its directory does.            *)
LEMMA ExportEndKeeps ==
  ASSUME VideoInv, NEW h \in Handlers, ExportFails(h) \/ Exported(h), UNCHANGED calm
  PROVE  VideoInv'
<1> USE DEF VideoInv
<1> DEFINE t == task[h]
           file == <<t.job, t.format>>
           done == Exported(h)
<1>1. /\ t.op = "export" /\ Goes(h, NoTask) /\ UNCHANGED <<jobs, dirs, edits>>
      /\ done => t.at = "running"
      /\ t.op = "export" /\ t.at = "running" /\ t.job \in dirs =>
           files' = [files EXCEPT ![file] = @ \cup {t.edit}]
      /\ ~(t.at = "running" /\ t.job \in dirs) => files' = files
  BY DEF ExportFails, Exported
<1>2. t \in [op : {"export"}, job : Jobs, format : Formats, edit : Nat \ {0}, open : BOOLEAN,
            at : {"asked", "running"}]
  BY <1>1, TaskKinds
<1>3. t.job \in Jobs /\ t.format \in Formats /\ t.edit \in Nat \ {0} /\ file \in Files
  BY <1>2 DEF Files
<1>4. task'[h].op = "none" /\ (\A g \in Handlers \ {h} : task'[g] = task[g]) /\ task' \in [Handlers -> Tasks]
  BY <1>1, TaskEnds
<1>5. /\ done => job' = [job EXCEPT ![t.job].output = OutputOf(t)]
      /\ ~done => job' = job
  BY DEF Exported, ExportFails, Output
<1>6. OutputOf(t) \in Outputs /\ OutputOf(t) # NoOutput /\ OutputOf(t) = [format |-> t.format, edit |-> t.edit]
  BY <1>3 DEF OutputOf, Outputs, NoOutput
<1>7. /\ job' \in [Jobs -> [source : BOOLEAN, track : BOOLEAN, output : Outputs]]
      /\ \A id \in Jobs : job'[id].source = job[id].source /\ job'[id].track = job[id].track
      /\ \A id \in Jobs : id # t.job \/ ~done => job'[id].output = job[id].output
      /\ done => job'[t.job].output = OutputOf(t)
  BY <1>3, <1>5, <1>6 DEF VideoType
<1>8. /\ tool'.job = tool.job /\ tool'.track = tool.track
      /\ tool'.format = tool.format /\ tool'.edit = tool.edit
      /\ tool'.phase \in {"idle", "running", "done", "error"}
      /\ tool' \in [job : Jobs \cup {NoJob}, track : BOOLEAN, phase : {"idle", "running", "done", "error"},
                   format : Formats \cup {"none"}, edit : Nat]
      /\ ~t.open => tool' = tool
      /\ t.open => tool'.phase = IF done THEN "done" ELSE "error"
  <2>1. CASE done
    BY <2>1 DEF Exported, Told, VideoType
  <2>2. CASE ~done
    BY <2>2 DEF ExportFails, Told, VideoType
  <2>3. QED
    BY <2>1, <2>2
<1> HIDE DEF done
<1>9. /\ files' \in [Files -> SUBSET Nat]
      /\ \A j \in Jobs, f \in Formats : files[<<j, f>>] \subseteq files'[<<j, f>>]
      /\ \A j \in Jobs, f \in Formats : <<j, f>> # file => files'[<<j, f>>] = files[<<j, f>>]
      /\ t.at = "running" /\ t.job \in dirs => files'[file] = files[file] \cup {t.edit}
  <2>1. CASE t.at = "running" /\ t.job \in dirs
    <3> HIDE DEF file
    <3>1. files' = [files EXCEPT ![file] = @ \cup {t.edit}]
      BY <1>1, <2>1
    <3>2. \A f \in Files : files[f] \subseteq files'[f] /\ (f # file => files'[f] = files[f])
      BY <3>1 DEF VideoType
    <3>3. files' \in [Files -> SUBSET Nat] /\ files'[file] = files[file] \cup {t.edit}
      BY <1>3, <3>1 DEF VideoType
    <3>4. \A j \in Jobs, f \in Formats : <<j, f>> \in Files
      BY DEF Files
    <3>5. QED
      BY <3>2, <3>3, <3>4
  <2>2. CASE ~(t.at = "running" /\ t.job \in dirs)
    BY <1>1, <2>2 DEF VideoType
  <2>3. QED
    BY <2>1, <2>2
<1>10. VideoType'
  BY <1>1, <1>4, <1>7, <1>8, <1>9 DEF VideoType
<1>11. t.open => tool.job = t.job /\ tool.phase = "running" /\ tool.format = t.format /\ tool.edit = t.edit
  BY <1>1 DEF OneHeard, Heard
<1>12. OneHeard'
  <2>1. CASE t.open
    <3>1. \A g \in Handlers : ~Heard(g, "export")'
      BY <1>1, <1>4, <2>1 DEF OneHeard, Heard
    <3>2. \A g \in Handlers : ~Heard(g, "load")'
      BY <1>1, <1>4, <1>11, <2>1 DEF OneHeard, Heard
    <3>3. QED
      BY <3>1, <3>2 DEF OneHeard
  <2>2. CASE ~t.open
    BY <1>4, <1>8, <2>2 DEF OneHeard, Heard
  <2>3. QED
    BY <2>1, <2>2
<1>13. MadeStays'
  <2>1. ASSUME NEW id \in Jobs, job'[id].output # NoOutput
        PROVE  job'[id].source /\ (id \in dirs => files'[<<id, job'[id].output.format>>] # {})
    <3>1. CASE done /\ id = t.job
      <4>1. job[t.job].source /\ t.at = "running"
        BY <1>1, <3>1 DEF MadeStays, Encoding
      <4>2. job'[id].output.format = t.format /\ job'[id].source
        BY <1>6, <1>7, <3>1, <4>1
      <4>3. id \in dirs => files'[file] # {}
        BY <1>9, <3>1, <4>1
      <4>4. QED
        BY <3>1, <4>2, <4>3
    <3>2. CASE ~(done /\ id = t.job)
      <4>1. job'[id].output = job[id].output
        BY <1>7, <3>2
      <4>2. job[id].output.format \in Formats
        BY <2>1, <4>1 DEF VideoType, Outputs
      <4>3. id \in dirs => files[<<id, job[id].output.format>>] # {}
        BY <2>1, <4>1 DEF MadeStays
      <4>4. QED
        BY <1>7, <1>9, <2>1, <4>1, <4>2, <4>3 DEF MadeStays
    <3>3. QED
      BY <3>1, <3>2
  <2>2. \A g \in Handlers : Encoding(g)' => job'[task'[g].job].source
    BY <1>4, <1>7, TaskKinds DEF MadeStays, Encoding
  <2>3. tool'.job # NoJob => tool'.job \in Jobs /\ job'[tool'.job].source
    BY <1>7, <1>8 DEF MadeStays, VideoType
  <2>4. tool'.phase = "done" => tool'.job # NoJob /\ job'[tool'.job].output # NoOutput
    <3>1. CASE t.open
      BY <1>3, <1>6, <1>7, <1>8, <1>11, <3>1, JobsAssumption
    <3>2. CASE ~t.open
      BY <1>6, <1>7, <1>8, <3>2 DEF MadeStays, VideoType
    <3>3. QED
      BY <1>2, <3>1, <3>2
  <2>5. QED
    BY <1>1, <2>1, <2>2, <2>3, <2>4 DEF MadeStays
<1>14. calm => OneWriter'
  <2> SUFFICES ASSUME calm PROVE OneWriter'
    OBVIOUS
  <2>1. \A g \in Handlers : task'[g].op \in {"load", "export"} => task'[g] = task[g] /\ g # h
    BY <1>4
  <2>2. \A g \in Handlers : task'[g].op = "export" => task'[g].job # t.job
    BY <1>1, <2>1 DEF OneWriter
  <2>3. \A g \in Handlers : task'[g].op \in {"load", "export"} => task'[g].job \in Jobs
    BY <2>1, TaskKinds
  <2>4. \A g \in Handlers : task'[g].op = "load" =>
         /\ task'[g].open /\ ~job'[task'[g].job].source
         /\ \A k \in Handlers : task'[k].op = "export" => task'[k].job # task'[g].job
    BY <1>7, <2>1, <2>3 DEF OneWriter
  <2>5. /\ \A g \in Handlers : task'[g].op = "export" /\ ~task'[g].open => task'[g].job # tool'.job
        /\ \A g, k \in Handlers :
             task'[g].op = "export" /\ task'[k].op = "export" /\ task'[g].job = task'[k].job => g = k
    BY <1>8, <2>1 DEF OneWriter
  <2>6. ASSUME NEW g \in Handlers, Encoding(g)', task'[g].job \in dirs'
        PROVE  files'[<<task'[g].job, task'[g].format>>] = {task'[g].edit}
    <3>1. Encoding(g) /\ task'[g] = task[g] /\ task[g].job # t.job
      BY <2>1, <2>2, <2>6 DEF Encoding
    <3>2. task[g].job \in Jobs /\ task[g].format \in Formats
      BY <3>1, TaskKinds DEF Encoding
    <3>3. files[<<task[g].job, task[g].format>>] = {task[g].edit}
      BY <1>1, <2>6, <3>1 DEF OneWriter
    <3>4. QED
      BY <1>9, <3>1, <3>2, <3>3
  <2>7. ASSUME tool'.phase = "done", tool'.job \in dirs'
        PROVE  /\ job'[tool'.job].output = [format |-> tool'.format, edit |-> tool'.edit]
               /\ files'[<<tool'.job, tool'.format>>] = {tool'.edit}
    <3>1. CASE t.open
      <4>1. done /\ t.at = "running" /\ t.job \in dirs
        BY <1>1, <1>8, <1>11, <2>7, <3>1
      <4>2. files[file] = {t.edit}
        BY <1>1, <4>1 DEF OneWriter, Encoding
      <4>3. QED
        BY <1>6, <1>7, <1>8, <1>9, <1>11, <3>1, <4>1, <4>2
    <3>2. CASE ~t.open
      <4>1. tool' = tool /\ tool.job # t.job /\ tool.job \in dirs
        BY <1>1, <1>8, <2>7, <3>2 DEF OneWriter
      <4>2. job[tool.job].output = [format |-> tool.format, edit |-> tool.edit]
        BY <2>7, <4>1 DEF OneWriter
      <4>3. tool.job \in Jobs /\ job[tool.job].output \in [format : Formats, edit : Nat \ {0}]
        BY <2>7, <4>1 DEF MadeStays, VideoType, Outputs
      <4>4. tool.format \in Formats
        BY <4>2, <4>3
      <4>5. QED
        BY <1>7, <1>9, <2>7, <4>1, <4>2, <4>3, <4>4 DEF OneWriter
    <3>3. QED
      BY <1>2, <3>1, <3>2
  <2>8. QED
    BY <2>4, <2>5, <2>6, <2>7 DEF OneWriter
<1>15. calm => TrackHasJob'
  BY <1>4, <1>7, <1>8 DEF TrackHasJob, VideoType
<1>16. QED
  BY <1>10, <1>12, <1>13, <1>14, <1>15

LEMMA LoseKeeps ==
  ASSUME VideoInv, NEW h \in Handlers, Lose(h), ~calm, UNCHANGED calm
  PROVE  VideoInv'
<1> USE DEF VideoInv
<1> DEFINE lost == [task[h] EXCEPT !.open = FALSE]
<1>1. /\ task' = [task EXCEPT ![h] = lost] /\ task[h].op \in {"load", "export"}
      /\ tool' = IF task[h].op = "export" THEN [tool EXCEPT !.phase = "error"] ELSE tool
      /\ task[h].open /\ UNCHANGED <<jobs, dirs, job, files, edits>>
  BY DEF Lose, Goes
<1>2. /\ lost \in Tasks /\ lost.op = task[h].op /\ lost.job = task[h].job /\ ~lost.open
      /\ task[h].op = "export" => lost.at = task[h].at
  <2>1. CASE task[h].op = "load"
    BY <2>1, TaskKinds DEF Tasks
  <2>2. CASE task[h].op = "export"
    BY <2>2, TaskKinds DEF Tasks
  <2>3. QED
    BY <1>1, <2>1, <2>2
<1> HIDE DEF lost
<1>3. /\ task'[h] = lost /\ (\A g \in Handlers \ {h} : task'[g] = task[g])
      /\ task' \in [Handlers -> Tasks]
  BY <1>1, <1>2 DEF VideoType
<1>4. /\ tool'.job = tool.job /\ tool'.format = tool.format /\ tool'.edit = tool.edit
      /\ tool'.phase = tool.phase \/ (tool'.phase = "error" /\ task[h].op = "export")
      /\ tool' \in [job : Jobs \cup {NoJob}, track : BOOLEAN, phase : {"idle", "running", "done", "error"},
                   format : Formats \cup {"none"}, edit : Nat]
  BY <1>1 DEF VideoType
<1>5. VideoType'
  BY <1>1, <1>3, <1>4 DEF VideoType
<1>6. OneHeard'
  BY <1>1, <1>2, <1>3, <1>4 DEF OneHeard, Heard
<1>7. MadeStays'
  <2>1. \A g \in Handlers : Encoding(g)' => Encoding(g) /\ task'[g].job = task[g].job
    BY <1>2, <1>3 DEF Encoding
  <2>2. \A g \in Handlers : Encoding(g)' => job'[task'[g].job].source
    BY <1>1, <2>1 DEF MadeStays
  <2>3. QED
    BY <1>1, <1>4, <2>2 DEF MadeStays
<1>8. QED
  BY <1>5, <1>6, <1>7

LEMMA VideoStep ==
  ASSUME VideoInv, UNCHANGED calm, (VideoNext /\ (calm => CalmVideo)) \/ UNCHANGED videoVars
  PROVE  VideoInv'
<1>1. CASE UNCHANGED videoVars
  BY <1>1 DEF VideoInv, VideoType, OneHeard, Heard, MadeStays, Encoding, OneWriter, TrackHasJob, videoVars
<1>2. CASE Making /\ (calm => CalmVideo)
  BY <1>2, NewJobKeeps, LoadEndKeeps, TrackKeeps DEF Making
<1>3. CASE Exporting
  BY <1>3, ExportKeeps, EncodeKeeps, ExportEndKeeps DEF Exporting
<1>4. ASSUME NEW id \in Jobs, Expire(id) PROVE VideoInv'
  BY <1>4 DEF Expire, VideoInv, VideoType, OneHeard, Heard, MadeStays, Encoding, OneWriter, TrackHasJob
<1>5. ASSUME NEW id \in Jobs, RemoveAll(id) PROVE VideoInv'
  <2>1. task' \in [Handlers -> Tasks] /\ \A g \in Handlers : task'[g] = task[g]
    BY <1>5 DEF RemoveAll, VideoInv, VideoType
  <2>2. QED
    BY <1>5, <2>1, DirGoes DEF RemoveAll
<1>6. ASSUME NEW h \in Handlers, Lose(h), ~calm PROVE VideoInv'
  BY <1>6, LoseKeeps
<1>7. QED
  BY <1>1, <1>2, <1>3, <1>4, <1>5, <1>6 DEF VideoNext, Expiring, CalmVideo

LEMMA VideoMoves ==
  [MCNext]_<<first, second, service, calm>> =>
    /\ UNCHANGED <<service, calm>>
    /\ \/ service = "video" /\ VideoNext /\ (calm => CalmVideo)
       \/ UNCHANGED videoVars
BY DEF MCNext, first, second

(* For any jobs, formats and requests: what the page calls complete has     *)
(* been exported; and while no connection is lost it is that export, whole  *)
(* and written by nobody else, and a track that is shown is the job's.      *)
THEOREM ExportsAreWhole == MCSpec => []VideoSound
<1> DEFINE Inv == IF service = "video" THEN VideoInv ELSE tool = Blank
<1>1. MCInit => Inv
  <2> SUFFICES ASSUME MCInit, service = "video" PROVE VideoInv
    BY DEF MCInit, NoVideo
  <2>1. VideoInit
    BY DEF MCInit
  <2>2. VideoType
    BY <2>1 DEF VideoInit, VideoType, Blank, Empty, Outputs, Tasks
  <2>3. /\ \A h \in Handlers : task[h].op = "none"
        /\ tool.job = NoJob /\ tool.phase = "idle" /\ tool.track = FALSE
        /\ \A id \in Jobs : job[id].output = NoOutput
    BY <2>1 DEF VideoInit, Blank, Empty, NoTask
  <2>4. QED
    BY <2>2, <2>3 DEF VideoInv, OneHeard, Heard, MadeStays, Encoding, OneWriter, TrackHasJob
<1>2. Inv /\ [MCNext]_<<first, second, service, calm>> => Inv'
  <2> SUFFICES ASSUME Inv, [MCNext]_<<first, second, service, calm>> PROVE Inv'
    OBVIOUS
  <2>1. CASE service = "video"
    BY <2>1, VideoMoves, VideoStep
  <2>2. CASE service # "video"
    BY <2>2, VideoMoves DEF videoVars
  <2>3. QED
    BY <2>1, <2>2
<1>3. Inv => VideoSound
  <2>1. ASSUME tool = Blank PROVE VideoSound
    BY <2>1 DEF Blank, VideoSound, DoneHasFile, DoneDownloads, TrackShownIsThere
  <2>2. ASSUME VideoInv PROVE VideoSound
    <3> USE <2>2 DEF VideoInv
    <3>1. DoneHasFile
      BY DEF DoneHasFile, MadeStays, VideoType
    <3>2. ASSUME calm PROVE DoneDownloads
      <4> SUFFICES ASSUME tool.phase = "done", tool.job \in jobs \cap dirs
                   PROVE  /\ job[tool.job].output = [format |-> tool.format, edit |-> tool.edit]
                          /\ files[<<tool.job, job[tool.job].output.format>>] = {job[tool.job].output.edit}
                          /\ Writers(<<tool.job, job[tool.job].output.format>>) = {}
        BY DEF DoneDownloads
      <4>1. /\ job[tool.job].output = [format |-> tool.format, edit |-> tool.edit]
            /\ files[<<tool.job, tool.format>>] = {tool.edit}
        BY <3>2 DEF OneWriter
      <4>2. ASSUME NEW h \in Handlers, task[h].op = "export", task[h].job = tool.job PROVE FALSE
        <5>1. ~task[h].open
          BY <4>2 DEF OneHeard, Heard
        <5>2. QED
          BY <3>2, <4>2, <5>1 DEF OneWriter
      <4>3. QED
        BY <4>1, <4>2 DEF Writers
    <3>3. calm => TrackShownIsThere
      BY DEF TrackShownIsThere, TrackHasJob
    <3>4. QED
      BY <3>1, <3>2, <3>3 DEF VideoSound
  <2>3. QED
    BY <2>1, <2>2
<1>4. QED
  BY <1>1, <1>2, <1>3, PTL DEF MCSpec
-----------------------------------------------------------------------------
(* Scheduled actions.  Whoever has set the running mark is the only one     *)
(* that works, and clears it when it is over.                               *)
Busies == {c \in Callers : caller[c] # "idle"}

OneRuns ==
  /\ running \in BOOLEAN
  /\ caller \in [Callers -> {"idle", "run", "start"}]
  /\ process.at \in {"up", "done", "over"}
  /\ ~running => Busies = {} /\ process.at = "over"
  /\ \A c, d \in Busies : c = d
  /\ process.at # "over" => Busies = {}

(* If no run panics, the mark is cleared.                                   *)
MarkedRuns == running => Busies # {} \/ process.at # "over"

(* The terminal, while its requests for output are one at a time and for    *)
(* the run it was opened for.                                               *)
Shown ==
  /\ terminal.text \in Seq(Nat) /\ terminal.next \in Nat /\ terminal.run \in Nat
  /\ terminal.run <= process.run
  /\ terminal.run = process.run =>
       /\ terminal.next <= process.out
       /\ \A i \in DOMAIN terminal.text : terminal.text[i] <= terminal.next
       /\ TerminalTrue
Polled ==
  /\ \A p \in Polls : poll[p] # NoPoll => terminal.run = process.run /\ poll[p] = <<terminal.next>>
  /\ \A p, q \in Polls : poll[p] # NoPoll /\ poll[q] # NoPoll => p = q
ProcessOK ==
  /\ process \in [run : Nat, at : {"up", "done", "over"}, base : Nat, out : Nat]
  /\ process.base <= process.out
  /\ terminal = [run |-> terminal.run, next |-> terminal.next, text |-> terminal.text]
  /\ DOMAIN poll = Polls

ActionsInv ==
  /\ OneRuns /\ ProcessOK
  /\ calm => MarkedRuns /\ Shown /\ Polled

LEMMA AtMostOne ==
  ASSUME NEW S, \A c, d \in S : c = d
  PROVE  Cardinality(S) = IF S = {} THEN 0 ELSE 1
<1>1. CASE S = {}
  BY <1>1, FS_EmptySet
<1>2. CASE S # {}
  <2>1. PICK c \in S : S = {c}
    BY <1>2
  <2>2. QED
    BY <1>2, <2>1, FS_Singleton
<1>3. QED
  BY <1>1, <1>2

LEMMA OneRunsStep == OneRuns /\ ProcessOK /\ [ActionsNext]_actionsVars => OneRuns'
<1> SUFFICES ASSUME OneRuns, ProcessOK, [ActionsNext]_actionsVars PROVE OneRuns'
  OBVIOUS
<1> USE DEF OneRuns, Busies, ProcessOK
<1>1. ASSUME NEW c \in Callers, RunNow(c) PROVE OneRuns'
  BY <1>1 DEF RunNow
<1>2. ASSUME NEW c \in Callers, Return(c) PROVE OneRuns'
  <2>1. ~running'
    BY <1>2, Zenon DEF Return
  <2>2. caller' = [caller EXCEPT ![c] = "idle"] /\ process' = process /\ caller[c] # "idle"
    BY <1>2 DEF Return
  <2>3. process.at = "over" /\ Busies' = {}
    BY <2>2
  <2>4. caller' \in [Callers -> {"idle", "run", "start"}]
    BY <2>2
  <2>5. running' \in BOOLEAN
    BY <1>2, Zenon DEF Return
  <2>6. QED
    BY <2>2, <2>3, <2>4, <2>5
<1>3. ASSUME NEW c \in Callers, Started(c) PROVE OneRuns'
  BY <1>3 DEF Started
<1>4. ASSUME NEW c \in Callers, StartFails(c) PROVE OneRuns'
  <2>1. ~running'
    BY <1>4, Zenon DEF StartFails
  <2>2. caller' = [caller EXCEPT ![c] = "idle"] /\ process' = process /\ caller[c] # "idle"
    BY <1>4 DEF StartFails
  <2>3. process.at = "over" /\ Busies' = {}
    BY <2>2
  <2>4. caller' \in [Callers -> {"idle", "run", "start"}]
    BY <2>2
  <2>5. running' \in BOOLEAN
    BY <1>4, Zenon DEF StartFails
  <2>6. QED
    BY <2>2, <2>3, <2>4, <2>5
<1>5. ASSUME NEW c \in Callers, Panic(c) PROVE OneRuns'
  BY <1>5 DEF Panic
<1>6. ASSUME NEW on \in BOOLEAN, SetSchedule(on) PROVE OneRuns'
  BY <1>6 DEF SetSchedule
<1>7. ASSUME NEW t \in Tickers, Tick(t) \/ Quit(t) PROVE OneRuns'
  <2>1. t \in Callers
    BY DEF Callers
  <2>2. QED
    BY <1>1, <1>7, <2>1 DEF Tick, Quit
<1>8. CASE Emit
  BY <1>8 DEF Emit
<1>9. CASE Exit
  BY <1>9 DEF Exit
<1>10. CASE Record
  BY <1>10 DEF Record
<1>11. CASE Watching \/ UNCHANGED actionsVars
  BY <1>11 DEF Watching, Open, Ask, Answer, actionsVars
<1>12. \A c \in Admins : c \in Callers
  BY DEF Callers
<1>13. QED
  BY <1>1, <1>2, <1>3, <1>4, <1>5, <1>6, <1>7, <1>8, <1>9, <1>10, <1>11, <1>12
     DEF ActionsNext, Running, Scheduling, Commanding

(* The bytes of a run are numbered as they come.                            *)
LEMMA ProcessStep == OneRuns /\ ProcessOK /\ [ActionsNext]_actionsVars => ProcessOK'
<1> SUFFICES ASSUME OneRuns, ProcessOK, [ActionsNext]_actionsVars PROVE ProcessOK'
  OBVIOUS
<1> USE DEF ProcessOK
<1>1. CASE Running
  BY <1>1 DEF Running, Return, Started, StartFails, page
<1>2. CASE Scheduling \/ \E c \in Admins : RunNow(c) \/ Panic(c)
  BY <1>2 DEF Scheduling, SetSchedule, Tick, RunNow, Quit, Panic, page
<1>3. CASE Emit
  <2>1. Base \in Nat /\ Base <= process.out + 1 /\ process.out + 1 \in Nat
    BY ActionsAssumption DEF Base
  <2> DEFINE b == Base
  <2>2. process' = [process EXCEPT !.out = @ + 1, !.base = b] /\ UNCHANGED page
    BY <1>3 DEF Emit
  <2> HIDE DEF b
  <2>3. b \in Nat /\ b <= process.out + 1
    BY <2>1 DEF b
  <2>4. QED
    BY <2>1, <2>2, <2>3 DEF page
<1>4. CASE Exit \/ Record
  BY <1>4 DEF Exit, Record, page
<1>5. CASE Watching
  <2>1. process' = process
    BY <1>5 DEF Watching, Open, Ask, Answer
  <2>2. terminal' = [run |-> terminal'.run, next |-> terminal'.next, text |-> terminal'.text]
    BY <1>5 DEF Watching, Open, Ask, Answer, Opened
  <2>3. DOMAIN poll' = Polls
    BY <1>5 DEF Watching, Open, Ask, Answer
  <2>4. QED
    BY <2>1, <2>2, <2>3
<1>6. CASE UNCHANGED actionsVars
  BY <1>6 DEF actionsVars, page
<1>7. QED
  BY <1>1, <1>2, <1>3, <1>4, <1>5, <1>6 DEF ActionsNext, Commanding

LEMMA MarkedStep ==
  ASSUME OneRuns, ProcessOK, MarkedRuns, ActionsNext, \A c \in Admins : ~Panic(c)
  PROVE  MarkedRuns'
<1> USE DEF MarkedRuns, OneRuns, ProcessOK, Busies
<1>1. ASSUME NEW c \in Callers, RunNow(c) PROVE MarkedRuns'
  BY <1>1 DEF RunNow
<1>2. ASSUME NEW c \in Callers, Return(c) \/ StartFails(c) PROVE MarkedRuns'
  <2>1. ~running'
    BY <1>2, Zenon DEF Return, StartFails
  <2>2. QED
    BY <2>1
<1>3. ASSUME NEW c \in Callers, Started(c) PROVE MarkedRuns'
  BY <1>3 DEF Started
<1>4. ASSUME NEW t \in Tickers, Tick(t) \/ Quit(t) PROVE MarkedRuns'
  BY <1>1, <1>4 DEF Tick, Quit, Callers
<1>5. CASE Emit \/ Exit \/ (\E on \in BOOLEAN : SetSchedule(on)) \/ Watching
  BY <1>5 DEF Emit, Exit, SetSchedule, Watching, Open, Ask, Answer
<1>6. CASE Record
  <2>1. ~running'
    BY <1>6, Zenon DEF Record
  <2>2. QED
    BY <2>1
<1>7. QED
  BY <1>1, <1>2, <1>3, <1>4, <1>5, <1>6 DEF ActionsNext, Running, Scheduling, Commanding, Callers

(* What an answer adds: the bytes after those shown, as far as they are     *)
(* kept.                                                                    *)
LEMMA TextAsked ==
  ASSUME ProcessOK, NEW from \in 0..process.out
  PROVE  LET kept == IF from < process.base THEN process.base ELSE from IN
         /\ Text(from) = [i \in 1..process.out - kept |-> kept + i]
         /\ kept \in Nat /\ kept <= process.out
<1>1. process.base \in Nat /\ process.out \in Nat /\ process.base <= process.out
  BY DEF ProcessOK
<1>2. Length = process.out - process.base
  BY DEF Length
<1>3. Start(from) = IF from < process.base THEN 0 ELSE from - process.base
  BY <1>1, <1>2 DEF Start
<1>4. CASE from < process.base
  BY <1>1, <1>2, <1>3, <1>4 DEF Text
<1>5. CASE ~(from < process.base)
  BY <1>1, <1>2, <1>3, <1>5 DEF Text
<1>6. QED
  BY <1>1, <1>4, <1>5

(* Bytes up to out, appended to some up to no more than kept.               *)
LEMMA BytesFollow ==
  ASSUME NEW s \in Seq(Nat), NEW kept \in Nat, NEW out \in Nat, kept <= out,
         \A i \in DOMAIN s : s[i] <= kept,
         \A i, j \in DOMAIN s : i < j => s[i] < s[j],
         NEW more, more = [i \in 1..out - kept |-> kept + i]
  PROVE  /\ s \o more \in Seq(Nat)
         /\ \A i \in DOMAIN (s \o more) : (s \o more)[i] <= out
         /\ \A i, j \in DOMAIN (s \o more) : i < j => (s \o more)[i] < (s \o more)[j]
         /\ \A b \in Range(s) : b \in Range(s \o more)
         /\ \A b \in kept + 1..out : b \in Range(s \o more)
<1> DEFINE n == Len(s)
           m == out - kept
           t == s \o more
<1>1. m \in Nat /\ n \in Nat /\ DOMAIN s = 1..n
  OBVIOUS
<1>2. more \in Seq(Nat) /\ Len(more) = m
  BY <1>1
<1>3. t \in Seq(Nat) /\ Len(t) = n + m
  BY <1>1, <1>2
<1>4. \A i \in 1..n : t[i] = s[i]
  BY <1>2
<1>5. \A i \in n + 1..n + m : t[i] = kept + (i - n)
  <2> TAKE i \in n + 1..n + m
  <2>1. i - n \in 1..m /\ i \in Nat
    BY <1>1
  <2>2. t[i] = more[i - n]
    BY <1>1, <1>2, <2>1
  <2>3. QED
    BY <2>1, <2>2
<1> HIDE DEF t, n, m
<1>6. DOMAIN t = 1..n + m /\ n + m \in Nat
  BY <1>1, <1>3
<1>7. \A i \in DOMAIN t : i \in 1..n \/ i \in n + 1..n + m
  BY <1>1, <1>6
<1>8. \A i \in 1..n : s[i] \in Nat /\ s[i] <= kept
  <2> TAKE i \in 1..n
  <2>1. i \in DOMAIN s
    BY <1>1
  <2>2. QED
    BY <2>1
<1>9. \A i \in DOMAIN t : t[i] <= out
  BY <1>1, <1>4, <1>5, <1>7, <1>8 DEF m
<1>10. ASSUME NEW i \in DOMAIN t, NEW j \in DOMAIN t, i < j PROVE t[i] < t[j]
  <2>1. CASE j \in 1..n
    <3>1. i \in 1..n /\ i \in DOMAIN s /\ j \in DOMAIN s
      BY <1>1, <1>6, <1>10, <2>1
    <3>2. QED
      BY <1>4, <1>10, <2>1, <3>1
  <2>2. CASE i \in 1..n /\ j \in n + 1..n + m
    BY <1>1, <1>4, <1>5, <1>8, <2>2
  <2>3. CASE i \in n + 1..n + m /\ j \in n + 1..n + m
    BY <1>1, <1>5, <1>10, <2>3
  <2>4. QED
    BY <1>1, <1>6, <1>7, <1>10, <2>1, <2>2, <2>3
<1>11. \A b \in Range(s) : b \in Range(t)
  BY <1>1, <1>4, <1>6 DEF Range
<1>12. ASSUME NEW b \in kept + 1..out PROVE b \in Range(t)
  <2>1. n + (b - kept) \in n + 1..n + m
    BY <1>1 DEF m
  <2>2. t[n + (b - kept)] = b
    BY <1>1, <1>5, <2>1
  <2>3. QED
    BY <1>1, <1>6, <2>1, <2>2 DEF Range
<1>13. QED
  BY <1>3, <1>9, <1>10, <1>11, <1>12 DEF t

LEMMA AnswerShows ==
  ASSUME ProcessOK, Shown, Polled, NEW p \in Polls, Answer(p)
  PROVE  Shown' /\ Polled'
<1> DEFINE kept == IF terminal.next < process.base THEN process.base ELSE terminal.next
           more == Text(terminal.next)
           text == terminal.text \o more
<1>1. /\ poll[p] = <<terminal.next>> /\ terminal.run = process.run
      /\ poll' = [poll EXCEPT ![p] = NoPoll] /\ process' = process
      /\ terminal' = [terminal EXCEPT !.text = @ \o Text(poll[p][1]), !.next = process.out]
  BY DEF Answer, Polled
<1>2. terminal' = [run |-> terminal.run, next |-> process.out, text |-> text]
  <2>1. terminal' = [terminal EXCEPT !.text = @ \o more, !.next = process.out]
    BY <1>1
  <2> HIDE DEF more
  <2>2. QED
    BY <2>1 DEF ProcessOK
<1>3. /\ terminal.next \in 0..process.out /\ process.out \in Nat /\ process.base \in Nat
      /\ process.base <= process.out
  BY <1>1 DEF Shown, ProcessOK
<1>4. more = [i \in 1..process.out - kept |-> kept + i] /\ kept \in Nat /\ kept <= process.out
      /\ terminal.next <= kept /\ (kept = terminal.next \/ kept = process.base)
  BY <1>3, TextAsked
<1> HIDE DEF kept
<1>5. /\ terminal.text \in Seq(Nat) /\ \A i \in DOMAIN terminal.text : terminal.text[i] \in Nat
      /\ \A i \in DOMAIN terminal.text : terminal.text[i] <= terminal.next
      /\ \A i, j \in DOMAIN terminal.text : i < j => terminal.text[i] < terminal.text[j]
      /\ \A b \in 1..terminal.next : b \in Range(terminal.text) \/ b <= process.base
  BY <1>1 DEF Shown, TerminalTrue
<1>6. \A i \in DOMAIN terminal.text : terminal.text[i] <= kept
  BY <1>3, <1>4, <1>5
<1>7. /\ text \in Seq(Nat)
      /\ \A i \in DOMAIN text : text[i] <= process.out
      /\ \A i, j \in DOMAIN text : i < j => text[i] < text[j]
      /\ \A b \in Range(terminal.text) : b \in Range(text)
      /\ \A b \in kept + 1..process.out : b \in Range(text)
  <2> HIDE DEF more
  <2>1. QED
    BY <1>3, <1>4, <1>5, <1>6, BytesFollow
<1> HIDE DEF more, text
<1>8. ASSUME NEW b \in 1..process.out PROVE b \in Range(text) \/ b <= process.base
  <2>1. CASE b <= terminal.next
    BY <1>3, <1>5, <1>7, <2>1
  <2>2. CASE b > kept
    BY <1>3, <1>4, <1>7, <2>2
  <2>3. QED
    BY <1>3, <1>4, <2>1, <2>2
<1>9. terminal'.text = text /\ terminal'.next = process.out /\ terminal'.run = terminal.run
  BY <1>2
<1>10. Shown'
  <2>1. terminal'.run \in Nat /\ terminal'.run <= process'.run
    BY <1>1, <1>9 DEF Shown
  <2>2. terminal'.next \in Nat /\ terminal'.next <= process'.out
    BY <1>1, <1>3, <1>9
  <2>3. /\ terminal'.text \in Seq(Nat)
        /\ \A i \in DOMAIN terminal'.text : terminal'.text[i] <= terminal'.next
    BY <1>7, <1>9
  <2>4. TerminalTrue'
    BY <1>1, <1>7, <1>8, <1>9 DEF TerminalTrue
  <2>5. QED
    BY <2>1, <2>2, <2>3, <2>4 DEF Shown
<1>11. Polled'
  BY <1>1 DEF Polled, ProcessOK
<1>12. QED
  BY <1>10, <1>11

LEMMA ShownStep ==
  ASSUME OneRuns, ProcessOK, Shown, Polled, ActionsNext, CalmActions
  PROVE  Shown' /\ Polled'
<1>1. CASE UNCHANGED <<process, terminal, poll>>
  BY <1>1 DEF Shown, Polled, TerminalTrue
<1>2. ASSUME NEW c \in Callers, Started(c) PROVE Shown' /\ Polled'
  <2>1. /\ process' = [run |-> process.run + 1, at |-> "up", base |-> 0, out |-> 0]
        /\ UNCHANGED <<terminal, poll>>
    BY <1>2 DEF Started, page
  <2>2. process'.run = process.run + 1 /\ process.run \in Nat
    BY <2>1 DEF ProcessOK
  <2>3. terminal'.run < process'.run
    BY <2>1, <2>2 DEF Shown
  <2>4. Shown'
    BY <2>1, <2>2, <2>3 DEF Shown, TerminalTrue
  <2>5. \A p \in Polls : poll'[p] = NoPoll
    BY <2>2, <2>3 DEF CalmActions, Shown
  <2>6. QED
    BY <2>4, <2>5 DEF Polled
<1>3. CASE Emit \/ Exit \/ Record
  <2>1. /\ process'.run = process.run /\ process'.out >= process.out /\ process'.base >= process.base
        /\ process'.out \in Nat /\ process'.base \in Nat /\ UNCHANGED <<terminal, poll>>
    <3>1. CASE Emit
      <4>1. Base \in Nat /\ Base >= process.base
        BY ActionsAssumption DEF Base, ProcessOK
      <4> DEFINE b == Base
      <4>2. process' = [process EXCEPT !.out = @ + 1, !.base = b] /\ UNCHANGED page
        BY <3>1 DEF Emit
      <4> HIDE DEF b
      <4>3. b \in Nat /\ b >= process.base
        BY <4>1 DEF b
      <4>4. QED
        BY <4>2, <4>3 DEF page, ProcessOK
    <3>2. CASE Exit \/ Record
      BY <3>2 DEF Exit, Record, page, ProcessOK
    <3>3. QED
      BY <1>3, <3>1, <3>2
  <2>2. process.out \in Nat /\ process.base \in Nat
    BY DEF ProcessOK
  <2>3. Polled'
    BY <2>1 DEF Polled
  <2>4. TerminalTrue'
    <3> SUFFICES ASSUME terminal.run = process.run PROVE TerminalTrue'
      BY <2>1 DEF TerminalTrue
    <3>1. TerminalTrue /\ terminal.next \in Nat
      BY DEF Shown
    <3>2. \A n \in 1..terminal.next : n \in Range(terminal.text) \/ n <= process'.base
      BY <2>1, <2>2, <3>1 DEF TerminalTrue
    <3>3. QED
      BY <2>1, <3>1, <3>2 DEF TerminalTrue
  <2>5. Shown'
    BY <2>1, <2>2, <2>4 DEF Shown
  <2>6. QED
    BY <2>3, <2>5
<1>4. CASE Open
  <2>1. /\ terminal' = [run |-> process.run, next |-> 0, text |-> <<>>] /\ process' = process
        /\ \A p \in Polls : poll'[p] = NoPoll
    BY <1>4 DEF Open, Opened
  <2>2. terminal'.run = process.run /\ terminal'.next = 0 /\ terminal'.text = <<>> /\ process.run \in Nat
    BY <2>1 DEF ProcessOK
  <2>3. Shown'
    BY <2>1, <2>2 DEF Shown, TerminalTrue, ProcessOK
  <2>4. QED
    BY <2>1, <2>3 DEF Polled
<1>5. ASSUME NEW p \in Polls, Ask(p) PROVE Shown' /\ Polled'
  <2>1. poll' = [poll EXCEPT ![p] = <<terminal.next>>] /\ UNCHANGED <<process, terminal>>
    BY <1>5 DEF Ask
  <2>2. poll'[p] = <<terminal.next>> /\ poll'[p] # NoPoll
    BY <2>1 DEF ProcessOK, NoPoll
  <2>3. terminal.run = process.run /\ \A q \in Polls \ {p} : poll'[q] = NoPoll
    BY <2>1, <2>2 DEF CalmActions
  <2>4. QED
    BY <2>1, <2>2, <2>3 DEF Shown, TerminalTrue, Polled
<1>6. ASSUME NEW p \in Polls, Answer(p) PROVE Shown' /\ Polled'
  BY <1>6, AnswerShows
<1>7. QED
  BY <1>1, <1>2, <1>3, <1>4, <1>5, <1>6
     DEF ActionsNext, Running, Scheduling, Commanding, Watching, Return, StartFails, SetSchedule, Tick,
         Quit, RunNow, Panic, page

LEMMA ActionsMove ==
  [MCNext]_<<first, second, service, calm>> =>
    /\ UNCHANGED <<service, calm>>
    /\ \/ service = "actions" /\ ActionsNext /\ (calm => CalmActions)
       \/ UNCHANGED actionsVars
BY DEF MCNext, first, second

(* For any callers, schedules and output: one run at a time; and if none    *)
(* panics, the mark is true and the terminal shows the bytes of its run in  *)
(* order and once, but for those that were dropped.                         *)
THEOREM ActionsRunApart == MCSpec => []ActionsSound
<1> DEFINE Inv == AtActions => ActionsInv
<1>1. MCInit => Inv
  <2> SUFFICES ASSUME MCInit, service = "actions" PROVE ActionsInv
    BY DEF AtActions
  <2>1. ActionsInit
    BY DEF MCInit
  <2>2. /\ running = FALSE /\ Busies = {} /\ process = NoProcess /\ terminal = [run |-> 0, next |-> 0, text |-> <<>>]
        /\ \A p \in Polls : poll[p] = NoPoll
    BY <2>1 DEF ActionsInit, Busies, Opened
  <2>3. /\ process \in [run : Nat, at : {"up", "done", "over"}, base : Nat, out : Nat]
        /\ process.at = "over" /\ process.base = 0 /\ process.out = 0 /\ process.run = 0
        /\ terminal.run = 0 /\ terminal.next = 0 /\ terminal.text = <<>>
    BY <2>2 DEF NoProcess
  <2>4. OneRuns /\ MarkedRuns
    BY <2>1, <2>2, <2>3 DEF ActionsInit, OneRuns, MarkedRuns
  <2>5. ProcessOK
    BY <2>1, <2>2, <2>3 DEF ActionsInit, ProcessOK
  <2>6. Shown /\ Polled
    BY <2>2, <2>3 DEF Shown, Polled, TerminalTrue
  <2>7. QED
    BY <2>4, <2>5, <2>6 DEF ActionsInv
<1>2. Inv /\ [MCNext]_<<first, second, service, calm>> => Inv'
  <2> SUFFICES ASSUME Inv, [MCNext]_<<first, second, service, calm>> PROVE Inv'
    OBVIOUS
  <2>1. CASE UNCHANGED actionsVars
    BY <2>1, ActionsMove DEF actionsVars, schedule, page, AtActions, ActionsInv, OneRuns, Busies, ProcessOK, MarkedRuns, Shown,
       Polled, TerminalTrue
  <2>2. CASE service = "actions" /\ ActionsNext /\ (calm => CalmActions)
    <3>1. ActionsInv
      BY <2>2 DEF AtActions
    <3>2. OneRuns' /\ ProcessOK'
      BY <2>2, <3>1, OneRunsStep, ProcessStep DEF ActionsInv
    <3>3. calm => MarkedRuns' /\ Shown' /\ Polled'
      BY <2>2, <3>1, MarkedStep, ShownStep DEF ActionsInv, CalmActions
    <3>4. QED
      BY <3>2, <3>3, ActionsMove DEF ActionsInv
  <2>3. QED
    BY <2>1, <2>2, ActionsMove
<1>3. Inv => ActionsSound
  <2> SUFFICES ASSUME ActionsInv PROVE RunsApart /\ (calm => MarkIsTrue /\ TerminalTrue)
    BY DEF ActionsSound
  <2> USE DEF ActionsInv
  <2>1. UnderWay = IF Busies = {} THEN IF process.at # "over" THEN 1 ELSE 0
                   ELSE 1
    <3>1. Cardinality(Busies) = IF Busies = {} THEN 0 ELSE 1
      BY AtMostOne DEF OneRuns
    <3>2. UnderWay = Cardinality(Busies) + (IF process.at # "over" THEN 1 ELSE 0)
      BY DEF UnderWay, Busies
    <3>3. QED
      BY <3>1, <3>2 DEF OneRuns
  <2>2. RunsApart
    BY <2>1 DEF RunsApart
  <2>3. calm => MarkIsTrue
    BY <2>1 DEF MarkIsTrue, MarkedRuns, OneRuns
  <2>4. calm => TerminalTrue
    BY DEF Shown, TerminalTrue
  <2>5. QED
    BY <2>2, <2>3, <2>4
<1>4. QED
  BY <1>1, <1>2, <1>3, PTL DEF MCSpec

-----------------------------------------------------------------------------
(* Events.  Types first, and whom a row is shown to.                        *)
FormRec ==
  [at : {"form", "filled", "google", "write"}, new : BOOLEAN, sets : BOOLEAN, who : People,
   id : EventIds, copy : CopyIds \cup {NoCopy},
   data : [scope : Scopes, starts : Nat, repeat : Nat, sync : BOOLEAN]]
RowRec ==
  [by : People, users : SUBSET People, groups : SUBSET Groups, notified : BOOLEAN, scope : Scopes,
   starts : Nat, repeat : Nat, sync : BOOLEAN, copy : CopyIds \cup {NoCopy}]
CopyRec == [owner : People, of : EventIds, starts : Nat]
ShownTo(row) ==
  /\ row.scope.kind = "user" => row.scope.target \in row.users
  /\ row.scope.kind = "group" => row.scope.target \in row.groups
EventsTyped ==
  /\ DOMAIN events \subseteq EventIds
  /\ \A id \in DOMAIN events : events[id] \in RowRec /\ ShownTo(events[id])
  /\ DOMAIN copies \subseteq CopyIds /\ \A c \in DOMAIN copies : copies[c] \in CopyRec
  /\ editor \in [Editors -> {Filling} \cup FormRec]
  /\ clock \in Nat

(* In calm behaviours: what the calendars have of an event and of the form  *)
(* that is about to be written, and what has fired.                         *)
Of(K, id) == {c \in DOMAIN K : K[c].of = id}
Follows(row, k) ==
  /\ k.owner = row.by /\ k.starts <= row.starts
  /\ row.starts # k.starts => row.repeat # 0 /\ (row.starts - k.starts) % row.repeat = 0
Mirrored(row, id, K, N) ==
  /\ IF row.by \in N /\ row.sync THEN row.copy \in DOMAIN K /\ Of(K, id) = {row.copy}
     ELSE row.copy = NoCopy /\ Of(K, id) = {}
  /\ \A c \in Of(K, id) : Follows(row, K[c])
PushedAs(f, K, N) ==
  IF f.who \in N /\ f.data.sync
  THEN f.copy \in DOMAIN K /\ Of(K, f.id) = {f.copy} /\ K[f.copy] = CopyOf(f)
  ELSE f.copy = NoCopy /\ Of(K, f.id) = {}
FormFits(f, E, K, N) ==
  /\ f.new => f.id \notin DOMAIN E /\ f.sets
  /\ ~f.new => f.id \in DOMAIN E /\ E[f.id].by = f.who /\ (f.sets \/ f.data.starts = E[f.id].starts)
  /\ f.at = "google" => f.copy = IF f.new THEN NoCopy ELSE E[f.id].copy
  /\ f.at = "write" => PushedAs(f, K, N)
OneEdits(D) == \A e, g \in Editors : D[e] # Filling /\ D[g] # Filling => e = g
FormsFit(E, K, D, N) == \A e \in Editors : D[e] # Filling => FormFits(D[e], E, K, N)
AllMirrored(E, K, D, N) ==
  \A id \in EventIds :
    (\A e \in Editors : D[e].at = "write" => D[e].id # id) =>
      IF id \in DOMAIN E THEN Mirrored(E[id], id, K, N) ELSE Of(K, id) = {}
FiredBefore(E, X) ==
  \A o \in X : o[1] \in DOMAIN E /\ o[2] \in Nat /\ (o[2] < E[o[1]].starts \/ E[o[1]].notified)
CalmEventsOK ==
  /\ OneEdits(editor) /\ FormsFit(events, copies, editor, connected)
  /\ AllMirrored(events, copies, editor, connected) /\ FiredBefore(events, fired)
EventsInv == EventsTyped /\ (calm => CalmEventsOK)
EventsIInv == IF service = "events" THEN EventsInv ELSE events = <<>>

LEMMA WithIs ==
  ASSUME NEW f, NEW x, NEW y, NEW g, g = With(f, x, y)
  PROVE  /\ DOMAIN g = DOMAIN f \cup {x} /\ g[x] = y
         /\ \A z \in DOMAIN f : z # x => g[z] = f[z]
  BY DEF With

LEMMA ScopeKinds ==
  ASSUME NEW scope \in Scopes
  PROVE  /\ scope.kind = "group" => scope \in [kind : {"group"}, target : Groups]
         /\ scope.kind = "user" => scope \in [kind : {"user"}, target : People]
         /\ scope.kind \in {"self", "global", "group", "user"}
  BY DEF Scopes, Self

LEMMA EnforcedScope ==
  ASSUME EventsAssumption, NEW who \in People, NEW scope \in Scopes
  PROVE  Enforced(who, scope) \in Scopes
<1>1. Self \in Scopes
  BY DEF Scopes
<1>2. ASSUME scope.kind = "group" PROVE [scope EXCEPT !.target = GroupOf[who]] \in Scopes
  <2>1. GroupOf[who] \in Groups
    BY DEF Groups
  <2>2. [scope EXCEPT !.target = GroupOf[who]] \in [kind : {"group"}, target : Groups]
    BY <1>2, <2>1, ScopeKinds
  <2> QED BY <2>2 DEF Scopes
<1> QED BY <1>1, <1>2 DEF Enforced

LEMMA FormKinds ==
  /\ Filling.at = "idle"
  /\ \A f \in FormRec : f # Filling /\ f.at \in {"form", "filled", "google", "write"}
<1>1. Filling.at = "idle"
  BY DEF Filling
<1>2. \A f \in FormRec : f.at \in {"form", "filled", "google", "write"}
  BY DEF FormRec
<1> QED BY <1>1, <1>2

LEMMA EditorForm ==
  ASSUME EventsTyped, NEW e \in Editors, editor[e].at # "idle"
  PROVE  editor[e] \in FormRec
<1>1. editor[e] \in {Filling} \cup FormRec
  BY DEF EventsTyped
<1> QED BY <1>1, FormKinds

LEMMA FormFields ==
  ASSUME NEW f \in FormRec
  PROVE  /\ f.at \in {"form", "filled", "google", "write"} /\ f.new \in BOOLEAN /\ f.sets \in BOOLEAN
         /\ f.who \in People /\ f.id \in EventIds /\ f.copy \in CopyIds \cup {NoCopy}
         /\ f.data \in [scope : Scopes, starts : Nat, repeat : Nat, sync : BOOLEAN]
         /\ f.data.scope \in Scopes /\ f.data.starts \in Nat /\ f.data.repeat \in Nat /\ f.data.sync \in BOOLEAN
  BY DEF FormRec

LEMMA RowFields ==
  ASSUME NEW row \in RowRec
  PROVE  /\ row.by \in People /\ row.users \in SUBSET People /\ row.groups \in SUBSET Groups
         /\ row.notified \in BOOLEAN /\ row.scope \in Scopes /\ row.starts \in Nat /\ row.repeat \in Nat
         /\ row.sync \in BOOLEAN /\ row.copy \in CopyIds \cup {NoCopy}
  BY DEF RowRec

(* The hook's lists show a row to those its scope names.                    *)
SameBut(new, row) ==
  /\ new.by = row.by /\ new.notified = row.notified /\ new.scope = row.scope /\ new.starts = row.starts
  /\ new.repeat = row.repeat /\ new.sync = row.sync /\ new.copy = row.copy
LEMMA DerivedRow ==
  ASSUME NEW row \in RowRec, NEW scope \in Scopes, row.scope = scope, NEW new, new = Derived(row, scope)
  PROVE  new \in RowRec /\ ShownTo(new) /\ SameBut(new, row)
<1>1. CASE scope.kind = "group"
  <2>1. scope.target \in Groups
    BY <1>1, ScopeKinds
  <2>2. new = [row EXCEPT !.groups = {scope.target}]
    BY <1>1 DEF Derived
  <2> QED BY <1>1, <2>1, <2>2 DEF RowRec, ShownTo, SameBut
<1>2. CASE scope.kind = "user"
  <2>1. scope.target \in People
    BY <1>2, ScopeKinds
  <2>2. new = [row EXCEPT !.users = {scope.target}]
    BY <1>2 DEF Derived
  <2> QED BY <1>2, <2>1, <2>2 DEF RowRec, ShownTo, SameBut
<1>3. CASE scope.kind \notin {"group", "user"}
  <2>1. new = row
    BY <1>3 DEF Derived
  <2> QED BY <1>3, <2>1 DEF ShownTo, SameBut
<1> QED BY <1>1, <1>2, <1>3

(* What is written.                                                         *)
WrittenAs(row, f) ==
  /\ row.scope = f.data.scope /\ row.starts = f.data.starts /\ row.repeat = f.data.repeat
  /\ row.sync = f.data.sync /\ row.copy = f.copy
  /\ IF f.new THEN row.by = f.who ELSE row.by = events[f.id].by /\ row.notified = events[f.id].notified
LEMMA RowIsWritten ==
  ASSUME EventsTyped, NEW f \in FormRec, f.new \/ ~IsGone(f.id), NEW row, row = RowOf(f)
  PROVE  row \in RowRec /\ ShownTo(row) /\ WrittenAs(row, f)
<1> DEFINE old == IF f.new THEN NewRow(f) ELSE events[f.id]
           raw == [by |-> old.by, users |-> old.users, groups |-> old.groups, notified |-> old.notified,
                   scope |-> f.data.scope, starts |-> f.data.starts, repeat |-> f.data.repeat,
                   sync |-> f.data.sync, copy |-> f.copy]
<1>1. /\ old.by \in People /\ old.users \in SUBSET People /\ old.groups \in SUBSET Groups
      /\ old.notified \in BOOLEAN
  <2>1. CASE f.new
    BY <2>1, FormFields DEF NewRow
  <2>2. CASE ~f.new
    <3>1. events[f.id] \in RowRec
      BY <2>2 DEF EventsTyped, IsGone
    <3> QED BY <2>2, <3>1, RowFields
  <2> QED BY <2>1, <2>2
<1>2. IF f.new THEN old.by = f.who ELSE old.by = events[f.id].by /\ old.notified = events[f.id].notified
  BY DEF NewRow
<1>3. row = Derived(raw, f.data.scope)
  BY DEF RowOf
<1> HIDE DEF old
<1>4. raw \in RowRec /\ raw.scope = f.data.scope
  BY <1>1, FormFields DEF RowRec
<1>5. /\ raw.scope = f.data.scope /\ raw.starts = f.data.starts /\ raw.repeat = f.data.repeat
      /\ raw.sync = f.data.sync /\ raw.copy = f.copy /\ raw.by = old.by /\ raw.notified = old.notified
  OBVIOUS
<1> HIDE DEF raw
<1>6. row \in RowRec /\ ShownTo(row) /\ SameBut(row, raw)
  BY <1>3, <1>4, FormFields, DerivedRow
<1> QED BY <1>2, <1>5, <1>6 DEF SameBut, WrittenAs

(* What is pushed.                                                          *)
Creates(f, to) ==
  f.data.sync /\ f.copy = NoCopy /\ to.copy \in CopyIds \ DOMAIN copies /\ to.all = With(copies, to.copy, CopyOf(f))
Updates(f, to) ==
  f.data.sync /\ f.copy # NoCopy /\ Own(f) /\ to.copy = f.copy /\ to.all = With(copies, f.copy, CopyOf(f))
Leaves(f, to) ==
  f.data.sync /\ f.copy # NoCopy /\ ~Own(f) /\ to.copy = f.copy /\ to.all = copies
Withdraws(f, to) ==
  /\ ~f.data.sync /\ to.copy = NoCopy
  /\ DOMAIN to.all = DOMAIN copies \ (IF Own(f) THEN {f.copy} ELSE {})
  /\ \A c \in DOMAIN to.all : to.all[c] = copies[c]
LEMMA WhatIsPushed ==
  ASSUME NEW f \in FormRec, NEW to \in IF f.data.sync THEN Pushed(f) ELSE {Withdrawn(f)}
  PROVE  Creates(f, to) \/ Updates(f, to) \/ Leaves(f, to) \/ Withdraws(f, to)
<1>1. CASE ~f.data.sync
  <2>1. to = Withdrawn(f)
    BY <1>1
  <2> QED BY <1>1, <2>1 DEF Withdrawn, Withdraws
<1>2. CASE f.data.sync /\ f.copy = NoCopy
  <2>1. to \in Pushed(f)
    BY <1>2
  <2>2. \E c \in CopyIds \ DOMAIN copies : to = [all |-> With(copies, c, CopyOf(f)), copy |-> c]
    BY <1>2, <2>1 DEF Pushed
  <2> QED BY <1>2, <2>2 DEF Creates
<1>3. CASE f.data.sync /\ f.copy # NoCopy /\ Own(f)
  <2>1. to \in Pushed(f)
    BY <1>3
  <2>2. to = [all |-> With(copies, f.copy, CopyOf(f)), copy |-> f.copy]
    BY <1>3, <2>1 DEF Pushed
  <2> QED BY <1>3, <2>2 DEF Updates
<1>4. CASE f.data.sync /\ f.copy # NoCopy /\ ~Own(f)
  <2>1. to \in Pushed(f)
    BY <1>4
  <2>2. to = [all |-> copies, copy |-> f.copy]
    BY <1>4, <2>1 DEF Pushed
  <2> QED BY <1>4, <2>2 DEF Leaves
<1> QED BY <1>1, <1>2, <1>3, <1>4, FormFields

LEMMA PushedTyped ==
  ASSUME EventsTyped, NEW f \in FormRec, NEW to,
         Creates(f, to) \/ Updates(f, to) \/ Leaves(f, to) \/ Withdraws(f, to)
  PROVE  /\ to.copy \in CopyIds \cup {NoCopy}
         /\ DOMAIN to.all \subseteq CopyIds /\ \A c \in DOMAIN to.all : to.all[c] \in CopyRec
<1>1. DOMAIN copies \subseteq CopyIds /\ \A c \in DOMAIN copies : copies[c] \in CopyRec
  BY DEF EventsTyped
<1>2. CopyOf(f) \in CopyRec
  BY FormFields DEF CopyOf, CopyRec
<1>3. CASE Creates(f, to)
  <2>1. PICK K : K = to.all
    OBVIOUS
  <2>2. K = With(copies, to.copy, CopyOf(f)) /\ to.copy \in CopyIds
    BY <1>3, <2>1 DEF Creates
  <2>3. /\ DOMAIN K = DOMAIN copies \cup {to.copy} /\ K[to.copy] = CopyOf(f)
        /\ \A c \in DOMAIN copies : c # to.copy => K[c] = copies[c]
    BY <2>2 DEF With
  <2> QED BY <1>1, <1>2, <2>1, <2>2, <2>3
<1>4. CASE Updates(f, to)
  <2>1. PICK K : K = to.all
    OBVIOUS
  <2>2. K = With(copies, f.copy, CopyOf(f)) /\ to.copy = f.copy /\ f.copy \in DOMAIN copies
    BY <1>4, <2>1 DEF Updates, Own
  <2>3. /\ DOMAIN K = DOMAIN copies \cup {f.copy} /\ K[f.copy] = CopyOf(f)
        /\ \A c \in DOMAIN copies : c # f.copy => K[c] = copies[c]
    BY <2>2 DEF With
  <2> QED BY <1>1, <1>2, <2>1, <2>2, <2>3
<1>5. CASE Leaves(f, to)
  BY <1>1, <1>5, FormFields DEF Leaves
<1>6. CASE Withdraws(f, to)
  BY <1>1, <1>6 DEF Withdraws
<1> QED BY <1>3, <1>4, <1>5, <1>6

(* Types.                                                                   *)
LEMMA EditorMoves ==
  ASSUME EventsTyped, NEW e \in Editors, NEW state \in {Filling} \cup FormRec, At(e, state)
  PROVE  /\ editor' \in [Editors -> {Filling} \cup FormRec] /\ editor'[e] = state
         /\ \A g \in Editors : g # e => editor'[g] = editor[g]
  BY DEF EventsTyped, At

LEMMA SameRowsTyped ==
  ASSUME EventsTyped, UNCHANGED <<events, copies, clock>>, editor' \in [Editors -> {Filling} \cup FormRec]
  PROVE  EventsTyped'
  BY DEF EventsTyped, ShownTo

LEMMA CopiesTyped ==
  ASSUME EventsTyped, UNCHANGED <<events, clock>>, editor' \in [Editors -> {Filling} \cup FormRec],
         NEW K, copies' = K, DOMAIN K \subseteq CopyIds, \A c \in DOMAIN K : K[c] \in CopyRec
  PROVE  EventsTyped'
  BY DEF EventsTyped, ShownTo

LEMMA RowsTyped ==
  ASSUME EventsTyped, UNCHANGED copies, clock' \in Nat, editor' \in [Editors -> {Filling} \cup FormRec],
         NEW E, events' = E, DOMAIN E \subseteq EventIds, \A id \in DOMAIN E : E[id] \in RowRec /\ ShownTo(E[id])
  PROVE  EventsTyped'
  BY DEF EventsTyped, ShownTo

ChangedAs(g, f) ==
  /\ g \in FormRec /\ g.at = "filled" /\ g.new = f.new /\ g.who = f.who /\ g.id = f.id
  /\ (g.sets = TRUE \/ (g.sets = f.sets /\ g.data.starts = f.data.starts))
LEMMA ChangedFormIs ==
  ASSUME NEW f \in FormRec, NEW c \in Changes(f), NEW g, g = [c EXCEPT !.at = "filled"]
  PROVE  ChangedAs(g, f)
<1>1. CASE \E s \in Scopes : c = [f EXCEPT !.data.scope = s]
  <2>1. PICK s \in Scopes : c = [f EXCEPT !.data.scope = s]
    BY <1>1
  <2> QED BY <2>1 DEF FormRec, ChangedAs
<1>2. CASE \E s \in BOOLEAN : c = [f EXCEPT !.data.sync = s]
  <2>1. PICK s \in BOOLEAN : c = [f EXCEPT !.data.sync = s]
    BY <1>2
  <2> QED BY <2>1 DEF FormRec, ChangedAs
<1>3. CASE \E t \in Instants : c = [f EXCEPT !.data.starts = t, !.sets = TRUE]
  <2>1. PICK t \in Instants : c = [f EXCEPT !.data.starts = t, !.sets = TRUE]
    BY <1>3
  <2>2. t \in Nat
    BY DEF Instants
  <2> QED BY <2>1, <2>2 DEF FormRec, ChangedAs
<1> QED BY <1>1, <1>2, <1>3 DEF Changes

SubmittedAs(g, f, copy) ==
  /\ g \in FormRec /\ g.at = "google" /\ g.new = f.new /\ g.sets = f.sets /\ g.who = f.who /\ g.id = f.id
  /\ g.copy = copy /\ g.data.starts = f.data.starts
LEMMA SubmittedFormIs ==
  ASSUME EventsAssumption, NEW f \in FormRec, NEW copy \in CopyIds \cup {NoCopy},
         NEW g, g = [f EXCEPT !.at = "google", !.data.scope = Enforced(f.who, f.data.scope), !.copy = copy]
  PROVE  SubmittedAs(g, f, copy)
<1>1. PICK s \in Scopes : s = Enforced(f.who, f.data.scope)
  BY EnforcedScope, FormFields
<1>2. PICK d : d = [f.data EXCEPT !.scope = s]
  OBVIOUS
<1>3. d \in [scope : Scopes, starts : Nat, repeat : Nat, sync : BOOLEAN] /\ d.starts = f.data.starts
  BY <1>2, FormFields
<1>4. g = [f EXCEPT !.at = "google", !.data = d, !.copy = copy]
  BY <1>1, <1>2 DEF FormRec
<1> QED BY <1>3, <1>4 DEF FormRec, SubmittedAs

LEMMA PushedFormIs ==
  ASSUME NEW f \in FormRec, NEW copy \in CopyIds \cup {NoCopy},
         NEW g, g = [f EXCEPT !.at = "write", !.copy = copy]
  PROVE  /\ g \in FormRec /\ g.at = "write" /\ g.new = f.new /\ g.sets = f.sets /\ g.who = f.who /\ g.id = f.id
         /\ g.copy = copy /\ g.data = f.data
  BY DEF FormRec

LEMMA FiredRow ==
  ASSUME NEW row \in RowRec, ShownTo(row), NEW new, new = Fire(row)
  PROVE  /\ new \in RowRec /\ ShownTo(new)
         /\ new.by = row.by /\ new.repeat = row.repeat /\ new.sync = row.sync /\ new.copy = row.copy
         /\ IF row.repeat = 0 THEN new.starts = row.starts /\ new.notified = TRUE
            ELSE new.starts = row.starts + row.repeat /\ new.notified = row.notified
<1>1. CASE row.repeat = 0
  <2>1. new = [row EXCEPT !.notified = TRUE]
    BY <1>1 DEF Fire
  <2> QED BY <1>1, <2>1 DEF RowRec, ShownTo
<1>2. CASE row.repeat # 0
  <2>1. PICK t : t = row.starts + row.repeat
    OBVIOUS
  <2>2. t \in Nat
    BY <2>1, RowFields
  <2>3. new = [row EXCEPT !.starts = t]
    BY <1>2, <2>1 DEF Fire
  <2> QED BY <1>2, <2>1, <2>2, <2>3 DEF RowRec, ShownTo
<1> QED BY <1>1, <1>2

LEMMA TypedStep ==
  ASSUME EventsAssumption, EventsTyped, EventsNext
  PROVE  EventsTyped'
<1>1. editor \in [Editors -> {Filling} \cup FormRec]
  BY DEF EventsTyped
<1>2. ASSUME NEW e \in Editors, NEW who \in People, NEW id \in EventIds, LoadForm(e, who, id)
      PROVE  EventsTyped'
  <2>1. PICK row : row = events[id]
    OBVIOUS
  <2>2. row \in RowRec
    BY <1>2, <2>1 DEF LoadForm, MayWrite, IsGone, EventsTyped
  <2>3. PICK f : f = [at |-> "form", new |-> FALSE, sets |-> FALSE, who |-> who, id |-> id, copy |-> NoCopy,
                      data |-> FormOf(row)]
    OBVIOUS
  <2>4. f \in FormRec
    BY <2>2, <2>3, RowFields DEF FormRec, FormOf
  <2>5. At(e, f) /\ UNCHANGED <<events, copies, clock>>
    BY <1>2, <2>1, <2>3 DEF LoadForm
  <2> QED BY <2>4, <2>5, EditorMoves, SameRowsTyped
<1>3. ASSUME NEW e \in Editors, NEW who \in People, NEW id \in EventIds, NEW scope \in Scopes,
             NEW starts \in Instants, NEW repeat \in Repeats, NEW sync \in BOOLEAN,
             NewForm(e, who, id, scope, starts, repeat, sync)
      PROVE  EventsTyped'
  <2>1. PICK f : f = [at |-> "filled", new |-> TRUE, sets |-> TRUE, who |-> who, id |-> id, copy |-> NoCopy,
            data |-> [scope |-> scope, starts |-> starts, repeat |-> repeat, sync |-> sync]]
    OBVIOUS
  <2>2. starts \in Nat /\ repeat \in Nat
    BY DEF Instants, EventsAssumption
  <2>3. f \in FormRec
    BY <2>1, <2>2 DEF FormRec
  <2>4. At(e, f) /\ UNCHANGED <<events, copies, clock>>
    BY <1>3, <2>1 DEF NewForm
  <2> QED BY <2>3, <2>4, EditorMoves, SameRowsTyped
<1>4. ASSUME NEW e \in Editors, Change(e) PROVE EventsTyped'
  <2>1. PICK f : f = editor[e]
    OBVIOUS
  <2>2. f \in FormRec
    BY <1>4, <2>1, EditorForm DEF Change
  <2>3. PICK c \in Changes(f) : At(e, [c EXCEPT !.at = "filled"])
    BY <1>4, <2>1 DEF Change
  <2>4. [c EXCEPT !.at = "filled"] \in FormRec
    BY <2>2, <2>3, ChangedFormIs DEF ChangedAs
  <2>5. UNCHANGED <<events, copies, clock>>
    BY <1>4 DEF Change
  <2> QED BY <2>3, <2>4, <2>5, EditorMoves, SameRowsTyped
<1>5. ASSUME NEW e \in Editors, Submit(e) PROVE EventsTyped'
  <2>1. PICK f : f = editor[e]
    OBVIOUS
  <2>2. f \in FormRec
    BY <1>5, <2>1, EditorForm DEF Submit
  <2>3. PICK copy : copy = IF f.new THEN NoCopy ELSE events[f.id].copy
    OBVIOUS
  <2>4. copy \in CopyIds \cup {NoCopy}
    BY <1>5, <2>1, <2>3, RowFields DEF Submit, MayWrite, IsGone, EventsTyped
  <2>5. PICK g : g = [f EXCEPT !.at = "google", !.data.scope = Enforced(f.who, f.data.scope), !.copy = copy]
    OBVIOUS
  <2>6. g \in FormRec
    BY <2>2, <2>4, <2>5, SubmittedFormIs DEF SubmittedAs
  <2>7. At(e, g) /\ UNCHANGED <<events, copies, clock>>
    BY <1>5, <2>1, <2>3, <2>5 DEF Submit
  <2> QED BY <2>6, <2>7, EditorMoves, SameRowsTyped
<1>6. ASSUME NEW e \in Editors, Refuse(e) \/ WriteFails(e) PROVE EventsTyped'
  <2>1. At(e, Filling) /\ UNCHANGED <<events, copies, clock>>
    BY <1>6 DEF Refuse, WriteFails
  <2> QED BY <2>1, EditorMoves, SameRowsTyped
<1>7. ASSUME NEW e \in Editors, Push(e) \/ PushUnanswered(e) PROVE EventsTyped'
  <2>1. PICK f : f = editor[e]
    OBVIOUS
  <2>2. f \in FormRec
    BY <1>7, <2>1, EditorForm DEF Push, PushUnanswered
  <2>3. PICK to \in IF f.data.sync THEN Pushed(f) ELSE {Withdrawn(f)} :
          /\ copies' = to.all
          /\ \/ At(e, [f EXCEPT !.at = "write", !.copy = to.copy])
             \/ At(e, [f EXCEPT !.at = "write", !.copy = IF f.data.sync THEN @ ELSE NoCopy])
    BY <1>7, <2>1 DEF Push, PushUnanswered
  <2>4. /\ to.copy \in CopyIds \cup {NoCopy}
        /\ DOMAIN to.all \subseteq CopyIds /\ \A c \in DOMAIN to.all : to.all[c] \in CopyRec
    BY <2>2, <2>3, WhatIsPushed, PushedTyped
  <2>5. PICK copy \in CopyIds \cup {NoCopy} : At(e, [f EXCEPT !.at = "write", !.copy = copy])
    <3>1. CASE At(e, [f EXCEPT !.at = "write", !.copy = to.copy])
      BY <3>1, <2>4
    <3>2. CASE At(e, [f EXCEPT !.at = "write", !.copy = IF f.data.sync THEN @ ELSE NoCopy])
      BY <3>2, <2>2, FormFields
    <3> QED BY <2>3, <3>1, <3>2
  <2>6. [f EXCEPT !.at = "write", !.copy = copy] \in FormRec
    BY <2>2, <2>5, PushedFormIs
  <2>7. UNCHANGED <<events, clock>>
    BY <1>7 DEF Push, PushUnanswered
  <2> QED BY <2>3, <2>4, <2>5, <2>6, <2>7, EditorMoves, CopiesTyped
<1>8. ASSUME NEW e \in Editors, PushSkipped(e) PROVE EventsTyped'
  <2>1. PICK f : f = editor[e]
    OBVIOUS
  <2>2. f \in FormRec
    BY <1>8, <2>1, EditorForm DEF PushSkipped
  <2>3. PICK copy : copy = IF f.data.sync THEN f.copy ELSE NoCopy
    OBVIOUS
  <2>4. copy \in CopyIds \cup {NoCopy}
    BY <2>2, <2>3, FormFields
  <2>5. At(e, [f EXCEPT !.at = "write", !.copy = copy]) /\ UNCHANGED <<events, copies, clock>>
    BY <1>8, <2>1, <2>3 DEF PushSkipped
  <2>6. [f EXCEPT !.at = "write", !.copy = copy] \in FormRec
    BY <2>2, <2>4, PushedFormIs
  <2> QED BY <2>5, <2>6, EditorMoves, SameRowsTyped
<1>9. ASSUME NEW e \in Editors, Write(e) PROVE EventsTyped'
  <2>1. PICK f : f = editor[e]
    OBVIOUS
  <2>2. f \in FormRec
    BY <1>9, <2>1, EditorForm DEF Write
  <2>3. editor' \in [Editors -> {Filling} \cup FormRec]
    BY <1>9, EditorMoves DEF Write
  <2>4. UNCHANGED <<copies, clock>> /\ clock' \in Nat
    BY <1>9 DEF Write, EventsTyped
  <2>5. CASE f.new \/ ~IsGone(f.id)
    <3>1. PICK row : row = RowOf(f)
      OBVIOUS
    <3>2. row \in RowRec /\ ShownTo(row)
      BY <2>2, <2>5, <3>1, RowIsWritten
    <3>3. PICK E : E = With(events, f.id, row)
      OBVIOUS
    <3>4. events' = E
      BY <1>9, <2>1, <2>5, <3>1, <3>3 DEF Write
    <3>5. /\ DOMAIN E = DOMAIN events \cup {f.id} /\ E[f.id] = row
          /\ \A i \in DOMAIN events : i # f.id => E[i] = events[i]
      BY <3>3 DEF With
    <3>6. DOMAIN E \subseteq EventIds /\ \A i \in DOMAIN E : E[i] \in RowRec /\ ShownTo(E[i])
      BY <2>2, <3>2, <3>5, FormFields DEF EventsTyped
    <3> QED BY <2>3, <2>4, <3>4, <3>6, RowsTyped
  <2>6. CASE ~(f.new \/ ~IsGone(f.id))
    <3>1. events' = events
      BY <1>9, <2>1, <2>6 DEF Write
    <3> QED BY <2>3, <2>4, <3>1, SameRowsTyped
  <2> QED BY <2>5, <2>6
<1>10. ASSUME NEW id \in EventIds, Remove(id) PROVE EventsTyped'
  <2>1. PICK E : E = [i \in DOMAIN events \ {id} |-> events[i]]
    OBVIOUS
  <2>2. DOMAIN E \subseteq EventIds /\ \A i \in DOMAIN E : E[i] \in RowRec /\ ShownTo(E[i])
    BY <2>1 DEF EventsTyped
  <2>3. events' = E /\ UNCHANGED <<copies, clock, editor>> /\ clock' \in Nat
    BY <1>10, <2>1 DEF Remove, EventsTyped
  <2> QED BY <1>1, <2>2, <2>3, RowsTyped
<1>11. ASSUME NEW p \in People, Connect(p) PROVE EventsTyped'
  <2>1. UNCHANGED <<events, copies, clock, editor>>
    BY <1>11 DEF Connect
  <2> QED BY <1>1, <2>1, SameRowsTyped
<1>12. CASE Check
  <2>1. PICK E : E = [id \in DOMAIN events |-> IF id \in Due THEN Fire(events[id]) ELSE events[id]]
    OBVIOUS
  <2>2. DOMAIN E = DOMAIN events
    BY <2>1
  <2>3. ASSUME NEW id \in DOMAIN E PROVE E[id] \in RowRec /\ ShownTo(E[id])
    <3>1. events[id] \in RowRec /\ ShownTo(events[id])
      BY <2>2 DEF EventsTyped
    <3>2. E[id] = events[id] \/ E[id] = Fire(events[id])
      BY <2>1, <2>2
    <3> QED BY <3>1, <3>2, FiredRow
  <2>4. events' = E /\ UNCHANGED <<copies, clock, editor>> /\ clock' \in Nat /\ DOMAIN E \subseteq EventIds
    BY <1>12, <2>1, <2>2 DEF Check, EventsTyped
  <2> QED BY <1>1, <2>3, <2>4, RowsTyped
<1>13. CASE Pass
  <2>1. UNCHANGED <<events, copies, editor>> /\ clock' \in Nat
    BY <1>13 DEF Pass, EventsTyped
  <2> QED BY <2>1 DEF EventsTyped, ShownTo
<1> QED BY <1>2, <1>3, <1>4, <1>5, <1>6, <1>7, <1>8, <1>9, <1>10, <1>11, <1>12, <1>13
        DEF EventsNext, Starting, Editing, Skipping, Failing

(* Calm steps.  A form and its request: the others are idle.                *)
LEMMA IdleOthers ==
  ASSUME NEW D, OneEdits(D), NEW e \in Editors, D[e] # Filling
  PROVE  \A g \in Editors : g # e => D[g] = Filling
  BY DEF OneEdits

LEMMA OnlyForm ==
  ASSUME NEW E, NEW K, NEW D, NEW N, OneEdits(D), NEW e \in Editors, D[e] # Filling => FormFits(D[e], E, K, N),
         D[e] # Filling \/ \A g \in Editors : D[g] = Filling
  PROVE  FormsFit(E, K, D, N)
  BY DEF OneEdits, FormsFit

LEMMA SameMirrors ==
  ASSUME NEW E, NEW K, NEW N, NEW D, NEW C, AllMirrored(E, K, D, N),
         \A e \in Editors : D[e].at = "write" => C[e].at = "write" /\ C[e].id = D[e].id
  PROVE  AllMirrored(E, K, C, N)
  BY DEF AllMirrored

(* The event a form is for, as the calendars have it when it is pushed.     *)
LEMMA BeforePush ==
  ASSUME EventsAssumption, EventsTyped, CalmEventsOK, NEW e \in Editors, NEW f, f = editor[e], f.at = "google"
  PROVE  /\ f.copy # NoCopy => f.who \in connected /\ Own(f) /\ Of(copies, f.id) = {f.copy}
         /\ f.copy = NoCopy => Of(copies, f.id) = {}
<1>1. f \in FormRec /\ f # Filling
  BY EditorForm, FormKinds
<1>2. FormFits(f, events, copies, connected)
  BY <1>1 DEF CalmEventsOK, FormsFit
<1>3. \A g \in Editors : editor[g].at = "write" => editor[g].id # f.id
  BY <1>1, FormKinds, IdleOthers DEF CalmEventsOK
<1>4. f.id \in EventIds
  BY <1>1, FormFields
<1>5. CASE f.new
  <2>1. f.copy = NoCopy /\ f.id \notin DOMAIN events
    BY <1>2, <1>5 DEF FormFits
  <2>2. Of(copies, f.id) = {}
    BY <1>3, <1>4, <2>1 DEF CalmEventsOK, AllMirrored
  <2> QED BY <2>1, <2>2
<1>6. CASE ~f.new
  <2>1. f.id \in DOMAIN events /\ events[f.id].by = f.who /\ f.copy = events[f.id].copy
    BY <1>2, <1>6 DEF FormFits
  <2>2. Mirrored(events[f.id], f.id, copies, connected)
    BY <1>3, <1>4, <2>1 DEF CalmEventsOK, AllMirrored
  <2>3. NoCopy \notin DOMAIN copies
    BY DEF EventsAssumption, EventsTyped
  <2>4. f.copy # NoCopy => f.who \in connected /\ f.copy \in DOMAIN copies /\ Of(copies, f.id) = {f.copy}
    BY <2>1, <2>2 DEF Mirrored
  <2>5. f.copy = NoCopy => Of(copies, f.id) = {}
    BY <2>1, <2>2, <2>3 DEF Mirrored
  <2>6. f.copy # NoCopy => copies[f.copy].owner = f.who
    BY <2>1, <2>2, <2>4 DEF Mirrored, Follows
  <2> QED BY <2>4, <2>5, <2>6 DEF Own
<1> QED BY <1>5, <1>6

(* A push leaves the event with the copy that is noted, and no other's      *)
(* copies changed.                                                          *)
LEMMA AfterPush ==
  ASSUME EventsAssumption, EventsTyped, NEW f \in FormRec, f.who \in connected,
         f.copy # NoCopy => Own(f) /\ Of(copies, f.id) = {f.copy},
         f.copy = NoCopy => Of(copies, f.id) = {},
         NEW to, NEW K, K = to.all, Creates(f, to) \/ Updates(f, to) \/ Leaves(f, to) \/ Withdraws(f, to)
  PROVE  /\ IF f.data.sync THEN to.copy \in DOMAIN K /\ Of(K, f.id) = {to.copy} /\ K[to.copy] = CopyOf(f)
            ELSE to.copy = NoCopy /\ Of(K, f.id) = {}
         /\ \A c : (c \in DOMAIN K /\ K[c].of # f.id) <=> (c \in DOMAIN copies /\ copies[c].of # f.id)
         /\ \A c \in DOMAIN K : K[c].of # f.id => K[c] = copies[c]
<1>1. CopyOf(f).of = f.id
  BY DEF CopyOf
<1>2. NoCopy \notin DOMAIN copies
  BY DEF EventsAssumption, EventsTyped
<1>3. CASE Creates(f, to)
  <2>1. /\ f.data.sync /\ to.copy \notin DOMAIN copies /\ Of(copies, f.id) = {} /\ K = With(copies, to.copy, CopyOf(f))
    BY <1>3 DEF Creates
  <2>2. PICK y : y = CopyOf(f)
    OBVIOUS
  <2>3. /\ DOMAIN K = DOMAIN copies \cup {to.copy} /\ K[to.copy] = y
        /\ \A c \in DOMAIN copies : c # to.copy => K[c] = copies[c]
    BY <2>1, <2>2 DEF With
  <2> QED BY <1>1, <2>1, <2>2, <2>3 DEF Of
<1>4. CASE Updates(f, to)
  <2>1. /\ f.data.sync /\ to.copy = f.copy /\ f.copy \in DOMAIN copies
        /\ Of(copies, f.id) = {f.copy} /\ K = With(copies, f.copy, CopyOf(f))
    BY <1>4 DEF Updates, Own
  <2>2. PICK y : y = CopyOf(f)
    OBVIOUS
  <2>3. /\ DOMAIN K = DOMAIN copies \cup {f.copy} /\ K[f.copy] = y
        /\ \A c \in DOMAIN copies : c # f.copy => K[c] = copies[c]
    BY <2>1, <2>2 DEF With
  <2>4. \A c : (c \in DOMAIN copies /\ copies[c].of = f.id) <=> c = f.copy
    BY <2>1 DEF Of
  <2>5. Of(K, f.id) = {f.copy}
    BY <1>1, <2>2, <2>3, <2>4 DEF Of
  <2> QED BY <1>1, <2>1, <2>2, <2>3, <2>4, <2>5
<1>5. CASE Leaves(f, to)
  BY <1>5 DEF Leaves
<1>6. CASE Withdraws(f, to)
  <2>1. /\ ~f.data.sync /\ to.copy = NoCopy
        /\ DOMAIN K = DOMAIN copies \ (IF Own(f) THEN {f.copy} ELSE {})
        /\ \A c \in DOMAIN K : K[c] = copies[c]
    BY <1>6 DEF Withdraws
  <2>2. CASE f.copy = NoCopy
    <3>1. ~Own(f) /\ Of(copies, f.id) = {}
      BY <1>2, <2>2 DEF Own
    <3> QED BY <2>1, <3>1 DEF Of
  <2>3. CASE f.copy # NoCopy
    <3>1. \A c : (c \in DOMAIN copies /\ copies[c].of = f.id) <=> c = f.copy
      BY <2>3 DEF Of
    <3>2. DOMAIN K = DOMAIN copies \ {f.copy}
      BY <2>1, <2>3
    <3>3. Of(K, f.id) = {}
      BY <2>1, <3>1, <3>2 DEF Of
    <3> QED BY <2>1, <3>1, <3>2, <3>3
  <2> QED BY <2>2, <2>3
<1> QED BY <1>3, <1>4, <1>5, <1>6

(* What is said of an event rests on its own copies.                        *)
LEMMA OthersMirrored ==
  ASSUME NEW K, NEW L, NEW row, NEW id, NEW N, Mirrored(row, id, K, N),
         \A c : (c \in DOMAIN K /\ K[c].of = id) <=> (c \in DOMAIN L /\ L[c].of = id),
         \A c \in DOMAIN L : L[c].of = id => L[c] = K[c]
  PROVE  Mirrored(row, id, L, N)
<1>1. Of(L, id) = Of(K, id)
  BY DEF Of
<1>2. row.copy \in Of(K, id) => row.copy \in DOMAIN L
  BY DEF Of
<1>3. \A c \in Of(L, id) : Follows(row, L[c])
  BY <1>1 DEF Of, Mirrored
<1> QED BY <1>1, <1>2, <1>3 DEF Mirrored

LEMMA FewBusy ==
  ASSUME EventsAssumption, NEW D, Cardinality({e \in Editors : D[e] # Filling}) <= 1
  PROVE  OneEdits(D)
<1> DEFINE S == {e \in Editors : D[e] # Filling}
<1>1. IsFiniteSet(S)
  BY FS_Subset DEF EventsAssumption
<1>2. ASSUME NEW e \in S, NEW g \in S, e # g PROVE FALSE
  <2>1. {e, g} \subseteq S /\ IsFiniteSet({e, g}) /\ Cardinality({e, g}) = 2
    <3>1. IsFiniteSet({g}) /\ Cardinality({g}) = 1
      BY FS_Singleton
    <3>2. IsFiniteSet({g} \cup {e}) /\ Cardinality({g} \cup {e}) = Cardinality({g}) + 1
      BY <1>2, <3>1, FS_AddElement
    <3>3. {g} \cup {e} = {e, g}
      OBVIOUS
    <3> QED BY <3>1, <3>2, <3>3
  <2>2. Cardinality({e, g}) <= Cardinality(S)
    BY <1>1, <2>1, FS_Subset
  <2>3. Cardinality(S) \in Nat
    BY <1>1, FS_CardinalityType
  <2> QED BY <2>1, <2>2, <2>3
<1> QED BY <1>2 DEF OneEdits

(* The steps that leave the events and the calendars as they are.           *)
LEMMA FormOnly ==
  ASSUME EventsTyped, CalmEventsOK, UNCHANGED <<events, copies, connected, fired>>, OneEdits(editor'),
         NEW e \in Editors, NEW f \in {Filling} \cup FormRec, At(e, f), editor[e].at # "write",
         f # Filling => FormFits(f, events, copies, connected),
         editor[e] # Filling \/ f # Filling
  PROVE  CalmEventsOK'
<1>1. editor'[e] = f /\ \A g \in Editors : g # e => editor'[g] = editor[g]
  BY EditorMoves
<1>2. editor'[e] # Filling \/ \A g \in Editors : editor'[g] = Filling
  BY <1>1 DEF CalmEventsOK, OneEdits
<1>3. FormsFit(events, copies, editor', connected)
  BY <1>1, <1>2, OnlyForm
<1>4. \A g \in Editors : editor[g].at = "write" => editor'[g].at = "write" /\ editor'[g].id = editor[g].id
  BY <1>1
<1>5. AllMirrored(events, copies, editor', connected)
  BY <1>4, SameMirrors DEF CalmEventsOK
<1> QED BY <1>3, <1>5 DEF CalmEventsOK

LEMMA StartCalm ==
  ASSUME EventsAssumption, EventsTyped, CalmEventsOK, Starting, OneEdits(editor'),
         \A e \in Busy' : editor'[e].id \in DOMAIN events' => events'[editor'[e].id].by = editor'[e].who
  PROVE  CalmEventsOK'
<1>1. ASSUME NEW e \in Editors, NEW who \in People, NEW id \in EventIds, LoadForm(e, who, id)
      PROVE  CalmEventsOK'
  <2>1. PICK row : row = events[id]
    OBVIOUS
  <2>2. row \in RowRec /\ id \in DOMAIN events
    BY <1>1, <2>1 DEF LoadForm, MayWrite, IsGone, EventsTyped
  <2>3. PICK f : f = [at |-> "form", new |-> FALSE, sets |-> FALSE, who |-> who, id |-> id, copy |-> NoCopy,
                      data |-> FormOf(row)]
    OBVIOUS
  <2>4. f \in FormRec /\ f.at = "form" /\ f.new = FALSE /\ f.who = who /\ f.id = id /\ f.data.starts = row.starts
    BY <2>2, <2>3, RowFields DEF FormRec, FormOf
  <2>5. At(e, f) /\ UNCHANGED <<events, copies, connected, fired>> /\ editor[e] = Filling
    BY <1>1, <2>1, <2>3 DEF LoadForm
  <2>6. editor'[e] = f /\ f # Filling
    BY <2>4, <2>5, EditorMoves, FormKinds
  <2>7. row.by = who
    BY <2>1, <2>2, <2>4, <2>5, <2>6 DEF Busy
  <2>8. FormFits(f, events, copies, connected)
    BY <2>1, <2>2, <2>4, <2>7 DEF FormFits
  <2>9. editor[e].at # "write"
    BY <2>5, FormKinds
  <2> QED BY <2>4, <2>5, <2>6, <2>8, <2>9, FormOnly
<1>2. ASSUME NEW e \in Editors, NEW who \in People, NEW id \in EventIds, NEW scope \in Scopes,
             NEW starts \in Instants, NEW repeat \in Repeats, NEW sync \in BOOLEAN,
             NewForm(e, who, id, scope, starts, repeat, sync)
      PROVE  CalmEventsOK'
  <2>1. PICK f : f = [at |-> "filled", new |-> TRUE, sets |-> TRUE, who |-> who, id |-> id, copy |-> NoCopy,
            data |-> [scope |-> scope, starts |-> starts, repeat |-> repeat, sync |-> sync]]
    OBVIOUS
  <2>2. starts \in Nat /\ repeat \in Nat
    BY DEF Instants, EventsAssumption
  <2>3. f \in FormRec /\ f.at = "filled" /\ f.new = TRUE /\ f.sets = TRUE /\ f.id = id
    BY <2>1, <2>2 DEF FormRec
  <2>4. At(e, f) /\ UNCHANGED <<events, copies, connected, fired>> /\ editor[e] = Filling /\ id \notin DOMAIN events
    BY <1>2, <2>1 DEF NewForm, NewIds, IsGone
  <2>5. f # Filling /\ editor[e].at # "write"
    BY <2>3, <2>4, FormKinds
  <2>6. FormFits(f, events, copies, connected)
    BY <2>3, <2>4 DEF FormFits
  <2> QED BY <2>3, <2>4, <2>5, <2>6, FormOnly
<1> QED BY <1>1, <1>2 DEF Starting

LEMMA ChangeCalm ==
  ASSUME EventsAssumption, EventsTyped, CalmEventsOK, OneEdits(editor'),
         NEW e \in Editors, Change(e) \/ Submit(e) \/ Refuse(e)
  PROVE  CalmEventsOK'
<1>1. PICK f : f = editor[e]
  OBVIOUS
<1>2. f \in FormRec /\ f # Filling /\ f.at # "write"
  BY <1>1, EditorForm, FormKinds DEF Change, Submit, Refuse
<1>3. FormFits(f, events, copies, connected)
  BY <1>1, <1>2 DEF CalmEventsOK, FormsFit
<1>4. UNCHANGED <<events, copies, connected, fired>>
  BY DEF Change, Submit, Refuse
<1>5. CASE Change(e)
  <2>1. PICK c \in Changes(f) : At(e, [c EXCEPT !.at = "filled"])
    BY <1>1, <1>5 DEF Change
  <2>2. PICK g : g = [c EXCEPT !.at = "filled"]
    OBVIOUS
  <2>3. /\ g \in FormRec /\ g.at = "filled" /\ g.new = f.new /\ g.who = f.who /\ g.id = f.id
        /\ (g.sets = TRUE \/ (g.sets = f.sets /\ g.data.starts = f.data.starts))
    <3>1. ChangedAs(g, f)
      BY <1>2, <2>1, <2>2, ChangedFormIs, Zenon
    <3> QED BY <3>1 DEF ChangedAs
  <2>4. FormFits(g, events, copies, connected)
    BY <1>2, <1>3, <2>3, FormFields DEF FormFits
  <2> QED BY <1>1, <1>2, <1>4, <2>1, <2>2, <2>3, <2>4, FormOnly
<1>6. CASE Submit(e)
  <2>1. PICK copy : copy = IF f.new THEN NoCopy ELSE events[f.id].copy
    OBVIOUS
  <2>2. copy \in CopyIds \cup {NoCopy}
    BY <1>1, <1>6, <2>1, RowFields DEF Submit, MayWrite, IsGone, EventsTyped
  <2>3. PICK g : g = [f EXCEPT !.at = "google", !.data.scope = Enforced(f.who, f.data.scope), !.copy = copy]
    OBVIOUS
  <2>4. /\ g \in FormRec /\ g.at = "google" /\ g.new = f.new /\ g.sets = f.sets /\ g.who = f.who /\ g.id = f.id
        /\ g.copy = copy /\ g.data.starts = f.data.starts
    <3>1. SubmittedAs(g, f, copy)
      BY <1>2, <2>2, <2>3, SubmittedFormIs, Zenon
    <3> QED BY <3>1 DEF SubmittedAs
  <2>5. FormFits(g, events, copies, connected)
    BY <1>2, <1>3, <2>1, <2>4, FormFields DEF FormFits
  <2>6. At(e, g)
    BY <1>1, <1>6, <2>1, <2>3 DEF Submit
  <2> QED BY <1>1, <1>2, <1>4, <2>4, <2>5, <2>6, FormOnly
<1>7. CASE Refuse(e)
  <2>1. At(e, Filling)
    BY <1>7 DEF Refuse
  <2> QED BY <1>1, <1>2, <1>4, <2>1, FormOnly
<1> QED BY <1>5, <1>6, <1>7

(* A step that makes a push, or leaves one out.                             *)
LEMMA PushMirrors ==
  ASSUME EventsTyped, CalmEventsOK, UNCHANGED <<events, connected, fired>>, OneEdits(editor'),
         NEW e \in Editors, NEW f, f = editor[e], f.at = "google",
         NEW g \in FormRec, At(e, g), g.at = "write", g.new = f.new, g.sets = f.sets, g.who = f.who, g.id = f.id,
         g.data = f.data, NEW K, copies' = K, PushedAs(g, K, connected),
         \A c : (c \in DOMAIN K /\ K[c].of # f.id) <=> (c \in DOMAIN copies /\ copies[c].of # f.id),
         \A c \in DOMAIN K : K[c].of # f.id => K[c] = copies[c]
  PROVE  CalmEventsOK'
<1>1. f \in FormRec /\ f # Filling
  BY EditorForm, FormKinds
<1>2. FormFits(f, events, copies, connected)
  BY <1>1 DEF CalmEventsOK, FormsFit
<1>3. FormFits(g, events, K, connected)
  BY <1>2 DEF FormFits
<1>4. g # Filling
  BY FormKinds
<1>5. editor'[e] = g /\ \A x \in Editors : x # e => editor'[x] = editor[x]
  BY EditorMoves
<1>6. FormsFit(events, K, editor', connected)
  BY <1>3, <1>4, <1>5, OnlyForm
<1>7. \A x \in Editors : editor[x].at = "write" => x # e
  OBVIOUS
<1>8. \A x \in Editors : x # e => editor[x] = Filling
  BY <1>1, IdleOthers DEF CalmEventsOK
<1>9. ASSUME NEW id \in EventIds, \A x \in Editors : editor'[x].at = "write" => editor'[x].id # id
      PROVE  IF id \in DOMAIN events THEN Mirrored(events[id], id, K, connected) ELSE Of(K, id) = {}
  <2>1. id # f.id
    BY <1>5, <1>9
  <2>2. \A x \in Editors : editor[x].at = "write" => editor[x].id # id
    BY <1>7, <1>8, FormKinds
  <2>3. IF id \in DOMAIN events THEN Mirrored(events[id], id, copies, connected) ELSE Of(copies, id) = {}
    BY <2>2 DEF CalmEventsOK, AllMirrored
  <2>4. /\ \A c : (c \in DOMAIN copies /\ copies[c].of = id) <=> (c \in DOMAIN K /\ K[c].of = id)
        /\ \A c \in DOMAIN K : K[c].of = id => K[c] = copies[c]
    BY <2>1
  <2>5. CASE id \in DOMAIN events
    <3>1. PICK row : row = events[id]
      OBVIOUS
    <3>2. Mirrored(row, id, copies, connected)
      BY <2>3, <2>5, <3>1
    <3>3. Mirrored(row, id, K, connected)
      BY <2>4, <3>2, OthersMirrored
    <3> QED BY <2>5, <3>1, <3>3
  <2>6. CASE id \notin DOMAIN events
    BY <2>3, <2>4, <2>6 DEF Of
  <2> QED BY <2>5, <2>6
<1>10. AllMirrored(events, K, editor', connected)
  BY <1>9 DEF AllMirrored
<1> QED BY <1>6, <1>10 DEF CalmEventsOK

LEMMA PushCalm ==
  ASSUME EventsAssumption, EventsTyped, CalmEventsOK, OneEdits(editor'), NEW e \in Editors, Push(e)
  PROVE  CalmEventsOK'
<1>1. PICK f : f = editor[e]
  OBVIOUS
<1>2. f \in FormRec /\ f.at = "google" /\ f.who \in connected
  BY <1>1, EditorForm DEF Push
<1>3. PICK to \in IF f.data.sync THEN Pushed(f) ELSE {Withdrawn(f)} :
        copies' = to.all /\ At(e, [f EXCEPT !.at = "write", !.copy = to.copy])
  BY <1>1 DEF Push
<1>4. Creates(f, to) \/ Updates(f, to) \/ Leaves(f, to) \/ Withdraws(f, to)
  BY <1>2, <1>3, WhatIsPushed
<1>5. to.copy \in CopyIds \cup {NoCopy}
  BY <1>2, <1>4, PushedTyped
<1>6. /\ f.copy # NoCopy => Own(f) /\ Of(copies, f.id) = {f.copy}
      /\ f.copy = NoCopy => Of(copies, f.id) = {}
  BY <1>1, <1>2, BeforePush
<1>7. PICK K : K = to.all
  OBVIOUS
<1>8. /\ IF f.data.sync THEN to.copy \in DOMAIN K /\ Of(K, f.id) = {to.copy} /\ K[to.copy] = CopyOf(f)
         ELSE to.copy = NoCopy /\ Of(K, f.id) = {}
      /\ \A c : (c \in DOMAIN K /\ K[c].of # f.id) <=> (c \in DOMAIN copies /\ copies[c].of # f.id)
      /\ \A c \in DOMAIN K : K[c].of # f.id => K[c] = copies[c]
  BY <1>2, <1>4, <1>6, <1>7, AfterPush
<1>9. PICK copy : copy = to.copy
  OBVIOUS
<1>10. PICK g : g = [f EXCEPT !.at = "write", !.copy = copy]
  OBVIOUS
<1>11. /\ g \in FormRec /\ g.at = "write" /\ g.new = f.new /\ g.sets = f.sets /\ g.who = f.who /\ g.id = f.id
       /\ g.copy = copy /\ g.data = f.data
  BY <1>2, <1>5, <1>9, <1>10 DEF FormRec
<1>12. CopyOf(g) = CopyOf(f)
  BY <1>11 DEF CopyOf
<1>13. PushedAs(g, K, connected)
  BY <1>2, <1>8, <1>9, <1>11, <1>12 DEF PushedAs
<1>14. UNCHANGED <<events, connected, fired>> /\ At(e, g) /\ copies' = K
  BY <1>3, <1>7, <1>9, <1>10 DEF Push
<1> QED BY <1>1, <1>2, <1>8, <1>11, <1>13, <1>14, PushMirrors

LEMMA SkipCalm ==
  ASSUME EventsAssumption, EventsTyped, CalmEventsOK, OneEdits(editor'), NEW e \in Editors, PushSkipped(e),
         editor[e].who \notin connected
  PROVE  CalmEventsOK'
<1>1. PICK f : f = editor[e]
  OBVIOUS
<1>2. f \in FormRec /\ f.at = "google" /\ f.who \notin connected
  BY <1>1, EditorForm DEF PushSkipped
<1>3. f.copy = NoCopy /\ Of(copies, f.id) = {}
  BY <1>1, <1>2, BeforePush
<1>4. PICK copy : copy = IF f.data.sync THEN f.copy ELSE NoCopy
  OBVIOUS
<1>5. copy = NoCopy
  BY <1>3, <1>4
<1>6. PICK g : g = [f EXCEPT !.at = "write", !.copy = copy]
  OBVIOUS
<1>7. /\ g \in FormRec /\ g.at = "write" /\ g.new = f.new /\ g.sets = f.sets /\ g.who = f.who /\ g.id = f.id
      /\ g.copy = copy /\ g.data = f.data
  BY <1>2, <1>5, <1>6 DEF FormRec
<1>8. PushedAs(g, copies, connected)
  BY <1>2, <1>3, <1>5, <1>7 DEF PushedAs
<1>9. UNCHANGED <<events, copies, connected, fired>> /\ At(e, g)
  BY <1>1, <1>4, <1>6 DEF PushSkipped
<1> QED BY <1>1, <1>2, <1>7, <1>8, <1>9, PushMirrors

(* What is written is what was pushed.                                      *)
LEMMA WriteCalm ==
  ASSUME EventsAssumption, EventsTyped, CalmEventsOK, OneEdits(editor'), NEW e \in Editors, Write(e)
  PROVE  CalmEventsOK'
<1>1. PICK f : f = editor[e]
  OBVIOUS
<1>2. f \in FormRec /\ f.at = "write" /\ f # Filling
  BY <1>1, EditorForm, FormKinds DEF Write
<1>3. FormFits(f, events, copies, connected) /\ PushedAs(f, copies, connected)
  BY <1>1, <1>2 DEF CalmEventsOK, FormsFit, FormFits
<1>4. f.new \/ ~IsGone(f.id)
  BY <1>3 DEF FormFits, IsGone
<1>5. PICK row : row = RowOf(f)
  OBVIOUS
<1>6. row \in RowRec /\ WrittenAs(row, f)
  BY <1>2, <1>4, <1>5, RowIsWritten
<1>7. PICK E : E = With(events, f.id, row)
  OBVIOUS
<1>8. events' = E /\ UNCHANGED <<copies, connected>>
  BY <1>1, <1>4, <1>5, <1>7 DEF Write
<1>9. /\ DOMAIN E = DOMAIN events \cup {f.id} /\ E[f.id] = row
      /\ \A i \in DOMAIN events : i # f.id => E[i] = events[i]
  BY <1>7 DEF With
<1>10. editor'[e] = Filling /\ \A x \in Editors : x # e => editor'[x] = editor[x]
  BY EditorMoves DEF Write
<1>11. \A x \in Editors : x # e => editor[x] = Filling
  BY <1>1, <1>2, IdleOthers DEF CalmEventsOK
<1>12. \A x \in Editors : editor'[x] = Filling
  BY <1>10, <1>11
<1>13. FormsFit(E, copies, editor', connected)
  BY <1>12 DEF FormsFit
<1>14. row.by = f.who
  BY <1>3, <1>6 DEF WrittenAs, FormFits
<1>15. Mirrored(row, f.id, copies, connected)
  <2>1. CASE f.who \in connected /\ f.data.sync
    <3>1. f.copy \in DOMAIN copies /\ Of(copies, f.id) = {f.copy} /\ copies[f.copy] = CopyOf(f)
      BY <1>3, <2>1 DEF PushedAs
    <3>2. copies[f.copy].owner = row.by /\ copies[f.copy].starts = row.starts /\ row.starts \in Nat
      BY <1>6, <1>14, <3>1, RowFields DEF CopyOf, WrittenAs
    <3>3. Follows(row, copies[f.copy])
      BY <3>2 DEF Follows
    <3> QED BY <1>6, <1>14, <2>1, <3>1, <3>3 DEF Mirrored, WrittenAs
  <2>2. CASE ~(f.who \in connected /\ f.data.sync)
    <3>1. f.copy = NoCopy /\ Of(copies, f.id) = {}
      BY <1>3, <2>2 DEF PushedAs
    <3> QED BY <1>6, <1>14, <2>2, <3>1 DEF Mirrored, WrittenAs
  <2> QED BY <2>1, <2>2
<1>16. ASSUME NEW id \in EventIds
       PROVE  IF id \in DOMAIN E THEN Mirrored(E[id], id, copies, connected) ELSE Of(copies, id) = {}
  <2>1. CASE id = f.id
    BY <1>9, <1>15, <2>1
  <2>2. CASE id # f.id
    <3>1. \A x \in Editors : editor[x].at = "write" => editor[x].id # id
      BY <1>1, <1>11, <2>2, FormKinds
    <3>2. IF id \in DOMAIN events THEN Mirrored(events[id], id, copies, connected) ELSE Of(copies, id) = {}
      BY <3>1 DEF CalmEventsOK, AllMirrored
    <3> QED BY <1>9, <2>2, <3>2
  <2> QED BY <2>1, <2>2
<1>17. AllMirrored(E, copies, editor', connected)
  BY <1>16 DEF AllMirrored
<1>18. FiredBefore(E, fired')
  <2> SUFFICES ASSUME NEW o \in fired' PROVE o[1] \in DOMAIN E /\ o[2] \in Nat /\ (o[2] < E[o[1]].starts \/ E[o[1]].notified)
    BY DEF FiredBefore
  <2>1. o \in fired /\ (f.sets => o[1] # f.id)
    BY <1>1 DEF Write
  <2>2. o[1] \in DOMAIN events /\ o[2] \in Nat /\ (o[2] < events[o[1]].starts \/ events[o[1]].notified)
    BY <2>1 DEF CalmEventsOK, FiredBefore
  <2>3. CASE o[1] # f.id
    BY <1>9, <2>2, <2>3
  <2>4. CASE o[1] = f.id
    <3>1. ~f.sets /\ ~f.new /\ f.data.starts = events[f.id].starts
      BY <1>3, <2>1, <2>4 DEF FormFits
    <3>2. row.starts = events[f.id].starts /\ row.notified = events[f.id].notified
      BY <1>6, <3>1 DEF WrittenAs
    <3> QED BY <1>9, <2>2, <2>4, <3>2
  <2> QED BY <2>3, <2>4
<1> QED BY <1>8, <1>13, <1>17, <1>18 DEF CalmEventsOK

(* What is due goes off or moves on by whole intervals; nothing is edited   *)
(* meanwhile.                                                               *)
LEMMA OneMoreInterval ==
  ASSUME NEW d \in Nat, NEW r \in Nat, r # 0, d % r = 0
  PROVE  (d + r) % r = 0
<1>1. PICK q \in Nat : q = d \div r
  BY SMTT(20)
<1>2. d = r * q
  BY <1>1, SMTT(20)
<1>3. PICK n \in Nat : n = d + r
  OBVIOUS
<1>4. PICK p \in Nat : p = n \div r
  BY SMTT(20)
<1>5. PICK l \in Nat : l = n % r
  BY SMTT(20)
<1>6. n = r * p + l /\ l < r
  BY <1>4, <1>5, SMTT(20)
<1>7. n = r * (q + 1)
  BY <1>2, <1>3, SMTT(20)
<1>8. r * p + l = r * (q + 1)
  BY <1>6, <1>7
<1>9. p = q + 1
  <2>1. ~(p < q + 1)
    BY <1>6, <1>8, SMTT(20)
  <2>2. ~(p > q + 1)
    BY <1>6, <1>8, SMTT(20)
  <2> QED BY <2>1, <2>2
<1> QED BY <1>3, <1>5, <1>8, <1>9

LEMMA NextInSeries ==
  ASSUME NEW s \in Nat, NEW k \in Nat, NEW r \in Nat, r # 0, k <= s, s # k => (s - k) % r = 0
  PROVE  k <= s + r /\ ((s + r) - k) % r = 0
<1>1. PICK d \in Nat : d = s - k
  OBVIOUS
<1>2. d % r = 0
  BY <1>1
<1>3. (d + r) % r = 0
  BY <1>2, OneMoreInterval
<1>4. (s + r) - k = d + r
  BY <1>1
<1> QED BY <1>3, <1>4

LEMMA FollowsOn ==
  ASSUME NEW row \in RowRec, NEW new \in RowRec, new = row \/ new = Fire(row), ShownTo(row),
         NEW k \in CopyRec, Follows(row, k)
  PROVE  Follows(new, k)
<1>1. CASE new = Fire(row)
  <2>1. /\ new.by = row.by /\ new.repeat = row.repeat
        /\ IF row.repeat = 0 THEN new.starts = row.starts ELSE new.starts = row.starts + row.repeat
    BY <1>1, FiredRow
  <2>2. CASE row.repeat = 0
    BY <2>1, <2>2 DEF Follows
  <2>3. CASE row.repeat # 0
    <3>1. row.starts \in Nat /\ row.repeat \in Nat /\ k.starts \in Nat
      BY RowFields DEF CopyRec
    <3>2. k.starts <= row.starts + row.repeat /\ ((row.starts + row.repeat) - k.starts) % row.repeat = 0
      BY <2>3, <3>1, NextInSeries DEF Follows
    <3> QED BY <2>1, <2>3, <3>2 DEF Follows
  <2> QED BY <2>2, <2>3
<1> QED BY <1>1

LEMMA CheckCalm ==
  ASSUME EventsAssumption, EventsTyped, EventsTyped', CalmEventsOK, Check, Busy = {}
  PROVE  CalmEventsOK'
<1>1. PICK E : E = [id \in DOMAIN events |-> IF id \in Due THEN Fire(events[id]) ELSE events[id]]
  OBVIOUS
<1>2. /\ DOMAIN E = DOMAIN events
      /\ \A id \in DOMAIN events : E[id] = IF id \in Due THEN Fire(events[id]) ELSE events[id]
  BY <1>1
<1>3. /\ events' = E /\ UNCHANGED <<copies, connected, editor>>
      /\ fired' = fired \cup {<<id, events[id].starts>> : id \in Due}
  BY <1>1 DEF Check
<1>4. \A e \in Editors : editor[e] = Filling
  BY DEF Busy
<1>5. \A e \in Editors : editor[e].at # "write"
  BY <1>4, FormKinds
<1>6. ASSUME NEW id \in DOMAIN events
      PROVE  /\ events[id] \in RowRec /\ ShownTo(events[id]) /\ E[id] \in RowRec
             /\ E[id] = events[id] \/ E[id] = Fire(events[id])
  BY <1>2, <1>3 DEF EventsTyped
<1>7. ASSUME NEW id \in EventIds
      PROVE  IF id \in DOMAIN E THEN Mirrored(E[id], id, copies, connected) ELSE Of(copies, id) = {}
  <2>1. IF id \in DOMAIN events THEN Mirrored(events[id], id, copies, connected) ELSE Of(copies, id) = {}
    BY <1>5 DEF CalmEventsOK, AllMirrored
  <2>2. CASE id \in DOMAIN events
    <3>1. PICK row : row = events[id]
      OBVIOUS
    <3>2. PICK new : new = E[id]
      OBVIOUS
    <3>3. /\ row \in RowRec /\ ShownTo(row) /\ new \in RowRec /\ (new = row \/ new = Fire(row))
          /\ Mirrored(row, id, copies, connected)
      BY <1>6, <2>1, <2>2, <3>1, <3>2
    <3>4. new.by = row.by /\ new.sync = row.sync /\ new.copy = row.copy
      BY <3>3, FiredRow
    <3>5. \A c \in Of(copies, id) : copies[c] \in CopyRec
      BY DEF Of, EventsTyped
    <3>6. \A c \in Of(copies, id) : Follows(new, copies[c])
      BY <3>3, <3>5, FollowsOn DEF Mirrored
    <3>7. Mirrored(new, id, copies, connected)
      BY <3>3, <3>4, <3>6 DEF Mirrored
    <3> QED BY <1>2, <2>2, <3>2, <3>7
  <2>3. CASE id \notin DOMAIN events
    BY <1>2, <2>1, <2>3
  <2> QED BY <2>2, <2>3
<1>8. AllMirrored(E, copies, editor', connected)
  BY <1>7 DEF AllMirrored
<1>9. FiredBefore(E, fired')
  <2> SUFFICES ASSUME NEW o \in fired' PROVE o[1] \in DOMAIN E /\ o[2] \in Nat /\ (o[2] < E[o[1]].starts \/ E[o[1]].notified)
    BY DEF FiredBefore
  <2>1. CASE o \in fired
    <3>1. o[1] \in DOMAIN events /\ o[2] \in Nat /\ (o[2] < events[o[1]].starts \/ events[o[1]].notified)
      BY <2>1 DEF CalmEventsOK, FiredBefore
    <3>2. CASE o[1] \in Due
      <4>1. PICK row : row = events[o[1]]
        OBVIOUS
      <4>2. PICK new : new = E[o[1]]
        OBVIOUS
      <4>3. row \in RowRec /\ ShownTo(row) /\ new = Fire(row) /\ (o[2] < row.starts \/ row.notified)
        BY <1>2, <1>6, <3>1, <3>2, <4>1, <4>2
      <4>4. ~row.notified
        BY <3>2, <4>1 DEF Due
      <4>5. IF row.repeat = 0 THEN new.notified = TRUE ELSE new.starts = row.starts + row.repeat
        BY <4>3, FiredRow
      <4>6. o[2] < new.starts \/ new.notified
        BY <3>1, <4>3, <4>4, <4>5, RowFields
      <4> QED BY <1>2, <3>1, <4>2, <4>6
    <3>3. CASE o[1] \notin Due
      BY <1>2, <3>1, <3>3
    <3> QED BY <3>2, <3>3
  <2>2. CASE o \notin fired
    <3>1. PICK id \in Due : o = <<id, events[id].starts>>
      BY <1>3, <2>2
    <3>2. PICK row : row = events[id]
      OBVIOUS
    <3>3. id \in DOMAIN events /\ row \in RowRec /\ ShownTo(row) /\ E[id] = Fire(row)
      BY <1>2, <1>6, <3>1, <3>2 DEF Due
    <3>4. IF row.repeat = 0 THEN E[id].notified = TRUE ELSE E[id].starts = row.starts + row.repeat
      BY <3>3, FiredRow
    <3>5. row.starts < E[id].starts \/ E[id].notified
      BY <3>3, <3>4, RowFields
    <3>6. o[1] = id /\ o[2] = row.starts /\ o[2] \in Nat
      BY <3>1, <3>2, <3>3, RowFields
    <3> QED BY <1>2, <3>3, <3>5, <3>6
  <2> QED BY <2>1, <2>2
<1>10. FormsFit(E, copies, editor', connected) /\ OneEdits(editor')
  BY <1>3, <1>4 DEF FormsFit, OneEdits
<1> QED BY <1>3, <1>8, <1>9, <1>10 DEF CalmEventsOK

(* Whoever the scope names is in the lists it derives.                      *)
LEMMA ScopedAreShown ==
  ASSUME EventsTyped
  PROVE  RemindedCanSee
<1> SUFFICES ASSUME NEW id \in DOMAIN events, NEW p \in Recipients(events[id])
             PROVE  p \in Seers(events[id])
  BY DEF RemindedCanSee
<1>1. PICK row : row = events[id]
  OBVIOUS
<1>2. row \in RowRec /\ ShownTo(row) /\ p \in Recipients(row)
  BY <1>1 DEF EventsTyped
<1>3. PICK s \in Scopes : s = row.scope
  BY <1>2, RowFields
<1>4. s.kind \in {"self", "global", "group", "user"}
  BY ScopeKinds
<1>5. p = row.by => p \in Seers(row)
  BY DEF Seers
<1>6. ASSUME p # row.by, s.kind = "user" PROVE p \in Seers(row)
  <2>1. p = s.target
    BY <1>2, <1>3, <1>6 DEF Recipients
  <2> QED BY <1>2, <1>3, <1>6, <2>1 DEF ShownTo, Seers
<1>7. ASSUME p # row.by, s.kind = "group" PROVE p \in Seers(row)
  <2>1. p \in People /\ GroupOf[p] = s.target
    BY <1>2, <1>3, <1>7 DEF Recipients
  <2> QED BY <1>2, <1>3, <1>7, <2>1 DEF ShownTo, Seers
<1>8. ASSUME p # row.by, s.kind = "global" PROVE p \in Seers(row)
  <2>1. p \in People
    BY <1>2, <1>3, <1>8 DEF Recipients
  <2> QED BY <1>3, <1>8, <2>1 DEF Seers
<1>9. s.kind = "self" => p = row.by
  BY <1>2, <1>3 DEF Recipients
<1>10. p \in Seers(row)
  BY <1>4, <1>5, <1>6, <1>7, <1>8, <1>9
<1> QED BY <1>1, <1>10

LEMMA FiresOnceWhenCalm ==
  ASSUME EventsTyped, CalmEventsOK
  PROVE  FiresOnce
<1> SUFFICES ASSUME NEW id \in Due, <<id, events[id].starts>> \in fired
             PROVE  FALSE
  BY DEF FiresOnce
<1>1. id \in DOMAIN events /\ ~events[id].notified /\ events[id].starts \in Nat
  BY RowFields DEF Due, EventsTyped
<1>2. PICK t \in Nat : t = events[id].starts
  BY <1>1
<1>3. PICK o : o = <<id, t>> /\ o \in fired
  BY <1>2
<1>4. o[1] = id /\ o[2] = t
  BY <1>3
<1>5. t < events[id].starts \/ events[id].notified
  BY <1>3, <1>4 DEF CalmEventsOK, FiredBefore
<1> QED BY <1>1, <1>2, <1>5

LEMMA MirrorsWhenCalm ==
  ASSUME EventsTyped, CalmEventsOK
  PROVE  CalendarsMirror
<1> SUFFICES ASSUME NEW id \in DOMAIN events, NEW row, row = events[id],
                    \A e \in Editors : editor[e].at \in {"google", "write"} => editor[e].id # id
             PROVE  /\ row.by \in connected => CopiesOf(id) = (IF row.sync THEN {row.copy} ELSE {})
                    /\ \A c \in CopiesOf(id) : SameSeries(row, c)
  BY DEF CalendarsMirror
<1>1. id \in EventIds
  BY DEF EventsTyped
<1>2. Mirrored(row, id, copies, connected)
  BY <1>1 DEF CalmEventsOK, AllMirrored
<1>3. CopiesOf(id) = Of(copies, id)
  BY DEF CopiesOf, Of
<1> QED BY <1>2, <1>3 DEF Mirrored, Follows, SameSeries

LEMMA CalmStep ==
  ASSUME EventsAssumption, EventsTyped, EventsTyped', CalmEventsOK, calm, EventSteps
  PROVE  CalmEventsOK'
<1>1. CalmEvents
  BY DEF EventSteps
<1>2. OneEdits(editor')
  <2>1. Busy' = {e \in Editors : editor'[e] # Filling}
    BY DEF Busy
  <2>2. PICK D : D = editor'
    OBVIOUS
  <2>3. Cardinality({e \in Editors : D[e] # Filling}) <= 1
    BY <1>1, <2>1, <2>2 DEF CalmEvents
  <2>4. OneEdits(D)
    BY <2>3, FewBusy
  <2> QED BY <2>2, <2>4
<1>3. CASE Starting
  BY <1>1, <1>2, <1>3, StartCalm DEF CalmEvents
<1>4. CASE Editing
  BY <1>2, <1>4, ChangeCalm, PushCalm, WriteCalm DEF Editing
<1>5. CASE Check
  <2>1. CASE Busy = {}
    BY <1>5, <2>1, CheckCalm
  <2>2. CASE Busy # {}
    <3>1. events' = events
      BY <1>1, <1>5, <2>2 DEF CalmEvents, Check
    <3>2. PICK id \in Due : TRUE
      BY <1>5 DEF Check
    <3>3. PICK row : row = events[id]
      OBVIOUS
    <3>4. row \in RowRec /\ ShownTo(row) /\ ~row.notified /\ id \in DOMAIN events
      BY <3>2, <3>3 DEF Due, EventsTyped
    <3>5. row = Fire(row)
      BY <1>5, <3>1, <3>2, <3>3, <3>4 DEF Check
    <3>6. IF row.repeat = 0 THEN row.notified = TRUE ELSE row.starts = row.starts + row.repeat
      BY <3>4, <3>5, FiredRow
    <3> QED BY <3>4, <3>6, RowFields
  <2> QED BY <2>1, <2>2
<1>6. CASE Pass
  BY <1>6 DEF Pass, CalmEventsOK
<1>7. CASE \E e \in Editors : PushSkipped(e) /\ editor[e].who \notin connected
  BY <1>2, <1>7, SkipCalm
<1> QED BY <1>3, <1>4, <1>5, <1>6, <1>7 DEF EventSteps

LEMMA EventsMove ==
  [MCNext]_<<first, second, service, calm>> =>
    /\ UNCHANGED <<service, calm>>
    /\ (service = "events" /\ EventSteps) \/ UNCHANGED eventsVars
  BY DEF MCNext, first, second

(* For any people, editors, events and calendars: whoever is reminded of an *)
(* event may see it; and with one edit at a time, by the author, with no    *)
(* failures, a reminder fires once for a time that was set, and the         *)
(* calendars hold one copy of what is synced and of nothing else.           *)
THEOREM RemindersAndCalendars == MCSpec => []EventsSound
<1>1. MCInit => EventsIInv
  <2> SUFFICES ASSUME MCInit PROVE EventsIInv
    OBVIOUS
  <2>1. CASE service = "events"
    <3>1. /\ clock = 0 /\ events = <<>> /\ copies = <<>> /\ editor = [e \in Editors |-> Filling] /\ fired = {}
      BY <2>1 DEF MCInit, EventsInit
    <3>2. DOMAIN events = {} /\ DOMAIN copies = {} /\ \A e \in Editors : editor[e] = Filling
      BY <3>1
    <3>3. EventsTyped
      BY <3>1, <3>2 DEF EventsTyped
    <3>4. OneEdits(editor) /\ FormsFit(events, copies, editor, connected) /\ FiredBefore(events, fired)
      BY <3>1, <3>2 DEF OneEdits, FormsFit, FiredBefore
    <3>5. AllMirrored(events, copies, editor, connected)
      BY <3>2 DEF AllMirrored, Of
    <3> QED BY <2>1, <3>3, <3>4, <3>5 DEF EventsIInv, EventsInv, CalmEventsOK
  <2>2. CASE service # "events"
    BY <2>2 DEF MCInit, NoEvents, EventsIInv
  <2> QED BY <2>1, <2>2
<1>2. EventsIInv /\ [MCNext]_<<first, second, service, calm>> => EventsIInv'
  <2> SUFFICES ASSUME EventsIInv, [MCNext]_<<first, second, service, calm>> PROVE EventsIInv'
    OBVIOUS
  <2>1. UNCHANGED <<service, calm>>
    BY EventsMove
  <2>2. CASE UNCHANGED eventsVars
    BY <2>1, <2>2 DEF eventsVars, EventsIInv, EventsInv, EventsTyped, ShownTo, CalmEventsOK
  <2>3. CASE service = "events" /\ EventSteps
    <3>1. EventsInv
      BY <2>3 DEF EventsIInv
    <3>2. EventsNext
      BY <2>3 DEF EventSteps, EventsNext, Skipping
    <3>3. EventsTyped'
      BY <3>1, <3>2, TypedStep, EventsAssumption DEF EventsInv
    <3>4. calm => CalmEventsOK'
      BY <2>3, <3>1, <3>3, CalmStep, EventsAssumption DEF EventsInv
    <3> QED BY <2>1, <2>3, <3>3, <3>4 DEF EventsIInv, EventsInv
  <2> QED BY <2>2, <2>3, EventsMove
<1>3. EventsIInv => EventsSound
  <2>1. EventsInv => EventsSound
    BY ScopedAreShown, FiresOnceWhenCalm, MirrorsWhenCalm DEF EventsInv, EventsSound
  <2>2. ASSUME events = <<>> PROVE EventsSound
    <3>1. DOMAIN events = {}
      BY <2>2
    <3> QED BY <3>1 DEF EventsSound, RemindedCanSee, FiresOnce, Due, CalendarsMirror
  <2> QED BY <2>1, <2>2 DEF EventsIInv
<1> QED BY <1>1, <1>2, <1>3, PTL DEF MCSpec
=============================================================================
