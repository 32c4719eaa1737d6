------------------------------ MODULE AccessRules ------------------------------
(***************************************************************************)
(* Rules that let clients in or not (controllers/accesslog): rows of a     *)
(* table, kept in memory for a while, by which every request is decided,   *)
(* and the host's firewall, which is made to follow those rules that ask   *)
(* for it.  A rule names addresses, a kind of client (its User-Agent), or  *)
(* both.                                                                   *)
(*                                                                         *)
(* A range of addresses is a set of them; the firewall takes a command     *)
(* whole or not at all.                                                    *)
(***************************************************************************)
EXTENDS Naturals, FiniteSets

CONSTANTS
  Rules,      \* rows that may be enabled: [id, ips, agent, allow, priority, firewall]
  IPs, Agents,
  Loaders,    \* requests that may reload the rules at once
  MaxRuleEdits, \* bound: edits of the table
  MaxExpired, \* bound: times the rules in memory expire
  MaxTroubles \* bound: failures and restarts

AnyIP == {}
AnyAgent == "any"

ASSUME AccessRulesAssumption ==
  /\ \A r \in Rules : r.ips \subseteq IPs /\ r.agent \in Agents \cup {AnyAgent}
  /\ AnyAgent \notin Agents
  /\ \A r, s \in Rules : r.id = s.id => r = s

VARIABLES
  enabled,   \* the table's enabled rows
  rules,     \* in memory
  fresh,     \* whether they are younger than rulesTTL
  loader,    \* what each request that reloads has read, or NotLoading
  waiting,   \* goroutines that are to reconcile the firewall, by their rules
  reconcile, \* the one that holds fwMu: what it has yet to deny and to lift
  applied,   \* fwApplied
  uaBlocked,\* uaBlocked
  toBlock,   \* goroutines that are to block an address for its agent
  ranges,    \* what the firewall denies
  ruleEdits, expired, troubles

accessVars ==
  <<enabled, rules, fresh, loader, waiting, reconcile, applied, uaBlocked, toBlock, ranges,
    ruleEdits, expired, troubles>>
wall == <<reconcile, applied, uaBlocked, toBlock, ranges>>
counters == <<ruleEdits, expired, troubles>>

NotLoading == [on |-> FALSE, rules |-> {}]
Resting == [on |-> FALSE, deny |-> {}, lift |-> {}]

AccessInit ==
  /\ enabled \in SUBSET Rules /\ rules = enabled /\ fresh = TRUE
  /\ loader = [l \in Loaders |-> NotLoading]
  /\ waiting = {rules} /\ reconcile = Resting
  /\ applied = {} /\ uaBlocked = {} /\ toBlock = {} /\ ranges = {}
  /\ ruleEdits = 0 /\ expired = 0 /\ troubles = 0

-----------------------------------------------------------------------------
(* Decision: the first rule that fits, by priority.                         *)
Fits(r, ip, agent) ==
  /\ r.ips # AnyIP \/ r.agent # AnyAgent
  /\ r.ips = AnyIP \/ ip \in r.ips
  /\ r.agent = AnyAgent \/ r.agent = agent
Before(r, s) == r.priority < s.priority \/ (r.priority = s.priority /\ r.id <= s.id)
Deciding(in, ip, agent) ==
  {r \in in : Fits(r, ip, agent) /\ \A s \in in : Fits(s, ip, agent) => Before(r, s)}
Allowed(in, ip, agent) == \A r \in Deciding(in, ip, agent) : r.allow

(* A request from an address the firewall lets through.  With rules that    *)
(* are not fresh it reloads them first.                                     *)
Denied(ip) == \E c \in ranges : ip \in c
Decide(ip, agent) ==
  /\ fresh /\ ~Denied(ip)
  /\ \E r \in Deciding(rules, ip, agent) :
       /\ r.ips = AnyIP /\ ~r.allow /\ r.firewall
       /\ toBlock' = toBlock \cup {ip}
  /\ UNCHANGED <<enabled, rules, fresh, loader, waiting, reconcile, applied, uaBlocked, ranges, counters>>

Read(l) ==
  /\ ~fresh /\ ~loader[l].on /\ \E ip \in IPs : ~Denied(ip)
  /\ loader' = [loader EXCEPT ![l] = [on |-> TRUE, rules |-> enabled]]
  /\ UNCHANGED <<enabled, rules, fresh, waiting, wall, counters>>

Store(l) ==
  /\ loader[l].on
  /\ rules' = loader[l].rules /\ fresh' = TRUE
  /\ waiting' = waiting \cup {loader[l].rules}
  /\ loader' = [loader EXCEPT ![l] = NotLoading]
  /\ UNCHANGED <<enabled, wall, counters>>

(* On an error the last set serves another while (markLoaded).              *)
ReadFails ==
  /\ ~fresh /\ fresh' = TRUE
  /\ UNCHANGED <<enabled, rules, loader, waiting, wall, counters>>

ExpireRules ==
  /\ fresh /\ expired < MaxExpired /\ fresh' = FALSE /\ expired' = expired + 1
  /\ UNCHANGED <<enabled, rules, loader, waiting, wall, ruleEdits, troubles>>

Edit(r) ==
  /\ ruleEdits < MaxRuleEdits /\ ruleEdits' = ruleEdits + 1
  /\ enabled' = IF r \in enabled THEN enabled \ {r} ELSE enabled \cup {r}
  /\ UNCHANGED <<rules, fresh, loader, waiting, wall, expired, troubles>>

-----------------------------------------------------------------------------
(* ReconcileFirewall; whoever gets the lock goes first.                     *)
Want(in) == {r.ips : r \in {s \in in : s.firewall /\ ~s.allow /\ s.ips # AnyIP}}

Lock ==
  /\ ~reconcile.on
  /\ \E w \in waiting :
       /\ reconcile' = [on |-> TRUE, deny |-> Want(w) \ applied, lift |-> applied \ Want(w)]
       /\ waiting' = waiting \ {w}
  /\ UNCHANGED <<enabled, rules, fresh, loader, applied, uaBlocked, toBlock, ranges, counters>>

Tried(ok) == troubles' = (IF ok THEN troubles ELSE troubles + 1) /\ troubles' <= MaxTroubles

Deny(c, ok) ==
  /\ c \in reconcile.deny /\ reconcile' = [reconcile EXCEPT !.deny = @ \ {c}]
  /\ IF ok THEN ranges' = ranges \cup {c} /\ applied' = applied \cup {c} ELSE UNCHANGED <<ranges, applied>>
  /\ Tried(ok)
  /\ UNCHANGED <<enabled, rules, fresh, loader, waiting, uaBlocked, toBlock, ruleEdits, expired>>

(* Mutant: a range is dropped from memory and stays in the firewall.        *)
ForgetOnly(c) == ranges
Lifted(c) == ranges \ {c}

Lift(c, ok) ==
  /\ reconcile.deny = {} /\ c \in reconcile.lift
  /\ reconcile' = [reconcile EXCEPT !.lift = @ \ {c}]
  /\ IF ok THEN ranges' = Lifted(c) /\ applied' = applied \ {c} ELSE UNCHANGED <<ranges, applied>>
  /\ Tried(ok)
  /\ UNCHANGED <<enabled, rules, fresh, loader, waiting, uaBlocked, toBlock, ruleEdits, expired>>

Unlock ==
  /\ reconcile.on /\ reconcile.deny = {} /\ reconcile.lift = {} /\ reconcile' = Resting
  /\ UNCHANGED <<enabled, rules, fresh, loader, waiting, applied, uaBlocked, toBlock, ranges, counters>>

(* blockIPForUARule: it is uaBlocked, whether it worked or not.            *)
Block(ip, ok) ==
  /\ ip \in toBlock /\ toBlock' = toBlock \ {ip}
  /\ uaBlocked' = uaBlocked \cup {ip}
  /\ ranges' = IF ok /\ ip \notin uaBlocked THEN ranges \cup {{ip}} ELSE ranges
  /\ UNCHANGED <<enabled, rules, fresh, loader, waiting, reconcile, applied, counters>>

(* The firewall outlives the server.                                        *)
RestartServer ==
  /\ troubles < MaxTroubles /\ troubles' = troubles + 1
  /\ rules' = enabled /\ fresh' = TRUE /\ loader' = [l \in Loaders |-> NotLoading]
  /\ waiting' = {enabled} /\ reconcile' = Resting
  /\ applied' = {} /\ uaBlocked' = {} /\ toBlock' = {}
  /\ UNCHANGED <<enabled, ranges, ruleEdits, expired>>

-----------------------------------------------------------------------------
Ruling ==
  \/ \E ip \in IPs, agent \in Agents : Decide(ip, agent)
  \/ \E l \in Loaders : Read(l) \/ Store(l)
  \/ \E r \in Rules : Edit(r)
  \/ ExpireRules \/ ReadFails
Walling ==
  \/ Lock \/ Unlock
  \/ \E c \in SUBSET IPs : Deny(c, TRUE) \/ Lift(c, TRUE)
  \/ \E ip \in toBlock : Block(ip, TRUE)
Troubling ==
  \/ RestartServer
  \/ \E c \in SUBSET IPs : Deny(c, FALSE) \/ Lift(c, FALSE)
  \/ \E ip \in toBlock : Block(ip, FALSE)

AccessNext == Ruling \/ Walling \/ Troubling

AccessSpec == AccessInit /\ [][AccessNext]_accessVars

-----------------------------------------------------------------------------
(* Properties.                                                             *)

(* What the server remembers as denied by the firewall is, whatever has     *)
(* failed and in whatever order the rounds went: else it would neither deny *)
(* it again nor lift it (fwApplied).                                        *)
AppliedIsDenied == applied \subseteq ranges

(* Between rounds, the firewall denies the ranges of the rules in memory,   *)
(* and nothing else but addresses met with a denied agent ("makes ufw match *)
(* the firewall-flagged deny rules").                                       *)
Settled == waiting = {} /\ ~reconcile.on
FirewallFollows ==
  Settled => /\ applied = Want(rules)
             /\ ranges \ applied \subseteq {{ip} : ip \in uaBlocked}
================================================================================
