--------------------------- MODULE DistributionTree ---------------------------
(***************************************************************************)
(* The distribution tree of one source over the overlay, optimizer/plan.go *)
(* and graph.go: the cheapest route to every other node through a bounded  *)
(* number of relays, found by Dijkstra over <<node, relays so far>>, then  *)
(* stitched, nearest node first, into one tree.                            *)
(*                                                                         *)
(* The four vertices of a node and the edges between them are one hop,     *)
(* whose cost is the sum of theirs, and one pass-through; costs are those  *)
(* the flow assignment has converged to and stand still here.  The route   *)
(* to a state of the search is kept with it, where the code keeps a chain  *)
(* of predecessors.                                                        *)
(***************************************************************************)
EXTENDS Naturals, Sequences, Functions

CONSTANTS
  N,            \* nodes
  Source,
  MaxRelayHops, \* "max relays on a path"
  HopCosts, PassCosts \* what hops and passing through may cost

Nodes == 0..N - 1
Barred == 0   \* no link, or one with no capacity
NoParent == N
(* No route returns to its source: every cost is positive.                  *)
Links == {l \in Nodes \X (Nodes \ {Source}) : l[1] # l[2]}

ASSUME TreeAssumption ==
  /\ N \in Nat /\ Source \in Nodes /\ MaxRelayHops \in Nat
  /\ HopCosts \subseteq Nat \ {Barred} /\ PassCosts \subseteq Nat \ {Barred}

VARIABLES
  hop,     \* hop[<<a, b>>]: what sending from a to b costs
  pass,    \* pass[v]: what being a relay costs
  goal,    \* the destination being searched for; N once all have been
  dist,    \* dist[<<v, r>>]: the cheapest way found to v over r relays
  route,   \* route[<<v, r>>]: that way
  heap,    \* entries to look at: [to, dist]
  found,   \* routes to destinations: [hops, cost]
  path, place, \* the route being stitched, and the place in it
  parent, hopCount

treeVars == <<hop, pass, goal, dist, route, heap, found, path, place, parent, hopCount>>
search == <<goal, dist, route, heap>>
stitching == <<path, place, parent, hopCount>>

Origin == <<Source, 0>>
NoPath == <<>>

CostsInit ==
  /\ hop \in [Links -> HopCosts \cup {Barred}]
  /\ pass \in [Nodes -> PassCosts]

SearchInit ==
  /\ goal = 0
  /\ dist = [s \in {Origin} |-> 0] /\ route = [s \in {Origin} |-> <<Source>>]
  /\ heap = {[to |-> Origin, dist |-> 0]}
  /\ found = {}
  /\ path = NoPath /\ place = 0
  /\ parent = [v \in Nodes |-> NoParent]
  /\ hopCount = [v \in {Source} |-> 0]

TreeInit == CostsInit /\ SearchInit

-----------------------------------------------------------------------------
(* shortestPath.                                                           *)
NextGoal ==
  /\ goal' = goal + 1
  /\ dist' = [s \in {Origin} |-> 0] /\ route' = [s \in {Origin} |-> <<Source>>]
  /\ heap' = {[to |-> Origin, dist |-> 0]}

Nearest == {e \in heap : \A f \in heap : e.dist <= f.dist}
Stale(e) == e.dist > dist[e.to]

(* Going on from a node: as the source, or as a relay while there may be    *)
(* one more.                                                                *)
(* Mutant: relays are not counted.                                          *)
RelaysUncounted(s) == 0
Relays(s) == IF s = Origin THEN 0 ELSE s[2] + 1
Forwards(s) == Relays(s) <= MaxRelayHops
Onward(e, b) == e.dist + (IF e.to = Origin THEN 0 ELSE pass[e.to[1]]) + hop[<<e.to[1], b>>]
Better(e) ==
  {b \in Nodes : LET s == <<b, Relays(e.to)>>
                 IN  /\ <<e.to[1], b>> \in Links /\ hop[<<e.to[1], b>>] # Barred
                     /\ s \notin DOMAIN dist \/ Onward(e, b) < dist[s]}

SkipSource ==
  /\ goal = Source /\ NextGoal
  /\ UNCHANGED <<hop, pass, found, stitching>>

Drop(e) ==
  /\ goal \in Nodes \ {Source} /\ e \in Nearest /\ Stale(e)
  /\ heap' = heap \ {e}
  /\ UNCHANGED <<hop, pass, goal, dist, route, found, stitching>>

Expand(e) ==
  /\ goal \in Nodes \ {Source} /\ e \in Nearest /\ ~Stale(e) /\ e.to[1] # goal
  /\ LET r      == Relays(e.to)
         better == IF Forwards(e.to) THEN {<<b, r>> : b \in Better(e)} ELSE {}
         seen   == DOMAIN dist \cup better
     IN  /\ dist' = [s \in seen |-> IF s \in better THEN Onward(e, s[1]) ELSE dist[s]]
         /\ route' = [s \in seen |-> IF s \in better THEN Append(route[e.to], s[1]) ELSE route[s]]
         /\ heap' = (heap \ {e}) \cup {[to |-> s, dist |-> Onward(e, s[1])] : s \in better}
  /\ UNCHANGED <<hop, pass, goal, found, stitching>>

Reach(e) ==
  /\ goal \in Nodes \ {Source} /\ e \in Nearest /\ ~Stale(e) /\ e.to[1] = goal
  /\ found' = found \cup {[hops |-> route[e.to], cost |-> e.dist]}
  /\ NextGoal
  /\ UNCHANGED <<hop, pass, stitching>>

GiveUp ==
  /\ goal \in Nodes \ {Source} /\ heap = {}
  /\ NextGoal
  /\ UNCHANGED <<hop, pass, found, stitching>>

-----------------------------------------------------------------------------
(* buildTree: the routes in the order of their cost; a node's parent is the *)
(* one before it in the first route it is on.                               *)
TakeRoute ==
  /\ goal = N /\ path = NoPath
  /\ \E f \in found :
       /\ \A g \in found : f.cost <= g.cost
       /\ found' = found \ {f}
       /\ path' = f.hops /\ place' = 2
  /\ UNCHANGED <<hop, pass, search, parent, hopCount>>

Stitch ==
  /\ path # NoPath /\ place <= Len(path)
  /\ IF parent[path[place]] = NoParent /\ path[place] # Source
     THEN /\ parent' = [parent EXCEPT ![path[place]] = path[place - 1]]
          /\ hopCount' = [v \in DOMAIN hopCount \cup {path[place]} |->
               IF v = path[place] THEN hopCount[path[place - 1]] + 1 ELSE hopCount[v]]
     ELSE UNCHANGED <<parent, hopCount>>
  /\ place' = place + 1
  /\ UNCHANGED <<hop, pass, search, found, path>>

EndRoute ==
  /\ path # NoPath /\ place > Len(path)
  /\ path' = NoPath /\ place' = 0
  /\ UNCHANGED <<hop, pass, search, found, parent, hopCount>>

TreeNext ==
  \/ SkipSource \/ GiveUp
  \/ \E e \in heap : Drop(e) \/ Expand(e) \/ Reach(e)
  \/ TakeRoute \/ Stitch \/ EndRoute

TreeSpec == TreeInit /\ [][TreeNext]_treeVars

-----------------------------------------------------------------------------
(* Properties.                                                             *)

(* What the search should find: the routes to a node without a cycle and    *)
(* with no more relays than allowed.                                        *)
Routes(d) ==
  {p \in UNION {[1..n -> Nodes] : n \in 2..MaxRelayHops + 2} :
     /\ p[1] = Source /\ p[Len(p)] = d
     /\ \A i, j \in DOMAIN p : i # j => p[i] # p[j]
     /\ \A i \in 2..Len(p) : hop[<<p[i - 1], p[i]>>] # Barred}

StepCost(p, i) == hop[<<p[i - 1], p[i]>>] + (IF i = 2 THEN 0 ELSE pass[p[i - 1]])
CostOfRoute(p) == SumFunction([i \in 2..Len(p) |-> StepCost(p, i)])

(* Whenever the search for a destination ends, with a route or without, it  *)
(* has found the cheapest that the bound on relays allows, and none only    *)
(* where there is none (shortestPath).                                      *)
FindsCheapest ==
  /\ \A e \in Nearest : goal \in Nodes \ {Source} /\ ~Stale(e) /\ e.to[1] = goal =>
       /\ route[e.to] \in Routes(goal)
       /\ \A p \in Routes(goal) : e.dist <= CostOfRoute(p)
  /\ goal \in Nodes \ {Source} /\ heap = {} => Routes(goal) = {}

(* "Every other node receives the source exactly once": at any moment of    *)
(* the stitching, whoever has a parent is one hop further than it, so the   *)
(* parents lead to the source; and in the end all whom a route was found    *)
(* for have one (buildTree).                                                *)
Joined == {v \in Nodes : parent[v] # NoParent}

IsTree ==
  /\ parent[Source] = NoParent /\ hopCount[Source] = 0
  /\ \A v \in Joined :
       /\ parent[v] \in Joined \cup {Source}
       /\ hopCount[v] = hopCount[parent[v]] + 1

ReachesAll ==
  goal = N /\ found = {} /\ path = NoPath =>
    \A v \in Nodes \ {Source} : v \in Joined <=> Routes(v) # {}

(* The tree is sound and built of the cheapest routes.                     *)
TreeBuilt == FindsCheapest /\ IsTree /\ ReachesAll

(* "max relays on a path (1 = at most one intermediary)": the way of the    *)
(* media down the tree passes through no more relays than that.             *)
WithinRelayBound == \A v \in Joined : hopCount[v] <= MaxRelayHops + 1
=============================================================================
