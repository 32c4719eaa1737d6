---------------------------- MODULE FlowAssignment ----------------------------
(***************************************************************************)
(* The flow assignment of the overlay, optimizer/assign.go: Frank-Wolfe    *)
(* from an all-or-nothing start.  Every iteration sends the demands over   *)
(* the routes that are cheapest under the present load, and shifts a part  *)
(* of every flow there; the part, lambda, is where the line search finds   *)
(* the total time smallest.                                                *)
(*                                                                         *)
(* The routes allowed between two nodes are given, with the edges they go  *)
(* over; the marginal cost of an edge is Idle + Growth * load, which grows *)
(* with the load as t0 / (1 - u)^2 does.  Flows are whole units: a lambda  *)
(* strictly between 0 and 1 is the half, and a bound on the iterations     *)
(* keeps the halves whole.                                                 *)
(***************************************************************************)
EXTENDS Integers, FiniteSets, Functions

CONSTANTS
  Commodities, \* pairs of nodes with a demand between them
  Demand,      \* what each sends, in units
  Trails,      \* the routes there are
  TrailsOf,    \* the routes of each commodity: none where a pair is isolated
  Edges,
  EdgesOf,     \* the edges of each route
  IdleCosts,   \* what an edge may cost idle
  Growth,      \* what a unit of load adds to the cost of each edge: 0 without a limit
  MaxIterations

\* The demand halved again and again, which leaves whole units.
Halvings ==
  {h \in [0..MaxIterations -> 0..Demand] : h[0] = Demand /\ \A i \in 1..MaxIterations : h[i - 1] = 2 * h[i]}

ASSUME FlowAssumption ==
  /\ Demand \in Nat \ {0} /\ MaxIterations \in Nat
  /\ TrailsOf \in [Commodities -> SUBSET Trails]
  /\ EdgesOf \in [Trails -> SUBSET Edges]
  /\ IdleCosts \subseteq Nat \ {0} /\ Growth \in [Edges -> Nat]
  /\ IsFiniteSet(Commodities) /\ IsFiniteSet(Trails) /\ IsFiniteSet(Edges)
  /\ Halvings # {}

VARIABLES
  idle,      \* idle[e]: what e costs with nothing on it
  flows,     \* flows[c]: the routes in use by c, with their flows
  load,      \* load[e]: the flow recomputed last for e
  iteration, \* 0 before the all-or-nothing start
  solved     \* solve has returned; "gap" or "iterations" is why

flowVars == <<idle, flows, load, iteration, solved>>

-----------------------------------------------------------------------------
Total(f) == SumFunction(f)
Served == {c \in Commodities : TrailsOf[c] # {}}

(* recomputeEdgeFlows.                                                     *)
LoadOf(fs) ==
  [e \in Edges |->
     SumFunction([c \in Commodities |-> SumFunctionOnSet(fs[c], {p \in DOMAIN fs[c] : e \in EdgesOf[p]})])]

(* graph.marginal and pathMarginal.                                        *)
Marginal(e, x) == idle[e] + Growth[e] * x
TrailMarginal(p) == SumFunctionOnSet([e \in Edges |-> Marginal(e, load[e])], EdgesOf[p])

(* The answers of the search: the cheapest routes of a commodity.          *)
Cheapest(c) == {p \in TrailsOf[c] : \A q \in TrailsOf[c] : TrailMarginal(p) <= TrailMarginal(q)}
Targets == {t \in [Served -> Trails] : \A c \in Served : t[c] \in Cheapest(c)}

AllOn(p) == [q \in {p} |-> Demand]
Unserved == [q \in {} |-> 0]

(* lineSearch, on the derivative along the way to the target: 0 when it     *)
(* only rises, 1 when it only falls, else between.                          *)
TargetFlows(t) == [c \in Commodities |-> IF c \in Served THEN AllOn(t[c]) ELSE flows[c]]
Slope(y, halves) ==
  SumFunction([e \in Edges |->
    (y[e] - load[e]) * (2 * Marginal(e, load[e]) + halves * Growth[e] * (y[e] - load[e]))])
Lambda(t) ==
  LET y == LoadOf(TargetFlows(t))
  IN  IF Slope(y, 0) >= 0 THEN 0 ELSE IF Slope(y, 2) <= 0 THEN 2 ELSE 1

(* A commodity's flows shrink by lambda, its target's grows by as much of   *)
(* the demand, and routes with nothing left are forgotten.                  *)
\* Mutant: a target that is in use already is set instead of raised.
Replaced(f, p, halves) ==
  LET all == [q \in DOMAIN f \cup {p} |-> IF q = p THEN (halves * Demand) \div 2 ELSE ((2 - halves) * f[q]) \div 2]
  IN  Restrict(all, {q \in DOMAIN all : all[q] > 0})

Shifted(f, p, halves) ==
  LET kept(q) == IF q \in DOMAIN f THEN ((2 - halves) * f[q]) \div 2 ELSE 0
      all == [q \in DOMAIN f \cup {p} |-> kept(q) + (IF q = p THEN (halves * Demand) \div 2 ELSE 0)]
  IN  Restrict(all, {q \in DOMAIN all : all[q] > 0})

(* The numerator of the gap: what the flows cost above the cheapest.       *)
CostOf(f) == SumFunction([p \in DOMAIN f |-> f[p] * TrailMarginal(p)])
Excess(t) == SumFunction([c \in Served |-> CostOf(flows[c]) - Demand * TrailMarginal(t[c])])

-----------------------------------------------------------------------------
FlowInit ==
  /\ idle \in [Edges -> IdleCosts]
  /\ flows = [c \in Commodities |-> Unserved]
  /\ load = [e \in Edges |-> 0]
  /\ iteration = 0 /\ solved = "no"

AllOrNothing ==
  /\ iteration = 0 /\ solved = "no"
  /\ \E t \in Targets :
       /\ flows' = [c \in Commodities |-> IF c \in Served THEN AllOn(t[c]) ELSE Unserved]
       /\ load' = LoadOf(flows')
  /\ iteration' = 1
  /\ UNCHANGED <<idle, solved>>

(* The gap is within the tolerance when it is nothing.                     *)
Converged(t) == Excess(t) = 0 /\ iteration > 1

Iterate ==
  /\ iteration \in 1..MaxIterations /\ solved = "no"
  /\ \E t \in Targets :
       /\ ~Converged(t)
       /\ flows' = [c \in Commodities |-> IF c \in Served THEN Shifted(flows[c], t[c], Lambda(t)) ELSE flows[c]]
       /\ load' = LoadOf(flows')
  /\ iteration' = iteration + 1
  /\ UNCHANGED <<idle, solved>>

Stop ==
  /\ iteration > 0 /\ solved = "no"
  /\ \/ iteration > MaxIterations /\ solved' = "iterations"
     \/ iteration <= MaxIterations /\ (\E t \in Targets : Converged(t)) /\ solved' = "gap"
  /\ UNCHANGED <<idle, flows, load, iteration>>

FlowNext == AllOrNothing \/ Iterate \/ Stop

FlowSpec == FlowInit /\ [][FlowNext]_flowVars

-----------------------------------------------------------------------------
(* Properties.                                                             *)

(* However the flows were shifted and routes forgotten, each served demand  *)
(* is sent whole, over routes of its own, and the load of every edge is     *)
(* what goes over it: the fractions of buildResult add up to one, and the   *)
(* costs the trees are made from are those of the flows (solve).            *)
DemandSent ==
  iteration > 0 =>
    /\ \A c \in Served : Total(flows[c]) = Demand /\ DOMAIN flows[c] \subseteq TrailsOf[c]
    /\ load = LoadOf(flows)

(* Where the gap ended the iterations, every route in use is a cheapest one *)
(* under the load there is: no gap of the sum hides a dear route (solve).   *)
UsesCheapest ==
  solved = "gap" => \A c \in Served : DOMAIN flows[c] \subseteq Cheapest(c)

(* Both.                                                                   *)
FlowsSound == DemandSent /\ UsesCheapest
===============================================================================
