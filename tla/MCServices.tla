------------------------------ MODULE MCServices ------------------------------
(***************************************************************************)
(* Services that share nothing, each in behaviours of its own, in which    *)
(* the others stay as they were at the start: the distribution tree, the   *)
(* flows its costs come from, the shop, images and their cache, private    *)
(* messages, the game of papers, settings.                                 *)
(***************************************************************************)
EXTENDS DistributionTree, FlowAssignment, Shop, Images, Threads, PapersGame, Settings

VARIABLES
  service, \* which
  calm     \* of the shop: no statement fails whose failure nothing makes good

CONSTANTS
  Services, MaxUnits,
  MaxMoves  \* bound: times an image of a behaviour "images" changes its rule or goes

(* What may be exchanged: one set for what is asked about, one for those    *)
(* who ask, one for what else there are two of; each service uses them for  *)
(* its own.                                                                 *)
MCSymmetry == Permutations(Products) \cup Permutations(Requests) \cup Permutations(Currencies)

(* Costs are those of connections: the same both ways.  The destinations    *)
(* are numbered by what reaching them from the source costs: the order they *)
(* are searched in decides nothing.                                         *)
BothWays ==
  /\ \A v, w \in Nodes \ {Source} : v < w => hop[<<Source, v>>] <= hop[<<Source, w>>]
  /\ \A l \in Links : <<l[2], l[1]>> \in Links => hop[l] = hop[<<l[2], l[1]>>]

(* Two commodities with two routes each, which share an edge, and a pair    *)
(* with none; the shared edge and another have no limit, or one.            *)
MCTrailsOf == [c \in Commodities |-> IF c > 2 THEN {} ELSE {2 * c - 1, 2 * c}]
MCEdgesOf == [p \in Trails |-> IF p % 2 = 1 THEN {p} ELSE {p, 5}]
MCGrowth == [e \in Edges |-> IF e = 3 THEN 0 ELSE 1]

(* Bound: an administrator's edit of settings changes the parameter members *)
(* may set too, or deletes.                                                 *)
MCDefaults == [k \in Params |-> IF k = "theme" THEN "light" ELSE Unset]
Sets(k, v) == [q \in Params |-> IF q = k THEN v ELSE Unset]
UsualSettings ==
  /\ groupsOf = [u \in Members |-> Groups]
  /\ rows = [s \in Scopes |-> CASE s = Everyone -> Sets("theme", "dark") [] s = 1 -> Sets("views", "dark")
                                [] s = 2 -> Sets("theme", "light") [] OTHER -> NoRow]
OwnParamOnly ==
  \A s \in Scopes : rows'[s] # rows[s] /\ rows'[s] # NoRow =>
    {k \in Params : rows'[s][k] # IF rows[s] = NoRow THEN Unset ELSE rows[s][k]} = OwnParams

\* Bound: who is not signed in asks alone.
GuestAlone ==
  (\E t \in Goroutines : job[t].at \notin {"idle", "bump", "bump rights"} /\ job[t].user = Guest)
    => Cardinality({t \in Goroutines : job[t] # Resting}) <= 1

-----------------------------------------------------------------------------
NoCosts == hop = <<>> /\ pass = <<>>
NoShop ==
  /\ cart = <<>> /\ owed = <<>> /\ onSale = {} /\ currency = <<>> /\ enabled = FALSE
  /\ payments = <<>> /\ checkout = <<>> /\ failures = 0 /\ edits = 0

MCInit ==
  /\ service \in Services
  /\ SearchInit /\ ImagesInit /\ ThreadsInit /\ Init /\ FlowInit
  /\ SettingsInit /\ UsualSettings
  /\ service # "flows" => idle = [e \in Edges |-> Min(IdleCosts)]
  /\ IF service = "tree" THEN CostsInit /\ BothWays ELSE NoCosts
  /\ IF service = "shop" THEN ShopInit ELSE NoShop
  /\ calm \in IF service = "shop" THEN BOOLEAN ELSE {FALSE}

(* The catalogue, the lines of the cart and the requests of one buyer.      *)
(* Bounds: the catalogue does not change after a statement failed; requests *)
(* take turns where a failure that nothing makes good may come.             *)
Shopping ==
  /\ \/ failures = 0 /\ EditCatalogue
     \/ \E p \in Products, n \in 0..MaxLine : EditLine(p, n)
     \/ \E r \in Requests : Adding(r) \/ Putting(r) \/ Paying(r) \/ (~calm /\ Unforgiven(r))
  /\ MapThenSumSet(LAMBDA p : owed'[p], Products) <= MaxUnits
  /\ ~calm => Cardinality({r \in Requests : checkout'[r] # NoCheckout}) <= 1

\* Bound: from the last request of a game on one goroutine is at work at a time.
LastAlone == requests = MaxRequests => Cardinality({x \in Workers : worker[x] # Idle}) <= 1

(* The quota is met by several uploads at once, which do not look into the  *)
(* cache; the cache by one at a time.                                       *)
OneUpload == Cardinality({u \in Uploads : upload[u] # NoUpload}) <= 1
FewMoves ==
  Cardinality({p \in Refs \X (Rules \ {Absent}) : left[p[1]][p[2]] # LongAgo}) <= MaxMoves
AtQuota == (\E u \in Uploads : Uploading(u)) \/ (\E ref \in Refs : RemoveImage(ref))

MCNext ==
  /\ \/ service = "tree" /\ TreeNext /\ UNCHANGED <<shopVars, imagesVars, threadsVars, vars, flowVars, settingsVars>>
     \/ service = "shop" /\ Shopping /\ UNCHANGED <<treeVars, imagesVars, threadsVars, vars, flowVars, settingsVars>>
     \/ service = "quota" /\ AtQuota /\ UNCHANGED <<treeVars, shopVars, threadsVars, vars, flowVars, settingsVars>>
     \/ service = "images" /\ ImagesNext /\ OneUpload' /\ FewMoves' /\ UNCHANGED <<treeVars, shopVars, threadsVars, vars, flowVars, settingsVars>>
     \/ service = "papers" /\ Next /\ LastAlone' /\ UNCHANGED <<treeVars, shopVars, imagesVars, threadsVars, flowVars, settingsVars>>
     \/ service = "threads" /\ ThreadsNext /\ UNCHANGED <<treeVars, shopVars, imagesVars, vars, flowVars, settingsVars>>
     \/ service = "flows" /\ FlowNext /\ UNCHANGED <<treeVars, shopVars, imagesVars, threadsVars, vars, settingsVars>>
     \/ service = "settings" /\ SettingsNext /\ OwnParamOnly /\ GuestAlone' /\ UNCHANGED <<treeVars, shopVars, imagesVars, threadsVars, vars, flowVars>>
  /\ UNCHANGED <<service, calm>>

MCSpec == MCInit /\ [][MCNext]_<<treeVars, flowVars, shopVars, imagesVars, threadsVars, vars, settingsVars, service, calm>>

-----------------------------------------------------------------------------
(* UnitsConserved of a calm behaviour.                                     *)
CalmUnitsConserved == calm => UnitsConserved

(* The image cache, and the quota of those that share it: CacheSound and    *)
(* QuotaNearlyKept.                                                         *)
ImagesSound == CacheSound /\ QuotaNearlyKept

(* The tree and the flows its costs come from: TreeBuilt and FlowsSound.    *)
OptimizerSound == TreeBuilt /\ FlowsSound
===============================================================================
