--------------------------- MODULE MeshCoordinator ---------------------------
(***************************************************************************)
(* One room of the mesh call coordinator,                                  *)
(* go/engine/controllers/mesh/coordinator.go.  Rooms share nothing but the *)
(* lock and the relay switch, so one room is the unit that is checked.     *)
(*                                                                         *)
(* Clients POST their link measurements (ReportLink: Report, then Plan),   *)
(* poll the plan (GetPlan), or crash; an operator flips the relay switch.  *)
(* A call of Plan is four steps, because it takes the coordinator's lock   *)
(* three times and runs the hooks under none:                              *)
(*   PlanBegin   prune the silent peers and copy the room (locked)         *)
(*   PlanDecide  build the plan from the copy, then set serverEngaged      *)
(*   PlanAppend  record the plan in the room's history (locked)            *)
(*   PlanHook    hand the plan to the registered hooks (not locked)        *)
(***************************************************************************)
EXTENDS Integers, FiniteSets, Sequences

CONSTANTS
  Peers,            \* the user ids that may join the room
  Handlers,         \* goroutines serving requests
  StaleAfter,       \* ticks without a report before Plan evicts a peer
  EngagePeerCount,  \* engageServerPeerCount
  MaxHistory,       \* maxHistoryPoints
  MaxGeneration,    \* bound: reports accepted by one incarnation of the room
  MaxCrashes        \* bound: clients that die

ASSUME CoordinatorAssumption ==
  /\ StaleAfter \in Nat
  /\ EngagePeerCount \in Nat
  /\ MaxHistory \in Nat \ {0}
  /\ MaxGeneration \in Nat
  /\ MaxCrashes \in Nat

VARIABLES
  exists,          \* is there a roomState under this id in c.rooms
  seat,            \* order: the generation at which a peer was appended, 0 = not there
  reports,         \* reports: the generation of a peer's latest report, 0 = none
  age,             \* lastSeen, as the ticks since the peer's latest report
  generation,      \* bumped by every Report
  lastHistoryGen,  \* generation last recorded into history
  history,         \* recorded plans, oldest first
  engaged,         \* serverEngaged
  enabled,         \* serverRelayEnabled, common to all rooms
  pc,              \* where each handler is
  snap,            \* the copy of the room Plan took under the lock
  env,             \* the envelope Plan will return
  published,       \* the envelope the hooks received last
  crashed          \* clients that died without leaving

roomVars == <<exists, seat, reports, age, generation, lastHistoryGen, history, engaged>>
handlerVars == <<pc, snap, env>>
vars == <<roomVars, enabled, handlerVars, published, crashed>>

(* Utilisation of a plan: below the lower threshold, between the two, or at *)
(* or over the upper one.  The optimizer's numbers are chosen freely.       *)
Cool == 0
Warm == 1
Hot  == 2
Util == {Cool, Warm, Hot}

Stamp == 0..MaxGeneration
Envelope == [built: BOOLEAN, order: SUBSET Peers, server: BOOLEAN, gen: Stamp]
NoEnvelope == [built |-> FALSE, order |-> {}, server |-> FALSE, gen |-> 0]
Snapshot == [order: SUBSET Peers, reports: [Peers -> Stamp], gen: Stamp,
             enabled: BOOLEAN, wasEngaged: BOOLEAN]
NoSnapshot == [order |-> {}, reports |-> [p \in Peers |-> 0], gen |-> 0,
               enabled |-> FALSE, wasEngaged |-> FALSE]
HistoryPoint == [at: Stamp, gen: Stamp, server: BOOLEAN]

Members == {p \in Peers : seat[p] # 0}

\* Mutant: pruneStale evicts nobody.
NeverStale == Members

Fresh == {p \in Members : age[p] <= StaleAfter}

-----------------------------------------------------------------------------
(* The state of a room that has just been made, and of one that is not in  *)
(* the map.                                                                *)
EmptyRoom ==
  /\ seat' = [p \in Peers |-> 0]
  /\ reports' = [p \in Peers |-> 0]
  /\ age' = [p \in Peers |-> 0]
  /\ generation' = 0
  /\ lastHistoryGen' = 0
  /\ history' = <<>>
  /\ engaged' = FALSE

DeleteRoom == exists' = FALSE /\ EmptyRoom

Init ==
  /\ exists = FALSE
  /\ seat = [p \in Peers |-> 0]
  /\ reports = [p \in Peers |-> 0]
  /\ age = [p \in Peers |-> 0]
  /\ generation = 0
  /\ lastHistoryGen = 0
  /\ history = <<>>
  /\ engaged = FALSE
  /\ enabled = TRUE
  /\ pc = [h \in Handlers |-> "idle"]
  /\ snap = [h \in Handlers |-> NoSnapshot]
  /\ env = [h \in Handlers |-> NoEnvelope]
  /\ published = NoEnvelope
  /\ crashed = {}

(* Operations that hold the lock throughout.                               *)

\* Mutant: Report appends the peer without asking whether it was seen.
ReportAppendsAlways(p) ==
  /\ generation < MaxGeneration
  /\ exists' = TRUE
  /\ seat' = [seat EXCEPT ![p] = generation + 1]
  /\ reports' = [reports EXCEPT ![p] = generation + 1]
  /\ age' = [age EXCEPT ![p] = 0]
  /\ generation' = generation + 1
  /\ UNCHANGED <<lastHistoryGen, history, engaged>>

Report(p) ==
  /\ generation < MaxGeneration
  /\ exists' = TRUE
  /\ seat' = [seat EXCEPT ![p] = IF reports[p] = 0 THEN generation + 1 ELSE @]
  /\ reports' = [reports EXCEPT ![p] = generation + 1]
  /\ age' = [age EXCEPT ![p] = 0]
  /\ generation' = generation + 1
  /\ UNCHANGED <<lastHistoryGen, history, engaged>>

\* Mutant: the handler answers a report with the plan it already has.
ReportWithoutPlan(h, p) ==
  /\ pc[h] = "idle"
  /\ p \notin crashed
  /\ Report(p)
  /\ UNCHANGED <<enabled, handlerVars, published, crashed>>

\* Mutant: a report is recorded while the same handler is still planning.
ReportWhilePlanning(h, p) ==
  /\ p \notin crashed
  /\ Report(p)
  /\ pc' = [pc EXCEPT ![h] = IF @ = "idle" THEN "plan" ELSE @]
  /\ UNCHANGED <<enabled, snap, env, published, crashed>>

(* handler.go ReportLink: Report, then Plan in the same goroutine.         *)
ReportLink(h, p) ==
  /\ pc[h] = "idle"
  /\ p \notin crashed
  /\ Report(p)
  /\ pc' = [pc EXCEPT ![h] = "plan"]
  /\ UNCHANGED <<enabled, snap, env, published, crashed>>

Remove(p) ==
  /\ exists
  /\ IF Members \subseteq {p}
       THEN DeleteRoom
       ELSE /\ reports' = [reports EXCEPT ![p] = 0]
            /\ seat' = [seat EXCEPT ![p] = 0]
            /\ UNCHANGED <<exists, age, generation, lastHistoryGen, history, engaged>>
  /\ UNCHANGED <<enabled, handlerVars, published, crashed>>

(* The measured link itself is never read back; making the room is.        *)
ReportServerLink ==
  /\ ~exists
  /\ exists' = TRUE
  /\ EmptyRoom
  /\ UNCHANGED <<enabled, handlerVars, published, crashed>>

SetServerRelayEnabled ==
  /\ enabled' = ~enabled
  /\ UNCHANGED <<roomVars, handlerVars, published, crashed>>

-----------------------------------------------------------------------------
(* Plan.                                                                   *)

\* Mutant: the reports of silent peers are deleted, their order entries stay.
PruneKeepsOrder ==
  IF Fresh = {}
    THEN DeleteRoom
    ELSE /\ reports' = [p \in Peers |-> IF p \in Members \ Fresh THEN 0 ELSE reports[p]]
         /\ age' = [p \in Peers |-> IF p \in Members \ Fresh THEN 0 ELSE age[p]]
         /\ UNCHANGED <<exists, seat, generation, lastHistoryGen, history, engaged>>

Prune ==
  IF Fresh = {}
    THEN DeleteRoom
    ELSE /\ reports' = [p \in Peers |-> IF p \in Members \ Fresh THEN 0 ELSE reports[p]]
         /\ age' = [p \in Peers |-> IF p \in Members \ Fresh THEN 0 ELSE age[p]]
         /\ seat' = [p \in Peers |-> IF reports'[p] = 0 THEN 0 ELSE seat[p]]
         /\ UNCHANGED <<exists, generation, lastHistoryGen, history, engaged>>

PlanBegin(h) ==
  /\ IF ~exists THEN UNCHANGED roomVars ELSE Prune
  /\ IF exists'
       THEN /\ pc' = [pc EXCEPT ![h] = "decide"]
            /\ snap' = [snap EXCEPT ![h] =
                 [order |-> {p \in Peers : seat'[p] # 0}, reports |-> reports',
                  gen |-> generation, enabled |-> enabled, wasEngaged |-> engaged]]
       ELSE pc' = [pc EXCEPT ![h] = "hook"] /\ UNCHANGED snap
  /\ UNCHANGED <<enabled, env, published, crashed>>

(* A client polls its plan, or goes on to plan after its own report.  When *)
(* every client has died nobody polls.                                     *)
GetPlan(h) ==
  /\ \/ pc[h] = "plan"
     \/ pc[h] = "idle" /\ crashed # Peers
  /\ PlanBegin(h)

(* Snapshot and RoomMatrix, the admin's views, plan the room again.        *)
AdminPlan(h) ==
  /\ pc[h] = "idle"
  /\ PlanBegin(h)

Waiting(s) == {p \in s.order : s.reports[p] = 0}

BuildPlanFor(s, server) ==
  IF Cardinality(s.order) < 2 \/ Waiting(s) # {}
    THEN NoEnvelope
    ELSE [built |-> TRUE, order |-> s.order, server |-> server, gen |-> s.gen]

NeedsServer(s, util) ==
  \/ util >= (IF s.wasEngaged THEN Warm ELSE Hot)
  \/ Cardinality(s.order) >= EngagePeerCount

\* Mutant: the kill switch is not consulted.
InjectIgnoresSwitch(s, util) == BuildPlanFor(s, FALSE).built /\ NeedsServer(s, util)

Inject(s, util) == s.enabled /\ BuildPlanFor(s, FALSE).built /\ NeedsServer(s, util)

\* Mutant: the flag is set but never cleared.
SetServerEngagedSticks(e) == engaged' = (exists /\ (engaged \/ e))

SetServerEngaged(e) == engaged' = (exists /\ e)

PlanDecide(h) ==
  /\ pc[h] = "decide"
  /\ \E util \in Util :
       LET s == snap[h]
           human == BuildPlanFor(s, FALSE)
           inject == Inject(s, util)
       IN  /\ env' = [env EXCEPT ![h] = IF inject THEN BuildPlanFor(s, TRUE) ELSE human]
           /\ SetServerEngaged(inject)
           /\ pc' = [pc EXCEPT ![h] = IF human.built THEN "append" ELSE "hook"]
  /\ snap' = [snap EXCEPT ![h] = NoSnapshot]
  /\ UNCHANGED <<exists, seat, reports, age, generation, lastHistoryGen, history,
                 enabled, published, crashed>>

LastPoints(s) ==
  IF Len(s) > MaxHistory THEN SubSeq(s, Len(s) - MaxHistory + 1, Len(s)) ELSE s

\* Mutant: every call of Plan is recorded.
PlanAppendAlways(h) ==
  /\ pc[h] = "append"
  /\ pc' = [pc EXCEPT ![h] = "hook"]
  /\ IF ~exists
       THEN UNCHANGED <<lastHistoryGen, history>>
       ELSE /\ lastHistoryGen' = generation
            /\ history' = LastPoints(Append(history,
                 [at |-> generation, gen |-> env[h].gen, server |-> env[h].server]))
  /\ UNCHANGED <<exists, seat, reports, age, generation, engaged,
                 enabled, snap, env, published, crashed>>

PlanAppend(h) ==
  /\ pc[h] = "append"
  /\ pc' = [pc EXCEPT ![h] = "hook"]
  /\ IF ~exists \/ generation = lastHistoryGen
       THEN UNCHANGED <<lastHistoryGen, history>>
       ELSE /\ lastHistoryGen' = generation
            /\ history' = LastPoints(Append(history,
                 [at |-> generation, gen |-> env[h].gen, server |-> env[h].server]))
  /\ UNCHANGED <<exists, seat, reports, age, generation, engaged,
                 enabled, snap, env, published, crashed>>

PlanHook(h) ==
  /\ pc[h] = "hook"
  /\ published' = env[h]
  /\ env' = [env EXCEPT ![h] = NoEnvelope]
  /\ pc' = [pc EXCEPT ![h] = "idle"]
  /\ UNCHANGED <<roomVars, enabled, snap, crashed>>

-----------------------------------------------------------------------------
(* The environment: time passes, clients die.                              *)
Tick ==
  /\ \E p \in Members : age[p] <= StaleAfter
  /\ age' = [p \in Peers |-> IF p \in Fresh THEN age[p] + 1 ELSE age[p]]
  /\ UNCHANGED <<exists, seat, reports, generation, lastHistoryGen, history, engaged,
                 enabled, handlerVars, published, crashed>>

Crash(p) ==
  /\ p \notin crashed
  /\ Cardinality(crashed) < MaxCrashes
  /\ crashed' = crashed \cup {p}
  /\ UNCHANGED <<roomVars, enabled, handlerVars, published>>

Next ==
  \/ \E h \in Handlers, p \in Peers : ReportLink(h, p)
  \/ \E p \in Peers : Remove(p)
  \/ ReportServerLink
  \/ SetServerRelayEnabled
  \/ \E h \in Handlers : GetPlan(h)
  \/ \E h \in Handlers : AdminPlan(h)
  \/ \E h \in Handlers : PlanDecide(h)
  \/ \E h \in Handlers : PlanAppend(h)
  \/ \E h \in Handlers : PlanHook(h)
  \/ Tick
  \/ \E p \in Peers : Crash(p)

Spec == Init /\ [][Next]_vars

(* What a handler that plans does next, polls for a plan included.         *)
PlanStep(h) == GetPlan(h) \/ PlanDecide(h) \/ PlanAppend(h) \/ PlanHook(h)

-----------------------------------------------------------------------------
(* Properties.                                                             *)

TypeOK ==
  /\ exists \in BOOLEAN
  /\ seat \in [Peers -> Stamp]
  /\ reports \in [Peers -> Stamp]
  /\ age \in [Peers -> 0..StaleAfter + 1]
  /\ generation \in Stamp
  /\ lastHistoryGen \in Stamp
  /\ history \in Seq(HistoryPoint)
  /\ engaged \in BOOLEAN
  /\ enabled \in BOOLEAN
  /\ pc \in [Handlers -> {"idle", "plan", "decide", "append", "hook"}]
  /\ snap \in [Handlers -> Snapshot]
  /\ env \in [Handlers -> Envelope]
  /\ published \in Envelope
  /\ crashed \in SUBSET Peers

(* The ordering and the reports of a room name the same peers, and a peer  *)
(* joined no later than its latest report; a room nobody ever reported to  *)
(* is the only one with no peer in it, so an emptied room is never left    *)
(* behind in the map (coordinator.go: Report, pruneStale, Remove).         *)
RosterConsistent ==
  /\ \A p \in Peers : (seat[p] = 0 <=> reports[p] = 0) /\ seat[p] <= reports[p]
  /\ \A p \in Peers : reports[p] <= generation
  /\ \A p, q \in Peers : p # q /\ reports[p] # 0 => reports[p] # reports[q]
  /\ exists /\ generation > 0 => Members # {}
  /\ ~exists => Members = {} /\ generation = 0 /\ history = <<>> /\ ~engaged

(* Polling Plan does not pile up history: each point was recorded at a     *)
(* later generation than the one before it, however the calls of Plan      *)
(* overlap, the room remembers the last of them, and it keeps a bounded    *)
(* number (appendHistory).                                                 *)
HistoryOnePerReport ==
  /\ lastHistoryGen <= generation
  /\ Len(history) <= MaxHistory
  /\ \A i, j \in 1..Len(history) : i < j => history[i].at < history[j].at
  /\ history # <<>> => history[Len(history)].at = lastHistoryGen

(* The optimizer's indices are stable: two peers that both stay in a room  *)
(* keep their relative order, whatever is reported, pruned or removed      *)
(* between (the order field: "stable peer ordering").                      *)
OrderStable ==
  [][\A p, q \in Members :
       seat[p] < seat[q] /\ seat'[p] # 0 /\ seat'[q] # 0 => seat'[p] < seat'[q]]_vars

Quiet == \A h \in Handlers : pc[h] = "idle"

(* The serverEngaged field says "whether ServerPeerID was injected into    *)
(* the last Plan() for this room": between calls it agrees with the plan   *)
(* the hooks received last.                                                *)
EngagedIsPublished ==
  Quiet /\ exists /\ generation > 0 => engaged = published.server

(* Every report is followed by a plan of its own, so between calls the     *)
(* hooks have been given a plan built from the latest report.              *)
PublishedIsLatest ==
  Quiet /\ exists /\ generation > 0 /\ published.built => published.gen = generation

(* Timeline: each point is "rebuilt from what was actually reported and    *)
(* planned at that moment", so the plan a point holds was built from the   *)
(* reports of the generation it is recorded under.                         *)
TimelineTruthful ==
  \A i \in 1..Len(history) : history[i].gen = history[i].at

(* A client that died without leaving is not planned around forever: while *)
(* some client still polls, it is in no plan the hooks are given any more  *)
(* (staleAfter).                                                           *)
DeadPeerForgotten ==
  \A p \in Peers :
    p \in crashed ~> ([](p \notin published.order) \/ crashed = Peers)

(* The kill switch works in the end: if it stays off while clients poll,   *)
(* the server leaves the published plan for good, plans that were under    *)
(* way when it was thrown included (SetServerRelayEnabled).                *)
KillSwitchWorks ==
  <>[]~enabled => <>[](~published.server /\ ~engaged) \/ <>(crashed = Peers)

=============================================================================
