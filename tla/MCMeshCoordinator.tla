-------------------------- MODULE MCMeshCoordinator --------------------------
(* The coordinator on small instances.                                      *)
EXTENDS MeshCoordinator, TLC

-----------------------------------------------------------------------------
(* In half of the behaviours one handler serves every request: there the    *)
(* coordinator promises more than when calls of Plan overlap.  Clients      *)
(* crash in that half only.                                                 *)
VARIABLE calm

CONSTANT FewReports  \* bound: reports of a room while calls of Plan overlap

mcVars == <<vars, calm>>
TheHandler == CHOOSE h \in Handlers : TRUE
OnlyTheHandler == \A h \in Handlers \ {TheHandler} : pc'[h] = "idle"

MCInit == Init /\ calm \in BOOLEAN
MCNext ==
  /\ Next
  /\ UNCHANGED calm
  /\ IF calm THEN OnlyTheHandler ELSE generation' <= FewReports /\ crashed' = {}

(* A started handler runs to its end, time passes, and the clients that    *)
(* are alive go on polling (they re-report every six seconds).             *)
Fairness ==
  /\ \A h \in Handlers :
       WF_mcVars((calm => h = TheHandler) /\ PlanStep(h) /\ UNCHANGED calm)
  /\ WF_mcVars(Tick /\ UNCHANGED calm)

MCSpec == MCInit /\ [][MCNext]_mcVars /\ Fairness

(* In a calm behaviour the flag, the published plan and the history are     *)
(* those of the reports: EngagedIsPublished, PublishedIsLatest and          *)
(* TimelineTruthful (setServerEngaged, ReportLink, appendHistory).          *)
CalmPlansInOrder == calm => EngagedIsPublished /\ PublishedIsLatest /\ TimelineTruthful
=============================================================================
