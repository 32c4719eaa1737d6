SPECIFICATION MCSpec
CONSTANTS
  Peers = {p1, p2}
  Handlers = {h1, h2}
  StaleAfter = 0
  EngagePeerCount = 3
  MaxHistory = 2
  MaxGeneration = 3
  MaxCrashes = 2
  FewReports = 2
INVARIANTS RosterConsistent HistoryOnePerReport CalmPlansInOrder
PROPERTIES OrderStable DeadPeerForgotten KillSwitchWorks
