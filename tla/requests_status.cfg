SPECIFICATION MCSpec
CONSTANTS
  Exchanges = {"requests"}
  a = a
  b = b
  Peers = {a, b}
  Server = server
  Plans <- AllPlans
  Workers = {w1, w2}
  ConnectMayFail = TRUE
  MaxEvents = 5
  Offerers = {w1, w2}
  Receivers = {w1, w2}
  MaxOffers = 4
  MaxTracks = 1
  Users = {x, y}
  Handlers = {w1, w2}
  MayFail = TRUE
  MaxAsked = 5
  StrayDeclines = TRUE
  MaxOverlap = 3
  Clients = {"visitor", "member", "keeper"}
  RoleOf <- MCRoleOf
  Modules = {"posts", "logs"}
  Screens = {"profile", "settings"}
  ReadOnly = {"logs"}
  AdminOnly = {"settings"}
  Grants <- MCGrants
  Tasks = {w1, w2}
  QueueSize = 1
  Sinks = {"file", "db"}
  MinLevelKeepsWarnings = TRUE
  MaxRequests = 2
  Identities = {"g", "h", "k"}
  EmailOf <- MCEmailOf
  Verified = {"g", "k"}
  Emails = {"e", "f"}
  Owners = {"o"}
  Browsers = {x, y}
  States = 2
  Signers = {w1, w2}
  MaxAccounts = 2
  Readers = {x, y}
  Tabs = {x, y}
  Posts = {p, q}
  Remarks = {c, d}
  Requesters = {w1, w2}
  MaxDepth = 1
  MaxPresses = 2
  MaxCleanups = 1
  MaxClicks = 4
  Unwritten = unwritten
  Deleted = deleted
  Nowhere = nowhere
SYMMETRY MCSymmetry
INVARIANTS RecordedIsFinal
CHECK_DEADLOCK FALSE
