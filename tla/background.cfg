SPECIFICATION MCSpec
CONSTANTS
  Backgrounds = {"actions", "events", "video", "stream", "finding", "calling", "turn", "rules"}
  Admins = {w1, w2}
  Polls = {c, d}
  MaxBuffer = 2
  MaxSchedules = 2
  MaxRuns = 2
  MaxOutput = 3
  People = {1, 2, 3}
  RoleOf <- MCRoleOf
  GroupOf <- MCGroupOf
  Editors = {w1, w2}
  EventIds = {1}
  CopyIds = {c, d}
  Repeats = {0, 1}
  LastInstant = 1
  Jobs = {x, y}
  Formats = {c, d}
  Handlers = {w1, w2}
  NoJob = nobody
  MaxEdits = 2
  Switchers = {w1, w2}
  MaxFilters = 4
  MaxFrames = 3
  Phones = {x, y}
  Addresses = {c, d}
  TokenTTL = 1
  OnlineWindow = 1
  LastTick = 6
  MaxSent = 2
  MaxTokens = 2
  CapBytes = 2
  MaxUsed = 3
  MaxMonths = 3
  Rules <- MCRules
  IPs = {1, 2}
  Agents = {"bot", "man"}
  Loaders = {w1, w2}
  MaxRuleEdits = 2
  MaxExpired = 2
  MaxTroubles = 1
SYMMETRY MCSymmetry
INVARIANTS    StreamSound
INVARIANTS FindingSound SuspendedForTheMonth RulesSound
CHECK_DEADLOCK FALSE
