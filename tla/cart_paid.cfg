SPECIFICATION MCSpec
CONSTANTS
  Services = {"shop"}
  N = 4
  Source = 0
  MaxRelayHops = 1
  HopCosts = {1, 4}
  PassCosts = {1}
  Products = {x, y}
  Currencies = {c, d}
  MaxQuantity = 2
  Requests = {w1, w2}
  MaxLine = 3
  MaxPayments = 1
  MaxFailures = 1
  MaxCatalogues = 1
  MaxUnits = 3
  MaxMoves = 1
  TTL = 2
  MaxBytes = 3
  Refs = {x, y}
  Records = {rec}
  Sizes = {1, 2, 3}
  MaxUserImages = 2
  MaxUserBytes = 2
  Uploads = {w1, w2}
  MaxTime = 4
  Users = {x, y}
  Streams = {c, d}
  Handlers = {w1, w2}
  Room = 1
  MaxMessages = 2
  Players = {x, y, z}
  Nobody = nobody
  Workers = {w1, w2}
  WrongLimit = 2
  MaxRequests = 5
  MaxTurns = 2
  Commodities = {1, 2, 3}
  Demand = 4
  Trails = {1, 2, 3, 4}
  TrailsOf <- MCTrailsOf
  Edges = {1, 2, 3, 4, 5}
  EdgesOf <- MCEdgesOf
  IdleCosts = {1, 3}
  Growth <- MCGrowth
  MaxIterations = 2
  Members = {m}
  Guest = guest
  Everyone = all
  Groups = {1, 2}
  Params = {"theme", "views"}
  OwnParams = {"theme"}
  Values = {"light", "dark"}
  Unset = unset
  Defaults <- MCDefaults
  Goroutines = {w1, w2}
  MaxAsks = 2
  MaxEdits = 1
SYMMETRY MCSymmetry
INVARIANT ChargedStaysOut
CHECK_DEADLOCK FALSE
