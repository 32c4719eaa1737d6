SPECIFICATION FairSpec
CONSTANTS
  Rooms = {r1}
  CallRooms = {r1}
  Senders = {x1, x2}
  Streams = {s1, s2}
  ChanSize = 1
  QueryMayFail = TRUE
  MaxSignals = 2
INVARIANTS SignalConservation NoLostWakeup OrderKept
PROPERTIES ImplementsMailbox QueuedIsTaken
