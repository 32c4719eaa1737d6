SPECIFICATION FairSpec
CONSTANTS
  Rooms = {r1}
  CallRooms = {}
  Senders = {x1}
  Streams = {s1}
  ChanSize = 1
  QueryMayFail = FALSE
  MaxSignals = 1
PROPERTIES PolledIsTaken
