SPECIFICATION MCSpec
CONSTANTS
  Groups = {0, 1, 2, 3}
  GuestGroup = 0
  AdminGroups = {3}
  Users = {5, 6, 7}
  GroupsOf <- MCGroupsOf
  Rows <- MCRows
  MaxWrites = 2
  Fields <- MCFields
  Configs <- MCConfigs
  Friends <- MCFriends
  Subscribed <- MCSubscribed
  Blocked <- MCBlocked
  Bodies <- MCBodies
  FirstRows <- MCFirstRows
  FirstColumns <- MCFirstColumns
  Asks <- MCAsks
  Workers = {w1, w2}
  MaxRequests = 2
  MaxRows = 4
  FieldModules <- MCFieldModules
  Sessions <- MCSessions
  Tables = {"t", "u"}
  Tabs = {w1, w2}
  MaxChanges = 2
  MaxAsks = 2
SYMMETRY MCSymmetry
INVARIANTS RightsSound PagesCoverScope CalmNewColumnsAreServed ShownIsCurrent
PROPERTY WritesByRight
CHECK_DEADLOCK FALSE
