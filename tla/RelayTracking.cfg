SPECIFICATION FairSpec
CONSTANTS
  Slot = {a1, a2}
  PageSize = 1
  MaxRkey = 2
  Accounts <- MCAccounts
  MaxAnnounces = 2
CHECK_DEADLOCK FALSE
INVARIANTS
  CursorCovers
  EventsBalanceRows
  RowsFollowCommits
PROPERTIES
  CursorNeverRegresses
  EventuallyMirrors
