CONSTANTS
  Feeds = {"f1", "f2"}
  Entries = {"e1", "e2"}
  FeedOf <- MCFeedOf
  Nested = {"f2"}
  Previewed = "f1"
  Folder = "folder"
  Tab = "unread"
  MaxQuery = 2
  MaxCalls = 3
  MaxEvents = 5
SPECIFICATION TuiSpec
INVARIANTS
  PanicsOnlyAfterChange
  LoadingEnds
  LatestAnswerShown
  MarksAreTheAPIs
CHECK_DEADLOCK FALSE
