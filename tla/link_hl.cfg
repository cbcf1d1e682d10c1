\* From the first PING, that is tried again, to the end of the match; a connection that holds.
SPECIFICATION FairSpec
CONSTANTS
  Long <- MCLong
  Short = {"PING"}
  Silent = {}
  Sync = {"PING", "FOLLOW_TRAJECTORY"}
  Timed = {"PING"}
  Chrono = "START_MATCH_CHRONO"
  Urgency <- MCUrgency
  StackSize = 3
  Posts <- MCPosts
  MaxTries = 2
  None = None
INVARIANTS
  OneInFlight
  AnswerExpected
  FreshAnswer
  RoomForLong
PROPERTIES
  CallReturns
  Emitted
  ServesOrders
\* The program stops at the end of the match.
CHECK_DEADLOCK FALSE
