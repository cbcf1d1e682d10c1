\* The end of the match on a connection that holds.
SPECIFICATION FairSpec
CONSTANTS
  Long <- MCLong
  Short = {"ADD_POINTS"}
  Silent = {"SET_SCORE"}
  Sync = {"ADD_POINTS", "FOLLOW_TRAJECTORY"}
  Timed = {}
  Chrono = "START_MATCH_CHRONO"
  Urgency <- MCUrgency
  StackSize = 3
  Posts <- MCPosts
  MaxTries = 1
  None = None
PROPERTIES
  MatchStops
\* The program stops at the end of the match.
CHECK_DEADLOCK FALSE
