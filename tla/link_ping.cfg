\* PING sent again after its timeout, as at the start of the high level program.
SPECIFICATION Spec
CONSTANTS
  Long <- MCLong
  Short = {"PING"}
  Silent = {}
  Sync = {"PING", "FOLLOW_TRAJECTORY"}
  Timed = {"PING"}
  Chrono = "START_MATCH_CHRONO"
  Urgency <- MCUrgency
  StackSize = 3
  Posts <- MCPosts
  MaxTries = 2
  None = None
INVARIANTS
  RetryExpected
\* The program stops at the end of the match.
CHECK_DEADLOCK FALSE
