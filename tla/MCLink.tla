------------------------------- MODULE MCLink -------------------------------
(* Small instances of OrderLink for TLC.                                      *)
EXTENDS OrderLink

\* Two calls of the main thread, one long and one not, the emergency stop sent up to
\* three times by the collision thread, the clock of the match sent once, and an order
\* without an answer.
MCLong   == {"FOLLOW_TRAJECTORY", "STOP", "START_MATCH_CHRONO"}
MCUrgency == [o \in Ids |-> CASE o = "STOP" -> -20 [] o = "ADD_POINTS" -> -10 [] OTHER -> 0]
MCPosts == [o \in Async |-> IF o = "STOP" THEN 3 ELSE 1]

=============================================================================
