------------------------------ MODULE MCBoards ------------------------------
(***************************************************************************)
(* A movement that changes two lights at once.                             *)
(***************************************************************************)
EXTENDS Boards

MCContexts == {{}, {"STOP_LIGHT", "TURN_LEFT"}}

=============================================================================
