------------------------------ MODULE MCMatch -------------------------------
(* One cross of our side and a pattern whose second colour is in its middle. *)
EXTENDS MatchScripts

OnePattern == <<1, 4, 0>>

\* The cube in the middle, that the others stand around and that the pattern asks for.
TheMiddle == [croix : {1}, place : {4}]

=============================================================================
