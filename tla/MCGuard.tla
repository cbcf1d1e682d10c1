------------------------------ MODULE MCGuard ------------------------------
(* A small instance of CollisionGuard for TLC.                             *)
EXTENDS CollisionGuard

\* Three travels, two of them sent in two frames; the second shares no place with the
\* first, so that a path left in memory is recognised.
MCRoutes == << <<"a", "b">>, <<"c", "c">>, <<"b">> >>

=============================================================================
