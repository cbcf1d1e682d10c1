------------------------------ MODULE MCMotion ------------------------------
(* Small instances of MotionControl for TLC.                                  *)
EXTENDS MotionControl

\* One or two points in a frame: all the combinations of the two flags, so that a
\* trajectory may end early, have an intermediate stop, or lack its end.
MCFrames == {<<p>> : p \in Point} \cup {<<p, q>> : p, q \in Point}
SmallFrames == {<<p>> : p \in {q \in Point : q.end => q.stop}}

=============================================================================
