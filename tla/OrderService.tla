---------------------------- MODULE OrderService ----------------------------
(***************************************************************************)
(* What the link between the two programs promises for the long orders:    *)
(* each request is launched exactly once, an order is never launched again *)
(* before the answer of its previous launch has come back, and each launch *)
(* has exactly one answer.                                                 *)
(***************************************************************************)
EXTENDS Naturals

CONSTANT Long    \* the long orders

VARIABLES
  asked,   \* requests not launched yet, for each order
  life     \* what has become of the last launch

Init ==
  /\ asked = [o \in Long |-> 0]
  /\ life = [o \in Long |-> "idle"]

Move(o, from, to) == life[o] = from /\ life' = [life EXCEPT ![o] = to]

Ask(o) == asked' = [asked EXCEPT ![o] = @ + 1] /\ UNCHANGED life

Launch(o) ==
  /\ asked[o] > 0 /\ asked' = [asked EXCEPT ![o] = @ - 1]
  /\ Move(o, "idle", "running")

Finish(o)  == Move(o, "running", "answered") /\ UNCHANGED asked

Collect(o) == Move(o, "answered", "idle") /\ UNCHANGED asked

Next == \E o \in Long : Ask(o) \/ Launch(o) \/ Finish(o) \/ Collect(o)

Spec == Init /\ [][Next]_<<asked, life>>

=============================================================================
