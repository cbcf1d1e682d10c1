--------------------------- MODULE CommandService ---------------------------
(***************************************************************************)
(* What the communication server promises to those who send commands: the  *)
(* commands of a source are executed once, one after the other in the      *)
(* order they were sent, and each of them in the end, unless it is refused *)
(* for want of room, which only happens while every other source has one   *)
(* waiting, or lost with the connection.  A connection that is cut in the  *)
(* middle of a frame ends the promise for its socket.                      *)
(***************************************************************************)
EXTENDS Naturals, Sequences

CONSTANTS Source, Order

VARIABLES
  pending,  \* the commands of each source that are not executed yet
  executed, \* how many of them were
  clean     \* the sources the promise still holds for

vars == <<pending, executed, clean>>

Init ==
  /\ pending = [s \in Source |-> <<>>] /\ executed = [s \in Source |-> 0]
  /\ clean = Source

Waiting(s) == pending[s] # <<>>

Send(s) ==
  /\ \E c \in Order : pending' = [pending EXCEPT ![s] = Append(@, c)]
  /\ UNCHANGED <<executed, clean>>

Execute(s) ==
  /\ Waiting(s) /\ pending' = [pending EXCEPT ![s] = Tail(@)]
  /\ executed' = [executed EXCEPT ![s] = @ + 1]
  /\ UNCHANGED clean

Refuse(s) ==
  /\ Waiting(s) /\ \A t \in clean : Waiting(t)
  /\ pending' = [pending EXCEPT ![s] = Tail(@)]
  /\ UNCHANGED <<executed, clean>>

\* The connection is cut, between two frames or in the middle of one.
Cut(s) ==
  /\ \E n \in 0 .. Len(pending[s]) : pending' = [pending EXCEPT ![s] = SubSeq(@, 1, n)]
  /\ UNCHANGED <<executed, clean>>

CutInFrame(s) ==
  /\ clean' = clean \ {s} /\ pending' = [pending EXCEPT ![s] = <<>>]
  /\ executed' = [executed EXCEPT ![s] = 0]

Next == \E s \in clean : Send(s) \/ Execute(s) \/ Refuse(s) \/ Cut(s) \/ CutInFrame(s)

\* A source waits no longer, or its commands leave again and again.
Served(s) == []<>~Waiting(s) \/ []<><<Execute(s) \/ Refuse(s)>>_vars

Spec == Init /\ [][Next]_vars /\ \A s \in Source : Served(s)

=============================================================================
