------------------------------ MODULE MCServer ------------------------------
(* Two sockets and the serial line; a command without data, one whose data  *)
(* is a header byte, and a subscription.                                    *)
EXTENDS CommServer

InfoAndError == {1, 2}
SomeCommands ==
  {[id |-> 40, data |-> <<>>], [id |-> 41, data |-> <<255>>], [id |-> 3, data |-> <<1>>]}

=============================================================================
