------------------------------ MODULE ArmLink -------------------------------
(***************************************************************************)
(* The orders of the arm, from the answer the high level waits for to the  *)
(* board that carries them out: the order of OrderLong, SlaveActuator on   *)
(* the master, the serial link in both directions and SmartArm.            *)
(*                                                                         *)
(* The high level gives one order of the arm at a time.  The end of the    *)
(* match (StartChrono) stops the arm, once.  A frame with a byte missing   *)
(* or a wrong checksum is dropped by the board that reads it: Lose.        *)
(***************************************************************************)
EXTENDS SmartArm

CONSTANTS
  Disturbances, \* what may go wrong, a subset of {"loss", "buttons"}
  UpMax,        \* bound of the model: frames to the master when a report is sent
  DownMax       \* bound of the model: frames to the slave

ASSUME DisturbancesAssumption == Disturbances \subseteq {"loss", "buttons"}
ASSUME LinkAssumption == UpMax \in Nat \ {0} /\ DownMax \in Nat \ {0}

VARIABLES
  mpc,      \* where the main loop of the master stands
  order,    \* the order of the arm in the stack of the master
  believed, \* SlaveActuator.moving
  known,    \* SlaveActuator.status
  acked,    \* ackReceived, never reset
  lock,     \* MOVING_LOCK_DURATION has not elapsed since the last acknowledgement
  down, up, \* frames on the link
  match,    \* StartChrono runs
  disturbed \* history: a frame was lost or a button pressed, and no order
            \* has been launched since to an arm at rest

masterVars == <<mpc, order, believed, known, acked, lock, match>>
linkVars == <<down, up>>
vars == <<slaveVars, masterVars, linkVars, disturbed>>

NoOrder == "none"

Init ==
  /\ SlaveInit
  /\ mpc = "loop" /\ order = NoOrder /\ believed = FALSE /\ known = {}
  /\ acked = FALSE /\ lock = FALSE /\ match = TRUE
  /\ down = <<>> /\ up = <<>> /\ disturbed = FALSE

\* Bound of the model: one frame lost, one button pressed or the end of the match.
Disturb == match /\ ~disturbed /\ disturbed' = TRUE

-----------------------------------------------------------------------------
(* The slave and the link                                                  *)

Ack == [kind |-> "ACK", moving |-> FALSE, status |-> {}, old |-> FALSE]
ReportFrame ==
  [kind |-> "REPORT", moving |-> Running, status |-> FullStatus,
   old |-> FALSE]

\* The reports on their way say nothing of a command that comes after them.
Outdated(frames) == [i \in DOMAIN frames |-> [frames[i] EXCEPT !.old = TRUE]]

\* Communication.listenAndExecute(): at most one frame.  The acknowledgement does not
\* depend on what executeCommand() did.
HandleNothing ==
  /\ spc = "handle" /\ down = <<>>
  /\ spc' = "control" /\ UNCHANGED <<commandVars, armVars, fate, masterVars, linkVars,
                                   disturbed>>

HandleCommand ==
  /\ spc = "handle" /\ down # <<>> /\ Head(down) \in AllCommands
  /\ ExecuteCommand(Head(down))
  /\ down' = Tail(down) /\ up' = Append(Outdated(up), Ack)
  /\ spc' = "control" /\ UNCHANGED <<masterVars, disturbed>>

HandleStop ==
  /\ spc = "handle" /\ down # <<>> /\ Head(down) = "STOP"
  /\ EmergencyStop
  /\ down' = Tail(down)
  /\ spc' = "control" /\ UNCHANGED <<up, masterVars, disturbed>>

\* Every REPORT_PERIOD, after a turn of listenAndExecute().
SendReport ==
  /\ spc = "control" /\ Len(up) < UpMax
  /\ up' = Append(up, ReportFrame)
  /\ UNCHANGED <<slaveVars, masterVars, down, disturbed>>

\* UserInputControler.control(), at the end of the loop.
Button ==
  /\ "buttons" \in Disturbances
  /\ spc = "control" /\ Disturb
  /\ \E enable \in BOOLEAN : SetManualMode(enable)
  /\ UNCHANGED <<spc, commandVars, fate, masterVars, linkVars>>

\* InternalCom.listen(): the frame does not have its checksum.
Lose ==
  /\ "loss" \in Disturbances /\ Disturb
  /\ \/ down # <<>> /\ down' = Tail(down) /\ UNCHANGED up
     \/ up # <<>> /\ up' = Tail(up) /\ UNCHANGED down
  /\ UNCHANGED <<slaveVars, masterVars>>

-----------------------------------------------------------------------------
(* The master                                                              *)

\* Mutant of Receive: the reports are believed during the moving lock too.
NoLockMutant ==
  /\ up # <<>> /\ up' = Tail(up)
  /\ LET f == Head(up) IN
     IF f.kind = "ACK"
     THEN acked' = TRUE /\ UNCHANGED <<believed, known>>
     ELSE believed' = f.moving /\ known' = f.status /\ UNCHANGED acked

\* SlaveActuator.listen(): at most one frame.
Receive ==
  /\ up # <<>> /\ up' = Tail(up)
  /\ LET f == Head(up) IN
     IF f.kind = "ACK"
     THEN acked' = TRUE /\ UNCHANGED <<believed, known>>
     ELSE /\ believed' = IF lock THEN believed ELSE f.moving
          /\ known' = f.status
          /\ UNCHANGED acked

\* Nothing is left of a disturbance.
Quiet == ~Running /\ ~manualMode /\ down = <<>>

\* An order of the arm, launched: sendMoveCommand() up to the loop of waitForAck().
Launch(c) ==
  /\ mpc = "loop" /\ order = NoOrder /\ Len(down) < DownMax
  /\ order' = c /\ mpc' = "ack"
  /\ known' = known \ {"COM_ERR"}
  /\ down' = Append(down, c)
  /\ fate' = "sent" /\ disturbed' = (disturbed /\ ~Quiet)
  /\ UNCHANGED <<spc, commandVars, armVars, believed, acked, lock, match, up>>

\* waitForAck(): frames are read until an acknowledgement has been, this one or any other
\* before.
AckListen ==
  /\ mpc = "ack" /\ ~acked /\ Receive
  /\ UNCHANGED <<slaveVars, mpc, order, lock, match, down, disturbed>>

AckReceived ==
  /\ mpc = "ack" /\ acked
  /\ believed' = TRUE /\ lock' = TRUE /\ mpc' = "loop"
  /\ UNCHANGED <<slaveVars, order, known, acked, match, linkVars, disturbed>>

\* ACTUATOR_COM_TIMEOUT.  Abstraction: an acknowledgement that comes too late is one that is
\* lost.
AckTimeout ==
  /\ mpc = "ack" /\ ~acked
  /\ down = <<>> /\ \A i \in DOMAIN up : up[i].kind # "ACK"
  /\ known' = known \cup {"COM_ERR"} /\ mpc' = "loop"
  /\ UNCHANGED <<slaveVars, order, believed, acked, lock, match, linkVars, disturbed>>

\* Mutant of LockExpires: the lock is shorter than the way of the command.
ShortLockMutant ==
  /\ lock /\ lock' = FALSE
  /\ UNCHANGED <<slaveVars, mpc, order, believed, known, acked, match, linkVars, disturbed>>

\* More than MOVING_LOCK_DURATION for the command to arrive and the reports sent before it
\* to be read.
LockExpires ==
  /\ lock /\ lock' = FALSE
  /\ down = <<>> /\ \A i \in DOMAIN up : ~up[i].old
  /\ UNCHANGED <<slaveVars, mpc, order, believed, known, acked, match, linkVars, disturbed>>

\* The flags of the answer: for an order that takes a cube, CUBE_MISSED too unless the last
\* report saw one in the plier.
Takes == {"TAKE_CUBE_SMART", "TAKE_CUBE_FIXED"}
Outputs == {known} \cup (IF order \in Takes THEN {known \cup {FAIL}} ELSE {})

\* executeStackedOrders(), in the same turn of the loop as the launch of an order:
\* onExecute(), and terminate() once the arm does not move.
Finishes == mpc = "loop" /\ order # NoOrder /\ ~believed

\* One turn of the main loop: the order in the stack, then at most one frame.
Turn ==
  /\ mpc = "loop"
  /\ order' = IF Finishes THEN NoOrder ELSE order
  /\ \/ Receive
     \/ up = <<>> /\ UNCHANGED <<believed, known, acked, up>>
  /\ UNCHANGED <<slaveVars, mpc, lock, match, down, disturbed>>

\* StartChrono.terminate(): the arm is told to stop, without an acknowledgement.
EndOfMatch ==
  /\ mpc = "loop" /\ match /\ ~disturbed /\ Len(down) < DownMax
  /\ match' = FALSE
  /\ down' = Append(down, "STOP")
  /\ UNCHANGED <<slaveVars, mpc, order, believed, known, acked, lock, up, disturbed>>

-----------------------------------------------------------------------------
SmartArmStep ==
  (Control \/ Step \/ TimerExpires) /\ UNCHANGED <<masterVars, linkVars, disturbed>>

SlaveLoop == SmartArmStep \/ HandleNothing \/ HandleCommand \/ HandleStop

MasterLoop ==
  \/ \E c \in Commands : Launch(c)
  \/ AckListen \/ AckReceived \/ AckTimeout \/ Turn \/ EndOfMatch

Next ==
  \/ SlaveLoop \/ SendReport \/ Button \/ MasterLoop \/ LockExpires \/ Lose
  \/ Interrupt /\ UNCHANGED <<masterVars, linkVars, disturbed>>

\* Both loops turn; the command does not run for ever without its timer expiring; reports
\* are sent and one that is sent again and again is received; the lock expires; an order
\* that is not acknowledged times out.
Spec ==
  /\ Init /\ [][Next]_vars
  /\ WF_vars(SlaveLoop) /\ SF_vars(SmartArmStep /\ TimerExpires) /\ SF_vars(SendReport)
  /\ WF_vars(MasterLoop) /\ WF_vars(AckTimeout) /\ WF_vars(LockExpires)

-----------------------------------------------------------------------------
Frames == [kind : {"ACK", "REPORT"}, moving : BOOLEAN, status : SUBSET {FAIL}, old : BOOLEAN]

\* Types of the variables.
TypeOK ==
  /\ SlaveTypeOK
  /\ mpc \in {"loop", "ack"}
  /\ order \in Commands \cup {NoOrder} /\ known \subseteq {FAIL, "COM_ERR"}
  /\ {believed, acked, lock, match, disturbed} \subseteq BOOLEAN
  /\ \A i \in DOMAIN down : down[i] \in Commands \cup {"STOP"}
  /\ up \in Seq(Frames)

\* No frame lost and no button pressed: an order that answers without a flag made the arm go
\* through its command to the end, and no fault was forgotten on the way except by an aim.
OkMeansDone ==
  [][Turn /\ Finishes /\ ~disturbed /\ {} \in Outputs =>
       \/ fate = "done"
       \/ fate = "erased" /\ order = "TAKE_CUBE_SMART"]_vars

\* No frame lost and no button pressed: no command finds another that runs.
NeverIgnored == ~disturbed => fate # "ignored"

\* An order of the arm is answered.
OrderAnswered == order # NoOrder ~> order = NoOrder

=============================================================================
