------------------------------ MODULE SmartArm ------------------------------
(***************************************************************************)
(* The board of the arm: SmartArmController runs one command at a time, a  *)
(* sequence of steps that aim the arm (ArmController.setAimPosition) or    *)
(* wait for the end of the move, while the timer interrupt that drives the *)
(* motors (controlCCMotors) may end the move or raise a fault between any  *)
(* two lines of the main loop.                                             *)
(*                                                                         *)
(* Positions, angles and distances are left out: an aim is an aim, a move  *)
(* may end at any time, a sensor says anything.  A status is the set of    *)
(* its flags; FAIL stands for every flag the board of the arm may raise.   *)
(***************************************************************************)
EXTENDS Integers, Sequences

CONSTANT Commands     \* the commands in use, a subset of AllCommands

-----------------------------------------------------------------------------
(* The commands: what each step does                                       *)

\* Every flag of ArmStatus.h but COM_ERR, that the master raises.
FAIL == "FAIL"

\* n moves, each aimed and then waited for, and the end.
Moves(n) == [i \in 1 .. 2 * n + 1 |->
               IF i = 2 * n + 1 THEN "end" ELSE IF i % 2 = 1 THEN "aim" ELSE "wait"]

go_to_home        == Moves(4)
store_cube_inside == Moves(5)
store_cube_top    == Moves(3)
take_cube_storage == Moves(6)
push_button       == Moves(6)
push_bee          == Moves(3)
set_arm_position     == <<"wait", "end">>
take_cube_from_human == <<"wait", "end">>

\* With the sensor (TAKE_CUBE_SMART) or without (TAKE_CUBE_FIXED).
take_cube_smart ==
  <<"check", "wait", "aim", "wait", "aim", "wait", "sweep", "reset", "scan",
    "aim", "wait", "aim", "approach", "wait", "aim", "wait", "aim", "wait", "end">>

put_cube_smart ==
  <<"check", "wait", "aim", "wait", "aim", "wait", "aim", "wait", "aim", "wait",
    "aim", "wait", "aim", "wait", "pile", "aim", "wait", "aim", "wait", "verdict">>

\* What control() runs for each command; the program may raise the flags it checks.
Program ==
  [GO_TO_HOME |-> go_to_home,
   TAKE_CUBE_SMART |-> take_cube_smart, TAKE_CUBE_FIXED |-> take_cube_smart,
   STORE_CUBE_INSIDE |-> store_cube_inside, STORE_CUBE_TOP |-> store_cube_top,
   TAKE_CUBE_STORAGE |-> take_cube_storage,
   PUT_CUBE_SMART |-> put_cube_smart, PUT_CUBE_FIXED |-> put_cube_smart,
   SET_ARM_POSITION |-> set_arm_position, PUSH_BUTTON |-> push_button,
   PUSH_BEE |-> push_bee, TAKE_CUBE_HUMAN |-> take_cube_from_human]

AllCommands == DOMAIN Program
NoCommand == "NO_COMMAND"

ASSUME CommandsAssumption == Commands \subseteq AllCommands

-----------------------------------------------------------------------------
VARIABLES
  spc,      \* where the main loop stands in listenAndExecute() and after it
  command,  \* SmartArmController.currentCommand
  step,     \* currentCommandStep, counted from 1
  status,   \* SmartArmController.status
  armStatus, \* ArmController.status
  moving,   \* ArmController.moving
  manualMode,
  noted,    \* what a static of the command remembers: a cube was seen, a pile fell
  fate      \* history: what became of the last command of the master

commandVars == <<command, step, status, noted>>
armVars == <<armStatus, moving, manualMode>>
slaveVars == <<spc, commandVars, armVars, fate>>

SlaveInit ==
  /\ spc = "control" /\ command = NoCommand /\ step = 1
  /\ status = {} /\ armStatus = {} /\ moving = FALSE /\ manualMode = FALSE
  /\ noted = FALSE /\ fate = "none"

Running == command # NoCommand
Instruction == Program[command][step]

\* isMoving() and getStatus() of the command, what a report says.
FullStatus == status \cup armStatus

-----------------------------------------------------------------------------
(* ArmController                                                           *)

\* setAimPosition() also forgets the faults raised until then.
Aim == moving' = TRUE /\ armStatus' = {} /\ UNCHANGED manualMode

\* A move of the command is cut short; at its first step the arm may still be ending a
\* move of the command before, that its timer stopped.
Cut == fate' = IF moving /\ Running /\ step > 1 /\ fate = "running" THEN "cut" ELSE fate

\* The timer interrupt: a motor is blocked, moving or not...
MotorBlocked ==
  /\ ~manualMode
  /\ armStatus' = {FAIL} /\ moving' = FALSE /\ Cut
  /\ UNCHANGED <<spc, commandVars, manualMode>>

\* ... the arm is where it should be...
EndOfMove ==
  /\ ~manualMode /\ moving
  /\ moving' = FALSE
  /\ UNCHANGED <<spc, commandVars, armStatus, manualMode, fate>>

\* ... or has moved for ARM_MOVE_TIMEOUT.
MoveTimeout ==
  /\ ~manualMode /\ moving
  /\ armStatus' = {FAIL} /\ moving' = FALSE /\ Cut
  /\ UNCHANGED <<spc, commandVars, manualMode>>

Interrupt == MotorBlocked \/ EndOfMove \/ MoveTimeout

\* controlServos(), from the main loop: a servomotor answers an error or not at all.
ServoStatus == {armStatus, {FAIL}}

-----------------------------------------------------------------------------
(* SmartArmController                                                      *)

\* stopCommand(): the arm itself goes on to where it was aimed.  A static of the command is
\* written before it is read again.
StopCommand(outcome) ==
  /\ command' = NoCommand /\ step' = 1 /\ noted' = FALSE
  /\ fate' = IF /\ Running
                /\ fate = "running" \/ (fate \in {"cut", "erased"} /\ outcome # "done")
             THEN outcome ELSE fate

\* First half of control(): sensors, servomotors, and the status of the arm.
Control ==
  /\ spc = "control"
  /\ \E dead \in BOOLEAN, arm \in ServoStatus :
       /\ status' = IF dead THEN {FAIL} ELSE status
       /\ armStatus' = arm
       /\ \/ Running /\ arm = {} /\ spc' = "step"
             /\ UNCHANGED <<command, step, noted, fate>>
          \/ Running /\ arm # {} /\ spc' = "handle" /\ StopCommand("stopped")
          \/ ~Running /\ spc' = "handle" /\ UNCHANGED <<command, step, noted, fate>>
  /\ UNCHANGED <<moving, manualMode>>

\* Mutant of NextStep: a case of the switch falls through.
FallThroughMutant == step' = step + 2 /\ UNCHANGED command

NextStep == step' = step + 1 /\ UNCHANGED command

\* waitForMoveCompletion()
Wait ==
  /\ IF moving THEN UNCHANGED <<command, step>> ELSE NextStep
  /\ UNCHANGED <<status, noted, fate, armVars>>

\* An aim erases the fault the interrupt has raised since Control read the status.
AimNext ==
  /\ Aim /\ NextStep /\ UNCHANGED <<status, noted>>
  /\ fate' = IF fate = "cut" THEN "erased" ELSE fate

Reject ==
  StopCommand("refused") /\ status' = {FAIL} /\ UNCHANGED armVars

\* The first step looks at the arguments and, to put a cube, at the sensor of the plier.
Check == AimNext \/ Reject

\* The arm turns in front of the external sensor, unless it is not to be used.
useSensor == command = "TAKE_CUBE_SMART"
Sweep == IF useSensor THEN AimNext
         ELSE NextStep /\ UNCHANGED <<status, noted, fate, armVars>>

Reset == noted' = FALSE /\ NextStep /\ UNCHANGED <<status, fate, armVars>>

\* The scan goes on until the end of the move and keeps the nearest cube it has seen.
Scan ==
  /\ noted' \in {noted, TRUE}
  /\ \E dead \in BOOLEAN :
       status' = IF dead \/ (~moving /\ ~noted') THEN {FAIL} ELSE status
  /\ IF moving THEN UNCHANGED <<command, step>> ELSE NextStep
  /\ UNCHANGED <<fate, armVars>>

\* The cube is between the fingers before the end of the approach: the head goes no
\* further.
Approach == (useSensor /\ AimNext) \/ Wait

Pile == noted' \in BOOLEAN /\ NextStep /\ UNCHANGED <<status, fate, armVars>>

\* The end; the timer of the command is looked at all the same.
End == StopCommand("done") /\ status' \in {status, {FAIL}} /\ UNCHANGED armVars

Verdict ==
  /\ StopCommand("done") /\ UNCHANGED armVars
  /\ status' \in {IF noted THEN {FAIL} ELSE status, {FAIL}}

\* Second half of control(): one step of the command.
Step ==
  /\ spc = "step" /\ spc' = "handle"
  /\ \/ Instruction = "aim" /\ AimNext
     \/ Instruction = "wait" /\ Wait
     \/ Instruction = "sweep" /\ Sweep
     \/ Instruction = "check" /\ Check
     \/ Instruction = "reset" /\ Reset
     \/ Instruction = "scan" /\ Scan
     \/ Instruction = "approach" /\ Approach
     \/ Instruction = "pile" /\ Pile
     \/ Instruction = "verdict" /\ Verdict
     \/ Instruction = "end" /\ End

\* Mutant of TimerExpires: the timer is only looked at between two moves.
StillTimerMutant ==
  /\ spc = "handle" /\ Running /\ ~moving
  /\ status' = {FAIL} /\ StopCommand("stopped")
  /\ UNCHANGED <<spc, armVars>>

\* The end of control(): FULL_MOVE_TIMEOUT has elapsed since the command began.
TimerExpires ==
  /\ spc = "handle" /\ Running
  /\ status' = {FAIL} /\ StopCommand("stopped")
  /\ UNCHANGED <<spc, armVars>>

\* executeCommand() and setArmPosition(), which aims at once: nothing if a command runs.
ExecuteCommand(c) ==
  IF Running
  THEN fate' = "ignored" /\ UNCHANGED <<commandVars, armVars>>
  ELSE /\ command' = c /\ step' = 1 /\ status' = {}
       /\ armStatus' = {} /\ moving' = (moving \/ c = "SET_ARM_POSITION")
       /\ fate' = "running" /\ UNCHANGED <<noted, manualMode>>

EmergencyStop ==
  /\ armStatus' = {FAIL} /\ moving' = FALSE
  /\ StopCommand("stopped") /\ UNCHANGED <<status, manualMode>>

-----------------------------------------------------------------------------
(* The buttons on the robot: setManualMode() ends the move in both cases   *)

SetManualMode(enable) == manualMode' = enable /\ moving' = FALSE /\ UNCHANGED armStatus

SlaveTypeOK ==
  /\ spc \in {"control", "step", "handle"}
  /\ command \in Commands \cup {NoCommand}
  /\ step \in 1 .. (IF Running THEN Len(Program[command]) ELSE 1)
  /\ status \subseteq {FAIL} /\ armStatus \subseteq {FAIL}
  /\ {moving, manualMode, noted} \subseteq BOOLEAN
  /\ fate \in {"none", "sent", "running", "cut", "erased", "ignored", "refused", "stopped", "done"}

=============================================================================
