--------------------------- MODULE ArmLinkProofs ---------------------------
(***************************************************************************)
(* Proofs about ArmLink for any set of commands, kinds of disturbances and *)
(* numbers of frames on the link: its types, that no command meets another *)
(* that runs, and that an order answered without a flag was carried out.   *)
(***************************************************************************)
EXTENDS ArmLink, SequenceTheorems, TLAPS

-----------------------------------------------------------------------------
(* The invariant                                                           *)

\* Instructions the arm may be moving at.
AtMoves == {"wait", "reset", "scan", "approach"}

\* The arm moves only while its command waits; a move cut short is a fault until the next
\* turn of the loop, which finds it, unless the command aims before.
MoveInv ==
  /\ spc = "step" => Running
  /\ Running /\ moving /\ step > 1 => Instruction \in AtMoves
  /\ Running /\ fate = "cut" =>
       armStatus = {FAIL} /\ step > 1 /\ (spc = "step" => Instruction \in AtMoves)

\* The command of the order on its way down.
Sent == {i \in DOMAIN down : down[i] # "STOP"}

\* What an order may be answered after, without a flag.
Carried == fate = "done" \/ (fate = "erased" /\ order = "TAKE_CUBE_SMART")

\* An order is one command: on its way, then running, then over.
OneCommand ==
  /\ order = NoOrder => ~Running /\ Sent = {}
  /\ \A i, j \in Sent : i = j
  /\ \A i \in Sent : down[i] = order
  /\ Sent # {} => ~Running /\ fate = "sent"
  /\ Running => command = order /\ fate \in {"running", "cut", "erased"}
  /\ Running /\ fate = "erased" => command = "TAKE_CUBE_SMART"
  /\ Sent = {} /\ order # NoOrder /\ ~Running => Carried \/ FullStatus # {}

\* What reports say: one that comes after the command and says that the arm does not move is
\* right, and so is its status.
Reports ==
  Sent = {} /\ order # NoOrder =>
    \A i \in DOMAIN up :
      up[i].kind = "REPORT" /\ ~up[i].old /\ ~up[i].moving =>
        ~Running /\ (up[i].status = {} => Carried)

\* What the master believes: the arm moves as long as reports of before are on their way.
Believes ==
  /\ mpc = "loop" /\ order # NoOrder /\ lock => believed
  /\ mpc = "loop" /\ order # NoOrder /\ ~lock =>
       Sent = {} /\ \A i \in DOMAIN up : ~up[i].old
  /\ mpc = "loop" /\ order # NoOrder /\ ~believed =>
       ~Running /\ Sent = {} /\ (known = {} => Carried)
  /\ mpc = "ack" /\ ~acked => Sent # {} \/ \E i \in DOMAIN up : up[i].kind = "ACK"

SlaveInv == SlaveTypeOK /\ MoveInv

\* TypeOK with down a sequence.
LinkTypeOK == TypeOK /\ down \in Seq(Commands \cup {"STOP"})

Inv ==
  /\ LinkTypeOK /\ MoveInv
  /\ mpc = "ack" => order # NoOrder
  /\ ~disturbed => OneCommand /\ Reports /\ Believes /\ NeverIgnored

\* One step of the arm: a command goes on, or is over with a flag or to the end.
Progress ==
  /\ ~Running => ~Running' /\ fate' = fate /\ FullStatus \subseteq FullStatus'
  /\ Running' => command' = command
  /\ Running /\ Running' => \/ fate' = fate
                            \/ fate = "running" /\ fate' = "cut"
                            \/ fate = "cut" /\ fate' = "erased" /\ command = "TAKE_CUBE_SMART"
  /\ Running /\ ~Running' /\ fate \in {"running", "cut", "erased"} =>
       FullStatus' # {} \/ fate' = "done" \/ (fate' = fate /\ fate = "erased")
  /\ fate' = "ignored" => fate = "ignored"

-----------------------------------------------------------------------------
(* The commands                                                            *)

Instructions ==
  {"aim", "wait", "sweep", "check", "reset", "scan", "approach", "pile", "verdict", "end"}

\* What the proofs need of a command: only its last step ends it, an aim is followed by a
\* step that waits for the move and the reset of the scan by the scan.
WellFormed(p) ==
  /\ p \in Seq(Instructions) /\ Len(p) >= 1 /\ p[1] \in {"aim", "wait", "check"}
  /\ \A s \in 1 .. Len(p) :
       /\ p[s] \notin {"end", "verdict"} => s < Len(p)
       /\ p[s] \in {"aim", "sweep", "check", "approach"} => p[s + 1] \in AtMoves
       /\ p[s] = "reset" => p[s + 1] = "scan"

LEMMA MovesWellFormed ==
  ASSUME NEW n \in Nat \ {0}
  PROVE  WellFormed(Moves(n))
<1> DEFINE p == Moves(n)
<1>1. p \in [1 .. 2 * n + 1 -> Instructions] /\ 2 * n + 1 \in Nat
  BY DEF Moves, Instructions
<1>2. p \in Seq(Instructions) /\ Len(p) = 2 * n + 1
  BY <1>1
<1>3. ASSUME NEW s \in 1 .. 2 * n + 1
      PROVE  /\ p[s] \notin {"end", "verdict"} => s < 2 * n + 1
             /\ p[s] \in {"aim", "sweep", "check", "approach"} => p[s + 1] \in AtMoves
             /\ p[s] # "reset"
  <2>1. CASE s = 2 * n + 1
    BY <2>1 DEF Moves
  <2>2. CASE s # 2 * n + 1 /\ s % 2 = 1
    <3>1. s + 1 \in 1 .. 2 * n + 1 /\ s + 1 # 2 * n + 1 /\ (s + 1) % 2 # 1
      BY <2>2
    <3>2. p[s] = "aim" /\ p[s + 1] = "wait"
      BY <2>2, <3>1 DEF Moves
    <3> QED BY <2>2, <3>2 DEF AtMoves
  <2>3. CASE s # 2 * n + 1 /\ s % 2 # 1
    BY <2>3 DEF Moves
  <2> QED BY <2>1, <2>2, <2>3
<1>4. p[1] = "aim"
  <2>1. 1 \in 1 .. 2 * n + 1 /\ 1 # 2 * n + 1 /\ 1 % 2 = 1
    OBVIOUS
  <2> QED BY <2>1 DEF Moves
<1> QED BY <1>2, <1>3, <1>4 DEF WellFormed

LEMMA WaitEndWellFormed == WellFormed(<<"wait", "end">>)
BY DEF WellFormed, Instructions, AtMoves

LEMMA TakeCubeWellFormed == WellFormed(take_cube_smart)
BY DEF WellFormed, Instructions, AtMoves, take_cube_smart

LEMMA PutCubeWellFormed == WellFormed(put_cube_smart)
BY DEF WellFormed, Instructions, AtMoves, put_cube_smart

LEMMA ProgramWellFormed ==
  ASSUME NEW c \in Commands
  PROVE  /\ WellFormed(Program[c])
         /\ c # NoCommand /\ c # "STOP" /\ c \in AllCommands /\ c # NoOrder
<1>1. WellFormed(Moves(3)) /\ WellFormed(Moves(4)) /\ WellFormed(Moves(5)) /\ WellFormed(Moves(6))
  BY MovesWellFormed
<1>2. c \in AllCommands
  BY CommandsAssumption
<1>3. AllCommands = {"GO_TO_HOME", "TAKE_CUBE_SMART", "TAKE_CUBE_FIXED", "STORE_CUBE_INSIDE",
        "STORE_CUBE_TOP", "TAKE_CUBE_STORAGE", "PUT_CUBE_SMART", "PUT_CUBE_FIXED",
        "SET_ARM_POSITION", "PUSH_BUTTON", "PUSH_BEE", "TAKE_CUBE_HUMAN"}
  BY DEF AllCommands, Program
<1>4. \A x \in AllCommands : WellFormed(Program[x])
  BY <1>1, <1>3, WaitEndWellFormed, TakeCubeWellFormed, PutCubeWellFormed
     DEF Program, go_to_home, store_cube_inside, store_cube_top, take_cube_storage,
         push_button, push_bee, set_arm_position, take_cube_from_human
<1> QED BY <1>2, <1>3, <1>4 DEF NoCommand, NoOrder

-----------------------------------------------------------------------------
(* The arm                                                                 *)

LEMMA CommandFacts ==
  ASSUME SlaveTypeOK, Running
  PROVE  /\ WellFormed(Program[command]) /\ step \in 1 .. Len(Program[command])
         /\ step \in Nat /\ Len(Program[command]) \in Nat
         /\ command \in Commands /\ Instruction \in Instructions
<1>1. command \in Commands /\ step \in 1 .. Len(Program[command])
  BY DEF SlaveTypeOK, Running
<1>2. WellFormed(Program[command])
  BY <1>1, ProgramWellFormed
<1>3. Program[command] \in Seq(Instructions)
  BY <1>2 DEF WellFormed
<1> QED BY <1>1, <1>2, <1>3 DEF Instruction

\* A command that ends.
LEMMA StopFacts ==
  ASSUME SlaveInv, NEW outcome \in {"stopped", "refused", "done"}, StopCommand(outcome),
         status' \subseteq {FAIL}, armStatus' \subseteq {FAIL},
         moving' \in BOOLEAN, UNCHANGED manualMode, spc' \in {"control", "handle"},
         outcome = "done" => Running /\ fate # "cut",
         outcome # "done" => FullStatus' # {}
  PROVE  SlaveInv' /\ Progress
<1> USE DEF StopCommand, SlaveInv
<1>1. command' = NoCommand /\ step' = 1 /\ noted' = FALSE
  OBVIOUS
<1>2. fate' \in {fate, outcome} /\ (~Running => fate' = fate)
  OBVIOUS
<1>3. SlaveTypeOK'
  <2>1. ~Running' /\ step' \in 1 .. 1
    BY <1>1 DEF Running
  <2>2. fate' \in {"none", "sent", "running", "cut", "erased", "ignored", "refused", "stopped", "done"}
    BY <1>2 DEF SlaveTypeOK
  <2>3. moving' \in BOOLEAN /\ manualMode' \in BOOLEAN /\ noted' \in BOOLEAN
    BY <1>1 DEF SlaveTypeOK
  <2> QED BY <1>1, <2>1, <2>2, <2>3 DEF SlaveTypeOK
<1>4. MoveInv'
  BY <1>1 DEF MoveInv, Running
<1>5. ~Running => FullStatus' = {FAIL}
  <2>1. FullStatus' \subseteq {FAIL}
    BY DEF FullStatus
  <2> QED BY <2>1
<1>6. FullStatus \subseteq {FAIL}
  BY DEF FullStatus, SlaveTypeOK
<1>7. Running /\ fate \in {"running", "cut", "erased"} =>
        FullStatus' # {} \/ fate' = "done" \/ (fate' = fate /\ fate = "erased")
  OBVIOUS
<1> QED BY <1>1, <1>2, <1>3, <1>4, <1>5, <1>6, <1>7 DEF Progress, Running

\* The command goes on to its next step: what the step may have done to the move.
LEMMA NextStepFacts ==
  ASSUME SlaveInv, Running, NextStep, Instruction \notin {"end", "verdict"},
         spc = "step", spc' = "handle",
         UNCHANGED manualMode, noted' \in BOOLEAN, status' \subseteq {FAIL},
         \/ UNCHANGED <<moving, armStatus, fate>> /\ (moving => Instruction = "reset")
         \/ /\ Aim /\ Instruction \in {"aim", "sweep", "check", "approach"}
            /\ fate' = IF fate = "cut" THEN "erased" ELSE fate
            /\ fate = "cut" => command = "TAKE_CUBE_SMART"
  PROVE  SlaveInv' /\ Progress
<1> USE DEF SlaveInv
<1> DEFINE p == Program[command]
<1>1. /\ WellFormed(p) /\ step \in 1 .. Len(p) /\ step \in Nat /\ Len(p) \in Nat
      /\ command \in Commands /\ Instruction = p[step]
  BY CommandFacts DEF Instruction
<1>2. step < Len(p)
  BY <1>1 DEF WellFormed
<1>3. step' = step + 1 /\ command' = command /\ Running' /\ Instruction' = p[step + 1]
  BY DEF NextStep, Running, Instruction
<1>4. moving' \in BOOLEAN /\ armStatus' \subseteq {FAIL} /\ fate' \in {fate, "erased"}
  BY DEF Aim, SlaveTypeOK
<1>5. SlaveTypeOK'
  BY <1>1, <1>2, <1>3, <1>4 DEF SlaveTypeOK, Running
<1>6. MoveInv'
  <2>1. moving' => Instruction' \in AtMoves
    BY <1>1, <1>3 DEF WellFormed, AtMoves
  <2>2. fate' = "cut" => armStatus' = {FAIL} /\ step' > 1
    BY <1>1, <1>3 DEF MoveInv
  <2> QED BY <1>3, <2>1, <2>2 DEF MoveInv
<1>7. Progress
  BY <1>3, <1>4 DEF Progress
<1> QED BY <1>5, <1>6, <1>7

\* The command waits at its step.
LEMMA SameStepFacts ==
  ASSUME SlaveInv, Running, UNCHANGED <<command, step, moving, armStatus, manualMode, fate>>,
         spc = "step", spc' = "handle", noted' \in BOOLEAN, status' \subseteq {FAIL}
  PROVE  SlaveInv' /\ Progress
BY DEF SlaveInv, SlaveTypeOK, MoveInv, Progress, Running, Instruction

LEMMA WaitFacts ==
  ASSUME SlaveInv, Running, Wait, spc = "step", spc' = "handle",
         Instruction \in {"wait", "approach"}
  PROVE  SlaveInv' /\ Progress
<1>1. CASE moving
  BY <1>1, SameStepFacts DEF Wait, SlaveInv, SlaveTypeOK, armVars
<1>2. CASE ~moving
  BY <1>2, NextStepFacts DEF Wait, SlaveInv, SlaveTypeOK, armVars
<1> QED BY <1>1, <1>2

LEMMA AimFacts ==
  ASSUME SlaveInv, Running, AimNext, spc = "step", spc' = "handle",
         Instruction \in {"aim", "sweep", "check", "approach"},
         Instruction = "approach" => useSensor
  PROVE  SlaveInv' /\ Progress
<1>1. fate = "cut" => command = "TAKE_CUBE_SMART"
  BY DEF SlaveInv, MoveInv, AtMoves, useSensor
<1>2. noted' \in BOOLEAN /\ status' \subseteq {FAIL} /\ UNCHANGED manualMode
  BY DEF AimNext, Aim, SlaveInv, SlaveTypeOK
<1> QED BY <1>1, <1>2, NextStepFacts DEF AimNext

LEMMA StepFacts ==
  ASSUME SlaveInv, Step
  PROVE  SlaveInv' /\ Progress
<1>0. Running /\ spc = "step" /\ spc' = "handle"
  BY DEF SlaveInv, MoveInv, Step
<1>1. CASE Instruction = "aim" /\ AimNext
  BY <1>0, <1>1, AimFacts
<1>2. CASE Instruction = "wait" /\ Wait
  BY <1>0, <1>2, WaitFacts
<1>3. CASE Instruction = "sweep" /\ Sweep
  <2>1. CASE useSensor
    BY <1>0, <1>3, <2>1, AimFacts DEF Sweep
  <2>2. CASE ~useSensor
    <3>1. ~moving \/ step = 1
      BY <1>0, <1>3, CommandFacts DEF SlaveInv, MoveInv, AtMoves
    <3>2. step # 1
      BY <1>0, <1>3, CommandFacts DEF SlaveInv, WellFormed, Instruction
    <3> QED BY <1>0, <1>3, <2>2, <3>1, <3>2, NextStepFacts
            DEF Sweep, SlaveInv, SlaveTypeOK, armVars
  <2> QED BY <2>1, <2>2
<1>4. CASE Instruction = "check" /\ Check
  <2>1. CASE AimNext
    BY <1>0, <1>4, <2>1, AimFacts
  <2>2. CASE Reject
    BY <1>0, <2>2, StopFacts DEF Reject, SlaveInv, SlaveTypeOK, armVars, FullStatus
  <2> QED BY <1>4, <2>1, <2>2 DEF Check
<1>5. CASE Instruction = "reset" /\ Reset
  BY <1>0, <1>5, NextStepFacts DEF Reset, SlaveInv, SlaveTypeOK, armVars
<1>6. CASE Instruction = "scan" /\ Scan
  <2>1. noted' \in BOOLEAN /\ status' \subseteq {FAIL}
    BY <1>6 DEF Scan, SlaveInv, SlaveTypeOK
  <2>2. CASE moving
    BY <1>0, <1>6, <2>1, <2>2, SameStepFacts DEF Scan, armVars
  <2>3. CASE ~moving
    BY <1>0, <1>6, <2>1, <2>3, NextStepFacts DEF Scan, armVars
  <2> QED BY <2>2, <2>3
<1>7. CASE Instruction = "approach" /\ Approach
  BY <1>0, <1>7, AimFacts, WaitFacts DEF Approach
<1>8. CASE Instruction = "pile" /\ Pile
  <2>1. ~moving \/ step = 1
    BY <1>0, <1>8, CommandFacts DEF SlaveInv, MoveInv, AtMoves
  <2>2. step # 1
    BY <1>0, <1>8, CommandFacts DEF SlaveInv, WellFormed, Instruction
  <2> QED BY <1>0, <1>8, <2>1, <2>2, NextStepFacts DEF Pile, SlaveInv, SlaveTypeOK, armVars
<1>9. CASE Instruction \in {"end", "verdict"} /\ (End \/ Verdict)
  <2>1. fate # "cut"
    BY <1>0, <1>9 DEF SlaveInv, MoveInv, AtMoves
  <2>2. status' \subseteq {FAIL} /\ StopCommand("done") /\ UNCHANGED armVars
    BY <1>9 DEF End, Verdict, SlaveInv, SlaveTypeOK
  <2> QED BY <1>0, <2>1, <2>2, StopFacts DEF SlaveInv, SlaveTypeOK, armVars
<1> QED BY <1>1, <1>2, <1>3, <1>4, <1>5, <1>6, <1>7, <1>8, <1>9 DEF Step

LEMMA ControlFacts ==
  ASSUME SlaveInv, Control
  PROVE  SlaveInv' /\ Progress
<1> USE DEF SlaveInv
<1>1. PICK dead \in BOOLEAN, arm \in ServoStatus :
        /\ status' = IF dead THEN {FAIL} ELSE status
        /\ armStatus' = arm
        /\ \/ Running /\ arm = {} /\ spc' = "step"
              /\ UNCHANGED <<command, step, noted, fate>>
           \/ Running /\ arm # {} /\ spc' = "handle" /\ StopCommand("stopped")
           \/ ~Running /\ spc' = "handle" /\ UNCHANGED <<command, step, noted, fate>>
  BY DEF Control
<1>2. /\ status' \subseteq {FAIL} /\ armStatus' \subseteq {FAIL} /\ arm \in {armStatus, {FAIL}}
      /\ UNCHANGED <<moving, manualMode>> /\ moving' \in BOOLEAN
      /\ status \subseteq status' /\ armStatus \subseteq armStatus'
  BY <1>1 DEF Control, ServoStatus, SlaveTypeOK
<1>3. CASE Running /\ arm = {} /\ spc' = "step" /\ UNCHANGED <<command, step, noted, fate>>
  <2>1. fate # "cut"
    BY <1>2, <1>3 DEF MoveInv
  <2> QED BY <1>2, <1>3, <2>1 DEF SlaveTypeOK, MoveInv, Progress, Running, Instruction
<1>4. CASE Running /\ arm # {} /\ spc' = "handle" /\ StopCommand("stopped")
  BY <1>1, <1>2, <1>4, StopFacts DEF FullStatus
<1>5. CASE ~Running /\ spc' = "handle" /\ UNCHANGED <<command, step, noted, fate>>
  BY <1>2, <1>5 DEF SlaveTypeOK, MoveInv, Progress, Running, FullStatus
<1> QED BY <1>1, <1>3, <1>4, <1>5

LEMMA InterruptFacts ==
  ASSUME SlaveInv, Interrupt
  PROVE  SlaveInv' /\ Progress
<1> USE DEF SlaveInv
<1>1. /\ UNCHANGED <<spc, commandVars, manualMode>> /\ moving' = FALSE
      /\ \/ UNCHANGED <<armStatus, fate>>
         \/ armStatus' = {FAIL} /\ Cut
  BY DEF Interrupt, MotorBlocked, EndOfMove, MoveTimeout
<1>2. armStatus' \subseteq {FAIL} /\ armStatus \subseteq armStatus' /\ fate' \in {fate, "cut"}
  BY <1>1 DEF Cut, SlaveTypeOK
<1>3. fate' # fate => Running /\ fate = "running" /\ moving /\ step > 1 /\ armStatus' = {FAIL}
  BY <1>1 DEF Cut
<1>4. SlaveTypeOK'
  BY <1>1, <1>2 DEF SlaveTypeOK, Running, commandVars
<1>5. MoveInv'
  BY <1>1, <1>2, <1>3 DEF MoveInv, Running, Instruction, commandVars, SlaveTypeOK
<1>6. Progress
  BY <1>1, <1>2, <1>3 DEF Progress, Running, FullStatus, commandVars
<1> QED BY <1>4, <1>5, <1>6

LEMMA TimerFacts ==
  ASSUME SlaveInv, TimerExpires
  PROVE  SlaveInv' /\ Progress
BY StopFacts DEF TimerExpires, SlaveInv, SlaveTypeOK, armVars, FullStatus

-----------------------------------------------------------------------------
(* The frames on the link                                                  *)

Down == Commands \cup {"STOP"}

LEMMA DownAppend ==
  ASSUME down \in Seq(Down), NEW d \in Down, down' = Append(down, d)
  PROVE  /\ down' \in Seq(Down)
         /\ \A i \in DOMAIN down' : down'[i] \in Down
         /\ Sent' = IF d = "STOP" THEN Sent ELSE Sent \cup {Len(down) + 1}
         /\ \A i \in Sent : down'[i] = down[i]
         /\ down'[Len(down) + 1] = d
<1>1. /\ down' \in Seq(Down) /\ Len(down') = Len(down) + 1 /\ Len(down) \in Nat
      /\ DOMAIN down' = 1 .. Len(down) + 1 /\ DOMAIN down = 1 .. Len(down)
      /\ \A i \in 1 .. Len(down) : down'[i] = down[i]
      /\ down'[Len(down) + 1] = d
  OBVIOUS
<1> QED BY <1>1 DEF Sent

LEMMA DownTail ==
  ASSUME down \in Seq(Down), down # <<>>, down' = Tail(down)
  PROVE  /\ down' \in Seq(Down)
         /\ \A i \in DOMAIN down' : down'[i] \in Down
         /\ \A i \in Sent' : i + 1 \in Sent /\ down'[i] = down[i + 1] /\ i \in Nat \ {0}
         /\ \A i \in Sent : i # 1 => i - 1 \in Sent'
         /\ Head(down) = down[1] /\ 1 \in DOMAIN down
         /\ \A i \in Sent : i \in Nat
<1>1. /\ down' \in Seq(Down) /\ Len(down') = Len(down) - 1 /\ Len(down) \in Nat /\ Len(down) >= 1
      /\ DOMAIN down' = 1 .. Len(down) - 1 /\ DOMAIN down = 1 .. Len(down)
      /\ \A i \in 1 .. Len(down) - 1 : down'[i] = down[i + 1]
      /\ Head(down) = down[1]
  OBVIOUS
<1>2. \A i \in Sent' : i + 1 \in Sent /\ down'[i] = down[i + 1] /\ i \in Nat \ {0}
  BY <1>1 DEF Sent
<1>3. \A i \in Sent : i # 1 => i - 1 \in Sent'
  BY <1>1 DEF Sent
<1>4. \A i \in DOMAIN down' : down'[i] \in Down
  BY <1>1
<1>5. \A i \in Sent : i \in Nat
  BY <1>1 DEF Sent
<1>6. Head(down) = down[1] /\ 1 \in DOMAIN down /\ down' \in Seq(Down)
  BY <1>1
<1> QED BY <1>2, <1>3, <1>4, <1>5, <1>6

LEMMA UpTail ==
  ASSUME up \in Seq(Frames), up # <<>>, up' = Tail(up)
  PROVE  /\ up' \in Seq(Frames)
         /\ Head(up) = up[1] /\ 1 \in DOMAIN up /\ Head(up) \in Frames
         /\ \A i \in DOMAIN up' : i + 1 \in DOMAIN up /\ up'[i] = up[i + 1]
         /\ \A i \in DOMAIN up : i # 1 => i - 1 \in DOMAIN up' /\ up'[i - 1] = up[i]
<1>1. /\ up' \in Seq(Frames) /\ Len(up') = Len(up) - 1 /\ Len(up) \in Nat /\ Len(up) >= 1
      /\ DOMAIN up' = 1 .. Len(up) - 1 /\ DOMAIN up = 1 .. Len(up)
      /\ \A i \in 1 .. Len(up) - 1 : up'[i] = up[i + 1]
      /\ Head(up) = up[1]
  OBVIOUS
<1> QED BY <1>1

LEMMA UpAppend ==
  ASSUME NEW s \in Seq(Frames), NEW f \in Frames, up' = Append(s, f)
  PROVE  /\ up' \in Seq(Frames)
         /\ \A i \in DOMAIN up' : (i \in DOMAIN s /\ up'[i] = s[i]) \/ up'[i] = f
         /\ \A i \in DOMAIN s : i \in DOMAIN up' /\ up'[i] = s[i]
         /\ \E i \in DOMAIN up' : up'[i] = f
<1>1. /\ up' \in Seq(Frames) /\ Len(up') = Len(s) + 1 /\ Len(s) \in Nat
      /\ DOMAIN up' = 1 .. Len(s) + 1 /\ DOMAIN s = 1 .. Len(s)
      /\ \A i \in 1 .. Len(s) : up'[i] = s[i]
      /\ up'[Len(s) + 1] = f
  OBVIOUS
<1> QED BY <1>1

LEMMA OutdatedFacts ==
  ASSUME up \in Seq(Frames)
  PROVE  /\ Outdated(up) \in Seq(Frames)
         /\ \A i \in DOMAIN Outdated(up) : Outdated(up)[i].old = TRUE
<1>1. up \in [1 .. Len(up) -> Frames] /\ Len(up) \in Nat /\ DOMAIN up = 1 .. Len(up)
  BY LenProperties
<1>2. \A i \in 1 .. Len(up) : [up[i] EXCEPT !.old = TRUE] \in Frames
  BY <1>1 DEF Frames
<1>3. Outdated(up) \in [1 .. Len(up) -> Frames]
  BY <1>1, <1>2 DEF Outdated
<1>4. Outdated(up) \in Seq(Frames) /\ DOMAIN Outdated(up) = 1 .. Len(up)
  BY <1>1, <1>3
<1>5. \A i \in 1 .. Len(up) : up[i] \in Frames
  BY <1>1
<1>6. \A i \in 1 .. Len(up) : [up[i] EXCEPT !.old = TRUE].old = TRUE
  BY <1>5 DEF Frames
<1> QED BY <1>1, <1>4, <1>6 DEF Outdated

LEMMA FramesFacts ==
  ASSUME SlaveTypeOK
  PROVE  Ack \in Frames /\ ReportFrame \in Frames
<1>1. FullStatus \subseteq {FAIL} /\ Running \in BOOLEAN
  BY DEF FullStatus, SlaveTypeOK, Running
<1> QED BY <1>1 DEF Ack, ReportFrame, Frames

-----------------------------------------------------------------------------
(* The link and the master                                                 *)

OrderInv == OneCommand /\ Reports /\ Believes /\ NeverIgnored

\* A step of the arm that leaves the master and the link alone.
LEMMA ArmOnly ==
  ASSUME Inv, SlaveInv', Progress, UNCHANGED <<masterVars, linkVars, disturbed>>
  PROVE  Inv'
<1> USE DEF Inv, masterVars, linkVars
<1>1. LinkTypeOK' /\ MoveInv'
  BY DEF LinkTypeOK, TypeOK, SlaveInv
<1>2. (mpc = "ack" => order # NoOrder)'
  OBVIOUS
<1>3. ASSUME ~disturbed PROVE OrderInv'
  <2>1. Sent' = Sent
    BY DEF Sent
  <2>2. ~Running => ~Running' /\ (Carried => Carried')
    BY DEF Progress, Carried
  <2>3. OneCommand'
    <3>1. (order = NoOrder => ~Running /\ Sent = {})'
      BY <1>3, <2>1, <2>2 DEF OneCommand
    <3>2. (\A i, j \in Sent : i = j)' /\ (\A i \in Sent : down[i] = order)'
      BY <1>3, <2>1 DEF OneCommand
    <3>3. (Sent # {} => ~Running /\ fate = "sent")'
      BY <1>3, <2>1, <2>2 DEF OneCommand, Progress
    <3>4. (Running => command = order /\ fate \in {"running", "cut", "erased"})'
      BY <1>3, <2>2 DEF OneCommand, Progress
    <3>5. (Running /\ fate = "erased" => command = "TAKE_CUBE_SMART")'
      BY <1>3, <2>2 DEF OneCommand, Progress
    <3>6. (Sent = {} /\ order # NoOrder /\ ~Running => Carried \/ FullStatus # {})'
      BY <1>3, <2>1, <2>2 DEF OneCommand, Progress, Carried
    <3> QED BY <3>1, <3>2, <3>3, <3>4, <3>5, <3>6 DEF OneCommand
  <2>4. Reports'
    BY <1>3, <2>1, <2>2 DEF Reports
  <2>5. Believes'
    BY <1>3, <2>1, <2>2 DEF Believes
  <2>6. NeverIgnored'
    BY <1>3 DEF NeverIgnored, Progress
  <2> QED BY <2>3, <2>4, <2>5, <2>6 DEF OrderInv
<1> QED BY <1>1, <1>2, <1>3 DEF OrderInv

LEMMA SlaveStepInv ==
  ASSUME Inv, SmartArmStep \/ (Interrupt /\ UNCHANGED <<masterVars, linkVars, disturbed>>)
  PROVE  Inv'
<1>1. SlaveInv
  BY DEF Inv, LinkTypeOK, TypeOK, SlaveInv
<1> QED BY <1>1, ArmOnly, ControlFacts, StepFacts, TimerFacts, InterruptFacts DEF SmartArmStep

LEMMA HandleNothingInv ==
  ASSUME Inv, HandleNothing
  PROVE  Inv'
<1>1. SlaveInv
  BY DEF Inv, LinkTypeOK, TypeOK, SlaveInv
<1>2. SlaveInv' /\ Progress
  BY <1>1 DEF HandleNothing, SlaveInv, SlaveTypeOK, MoveInv, Progress, commandVars, armVars,
              Running, Instruction, FullStatus
<1> QED BY <1>2, ArmOnly DEF HandleNothing

\* The command of the order arrives: the arm does not run another.
LEMMA HandleCommandInv ==
  ASSUME Inv, HandleCommand
  PROVE  Inv'
<1> USE DEF Inv, HandleCommand, LinkTypeOK, TypeOK
<1> DEFINE c == Head(down)
<1>0. down \in Seq(Down) /\ up \in Seq(Frames) /\ SlaveTypeOK
  BY DEF Down
<1>1. /\ down' \in Seq(Down) /\ \A i \in DOMAIN down' : down'[i] \in Down
      /\ \A i \in Sent' : i + 1 \in Sent /\ i \in Nat \ {0}
      /\ c = down[1] /\ 1 \in DOMAIN down
  BY <1>0, DownTail
<1>2. c \in Commands /\ c # "STOP" /\ 1 \in Sent
  <2>1. c \in Down /\ c \in AllCommands
    BY <1>0, <1>1
  <2>2. "STOP" \notin AllCommands
    BY DEF AllCommands, Program
  <2> QED BY <1>1, <2>1, <2>2 DEF Sent, Down
<1>a. Outdated(up) \in Seq(Frames) /\ Ack \in Frames /\ Ack.kind = "ACK"
  BY <1>0, OutdatedFacts, FramesFacts DEF Ack
<1>b. /\ up' \in Seq(Frames)
      /\ \A i \in DOMAIN up' :
           (i \in DOMAIN Outdated(up) /\ up'[i] = Outdated(up)[i]) \/ up'[i] = Ack
      /\ \E i \in DOMAIN up' : up'[i] = Ack
  BY <1>a, UpAppend
<1>3. up' \in Seq(Frames) /\ \E i \in DOMAIN up' : up'[i].kind = "ACK"
  BY <1>a, <1>b
<1>4. \A i \in DOMAIN up' : up'[i].old \/ up'[i].kind = "ACK"
  BY <1>0, <1>a, <1>b, OutdatedFacts
<1>5. SlaveInv'
  <2>1. CASE Running
    BY <2>1 DEF ExecuteCommand, SlaveInv, SlaveTypeOK, MoveInv, Running, Instruction,
                commandVars, armVars
  <2>2. CASE ~Running
    <3>1. 1 \in 1 .. Len(Program[c])
      BY <1>2, ProgramWellFormed DEF WellFormed
    <3>2. moving' \in BOOLEAN
      BY <2>2 DEF ExecuteCommand, SlaveTypeOK
    <3>3. /\ command' = c /\ step' = 1 /\ status' = {} /\ armStatus' = {}
          /\ fate' = "running" /\ UNCHANGED <<noted, manualMode>> /\ spc' = "control"
      BY <2>2 DEF ExecuteCommand
    <3>4. SlaveTypeOK'
      <4>1. Running' /\ step' \in 1 .. Len(Program[command'])
        BY <3>1, <3>3, <1>2, ProgramWellFormed DEF Running
      <4> QED BY <1>2, <3>2, <3>3, <4>1 DEF SlaveTypeOK
    <3>5. MoveInv'
      BY <3>3 DEF MoveInv
    <3> QED BY <3>4, <3>5 DEF SlaveInv
  <2> QED BY <2>1, <2>2
<1>6. LinkTypeOK' /\ MoveInv'
  BY <1>1, <1>3, <1>5 DEF SlaveInv, masterVars, Down
<1>7. ASSUME ~disturbed PROVE OrderInv'
  <2>1. ~Running /\ c = order /\ order # NoOrder
    BY <1>1, <1>2, <1>7 DEF OneCommand
  <2>2. Sent' = {}
    <3>1. \A i, j \in Sent : i = j
      BY <1>7 DEF OneCommand
    <3> QED BY <1>1, <1>2, <3>1
  <2>3. Running' /\ command' = order' /\ fate' = "running" /\ order' = order
    BY <1>2, <2>1, ProgramWellFormed DEF ExecuteCommand, Running, masterVars
  <2>4. OneCommand'
    BY <2>1, <2>2, <2>3 DEF OneCommand
  <2>5. Reports'
    BY <1>4 DEF Reports
  <2>6. Believes'
    BY <1>2, <1>3, <1>7, <2>1 DEF Believes, masterVars
  <2> QED BY <2>3, <2>4, <2>5, <2>6 DEF OrderInv, NeverIgnored
<1> QED BY <1>6, <1>7 DEF OrderInv, masterVars

\* The end of the match finds a command on its way, one that runs, or none.
LEMMA HandleStopInv ==
  ASSUME Inv, HandleStop
  PROVE  Inv'
<1> USE DEF Inv, HandleStop, LinkTypeOK, TypeOK
<1>0. down \in Seq(Down) /\ SlaveInv
  BY DEF Down, SlaveInv
<1>1. /\ down' \in Seq(Down) /\ \A i \in DOMAIN down' : down'[i] \in Down
      /\ \A i \in Sent' : i + 1 \in Sent /\ down'[i] = down[i + 1] /\ i \in Nat \ {0}
      /\ \A i \in Sent : i # 1 => i - 1 \in Sent'
      /\ down[1] = "STOP" /\ \A i \in Sent : i \in Nat
  BY <1>0, DownTail
<1>2. SlaveInv' /\ Progress /\ ~Running' /\ FullStatus' # {}
  <2>1. armStatus' = {FAIL} /\ moving' = FALSE /\ UNCHANGED <<status, manualMode>>
        /\ StopCommand("stopped") /\ spc' = "control"
    BY DEF EmergencyStop
  <2>2. FullStatus' # {} /\ ~Running'
    BY <2>1 DEF FullStatus, StopCommand, Running
  <2> QED BY <1>0, <2>1, <2>2, StopFacts DEF SlaveTypeOK
<1>3. LinkTypeOK' /\ MoveInv'
  BY <1>1, <1>2 DEF SlaveInv, masterVars, Down
<1>4. ASSUME ~disturbed PROVE OrderInv'
  <2>1. Sent' = {} <=> Sent = {}
    BY <1>1 DEF Sent
  <2>2. ~Running => (Carried => Carried') /\ fate' = fate
    BY <1>2 DEF Progress, Carried, masterVars
  <2>3. OneCommand'
    <3>1. (\A i, j \in Sent : i = j)'
      <4>1. \A i, j \in Sent : i = j
        BY <1>4 DEF OneCommand
      <4>2. ASSUME NEW i \in Sent', NEW j \in Sent' PROVE i = j
        <5>1. i + 1 = j + 1 /\ i \in Nat /\ j \in Nat
          BY <1>1, <4>1
        <5> QED BY <5>1
      <4> QED BY <4>2
    <3>2. (\A i \in Sent : down[i] = order)'
      BY <1>1, <1>4 DEF OneCommand, masterVars
    <3>3. (order = NoOrder => ~Running /\ Sent = {})' /\ (Sent # {} => ~Running /\ fate = "sent")'
      BY <1>2, <1>4, <2>1, <2>2 DEF OneCommand, masterVars
    <3> QED BY <1>2, <3>1, <3>2, <3>3 DEF OneCommand
  <2>4. Reports'
    BY <1>2, <1>4, <2>1, <2>2 DEF Reports, masterVars
  <2>5. Believes'
    BY <1>2, <1>4, <2>1, <2>2 DEF Believes, masterVars
  <2>6. NeverIgnored'
    BY <1>2, <1>4 DEF NeverIgnored, Progress
  <2> QED BY <2>3, <2>4, <2>5, <2>6 DEF OrderInv
<1> QED BY <1>3, <1>4 DEF OrderInv, masterVars

\* A report of a command that is over says how it ended.
LEMMA SendReportInv ==
  ASSUME Inv, SendReport
  PROVE  Inv'
<1> USE DEF Inv, SendReport, LinkTypeOK, TypeOK
<1>1. SlaveTypeOK /\ ReportFrame \in Frames /\ up \in Seq(Frames)
  BY FramesFacts
<1>2. /\ up' \in Seq(Frames)
      /\ \A i \in DOMAIN up' : (i \in DOMAIN up /\ up'[i] = up[i]) \/ up'[i] = ReportFrame
      /\ \A i \in DOMAIN up : i \in DOMAIN up' /\ up'[i] = up[i]
  BY <1>1, UpAppend
<1>3. LinkTypeOK' /\ MoveInv'
  BY <1>2 DEF slaveVars, commandVars, armVars, masterVars, SlaveTypeOK, MoveInv, Running,
              Instruction
<1>4. /\ UNCHANGED <<order, mpc, down, believed, known, acked, lock, fate, command>>
      /\ UNCHANGED <<status, armStatus>>
  BY DEF slaveVars, commandVars, armVars, masterVars
<1>5. ASSUME ~disturbed PROVE OrderInv'
  <2>1. OneCommand' /\ NeverIgnored'
    BY <1>4, <1>5 DEF OneCommand, NeverIgnored, Sent, Carried, Running, FullStatus
  <2>2. Reports'
    <3> SUFFICES ASSUME Sent' = {}, order' # NoOrder, NEW i \in DOMAIN up',
                        up'[i].kind = "REPORT", ~up'[i].old, ~up'[i].moving
                 PROVE  ~Running' /\ (up'[i].status = {} => Carried')
      BY DEF Reports
    <3>1. Sent = {} /\ order # NoOrder
      BY <1>4 DEF Sent
    <3>2. CASE i \in DOMAIN up /\ up'[i] = up[i]
      BY <1>4, <1>5, <3>1, <3>2 DEF Reports, Running, Carried
    <3>3. CASE up'[i] = ReportFrame
      <4>1. ~Running /\ up'[i].status = FullStatus
        BY <3>3 DEF ReportFrame
      <4>2. FullStatus = {} => Carried
        BY <1>5, <3>1, <4>1 DEF OneCommand
      <4> QED BY <1>4, <4>1, <4>2 DEF Running, Carried
    <3> QED BY <1>2, <3>2, <3>3
  <2>3. Believes'
    <3>1. ReportFrame.old = FALSE
      BY DEF ReportFrame
    <3>2. Running' = Running /\ Sent' = Sent /\ Carried' = Carried
      BY <1>4 DEF Running, Sent, Carried
    <3>3. (\A i \in DOMAIN up : ~up[i].old) => \A i \in DOMAIN up' : ~up'[i].old
      BY <1>2, <3>1
    <3>4. (\E i \in DOMAIN up : up[i].kind = "ACK") => \E i \in DOMAIN up' : up'[i].kind = "ACK"
      BY <1>2
    <3> QED BY <1>4, <1>5, <3>2, <3>3, <3>4 DEF Believes
  <2> QED BY <2>1, <2>2, <2>3 DEF OrderInv
<1> QED BY <1>3, <1>4, <1>5 DEF OrderInv

\* Once something went wrong, only the types remain until the next launch.
LEMMA DisturbedInv ==
  ASSUME Inv, Button \/ Lose
  PROVE  Inv'
<1> USE DEF Inv, LinkTypeOK, TypeOK
<1>0. disturbed' = TRUE
  BY DEF Button, Lose, Disturb
<1>1. CASE Button
  <2>1. PICK enable \in BOOLEAN : SetManualMode(enable)
    BY <1>1 DEF Button
  <2>2. SlaveTypeOK' /\ MoveInv'
    BY <1>1, <2>1 DEF Button, SetManualMode, SlaveTypeOK, MoveInv, Running, Instruction,
                      commandVars
  <2> QED BY <1>0, <1>1, <2>2 DEF Button, masterVars, linkVars, commandVars
<1>2. CASE Lose
  <2>1. SlaveTypeOK' /\ MoveInv'
    BY <1>2 DEF Lose, slaveVars, commandVars, armVars, SlaveTypeOK, MoveInv, Running, Instruction
  <2>2. down \in Seq(Down) /\ up \in Seq(Frames)
    BY DEF Down
  <2>3. down' \in Seq(Down) /\ up' \in Seq(Frames) /\ \A i \in DOMAIN down' : down'[i] \in Down
    BY <1>2, <2>2, DownTail, UpTail DEF Lose, Down
  <2> QED BY <1>0, <1>2, <2>1, <2>3 DEF Lose, masterVars, Down
<1> QED BY <1>1, <1>2

\* A launch finds nothing of the order before, whatever went wrong with it if the arm is at
\* rest.
LEMMA LaunchInv ==
  ASSUME Inv, NEW c \in Commands, Launch(c)
  PROVE  Inv'
<1> USE DEF Inv, Launch, LinkTypeOK, TypeOK
<1>0. down \in Seq(Down) /\ c \in Down /\ c # "STOP" /\ c # NoOrder
  BY ProgramWellFormed DEF Down
<1>1. /\ down' \in Seq(Down) /\ \A i \in DOMAIN down' : down'[i] \in Down
      /\ Sent' = Sent \cup {Len(down) + 1} /\ down'[Len(down) + 1] = c
  BY <1>0, DownAppend
<1>2. SlaveTypeOK' /\ MoveInv'
  BY DEF commandVars, armVars, SlaveTypeOK, MoveInv, Running, Instruction
<1>3. LinkTypeOK'
  BY <1>1, <1>2 DEF Down
<1>4. ASSUME ~disturbed' PROVE OrderInv'
  <2>1. ~Running /\ Sent = {}
    BY <1>4 DEF OneCommand, Quiet, Sent
  <2>2. Sent' = {Len(down) + 1} /\ ~Running' /\ fate' = "sent" /\ order' = c /\ mpc' = "ack"
    BY <1>1, <2>1 DEF Running, commandVars
  <2>3. OneCommand'
    BY <1>0, <1>1, <2>2 DEF OneCommand
  <2>4. Reports' /\ Believes' /\ NeverIgnored'
    BY <2>2 DEF Reports, Believes, NeverIgnored
  <2> QED BY <2>3, <2>4 DEF OrderInv
<1> QED BY <1>0, <1>2, <1>3, <1>4 DEF OrderInv

\* A frame that the master reads.
LEMMA ReceiveFacts ==
  ASSUME LinkTypeOK, Receive
  PROVE  /\ up' \in Seq(Frames) /\ believed' \in BOOLEAN /\ acked' \in BOOLEAN
         /\ known' \subseteq {FAIL, "COM_ERR"}
         /\ \A i \in DOMAIN up' : i + 1 \in DOMAIN up /\ up'[i] = up[i + 1]
         /\ \A i \in DOMAIN up : i # 1 => i - 1 \in DOMAIN up' /\ up'[i - 1] = up[i]
         /\ 1 \in DOMAIN up
         /\ up[1].kind = "ACK" => acked' /\ UNCHANGED <<believed, known>>
         /\ up[1].kind # "ACK" => /\ up[1].kind = "REPORT" /\ UNCHANGED acked
                                  /\ known' = up[1].status
                                  /\ believed' = IF lock THEN believed ELSE up[1].moving
<1> USE DEF LinkTypeOK, TypeOK
<1>0. up \in Seq(Frames) /\ up # <<>> /\ up' = Tail(up)
  BY DEF Receive
<1>1. /\ up' \in Seq(Frames)
      /\ Head(up) = up[1] /\ 1 \in DOMAIN up /\ Head(up) \in Frames
      /\ \A i \in DOMAIN up' : i + 1 \in DOMAIN up /\ up'[i] = up[i + 1]
      /\ \A i \in DOMAIN up : i # 1 => i - 1 \in DOMAIN up' /\ up'[i - 1] = up[i]
  BY <1>0, UpTail
<1>2. up[1].kind \in {"ACK", "REPORT"} /\ up[1].moving \in BOOLEAN /\ up[1].status \subseteq {FAIL}
  BY <1>1 DEF Frames
<1> QED BY <1>1, <1>2 DEF Receive

LEMMA AckListenInv ==
  ASSUME Inv, AckListen
  PROVE  Inv'
<1> USE DEF Inv, AckListen
<1>1. Receive /\ LinkTypeOK
  OBVIOUS
<1>2. /\ UNCHANGED <<mpc, order, lock, match, down, disturbed>> /\ mpc = "ack" /\ ~acked
      /\ UNCHANGED <<fate, command, status, armStatus, spc, step, moving, manualMode, noted>>
  BY DEF slaveVars, commandVars, armVars
<1>3. LinkTypeOK' /\ MoveInv'
  BY <1>1, <1>2, ReceiveFacts DEF LinkTypeOK, TypeOK, SlaveTypeOK, MoveInv, Running, Instruction
<1>4. ASSUME ~disturbed PROVE OrderInv'
  <2>1. OneCommand' /\ NeverIgnored'
    BY <1>2, <1>4 DEF OneCommand, NeverIgnored, Sent, Carried, Running, FullStatus
  <2>2. Reports'
    BY <1>1, <1>2, <1>4, ReceiveFacts DEF Reports, Sent, Carried, Running
  <2>3. Believes'
    <3>1. ~acked' => Sent' # {} \/ \E i \in DOMAIN up' : up'[i].kind = "ACK"
      <4>1. CASE Sent # {}
        BY <1>2, <4>1 DEF Sent
      <4>2. ASSUME NEW i \in DOMAIN up, up[i].kind = "ACK", ~acked'
            PROVE  \E j \in DOMAIN up' : up'[j].kind = "ACK"
        BY <1>1, <4>2, ReceiveFacts
      <4> QED BY <1>2, <1>4, <4>1, <4>2 DEF Believes
    <3> QED BY <1>2, <3>1 DEF Believes
  <2> QED BY <2>1, <2>2, <2>3 DEF OrderInv
<1> QED BY <1>2, <1>3, <1>4 DEF OrderInv

LEMMA AckReceivedInv ==
  ASSUME Inv, AckReceived
  PROVE  Inv'
<1> USE DEF Inv, AckReceived
<1>1. /\ UNCHANGED <<order, known, acked, match, down, up, disturbed>>
      /\ UNCHANGED <<fate, command, status, armStatus, spc, step, moving, manualMode, noted>>
      /\ mpc' = "loop" /\ believed' = TRUE /\ lock' = TRUE
  BY DEF slaveVars, commandVars, armVars, linkVars
<1>2. LinkTypeOK' /\ MoveInv'
  BY <1>1 DEF LinkTypeOK, TypeOK, SlaveTypeOK, MoveInv, Running, Instruction
<1>3. ASSUME ~disturbed PROVE OrderInv'
  BY <1>1, <1>3 DEF OrderInv, OneCommand, NeverIgnored, Reports, Believes, Sent, Carried,
                    Running, FullStatus
<1> QED BY <1>1, <1>2, <1>3 DEF OrderInv

\* An acknowledgement is only missed after a loss.
LEMMA AckTimeoutInv ==
  ASSUME Inv, AckTimeout
  PROVE  Inv'
<1> USE DEF Inv, AckTimeout
<1>1. /\ UNCHANGED <<order, believed, acked, lock, match, down, up, disturbed>>
      /\ UNCHANGED <<fate, command, status, armStatus, spc, step, moving, manualMode, noted>>
  BY DEF slaveVars, commandVars, armVars, linkVars
<1>2. LinkTypeOK' /\ MoveInv'
  BY <1>1 DEF LinkTypeOK, TypeOK, SlaveTypeOK, MoveInv, Running, Instruction
<1>3. disturbed
  <2>1. Sent = {}
    BY DEF Sent
  <2> QED BY <2>1 DEF Believes
<1> QED BY <1>1, <1>2, <1>3

\* An order is answered when its command is over, and how it ended is known.
LEMMA TurnInv ==
  ASSUME Inv, Turn
  PROVE  Inv'
<1> USE DEF Inv
<1>1. /\ UNCHANGED <<mpc, lock, match, down, disturbed>> /\ mpc = "loop"
      /\ UNCHANGED <<fate, command, status, armStatus, spc, step, moving, manualMode, noted>>
      /\ order' = IF Finishes THEN NoOrder ELSE order
      /\ Receive \/ (up = <<>> /\ UNCHANGED <<believed, known, acked, up>>)
  BY DEF Turn, slaveVars, commandVars, armVars
<1>2. LinkTypeOK' /\ MoveInv'
  <2>1. SlaveTypeOK' /\ MoveInv'
    BY <1>1 DEF LinkTypeOK, TypeOK, SlaveTypeOK, MoveInv, Running, Instruction
  <2>2. /\ up' \in Seq(Frames) /\ believed' \in BOOLEAN /\ acked' \in BOOLEAN
        /\ known' \subseteq {FAIL, "COM_ERR"}
    BY <1>1, ReceiveFacts DEF LinkTypeOK, TypeOK
  <2> QED BY <1>1, <2>1, <2>2 DEF LinkTypeOK, TypeOK
<1>3. ASSUME ~disturbed PROVE OrderInv'
  <2>1. Sent' = Sent /\ Running' = Running /\ FullStatus' = FullStatus
    BY <1>1 DEF Sent, Running, FullStatus
  <2>2. CASE Finishes
    <3>1. order' = NoOrder /\ ~Running /\ Sent = {}
      BY <1>1, <1>3, <2>2 DEF Finishes, Believes
    <3> QED BY <1>1, <1>3, <2>1, <3>1 DEF OrderInv, OneCommand, NeverIgnored, Reports, Believes
  <2>3. CASE ~Finishes
    <3>0. order' = order /\ Carried' = Carried
      BY <1>1, <2>3 DEF Carried
    <3>1. OneCommand' /\ NeverIgnored'
      BY <1>1, <1>3, <2>1, <3>0 DEF OneCommand, NeverIgnored
    <3>2. Reports'
      BY <1>1, <1>3, <2>1, <3>0, ReceiveFacts DEF Reports
    <3>3. Believes'
      <4>1. CASE order = NoOrder
        BY <1>1, <3>0, <4>1 DEF Believes
      <4>2. CASE order # NoOrder /\ up = <<>> /\ UNCHANGED <<believed, known, acked, up>>
        BY <1>1, <1>3, <2>1, <3>0, <4>2 DEF Believes
      <4>3. CASE order # NoOrder /\ Receive
        <5>1. believed
          BY <1>1, <2>3, <4>3 DEF Finishes
        <5>2. lock => believed'
          BY <4>3, <5>1, ReceiveFacts
        <5>3. ~lock => Sent = {} /\ \A i \in DOMAIN up : ~up[i].old
          BY <1>1, <1>3, <4>3 DEF Believes
        <5>4. ~lock => \A i \in DOMAIN up' : ~up'[i].old
          BY <4>3, <5>3, ReceiveFacts
        <5>5. ~believed' => ~Running /\ Sent = {} /\ (known' = {} => Carried)
          BY <1>3, <4>3, <5>1, <5>2, <5>3, ReceiveFacts DEF Reports
        <5> QED BY <1>1, <2>1, <3>0, <5>2, <5>3, <5>4, <5>5 DEF Believes
      <4> QED BY <1>1, <4>1, <4>2, <4>3
    <3> QED BY <3>1, <3>2, <3>3 DEF OrderInv
  <2> QED BY <2>2, <2>3
<1> QED BY <1>1, <1>2, <1>3 DEF OrderInv

LEMMA EndOfMatchInv ==
  ASSUME Inv, EndOfMatch
  PROVE  Inv'
<1> USE DEF Inv, EndOfMatch
<1>0. down \in Seq(Down) /\ "STOP" \in Down
  BY DEF LinkTypeOK, Down
<1>1. /\ UNCHANGED <<mpc, order, believed, known, acked, lock, up, disturbed>> /\ mpc = "loop"
      /\ UNCHANGED <<fate, command, status, armStatus, spc, step, moving, manualMode, noted>>
  BY DEF slaveVars, commandVars, armVars
<1>2. /\ down' \in Seq(Down) /\ \A i \in DOMAIN down' : down'[i] \in Down
      /\ Sent' = Sent /\ \A i \in Sent : down'[i] = down[i]
  BY <1>0, DownAppend
<1>3. LinkTypeOK' /\ MoveInv'
  BY <1>1, <1>2 DEF LinkTypeOK, TypeOK, SlaveTypeOK, MoveInv, Running, Instruction, Down
<1>4. ASSUME ~disturbed PROVE OrderInv'
  <2>1. OneCommand' /\ NeverIgnored'
    BY <1>1, <1>2, <1>4 DEF OneCommand, NeverIgnored, Carried, Running, FullStatus
  <2>2. Reports' /\ Believes'
    BY <1>1, <1>2, <1>4 DEF Reports, Believes, Carried, Running
  <2> QED BY <2>1, <2>2 DEF OrderInv
<1> QED BY <1>1, <1>3, <1>4 DEF OrderInv

\* The lock is over once the command has arrived and the reports of before it are read.
LEMMA LockExpiresInv ==
  ASSUME Inv, LockExpires
  PROVE  Inv'
<1> USE DEF Inv, LockExpires
<1>1. /\ UNCHANGED <<mpc, order, believed, known, acked, match, down, up, disturbed>>
      /\ UNCHANGED <<fate, command, status, armStatus, spc, step, moving, manualMode, noted>>
      /\ lock /\ lock' = FALSE
  BY DEF slaveVars, commandVars, armVars, linkVars
<1>2. LinkTypeOK' /\ MoveInv'
  BY <1>1 DEF LinkTypeOK, TypeOK, SlaveTypeOK, MoveInv, Running, Instruction
<1>3. ASSUME ~disturbed PROVE OrderInv'
  <2>1. Sent = {} /\ Sent' = Sent /\ Running' = Running /\ Carried' = Carried
    BY <1>1 DEF Sent, Running, Carried
  <2>2. OneCommand' /\ NeverIgnored' /\ Reports'
    BY <1>1, <1>3, <2>1 DEF OneCommand, NeverIgnored, FullStatus, Reports
  <2>3. Believes'
    BY <1>1, <1>3, <2>1 DEF Believes
  <2> QED BY <2>2, <2>3 DEF OrderInv
<1> QED BY <1>1, <1>2, <1>3 DEF OrderInv

-----------------------------------------------------------------------------
(* Theorems                                                                *)

LEMMA InitInv == Init => Inv
<1> SUFFICES ASSUME Init PROVE Inv
  OBVIOUS
<1> USE DEF Init, SlaveInit
<1>1. ~Running /\ Sent = {} /\ order = NoOrder
  BY DEF Running, Sent
<1>2. SlaveTypeOK
  <2>1. step \in 1 .. (IF Running THEN Len(Program[command]) ELSE 1)
    BY <1>1
  <2> QED BY <2>1 DEF SlaveTypeOK
<1>3. LinkTypeOK
  <2>1. up \in Seq(Frames) /\ down \in Seq(Commands \cup {"STOP"}) /\ DOMAIN down = {}
    OBVIOUS
  <2> QED BY <1>2, <2>1 DEF LinkTypeOK, TypeOK
<1>4. MoveInv
  BY DEF MoveInv
<1>5. OneCommand /\ Reports /\ Believes /\ NeverIgnored
  BY <1>1 DEF OneCommand, Reports, Believes, NeverIgnored
<1> QED BY <1>3, <1>4, <1>5 DEF Inv

LEMMA StutterInv ==
  ASSUME Inv, UNCHANGED vars
  PROVE  Inv'
<1>1. /\ UNCHANGED <<mpc, order, believed, known, acked, lock, match, down, up, disturbed>>
      /\ UNCHANGED <<fate, command, status, armStatus, spc, step, moving, manualMode, noted>>
  BY DEF vars, slaveVars, commandVars, armVars, masterVars, linkVars
<1> QED BY <1>1 DEF Inv, LinkTypeOK, TypeOK, SlaveTypeOK, MoveInv, OneCommand, Reports, Believes,
                    NeverIgnored, Sent, Carried, Running, FullStatus, Instruction

LEMMA StepInv == Inv /\ [Next]_vars => Inv'
<1> SUFFICES ASSUME Inv, [Next]_vars PROVE Inv'
  OBVIOUS
<1>1. CASE SlaveLoop
  BY <1>1, SlaveStepInv, HandleNothingInv, HandleCommandInv, HandleStopInv DEF SlaveLoop
<1>2. CASE SendReport \/ Button \/ Lose \/ LockExpires
  BY <1>2, SendReportInv, DisturbedInv, LockExpiresInv
<1>3. CASE MasterLoop
  BY <1>3, LaunchInv, AckListenInv, AckReceivedInv, AckTimeoutInv, TurnInv, EndOfMatchInv
     DEF MasterLoop
<1>4. CASE Interrupt /\ UNCHANGED <<masterVars, linkVars, disturbed>>
  BY <1>4, SlaveStepInv
<1>5. CASE UNCHANGED vars
  BY <1>5, StutterInv
<1> QED BY <1>1, <1>2, <1>3, <1>4, <1>5 DEF Next

LEMMA InvHolds == Spec => []Inv
BY InitInv, StepInv, PTL DEF Spec

\* The variables of the boards, of the link and of the order keep their types, and no command
\* goes beyond its last step.
THEOREM TypeCorrect == Spec => []TypeOK
<1>1. Inv => TypeOK
  BY DEF Inv, LinkTypeOK
<1> QED BY <1>1, InvHolds, PTL

\* executeCommand() of the slave refuses nothing as long as no frame is lost and no button
\* pressed: the master waits for the end of each command.
THEOREM NeverIgnoredHolds == Spec => []NeverIgnored
<1>1. Inv => NeverIgnored
  BY DEF Inv, NeverIgnored
<1> QED BY <1>1, InvHolds, PTL

LEMMA FinishCarried ==
  Inv /\ Turn /\ Finishes /\ ~disturbed /\ {} \in Outputs =>
    fate = "done" \/ (fate = "erased" /\ order = "TAKE_CUBE_SMART")
<1> SUFFICES ASSUME Inv, Finishes, ~disturbed, {} \in Outputs
             PROVE  fate = "done" \/ (fate = "erased" /\ order = "TAKE_CUBE_SMART")
  OBVIOUS
<1>1. known = {}
  BY DEF Outputs
<1>2. Carried
  BY <1>1 DEF Inv, Believes, Finishes
<1> QED BY <1>2 DEF Carried

\* terminate() of an order of the arm answers without a flag only after the command went to
\* its end, whatever reports were read on the way and in whatever order the boards turned.
THEOREM OkMeansDoneHolds == Spec => OkMeansDone
<1>1. Inv => [Turn /\ Finishes /\ ~disturbed /\ {} \in Outputs =>
                \/ fate = "done"
                \/ fate = "erased" /\ order = "TAKE_CUBE_SMART"]_vars
  BY FinishCarried
<1> QED BY <1>1, InvHolds, PTL DEF OkMeansDone
=============================================================================
