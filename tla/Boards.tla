------------------------------- MODULE Boards -------------------------------
(***************************************************************************)
(* The three boards start one another, then the sensor board measures and  *)
(* lights the robot.                                                       *)
(*                                                                         *)
(* The master waits for a report of the arm, wakes the sensor board with a *)
(* mode of the lights, waits for its report, and from then on sends a mode *)
(* each time a light changes.  A mode is only sent when it changes: what   *)
(* the lights show rests on each frame.  The sensors of a board share one  *)
(* I2C bus and all have the same address when they are switched on, so     *)
(* that they are switched on and renamed one at a time.                    *)
(***************************************************************************)
EXTENDS Lights, Integers, Sequences

CONSTANTS
  NB_SENSORS,
  MAX_POWERON_ATTEMPTS,
  Contexts,   \* sets of lights the movement of the robot may call for
  SerialSize  \* frames the serial line of the sensor board holds

MovementLights == {"REVERSE_LIGHT", "STOP_LIGHT", "TURN_LEFT", "TURN_RIGHT"}

ASSUME SensorAssumption == NB_SENSORS \in Nat \ {0} /\ MAX_POWERON_ATTEMPTS \in Nat
ASSUME ContextAssumption ==
  \A c \in Contexts : c \subseteq MovementLights /\ ~({"TURN_LEFT", "TURN_RIGHT"} \subseteq c)
ASSUME SerialAssumption == SerialSize \in Nat \ {0}

VARIABLES
  arm,       \* where the arm stands: the step of its start, or running, or its loop of errors
  armFailures,
  master,    \* what the master waits for, then loop
  mode,      \* lightningMode of the master
  was,       \* the lights the movement called for at the last look (wasBreaking, ...)
  match,     \* where WaitForJumper and StartChrono stand
  shortRangeSensorsValues,
  line,      \* the modes on their way to the sensor board
  overflow,  \* history: a frame found the serial line full
  reports,   \* on their way to the master
  board,     \* where the sensor board stands
  boardMode, updateAvailable,
  lights,
  next,      \* the sensor it is at
  nbAttempts, failed,
  device,    \* the address each sensor answers to, or none
  address,   \* the address its driver calls
  isON,
  strays,    \* history: sensors on before their turn; "lost" when an address got lost since
  sensorsValues

armVars == <<arm, armFailures>>
modeVars == <<mode, line, overflow>>
masterVars == <<master, was, match, shortRangeSensorsValues>>
lightVars == <<boardMode, updateAvailable, lights>>
powerVars == <<nbAttempts, failed>>
sensorVars == <<device, address, isON, strays>>
vars == <<armVars, modeVars, masterVars, reports, board, next, lightVars, powerVars, sensorVars,
          sensorsValues>>

-----------------------------------------------------------------------------

Sensors == 1 .. NB_SENSORS

\* A sensor that is switched on answers to ADDRESS_DEFAULT, one in standby to nothing.
ADDRESS_DEFAULT == 0
None == -1

Nothing == [s \in Sensors |-> "SENSOR_NOT_UPDATED"]

\* The constructor of a sensor calls standby(), that reads initialized before it has a value: the
\* sensor is in standby or left on.
Init ==
  /\ arm = "intSensor" /\ armFailures = 0
  /\ master = "arm" /\ mode = {} /\ was = {} /\ match = "insertion"
  /\ shortRangeSensorsValues = Nothing
  /\ line = <<>> /\ overflow = FALSE /\ reports = <<>>
  /\ board = "wait" /\ boardMode = {} /\ updateAvailable = FALSE /\ lights = Dark
  /\ next = 1 /\ nbAttempts = 0 /\ failed = FALSE
  /\ device \in [Sensors -> {None, ADDRESS_DEFAULT}]
  /\ strays = IF \E s \in Sensors : device[s] # None THEN "some" ELSE "none"
  /\ address = [s \in Sensors |-> ADDRESS_DEFAULT] /\ isON = [s \in Sensors |-> FALSE]
  /\ sensorsValues = [s \in Sensors |-> "SENSOR_DEAD"]

-----------------------------------------------------------------------------
(* The arm: SmartArmController::init(), then its loop                      *)

\* Each sensor is tried ten times; the answer of ArmController::init(), about the servos, counts
\* at the end.
ArmInit ==
  /\ arm \in {"intSensor", "extSensor"}
  /\ \/ /\ arm = "intSensor" /\ arm' = "extSensor" /\ armFailures' = 0
     \/ /\ arm = "extSensor" /\ arm' \in {"running", "error"} /\ armFailures' = 0
     \/ /\ armFailures' = armFailures + 1
        /\ arm' = IF armFailures' >= 10 THEN "error" ELSE arm
  /\ UNCHANGED <<modeVars, masterVars, reports, board, next, lightVars, powerVars, sensorVars,
                 sensorsValues>>

-----------------------------------------------------------------------------
(* The master                                                              *)

\* Modes are sent one after the other; what the serial line cannot hold is lost.
Send(modes) ==
  LET all == line \o modes IN
  /\ mode' = IF modes = <<>> THEN mode ELSE modes[Len(modes)]
  /\ line' = SubSeq(all, 1, IF Len(all) <= SerialSize THEN Len(all) ELSE SerialSize)
  /\ overflow' = (overflow \/ Len(all) > SerialSize)

setLightOn(bits) == Send(<<mode \cup bits>>)

\* Waits for a report of the arm, then wakes the sensor board.
WakeBoard ==
  /\ master = "arm" /\ arm = "running"
  /\ Send(<<{}>>) /\ master' = "board"
  /\ UNCHANGED <<armVars, was, match, shortRangeSensorsValues, reports, board, next, lightVars,
                 powerVars, sensorVars, sensorsValues>>

getSensorsValues ==
  /\ reports # <<>>
  /\ shortRangeSensorsValues' = Head(reports) /\ reports' = Tail(reports)

EnterLoop ==
  /\ master = "board" /\ getSensorsValues
  /\ Send(<<{"NIGHT_LIGHT_HIGH"}>>) /\ master' = "loop"
  /\ UNCHANGED <<armVars, was, match, board, next, lightVars, powerVars, sensorVars, sensorsValues>>

MasterListen ==
  /\ master = "loop" /\ getSensorsValues
  /\ UNCHANGED <<armVars, modeVars, master, was, match, board, next, lightVars, powerVars,
                 sensorVars, sensorsValues>>

\* One light of the movement: left alone unless what the movement calls for has changed.
Differs(bit, now) == (bit \in now) # (bit \in was)

Switched(m, bit, now) ==
  IF ~Differs(bit, now) THEN m ELSE IF bit \in now THEN m \cup {bit} ELSE m \ {bit}

Sent(m, bit, now) == IF Differs(bit, now) THEN <<m>> ELSE <<>>

\* ContextualLightning::update(): a mode for each light that changes.
ContextualUpdate ==
  /\ master = "loop"
  /\ \E now \in Contexts \ {was} :
       LET reverse == Switched(mode, "REVERSE_LIGHT", now)
           stop == Switched(reverse, "STOP_LIGHT", now)
           left == Switched(stop, "TURN_LEFT", now)
           right == Switched(left, "TURN_RIGHT", now)
       IN  /\ was' = now
           /\ Send(Sent(reverse, "REVERSE_LIGHT", now) \o Sent(stop, "STOP_LIGHT", now)
                   \o Sent(left, "TURN_LEFT", now) \o Sent(right, "TURN_RIGHT", now))
  /\ UNCHANGED <<armVars, master, match, shortRangeSensorsValues, reports, board, next, lightVars,
                 powerVars, sensorVars, sensorsValues>>

\* WaitForJumper::onExecute(), when what it reads makes a difference.
WaitForJumper ==
  /\ master = "loop"
  /\ \/ match = "insertion" /\ match' = "removal" /\ setLightOn({"FLASHING"})
     \/ /\ \/ match = "removal" /\ match' = "debounce"
           \/ match = "debounce" /\ match' \in {"removal", "running"}
        /\ UNCHANGED modeVars
  /\ UNCHANGED <<armVars, master, was, shortRangeSensorsValues, reports, board, next, lightVars,
                 powerVars, sensorVars, sensorsValues>>

\* StartChrono::terminate(), the lights of it.
EndOfMatch ==
  /\ master = "loop" /\ match = "running" /\ match' = "over"
  /\ setLightOn({"TURN_LEFT", "TURN_RIGHT"})
  /\ UNCHANGED <<armVars, master, was, shortRangeSensorsValues, reports, board, next, lightVars,
                 powerVars, sensorVars, sensorsValues>>

-----------------------------------------------------------------------------
(* The sensor board: Communication                                         *)

\* InternalCom: a whole frame has arrived.
frameReceived == line # <<>>

\* Mutant of listen: a mode that changes nothing is not announced.
listenMutant ==
  IF ~frameReceived
  THEN [line |-> line, mode |-> boardMode, available |-> updateAvailable]
  ELSE [line |-> Tail(line), mode |-> Head(line),
        available |-> updateAvailable \/ Head(line) # boardMode]

\* Communication::listen(): the line, the mode and the flag after it.
listen ==
  IF ~frameReceived
  THEN [line |-> line, mode |-> boardMode, available |-> updateAvailable]
  ELSE [line |-> Tail(line), mode |-> Head(line), available |-> TRUE]

-----------------------------------------------------------------------------
(* Its sensors                                                             *)

Answering(a) == {s \in Sensors : device[s] = a}

standby(s) ==
  /\ device' = [device EXCEPT ![s] = None] /\ isON' = [isON EXCEPT ![s] = FALSE]
  /\ UNCHANGED <<address, strays>>

\* Mutant of initFailed: the sensor that did not start keeps its power.
initFailedMutant(s) ==
  /\ device' = [device EXCEPT ![s] = ADDRESS_DEFAULT] /\ isON' = [isON EXCEPT ![s] = FALSE]
  /\ UNCHANGED <<address, strays>>

initFailed(s) == standby(s)

\* Every sensor of called answers to the old address; those of got get the new one, that the driver
\* calls from now on.
setAddress(s, on, called) ==
  /\ \E got \in SUBSET called :
       /\ device' = [d \in Sensors |-> IF d \in got THEN s ELSE on[d]]
       /\ strays' = IF strays = "none" \/ got = called THEN strays ELSE "lost"
  /\ address' = [address EXCEPT ![s] = s]

\* VL6180X::init() writes the settings of whoever answers.
initSucceeds(called) == called # {}

\* ToF_shortRange::powerON(): a sensor in standby wakes up, unless it is broken.
powerON(s) ==
  \/ \E d \in IF device[s] = None THEN {None, ADDRESS_DEFAULT} ELSE {device[s]} :
       LET on == [device EXCEPT ![s] = d]
           called == {t \in Sensors : on[t] = address[s]}
       IN  initSucceeds(called) /\ setAddress(s, on, called)
     /\ isON' = [isON EXCEPT ![s] = TRUE]
  \/ initFailed(s)

\* Mutant of Dead: the sensor keeps its last value.
DeadMutant(s) ==
  /\ sensorsValues' = [sensorsValues EXCEPT ![s] = IF isON[s] THEN "SENSOR_DEAD" ELSE "measure"]
  /\ IF isON[s] THEN standby(s) ELSE UNCHANGED sensorVars

Dead(s) ==
  /\ sensorsValues' = [sensorsValues EXCEPT ![s] = "SENSOR_DEAD"]
  /\ IF isON[s] THEN standby(s) ELSE UNCHANGED sensorVars

\* VL6180X::readRangeContinuous(), when it does not time out.
rangeRead(s) == Answering(address[s]) # {}

\* ToF_shortRange::getMesure(): without an answer, or one that comes late or with an error, the
\* sensor is dead.
getMesure(s) ==
  \/ /\ isON[s] /\ rangeRead(s)
     /\ sensorsValues' = [sensorsValues EXCEPT ![s] = "measure"] /\ UNCHANGED sensorVars
  \/ Dead(s)

-----------------------------------------------------------------------------
(* Its setup() and its loop()                                              *)

\* It waits for a mode, and for half a second at least.
BoardWait ==
  /\ board = "wait" /\ frameReceived
  /\ line' = listen.line /\ boardMode' = listen.mode /\ updateAvailable' = listen.available
  /\ UNCHANGED <<armVars, mode, overflow, masterVars, reports, board, next, lights, powerVars,
                 sensorVars, sensorsValues>>

BootUp ==
  /\ board = "wait" /\ updateAvailable
  /\ board' = "init" /\ lights' = infoSignalOn(lights)
  /\ UNCHANGED <<armVars, modeVars, masterVars, reports, next, boardMode, updateAvailable,
                 powerVars, sensorVars, sensorsValues>>

\* SensorsMgr::init(), one attempt.
SensorsInit ==
  /\ board = "init" /\ next \in Sensors
  /\ powerON(next)
  /\ IF isON'[next]
     THEN next' = next + 1 /\ nbAttempts' = 0 /\ UNCHANGED failed
     ELSE IF nbAttempts + 1 > MAX_POWERON_ATTEMPTS
     THEN next' = next + 1 /\ nbAttempts' = 0 /\ failed' = TRUE
     ELSE nbAttempts' = nbAttempts + 1 /\ UNCHANGED <<next, failed>>
  /\ UNCHANGED <<armVars, modeVars, masterVars, reports, board, lightVars, sensorsValues>>

EndOfInit ==
  /\ board = "init" /\ next \notin Sensors
  /\ LET off == infoSignalOff(lights) IN
     IF failed
     THEN board' = "alarm" /\ lights' = setLightningMode(off, {"ALARM_LIGHT"})
     ELSE board' = "listen" /\ lights' = off
  /\ UNCHANGED <<armVars, modeVars, masterVars, reports, next, boardMode, updateAvailable,
                 powerVars, sensorVars, sensorsValues>>

EndOfAlarm ==
  /\ board = "alarm" /\ board' = "listen" /\ lights' = setLightningMode(lights, {})
  /\ UNCHANGED <<armVars, modeVars, masterVars, reports, next, boardMode, updateAvailable,
                 powerVars, sensorVars, sensorsValues>>

\* One turn of loop(): it listens and lights, measures with one sensor after the other, reports.
Light ==
  /\ board = "listen" /\ board' = "measure" /\ next' = 1
  /\ UNCHANGED <<mode, overflow>>
  /\ line' = listen.line /\ boardMode' = listen.mode /\ updateAvailable' = FALSE
  /\ LET set == IF listen.available THEN setLightningMode(lights, boardMode') ELSE lights
     IN  lights' \in {set, propagate(set)}
  /\ UNCHANGED <<armVars, masterVars, reports, powerVars, sensorVars, sensorsValues>>

Measure ==
  /\ board = "measure" /\ next \in Sensors
  /\ getMesure(next) /\ next' = next + 1
  /\ UNCHANGED <<armVars, modeVars, masterVars, reports, board, lightVars, powerVars>>

\* Bound of the model: the line is faster than the loop, so that one report is on its way at once.
Report ==
  /\ board = "measure" /\ next \notin Sensors /\ reports = <<>>
  /\ reports' = <<sensorsValues>> /\ sensorsValues' = Nothing
  /\ board' = "listen"
  /\ UNCHANGED <<armVars, modeVars, masterVars, next, lightVars, powerVars, sensorVars>>

-----------------------------------------------------------------------------

Master == WakeBoard \/ EnterLoop \/ MasterListen
\* Bound of the model: a frame lost ends what is asked of the lights.
Movement == ~overflow /\ (ContextualUpdate \/ WaitForJumper \/ EndOfMatch)
BoardStep ==
  \/ BoardWait \/ BootUp \/ SensorsInit \/ EndOfInit \/ EndOfAlarm \/ Light \/ Measure \/ Report

Next == ArmInit \/ Master \/ Movement \/ BoardStep

Fairness == WF_vars(ArmInit) /\ WF_vars(Master) /\ WF_vars(BoardStep)

Spec == Init /\ [][Next]_vars /\ Fairness

-----------------------------------------------------------------------------
(* Properties                                                              *)

\* What the master and the robot call for; the end of the match takes the side lights over.
Sides == {"TURN_LEFT", "TURN_RIGHT"}

Called ==
  {"NIGHT_LIGHT_HIGH"} \cup (was \ Sides)
    \cup (IF match = "insertion" THEN {} ELSE {"FLASHING"})
    \cup (IF match = "over" THEN mode \cap Sides ELSE was \cap Sides)

\* What somebody who looks at the robot sees of a mode.
Shows(m) ==
  LET bright == On(255) IN
  /\ lights.left = Blink(500) <=> "TURN_LEFT" \in m
  /\ lights.right = Blink(500) <=> "TURN_RIGHT" \in m
  /\ lights.reverse = bright <=> "REVERSE_LIGHT" \in m
  /\ lights.stop = bright <=> "STOP_LIGHT" \in m
  /\ lights.back = bright <=> "STOP_LIGHT" \in m
  /\ lights.back # Off /\ lights.front = bright
  /\ \A i \in 1 .. 4 : lights.flashing[i] # Off => "FLASHING" \in m
  /\ "FLASHING" \in m => lights.flashing[1] # Off

\* Unless a frame found the line full, the lights show what the movement and the match call for as
\* soon as the last frame has been read: the differences sent add up, whatever was shown before
\* (ContextualLightning.sendUpdates, SlaveSensorLed.setLightOn, LightsMgr.setLightningMode).
LightsFollow ==
  (master = "loop" /\ line = <<>> /\ ~updateAvailable /\ ~overflow /\ board # "wait")
    => Shows(Called)

\* A measure comes from its own sensor, even if a sensor did not get its new address, or was on
\* before its turn, but not both: no other sensor answers to that address by the time it is called
\* (SensorsMgr.init, ToF_shortRange.powerON).
OwnMeasure ==
  board = "measure" /\ next \in Sensors /\ isON[next] /\ strays # "lost" =>
    Answering(address[next]) \subseteq {next}

\* A sensor that died is soon reported dead, and for ever: no old measure of it stays with the
\* master (ToF_shortRange.getMesure, SensorsMgr.getValues, SlaveSensorLed.getSensorsValues).
DeathReported ==
  \A s \in Sensors :
    (board = "measure" /\ next > s /\ ~isON[s]) ~> [](shortRangeSensorsValues[s] = "SENSOR_DEAD")

\* The boards start, however many sensors of the sensor board fail, unless the arm gives up
\* (setup and loop of the three boards).
BoardsStart == <>(arm = "error" \/ (master = "loop" /\ board = "measure"))

=============================================================================
