---------------------------- MODULE BoardsProofs ----------------------------
(***************************************************************************)
(* Proofs about Boards, for any number of sensors and of attempts, any     *)
(* movement and any length of the line: a measure comes from its own       *)
(* sensor, the lights show what is called for, and a sensor reported dead  *)
(* stays so.                                                               *)
(***************************************************************************)
EXTENDS Boards, TLAPS

SensorTypes ==
  /\ board \in {"wait", "init", "alarm", "listen", "measure"} /\ next \in 1 .. NB_SENSORS + 1
  /\ device \in [Sensors -> -1 .. NB_SENSORS]
  /\ address \in [Sensors -> 0 .. NB_SENSORS] /\ isON \in [Sensors -> BOOLEAN]
  /\ strays \in {"none", "some", "lost"}

Starting == board \in {"wait", "init"}

\* A driver calls its own address from its start on.
Renamed(s) ==
  /\ isON[s] = TRUE => address[s] = s
  /\ Starting /\ s >= next => isON[s] = FALSE /\ address[s] = ADDRESS_DEFAULT

\* Without strays: a sensor that is on was renamed, or missed its name, and may since have taken
\* the name of a later one; one that is off answers to nothing.  Sensors are called in the order
\* in which they were switched on: the one that goes by the name of a later sensor is called, gets
\* no answer and is switched off before that sensor is.
Named(s) ==
  /\ isON[s] = TRUE => device[s] \in {None, ADDRESS_DEFAULT} \/ device[s] >= s
  /\ isON[s] = FALSE => device[s] = None
  /\ board = "measure" /\ s < next /\ isON[s] = TRUE => device[s] = s

\* With strays and every address received: the first sensor that starts gives its name to all
\* strays, that then are off the default address, fail their first attempt and are switched off.
Strayed(s) ==
  /\ isON[s] = TRUE => device[s] \in {None, s}
  /\ isON[s] = FALSE /\ (Starting => s < next) => device[s] = None
  /\ Starting /\ s >= next /\ device[s] # None =>
       \/ device[s] = ADDRESS_DEFAULT /\ \A t \in Sensors : isON[t] = FALSE
       \/ device[s] \in 1 .. next - 1 /\ \E t \in Sensors : isON[t] = TRUE

SensorInv ==
  /\ SensorTypes
  /\ board = "wait" => next = 1
  /\ \A s \in Sensors : Renamed(s)
  /\ strays = "none" => \A s \in Sensors : Named(s)
  /\ strays = "some" => \A s \in Sensors : Strayed(s)

LEMMA SensorInit == Init => SensorInv
BY SensorAssumption DEF Init, SensorInv, SensorTypes, Starting, Renamed, Named, Strayed, Sensors,
   ADDRESS_DEFAULT, None

\* In its turn, a sensor answers alone to its address, or nothing does.
LEMMA AloneAtAddress ==
  ASSUME SensorInv, board = "measure", next \in Sensors, isON[next], strays # "lost"
  PROVE  address[next] = next /\ Answering(address[next]) \subseteq {next}
<1> USE DEF SensorInv, SensorTypes
<1>1. address[next] = next /\ isON[next] = TRUE
  BY DEF Renamed
<1>2. ASSUME NEW d \in Sensors, device[d] = next, strays = "none" PROVE d = next
  <2>1. Named(d)
    BY <1>2
  <2>2. isON[d] = TRUE
    BY <1>2, <2>1, SensorAssumption DEF Named, Sensors, ADDRESS_DEFAULT, None
  <2> QED BY <1>2, <2>1, <2>2, SensorAssumption DEF Named, Sensors, ADDRESS_DEFAULT, None
<1>3. ASSUME NEW d \in Sensors, device[d] = next, strays = "some" PROVE d = next
  <2>1. Strayed(d)
    BY <1>3
  <2> QED BY <1>3, <2>1, SensorAssumption DEF Strayed, Starting, Sensors, ADDRESS_DEFAULT, None
<1> QED BY <1>1, <1>2, <1>3 DEF Answering

\* A sensor that starts: every sensor of got has its name, the others are as before, or just woken.
Start(s, on, called, got) ==
  /\ on \in [Sensors -> -1 .. NB_SENSORS] /\ on[s] \in {device[s], ADDRESS_DEFAULT}
  /\ device[s] # None => on[s] = device[s]
  /\ \A d \in Sensors : d # s => on[d] = device[d]
  /\ called = {d \in Sensors : on[d] = ADDRESS_DEFAULT} /\ called # {} /\ got \subseteq called
  /\ device' \in [Sensors -> -1 .. NB_SENSORS]
  /\ \A d \in Sensors : device'[d] = IF d \in got THEN s ELSE on[d]
  /\ strays' = IF strays = "none" \/ got = called THEN strays ELSE "lost"
  /\ address' \in [Sensors -> 0 .. NB_SENSORS] /\ address'[s] = s
  /\ \A d \in Sensors : d # s => address'[d] = address[d]
  /\ isON' \in [Sensors -> BOOLEAN] /\ isON'[s] = TRUE
  /\ \A d \in Sensors : d # s => isON'[d] = isON[d]

\* A sensor that goes to standby.
Stop(s) ==
  /\ device' \in [Sensors -> -1 .. NB_SENSORS] /\ device'[s] = None
  /\ isON' \in [Sensors -> BOOLEAN] /\ isON'[s] = FALSE
  /\ UNCHANGED <<address, strays>>
  /\ \A d \in Sensors : d # s => isON'[d] = isON[d] /\ device'[d] = device[d]

LEMMA StandbyStops ==
  ASSUME SensorTypes, NEW s \in Sensors, standby(s)
  PROVE  Stop(s)
BY SensorAssumption DEF SensorTypes, standby, Stop, Sensors, None

LEMMA PowerStarts ==
  ASSUME SensorTypes, NEW s \in Sensors, powerON(s), address[s] = ADDRESS_DEFAULT
  PROVE  Stop(s) \/ \E on, called, got : Start(s, on, called, got)
<1>1. CASE initFailed(s)
  BY <1>1, StandbyStops DEF initFailed
<1>2. ASSUME NEW d \in IF device[s] = None THEN {None, ADDRESS_DEFAULT} ELSE {device[s]},
             isON' = [isON EXCEPT ![s] = TRUE], NEW on, NEW called,
             on = [device EXCEPT ![s] = d], called = {t \in Sensors : on[t] = address[s]},
             called # {}, setAddress(s, on, called)
      PROVE  \E got : Start(s, on, called, got)
  <2>1. PICK got \in SUBSET called :
          /\ device' = [t \in Sensors |-> IF t \in got THEN s ELSE on[t]]
          /\ strays' = IF strays = "none" \/ got = called THEN strays ELSE "lost"
    BY <1>2 DEF setAddress
  <2>2. address' = [address EXCEPT ![s] = s]
    BY <1>2 DEF setAddress
  <2>3. /\ on \in [Sensors -> -1 .. NB_SENSORS] /\ on[s] \in {device[s], ADDRESS_DEFAULT}
        /\ device[s] # None => on[s] = device[s]
        /\ \A t \in Sensors : t # s => on[t] = device[t]
    BY <1>2, SensorAssumption DEF SensorTypes, Sensors, None, ADDRESS_DEFAULT
  <2>4. device' \in [Sensors -> -1 .. NB_SENSORS]
    BY <2>1, <2>3, SensorAssumption DEF Sensors
  <2>5. /\ address' \in [Sensors -> 0 .. NB_SENSORS] /\ address'[s] = s
        /\ \A t \in Sensors : t # s => address'[t] = address[t]
    BY <2>2, SensorAssumption DEF SensorTypes, Sensors
  <2>6. /\ isON' \in [Sensors -> BOOLEAN] /\ isON'[s] = TRUE
        /\ \A t \in Sensors : t # s => isON'[t] = isON[t]
    BY <1>2 DEF SensorTypes
  <2> QED BY <1>2, <2>1, <2>3, <2>4, <2>5, <2>6 DEF Start
<1> QED BY <1>1, <1>2 DEF powerON, initSucceeds

LEMMA StartInv ==
  ASSUME SensorInv, board = "init", board' = board, next \in Sensors, next' = next + 1,
         NEW on, NEW called, NEW got, Start(next, on, called, got)
  PROVE  SensorInv'
<1> USE SensorAssumption DEF Sensors, ADDRESS_DEFAULT, None
<1>1. SensorTypes /\ Starting /\ Starting' /\ next \in Nat /\ next >= 1
  BY DEF SensorInv, Starting
<1>2. /\ isON' \in [Sensors -> BOOLEAN] /\ isON'[next] = TRUE
      /\ \A s \in Sensors : s # next => isON'[s] = isON[s]
  BY DEF Start
<1>3. /\ address' \in [Sensors -> 0 .. NB_SENSORS] /\ address'[next] = next
      /\ \A s \in Sensors : s # next => address'[s] = address[s]
  BY DEF Start
<1>4. /\ device' \in [Sensors -> -1 .. NB_SENSORS]
      /\ device'[next] \in {next, device[next], 0}
      /\ \A s \in Sensors : s # next => device'[s] = device[s] \/ device'[s] = next
  BY DEF Start
<1>5. strays' \in {strays, "lost"}
  BY DEF Start
<1>6. SensorTypes'
  <2>1. next' \in 1 .. NB_SENSORS + 1 /\ board' \in {"wait", "init"}
    BY DEF SensorTypes
  <2>2. strays' \in {"none", "some", "lost"}
    BY <1>1, <1>5 DEF SensorTypes
  <2> QED BY <1>2, <1>3, <1>4, <2>1, <2>2 DEF SensorTypes
<1>7. ASSUME NEW s \in Sensors PROVE Renamed(s)'
  <2>1. Renamed(s)
    BY DEF SensorInv
  <2> QED BY <1>1, <1>2, <1>3, <2>1 DEF Renamed
<1>8. ASSUME NEW s \in Sensors, strays' = "none" PROVE Named(s)'
  <2>1. Named(s) /\ Renamed(s)
    BY <1>5, <1>8 DEF SensorInv
  <2>2. isON[next] = FALSE /\ device[next] \in {0, -1}
    <3>1. Named(next) /\ Renamed(next)
      BY <1>5, <1>8 DEF SensorInv
    <3> QED BY <1>1, <3>1 DEF Named, Renamed
  <2>3. CASE s = next
    BY <1>2, <1>4, <2>2, <2>3 DEF Named
  <2>4. CASE s # next /\ isON[s] = TRUE
    <3>1. s < next
      BY <1>1, <2>1, <2>4 DEF Renamed
    <3> QED BY <1>2, <1>4, <2>1, <2>4, <3>1 DEF Named
  <2>5. CASE s # next /\ isON[s] = FALSE
    <3>1. device[s] = -1 /\ isON'[s] = FALSE
      BY <1>2, <2>1, <2>5 DEF Named
    <3>2. device'[s] = -1
      <4>1. s \notin got
        BY <2>5, <3>1 DEF Start
      <4> QED BY <2>5, <3>1, <4>1 DEF Start
    <3> QED BY <3>1, <3>2 DEF Named
  <2>6. isON[s] \in BOOLEAN
    BY <1>1 DEF SensorTypes
  <2> QED BY <2>3, <2>4, <2>5, <2>6
<1>9. ASSUME strays' = "some" PROVE \A s \in Sensors : Strayed(s)'
  <2>1. strays = "some" /\ got = called
    BY <1>1, <1>9 DEF Start, SensorTypes
  <2>2. \A s \in Sensors : Strayed(s) /\ Renamed(s)
    BY <2>1 DEF SensorInv
  <2>3. \A s \in Sensors : s # next => device'[s] = IF device[s] = 0 THEN next ELSE device[s]
    BY <2>1 DEF Start
  <2>4. (\E d \in Sensors : on[d] = 0) /\ \A d \in Sensors : d # next => on[d] = device[d]
    BY DEF Start
  <2>5. device'[next] \in {-1, next}
    <3>1. CASE device[next] = -1
      <4>1. on[next] \in {-1, 0}
        BY <3>1 DEF Start
      <4> QED BY <2>1, <4>1 DEF Start
    <3>2. CASE device[next] = 0
      BY <2>1, <3>2 DEF Start
    <3>3. CASE device[next] \in 1 .. next - 1 /\ \E t \in Sensors : isON[t] = TRUE
      <4>1. on[next] = device[next]
        BY <3>3 DEF Start
      <4>2. PICK d \in Sensors : d # next /\ device[d] = 0
        <5>1. on[next] # 0
          BY <1>1, <3>3, <4>1
        <5> QED BY <2>4, <5>1
      <4>3. Strayed(d) /\ Renamed(d)
        BY <2>2
      <4>4. isON[d] \in BOOLEAN
        BY <1>1 DEF SensorTypes
      <4> QED BY <1>1, <3>3, <4>2, <4>3, <4>4 DEF Strayed, Renamed
    <3>4. isON[next] = FALSE
      BY <1>1, <2>2 DEF Renamed
    <3>5. \/ device[next] = -1 \/ device[next] = 0
          \/ device[next] \in 1 .. next - 1 /\ \E t \in Sensors : isON[t] = TRUE
      BY <1>1, <2>2, <3>4 DEF Strayed
    <3> QED BY <3>1, <3>2, <3>3, <3>5
  <2>6. ASSUME NEW s \in Sensors, s # next PROVE Strayed(s)'
    <3>1. Strayed(s) /\ Renamed(s) /\ (isON[s] = TRUE \/ isON[s] = FALSE)
      BY <1>1, <2>2 DEF SensorTypes
    <3>2. isON'[s] = isON[s] /\ isON'[next] = TRUE
      BY <1>2, <2>6
    <3>3. device'[s] = IF device[s] = 0 THEN next ELSE device[s]
      BY <2>3, <2>6
    <3>4. CASE isON[s] = TRUE
      <4>1. s < next
        BY <1>1, <3>1, <3>4 DEF Renamed
      <4> QED BY <1>1, <3>1, <3>2, <3>3, <3>4, <4>1 DEF Strayed
    <3>5. CASE isON[s] = FALSE /\ s < next
      BY <1>1, <3>1, <3>2, <3>3, <3>5 DEF Strayed
    <3>6. CASE isON[s] = FALSE /\ s > next
      <4>1. device[s] = -1 \/ device[s] = 0 \/ device[s] \in 1 .. next - 1
        BY <1>1, <3>1, <3>6 DEF Strayed
      <4>2. device'[s] = -1 \/ device'[s] \in 1 .. next' - 1
        BY <1>1, <3>3, <4>1
      <4>3. \E t \in Sensors : isON'[t] = TRUE
        BY <3>2
      <4> QED BY <1>1, <3>2, <3>6, <4>2, <4>3 DEF Strayed
    <3>7. s < next \/ s > next
      BY <2>6
    <3> QED BY <3>1, <3>4, <3>5, <3>6, <3>7
  <2>7. ASSUME NEW s \in Sensors, s = next PROVE Strayed(s)'
    BY <1>1, <1>2, <2>5, <2>7 DEF Strayed
  <2> QED BY <2>6, <2>7
<1> QED BY <1>1, <1>6, <1>7, <1>8, <1>9 DEF SensorInv

LEMMA StopInv ==
  ASSUME SensorInv, board' = board, next \in Sensors, next' \in {next, next + 1}, Stop(next),
         board \in {"init", "measure"}
  PROVE  SensorInv'
<1> USE SensorAssumption DEF Sensors, ADDRESS_DEFAULT, None
<1>1. SensorTypes /\ (Starting <=> board = "init") /\ Starting' = Starting
  BY DEF SensorInv, Starting
<1>2. isON' \in [Sensors -> BOOLEAN] /\ isON'[next] = FALSE /\ address' = address /\ strays' = strays
  BY DEF Stop
<1>3. device' \in [Sensors -> -1 .. NB_SENSORS] /\ device'[next] = -1
  BY DEF Stop
<1>4. \A s \in Sensors : s # next => isON'[s] = isON[s] /\ device'[s] = device[s]
  BY DEF Stop
<1>5. SensorTypes'
  <2>1. next' \in 1 .. NB_SENSORS + 1
    OBVIOUS
  <2>2. address' \in [Sensors -> 0 .. NB_SENSORS]
    BY <1>1, <1>2 DEF SensorTypes
  <2> QED BY <1>1, <1>2, <1>3, <2>1, <2>2 DEF SensorTypes
<1>6. ASSUME NEW s \in Sensors PROVE Renamed(s)'
  <2>1. Renamed(s)
    BY DEF SensorInv
  <2> QED BY <1>1, <1>2, <1>4, <2>1 DEF Renamed
<1>7. ASSUME NEW s \in Sensors, strays' = "none" PROVE Named(s)'
  <2>1. Named(s)
    BY <1>2, <1>7 DEF SensorInv
  <2> QED BY <1>2, <1>3, <1>4, <2>1 DEF Named
<1>8. ASSUME NEW s \in Sensors, strays' = "some" PROVE Strayed(s)'
  <2>1. Strayed(s) /\ Renamed(next) /\ isON[next] \in BOOLEAN
    BY <1>1, <1>2, <1>8 DEF SensorInv, SensorTypes
  <2>2. CASE s = next
    BY <1>2, <1>3, <2>2 DEF Strayed
  <2>3. CASE s # next
    <3>1. Starting => isON[next] = FALSE
      BY <2>1 DEF Renamed
    <3>2. Starting => \A t \in Sensors : isON'[t] = isON[t]
      BY <1>2, <1>4, <3>1
    <3>3. isON'[s] = isON[s] /\ device'[s] = device[s]
      BY <1>4, <2>3
    <3>4. CASE Starting
      BY <1>1, <2>1, <2>3, <3>2, <3>3, <3>4 DEF Strayed
    <3>5. CASE ~Starting
      BY <1>1, <2>1, <3>3, <3>5 DEF Strayed
    <3> QED BY <3>4, <3>5
  <2> QED BY <2>2, <2>3
<1> QED BY <1>1, <1>5, <1>6, <1>7, <1>8 DEF SensorInv, Starting

LEMMA SensorsInitInv ==
  ASSUME SensorInv, SensorsInit
  PROVE  SensorInv'
<1>1. /\ board = "init" /\ board' = board /\ next \in Sensors /\ next' \in {next, next + 1}
      /\ powerON(next) /\ (isON'[next] => next' = next + 1)
  BY DEF SensorsInit
<1>2. address[next] = ADDRESS_DEFAULT /\ SensorTypes
  BY <1>1 DEF SensorInv, Renamed, Starting, SensorTypes, Sensors
<1>3. CASE Stop(next)
  BY <1>1, <1>3, StopInv
<1>4. ASSUME NEW on, NEW called, NEW got, Start(next, on, called, got) PROVE SensorInv'
  <2>1. isON'[next] = TRUE
    BY <1>4 DEF Start
  <2> QED BY <1>1, <1>4, <2>1, StartInv
<1> QED BY <1>1, <1>2, <1>3, <1>4, PowerStarts

LEMMA MeasureInv ==
  ASSUME SensorInv, Measure
  PROVE  SensorInv'
<1>1. board = "measure" /\ board' = board /\ next \in Sensors /\ next' = next + 1
  BY DEF Measure
<1>2. CASE standby(next)
  BY <1>1, <1>2, StopInv, StandbyStops DEF SensorInv
<1>3. CASE /\ UNCHANGED sensorVars
           /\ isON[next] => Answering(address[next]) # {}
  <2> USE SensorAssumption DEF SensorInv, SensorTypes, Starting, Sensors, sensorVars
  <2>1. isON[next] /\ strays = "none" => device[next] = next
    BY <1>1, <1>3, AloneAtAddress DEF Answering
  <2>2. ASSUME NEW s \in Sensors, strays = "none" PROVE Named(s)'
    <3>1. Named(s)
      BY <2>2
    <3>2. CASE s = next
      BY <1>1, <1>3, <2>1, <2>2, <3>1, <3>2 DEF Named
    <3>3. CASE s # next
      BY <1>1, <1>3, <3>1, <3>3 DEF Named
    <3> QED BY <3>2, <3>3
  <2>3. ASSUME NEW s \in Sensors, strays = "some" PROVE Strayed(s)'
    BY <1>1, <1>3, <2>3 DEF Strayed
  <2> QED BY <1>1, <1>3, <2>2, <2>3 DEF Renamed
<1> QED BY <1>2, <1>3 DEF Measure, getMesure, rangeRead, Dead

\* The steps that leave the sensors alone.
LEMMA OtherInv ==
  ASSUME SensorInv, UNCHANGED sensorVars,
         \/ UNCHANGED <<board, next>>
         \/ board = "wait" /\ board' = "init" /\ UNCHANGED next
         \/ board = "init" /\ next \notin Sensors /\ board' \in {"alarm", "listen"} /\ UNCHANGED next
         \/ board \in {"alarm", "measure"} /\ board' = "listen" /\ UNCHANGED next
         \/ board = "listen" /\ board' = "measure" /\ next' = 1
  PROVE  SensorInv'
<1> USE SensorAssumption DEF Sensors, sensorVars
<1>1. SensorTypes' /\ (board' = "wait" => next' = 1)
  BY DEF SensorInv, SensorTypes
<1>2. ASSUME NEW s \in Sensors PROVE Renamed(s)'
  BY DEF SensorInv, SensorTypes, Renamed, Starting
<1>3. ASSUME NEW s \in Sensors, strays = "none" PROVE Named(s)'
  BY <1>3 DEF SensorInv, SensorTypes, Named
<1>4. ASSUME NEW s \in Sensors, strays = "some" PROVE Strayed(s)'
  <2>1. Strayed(s) /\ UNCHANGED <<device[s], isON>>
    BY <1>4 DEF SensorInv
  <2>2. Starting' => Starting /\ UNCHANGED next
    BY DEF Starting
  <2>3. ~Starting' => \/ ~Starting
                      \/ Starting /\ s < next
    BY DEF SensorInv, SensorTypes, Starting
  <2> QED BY <2>1, <2>2, <2>3 DEF Strayed
<1> QED BY <1>1, <1>2, <1>3, <1>4 DEF SensorInv

LEMMA SensorStep == SensorInv /\ [Next]_vars => SensorInv'
<1> SUFFICES ASSUME SensorInv, [Next]_vars PROVE SensorInv'
  OBVIOUS
<1>1. CASE SensorsInit \/ Measure
  BY <1>1, SensorsInitInv, MeasureInv
<1>2. CASE ArmInit \/ Master \/ Movement \/ BoardWait \/ UNCHANGED vars
  BY <1>2, OtherInv DEF ArmInit, Master, WakeBoard, EnterLoop, MasterListen, Movement,
     ContextualUpdate, WaitForJumper, EndOfMatch, BoardWait, vars
<1>3. CASE BootUp \/ EndOfInit \/ EndOfAlarm \/ Light \/ Report
  BY <1>3, OtherInv DEF BootUp, EndOfInit, EndOfAlarm, Light, Report
<1> QED BY <1>1, <1>2, <1>3 DEF Next, BoardStep

LEMMA SensorInvHolds == Spec => []SensorInv
BY SensorInit, SensorStep, PTL DEF Spec

\* Each measure comes from its own sensor, for any number of sensors: one that missed its address
\* is switched off in the turn before another one that took its name could be confused with it,
\* and one that was on too early is switched off before it gets its own name
\* (SensorsMgr.init, SensorsMgr.update, ToF_shortRange).
THEOREM OwnMeasureHolds == Spec => []OwnMeasure
<1>1. SensorInv => OwnMeasure
  BY AloneAtAddress DEF OwnMeasure
<1> QED BY <1>1, SensorInvHolds, PTL


-----------------------------------------------------------------------------
(* The lights                                                              *)

Modes == SUBSET Lighting
Lamp == [shines : {"off", "on", "blink"}, with : Nat]
Lamps ==
  [left : Lamp, right : Lamp, stop : Lamp, reverse : Lamp, front : Lamp, back : Lamp,
   flashing : [1 .. 4 -> Lamp], phase : 0 .. 4]

LightTypes ==
  /\ master \in {"arm", "board", "loop"}
  /\ match \in {"insertion", "removal", "debounce", "running", "over"}
  /\ board \in {"wait", "init", "alarm", "listen", "measure"}
  /\ was \in SUBSET MovementLights
  /\ mode \in Modes /\ boardMode \in Modes /\ line \in Seq(Modes)
  /\ overflow \in BOOLEAN /\ updateAvailable \in BOOLEAN
  /\ lights \in Lamps

\* What setLightningMode leaves, and the wave of the flashing lights keeps.
Lit(l, m) ==
  /\ l.left = turnLight(m, "TURN_LEFT") /\ l.right = turnLight(m, "TURN_RIGHT")
  /\ l.reverse = Only("REVERSE_LIGHT", m, 255) /\ l.stop = Only("STOP_LIGHT", m, 255)
  /\ l.front = nightFront(m) /\ l.back = nightBack(m)
  /\ l.phase = 0 <=> "FLASHING" \notin m
  /\ l.phase = 0 => \A i \in 1 .. 4 : l.flashing[i] = Off
  /\ l.phase # 0 => l.flashing[1] # Off

\* The last frame on the line, or else the mode the board has read, is the one sent last.
SentInv == ~overflow => IF line = <<>> THEN boardMode = mode ELSE line[Len(line)] = mode

\* A mode that was read is shown, or still announced.
Announced ==
  /\ board \in {"init", "alarm"} => updateAvailable = TRUE
  /\ board \in {"listen", "measure"} /\ updateAvailable = FALSE => Lit(lights, boardMode)

\* The modes sent add up to what is called for.
AddedUp == IF master = "loop" THEN mode = Called ELSE match = "insertion" /\ was = {}

LightInv == LightTypes /\ SentInv /\ Announced /\ AddedUp


LEMMA ModeFacts ==
  ASSUME NEW m \in Modes
  PROVE  /\ turnLight(m, "TURN_LEFT") \in Lamp /\ turnLight(m, "TURN_RIGHT") \in Lamp
         /\ Only("REVERSE_LIGHT", m, 255) \in Lamp /\ Only("STOP_LIGHT", m, 255) \in Lamp
         /\ nightFront(m) \in Lamp /\ nightBack(m) \in Lamp
         /\ Off \in Lamp /\ Blink(500) \in Lamp /\ Off # Blink(500)
BY DEF Lamp, turnLight, Only, nightFront, nightBack, Off, On, Blink

\* A change of the flashing lights, and one of the others.
FlashingSet(set, l, f, p) ==
  /\ set \in Lamps /\ set.phase = p /\ set.flashing = f
  /\ set.left = l.left /\ set.right = l.right /\ set.reverse = l.reverse
  /\ set.stop = l.stop /\ set.front = l.front /\ set.back = l.back

LEMMA SetFlashing ==
  ASSUME NEW l \in Lamps, NEW f \in [1 .. 4 -> Lamp], NEW p \in 0 .. 4
  PROVE  FlashingSet([l EXCEPT !.flashing = f, !.phase = p], l, f, p)
BY DEF Lamps, FlashingSet

OthersSet(set, l, left, right, reverse, stop, front, back) ==
  /\ set \in Lamps /\ set.phase = l.phase /\ set.flashing = l.flashing
  /\ set.left = left /\ set.right = right /\ set.reverse = reverse
  /\ set.stop = stop /\ set.front = front /\ set.back = back

LEMMA SetOthers ==
  ASSUME NEW l \in Lamps, NEW left \in Lamp, NEW right \in Lamp, NEW reverse \in Lamp,
         NEW stop \in Lamp, NEW front \in Lamp, NEW back \in Lamp
  PROVE  OthersSet([l EXCEPT !.left = left, !.right = right, !.reverse = reverse,
                             !.stop = stop, !.front = front, !.back = back],
                   l, left, right, reverse, stop, front, back)
BY DEF Lamps, OthersSet

LEMMA SetLightsUp ==
  ASSUME NEW l \in Lamps, NEW m \in Modes
  PROVE  setLightningMode(l, m) \in Lamps /\ Lit(setLightningMode(l, m), m)
<1> DEFINE set == setLightningMode(l, m)
           on == turnOn(l)
           off == turnOff(l)
<1>1. on \in Lamps /\ on.phase = 1 /\ on.flashing[1] = Blink(500)
  <2> DEFINE f == [l.flashing EXCEPT ![1] = Blink(500)]
  <2>1. f \in [1 .. 4 -> Lamp] /\ f[1] = Blink(500)
    BY ModeFacts DEF Lamps
  <2>2. on = [l EXCEPT !.flashing = f, !.phase = 1]
    BY DEF turnOn, Lamps
  <2> HIDE DEF f, on
  <2>3. FlashingSet(on, l, f, 1)
    <3>1. 1 \in 0 .. 4
      OBVIOUS
    <3> QED BY <2>1, <2>2, <3>1, SetFlashing
  <2> QED BY <2>1, <2>3 DEF FlashingSet
<1>2. off \in Lamps /\ off.phase = 0 /\ \A i \in 1 .. 4 : off.flashing[i] = Off
  <2> DEFINE f == [i \in 1 .. 4 |-> Off]
  <2>1. f \in [1 .. 4 -> Lamp] /\ \A i \in 1 .. 4 : f[i] = Off
    BY ModeFacts
  <2>2. off = [l EXCEPT !.flashing = f, !.phase = 0]
    BY DEF turnOff
  <2> HIDE DEF f, off
  <2>3. FlashingSet(off, l, f, 0)
    <3>1. 0 \in 0 .. 4
      OBVIOUS
    <3> QED BY <2>1, <2>2, <3>1, SetFlashing
  <2> QED BY <2>1, <2>3 DEF FlashingSet
<1> DEFINE flashing == IF "FLASHING" \in m THEN on ELSE off
<1>3. /\ flashing \in Lamps
      /\ flashing.phase = 0 <=> "FLASHING" \notin m
      /\ flashing.phase = 0 => \A i \in 1 .. 4 : flashing.flashing[i] = Off
      /\ flashing.phase # 0 => flashing.flashing[1] # Off
  <2> HIDE DEF on, off
  <2> QED BY <1>1, <1>2, ModeFacts
<1>4. OthersSet(set, flashing, turnLight(m, "TURN_LEFT"), turnLight(m, "TURN_RIGHT"),
                Only("REVERSE_LIGHT", m, 255), Only("STOP_LIGHT", m, 255),
                nightFront(m), nightBack(m))
  <2>1. set = [flashing EXCEPT
           !.left = turnLight(m, "TURN_LEFT"), !.right = turnLight(m, "TURN_RIGHT"),
           !.reverse = Only("REVERSE_LIGHT", m, 255), !.stop = Only("STOP_LIGHT", m, 255),
           !.front = nightFront(m), !.back = nightBack(m)]
    BY DEF setLightningMode
  <2>2. flashing \in Lamps
    BY <1>3
  <2> HIDE DEF set, flashing
  <2>3. ASSUME NEW a \in Lamp, NEW b \in Lamp, NEW c \in Lamp, NEW d \in Lamp, NEW e \in Lamp,
               NEW g \in Lamp,
               set = [flashing EXCEPT !.left = a, !.right = b, !.reverse = c, !.stop = d,
                                      !.front = e, !.back = g]
        PROVE  OthersSet(set, flashing, a, b, c, d, e, g)
    BY <2>2, <2>3, SetOthers
  <2> QED BY <2>1, <2>2, <2>3, ModeFacts
<1> HIDE DEF set, flashing
<1>5. /\ set \in Lamps
      /\ set.left = turnLight(m, "TURN_LEFT") /\ set.right = turnLight(m, "TURN_RIGHT")
      /\ set.reverse = Only("REVERSE_LIGHT", m, 255) /\ set.stop = Only("STOP_LIGHT", m, 255)
      /\ set.front = nightFront(m) /\ set.back = nightBack(m)
      /\ set.phase = flashing.phase /\ set.flashing = flashing.flashing
  BY <1>4 DEF OthersSet
<1>6. Lit(set, m)
  BY <1>3, <1>5 DEF Lit
<1> QED BY <1>5, <1>6 DEF set

LEMMA WaveKeepsLit ==
  ASSUME NEW l \in Lamps, NEW m \in Modes
  PROVE  propagate(l) \in Lamps /\ (Lit(l, m) => Lit(propagate(l), m))
<1>1. CASE l.phase \in 1 .. 3
  <2> DEFINE p == propagate(l)
             f == [l.flashing EXCEPT ![l.phase + 1] = Blink(500)]
  <2>1. p = [l EXCEPT !.flashing = f, !.phase = l.phase + 1]
    BY <1>1 DEF propagate, Lamps
  <2>2. f \in [1 .. 4 -> Lamp] /\ l.phase + 1 \in 2 .. 4 /\ f[1] = l.flashing[1]
    BY <1>1, ModeFacts DEF Lamps
  <2> HIDE DEF p, f
  <2>3. FlashingSet(p, l, f, l.phase + 1)
    <3>1. l.phase + 1 \in 0 .. 4
      BY <2>2
    <3> QED BY <2>1, <2>2, <3>1, SetFlashing
  <2>4. /\ p \in Lamps /\ p.phase # 0 /\ l.phase # 0 /\ p.flashing[1] = l.flashing[1]
        /\ p.left = l.left /\ p.right = l.right /\ p.reverse = l.reverse
        /\ p.stop = l.stop /\ p.front = l.front /\ p.back = l.back
    BY <1>1, <2>2, <2>3 DEF FlashingSet
  <2>5. Lit(l, m) => Lit(p, m)
    BY <2>4 DEF Lit
  <2> QED BY <2>4, <2>5 DEF p
<1>2. CASE l.phase \notin 1 .. 3
  BY <1>2 DEF propagate
<1> QED BY <1>1, <1>2

LEMMA InfoSignals ==
  ASSUME NEW l \in Lamps
  PROVE  infoSignalOn(l) \in Lamps /\ infoSignalOff(l) \in Lamps
<1>1. On(255) \in Lamp /\ Off \in Lamp
  BY DEF Lamp, On, Off
<1>2. \A a \in Lamp, b \in Lamp : [l EXCEPT !.left = a, !.right = b] \in Lamps
  BY DEF Lamps
<1> QED BY <1>1, <1>2 DEF infoSignalOn, infoSignalOff

\* A series of modes that leads from one mode to another.
Leads(modes, from, to) ==
  modes \in Seq(Modes) /\ IF modes = <<>> THEN to = from ELSE modes[Len(modes)] = to

LEMMA LeadsOn ==
  ASSUME NEW s, NEW t, NEW a, NEW b, NEW c, Leads(s, a, b), Leads(t, b, c)
  PROVE  Leads(s \o t, a, c)
<1>1. s \in Seq(Modes) /\ t \in Seq(Modes) /\ s \o t \in Seq(Modes)
  BY DEF Leads
<1>2. CASE t = <<>>
  BY <1>1, <1>2 DEF Leads
<1>3. CASE t # <<>>
  <2>1. Len(t) > 0 /\ Len(s \o t) = Len(s) + Len(t) /\ Len(s) \in Nat /\ Len(t) \in Nat
    BY <1>1, <1>3
  <2>2. (s \o t)[Len(s) + Len(t)] = t[Len(t)]
    BY <1>1, <2>1
  <2> QED BY <1>1, <1>3, <2>1, <2>2 DEF Leads
<1> QED BY <1>2, <1>3

LEMMA OneMode == ASSUME NEW m \in Modes, NEW a PROVE Leads(<<m>>, a, m)
BY DEF Leads

LEMMA SwitchLeads ==
  ASSUME NEW m \in Modes, NEW bit \in Lighting, NEW now
  PROVE  /\ Switched(m, bit, now) \in Modes
         /\ Leads(Sent(Switched(m, bit, now), bit, now), m, Switched(m, bit, now))
<1>1. Switched(m, bit, now) \in Modes
  BY DEF Switched, Modes
<1>2. CASE Differs(bit, now)
  BY <1>1, <1>2, OneMode DEF Sent
<1>3. CASE ~Differs(bit, now)
  BY <1>3 DEF Sent, Switched, Leads
<1> QED BY <1>1, <1>2, <1>3

\* The last frame that is sent is the mode that is called for, or a frame is lost.
LEMMA SendFacts ==
  ASSUME LightTypes, NEW modes, NEW to, Leads(modes, mode, to), Send(modes)
  PROVE  /\ mode' = to /\ line' \in Seq(Modes) /\ overflow' \in BOOLEAN
         /\ ~overflow' => ~overflow
         /\ ~overflow' /\ modes = <<>> => line' = line
         /\ ~overflow' /\ modes # <<>> => line' # <<>> /\ line'[Len(line')] = to
<1> DEFINE all == line \o modes
<1>1. modes \in Seq(Modes) /\ line \in Seq(Modes) /\ all \in Seq(Modes)
  BY DEF Leads, LightTypes
<1>2. mode' = to
  BY DEF Leads, Send
<1>3. overflow' = (overflow \/ Len(all) > SerialSize) /\ overflow \in BOOLEAN
  BY DEF Send, LightTypes
<1>4. line' = SubSeq(all, 1, IF Len(all) <= SerialSize THEN Len(all) ELSE SerialSize)
  BY DEF Send
<1>5. Leads(all, boardMode, IF modes = <<>> THEN IF line = <<>> THEN boardMode ELSE line[Len(line)] ELSE to)
  <2>1. Leads(line, boardMode, IF line = <<>> THEN boardMode ELSE line[Len(line)])
    BY <1>1 DEF Leads
  <2>2. Leads(modes, IF line = <<>> THEN boardMode ELSE line[Len(line)],
              IF modes = <<>> THEN IF line = <<>> THEN boardMode ELSE line[Len(line)] ELSE to)
    BY <1>1 DEF Leads
  <2> QED BY <2>1, <2>2, LeadsOn
<1>6. Len(line) \in Nat /\ Len(modes) \in Nat /\ Len(all) = Len(line) + Len(modes)
  BY <1>1
<1> HIDE DEF all
<1>7. line' \in Seq(Modes)
  BY <1>1, <1>4, <1>6, SerialAssumption
<1>8. ASSUME ~overflow' PROVE line' = all
  <2>1. Len(all) <= SerialSize
    <3>1. ~(Len(all) > SerialSize)
      BY <1>3, <1>8
    <3> QED BY <1>6, <3>1, SerialAssumption
  <2> QED BY <1>1, <1>4, <2>1
<1>9. modes = <<>> => all = line
  BY <1>1 DEF all
<1>10. modes # <<>> => all # <<>>
  BY <1>1, <1>6
<1> QED BY <1>2, <1>3, <1>5, <1>7, <1>8, <1>9, <1>10 DEF Leads

LEMMA SendInv ==
  ASSUME LightInv, NEW modes, NEW to, Leads(modes, mode, to), Send(modes), UNCHANGED boardMode
  PROVE  mode' = to /\ mode' \in Modes /\ line' \in Seq(Modes) /\ overflow' \in BOOLEAN /\ SentInv'
<1>1. LightTypes /\ SentInv
  BY DEF LightInv
<1>2. to \in Modes
  <2>1. mode \in Modes
    BY <1>1 DEF LightTypes
  <2>2. modes \in Seq(Modes) /\ (modes = <<>> => to = mode) /\ (modes # <<>> => modes[Len(modes)] = to)
    BY DEF Leads
  <2>3. modes # <<>> => Len(modes) \in 1 .. Len(modes)
    BY <2>2
  <2> QED BY <2>1, <2>2, <2>3
<1>3. modes = <<>> => to = mode
  BY DEF Leads
<1> QED BY <1>1, <1>2, <1>3, SendFacts DEF SentInv

-----------------------------------------------------------------------------
(* Each step keeps the invariant of the lights                             *)

BoardLights == <<board, boardMode, updateAvailable, lights>>

LEMMA LightInitInv == Init => LightInv
<1> SUFFICES ASSUME Init PROVE LightInv
  OBVIOUS
<1>1. Dark \in Lamps
  BY DEF Dark, Lamps, Lamp, Off
<1>2. LightTypes
  <2>1. {} \in Modes /\ {} \in SUBSET MovementLights /\ <<>> \in Seq(Modes)
    BY DEF Modes
  <2> QED BY <1>1, <2>1 DEF Init, LightTypes
<1>3. SentInv /\ Announced /\ AddedUp
  BY DEF Init, SentInv, Announced, AddedUp
<1> QED BY <1>2, <1>3 DEF LightInv

\* What the master sends keeps the invariant if the mode it ends with is the one called for.
LEMMA MasterSends ==
  ASSUME LightInv, NEW modes, NEW to, Leads(modes, mode, to), Send(modes), UNCHANGED BoardLights,
         master' \in {"arm", "board", "loop"}, was' \in SUBSET MovementLights,
         match' \in {"insertion", "removal", "debounce", "running", "over"},
         mode' = to => AddedUp'
  PROVE  LightInv'
<1>1. mode' = to /\ mode' \in Modes /\ line' \in Seq(Modes) /\ overflow' \in BOOLEAN /\ SentInv'
  BY SendInv DEF BoardLights
<1>2. LightTypes'
  BY <1>1 DEF LightInv, LightTypes, BoardLights
<1>3. Announced'
  BY DEF LightInv, Announced, BoardLights
<1> QED BY <1>1, <1>2, <1>3 DEF LightInv

LEMMA WakeBoardInv == ASSUME LightInv, WakeBoard PROVE LightInv'
<1>1. Leads(<<{}>>, mode, {}) /\ Send(<<{}>>)
  BY OneMode DEF WakeBoard, Modes
<1>2. master' = "board" /\ UNCHANGED <<was, match, BoardLights>>
  BY DEF WakeBoard, lightVars, BoardLights
<1>3. LightTypes /\ match = "insertion" /\ was = {}
  BY DEF LightInv, AddedUp, WakeBoard
<1>4. AddedUp'
  BY <1>2, <1>3 DEF AddedUp
<1> QED BY <1>1, <1>2, <1>3, <1>4, MasterSends DEF LightTypes

LEMMA EnterLoopInv == ASSUME LightInv, EnterLoop PROVE LightInv'
<1> DEFINE to == {"NIGHT_LIGHT_HIGH"}
<1>1. Leads(<<to>>, mode, to) /\ Send(<<to>>)
  BY OneMode DEF EnterLoop, Modes, Lighting
<1>2. master' = "loop" /\ UNCHANGED <<was, match, BoardLights>>
  BY DEF EnterLoop, lightVars, BoardLights
<1>3. LightTypes /\ match = "insertion" /\ was = {}
  BY DEF LightInv, AddedUp, EnterLoop
<1>4. mode' = to => AddedUp'
  BY <1>2, <1>3 DEF AddedUp, Called
<1> HIDE DEF to
<1> QED BY <1>1, <1>2, <1>3, <1>4, MasterSends DEF LightTypes

LEMMA WaitForJumperInv == ASSUME LightInv, WaitForJumper PROVE LightInv'
<1>1. LightTypes /\ AddedUp /\ master = "loop"
  BY DEF LightInv, WaitForJumper
<1>2. UNCHANGED <<master, was, BoardLights>>
  BY DEF WaitForJumper, lightVars, BoardLights
<1>3. CASE match = "insertion" /\ match' = "removal" /\ setLightOn({"FLASHING"})
  <2> DEFINE to == mode \cup {"FLASHING"}
  <2>1. Leads(<<to>>, mode, to) /\ Send(<<to>>)
    BY <1>1, <1>3, OneMode DEF setLightOn, LightTypes, Modes, Lighting
  <2>2. mode' = to => AddedUp'
    BY <1>1, <1>2, <1>3 DEF AddedUp, Called, LightTypes
  <2> HIDE DEF to
  <2> QED BY <1>1, <1>2, <1>3, <2>1, <2>2, MasterSends DEF LightTypes
<1>4. CASE /\ match # "insertion" /\ match' \in {"debounce", "removal", "running"}
           /\ match # "over" /\ UNCHANGED modeVars
  BY <1>1, <1>2, <1>4 DEF LightInv, LightTypes, SentInv, Announced, AddedUp, Called, modeVars,
     BoardLights
<1> QED BY <1>3, <1>4 DEF WaitForJumper

LEMMA EndOfMatchInv == ASSUME LightInv, EndOfMatch PROVE LightInv'
<1>1. LightTypes /\ AddedUp /\ master = "loop" /\ match = "running" /\ match' = "over"
  BY DEF LightInv, EndOfMatch
<1>2. UNCHANGED <<master, was, BoardLights>>
  BY DEF EndOfMatch, lightVars, BoardLights
<1> DEFINE to == mode \cup {"TURN_LEFT", "TURN_RIGHT"}
<1>3. Leads(<<to>>, mode, to) /\ Send(<<to>>)
  BY <1>1, OneMode DEF EndOfMatch, setLightOn, LightTypes, Modes, Lighting
<1>4. mode' = to => AddedUp'
  BY <1>1, <1>2 DEF AddedUp, Called, LightTypes, Sides
<1> HIDE DEF to
<1> QED BY <1>1, <1>2, <1>3, <1>4, MasterSends DEF LightTypes

\* The frames of one look at the movement lead to the mode with its lights.
LEMMA MovementLeads ==
  ASSUME LightTypes, NEW now \in SUBSET MovementLights
  PROVE  LET reverse == Switched(mode, "REVERSE_LIGHT", now)
             stop == Switched(reverse, "STOP_LIGHT", now)
             left == Switched(stop, "TURN_LEFT", now)
             right == Switched(left, "TURN_RIGHT", now)
         IN  /\ Leads(Sent(reverse, "REVERSE_LIGHT", now) \o Sent(stop, "STOP_LIGHT", now)
                      \o Sent(left, "TURN_LEFT", now) \o Sent(right, "TURN_RIGHT", now),
                      mode, right)
             /\ \A bit \in Lighting :
                  bit \in right <=> IF bit \in MovementLights /\ Differs(bit, now)
                                   THEN bit \in now ELSE bit \in mode
             /\ right \in Modes
<1> DEFINE reverse == Switched(mode, "REVERSE_LIGHT", now)
           stop == Switched(reverse, "STOP_LIGHT", now)
           left == Switched(stop, "TURN_LEFT", now)
           right == Switched(left, "TURN_RIGHT", now)
<1>1. mode \in Modes /\ {"REVERSE_LIGHT", "STOP_LIGHT", "TURN_LEFT", "TURN_RIGHT"} \subseteq Lighting
  BY DEF LightTypes, Lighting
<1>2. reverse \in Modes /\ Leads(Sent(reverse, "REVERSE_LIGHT", now), mode, reverse)
  BY <1>1, SwitchLeads
<1>3. stop \in Modes /\ Leads(Sent(stop, "STOP_LIGHT", now), reverse, stop)
  BY <1>1, <1>2, SwitchLeads
<1>4. left \in Modes /\ Leads(Sent(left, "TURN_LEFT", now), stop, left)
  BY <1>1, <1>3, SwitchLeads
<1>5. right \in Modes /\ Leads(Sent(right, "TURN_RIGHT", now), left, right)
  BY <1>1, <1>4, SwitchLeads
<1>6. Leads(Sent(reverse, "REVERSE_LIGHT", now) \o Sent(stop, "STOP_LIGHT", now)
            \o Sent(left, "TURN_LEFT", now) \o Sent(right, "TURN_RIGHT", now), mode, right)
  <2> HIDE DEF reverse, stop, left, right
  <2>1. Leads(Sent(reverse, "REVERSE_LIGHT", now) \o Sent(stop, "STOP_LIGHT", now), mode, stop)
    BY <1>2, <1>3, LeadsOn
  <2>2. Leads(Sent(reverse, "REVERSE_LIGHT", now) \o Sent(stop, "STOP_LIGHT", now)
              \o Sent(left, "TURN_LEFT", now), mode, left)
    BY <1>4, <2>1, LeadsOn
  <2> QED BY <1>5, <2>2, LeadsOn
<1>7. ASSUME NEW bit \in Lighting
      PROVE  bit \in right <=> IF bit \in MovementLights /\ Differs(bit, now)
                              THEN bit \in now ELSE bit \in mode
  <2>1. \A m, b : bit \in Switched(m, b, now) <=>
                    IF bit = b /\ Differs(b, now) THEN bit \in now ELSE bit \in m
    BY DEF Switched
  <2> QED BY <2>1 DEF MovementLights
<1> QED BY <1>5, <1>6, <1>7

LEMMA ContextualUpdateInv == ASSUME LightInv, ContextualUpdate PROVE LightInv'
<1>1. LightTypes /\ AddedUp /\ master = "loop"
  BY DEF LightInv, ContextualUpdate
<1>2. UNCHANGED <<master, match, BoardLights>>
  BY DEF ContextualUpdate, lightVars, BoardLights
<1>3. PICK now \in Contexts : was' = now /\
        LET reverse == Switched(mode, "REVERSE_LIGHT", now)
            stop == Switched(reverse, "STOP_LIGHT", now)
            left == Switched(stop, "TURN_LEFT", now)
            right == Switched(left, "TURN_RIGHT", now)
        IN  Send(Sent(reverse, "REVERSE_LIGHT", now) \o Sent(stop, "STOP_LIGHT", now)
                 \o Sent(left, "TURN_LEFT", now) \o Sent(right, "TURN_RIGHT", now))
  BY DEF ContextualUpdate
<1>4. now \in SUBSET MovementLights
  BY ContextAssumption
<1> DEFINE reverse == Switched(mode, "REVERSE_LIGHT", now)
           stop == Switched(reverse, "STOP_LIGHT", now)
           left == Switched(stop, "TURN_LEFT", now)
           to == Switched(left, "TURN_RIGHT", now)
           modes == Sent(reverse, "REVERSE_LIGHT", now) \o Sent(stop, "STOP_LIGHT", now)
                      \o Sent(left, "TURN_LEFT", now) \o Sent(to, "TURN_RIGHT", now)
<1>5. /\ to \in Modes /\ Leads(modes, mode, to)
      /\ \A bit \in Lighting : bit \in to <=> IF bit \in MovementLights /\ Differs(bit, now)
                                             THEN bit \in now ELSE bit \in mode
  BY <1>1, <1>4, MovementLeads
<1>6. was' = now /\ Send(modes)
  BY <1>3
<1> HIDE DEF reverse, stop, left, to, modes
<1>7. mode' = to => AddedUp'
  <2>1. mode = Called
    BY <1>1 DEF AddedUp
  <2>2. ASSUME mode' = to PROVE mode' = Called'
    <3>1. \A bit \in Lighting : bit \in Called' <=> bit \in mode'
      BY <1>1, <1>2, <1>4, <1>5, <1>6, <2>1, <2>2
         DEF Called, Sides, MovementLights, Lighting, Differs, LightTypes, Modes
    <3>2. Called' \subseteq Lighting /\ mode' \subseteq Lighting
      BY <1>4, <1>5, <1>6, <2>2 DEF Called, Sides, MovementLights, Lighting, Modes
    <3> QED BY <3>1, <3>2
  <2> QED BY <1>1, <1>2, <2>2 DEF AddedUp
<1> QED BY <1>1, <1>2, <1>4, <1>5, <1>6, <1>7, MasterSends DEF LightTypes

\* The sensor board: what listen() leaves.
LEMMA ListenFacts ==
  ASSUME LightTypes, SentInv, line' = listen.line, boardMode' = listen.mode,
         UNCHANGED <<mode, overflow>>
  PROVE  /\ line' \in Seq(Modes) /\ boardMode' \in Modes /\ SentInv'
         /\ listen.available \in BOOLEAN /\ (frameReceived => listen.available = TRUE)
         /\ ~frameReceived => boardMode' = boardMode /\ listen.available = updateAvailable
<1>1. CASE ~frameReceived
  BY <1>1 DEF LightTypes, SentInv, listen
<1>2. CASE frameReceived
  <2>1. line \in Seq(Modes) /\ line # <<>>
    BY <1>2 DEF LightTypes, frameReceived
  <2>2. line' = Tail(line) /\ boardMode' = Head(line) /\ listen.available = TRUE
    BY <1>2 DEF listen
  <2>3. line' \in Seq(Modes) /\ boardMode' \in Modes
    BY <2>1, <2>2
  <2>4. Len(line') = Len(line) - 1 /\ Len(line) \in Nat
    BY <2>1, <2>2
  <2>5. SentInv'
    <3>1. mode' = mode /\ overflow' = overflow
      OBVIOUS
    <3>2. SUFFICES ASSUME ~overflow
                   PROVE  IF line' = <<>> THEN boardMode' = mode ELSE line'[Len(line')] = mode
      BY <3>1 DEF SentInv
    <3>3. line[Len(line)] = mode
      BY <2>1, <3>2 DEF SentInv
    <3>4. CASE line' = <<>>
      <4>1. Len(line') = 0
        BY <3>4
      <4>2. Len(line) = 1
        <5>1. \A m, n : n \in Nat /\ m = n - 1 /\ m = 0 => n = 1
          OBVIOUS
        <5> QED BY <2>4, <4>1, <5>1, Zenon
      <4>3. boardMode' = line[1]
        BY <2>1, <2>2
      <4> QED BY <3>3, <3>4, <4>2, <4>3
    <3>5. CASE line' # <<>>
      <4>1. Len(line') \in Nat /\ Len(line') > 0
        BY <2>3, <3>5
      <4>2. line'[Len(line')] = line[Len(line)]
        <5>1. \A i \in 1 .. Len(line) - 1 : Tail(line)[i] = line[i + 1]
          BY <2>1
        <5>2. Len(line') \in 1 .. Len(line) - 1 /\ Len(line') + 1 = Len(line)
          BY <2>4, <4>1
        <5> QED BY <2>2, <5>1, <5>2
      <4> QED BY <3>3, <3>5, <4>2
    <3> QED BY <3>4, <3>5
  <2> QED BY <1>2, <2>2, <2>3, <2>5
<1> QED BY <1>1, <1>2

LEMMA BoardWaitInv == ASSUME LightInv, BoardWait PROVE LightInv'
<1>1. LightTypes /\ SentInv /\ AddedUp /\ board = "wait"
  BY DEF LightInv, BoardWait
<1>2. /\ line' \in Seq(Modes) /\ boardMode' \in Modes /\ SentInv' /\ listen.available \in BOOLEAN
  BY <1>1, ListenFacts DEF BoardWait
<1> QED BY <1>1, <1>2 DEF LightInv, LightTypes, Announced, AddedUp, Called, BoardWait, masterVars

LEMMA BootUpInv == ASSUME LightInv, BootUp PROVE LightInv'
<1>1. LightTypes /\ updateAvailable = TRUE
  BY DEF LightInv, LightTypes, BootUp
<1>2. lights' \in Lamps
  BY <1>1, InfoSignals DEF BootUp, LightTypes
<1> QED BY <1>1, <1>2
        DEF LightInv, LightTypes, SentInv, Announced, AddedUp, Called, BootUp, masterVars, modeVars

LEMMA EndOfInitInv == ASSUME LightInv, EndOfInit PROVE LightInv'
<1>1. LightTypes /\ updateAvailable = TRUE
  BY DEF LightInv, Announced, EndOfInit
<1>2. infoSignalOff(lights) \in Lamps /\ {"ALARM_LIGHT"} \in Modes
  BY <1>1, InfoSignals DEF LightTypes, Modes, Lighting
<1>3. lights' \in Lamps /\ board' \in {"alarm", "listen"}
  BY <1>2, SetLightsUp DEF EndOfInit
<1> QED BY <1>1, <1>3
        DEF LightInv, LightTypes, SentInv, Announced, AddedUp, Called, EndOfInit, masterVars, modeVars

LEMMA EndOfAlarmInv == ASSUME LightInv, EndOfAlarm PROVE LightInv'
<1>1. LightTypes /\ updateAvailable = TRUE
  BY DEF LightInv, Announced, EndOfAlarm
<1>2. lights' \in Lamps
  BY <1>1, SetLightsUp DEF EndOfAlarm, LightTypes, Modes
<1> QED BY <1>1, <1>2
        DEF LightInv, LightTypes, SentInv, Announced, AddedUp, Called, EndOfAlarm, masterVars,
            modeVars

LEMMA LightStepInv == ASSUME LightInv, Light PROVE LightInv'
<1>1. LightTypes /\ SentInv /\ Announced /\ AddedUp /\ board = "listen" /\ board' = "measure"
  BY DEF LightInv, Light
<1>2. /\ line' \in Seq(Modes) /\ boardMode' \in Modes /\ SentInv' /\ listen.available \in BOOLEAN
      /\ frameReceived => listen.available = TRUE
      /\ ~frameReceived => boardMode' = boardMode /\ listen.available = updateAvailable
  BY <1>1, ListenFacts DEF Light
<1> DEFINE set == IF listen.available THEN setLightningMode(lights, boardMode') ELSE lights
<1>3. set \in Lamps /\ Lit(set, boardMode')
  <2>1. CASE listen.available = TRUE
    BY <1>1, <1>2, <2>1, SetLightsUp DEF LightTypes
  <2>2. CASE listen.available = FALSE
    <3>1. boardMode' = boardMode /\ updateAvailable = FALSE
      BY <1>2, <2>2
    <3>2. Lit(lights, boardMode)
      BY <1>1, <3>1 DEF Announced
    <3> QED BY <1>1, <2>2, <3>1, <3>2 DEF LightTypes
  <2> QED BY <1>2, <2>1, <2>2
<1>4. lights' \in {set, propagate(set)}
  BY DEF Light
<1> HIDE DEF set
<1>5. lights' \in Lamps /\ Lit(lights', boardMode')
  BY <1>2, <1>3, <1>4, WaveKeepsLit
<1>6. updateAvailable' = FALSE /\ UNCHANGED <<mode, overflow, master, was, match>>
  BY DEF Light, masterVars
<1>7. LightTypes'
  BY <1>1, <1>2, <1>5, <1>6 DEF LightTypes
<1>8. Announced' /\ AddedUp'
  <2>1. Announced'
    BY <1>1, <1>5 DEF Announced
  <2>2. AddedUp'
    BY <1>1, <1>6 DEF AddedUp, Called
  <2> QED BY <2>1, <2>2
<1> QED BY <1>2, <1>7, <1>8 DEF LightInv

LEMMA LightElse ==
  ASSUME LightInv, ArmInit \/ MasterListen \/ SensorsInit \/ Measure \/ Report \/ UNCHANGED vars
  PROVE  LightInv'
<1>1. /\ UNCHANGED <<modeVars, master, was, match, lightVars>>
      /\ board' = board \/ (board = "measure" /\ board' = "listen")
  BY DEF ArmInit, MasterListen, SensorsInit, Measure, Report, vars, modeVars, masterVars, lightVars
<1> QED BY <1>1 DEF LightInv, LightTypes, SentInv, Announced, AddedUp, Called, modeVars, lightVars

LEMMA LightStep == LightInv /\ [Next]_vars => LightInv'
<1> SUFFICES ASSUME LightInv, [Next]_vars PROVE LightInv'
  OBVIOUS
<1>1. CASE Master
  BY <1>1, WakeBoardInv, EnterLoopInv, LightElse DEF Master
<1>2. CASE Movement
  BY <1>2, ContextualUpdateInv, WaitForJumperInv, EndOfMatchInv DEF Movement
<1>3. CASE BoardStep
  BY <1>3, BoardWaitInv, BootUpInv, EndOfInitInv, EndOfAlarmInv, LightStepInv, LightElse
     DEF BoardStep
<1> QED BY <1>1, <1>2, <1>3, LightElse DEF Next

LEMMA LightInvHolds == Spec => []LightInv
<1> QED BY LightInitInv, LightStep, PTL DEF Spec

\* A mode of the master has the night light, and no alarm.
LEMMA LitShows ==
  ASSUME NEW m \in Modes, "NIGHT_LIGHT_HIGH" \in m, "ALARM_LIGHT" \notin m, LightTypes,
         Lit(lights, m)
  PROVE  Shows(m)
<1>1. /\ lights.left = Blink(500) <=> "TURN_LEFT" \in m
      /\ lights.right = Blink(500) <=> "TURN_RIGHT" \in m
  BY DEF Lit, turnLight, Blink, Off
<1>2. /\ lights.reverse = On(255) <=> "REVERSE_LIGHT" \in m
      /\ lights.stop = On(255) <=> "STOP_LIGHT" \in m
  BY DEF Lit, Only, On, Off
<1>3. /\ lights.back = On(255) <=> "STOP_LIGHT" \in m
      /\ lights.back # Off /\ lights.front = On(255)
  BY DEF Lit, nightBack, nightFront, On, Off
<1>4. /\ \A i \in 1 .. 4 : lights.flashing[i] # Off => "FLASHING" \in m
      /\ "FLASHING" \in m => lights.flashing[1] # Off
  BY DEF Lit
<1> QED BY <1>1, <1>2, <1>3, <1>4 DEF Shows

\* The lights show what the movement and the match call for once the last frame has been read,
\* unless a frame got lost, for any movement and any length of the line (ContextualLightning,
\* SlaveSensorLed, LightsMgr).
THEOREM LightsFollowHolds == Spec => []LightsFollow
<1>1. LightInv => LightsFollow
  <2> SUFFICES ASSUME LightInv, master = "loop", line = <<>>, ~updateAvailable, ~overflow,
                      board # "wait"
               PROVE  Shows(Called)
    BY DEF LightsFollow
  <2>1. LightTypes /\ boardMode = mode /\ mode = Called /\ mode \in Modes
    BY DEF LightInv, SentInv, AddedUp, LightTypes
  <2>2. Lit(lights, Called)
    BY <2>1 DEF LightInv, Announced, LightTypes
  <2>3. "NIGHT_LIGHT_HIGH" \in Called /\ "ALARM_LIGHT" \notin Called
    BY <2>1 DEF Called, Sides, LightTypes, MovementLights
  <2> QED BY <2>1, <2>2, <2>3, LitShows
<1> QED BY <1>1, LightInvHolds, PTL

-----------------------------------------------------------------------------
(* The safety part of DeathReported                                        *)

Values == {"SENSOR_DEAD", "SENSOR_NOT_UPDATED", "measure"}

ReportTypes ==
  /\ sensorsValues \in [Sensors -> Values]
  /\ reports \in Seq([Sensors -> Values]) /\ shortRangeSensorsValues \in [Sensors -> Values]

\* The board, the line and the master all have the sensor dead.
Reported(s) ==
  /\ board \in {"listen", "measure"} /\ isON[s] = FALSE
  /\ board = "measure" /\ next > s => sensorsValues[s] = "SENSOR_DEAD"
  /\ \A i \in DOMAIN reports : reports[i][s] = "SENSOR_DEAD"
  /\ shortRangeSensorsValues[s] = "SENSOR_DEAD"

LEMMA ReportInit == Init => ReportTypes
<1> SUFFICES ASSUME Init PROVE ReportTypes
  OBVIOUS
<1>1. /\ sensorsValues = [s \in Sensors |-> "SENSOR_DEAD"] /\ reports = <<>>
      /\ shortRangeSensorsValues = [s \in Sensors |-> "SENSOR_NOT_UPDATED"]
  BY DEF Init, Nothing
<1>2. \A v \in Values : [s \in Sensors |-> v] \in [Sensors -> Values]
  OBVIOUS
<1>3. "SENSOR_DEAD" \in Values /\ "SENSOR_NOT_UPDATED" \in Values
  BY DEF Values
<1>4. reports \in Seq([Sensors -> Values])
  BY <1>1
<1> QED BY <1>1, <1>2, <1>3, <1>4 DEF ReportTypes

LEMMA MeasureFacts ==
  ASSUME SensorTypes, ReportTypes, Measure
  PROVE  /\ sensorsValues' \in [Sensors -> Values]
         /\ \A s \in Sensors : s # next => isON'[s] = isON[s] /\ sensorsValues'[s] = sensorsValues[s]
         /\ isON[next] = FALSE => isON'[next] = FALSE /\ sensorsValues'[next] = "SENSOR_DEAD"
<1> USE DEF SensorTypes, ReportTypes
<1>1. next \in Sensors /\ getMesure(next)
  BY DEF Measure
<1>2. CASE isON[next] /\ rangeRead(next) /\ UNCHANGED sensorVars
           /\ sensorsValues' = [sensorsValues EXCEPT ![next] = "measure"]
  <2>1. isON' = isON /\ isON[next] = TRUE
    BY <1>1, <1>2 DEF sensorVars
  <2>2. sensorsValues' \in [Sensors -> Values]
    BY <1>2 DEF Values
  <2> QED BY <1>1, <1>2, <2>1, <2>2
<1>3. CASE Dead(next)
  <2>1. isON' = isON \/ isON' = [isON EXCEPT ![next] = FALSE]
    BY <1>3 DEF Dead, standby, sensorVars
  <2>2. sensorsValues' = [sensorsValues EXCEPT ![next] = "SENSOR_DEAD"]
    BY <1>3 DEF Dead
  <2>3. sensorsValues' \in [Sensors -> Values]
    BY <2>2 DEF Values
  <2> QED BY <1>1, <2>1, <2>2, <2>3
<1> QED BY <1>1, <1>2, <1>3 DEF getMesure

LEMMA ReportStep == SensorInv /\ ReportTypes /\ [Next]_vars => ReportTypes'
<1> SUFFICES ASSUME SensorInv, ReportTypes, [Next]_vars PROVE ReportTypes'
  OBVIOUS
<1> USE DEF ReportTypes
<1>1. CASE getSensorsValues /\ UNCHANGED sensorsValues
  BY <1>1 DEF getSensorsValues
<1>2. CASE Measure
  BY <1>2, MeasureFacts DEF SensorInv, Measure, masterVars
<1>3. CASE Report
  <2>1. Nothing \in [Sensors -> Values]
    BY DEF Nothing, Values
  <2> QED BY <1>3, <2>1 DEF Report, masterVars
<1>4. CASE UNCHANGED <<sensorsValues, reports, shortRangeSensorsValues>>
  BY <1>4
<1> QED BY <1>1, <1>2, <1>3, <1>4
        DEF Next, ArmInit, Master, WakeBoard, EnterLoop, MasterListen, Movement, ContextualUpdate,
            WaitForJumper, EndOfMatch, BoardStep, BoardWait, BootUp, SensorsInit, EndOfInit,
            EndOfAlarm, Light, masterVars, vars

LEMMA ReportedStays ==
  ASSUME SensorInv, ReportTypes, [Next]_vars, NEW s \in Sensors, Reported(s)
  PROVE  Reported(s)'
<1> USE DEF Reported
<1>1. SensorTypes /\ s \in 1 .. NB_SENSORS
  BY DEF SensorInv, Sensors
<1>2. CASE getSensorsValues /\ UNCHANGED <<sensorsValues, board, next, isON>>
  <2>1. reports \in Seq([Sensors -> Values]) /\ reports # <<>>
    BY <1>2 DEF getSensorsValues, ReportTypes
  <2>2. Head(reports)[s] = "SENSOR_DEAD"
    BY <2>1
  <2>3. \A i \in DOMAIN Tail(reports) : Tail(reports)[i][s] = "SENSOR_DEAD"
    BY <2>1
  <2> QED BY <1>2, <2>2, <2>3 DEF getSensorsValues
<1>3. CASE Measure
  <2>1. board = "measure" /\ board' = "measure" /\ next' = next + 1
        /\ UNCHANGED <<reports, shortRangeSensorsValues>>
    BY <1>3 DEF Measure, masterVars
  <2>2. isON'[s] = FALSE /\ (next # s => sensorsValues'[s] = sensorsValues[s])
        /\ (next = s => sensorsValues'[s] = "SENSOR_DEAD")
    BY <1>1, <1>3, MeasureFacts
  <2>3. next \in Int /\ s \in Int
    BY <1>1 DEF SensorTypes
  <2>4. next' > s => sensorsValues'[s] = "SENSOR_DEAD"
    BY <2>1, <2>2, <2>3
  <2> QED BY <2>1, <2>2, <2>4
<1>4. CASE Report
  <2>1. board' = "listen" /\ reports' = <<sensorsValues>> /\ next > s /\ board = "measure"
    <3>1. board' = "listen" /\ reports' = <<sensorsValues>> /\ board = "measure"
      BY <1>4 DEF Report
    <3>2. next \notin 1 .. NB_SENSORS /\ next \in 1 .. NB_SENSORS + 1
      BY <1>1, <1>4 DEF Report, SensorTypes, Sensors
    <3>3. next > s
      BY <1>1, <3>2, SensorAssumption
    <3> QED BY <3>1, <3>3
  <2>2. UNCHANGED <<isON, shortRangeSensorsValues>>
    BY <1>4 DEF Report, masterVars, sensorVars
  <2> QED BY <2>1, <2>2
<1>5. CASE Light
  BY <1>1, <1>5, SensorAssumption DEF Light, masterVars, sensorVars
<1>6. CASE UNCHANGED <<sensorsValues, reports, shortRangeSensorsValues, board, next, isON>>
  BY <1>6
<1> QED BY <1>2, <1>3, <1>4, <1>5, <1>6
        DEF Next, ArmInit, Master, WakeBoard, EnterLoop, MasterListen, Movement, ContextualUpdate,
            WaitForJumper, EndOfMatch, BoardStep, BoardWait, BootUp, SensorsInit, EndOfInit,
            EndOfAlarm, masterVars, sensorVars, vars

\* The safety part of DeathReported: when the master has a sensor as dead and no older report is on
\* its way, it keeps it as dead for ever, for any number of sensors (ToF_shortRange.getMesure,
\* SensorsMgr.getValues, SlaveSensorLed.getSensorsValues).
THEOREM DeadForEver == Spec => \A s \in Sensors : [][Reported(s) => Reported(s)']_vars
<1>1. ASSUME NEW s \in Sensors PROVE Spec => [][Reported(s) => Reported(s)']_vars
  <2>1. SensorInv /\ ReportTypes /\ [Next]_vars => [Reported(s) => Reported(s)']_vars
    BY <1>1, ReportedStays
  <2>2. Spec => [](SensorInv /\ ReportTypes)
    BY SensorInvHolds, ReportInit, ReportStep, PTL DEF Spec
  <2> QED BY <2>1, <2>2, PTL DEF Spec
<1> QED BY <1>1

=============================================================================
