------------------------------- MODULE Lights -------------------------------
(***************************************************************************)
(* The lights of the sensor board: what setLightningMode does to each of   *)
(* them, as operators on a record of lights.  A mode is the set of its     *)
(* bits.  A light is off, on with a power, or blinks with a period; where  *)
(* it stands in its fade or its period is not kept.                        *)
(***************************************************************************)
EXTENDS Naturals

Lighting == {"TURN_LEFT", "TURN_RIGHT", "FLASHING", "STOP_LIGHT", "REVERSE_LIGHT",
             "NIGHT_LIGHT_LOW", "NIGHT_LIGHT_HIGH", "ALARM_LIGHT"}

Off == [shines |-> "off", with |-> 0]
On(power) == [shines |-> "on", with |-> power]
Blink(period) == [shines |-> "blink", with |-> period]

\* The four flashing lights start one after the other; phase is how many were told to.
Dark ==
  [left |-> Off, right |-> Off, stop |-> Off, reverse |-> Off, front |-> Off, back |-> Off,
   flashing |-> [i \in 1 .. 4 |-> Off], phase |-> 0]

turnLight(mode, side) ==
  IF "ALARM_LIGHT" \in mode THEN Blink(100) ELSE IF side \in mode THEN Blink(500) ELSE Off

Only(bit, mode, power) == IF bit \in mode THEN On(power) ELSE Off

\* Mutant of nightBack: the night light is put out after the stop light was set.
nightBackMutant(mode) ==
  IF {"NIGHT_LIGHT_HIGH", "NIGHT_LIGHT_LOW"} \cap mode # {} THEN On(64) ELSE Off

\* The light at the back is a night light and a stop light.
nightBack(mode) ==
  IF "STOP_LIGHT" \in mode THEN On(255)
  ELSE IF {"NIGHT_LIGHT_HIGH", "NIGHT_LIGHT_LOW"} \cap mode # {} THEN On(64) ELSE Off

nightFront(mode) ==
  IF "NIGHT_LIGHT_HIGH" \in mode THEN On(255) ELSE Only("NIGHT_LIGHT_LOW", mode, 32)

\* FlashingLight: turnOn() begins with the first light again and lets the others blink.
turnOn(l) == [l EXCEPT !.flashing[1] = Blink(500), !.phase = 1]
turnOff(l) == [l EXCEPT !.flashing = [i \in 1 .. 4 |-> Off], !.phase = 0]

setLightningMode(l, mode) ==
  LET flashing == IF "FLASHING" \in mode THEN turnOn(l) ELSE turnOff(l) IN
  [flashing EXCEPT
     !.left = turnLight(mode, "TURN_LEFT"), !.right = turnLight(mode, "TURN_RIGHT"),
     !.reverse = Only("REVERSE_LIGHT", mode, 255), !.stop = Only("STOP_LIGHT", mode, 255),
     !.front = nightFront(mode), !.back = nightBack(mode)]

\* The next of the flashing lights starts when the last one has for long enough.
propagate(l) ==
  IF l.phase \in 1 .. 3
  THEN [l EXCEPT !.flashing[l.phase + 1] = Blink(500), !.phase = @ + 1]
  ELSE l

infoSignalOn(l) == [l EXCEPT !.left = On(255), !.right = On(255)]
infoSignalOff(l) == [l EXCEPT !.left = Off, !.right = Off]

=============================================================================
