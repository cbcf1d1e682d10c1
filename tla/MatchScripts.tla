---------------------------- MODULE MatchScripts ----------------------------
(***************************************************************************)
(* The main thread of the high level during the match: the loop of Match,  *)
(* the scripts it tries and tries again, the cubes Robot believes to hold  *)
(* and to have piled, and the corrections of the position the scripts      *)
(* begin and end.  The sensor thread strikes cubes off the table at any    *)
(* time, those the outline of the robot touches.                           *)
(*                                                                         *)
(* Outside: a travel arrives or not, and an order of the arm is answered   *)
(* with a code (what ArmLink leaves of it).  A code is the class execute() *)
(* and poseCubes() tell apart: "AX12_ERR" and "MOVE_TIMED_OUT" are those   *)
(* flags alone, "CUBE_MISSED" is without NO_DETECTION.  The colours of the *)
(* cubes in the robot only change the score, and are left out with the     *)
(* time that is left, which only makes scripts infeasible.  The end of the *)
(* match interrupts exec() anywhere: a behaviour that is cut short.        *)
(***************************************************************************)
EXTENDS Cubes, Sequences

CONSTANTS
  Pattern,      \* the places of the three colours of the pattern, or <<>>
  disableCubes, \* DISABLE_CUBES: no cube is taken nor put down
  Touchable,    \* bound: the cubes the outline of the robot may come over
  NbEssaiMax,   \* retries of execute()
  NbEssaiPose,  \* attempts of ScriptDeposeCube
  NbEssaiBouton \* attempts of ScriptDomotiqueV2

ASSUME PatternAssumption == Pattern \in {<<>>} \cup Places \X Places \X Places
ASSUME ConfigAssumption == disableCubes \in BOOLEAN
ASSUME TouchableAssumption == Touchable \subseteq Cube
ASSUME TriesAssumption == NbEssaiMax \in Nat /\ {NbEssaiPose, NbEssaiBouton} \subseteq Nat \ {0}

VARIABLES
  etat,        \* of the main thread: "running" or "crashed"
  at,          \* where Match.exec() stands, an index of Plan
  queue,       \* allPrise: the cubes to be tried
  usePattern,
  script,      \* the script under way, "search" while allPrise is tried
  line,        \* where it stands: the order or the move it waits for
  tries,       \* orders already given again by execute()
  attempts,    \* attempts already made by the script
  pending,     \* an exception waits for the end of a finally clause
  reussi,      \* reussi of ScriptDomotiqueV2, brasOK of ScriptAbeille
  goal,        \* the cube of the ScriptPriseCube whose travel is under way, in a set
  table,       \* the cubes that are not done
  inside, top, \* Robot.cubeInside and cubeTop are not null
  pile,        \* Robot.piles.size()
  domotiqueDone, abeilleDone,
  enabled,     \* the CapteursCorrection whose measures are kept
  dirty,       \* of those, the ones with a measure older than the last move
  cut          \* history: an exception has left a correction on

planVars == <<etat, at, queue, usePattern>>
scriptVars == <<script, line, tries, attempts, pending, reussi>>
tableVars == <<goal, table>>
cubeVars == <<tableVars, inside, top, pile>>
doneVars == <<domotiqueDone, abeilleDone>>
correctionVars == <<enabled, dirty, cut>>
vars == <<planVars, scriptVars, cubeVars, doneVars, correctionVars>>

-----------------------------------------------------------------------------
(* The plan of the match and the codes of the arm                          *)

Plan ==
  <<"initial", "range", "golden", "dom", "dom", "dom", "bee", "bee", "bee", "dom",
    "first", "second", "recal", "depose", "depose", "bee", "bee", "dom", "again", "recal">>
LoopStart == 11
Planned == IF at \in DOMAIN Plan THEN Plan[at] ELSE "end"

isPileFull == pile = 3 \/ disableCubes
isAllDone == isPileFull /\ domotiqueDone /\ abeilleDone

Orders == {"rangeInit", "take", "store", "unstore", "put", "push", "bee", "goto", "range", "rescue"}

\* ThreadCommProcess: for the orders that take a cube only CUBE_MISSED is an error.
Codes ==
  CASE line = "take" -> {"CUBE_MISSED"}
    [] line = "put" -> {"AX12_ERR", "MOVE_TIMED_OUT", "NO_DETECTION", "CUBE_MISSED", "OTHER"}
    [] OTHER -> {"AX12_ERR", "MOVE_TIMED_OUT", "OTHER"}

\* What execute() ends with: AX12_ERR is ignored, MOVE_TIMED_OUT is only thrown once the
\* retries are used up.
Results ==
  {"OK"} \cup (Codes \ {"AX12_ERR", "MOVE_TIMED_OUT"})
         \cup (IF tries = NbEssaiMax THEN Codes \cap {"MOVE_TIMED_OUT"} ELSE {})

Init ==
  /\ etat = "running" /\ at = 1 /\ queue = {} /\ usePattern = (Pattern # <<>>)
  /\ script = "none" /\ line = "plan" /\ tries = 0 /\ attempts = 0
  /\ pending = FALSE /\ reussi = FALSE
  /\ goal = {} /\ table = Cube /\ pile = 0
  /\ inside \in BOOLEAN /\ top \in {FALSE, inside}  \* NB_GOLDEN_LOADED
  /\ domotiqueDone \in BOOLEAN /\ abeilleDone \in BOOLEAN
  /\ enabled = {} /\ dirty = {} /\ cut = FALSE

-----------------------------------------------------------------------------
(* The corrections                                                         *)

startStaticCorrection(sides) ==
  enabled' = enabled \cup sides /\ dirty' = dirty \ sides /\ UNCHANGED cut

\* Every side that is enabled, whoever enabled it.
endStaticCorrection == enabled' = {} /\ dirty' = {} /\ cut' = FALSE

\* The sensor thread goes on with the measures while the robot moves.
Move == dirty' = enabled /\ UNCHANGED <<enabled, cut>>

-----------------------------------------------------------------------------
(* The lines of a script                                                   *)

Running == etat = "running"

Begin(s, l) ==
  /\ script' = s /\ line' = l
  /\ tries' = 0 /\ attempts' = 0 /\ pending' = FALSE /\ reussi' = FALSE

NextPlan == at' = at + 1 /\ queue' = {} /\ UNCHANGED <<etat, usePattern>>

\* The script ends without an exception...
End == Begin("none", "plan") /\ NextPlan

\* ... or with one: after a script that takes a cube, another of the queue is tried.
EndFailed ==
  IF script = "prise" THEN Begin("search", "plan") /\ UNCHANGED planVars ELSE End

Goto(l) == line' = l /\ tries' = 0 /\ UNCHANGED <<script, attempts, pending, reussi, planVars>>

\* An exception that leaves the corrections as they are.
Leave == cut' = (cut \/ enabled # {}) /\ UNCHANGED <<enabled, dirty>>

\* It leaves run(): Script.execute() puts the arm away.
Throw == Goto("rescue") /\ Leave

-----------------------------------------------------------------------------
(* Match.exec()                                                            *)

Planning == Running /\ script = "none"

\* The correction before the match, without a travel.
InitialCorrection ==
  /\ Planning /\ Planned = "initial"
  /\ Begin("recal", "measure")
  /\ UNCHANGED <<planVars, cubeVars, doneVars, correctionVars>>

InitialRange ==
  /\ Planning /\ Planned = "range"
  /\ Begin("init", "rangeInit")
  /\ UNCHANGED <<planVars, cubeVars, doneVars, correctionVars>>

\* The golden cube is put down if there is one.
NoGolden ==
  /\ Planning /\ Planned = "golden" /\ ~inside
  /\ NextPlan /\ UNCHANGED <<scriptVars, cubeVars, doneVars, correctionVars>>

\* getDeposeScript() reads longueurGrue[piles.size()], that has three entries; exec() does not
\* catch what it throws.
IndexError ==
  /\ Planning /\ Planned = "depose" /\ pile = 3
  /\ etat' = "crashed"
  /\ UNCHANGED <<at, queue, usePattern, scriptVars, cubeVars, doneVars, correctionVars>>

Wanted ==
  CASE Planned = "golden" /\ inside -> {"depose"}
    [] Planned = "depose" /\ pile # 3 -> {"depose"}
    [] Planned \in {"dom", "bee", "recal"} -> {Planned}
    [] OTHER -> {}

faisable(s) ==
  CASE s = "depose" -> inside /\ ~isPileFull
    [] s = "dom" -> ~domotiqueDone /\ ~top
    [] s = "bee" -> ~abeilleDone /\ ~top
    [] OTHER -> TRUE

First(s) == CASE s = "depose" -> "pose" [] s = "dom" -> "approach" [] OTHER -> "measure"

\* doScript(): the robot gets there, and ScriptDeposeCube begins with a correction...
doScript ==
  /\ Planning
  /\ \E s \in Wanted :
       /\ faisable(s) /\ Begin(s, First(s))
       /\ IF s = "depose"
          THEN enabled' = enabled \cup {"ARRIERE"} /\ dirty' = enabled \ {"ARRIERE"} /\ UNCHANGED cut
          ELSE Move
  /\ UNCHANGED <<planVars, cubeVars, doneVars>>

\* ... or it does not, or has not to.
NotDone ==
  /\ Planning
  /\ \E s \in Wanted : (Move /\ faisable(s)) \/ UNCHANGED correctionVars
  /\ NextPlan /\ UNCHANGED <<scriptVars, cubeVars, doneVars>>

\* The cubes of some places, or, when there is none, any, and no more pattern.
SearchOr(found) ==
  IF usePattern /\ found # {}
  THEN queue' = found /\ UNCHANGED usePattern
  ELSE queue' = getAllPossible(Places, FALSE, table) /\ usePattern' = FALSE

getFirstPatternColor == SearchOr(getAllPossible({Pattern[1], Pattern[3]}, FALSE, table))

getSecondPatternColor ==
  IF usePattern /\ ~inside
  THEN queue' = {} /\ UNCHANGED usePattern
  ELSE SearchOr(getAllPossible({Pattern[2]}, FALSE, table)
                \cup getAllPossible({Pattern[2]}, TRUE, table))

Search ==
  /\ Planning /\ Planned \in {"first", "second"}
  /\ IF Planned = "first" THEN getFirstPatternColor ELSE getSecondPatternColor
  /\ Begin("search", "plan")
  /\ UNCHANGED <<etat, at, cubeVars, doneVars, correctionVars>>

\* ScriptPriseCube.faisable().
canTake(c) == ~top /\ ~isPileFull /\ c \in table

\* doScript(allPrise.poll()): the robot sets out for the cube...
Searching == Running /\ script = "search"

SetOut ==
  /\ Searching
  /\ \E c \in queue : canTake(c) /\ goal' = {c} /\ queue' = queue \ {c}
  /\ Begin("prise", "travel")
  /\ UNCHANGED <<etat, at, usePattern, table, inside, top, pile, doneVars, correctionVars>>

\* ... or does not, as it cannot be taken, or there is a cube inside and not the time for another.
SkipCube ==
  /\ Searching
  /\ \E c \in queue : (~canTake(c) \/ inside) /\ queue' = queue \ {c}
  /\ UNCHANGED <<etat, at, usePattern, scriptVars, cubeVars, doneVars, correctionVars>>

NoMoreCubes ==
  /\ Searching /\ queue = {}
  /\ End /\ UNCHANGED <<cubeVars, doneVars, correctionVars>>

Travelling == Running /\ line = "travel" /\ goal' = {} /\ Move

\* run() of ScriptPriseCube, whether or not the cube was struck off on the way: whatever
\* follows, it is no longer on the table.
TakeCube ==
  /\ Travelling
  /\ table' = table \ goal
  /\ Goto("take") /\ UNCHANGED <<inside, top, pile, doneVars>>

\* Without a path another cube is tried; after too many travels that were stopped none is.
NotReached ==
  /\ Travelling
  /\ EndFailed \/ End
  /\ UNCHANGED <<table, inside, top, pile, doneVars>>

Again ==
  /\ Planning /\ Planned = "again"
  /\ at' = IF isAllDone THEN at + 1 ELSE LoopStart
  /\ UNCHANGED <<etat, queue, usePattern, scriptVars, cubeVars, doneVars, correctionVars>>

-----------------------------------------------------------------------------
(* The steps of the scripts between two orders                             *)

Measured(script1) == Running /\ script = script1 /\ line = "measure"

\* ScriptRecalage and ScriptRecalageInitial; a correction may be impossible.
Recalage ==
  /\ Measured("recal") /\ endStaticCorrection
  /\ End \/ Goto("rescue")
  /\ UNCHANGED <<cubeVars, doneVars>>

\* ScriptAbeille: there is no measure or a bad one, or the robot goes against the wall.
ApproachBee ==
  /\ Measured("bee") /\ endStaticCorrection
  /\ Goto("bee") \/ Goto("rescue")
  /\ UNCHANGED <<cubeVars, doneVars>>

\* Mutant of BackFromBee: the correction begins before the robot goes forwards.
BackFromBeeMutant ==
  /\ Running /\ line = "backBee"
  /\ Goto("goto") /\ abeilleDone' = (abeilleDone \/ reussi)
  /\ enabled' = enabled \cup {"AVANT", "LATERAL"} /\ dirty' = enabled'
  /\ UNCHANGED <<cut, domotiqueDone, cubeVars>>

\* The finally clause of ScriptAbeille: backwards, forwards, and a correction.
BackFromBee ==
  /\ Running /\ line = "backBee"
  /\ \/ Goto("rescue") /\ Move /\ UNCHANGED doneVars
     \/ /\ abeilleDone' = (abeilleDone \/ reussi) /\ UNCHANGED domotiqueDone
        /\ \/ Goto("rescue") /\ Move
           \/ Goto("goto") /\ startStaticCorrection({"AVANT", "LATERAL"})
  /\ UNCHANGED cubeVars

\* ScriptDomotiqueV2: the robot comes to the right distance of the panel, or leaves.
ApproachPanel ==
  /\ Running /\ line = "approach"
  /\ \/ Goto("push") /\ startStaticCorrection({"AVANT"})
     \/ /\ line' = "back" /\ pending' = TRUE /\ Leave
        /\ UNCHANGED <<script, tries, attempts, reussi, planVars>>
  /\ UNCHANGED <<cubeVars, doneVars>>

\* Its finally clause.
BackFromPanel ==
  /\ Running /\ line = "back"
  /\ (~pending /\ End) \/ Goto("rescue")
  /\ Move /\ UNCHANGED <<cubeVars, doneVars>>

\* poseCubes(): the cube in the pliers, or the one inside, or none.
poseCubes ==
  /\ Running /\ line = "pose"
  /\ CASE top -> Goto("put") /\ top' = FALSE /\ UNCHANGED inside
       [] ~top /\ inside -> Goto("unstore") /\ UNCHANGED <<top, inside>>
       [] OTHER -> Goto("range") /\ UNCHANGED <<top, inside>>
  /\ UNCHANGED <<tableVars, pile, doneVars, correctionVars>>

-----------------------------------------------------------------------------
(* The orders of the arm and what follows their answer r                   *)

\* ScriptPriseCube: the cube is taken, then stored inside or kept in the pliers.
Take(r) ==
  /\ line = "take"
  /\ IF r = "OK" THEN Goto("store") /\ UNCHANGED correctionVars ELSE Throw
  /\ UNCHANGED <<cubeVars, doneVars>>

\* Mutant of storeCube: the cube that is already inside is forgotten.
storeCubeMutant(r) ==
  /\ line = "store"
  /\ IF r = "OK" THEN inside' = TRUE /\ End /\ UNCHANGED correctionVars ELSE Throw /\ UNCHANGED inside
  /\ UNCHANGED <<tableVars, top, pile, doneVars>>

storeCube(r) ==
  /\ line = "store"
  /\ IF r = "OK"
     THEN /\ IF inside THEN top' = TRUE /\ UNCHANGED inside ELSE inside' = TRUE /\ UNCHANGED top
          /\ End /\ UNCHANGED correctionVars
     ELSE Throw /\ UNCHANGED <<inside, top>>
  /\ UNCHANGED <<tableVars, pile, doneVars>>

\* Mutant of PoseFailed: the attempts are not counted.
PoseFailedForEverMutant ==
  line' = "pose" /\ tries' = 0 /\ UNCHANGED <<script, attempts, pending, reussi, planVars, correctionVars>>

\* ScriptDeposeCube catches what poseCubes() throws and calls it again.
PoseFailed ==
  /\ attempts' = attempts + 1
  /\ line' = IF attempts + 1 < NbEssaiPose THEN "pose" ELSE "range"
  /\ tries' = 0 /\ UNCHANGED <<script, pending, reussi, planVars, correctionVars>>

Unstore(r) ==
  /\ line = "unstore"
  /\ IF r = "OK"
     THEN inside' = FALSE /\ Goto("put") /\ UNCHANGED correctionVars
     ELSE PoseFailed /\ UNCHANGED inside
  /\ UNCHANGED <<tableVars, top, pile, doneVars>>

\* No cube in the pliers: poseCubes() calls itself.  A pile that has fallen has only its first
\* cube left.  The else of the code belongs to the inner if: only a first cube that is missed is
\* thrown, and OTHER goes for a success.
Put(r) ==
  /\ line = "put"
  /\ CASE r = "OK" -> pile' = pile + 1 /\ Goto("range") /\ UNCHANGED correctionVars
       [] r = "NO_DETECTION" -> Goto("pose") /\ UNCHANGED <<pile, correctionVars>>
       [] r = "CUBE_MISSED" /\ pile > 0 -> pile' = 1 /\ Goto("range") /\ UNCHANGED correctionVars
       [] r = "CUBE_MISSED" /\ pile = 0 -> PoseFailed /\ UNCHANGED pile
       [] OTHER -> Goto("range") /\ UNCHANGED <<pile, correctionVars>>
  /\ UNCHANGED <<tableVars, inside, top, doneVars>>

\* ScriptDomotiqueV2 pushes the button as often as it may, whatever the answers.
Push(r) ==
  /\ line = "push"
  /\ attempts' = attempts + 1 /\ reussi' = (reussi \/ r = "OK")
  /\ line' = IF attempts' < NbEssaiBouton THEN "push" ELSE "range"
  /\ domotiqueDone' = (domotiqueDone \/ (line' = "range" /\ reussi'))
  /\ tries' = 0
  /\ UNCHANGED <<script, pending, planVars, cubeVars, abeilleDone, correctionVars>>

PushBee(r) ==
  /\ line = "bee"
  /\ line' = "backBee" /\ tries' = 0 /\ reussi' = (r = "OK") /\ pending' = (r # "OK")
  /\ UNCHANGED <<script, attempts, planVars, cubeVars, doneVars, correctionVars>>

GoToAfterBee(r) ==
  /\ line = "goto"
  /\ IF r = "OK" THEN Goto("range") /\ UNCHANGED correctionVars ELSE Throw
  /\ UNCHANGED <<cubeVars, doneVars>>

\* rangeBras() at the end of a script, then the end of its correction; in ScriptDomotiqueV2 the
\* robot goes back afterwards, even with an exception.
rangeBras(r) ==
  /\ line = "range"
  /\ IF r = "OK" THEN endStaticCorrection ELSE Leave
  /\ IF script = "dom"
     THEN /\ line' = "back" /\ tries' = 0 /\ pending' = (r # "OK")
          /\ UNCHANGED <<script, attempts, reussi, planVars>>
     ELSE IF r = "OK" /\ ~pending THEN End ELSE Goto("rescue")
  /\ UNCHANGED <<cubeVars, doneVars>>

\* rangeBras() before the match and after an exception: its errors are only logged.
RangeIgnored(r) ==
  /\ \/ line = "rangeInit" /\ End
     \/ line = "rescue" /\ EndFailed
  /\ UNCHANGED <<cubeVars, doneVars, correctionVars>>

Answer(r) ==
  \/ Take(r) \/ storeCube(r) \/ Unstore(r) \/ Put(r)
  \/ Push(r) \/ PushBee(r) \/ GoToAfterBee(r) \/ rangeBras(r) \/ RangeIgnored(r)

Answered == Running /\ \E r \in Results : Answer(r)

\* execute() gives the same order again.
Retry ==
  /\ Running /\ line \in Orders
  /\ "MOVE_TIMED_OUT" \in Codes /\ tries < NbEssaiMax
  /\ tries' = tries + 1
  /\ UNCHANGED <<planVars, script, line, attempts, pending, reussi, cubeVars, doneVars, correctionVars>>

-----------------------------------------------------------------------------
(* The sensor thread: "Element shoote", a cube the robot stands on by its  *)
(* measured position.  It may strike off several in a row.                 *)

updateObstaclesMobiles ==
  /\ \E c \in table \cap Touchable : table' = table \ {c}
  /\ UNCHANGED <<planVars, scriptVars, goal, inside, top, pile, doneVars, correctionVars>>

-----------------------------------------------------------------------------
(* The main thread goes on, as the travels and the orders of the arm end.  *)

Main ==
  \/ InitialCorrection \/ InitialRange \/ NoGolden \/ IndexError \/ doScript \/ NotDone
  \/ Search \/ SetOut \/ SkipCube \/ TakeCube \/ NotReached \/ NoMoreCubes \/ Again
  \/ Recalage \/ ApproachBee \/ BackFromBee \/ ApproachPanel \/ BackFromPanel \/ poseCubes
  \/ Answered \/ Retry

Next == Main \/ updateObstaclesMobiles

Spec == Init /\ [][Next]_vars /\ WF_vars(Main)

-----------------------------------------------------------------------------
(* Properties                                                              *)

\* The values of the variables; the pile never has more than the three cubes the crane reaches
\* (ScriptManager.longueurGrue), and the position of exec() stays in its plan.
TypeOK ==
  /\ etat \in {"running", "crashed"} /\ at \in 1 .. Len(Plan) + 1 /\ queue \subseteq Cube
  /\ script \in {"none", "search", "init", "prise", "depose", "dom", "bee", "recal"}
  /\ line \in Orders \cup {"plan", "travel", "measure", "approach", "back", "backBee", "pose"}
  /\ tries \in 0 .. NbEssaiMax
  /\ attempts \in 0 .. NbEssaiPose \/ attempts \in 0 .. NbEssaiBouton
  /\ {usePattern, pending, reussi, inside, top, domotiqueDone, abeilleDone, cut} \subseteq BOOLEAN
  /\ goal \subseteq Cube /\ table \subseteq Cube /\ pile \in 0 .. 3
  /\ enabled \subseteq {"AVANT", "ARRIERE", "LATERAL"} /\ dirty \subseteq enabled

Count(b) == IF b THEN 1 ELSE 0

\* The cubes in the robot, between two orders, and piled...
Held == Count(inside) + Count(top) + pile + Count(line \in {"take", "store", "put"})

\* ... and with them all the program knows of: those on the table, and the one the robot is on
\* its way to, that is taken even if it is struck off meanwhile.
Known == Held + Cardinality(table \cup goal)

\* The step is an order of the arm answered with an error.
Refused == \E r \in Results \ {"OK"} : Answer(r)

\* Through all the exceptions and retries, and although the sensor thread strikes off cubes the
\* main thread is about to take, no cube is invented, and a cube that is held or piled is only
\* forgotten when the arm has answered an order with an error (Robot.storeCube, poseCubes,
\* ScriptPriseCube.run, CapteursProcess.updateObstaclesMobiles).
CubesAccounted == [][Known' <= Known /\ (Held' < Held => Refused)]_vars

\* Whatever is left on the table, a face the search calls possible has nothing left in front of
\* it nor at the sides of the arm, and a search without a pattern finds a cube if there is one.
SafeSearch ==
  \A t \in SUBSET Cube :
    /\ \A c \in t, face \in Faces : isFacePossible(c, face, TRUE, t) => InTheWay(c, face) \cap t = {}
    /\ t # {} => \E c \in t, face \in Faces : isFacePossible(c, face, FALSE, t)

\* The search is safe, and what it found stays so: a cube of the queue, even an old one, can still
\* be taken if it is still there (ScriptManager.isFacePossible, getAllPossible).
NothingInTheWay ==
  /\ SafeSearch
  /\ \A c \in queue \cap table : \E face \in Faces : isFacePossible(c, face, TRUE, table)

\* A correction of the position only uses measures taken while the robot stood still, unless an
\* exception has left an earlier correction on (CapteursProcess.endStaticCorrection).
StillMeasures == dirty # {} => cut

\* Whatever the arm answers, a script ends, and so does the search for a cube that takes one
\* after another: no order, attempt or cube is tried for ever (Robot.execute, Robot.poseCubes,
\* ScriptDeposeCube.run, Match.exec).
ScriptEnds == (script # "none") ~> (script = "none")

=============================================================================
