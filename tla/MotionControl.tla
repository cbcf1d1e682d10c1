--------------------------- MODULE MotionControl ---------------------------
(***************************************************************************)
(* Trajectory following on the low level master (Teensy):                  *)
(* MotionControlSystem and TrajectoryFollower, with the long orders        *)
(* FOLLOW_TRAJECTORY and STOP that wait for them.                          *)
(*                                                                         *)
(* Two actors share this state.  The 1 kHz timer interrupt runs            *)
(* MotionControlSystem::control() to completion (action Tick).  The main   *)
(* loop executes orders; the interrupt may strike between any two of its   *)
(* steps except inside noInterrupts() ... interrupts().  The variable pc   *)
(* is where the main loop stands.                                          *)
(*                                                                         *)
(* The points of the trajectory are abstracted to their two flags, the     *)
(* physical world (odometry, encoders, curvature) to the outcomes the code *)
(* can observe.                                                            *)
(***************************************************************************)
EXTENDS Integers, Sequences

CONSTANTS
  Capacity,    \* bound of the model: points the std::vector may hold
  Frames,      \* bound of the model: the frames of points a client may send
  Levels,      \* the motion control levels clients may select
  HighLevel    \* TRUE: the only client is the high level program

Flags  == {"EMERGENCY_BREAK", "EXT_BLOCKED", "INT_BLOCKED", "FAR_AWAY", "EMPTY_TRAJ"}
Phases == {"INIT", "MOVING", "BREAKING", "ENDED"}
Point  == [stop : BOOLEAN, end : BOOLEAN]
DefaultPoint == [stop |-> TRUE, end |-> TRUE]
Slots  == 0 .. Capacity - 1

ASSUME CapacityAssumption == Capacity \in Nat \ {0}
ASSUME FramesAssumption   == Frames \subseteq Seq(Point) \ {<<>>}
ASSUME LevelsAssumption   == Levels \subseteq 0 .. 4
ASSUME ClientAssumption   == HighLevel \in BOOLEAN

Infinite == -1   \* setInfiniteDistanceToDrive

VARIABLES
  phase,       \* TrajectoryFollower::movePhase
  status,      \* moveStatus, the set of raised flags; {} is MOVE_OK
  target,      \* TrajectoryFollower::trajectoryPoint, a copy
  drive,       \* translationSetPoint - currentTranslation when set, in points
  level,       \* the four control booleans, as getMotionControlLevel sums them
  travelling,  \* travellingToDestination
  was,         \* wasTravellingToDestination, static in control()
  buf, size,   \* currentTrajectory: storage and size()
  idx,         \* trajectoryIndex
  complete,    \* trajectoryComplete
  pc,          \* where the main loop stands
  frame, at,   \* the order being executed: points left, index argument
  follow, stop \* FOLLOW_TRAJECTORY and STOP hold a slot of the order stack

followerVars == <<phase, status, target, drive>>
trajVars     == <<travelling, was, buf, size, idx, complete>>
loopVars     == <<pc, frame, at>>
vars == <<followerVars, level, trajVars, loopVars, follow, stop>>

Translation == level > 2   \* translationControlled
Trajectory  == level > 3   \* trajectoryControlled

Init ==
  /\ phase = "ENDED" /\ status = {} /\ target = DefaultPoint /\ drive = 0
  /\ level = 4
  /\ travelling = FALSE /\ was = FALSE
  /\ buf = [i \in Slots |-> DefaultPoint] /\ size = 0 /\ idx = 0 /\ complete = FALSE
  /\ pc = "loop" /\ frame = <<>> /\ at = 0
  /\ follow = FALSE /\ stop = FALSE

-----------------------------------------------------------------------------
(* TrajectoryFollower                                                      *)

Now == [phase |-> phase, status |-> status]

Outcome(p, raised) == [phase |-> p, status |-> status \cup raised]

\* Mutant: a braking robot is never seen to stop.
manageStopMutant ==
  IF Translation /\ phase = "MOVING"
  THEN {Outcome("ENDED", IF Trajectory /\ ~target.stop THEN {"EXT_BLOCKED"} ELSE {})}
  ELSE {}

\* endOfMoveMgr.isStopped() is only looked at when translation is controlled.
manageStop ==
  IF Translation /\ phase \in {"MOVING", "BREAKING"}
  THEN {Outcome("ENDED", IF phase = "MOVING" /\ Trajectory /\ ~target.stop
                         THEN {"EXT_BLOCKED"} ELSE {})}
  ELSE {}

manageBlocking == IF phase = "MOVING" THEN {Outcome("ENDED", {"INT_BLOCKED"})} ELSE {}

checkPosition ==
  IF phase = "MOVING" /\ Trajectory THEN {Outcome("BREAKING", {"FAR_AWAY"})} ELSE {}

\* The wheels reach the curvature of the target, or TIMEOUT_MOVE_INIT expires.
leaveMoveInit ==
  IF phase = "INIT" THEN {Outcome("MOVING", {}), Outcome("ENDED", {"EXT_BLOCKED"})} ELSE {}

steady == IF phase = "INIT" /\ ~Trajectory THEN {} ELSE {Outcome(phase, {})}

eventful == manageStop \cup manageBlocking \cup checkPosition \cup leaveMoveInit

\* finalise_stop() zeroes the translation set point whenever a move ends.
DriveAfter(o) == IF o.phase = "ENDED" /\ phase # "ENDED" THEN 0 ELSE drive

\* Mutant: moveStatus = EMERGENCY_BREAK instead of |=.
ForgetfulStopMutant(o) ==
  /\ phase'  = IF o.phase # "ENDED" /\ Translation THEN "BREAKING" ELSE "ENDED"
  /\ status' = IF o.phase # "ENDED" /\ Translation THEN {"EMERGENCY_BREAK"} ELSE o.status
  /\ drive'  = IF o.phase # "ENDED" /\ Translation THEN drive ELSE 0

\* emergency_stop_from_interrupt(), in the phase and with the flags of o.
EmergencyStop(o) ==
  /\ phase'  = IF o.phase # "ENDED" /\ Translation THEN "BREAKING" ELSE "ENDED"
  /\ status' = IF o.phase # "ENDED" /\ Translation
               THEN o.status \cup {"EMERGENCY_BREAK"} ELSE o.status
  /\ drive'  = IF o.phase # "ENDED" /\ Translation THEN drive ELSE 0

\* startMove() after control() ended with o; an error is printed unless MOVE_ENDED.
StartMove(o) ==
  /\ phase'  = IF o.phase = "ENDED" THEN "INIT" ELSE o.phase
  /\ status' = o.status

-----------------------------------------------------------------------------
(* MotionControlSystem, in the timer interrupt                             *)

\* Mutant: trajectoryIndex is not reset.
StopAndClearMutant(o) ==
  /\ EmergencyStop(o)
  /\ size' = 0 /\ complete' = FALSE
  /\ UNCHANGED <<target, buf, idx>>

StopAndClear(o) ==
  /\ EmergencyStop(o)
  /\ idx' = 0 /\ size' = 0 /\ complete' = FALSE
  /\ UNCHANGED <<target, buf>>

Empty(o) == [o EXCEPT !.status = @ \cup {"EMPTY_TRAJ"}]

\* Mutant: only the static of control() is reset.
EndTravelMutant == UNCHANGED travelling /\ was' = FALSE

EndTravel == travelling' = FALSE /\ was' = FALSE

\* Mutant: one point too far.
TooFarMutant(i, o) ==
  IF ~Translation THEN drive' = DriveAfter(o)
  ELSE \/ \E s \in i .. size - 1 :
            /\ buf[s].stop /\ \A j \in i .. s - 1 : ~buf[j].stop
            /\ drive' = s - i + 2
       \/ /\ \A j \in i .. size - 1 : ~buf[j].stop
          /\ drive' = Infinite

\* The translation set point reaches the first stop point from i on.
updateDistanceToTravel(i, o) ==
  IF ~Translation THEN drive' = DriveAfter(o)
  ELSE \/ \E s \in i .. size - 1 :
            /\ buf[s].stop /\ \A j \in i .. s - 1 : ~buf[j].stop
            /\ drive' = s - i + 1
       \/ /\ \A j \in i .. size - 1 : ~buf[j].stop
          /\ drive' = Infinite

\* setTrajectoryPoint(currentTrajectory.at(i)) and updateDistanceToTravel().
AimAt(i, o) ==
  /\ target' = IF Trajectory THEN buf[i] ELSE target
  /\ updateDistanceToTravel(i, o)

OnlyFollower(o) ==
  /\ phase' = o.phase /\ status' = o.status /\ drive' = DriveAfter(o)
  /\ UNCHANGED <<target, trajVars>>

NotTravelling(o) == ~travelling /\ OnlyFollower(o)

BeginTravel(o) ==
  /\ travelling /\ size > idx /\ ~was
  /\ AimAt(idx, o) /\ StartMove(o)
  /\ was' = TRUE
  /\ UNCHANGED <<travelling, buf, size, idx, complete>>

Crossing(o) == travelling /\ size > idx /\ was /\ o.phase = "MOVING" /\ ~buf[idx].stop

\* Mutant: the index advances, the follower keeps the point just crossed.
CrossPointMutant(o) ==
  /\ Crossing(o) /\ size > idx + 1
  /\ idx' = idx + 1 /\ AimAt(idx, o)
  /\ phase' = o.phase /\ status' = o.status
  /\ UNCHANGED <<travelling, was, buf, size, complete>>

CrossPoint(o) ==
  /\ Crossing(o) /\ size > idx + 1
  /\ idx' = idx + 1 /\ AimAt(idx + 1, o)
  /\ phase' = o.phase /\ status' = o.status
  /\ UNCHANGED <<travelling, was, buf, size, complete>>

CrossLastPoint(o) ==
  /\ Crossing(o) /\ size <= idx + 1
  /\ StopAndClear(Empty(o))
  /\ UNCHANGED <<travelling, was>>

KeepGoing(o) == travelling /\ size > idx /\ was /\ o.phase # "ENDED" /\ OnlyFollower(o)

AtMoveEnd(o) == travelling /\ size > idx /\ was /\ o.phase = "ENDED"

\* Mutant: the travel is over as soon as the last point is the current one.
EarlyEndMutant(o) ==
  /\ travelling /\ size > idx /\ was /\ buf[idx].end
  /\ phase' = o.phase /\ status' = o.status /\ drive' = DriveAfter(o)
  /\ idx' = 0 /\ size' = 0 /\ complete' = FALSE
  /\ UNCHANGED <<target, buf>> /\ EndTravel

EndOfTrajectory(o) ==
  /\ AtMoveEnd(o) /\ (buf[idx].end \/ o.status # {})
  /\ StopAndClear(o) /\ EndTravel

NextMove(o) ==
  /\ AtMoveEnd(o) /\ ~buf[idx].end /\ o.status = {} /\ size > idx + 1
  /\ idx' = idx + 1 /\ AimAt(idx + 1, o) /\ StartMove(o)
  /\ UNCHANGED <<travelling, was, buf, size, complete>>

NoNextMove(o) ==
  /\ AtMoveEnd(o) /\ ~buf[idx].end /\ o.status = {} /\ size <= idx + 1
  /\ StopAndClear(Empty(o)) /\ EndTravel

BrakeWithoutTrajectory(o) ==
  travelling /\ size <= idx /\ o.phase = "BREAKING" /\ OnlyFollower(o)

\* Mutant: a travel without trajectory ends without EMPTY_TRAJ.
EndWithoutTrajectoryMutant(o) ==
  /\ travelling /\ size <= idx /\ o.phase # "BREAKING"
  /\ StopAndClear(o)
  /\ EndTravel

EndWithoutTrajectory(o) ==
  /\ travelling /\ size <= idx /\ o.phase # "BREAKING"
  /\ StopAndClear(IF o.phase # "ENDED" \/ ~was THEN Empty(o) ELSE o)
  /\ EndTravel

Travel(o) ==
  \/ NotTravelling(o)   \/ BeginTravel(o)
  \/ CrossPoint(o)      \/ CrossLastPoint(o)  \/ KeepGoing(o)
  \/ EndOfTrajectory(o) \/ NextMove(o)        \/ NoNextMove(o)
  \/ BrakeWithoutTrajectory(o) \/ EndWithoutTrajectory(o)

\* The timer interrupt; nothing runs any more once the main loop hangs in the
\* handler of std::out_of_range with the interrupts off.
Tick ==
  /\ pc # "hung"
  /\ \E o \in steady \cup eventful : Travel(o)
  /\ UNCHANGED <<level, loopVars, follow, stop>>

-----------------------------------------------------------------------------
(* The main loop: immediate orders                                         *)

Idle(p) == pc = "loop" /\ pc' = p

\* An order is over: its locals are gone.
Done == pc' = "loop" /\ frame' = <<>> /\ at' = 0

\* The high level program waits for the answer of FOLLOW_TRAJECTORY before it deletes
\* or sends another trajectory, and uses no debug order.  (A wait that the end of the
\* match interrupts may be followed by a DELETE, which ChronoEnds has left nothing to.)
ClientMay == HighLevel => ~follow

NextInFrame == frame' = Tail(frame) /\ pc' = IF Tail(frame) = <<>> THEN "loop" ELSE "add"

\* APPEND (AppendToTraj::execute): each point in turn, trajectoryComplete is
\* tested, the point pushed with interrupts off, the flag set after that.
Append_ ==
  /\ Idle("add") /\ ClientMay
  /\ \E f \in Frames : size + Len(f) <= Capacity /\ frame' = f
  /\ UNCHANGED <<followerVars, level, trajVars, at, follow, stop>>

AddTest ==
  /\ pc = "add" /\ pc' = IF complete THEN "abort" ELSE "addPush"
  /\ UNCHANGED <<followerVars, level, trajVars, frame, at, follow, stop>>

AddPush ==
  /\ pc = "addPush"
  /\ buf' = [buf EXCEPT ![size] = Head(frame)] /\ size' = size + 1
  /\ IF Head(frame).end THEN pc' = "addEnd" /\ UNCHANGED frame ELSE NextInFrame
  /\ UNCHANGED <<followerVars, level, travelling, was, idx, complete, at, follow, stop>>

AddEnd ==
  /\ pc = "addEnd" /\ complete' = TRUE /\ NextInFrame
  /\ UNCHANGED <<followerVars, level, travelling, was, buf, size, idx, at, follow, stop>>

\* stop_and_clear_trajectory() when APPEND or EDIT is refused.
Abort ==
  /\ pc = "abort" /\ Done
  /\ StopAndClear(Now)
  /\ UNCHANGED <<level, travelling, was, follow, stop>>

\* EDIT (EditTraj::execute, updateTrajectory), on a frame whose size it accepts: the
\* bounds are tested with the interrupts on, the point is written with them off.
Edit ==
  /\ Idle("edit") /\ ~HighLevel
  /\ \E f \in Frames, i \in Slots : frame' = f /\ at' = i
  /\ UNCHANGED <<followerVars, level, trajVars, follow, stop>>

EditBound ==
  /\ pc = "edit" /\ pc' = IF at < size THEN "editIndex" ELSE "abort"
  /\ UNCHANGED <<followerVars, level, trajVars, frame, at, follow, stop>>

\* trajectoryIndex is read twice, and may change in between: once behind the size...
EditIndex ==
  /\ pc = "editIndex" /\ pc' = IF at >= idx THEN "editCurrent" ELSE "abort"
  /\ UNCHANGED <<followerVars, level, trajVars, frame, at, follow, stop>>

\* ... and once with travellingToDestination.  A tick between these two reads adds
\* nothing: one that ends the travel could come before both, any other after both.
IsCurrent == at = idx /\ travelling

EditCurrent ==
  /\ pc = "editCurrent" /\ pc' = IF IsCurrent THEN "abort" ELSE "editWrite"
  /\ UNCHANGED <<followerVars, level, trajVars, frame, at, follow, stop>>

EditWrite ==
  /\ pc = "editWrite" /\ at < size
  /\ buf' = [buf EXCEPT ![at] = Head(frame)]
  /\ complete' = (Head(frame).end \/ (complete /\ ~buf[at].end))
  /\ size' = IF Head(frame).end THEN at + 1 ELSE size
  /\ IF Tail(frame) = <<>> THEN Done
     ELSE frame' = Tail(frame) /\ at' = at + 1 /\ pc' = "edit"
  /\ UNCHANGED <<followerVars, level, travelling, was, idx, follow, stop>>

\* currentTrajectory.at(index) throws, and __throw_out_of_range never returns.
EditOutOfRange ==
  /\ pc = "editWrite" /\ at >= size /\ pc' = "hung"
  /\ UNCHANGED <<followerVars, level, trajVars, frame, at, follow, stop>>

\* Mutant: the client does not wait for the answer of FOLLOW_TRAJECTORY.
DeleteMutant ==
  /\ Idle("delete") /\ at' = 0
  /\ UNCHANGED <<followerVars, level, trajVars, frame, follow, stop>>

\* DELETE (deleteTrajectoryPoints); the high level program only deletes from 0.
Delete ==
  /\ Idle("delete") /\ ClientMay
  /\ \E i \in IF HighLevel THEN {0} ELSE Slots : at' = i
  /\ UNCHANGED <<followerVars, level, trajVars, frame, follow, stop>>

DeleteBound ==
  /\ pc = "delete"
  /\ IF at < size THEN pc' = "deleteIndex" /\ UNCHANGED <<frame, at>> ELSE Done
  /\ UNCHANGED <<followerVars, level, trajVars, follow, stop>>

DeleteIndex ==
  /\ pc = "deleteIndex"
  /\ IF at >= idx THEN pc' = "deleteCurrent" /\ UNCHANGED <<frame, at>> ELSE Done
  /\ UNCHANGED <<followerVars, level, trajVars, follow, stop>>

DeleteCurrent ==
  /\ pc = "deleteCurrent"
  /\ IF IsCurrent THEN Done ELSE pc' = "deleteErase" /\ UNCHANGED <<frame, at>>
  /\ UNCHANGED <<followerVars, level, trajVars, follow, stop>>

\* Mutant: trajectoryComplete survives the deletion.
DeleteEraseMutant ==
  /\ pc = "deleteErase" /\ Done
  /\ size' = at
  /\ UNCHANGED <<followerVars, level, travelling, was, buf, idx, complete, follow, stop>>

\* erase(begin() + index, end()) leaves size() = index.  When the interrupt has
\* cleared the vector since the tests, begin() + index is beyond end(): libstdc++
\* then moves end() up to it, and the points freed by clear() are live again.
DeleteErase ==
  /\ pc = "deleteErase" /\ Done
  /\ complete' = FALSE /\ size' = at
  /\ UNCHANGED <<followerVars, level, travelling, was, buf, idx, follow, stop>>

\* SET_CONTROL_LEVEL and START_MANUAL_MOVE, debug orders.
setMotionControlLevel ==
  /\ Idle("loop") /\ ~HighLevel
  /\ \E l \in Levels : level' = l
  /\ UNCHANGED <<followerVars, trajVars, frame, at, follow, stop>>

startManualMove ==
  /\ Idle("loop") /\ ~HighLevel /\ ~Trajectory
  /\ StartMove([phase |-> phase, status |-> {}])
  /\ UNCHANGED <<target, drive, level, trajVars, frame, at, follow, stop>>

-----------------------------------------------------------------------------
(* The main loop: long orders                                              *)

\* FOLLOW_TRAJECTORY: nothing is started unless the trajectory is controlled.
FollowLaunch ==
  /\ Idle("loop") /\ ClientMay
  /\ follow' = TRUE
  /\ IF Trajectory THEN status' = {} /\ travelling' = TRUE
                   ELSE UNCHANGED <<status, travelling>>
  /\ UNCHANGED <<phase, target, drive, level, was, buf, size, idx, complete, frame, at, stop>>

\* onExecute() reads travellingToDestination, then moveStatus, then answers.
FollowExecute ==
  /\ Idle("loop") /\ follow /\ ~travelling
  /\ follow' = FALSE
  /\ UNCHANGED <<followerVars, level, trajVars, frame, at, stop>>

StopLaunch ==
  /\ Idle("loop") /\ stop' = TRUE
  /\ StopAndClear(Now)
  /\ UNCHANGED <<level, travelling, was, frame, at, follow>>

StopExecute ==
  /\ Idle("loop") /\ stop /\ ~travelling
  /\ stop' = FALSE
  /\ UNCHANGED <<followerVars, level, trajVars, frame, at, follow>>

\* StartChrono::terminate, when the 100 s of the match are over.
ChronoEnds ==
  /\ Idle("loop")
  /\ StopAndClear(Now)
  /\ UNCHANGED <<level, travelling, was, frame, at, follow, stop>>

-----------------------------------------------------------------------------
MainLoop ==
  \/ Append_ \/ AddTest \/ AddPush \/ AddEnd \/ Abort
  \/ Edit \/ EditBound \/ EditIndex \/ EditCurrent \/ EditWrite \/ EditOutOfRange
  \/ Delete \/ DeleteBound \/ DeleteIndex \/ DeleteCurrent \/ DeleteErase
  \/ setMotionControlLevel \/ startManualMove
  \/ FollowLaunch \/ FollowExecute \/ StopLaunch \/ StopExecute \/ ChronoEnds

Next == Tick \/ MainLoop

Spec == Init /\ [][Next]_vars

\* Ticks that take a move further: an event of the follower, a point crossed, or
\* the first tick of a travel.  The timer fires every millisecond, the wheels
\* stop once braked, and a robot that moves crosses its points or is stopped.
Progress ==
  /\ pc # "hung"
  /\ \/ \E o \in eventful : Travel(o)
     \/ \E o \in steady :
          BeginTravel(o) \/ CrossPoint(o) \/ CrossLastPoint(o) \/ EndWithoutTrajectory(o)
  /\ UNCHANGED <<level, loopVars, follow, stop>>

\* The main loop finishes the order it started and polls its long orders.
Loop ==
  \/ AddTest \/ AddPush \/ AddEnd \/ Abort
  \/ EditBound \/ EditIndex \/ EditCurrent \/ EditWrite
  \/ DeleteBound \/ DeleteIndex \/ DeleteCurrent \/ DeleteErase

Fairness ==
  /\ WF_vars(Progress) /\ WF_vars(Loop)
  /\ SF_vars(FollowExecute) /\ SF_vars(StopExecute)

FairSpec == Spec /\ Fairness

-----------------------------------------------------------------------------
TypeOK ==
  /\ phase \in Phases /\ status \subseteq Flags /\ target \in Point
  /\ drive \in -1 .. Capacity
  /\ level \in 0 .. 4
  /\ travelling \in BOOLEAN /\ was \in BOOLEAN /\ complete \in BOOLEAN
  /\ buf \in [Slots -> Point] /\ size \in 0 .. Capacity /\ idx \in 0 .. Capacity - 1
  /\ pc \in {"loop", "add", "addPush", "addEnd", "abort", "edit", "editIndex",
             "editCurrent", "editWrite", "delete", "deleteIndex", "deleteCurrent",
             "deleteErase", "hung"}
  /\ frame \in Seq(Point) /\ at \in 0 .. Capacity
  /\ follow \in BOOLEAN /\ stop \in BOOLEAN

(***************************************************************************)
(* Properties.                                                             *)
(***************************************************************************)

\* At rest between travels: a robot that is not travelling has stopped, holds the
\* first index and is ready to start, so that the answer of FOLLOW_TRAJECTORY or
\* STOP finds the robot still and the next DELETE from 0 is not refused.
AtRest == ~travelling => phase = "ENDED" /\ idx = 0 /\ ~was

\* A travel is only without a current point while it brakes with an error raised.
LostMeansBraking ==
  travelling /\ was /\ size <= idx => phase = "BREAKING" /\ status # {}

\* While the robot drives, the point copied into the follower is the current point
\* of the trajectory, and its translation ends there exactly at a stop point.
Aimed ==
  travelling /\ was /\ phase \in {"INIT", "MOVING"} =>
    /\ idx < size /\ target = buf[idx]
    /\ target.stop <=> drive = 1

\* A trajectory marked complete ends with an end of trajectory: points can be
\* refused (AppendToTraj, failure) only behind such a point.
CompleteHasEnd == complete => size > 0 /\ buf[size - 1].end

\* What the discipline of the high level program excludes: an edit or a deletion that
\* races with the interrupt, and a travel that begins or goes on while the robot brakes for
\* an earlier one.
NoRace ==
  /\ level = 4 /\ at = 0
  /\ pc \notin {"edit", "editIndex", "editCurrent", "editWrite", "hung"}
  /\ pc \in {"add", "addPush", "addEnd", "abort"} => ~follow
  /\ pc = "addPush" => ~complete
  /\ pc = "addEnd" => size > 0 /\ buf[size - 1].end
  /\ pc \in {"delete", "deleteIndex", "deleteCurrent", "deleteErase"} => ~follow
  /\ travelling => follow
  /\ travelling /\ ~was => phase = "ENDED" /\ idx = 0
  /\ travelling /\ was => phase # "ENDED"

\* FOLLOW_TRAJECTORY can only answer MOVE_OK for a travel that ended, still, at an
\* end of trajectory: no stop, loss or blocking in between is reported as success.
OkMeansArrived ==
  [][travelling /\ ~travelling' /\ status' = {} =>
       idx < size /\ buf[idx].end /\ phase' = "ENDED"]_vars

\* A flag raised during a travel is still there when its answer is read.
ErrorsKept == [][travelling => status \subseteq status']_vars

\* Whatever clients edit and whatever level they select, the index is back at 0
\* when no travel is under way: the whole trajectory can be deleted or edited.
IdleIndex == ~travelling => idx = 0

\* Even then, MOVE_OK is only answered by a robot whose move has ended.
OkMeansEnded ==
  [][travelling /\ ~travelling' /\ status' = {} => phase' = "ENDED"]_vars

\* Every travel ends, by arrival, by stop or by error, and then the long orders
\* that wait for it are answered.
TravelEnds  == travelling ~> ~travelling
LongOrdersAnswered == (follow ~> ~follow) /\ (stop ~> ~stop)

=============================================================================
