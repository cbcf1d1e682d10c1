------------------------ MODULE MotionControlProofs ------------------------
(***************************************************************************)
(* Theorems about MotionControl for trajectories of any capacity, any      *)
(* frames and, where HighLevel is not assumed, any clients and levels.     *)
(***************************************************************************)
EXTENDS MotionControl, TLAPS

(***************************************************************************)
(* What one run of TrajectoryFollower::control() may do.                   *)
(***************************************************************************)
Outcomes == steady \cup eventful

LEMMA OutcomeFacts ==
  ASSUME TypeOK, NEW o \in Outcomes
  PROVE  /\ o \in [phase : Phases, status : SUBSET Flags]
         /\ status \subseteq o.status
         /\ phase = "ENDED" => o.phase = "ENDED" /\ o.status = status
         /\ phase = "BREAKING" => o.phase \in {"BREAKING", "ENDED"}
         /\ o.phase \in {"INIT", "MOVING"} => phase \in {"INIT", "MOVING"}
         /\ o.phase = "BREAKING" /\ phase # "BREAKING" => o.status # {}
<1>1. \E p \in Phases, raised \in SUBSET Flags :
         /\ o = Outcome(p, raised)
         /\ \/ p = phase /\ raised = {}
            \/ phase = "INIT" /\ p = "MOVING" /\ raised = {}
            \/ phase \in {"INIT", "MOVING", "BREAKING"} /\ p = "ENDED"
            \/ phase = "MOVING" /\ p = "BREAKING" /\ raised # {}
  <2>1. CASE o \in steady
    BY <2>1 DEF steady, TypeOK
  <2>2. CASE o \in manageStop
    BY <2>2 DEF manageStop, Phases, Flags
  <2>3. CASE o \in manageBlocking
    BY <2>3 DEF manageBlocking, Phases, Flags
  <2>4. CASE o \in checkPosition
    BY <2>4 DEF checkPosition, Phases, Flags
  <2>5. CASE o \in leaveMoveInit
    BY <2>5 DEF leaveMoveInit, Phases, Flags
  <2> QED BY <2>1, <2>2, <2>3, <2>4, <2>5 DEF Outcomes, eventful
<1> QED BY <1>1 DEF Outcome, TypeOK, Phases

(***************************************************************************)
(* Type correctness.  A frame being pushed has its room in the vector.     *)
(***************************************************************************)
FrameFits ==
  /\ pc \in {"add", "addPush", "addEnd", "edit", "editIndex", "editCurrent", "editWrite"} =>
       frame # <<>>
  /\ pc \in {"add", "addPush"} => size + Len(frame) <= Capacity
  /\ pc = "addEnd" => size + Len(frame) <= Capacity + 1

TypeInv == TypeOK /\ FrameFits

LEMMA AimType ==
  ASSUME TypeOK, NEW o \in [phase : Phases, status : SUBSET Flags],
         NEW i \in 0 .. Capacity - 1, i < size, AimAt(i, o)
  PROVE  target' \in Point /\ drive' \in -1 .. Capacity
<1>1. target' \in Point
  BY CapacityAssumption DEF AimAt, TypeOK, Slots
<1>2. drive' \in -1 .. Capacity
  <2>1. CASE ~Translation
    BY <2>1, CapacityAssumption DEF AimAt, updateDistanceToTravel, DriveAfter, TypeOK
  <2>2. CASE Translation
    BY <2>2, CapacityAssumption DEF AimAt, updateDistanceToTravel, Infinite, TypeOK
  <2> QED BY <2>1, <2>2
<1> QED BY <1>1, <1>2

LEMMA ClearType ==
  ASSUME TypeOK, NEW o \in [phase : Phases, status : SUBSET Flags], StopAndClear(o)
  PROVE  /\ phase' \in Phases /\ status' \subseteq Flags /\ target' \in Point
         /\ drive' \in -1 .. Capacity /\ buf' \in [Slots -> Point]
         /\ size' = 0 /\ idx' = 0 /\ complete' \in BOOLEAN
<1>1. complete' \in BOOLEAN
  BY Zenon DEF StopAndClear
<1>2. /\ phase' \in Phases /\ status' \subseteq Flags /\ target' \in Point
      /\ drive' \in -1 .. Capacity /\ buf' \in [Slots -> Point]
      /\ size' = 0 /\ idx' = 0
  BY CapacityAssumption DEF StopAndClear, EmergencyStop, TypeOK, Phases, Flags
<1> QED BY <1>1, <1>2

LEMMA ClearNowType ==
  ASSUME TypeOK, StopAndClear(Now)
  PROVE  /\ phase' \in Phases /\ status' \subseteq Flags /\ target' \in Point
         /\ drive' \in -1 .. Capacity /\ buf' \in [Slots -> Point]
         /\ size' = 0 /\ idx' = 0 /\ complete' \in BOOLEAN
<1>1. complete' \in BOOLEAN
  BY Zenon DEF StopAndClear
<1>2. /\ phase' \in Phases /\ status' \subseteq Flags /\ target' \in Point
      /\ drive' \in -1 .. Capacity /\ buf' \in [Slots -> Point]
      /\ size' = 0 /\ idx' = 0
  BY CapacityAssumption DEF StopAndClear, EmergencyStop, Now, TypeOK, Phases, Flags
<1> QED BY <1>1, <1>2

LEMMA EndTravelType == EndTravel => travelling' \in BOOLEAN /\ was' \in BOOLEAN
BY Zenon DEF EndTravel

LEMMA TickType ==
  ASSUME TypeInv, Tick
  PROVE  TypeInv'
<1> PICK o \in Outcomes : Travel(o)
  BY DEF Tick, Outcomes
<1> USE CapacityAssumption DEF TypeInv
<1>0. /\ TypeOK /\ size \in 0 .. Capacity /\ idx \in 0 .. Capacity - 1
      /\ travelling \in BOOLEAN /\ was \in BOOLEAN
  BY DEF TypeOK
<1>1. o \in [phase : Phases, status : SUBSET Flags]
  BY OutcomeFacts
<1>2. Empty(o) \in [phase : Phases, status : SUBSET Flags]
  BY <1>1 DEF Empty, Flags
<1>3. UNCHANGED <<level, pc, frame, at, follow, stop>> /\ pc # "hung"
  BY DEF Tick, loopVars
<1>4. /\ phase' \in Phases /\ status' \subseteq Flags /\ target' \in Point
      /\ drive' \in -1 .. Capacity /\ travelling' \in BOOLEAN /\ was' \in BOOLEAN
      /\ complete' \in BOOLEAN /\ buf' \in [Slots -> Point]
      /\ size' \in 0 .. Capacity /\ idx' \in 0 .. Capacity - 1 /\ size' <= size
  <2>1. CASE OnlyFollower(o)
    BY <1>1, <2>1 DEF OnlyFollower, DriveAfter, trajVars, TypeOK
  <2>2. CASE BeginTravel(o)
    BY <1>1, <2>2, AimType DEF BeginTravel, StartMove, TypeOK, Phases
  <2>3. CASE CrossPoint(o)
    BY <1>1, <2>3, AimType DEF CrossPoint, TypeOK
  <2>4. CASE CrossLastPoint(o)
    <3>1. StopAndClear(Empty(o))
      BY <2>4 DEF CrossLastPoint
    <3> QED BY <1>2, <2>4, <3>1, ClearType, <1>0 DEF CrossLastPoint
  <2>5. CASE EndOfTrajectory(o)
    <3>1. StopAndClear(o) /\ EndTravel
      BY <2>5 DEF EndOfTrajectory
    <3> QED BY <1>1, <3>1, ClearType, EndTravelType, <1>0
  <2>6. CASE NextMove(o)
    BY <1>1, <2>6, AimType DEF NextMove, StartMove, TypeOK, Phases
  <2>7. CASE NoNextMove(o)
    <3>1. StopAndClear(Empty(o)) /\ EndTravel
      BY <2>7 DEF NoNextMove
    <3> QED BY <1>2, <3>1, ClearType, EndTravelType, <1>0
  <2>8. CASE EndWithoutTrajectory(o)
    <3>1. (StopAndClear(o) \/ StopAndClear(Empty(o))) /\ EndTravel
      BY <2>8 DEF EndWithoutTrajectory
    <3> QED BY <1>1, <1>2, <3>1, ClearType, EndTravelType, <1>0
  <2> QED
    BY <2>1, <2>2, <2>3, <2>4, <2>5, <2>6, <2>7, <2>8
    DEF Travel, NotTravelling, KeepGoing, BrakeWithoutTrajectory
<1>5. TypeOK'
  BY <1>3, <1>4 DEF TypeOK
<1>6. FrameFits'
  BY <1>3, <1>4 DEF FrameFits, TypeOK
<1> QED BY <1>5, <1>6

LEMMA TailType ==
  ASSUME NEW s \in Seq(Point), s # <<>>
  PROVE  /\ Head(s) \in Point /\ Tail(s) \in Seq(Point)
         /\ Len(Tail(s)) = Len(s) - 1 /\ Len(s) \in Nat
OBVIOUS

LEMMA MainLoopType ==
  ASSUME TypeInv, MainLoop
  PROVE  TypeInv'
<1> USE CapacityAssumption, FramesAssumption, LevelsAssumption DEF TypeInv
<1>1. CASE Append_
  BY <1>1 DEF Append_, Idle, followerVars, trajVars, TypeOK, FrameFits
<1>2. CASE AddTest
  BY <1>2 DEF AddTest, followerVars, trajVars, TypeOK, FrameFits
<1>3. CASE AddPush
  <2>1. /\ frame \in Seq(Point) /\ frame # <<>> /\ Len(frame) \in Nat \ {0}
        /\ size + Len(frame) <= Capacity /\ Head(frame) \in Point
        /\ Tail(frame) \in Seq(Point) /\ Len(Tail(frame)) = Len(frame) - 1
    BY <1>3, TailType DEF AddPush, TypeOK, FrameFits
  <2>2. TypeOK'
    <3>1. buf' \in [Slots -> Point] /\ size' \in 0 .. Capacity
      BY <1>3, <2>1 DEF AddPush, TypeOK, Slots
    <3>2. frame' \in Seq(Point) /\ pc' \in {"add", "addEnd", "loop"}
      BY <1>3, <2>1 DEF AddPush, NextInFrame
    <3> QED BY <1>3, <3>1, <3>2 DEF AddPush, followerVars, TypeOK
  <2>3. FrameFits'
    BY <1>3, <2>1 DEF AddPush, NextInFrame, TypeOK, FrameFits
  <2> QED BY <2>2, <2>3
<1>4. CASE AddEnd
  <2>1. /\ frame \in Seq(Point) /\ frame # <<>> /\ Len(frame) \in Nat \ {0}
        /\ size + Len(frame) <= Capacity + 1 /\ Head(frame) \in Point
        /\ Tail(frame) \in Seq(Point) /\ Len(Tail(frame)) = Len(frame) - 1
    BY <1>4, TailType DEF AddEnd, TypeOK, FrameFits
  <2> QED
    BY <1>4, <2>1 DEF AddEnd, NextInFrame, followerVars, TypeOK, FrameFits
<1>5. CASE Abort
  <2>1. StopAndClear(Now)
    BY <1>5 DEF Abort
  <2> QED
    BY <1>5, <2>1, ClearNowType DEF Abort, Done, TypeOK, FrameFits
<1>6. CASE Edit
  BY <1>6 DEF Edit, Idle, Slots, followerVars, trajVars, TypeOK, FrameFits
<1>7. CASE EditBound \/ EditIndex \/ EditCurrent \/ EditOutOfRange
  BY <1>7 DEF EditBound, EditIndex, EditCurrent, EditOutOfRange, followerVars, trajVars, TypeOK, FrameFits
<1>8. CASE EditWrite
  <2>1. /\ frame \in Seq(Point) /\ frame # <<>> /\ Len(frame) \in Nat \ {0}
        /\ Head(frame) \in Point
        /\ Tail(frame) \in Seq(Point) /\ Len(Tail(frame)) = Len(frame) - 1
    BY <1>8, TailType DEF EditWrite, TypeOK, FrameFits
  <2>2. /\ size' \in 0 .. Capacity /\ at' \in 0 .. Capacity /\ frame' \in Seq(Point)
        /\ buf' \in [Slots -> Point] /\ complete' \in BOOLEAN /\ pc' \in {"loop", "edit"}
        /\ pc' = "edit" => frame' # <<>>
    <3>1. buf' \in [Slots -> Point] /\ size' \in 0 .. Capacity /\ at + 1 \in 0 .. Capacity
      BY <1>8, <2>1 DEF EditWrite, TypeOK, Slots
    <3>2. complete' \in BOOLEAN
      BY <1>8 DEF EditWrite
    <3>3. CASE Tail(frame) = <<>>
      BY <1>8, <3>1, <3>2, <3>3 DEF EditWrite, Done
    <3>4. CASE Tail(frame) # <<>>
      BY <1>8, <2>1, <3>1, <3>2, <3>4 DEF EditWrite
    <3> QED BY <3>3, <3>4
  <2> QED
    BY <1>8, <2>2 DEF EditWrite, followerVars, TypeOK, FrameFits
<1>9. CASE Delete
  <2>1. at' \in 0 .. Capacity
    BY <1>9 DEF Delete, Slots
  <2> QED
    BY <1>9, <2>1 DEF Delete, Idle, followerVars, trajVars, TypeOK, FrameFits
<1>10. CASE DeleteBound \/ DeleteIndex \/ DeleteCurrent
  <2>1. CASE UNCHANGED <<frame, at>>
    BY <1>10, <2>1 DEF DeleteBound, DeleteIndex, DeleteCurrent, Done, followerVars, trajVars,
                       TypeOK, FrameFits
  <2>2. CASE Done
    BY <1>10, <2>2 DEF DeleteBound, DeleteIndex, DeleteCurrent, Done, followerVars, trajVars,
                       TypeOK, FrameFits
  <2> QED BY <1>10, <2>1, <2>2 DEF DeleteBound, DeleteIndex, DeleteCurrent
<1>11. CASE DeleteErase
  <2>1. complete' \in BOOLEAN
    BY <1>11, Zenon DEF DeleteErase
  <2> QED
    BY <1>11, <2>1 DEF DeleteErase, Done, followerVars, TypeOK, FrameFits
<1>12. CASE setMotionControlLevel \/ startManualMove
  BY <1>12 DEF setMotionControlLevel, startManualMove, StartMove, Idle, Phases,
               followerVars, trajVars, TypeOK, FrameFits
<1>13. CASE FollowLaunch \/ FollowExecute \/ StopExecute
  <2>1. follow' \in BOOLEAN /\ stop' \in BOOLEAN /\ travelling' \in BOOLEAN
    BY <1>13, Zenon DEF FollowLaunch, FollowExecute, StopExecute, TypeOK, trajVars
  <2> QED
    BY <1>13, <2>1 DEF FollowLaunch, FollowExecute, StopExecute, Idle, Flags,
                       followerVars, trajVars, TypeOK, FrameFits
<1>14. CASE StopLaunch \/ ChronoEnds
  <2>1. StopAndClear(Now)
    BY <1>14 DEF StopLaunch, ChronoEnds
  <2>2. follow' \in BOOLEAN /\ stop' \in BOOLEAN
    BY <1>14, Zenon DEF StopLaunch, ChronoEnds, TypeOK
  <2> QED
    BY <1>14, <2>1, <2>2, ClearNowType DEF StopLaunch, ChronoEnds, Idle, TypeOK, FrameFits
<1> QED
  BY <1>1, <1>2, <1>3, <1>4, <1>5, <1>6, <1>7, <1>8, <1>9, <1>10,
     <1>11, <1>12, <1>13, <1>14 DEF MainLoop

LEMMA InitType == Init => TypeInv
<1> SUFFICES ASSUME Init PROVE TypeInv
  OBVIOUS
<1>1. /\ travelling \in BOOLEAN /\ was \in BOOLEAN /\ complete \in BOOLEAN
      /\ follow \in BOOLEAN /\ stop \in BOOLEAN
  BY Zenon DEF Init
<1>2. DefaultPoint \in Point
  BY DEF DefaultPoint, Point
<1> QED
  BY <1>1, <1>2, CapacityAssumption
  DEF Init, TypeInv, TypeOK, FrameFits, Phases, Flags, Slots

LEMMA TypeInvariant == Spec => []TypeInv
<1>1. Init => TypeInv
  BY InitType
<1>2. TypeInv /\ [Next]_vars => TypeInv'
  <2> SUFFICES ASSUME TypeInv, [Next]_vars PROVE TypeInv'
    OBVIOUS
  <2>1. CASE Tick
    BY <2>1, TickType
  <2>2. CASE MainLoop
    BY <2>2, MainLoopType
  <2>3. CASE UNCHANGED vars
    BY <2>3 DEF vars, followerVars, trajVars, loopVars, TypeInv, TypeOK, FrameFits
  <2> QED BY <2>1, <2>2, <2>3 DEF Next
<1> QED BY <1>1, <1>2, PTL DEF Spec

\* Every variable keeps its type: in particular the current index and the size of
\* the trajectory never leave the vector, under any interleaving.
THEOREM TypeCorrect == Spec => []TypeOK
<1>1. TypeInv => TypeOK
  BY DEF TypeInv
<1> QED BY <1>1, TypeInvariant, PTL

(***************************************************************************)
(* Safety for any client and any level.                                    *)
(***************************************************************************)

\* IdleIndex: no travel under way means the whole trajectory can be deleted, under
\* any interleaving of the interrupt with any orders of any clients.
THEOREM IdleIndexHolds == Spec => []IdleIndex
<1>1. Init => IdleIndex
  BY DEF Init, IdleIndex
<1>2. IdleIndex /\ [Next]_vars => IdleIndex'
  <2> SUFFICES ASSUME IdleIndex, [Next]_vars PROVE IdleIndex'
    OBVIOUS
  <2>1. CASE Tick
    <3> PICK o \in Outcomes : Travel(o)
      BY <2>1 DEF Tick, Outcomes
    <3> QED
      BY DEF Travel, NotTravelling, BeginTravel, CrossPoint, CrossLastPoint, KeepGoing,
             EndOfTrajectory, NextMove, NoNextMove, BrakeWithoutTrajectory,
             EndWithoutTrajectory, OnlyFollower, StopAndClear, EndTravel, trajVars,
             Crossing, AtMoveEnd, IdleIndex
  <2>2. CASE MainLoop
    BY <2>2 DEF MainLoop, Append_, AddTest, AddPush, AddEnd, Abort, Edit, EditBound,
                EditIndex, EditCurrent, EditWrite, EditOutOfRange, Delete, DeleteBound,
                DeleteIndex, DeleteCurrent, DeleteErase, setMotionControlLevel, startManualMove, FollowLaunch,
                FollowExecute, StopLaunch, StopExecute, ChronoEnds, StopAndClear,
                trajVars, IdleIndex
  <2>3. CASE UNCHANGED vars
    BY <2>3 DEF vars, trajVars, IdleIndex
  <2> QED BY <2>1, <2>2, <2>3 DEF Next
<1> QED BY <1>1, <1>2, PTL DEF Spec

\* OkMeansEnded: MOVE_OK is only answered by a robot whose move has ended, whatever
\* was edited, deleted or restarted meanwhile.
THEOREM OkMeansEndedHolds == Spec => OkMeansEnded
<1>1. [Next]_vars =>
        [travelling /\ ~travelling' /\ status' = {} => phase' = "ENDED"]_vars
  <2> SUFFICES ASSUME [Next]_vars, travelling, ~travelling', status' = {}
               PROVE  phase' = "ENDED"
    OBVIOUS
  <2>1. CASE Tick
    <3> PICK o \in Outcomes : Travel(o)
      BY <2>1 DEF Tick, Outcomes
    <3>1. EndOfTrajectory(o) \/ NoNextMove(o) \/ EndWithoutTrajectory(o)
      BY DEF Travel, NotTravelling, BeginTravel, CrossPoint, CrossLastPoint, KeepGoing,
             NextMove, BrakeWithoutTrajectory, OnlyFollower, trajVars
    <3>2. CASE EndOfTrajectory(o)
      BY <3>2 DEF EndOfTrajectory, AtMoveEnd, StopAndClear, EmergencyStop
    <3>3. CASE NoNextMove(o)
      BY <3>3 DEF NoNextMove, StopAndClear, EmergencyStop, Empty, AtMoveEnd
    <3>4. CASE EndWithoutTrajectory(o)
      <4>1. CASE o.phase = "ENDED"
        BY <3>4, <4>1 DEF EndWithoutTrajectory, StopAndClear, EmergencyStop, Empty
      <4>2. CASE o.phase # "ENDED"
        BY <3>4, <4>2 DEF EndWithoutTrajectory, StopAndClear, EmergencyStop, Empty
      <4> QED BY <4>1, <4>2
    <3> QED BY <3>1, <3>2, <3>3, <3>4
  <2>2. CASE MainLoop
    BY <2>2 DEF MainLoop, Append_, AddTest, AddPush, AddEnd, Abort, Edit, EditBound,
                EditIndex, EditCurrent, EditWrite, EditOutOfRange, Delete, DeleteBound,
                DeleteIndex, DeleteCurrent, DeleteErase, setMotionControlLevel, startManualMove, FollowLaunch,
                FollowExecute, StopLaunch, StopExecute, ChronoEnds, trajVars
  <2>3. CASE UNCHANGED vars
    BY <2>3 DEF vars, trajVars
  <2> QED BY <2>1, <2>2, <2>3 DEF Next
<1> QED BY <1>1, PTL DEF Spec, OkMeansEnded

(***************************************************************************)
(* Safety with the high level program as the only client.  The properties  *)
(* are not inductive one by one: Aimed needs AtRest (a travel begins at    *)
(* the first index of a robot at rest), AtRest needs LostMeansBraking (a   *)
(* travel that lost its trajectory ends only once braked), and all need    *)
(* NoRace, which says the trajectory is not edited during a travel.        *)
(***************************************************************************)
HighLevelInv ==
  TypeInv /\ NoRace /\ AtRest /\ LostMeansBraking /\ Aimed /\ CompleteHasEnd

LEMMA AimFacts ==
  ASSUME TypeOK, level = 4, NEW o \in [phase : Phases, status : SUBSET Flags],
         NEW i \in 0 .. Capacity - 1, i < size, AimAt(i, o)
  PROVE  target' = buf[i] /\ (target'.stop <=> drive' = 1)
<1>1. target' = buf[i]
  BY DEF AimAt, Trajectory
<1>2. CASE buf[i].stop
  <2>1. drive' = 1
    BY <1>2, CapacityAssumption
    DEF AimAt, updateDistanceToTravel, Translation, TypeOK, Slots
  <2> QED BY <1>1, <1>2, <2>1
<1>3. CASE ~buf[i].stop
  <2>1. drive' # 1
    BY <1>3, CapacityAssumption
    DEF AimAt, updateDistanceToTravel, Translation, Infinite, TypeOK, Slots
  <2> QED BY <1>1, <1>3, <2>1
<1> QED BY <1>2, <1>3

\* The tick: which invariants each of its outcomes can disturb.
LEMMA TickSafe ==
  ASSUME HighLevelInv, Tick
  PROVE  HighLevelInv'
<1> PICK o \in Outcomes : Travel(o)
  BY DEF Tick, Outcomes
<1>1. TypeInv /\ TypeOK /\ TypeInv'
  BY TickType DEF HighLevelInv, TypeInv
<1>2. /\ o \in [phase : Phases, status : SUBSET Flags]
      /\ status \subseteq o.status
      /\ phase = "ENDED" => o.phase = "ENDED" /\ o.status = status
      /\ phase = "BREAKING" => o.phase \in {"BREAKING", "ENDED"}
      /\ o.phase \in {"INIT", "MOVING"} => phase \in {"INIT", "MOVING"}
  BY <1>1, OutcomeFacts
<1>3. UNCHANGED <<level, pc, frame, at, follow, stop>> /\ level = 4
  BY DEF Tick, loopVars, HighLevelInv, NoRace
<1>4. size \in 0 .. Capacity /\ idx \in 0 .. Capacity - 1
  BY <1>1 DEF TypeOK
<1> USE CapacityAssumption
<1>5. CASE NotTravelling(o)
  BY <1>1, <1>2, <1>3, <1>5
  DEF NotTravelling, OnlyFollower, trajVars, HighLevelInv, TypeInv, NoRace, AtRest,
      LostMeansBraking, Aimed, CompleteHasEnd
<1> SUFFICES ASSUME travelling PROVE HighLevelInv'
  BY <1>5 DEF Travel, BeginTravel, CrossPoint, CrossLastPoint, Crossing, KeepGoing,
              EndOfTrajectory, NextMove, NoNextMove, AtMoveEnd,
              BrakeWithoutTrajectory, EndWithoutTrajectory
<1>6. /\ follow /\ pc \notin {"add", "addPush", "addEnd", "abort"}
      /\ pc \notin {"delete", "deleteIndex", "deleteCurrent", "deleteErase"}
      /\ pc \notin {"edit", "editIndex", "editCurrent", "editWrite", "hung"} /\ at = 0
      /\ ~was => phase = "ENDED" /\ idx = 0
      /\ was => phase # "ENDED"
  BY DEF HighLevelInv, NoRace
\* A travel that ends leaves the robot at rest.
<1>7. ASSUME EndTravel, idx' = 0, size' = 0, ~complete', phase' = "ENDED"
      PROVE  HighLevelInv'
  BY <1>1, <1>3, <1>6, <1>7
  DEF HighLevelInv, NoRace, AtRest, LostMeansBraking, Aimed, CompleteHasEnd, EndTravel
\* A travel that goes on with a current point.
<1>8. ASSUME travelling' = TRUE, was' = TRUE, idx' < size', phase' # "ENDED",
             UNCHANGED <<buf, size, complete>>,
             phase' \in {"INIT", "MOVING"} =>
               target' = buf'[idx'] /\ (target'.stop <=> drive' = 1)
      PROVE  HighLevelInv'
  BY <1>1, <1>3, <1>4, <1>6, <1>8
  DEF HighLevelInv, NoRace, AtRest, LostMeansBraking, Aimed, CompleteHasEnd, TypeInv, TypeOK
<1>9. CASE BeginTravel(o)
  <2>1. o.phase = "ENDED"
    BY <1>2, <1>6, <1>9 DEF BeginTravel
  <2>2. target' = buf[idx] /\ (target'.stop <=> drive' = 1)
    BY <1>1, <1>2, <1>3, <1>4, <1>9, AimFacts DEF BeginTravel
  <2> QED BY <1>8, <1>9, <2>1, <2>2 DEF BeginTravel, StartMove
<1>10. CASE CrossPoint(o)
  <2>1. target' = buf[idx + 1] /\ (target'.stop <=> drive' = 1)
    BY <1>1, <1>2, <1>3, <1>4, <1>10, AimFacts DEF CrossPoint
  <2> QED BY <1>4, <1>8, <1>10, <2>1 DEF CrossPoint, Crossing
<1>11. CASE CrossLastPoint(o)
  <2>1. /\ phase' = "BREAKING" /\ status' # {} /\ was' /\ travelling'
        /\ idx' = 0 /\ size' = 0 /\ ~complete'
    BY <1>3, <1>11
    DEF CrossLastPoint, Crossing, StopAndClear, EmergencyStop, Empty, Translation
  <2> QED
    BY <1>1, <1>3, <1>6, <2>1
    DEF HighLevelInv, NoRace, AtRest, LostMeansBraking, Aimed, CompleteHasEnd
<1>12. CASE KeepGoing(o)
  <2>1. /\ UNCHANGED <<target, travelling, was, buf, size, idx, complete>>
        /\ was /\ idx < size /\ phase' = o.phase /\ o.phase # "ENDED" /\ drive' = drive
    BY <1>4, <1>12 DEF KeepGoing, OnlyFollower, DriveAfter, trajVars
  <2>2. phase' \in {"INIT", "MOVING"} =>
          target' = buf'[idx'] /\ (target'.stop <=> drive' = 1)
    BY <1>2, <2>1 DEF HighLevelInv, Aimed
  <2> QED BY <1>8, <2>1, <2>2
<1>13. CASE EndOfTrajectory(o)
  BY <1>7, <1>13 DEF EndOfTrajectory, AtMoveEnd, StopAndClear, EmergencyStop
<1>14. CASE NextMove(o)
  <2>1. target' = buf[idx + 1] /\ (target'.stop <=> drive' = 1)
    BY <1>1, <1>2, <1>3, <1>4, <1>14, AimFacts DEF NextMove
  <2> QED BY <1>4, <1>8, <1>14, <2>1 DEF NextMove, AtMoveEnd, StartMove
<1>15. CASE NoNextMove(o)
  BY <1>7, <1>15 DEF NoNextMove, AtMoveEnd, StopAndClear, EmergencyStop, Empty
<1>16. CASE BrakeWithoutTrajectory(o)
  <2>1. was /\ status # {}
    BY <1>2, <1>6, <1>16 DEF BrakeWithoutTrajectory, HighLevelInv, LostMeansBraking
  <2> QED
    BY <1>1, <1>2, <1>3, <1>6, <1>16, <2>1
    DEF BrakeWithoutTrajectory, OnlyFollower, trajVars, HighLevelInv, NoRace, AtRest,
        LostMeansBraking, Aimed, CompleteHasEnd
<1>17. CASE EndWithoutTrajectory(o)
  <2>1. o.phase = "ENDED"
    BY <1>2, <1>6, <1>17 DEF EndWithoutTrajectory, HighLevelInv, LostMeansBraking
  <2> QED
    BY <1>7, <1>17, <2>1 DEF EndWithoutTrajectory, StopAndClear, EmergencyStop, Empty
<1> QED
  BY <1>9, <1>10, <1>11, <1>12, <1>13, <1>14, <1>15, <1>16, <1>17 DEF Travel, NotTravelling

LEMMA MainLoopSafe ==
  ASSUME HighLevel, HighLevelInv, MainLoop
  PROVE  HighLevelInv'
<1>1. TypeInv /\ TypeOK /\ TypeInv'
  BY MainLoopType DEF HighLevelInv, TypeInv
<1> USE CapacityAssumption DEF HighLevelInv
<1>2. /\ level = 4 /\ at = 0
      /\ pc \notin {"edit", "editIndex", "editCurrent", "editWrite", "hung"}
      /\ travelling => follow
      /\ size \in 0 .. Capacity /\ idx \in 0 .. Capacity - 1
  BY <1>1 DEF NoRace, TypeOK
\* An order that only moves the main loop on.
<1>3. ASSUME UNCHANGED <<followerVars, level, trajVars>>, at' = 0,
             pc' \notin {"edit", "editIndex", "editCurrent", "editWrite", "hung", "addEnd"},
             travelling => follow',
             pc' \in {"add", "addPush", "abort"} => ~follow',
             pc' = "addPush" => ~complete,
             pc' \in {"delete", "deleteIndex", "deleteCurrent", "deleteErase"} => ~follow'
      PROVE  HighLevelInv'
  BY <1>1, <1>2, <1>3
  DEF NoRace, AtRest, LostMeansBraking, Aimed, CompleteHasEnd, followerVars, trajVars
\* stop_and_clear_trajectory() between two ticks: a started move brakes, a travel
\* that has not begun yet finds the trajectory empty at its first tick.
<1>4. ASSUME StopAndClear(Now), UNCHANGED <<level, travelling, was, follow>>,
             pc' = "loop", at' = 0
      PROVE  HighLevelInv'
  <2>1. /\ phase # "ENDED" => phase' = "BREAKING" /\ status' # {}
        /\ phase = "ENDED" => phase' = "ENDED"
        /\ size' = 0 /\ idx' = 0 /\ ~complete'
    BY <1>2, <1>4 DEF StopAndClear, EmergencyStop, Now, Translation
  <2> QED
    BY <1>1, <1>2, <1>4, <2>1
    DEF NoRace, AtRest, LostMeansBraking, Aimed, CompleteHasEnd
<1>5. CASE Append_
  BY <1>2, <1>3, <1>5 DEF Append_, Idle, ClientMay
<1>6. CASE AddTest
  BY <1>2, <1>3, <1>6 DEF AddTest, NoRace, trajVars
<1>7. CASE AddPush
  <2>1. ~travelling /\ ~complete /\ ~follow
    BY <1>2, <1>7 DEF AddPush, NoRace
  <2>2. size' = size + 1 /\ buf'[size] = Head(frame) /\ size \in Slots
    BY <1>1, <1>2, <1>7, TailType DEF AddPush, TypeInv, TypeOK, FrameFits, Slots
  <2>3. pc' \in {"addEnd", "add", "loop"} /\ (pc' = "addEnd" => Head(frame).end)
    BY <1>7 DEF AddPush, NextInFrame
  <2> QED
    BY <1>1, <1>2, <1>7, <2>1, <2>2, <2>3
    DEF AddPush, followerVars, NoRace, AtRest, LostMeansBraking, Aimed, CompleteHasEnd
<1>8. CASE AddEnd
  <2>1. ~travelling /\ ~follow /\ size > 0 /\ buf[size - 1].end
    BY <1>2, <1>8 DEF AddEnd, NoRace
  <2>2. pc' \in {"add", "loop"}
    BY <1>8 DEF AddEnd, NextInFrame
  <2> QED
    BY <1>1, <1>2, <1>8, <2>1, <2>2
    DEF AddEnd, followerVars, NoRace, AtRest, LostMeansBraking, Aimed, CompleteHasEnd
<1>9. CASE Abort
  BY <1>4, <1>9 DEF Abort, Done
<1>10. CASE Edit \/ setMotionControlLevel \/ startManualMove
  BY <1>10 DEF Edit, setMotionControlLevel, startManualMove
<1>11. CASE EditBound \/ EditIndex \/ EditCurrent \/ EditWrite \/ EditOutOfRange
  BY <1>2, <1>11 DEF EditBound, EditIndex, EditCurrent, EditWrite, EditOutOfRange
<1>12. CASE Delete
  BY <1>2, <1>3, <1>12 DEF Delete, ClientMay, Idle
<1>13. CASE DeleteBound
  BY <1>2, <1>3, <1>13 DEF DeleteBound, Done, NoRace
<1>14. CASE DeleteIndex \/ DeleteCurrent
  BY <1>2, <1>3, <1>14 DEF DeleteIndex, DeleteCurrent, Done, NoRace
<1>15. CASE DeleteErase
  <2>1. ~travelling /\ at = 0
    BY <1>2, <1>15 DEF DeleteErase, NoRace
  <2> QED
    BY <1>1, <1>2, <1>15, <2>1
    DEF DeleteErase, Done, followerVars, NoRace, AtRest, LostMeansBraking, Aimed,
        CompleteHasEnd
<1>16. CASE FollowLaunch
  <2>1. ~follow /\ ~travelling /\ phase = "ENDED" /\ idx = 0 /\ ~was
    BY <1>2, <1>16 DEF FollowLaunch, ClientMay, AtRest
  <2> QED
    BY <1>1, <1>2, <1>16, <2>1
    DEF FollowLaunch, Idle, NoRace, AtRest, LostMeansBraking, Aimed, CompleteHasEnd
<1>17. CASE FollowExecute
  BY <1>2, <1>3, <1>17 DEF FollowExecute, Idle
<1>18. CASE StopExecute
  BY <1>2, <1>3, <1>18 DEF StopExecute, Idle
<1>19. CASE StopLaunch \/ ChronoEnds
  BY <1>2, <1>4, <1>19 DEF StopLaunch, ChronoEnds, Idle
<1> QED
  BY <1>5, <1>6, <1>7, <1>8, <1>9, <1>10, <1>11, <1>12, <1>13, <1>14, <1>15, <1>16,
     <1>17, <1>18, <1>19
  DEF MainLoop

LEMMA HighLevelInvariant == ASSUME HighLevel PROVE Spec => []HighLevelInv
<1>1. Init => HighLevelInv
  <2> SUFFICES ASSUME Init PROVE HighLevelInv
    OBVIOUS
  <2>1. TypeInv
    BY InitType
  <2> QED
    BY <2>1 DEF Init, HighLevelInv, NoRace, AtRest, LostMeansBraking, Aimed, CompleteHasEnd
<1>2. HighLevelInv /\ [Next]_vars => HighLevelInv'
  <2> SUFFICES ASSUME HighLevelInv, [Next]_vars PROVE HighLevelInv'
    OBVIOUS
  <2>1. CASE Tick
    BY <2>1, TickSafe
  <2>2. CASE MainLoop
    BY <2>2, MainLoopSafe
  <2>3. CASE UNCHANGED vars
    BY <2>3 DEF vars, followerVars, trajVars, loopVars, HighLevelInv, TypeInv, TypeOK,
                FrameFits, NoRace, AtRest, LostMeansBraking, Aimed, CompleteHasEnd
  <2> QED BY <2>1, <2>2, <2>3 DEF Next
<1> QED BY <1>1, <1>2, PTL DEF Spec

\* AtRest: a robot that is not travelling stands still at the first index, ready to
\* start, when FOLLOW_TRAJECTORY and STOP are answered.
THEOREM AtRestHolds == ASSUME HighLevel PROVE Spec => []AtRest
BY HighLevelInvariant, PTL DEF HighLevelInv

\* LostMeansBraking: a travel without a current point only brakes, with an error.
THEOREM LostMeansBrakingHolds == ASSUME HighLevel PROVE Spec => []LostMeansBraking
BY HighLevelInvariant, PTL DEF HighLevelInv

\* Aimed: the copy of the point the follower drives to is the current point of the
\* trajectory, and the translation ends there exactly when it is a stop point.
THEOREM AimedHolds == ASSUME HighLevel PROVE Spec => []Aimed
BY HighLevelInvariant, PTL DEF HighLevelInv

\* CompleteHasEnd: points are refused only behind an end of trajectory.
THEOREM CompleteHasEndHolds == ASSUME HighLevel PROVE Spec => []CompleteHasEnd
BY HighLevelInvariant, PTL DEF HighLevelInv

\* OkMeansArrived: MOVE_OK is only answered at an end of trajectory, the move ended.
THEOREM OkMeansArrivedHolds == ASSUME HighLevel PROVE Spec => OkMeansArrived
<1>1. HighLevelInv /\ [Next]_vars =>
        [travelling /\ ~travelling' /\ status' = {} =>
           idx < size /\ buf[idx].end /\ phase' = "ENDED"]_vars
  <2> SUFFICES ASSUME HighLevelInv, [Next]_vars, travelling, ~travelling', status' = {}
               PROVE  idx < size /\ buf[idx].end /\ phase' = "ENDED"
    OBVIOUS
  <2>1. CASE Tick
    <3> PICK o \in Outcomes : Travel(o)
      BY <2>1 DEF Tick, Outcomes
    <3>1. /\ TypeOK /\ size \in 0 .. Capacity /\ idx \in 0 .. Capacity - 1
          /\ o \in [phase : Phases, status : SUBSET Flags] /\ status \subseteq o.status
      BY OutcomeFacts DEF HighLevelInv, TypeInv, TypeOK
    <3>2. EndOfTrajectory(o) \/ NoNextMove(o) \/ EndWithoutTrajectory(o)
      BY DEF Travel, NotTravelling, BeginTravel, CrossPoint, CrossLastPoint, KeepGoing,
             NextMove, BrakeWithoutTrajectory, OnlyFollower, trajVars
    <3>3. CASE EndOfTrajectory(o)
      BY <3>1, <3>3 DEF EndOfTrajectory, AtMoveEnd, StopAndClear, EmergencyStop
    <3>4. ~NoNextMove(o)
      BY <3>1 DEF NoNextMove, StopAndClear, EmergencyStop, Empty, AtMoveEnd
    <3>5. ~EndWithoutTrajectory(o)
      <4> SUFFICES ASSUME EndWithoutTrajectory(o) PROVE FALSE
        OBVIOUS
      <4>1. CASE was /\ o.phase = "ENDED"
        <5>1. status # {}
          BY <3>1, <4>1 DEF EndWithoutTrajectory, HighLevelInv, LostMeansBraking
        <5> QED
          BY <3>1, <4>1, <5>1 DEF EndWithoutTrajectory, StopAndClear, EmergencyStop
      <4>2. CASE ~was \/ o.phase # "ENDED"
        BY <3>1, <4>2 DEF EndWithoutTrajectory, StopAndClear, EmergencyStop, Empty
      <4> QED BY <4>1, <4>2
    <3> QED BY <3>2, <3>3, <3>4, <3>5
  <2>2. CASE MainLoop
    BY <2>2 DEF MainLoop, Append_, AddTest, AddPush, AddEnd, Abort, Edit, EditBound,
                EditIndex, EditCurrent, EditWrite, EditOutOfRange, Delete, DeleteBound,
                DeleteIndex, DeleteCurrent, DeleteErase, setMotionControlLevel, startManualMove, FollowLaunch,
                FollowExecute, StopLaunch, StopExecute, ChronoEnds, trajVars
  <2>3. CASE UNCHANGED vars
    BY <2>3 DEF vars, trajVars
  <2> QED BY <2>1, <2>2, <2>3 DEF Next
<1> QED BY <1>1, HighLevelInvariant, PTL DEF Spec, OkMeansArrived

\* ErrorsKept: an error raised during a travel stays raised until it is answered.
THEOREM ErrorsKeptHolds == ASSUME HighLevel PROVE Spec => ErrorsKept
<1>1. HighLevelInv /\ [Next]_vars => [travelling => status \subseteq status']_vars
  <2> SUFFICES ASSUME HighLevelInv, [Next]_vars, travelling
               PROVE  status \subseteq status'
    OBVIOUS
  <2>1. CASE Tick
    <3> PICK o \in Outcomes : Travel(o)
      BY <2>1 DEF Tick, Outcomes
    <3>1. status \subseteq o.status
      BY OutcomeFacts DEF HighLevelInv, TypeInv
    <3>2. ASSUME StopAndClear(o) PROVE o.status \subseteq status'
      BY <3>2 DEF StopAndClear, EmergencyStop
    <3>3. ASSUME StopAndClear(Empty(o)) PROVE o.status \subseteq status'
      <4>1. o \in [phase : Phases, status : SUBSET Flags]
        BY OutcomeFacts DEF HighLevelInv, TypeInv
      <4> QED BY <3>3, <4>1 DEF StopAndClear, EmergencyStop, Empty
    <3>4. \/ status' = o.status
          \/ StopAndClear(o) \/ StopAndClear(Empty(o))
      BY DEF Travel, NotTravelling, BeginTravel, CrossPoint, CrossLastPoint, KeepGoing,
             EndOfTrajectory, NextMove, NoNextMove, BrakeWithoutTrajectory,
             EndWithoutTrajectory, OnlyFollower, StartMove
    <3> QED BY <3>1, <3>2, <3>3, <3>4
  <2>2. CASE MainLoop
    <3>1. ~FollowLaunch /\ ~startManualMove
      BY DEF FollowLaunch, ClientMay, startManualMove, HighLevelInv, NoRace
    <3>2. CASE Abort \/ StopLaunch \/ ChronoEnds
      BY <3>2 DEF Abort, StopLaunch, ChronoEnds, StopAndClear, EmergencyStop, Now
    <3>3. CASE ~(Abort \/ StopLaunch \/ ChronoEnds)
      BY <2>2, <3>1, <3>3
      DEF MainLoop, Append_, AddTest, AddPush, AddEnd, Edit, EditBound, EditIndex,
          EditCurrent, EditWrite, EditOutOfRange, Delete, DeleteBound, DeleteIndex,
          DeleteCurrent, DeleteErase,
          setMotionControlLevel, FollowExecute, StopExecute, followerVars
    <3> QED BY <3>2, <3>3
  <2>3. CASE UNCHANGED vars
    BY <2>3 DEF vars, followerVars
  <2> QED BY <2>1, <2>2, <2>3 DEF Next
<1> QED BY <1>1, HighLevelInvariant, PTL DEF Spec, ErrorsKept

=============================================================================
