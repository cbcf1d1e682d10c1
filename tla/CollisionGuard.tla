--------------------------- MODULE CollisionGuard ---------------------------
(***************************************************************************)
(* The travels of the robot and the thread that stops it before a          *)
(* collision: Robot.State and Robot.path, that the main thread changes     *)
(* sometimes with and sometimes without the monitor of the robot,          *)
(* ThreadCollisionDegrade, the obstacles the sensors add, and what the low *)
(* level does with the trajectory (MotionControl has its details).         *)
(*                                                                         *)
(* A travel is a number and its path a sequence of places; an obstacle is  *)
(* a place, and collides with the points of a path that are there.  The    *)
(* emergency stop overtakes the orders that wait in the priority queue     *)
(* (OrderLink), never those on the connection.                             *)
(***************************************************************************)
EXTENDS Integers, Sequences

CONSTANTS
  Places,
  Routes,    \* the path of each travel, bound of the model
  Ahead,     \* how many points the guard looks at, 13 in the code
  Frame,     \* points in an order ADD_POINTS, 11 in the code
  Stops      \* bound of the model: emergency stops waiting to be sent

Travels == DOMAIN Routes
None == 0

ASSUME RoutesAssumption == Routes \in Seq(Seq(Places) \ {<<>>})
ASSUME SizesAssumption ==
  Ahead \in Nat \ {0} /\ Frame \in Nat \ {0} /\ Stops \in Nat \ {0}

VARIABLES
  main,    \* where the main thread stands in goTo() or avance()
  travel,  \* the travel it makes
  sent,    \* points it has asked to add
  etat,    \* Robot.etat
  path,    \* Robot.path, None for null
  guard,   \* where ThreadCollisionDegrade stands
  seen,    \* the path in its memory
  newObs,  \* obstacles not checked yet
  enemy,   \* where the other robot is
  index,   \* Robot.currentIndexTrajectory
  queued,  \* the order of the main thread that waits in the priority queue
  stops,   \* emergency stops that wait there
  stop,    \* Id.STOP between orderSent() and answerReceived()
  wire,    \* orders on the connection
  answered, \* the order of the main thread has its answer
  points,  \* how many points the trajectory of the low level has
  at,      \* the number of the point it drives to, trajectoryIndex + 1, or 0
  drive,   \* still, driving or braking
  follow   \* FOLLOW_TRAJECTORY is in the stack of the low level

mainVars  == <<main, travel, sent, path>>
guardVars == <<guard, seen>>
sensorVars == <<newObs, enemy, index>>
linkVars  == <<queued, stops, stop, wire, answered>>
lowVars   == <<points, at, drive, follow>>
vars == <<mainVars, etat, guardVars, sensorVars, linkVars, lowVars>>

Init ==
  /\ main = "plan" /\ travel = 0 /\ sent = 0 /\ etat = "STANDBY" /\ path = None
  /\ guard = "sleep" /\ seen = None
  /\ newObs = {} /\ enemy \in Places /\ index = 0
  /\ queued = "none" /\ stops = 0 /\ stop = "idle" /\ wire = <<>> /\ answered = FALSE
  /\ points = 0 /\ at = 0 /\ drive = "still" /\ follow = FALSE

\* The guard is in one of its synchronized(robot) blocks.
Locked == guard \in {"fetch", "stop", "immobilise"}

-----------------------------------------------------------------------------
(* The main thread                                                         *)

Order(o) == queued' = o /\ answered' = FALSE /\ UNCHANGED <<stops, stop, wire>>

\* goTo() has the path before it sends it, avance() after.
Plan ==
  /\ main = "plan" /\ travel + 1 \in Travels
  /\ travel' = travel + 1 /\ sent' = 0 /\ path' \in {path, travel + 1}
  /\ main' = "send" /\ Order("DESTROY_POINTS")
  /\ UNCHANGED <<etat, guardVars, sensorVars, lowVars>>

\* ajoutePointsTrajectoire(): one frame, its answer, the next one.
SendPoints ==
  /\ main = "send" /\ answered /\ sent < Len(Routes[travel])
  /\ sent' = (IF sent + Frame < Len(Routes[travel]) THEN sent + Frame ELSE Len(Routes[travel]))
  /\ Order("ADD_POINTS")
  /\ UNCHANGED <<main, travel, path, etat, guardVars, sensorVars, lowVars>>

PointsSent ==
  /\ main = "send" /\ answered /\ sent = Len(Routes[travel])
  /\ main' = "ready" /\ path' = travel
  /\ UNCHANGED <<travel, sent, etat, guardVars, sensorVars, linkVars, lowVars>>

\* Mutant: not synchronized.
UnlockedReadyMutant ==
  /\ main = "ready"
  /\ etat' = "READY_TO_GO" /\ main' = "set"
  /\ UNCHANGED <<travel, sent, path, guardVars, sensorVars, linkVars, lowVars>>

setReady ==
  /\ main = "ready" /\ ~Locked
  /\ etat' = "READY_TO_GO" /\ main' = "set"
  /\ UNCHANGED <<travel, sent, path, guardVars, sensorVars, linkVars, lowVars>>

setMoving ==
  /\ main = "set" /\ ~Locked
  /\ etat' = "MOVING" /\ main' = "follow"
  /\ UNCHANGED <<travel, sent, path, guardVars, sensorVars, linkVars, lowVars>>

followTrajectory ==
  /\ main = "follow" /\ main' = "await" /\ Order("FOLLOW_TRAJECTORY")
  /\ UNCHANGED <<travel, sent, path, etat, guardVars, sensorVars, lowVars>>

\* The end of followTrajectory(): the answer, then path = null and the state, both
\* without the monitor.
TravelEnds ==
  /\ main = "await" /\ answered /\ main' = "standby" /\ path' = None
  /\ UNCHANGED <<travel, sent, etat, guardVars, sensorVars, linkVars, lowVars>>

Standby ==
  /\ main = "standby" /\ main' = "plan" /\ etat' = "STANDBY"
  /\ UNCHANGED <<travel, sent, path, guardVars, sensorVars, linkVars, lowVars>>

-----------------------------------------------------------------------------
(* ThreadCollisionDegrade                                                  *)

needCollisionCheck == etat = "MOVING"

GuardSees ==
  /\ guard = "sleep" /\ needCollisionCheck /\ guard' = "fetch"
  /\ UNCHANGED <<seen, mainVars, etat, sensorVars, linkVars, lowVars>>

getPath ==
  /\ guard = "fetch" /\ guard' = "memorise" /\ seen' = path
  /\ UNCHANGED <<mainVars, etat, sensorVars, linkVars, lowVars>>

\* The loop on the points throws when the path is null: the thread ends.
Memorise ==
  /\ guard = "memorise"
  /\ IF seen = None THEN guard' = "dead" /\ newObs' = newObs
                    ELSE guard' = "watch" /\ newObs' = {}
  /\ UNCHANGED <<seen, mainVars, etat, enemy, index, linkVars, lowVars>>

\* Points of path p from index i on that the guard looks at.
Window(p, i) == {k \in i + 1 .. i + Ahead : k <= Len(Routes[p])}
isThereCollision(p, i, obs) == \E k \in Window(p, i) : Routes[p][k] \in obs

\* Mutant: the path is read once and for all.
StalePathMutant ==
  /\ guard = "watch" /\ newObs # {}
  /\ LET checks == needCollisionCheck /\ Window(seen, index) # {}
     IN  /\ newObs' = IF checks THEN {} ELSE newObs
         /\ guard' = IF checks /\ isThereCollision(seen, index, newObs) THEN "stop" ELSE "watch"
  /\ UNCHANGED <<seen, mainVars, etat, enemy, index, linkVars, lowVars>>

\* The obstacles are forgotten once they are checked, whatever path is in memory.
CheckCollision ==
  /\ guard = "watch" /\ newObs # {}
  /\ LET checks == needCollisionCheck /\ Window(seen, index) # {}
     IN  /\ newObs' = IF checks THEN {} ELSE newObs
         /\ guard' = IF checks /\ isThereCollision(seen, index, newObs) THEN "stop" ELSE "sleep"
  /\ UNCHANGED <<seen, mainVars, etat, enemy, index, linkVars, lowVars>>

setStopping ==
  /\ guard = "stop" /\ guard' = "immobilise" /\ etat' = "STOPPING"
  /\ UNCHANGED <<seen, mainVars, sensorVars, linkVars, lowVars>>

\* Mutant: no second stop is sent while one waits for its answer.
OneStopMutant ==
  /\ guard = "immobilise" /\ stops < Stops
  /\ guard' = "sleep" /\ stops' = IF stop = "idle" THEN stops + 1 ELSE stops
  /\ UNCHANGED <<seen, mainVars, etat, sensorVars, queued, stop, wire, answered, lowVars>>

immobilise ==
  /\ guard = "immobilise" /\ stops < Stops
  /\ guard' = "sleep" /\ stops' = stops + 1
  /\ UNCHANGED <<seen, mainVars, etat, sensorVars, queued, stop, wire, answered, lowVars>>

-----------------------------------------------------------------------------
(* ThreadCommEmitter and ThreadCommProcess                                 *)

SendStop ==
  /\ stops > 0 /\ stop = "idle"
  /\ stops' = stops - 1 /\ stop' = "sent" /\ wire' = Append(wire, "STOP")
  /\ UNCHANGED <<mainVars, etat, guardVars, sensorVars, queued, answered, lowVars>>

\* A stop goes first unless it has to wait for the answer of the previous one.
SendOrder ==
  /\ queued # "none" /\ (stops = 0 \/ stop # "idle")
  /\ queued' = "none" /\ wire' = Append(wire, queued)
  /\ UNCHANGED <<mainVars, etat, guardVars, sensorVars, stops, stop, answered, lowVars>>

StopAnswered ==
  /\ stop = "answered" /\ stop' = "idle"
  /\ UNCHANGED <<mainVars, etat, guardVars, sensorVars, queued, stops, wire, answered, lowVars>>

\* A frame of sensors: the index of the low level, then the obstacle the sensors see,
\* if they see it at all.
setCurrentTrajectoryIndex ==
  /\ index' = (IF at = 0 THEN 0 ELSE at - 1)
  /\ UNCHANGED <<mainVars, etat, guardVars, newObs, enemy, linkVars, lowVars>>

ObstacleSeen ==
  /\ newObs' = newObs \cup {enemy}
  /\ UNCHANGED <<mainVars, etat, guardVars, enemy, index, linkVars, lowVars>>

EnemyMoves ==
  /\ enemy' \in Places
  /\ UNCHANGED <<mainVars, etat, guardVars, newObs, index, linkVars, lowVars>>

-----------------------------------------------------------------------------
(* The low level master                                                    *)

Received(o) ==
  /\ wire # <<>> /\ Head(wire) = o /\ wire' = Tail(wire)
  /\ UNCHANGED <<mainVars, etat, guardVars, sensorVars, queued, stops>>

DestroyPoints ==
  /\ Received("DESTROY_POINTS") /\ points' = 0 /\ answered' = TRUE
  /\ UNCHANGED <<stop, at, drive, follow>>

\* Every frame is full, the last one but perhaps.
AddPoints ==
  /\ Received("ADD_POINTS") /\ answered' = TRUE
  /\ points' = points + 1 + ((sent - 1) % Frame)
  /\ UNCHANGED <<stop, at, drive, follow>>

\* An empty trajectory ends the travel at once.  The points of another one were added
\* in an earlier round of the loop, that has answered a stop that was over.
FollowTrajectory ==
  /\ Received("FOLLOW_TRAJECTORY") /\ follow' = TRUE
  /\ points = 0 \/ ~(stop = "running" /\ drive = "still")
  /\ drive' = (IF points = 0 THEN "still" ELSE "driving")
  /\ at' = (IF points = 0 THEN 0 ELSE 1)
  /\ UNCHANGED <<stop, answered, points>>

\* Mutant: the trajectory is not cleared, the robot drives on.
NoBrakeMutant ==
  /\ Received("STOP") /\ stop' = "running"
  /\ UNCHANGED <<answered, points, at, drive, follow>>

\* Mutant: the index is not reset.
KeptIndexMutant ==
  /\ Received("STOP") /\ stop' = "running"
  /\ points' = 0 /\ drive' = (IF drive = "driving" THEN "braking" ELSE drive)
  /\ UNCHANGED <<answered, at, follow>>

\* stop_and_clear_trajectory()
Stop ==
  /\ Received("STOP") /\ stop' = "running"
  /\ points' = 0 /\ at' = 0 /\ drive' = (IF drive = "driving" THEN "braking" ELSE drive)
  /\ UNCHANGED <<answered, follow>>

NextPoint ==
  /\ drive = "driving" /\ at < points /\ at' = at + 1
  /\ UNCHANGED <<mainVars, etat, guardVars, sensorVars, linkVars, points, drive, follow>>

\* The end of the trajectory, or any error of MotionControl.
Arrived ==
  /\ drive = "driving" /\ drive' = "still" /\ points' = 0 /\ at' = 0
  /\ UNCHANGED <<mainVars, etat, guardVars, sensorVars, linkVars, follow>>

Braked ==
  /\ drive = "braking" /\ drive' = "still"
  /\ UNCHANGED <<mainVars, etat, guardVars, sensorVars, linkVars, points, at, follow>>

\* onExecute() of FOLLOW_TRAJECTORY and STOP: both end when the robot does not travel.
FollowEnds ==
  /\ follow /\ drive = "still" /\ follow' = FALSE /\ answered' = TRUE
  /\ UNCHANGED <<mainVars, etat, guardVars, sensorVars, queued, stops, stop, wire, points, at, drive>>

StopEnds ==
  /\ stop = "running" /\ drive = "still" /\ stop' = "answered"
  /\ UNCHANGED <<mainVars, etat, guardVars, sensorVars, queued, stops, wire, answered, lowVars>>

-----------------------------------------------------------------------------
Main == Plan \/ SendPoints \/ PointsSent \/ setReady \/ setMoving \/ followTrajectory
        \/ TravelEnds \/ Standby
Guard == GuardSees \/ getPath \/ Memorise \/ CheckCollision \/ setStopping \/ immobilise
Link == SendStop \/ SendOrder \/ StopAnswered
Sensors == setCurrentTrajectoryIndex \/ ObstacleSeen \/ EnemyMoves
Orders == DestroyPoints \/ AddPoints \/ FollowTrajectory \/ Stop
Low == Orders \/ NextPoint \/ Arrived \/ Braked \/ FollowEnds \/ StopEnds

Next == Main \/ Guard \/ Link \/ Sensors \/ Low

Spec == Init /\ [][Next]_vars

\* The threads run, the sensors are read, the low level serves its orders and brakes;
\* how long the robot takes to travel is left open: it may stay at a point.
Fairness ==
  /\ WF_vars(Main) /\ WF_vars(Guard) /\ WF_vars(SendStop) /\ WF_vars(SendOrder)
  /\ WF_vars(StopAnswered) /\ WF_vars(ObstacleSeen) /\ WF_vars(Orders)
  /\ WF_vars(Braked) /\ WF_vars(FollowEnds) /\ WF_vars(StopEnds)

FairSpec == Spec /\ Fairness

-----------------------------------------------------------------------------
TypeOK ==
  /\ main \in {"plan", "send", "ready", "set", "follow", "await", "standby"}
  /\ travel \in Travels \cup {0} /\ (main # "plan" => travel \in Travels)
  /\ sent \in Nat
  /\ etat \in {"STANDBY", "READY_TO_GO", "STOPPING", "MOVING"}
  /\ path \in Travels \cup {None} /\ seen \in Travels \cup {None}
  /\ guard \in {"sleep", "fetch", "memorise", "watch", "stop", "immobilise", "dead"}
  /\ (guard = "watch" => seen # None)
  /\ newObs \subseteq Places /\ enemy \in Places /\ index \in Nat
  /\ queued \in {"none", "DESTROY_POINTS", "ADD_POINTS", "FOLLOW_TRAJECTORY"}
  /\ stops \in 0 .. Stops /\ stop \in {"idle", "sent", "running", "answered"}
  /\ wire \in Seq({"DESTROY_POINTS", "ADD_POINTS", "FOLLOW_TRAJECTORY", "STOP"})
  /\ answered \in BOOLEAN /\ follow \in BOOLEAN
  /\ points \in Nat /\ at \in Nat
  /\ drive \in {"still", "driving", "braking"}

(***************************************************************************)
(* Properties.                                                             *)
(***************************************************************************)

\* The low level never looks past its trajectory, and drives nowhere without one: no stop
\* and no order of the next travel takes away the points under a travel that goes on.
IndexInTrajectory == at <= points /\ (drive = "driving" <=> at > 0)

\* The assertion of followTrajectory(): a late stop of the guard never gets between
\* setReady() and setMoving(), that would start a travel in the state STOPPING.
ReadyToMove == main = "set" => etat = "READY_TO_GO"

\* The assertion of setReady(), the travel before has ended.
StandbyWhenReady == main = "ready" /\ ~Locked => etat = "STANDBY"

\* The assertion of getPath().
MovingWhenFetched == guard = "fetch" => etat \in {"READY_TO_GO", "MOVING"}

\* The robot never drives on while the guard looks away: when it moves and the state is
\* not MOVING, a stop is about to be ordered, waits to be sent or is on its way.
NeverBlind ==
  drive = "driving" /\ ~needCollisionCheck =>
    guard = "immobilise" \/ stops > 0 \/ stop = "sent"

\* A travel the guard stops ends, and the main thread goes back to STANDBY.
StopEndsTravel == etat = "STOPPING" /\ main = "await" ~> etat = "STANDBY"

\* As long as the guard lives, an enemy that stays ahead on the path stops the robot:
\* a path left in memory from the travel before delays the stop and never prevents it.
Threatened ==
  main = "await" /\ needCollisionCheck /\ isThereCollision(travel, index, {enemy})
EnemyStops == []<>(~Threatened \/ guard = "dead")

=============================================================================
