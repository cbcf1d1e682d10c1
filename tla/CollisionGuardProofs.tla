------------------------ MODULE CollisionGuardProofs ------------------------
(***************************************************************************)
(* Theorems about CollisionGuard, for any paths, any number of travels,    *)
(* any frame, window and number of stops that wait.                        *)
(***************************************************************************)
EXTENDS CollisionGuard, SequenceTheorems, TLAPS

OrderNames == {"DESTROY_POINTS", "ADD_POINTS", "FOLLOW_TRAJECTORY", "STOP"}
OnWire(S) == \A i \in 1 .. Len(wire) : wire[i] \in S

\* The main thread has one order under way, in one place, and of the kind it waits for.
OneOrder ==
  /\ \A i, j \in 1 .. Len(wire) : wire[i] # "STOP" /\ wire[j] # "STOP" => i = j
  /\ queued # "none" => OnWire({"STOP"}) /\ ~follow /\ ~answered
  /\ ~OnWire({"STOP"}) => ~follow /\ ~answered
  /\ follow => ~answered
  /\ main \in {"plan", "ready", "set", "follow", "standby"} =>
       queued = "none" /\ OnWire({"STOP"}) /\ ~follow
  /\ main = "send" => /\ queued # "FOLLOW_TRAJECTORY" /\ ~follow
                      /\ OnWire({"DESTROY_POINTS", "ADD_POINTS", "STOP"})
  /\ main = "await" => queued \in {"none", "FOLLOW_TRAJECTORY"}
                       /\ OnWire({"FOLLOW_TRAJECTORY", "STOP"})

\* The low level only moves for FOLLOW_TRAJECTORY.
MovesToFollow == drive # "still" => follow

\* A stop that was decided reaches the low level before it drives on.
StopComes ==
  /\ main \in {"follow", "await"} => etat \in {"MOVING", "STOPPING"}
  /\ main \in {"follow", "await"} /\ etat = "STOPPING" =>
       guard = "immobilise" \/ stops > 0 \/ stop = "sent" \/ (points = 0 /\ drive # "driving")

NoStopBetween == guard \in {"stop", "immobilise"} => main # "set"

Inv == OneOrder /\ MovesToFollow /\ IndexInTrajectory /\ ReadyToMove /\ NoStopBetween /\ StopComes

(***************************************************************************)
(* The connection.                                                         *)
(***************************************************************************)
LEMMA Appended ==
  ASSUME NEW w \in Seq(OrderNames), NEW o \in OrderNames
  PROVE  /\ Append(w, o) \in Seq(OrderNames)
         /\ Len(Append(w, o)) = Len(w) + 1 /\ Len(w) \in Nat
         /\ \A i \in 1 .. Len(w) : Append(w, o)[i] = w[i]
         /\ Append(w, o)[Len(w) + 1] = o
BY AppendProperties, LenProperties

LEMMA Consumed ==
  ASSUME NEW w \in Seq(OrderNames), w # <<>>
  PROVE  /\ Head(w) = w[1] /\ Tail(w) \in Seq(OrderNames)
         /\ Len(w) \in Nat /\ Len(w) > 0 /\ Len(Tail(w)) = Len(w) - 1
         /\ \A i \in 1 .. Len(Tail(w)) : Tail(w)[i] = w[i + 1]
<1>1. Head(w) = w[1]
  OBVIOUS
<1>2. Len(w) \in Nat /\ Len(w) > 0
  BY EmptySeq, LenProperties
<1> QED BY <1>1, <1>2, HeadTailProperties

(***************************************************************************)
(* Type correctness.                                                       *)
(***************************************************************************)
LEMMA MainType ==
  ASSUME TypeOK, Main
  PROVE  TypeOK'
<1> USE DEF TypeOK, guardVars, sensorVars, linkVars, lowVars
<1>0. ASSUME NEW o, Order(o)
      PROVE  answered' \in BOOLEAN /\ queued' = o /\ UNCHANGED <<stops, stop, wire>>
  <2>1. answered' \in BOOLEAN
    BY <1>0, Zenon DEF Order
  <2> QED BY <1>0, <2>1 DEF Order
<1>1. CASE Plan
  <2>1. Order("DESTROY_POINTS")
    BY <1>1 DEF Plan
  <2> QED BY <1>0, <1>1, <2>1 DEF Plan
<1>2. CASE SendPoints
  <2>1. Len(Routes[travel]) \in Nat
    <3>1. travel \in 1 .. Len(Routes)
      BY <1>2, RoutesAssumption DEF SendPoints, Travels
    <3>2. Routes[travel] \in Seq(Places)
      BY <3>1, RoutesAssumption
    <3> QED BY <3>2
  <2>2. sent' \in Nat
    BY <1>2, <2>1, SizesAssumption DEF SendPoints
  <2>3. Order("ADD_POINTS")
    BY <1>2 DEF SendPoints
  <2> QED BY <1>0, <1>2, <2>2, <2>3 DEF SendPoints
<1>3. CASE PointsSent
  BY <1>3 DEF PointsSent
<1>4. CASE setReady
  BY <1>4 DEF setReady
<1>5. CASE setMoving
  BY <1>5 DEF setMoving
<1>6. CASE followTrajectory
  <2>1. Order("FOLLOW_TRAJECTORY")
    BY <1>6 DEF followTrajectory
  <2> QED BY <1>0, <1>6, <2>1 DEF followTrajectory
<1>7. CASE TravelEnds
  BY <1>7 DEF TravelEnds
<1>8. CASE Standby
  BY <1>8 DEF Standby
<1> QED BY <1>1, <1>2, <1>3, <1>4, <1>5, <1>6, <1>7, <1>8 DEF Main

LEMMA GuardType ==
  ASSUME TypeOK, Guard
  PROVE  TypeOK'
<1> USE SizesAssumption DEF TypeOK, mainVars, sensorVars, linkVars, lowVars
<1>1. CASE GuardSees
  BY <1>1 DEF GuardSees
<1>2. CASE getPath
  BY <1>2 DEF getPath
<1>3. CASE Memorise
  BY <1>3 DEF Memorise
<1>4. CASE CheckCollision
  BY <1>4 DEF CheckCollision
<1>5. CASE setStopping
  BY <1>5 DEF setStopping
<1>6. CASE immobilise
  BY <1>6 DEF immobilise
<1> QED BY <1>1, <1>2, <1>3, <1>4, <1>5, <1>6 DEF Guard

LEMMA LinkType ==
  ASSUME TypeOK, Link \/ Sensors
  PROVE  TypeOK'
<1> USE SizesAssumption DEF TypeOK, mainVars, guardVars, sensorVars, linkVars, lowVars
<1>1. CASE SendStop
  <2>1. wire' \in Seq(OrderNames)
    BY <1>1, Appended DEF SendStop, OrderNames
  <2> QED BY <1>1, <2>1 DEF SendStop, OrderNames
<1>2. CASE SendOrder
  <2>1. wire' \in Seq(OrderNames)
    BY <1>2, Appended DEF SendOrder, OrderNames
  <2> QED BY <1>2, <2>1 DEF SendOrder, OrderNames
<1>3. CASE StopAnswered
  BY <1>3 DEF StopAnswered
<1>4. CASE Sensors
  BY <1>4 DEF Sensors, setCurrentTrajectoryIndex, ObstacleSeen, EnemyMoves
<1> QED BY <1>1, <1>2, <1>3, <1>4 DEF Link

LEMMA LowType ==
  ASSUME TypeOK, Low
  PROVE  TypeOK'
<1> USE SizesAssumption DEF TypeOK, mainVars, guardVars, sensorVars, linkVars, lowVars
<1>1. CASE Orders
  <2>1. /\ wire' = Tail(wire) /\ wire # <<>>
        /\ UNCHANGED <<mainVars, etat, guardVars, sensorVars, queued, stops>>
    BY <1>1 DEF Orders, DestroyPoints, AddPoints, FollowTrajectory, Stop, Received
  <2>2. wire' \in Seq(OrderNames)
    BY <2>1, Consumed DEF OrderNames
  <2>3. /\ stop' \in {"idle", "sent", "running", "answered"}
        /\ answered' \in BOOLEAN /\ follow' \in BOOLEAN
        /\ points' \in Nat /\ at' \in Nat /\ drive' \in {"still", "driving", "braking"}
    <3>1. CASE DestroyPoints
      BY <3>1 DEF DestroyPoints
    <3>2. CASE AddPoints
      <4>1. (sent - 1) % Frame \in Nat
        BY <1>1
      <4> QED BY <3>2, <4>1 DEF AddPoints
    <3>3. CASE FollowTrajectory
      BY <3>3 DEF FollowTrajectory
    <3>4. CASE Stop
      BY <3>4 DEF Stop
    <3> QED BY <1>1, <3>1, <3>2, <3>3, <3>4 DEF Orders
  <2> QED BY <2>1, <2>2, <2>3 DEF OrderNames
<1>2. CASE NextPoint \/ Arrived \/ Braked
  BY <1>2 DEF NextPoint, Arrived, Braked
<1>3. CASE FollowEnds \/ StopEnds
  <2>1. follow' \in BOOLEAN /\ answered' \in BOOLEAN
    BY <1>3, Zenon DEF FollowEnds, StopEnds
  <2> QED BY <1>3, <2>1 DEF FollowEnds, StopEnds
<1> QED BY <1>1, <1>2, <1>3 DEF Low

\* The type invariant: the counts stay natural numbers, the threads and the low level in
\* the states the code has, and the guard never looks at a path it has not.
THEOREM TypeCorrect == Spec => []TypeOK
<1>1. Init => TypeOK
  <2> SUFFICES ASSUME Init PROVE TypeOK
    OBVIOUS
  <2>1. wire \in Seq(OrderNames)
    BY DEF Init
  <2>2. answered \in BOOLEAN /\ follow \in BOOLEAN
    BY Zenon DEF Init
  <2> QED BY <2>1, <2>2, SizesAssumption DEF Init, TypeOK, OrderNames
<1>2. TypeOK /\ [Next]_vars => TypeOK'
  <2> SUFFICES ASSUME TypeOK, [Next]_vars PROVE TypeOK'
    OBVIOUS
  <2>1. CASE Next
    BY <2>1, MainType, GuardType, LinkType, LowType DEF Next
  <2>2. CASE UNCHANGED vars
    BY <2>2 DEF TypeOK, vars, mainVars, guardVars, sensorVars, linkVars, lowVars
  <2> QED BY <2>1, <2>2
<1> QED BY <1>1, <1>2, PTL DEF Spec

(***************************************************************************)
(* One order of the main thread.                                           *)
(***************************************************************************)
LEMMA OneOrderKept ==
  ASSUME OneOrder, UNCHANGED <<main, queued, wire, answered, follow>>
  PROVE  OneOrder'
BY DEF OneOrder, OnWire

LEMMA OneOrderMain ==
  ASSUME TypeOK, OneOrder, Main
  PROVE  OneOrder'
<1> USE DEF OneOrder, lowVars
<1>1. UNCHANGED <<wire, follow>>
  BY DEF Main, Plan, SendPoints, PointsSent, setReady, setMoving, followTrajectory, TravelEnds,
         Standby, Order, linkVars
<1>2. \A S : OnWire(S)' <=> OnWire(S)
  BY <1>1 DEF OnWire
<1>3. OnWire({"STOP"}) => /\ OnWire({"FOLLOW_TRAJECTORY", "STOP"})
                          /\ OnWire({"DESTROY_POINTS", "ADD_POINTS", "STOP"})
  BY DEF OnWire
<1>4. ASSUME NEW o, Order(o) PROVE queued' = o /\ ~answered'
  BY <1>4, Zenon DEF Order
<1>5. CASE Plan
  <2>1. Order("DESTROY_POINTS") /\ main = "plan" /\ main' = "send"
    BY <1>5 DEF Plan
  <2> QED BY <1>1, <1>2, <1>3, <1>4, <2>1
<1>6. CASE SendPoints
  <2>1. Order("ADD_POINTS") /\ main = "send" /\ main' = "send" /\ answered
    BY <1>6 DEF SendPoints
  <2> QED BY <1>1, <1>2, <1>3, <1>4, <2>1
<1>7. CASE followTrajectory
  <2>1. Order("FOLLOW_TRAJECTORY") /\ main = "follow" /\ main' = "await"
    BY <1>7 DEF followTrajectory
  <2> QED BY <1>1, <1>2, <1>3, <1>4, <2>1
<1>8. CASE PointsSent \/ TravelEnds
  <2>1. answered /\ main' \in {"ready", "standby"} /\ UNCHANGED <<queued, answered>>
    BY <1>8 DEF PointsSent, TravelEnds, linkVars
  <2> QED BY <1>1, <1>2, <2>1
<1>9. CASE setReady \/ setMoving \/ Standby
  <2>1. /\ main \in {"ready", "set", "standby"} /\ main' \in {"set", "follow", "plan"}
        /\ UNCHANGED <<queued, answered>>
    BY <1>9 DEF setReady, setMoving, Standby, linkVars
  <2> QED BY <1>1, <1>2, <2>1
<1> QED BY <1>5, <1>6, <1>7, <1>8, <1>9 DEF Main

LEMMA OneOrderLink ==
  ASSUME TypeOK, OneOrder, Link
  PROVE  OneOrder'
<1> USE DEF OneOrder
<1>1. CASE SendStop
  <2>1. UNCHANGED <<main, queued, answered, follow>> /\ wire' = Append(wire, "STOP")
    BY <1>1 DEF SendStop, mainVars, lowVars
  <2>2. /\ Len(wire') = Len(wire) + 1 /\ Len(wire) \in Nat
        /\ \A i \in 1 .. Len(wire) : wire'[i] = wire[i]
        /\ wire'[Len(wire) + 1] = "STOP"
    BY <2>1, Appended DEF TypeOK, OrderNames
  <2>3. \A S : "STOP" \in S => (OnWire(S)' <=> OnWire(S))
    BY <2>2 DEF OnWire
  <2>4. \A i, j \in 1 .. Len(wire') : wire'[i] # "STOP" /\ wire'[j] # "STOP" => i = j
    BY <2>2
  <2> QED BY <2>1, <2>3, <2>4
<1>2. CASE SendOrder
  <2>1. /\ UNCHANGED <<main, answered, follow>> /\ wire' = Append(wire, queued)
        /\ queued' = "none" /\ queued # "none"
    BY <1>2 DEF SendOrder, mainVars, lowVars
  <2>2. /\ Len(wire') = Len(wire) + 1 /\ Len(wire) \in Nat
        /\ \A i \in 1 .. Len(wire) : wire'[i] = wire[i]
        /\ wire'[Len(wire) + 1] = queued
    BY <2>1, Appended DEF TypeOK, OrderNames
  <2>3. OnWire({"STOP"}) /\ ~follow /\ ~answered /\ queued # "STOP"
    BY <2>1 DEF TypeOK
  <2>4. \A S : "STOP" \in S /\ queued \in S => OnWire(S)'
    BY <2>2, <2>3 DEF OnWire
  <2>5. \A i, j \in 1 .. Len(wire') : wire'[i] # "STOP" /\ wire'[j] # "STOP" => i = j
    BY <2>2, <2>3 DEF OnWire
  <2>6. main \in {"send", "await"}
    BY <2>1 DEF TypeOK
  <2>7. CASE main = "send"
    <3>1. queued \in {"DESTROY_POINTS", "ADD_POINTS"}
      BY <2>1, <2>7 DEF TypeOK
    <3> QED BY <2>1, <2>3, <2>4, <2>5, <2>7, <3>1
  <2>8. CASE main = "await"
    <3>1. queued = "FOLLOW_TRAJECTORY"
      BY <2>1, <2>8
    <3> QED BY <2>1, <2>3, <2>4, <2>5, <2>8, <3>1
  <2> QED BY <2>6, <2>7, <2>8
<1>3. CASE StopAnswered
  BY <1>3, OneOrderKept DEF StopAnswered, mainVars, lowVars
<1> QED BY <1>1, <1>2, <1>3 DEF Link

LEMMA OneOrderLow ==
  ASSUME TypeOK, OneOrder, Low
  PROVE  OneOrder'
<1> USE DEF OneOrder
<1>1. CASE Orders
  <2>1. UNCHANGED <<main, queued>> /\ wire' = Tail(wire) /\ wire # <<>>
    BY <1>1 DEF Orders, DestroyPoints, AddPoints, FollowTrajectory, Stop, Received, mainVars
  <2>2. /\ Head(wire) = wire[1] /\ Len(wire) \in Nat /\ Len(wire) > 0
        /\ Len(wire') = Len(wire) - 1
        /\ \A i \in 1 .. Len(wire') : wire'[i] = wire[i + 1]
    BY <2>1, Consumed DEF TypeOK, OrderNames
  <2>3. \A S : OnWire(S) => OnWire(S)'
    BY <2>2 DEF OnWire
  <2>4. \A i, j \in 1 .. Len(wire') : wire'[i] # "STOP" /\ wire'[j] # "STOP" => i = j
    BY <2>2
  <2>5. CASE Stop
    <3>1. UNCHANGED <<answered, follow>> /\ wire[1] = "STOP"
      BY <2>2, <2>5 DEF Stop, Received
    <3>2. OnWire({"STOP"})' => OnWire({"STOP"})
      <4> SUFFICES ASSUME OnWire({"STOP"})', NEW i \in 1 .. Len(wire) PROVE wire[i] = "STOP"
        BY DEF OnWire
      <4>1. CASE i = 1
        BY <3>1, <4>1
      <4>2. CASE i # 1
        <5>1. i - 1 \in 1 .. Len(wire') /\ wire'[i - 1] = wire[(i - 1) + 1] /\ (i - 1) + 1 = i
          BY <2>2, <4>2
        <5> QED BY <5>1 DEF OnWire
      <4> QED BY <4>1, <4>2
    <3> QED BY <2>1, <2>3, <2>4, <3>1, <3>2
  <2>6. CASE DestroyPoints \/ AddPoints \/ FollowTrajectory
    <3>1. wire[1] \in {"DESTROY_POINTS", "ADD_POINTS", "FOLLOW_TRAJECTORY"}
      BY <2>2, <2>6 DEF DestroyPoints, AddPoints, FollowTrajectory, Received
    <3>2. ~OnWire({"STOP"}) /\ queued = "none" /\ ~follow /\ ~answered
      <4>1. ~OnWire({"STOP"})
        BY <2>2, <3>1 DEF OnWire
      <4> QED BY <4>1
    <3>3. OnWire({"STOP"})'
      BY <2>2, <3>1 DEF OnWire
    <3>4. CASE DestroyPoints \/ AddPoints
      <4>1. ~follow' /\ main \in {"send"}
        <5>1. follow' = follow /\ wire[1] \in {"DESTROY_POINTS", "ADD_POINTS"}
          BY <2>2, <3>4 DEF DestroyPoints, AddPoints, Received
        <5>2. main # "await"
          BY <2>2, <5>1 DEF OnWire
        <5> QED BY <3>2, <5>1, <5>2 DEF TypeOK
      <4> QED BY <2>1, <2>3, <2>4, <3>2, <3>3, <4>1
    <3>5. CASE FollowTrajectory
      <4>1. answered' = answered /\ wire[1] = "FOLLOW_TRAJECTORY"
        BY <2>2, <3>5 DEF FollowTrajectory, Received
      <4>2. main # "send"
        BY <2>2, <4>1 DEF OnWire
      <4>3. main = "await"
        BY <3>2, <4>2 DEF TypeOK
      <4> QED BY <2>1, <2>3, <2>4, <3>2, <3>3, <4>1, <4>3
    <3> QED BY <2>6, <3>4, <3>5
  <2> QED BY <1>1, <2>5, <2>6 DEF Orders
<1>2. CASE FollowEnds
  <2>1. UNCHANGED <<main, queued, wire>> /\ follow /\ ~follow'
    BY <1>2, Zenon DEF FollowEnds, mainVars
  <2>2. queued = "none" /\ OnWire({"STOP"}) /\ OnWire({"STOP"})' /\ main = "await"
    BY <2>1 DEF OnWire, TypeOK
  <2> QED BY <2>1, <2>2 DEF OnWire
<1>3. CASE NextPoint \/ Arrived \/ Braked \/ StopEnds
  BY <1>3, OneOrderKept DEF NextPoint, Arrived, Braked, StopEnds, mainVars, linkVars, lowVars
<1> QED BY <1>1, <1>2, <1>3 DEF Low

LEMMA OneOrderStep ==
  ASSUME TypeOK, OneOrder, [Next]_vars
  PROVE  OneOrder'
<1>1. CASE Guard \/ Sensors \/ UNCHANGED vars
  <2>1. UNCHANGED <<main, queued, wire, answered, follow>>
    BY <1>1 DEF Guard, GuardSees, getPath, Memorise, CheckCollision, setStopping, immobilise,
                Sensors, setCurrentTrajectoryIndex, ObstacleSeen, EnemyMoves, vars, mainVars,
                linkVars, lowVars
  <2> QED BY <2>1, OneOrderKept
<1> QED BY <1>1, OneOrderMain, OneOrderLink, OneOrderLow DEF Next

(***************************************************************************)
(* The travel of the low level.                                            *)
(***************************************************************************)

\* DESTROY_POINTS and ADD_POINTS only arrive when the low level has no travel, and
\* FOLLOW_TRAJECTORY only when the travel before is over.
LEMMA WhatArrives ==
  ASSUME TypeOK, OneOrder
  PROVE  /\ DestroyPoints \/ AddPoints => ~follow /\ main = "send"
         /\ FollowTrajectory => ~follow /\ main = "await"
<1>1. ASSUME DestroyPoints \/ AddPoints \/ FollowTrajectory
      PROVE  /\ Len(wire) \in Nat /\ Len(wire) > 0 /\ wire[1] = Head(wire)
             /\ Head(wire) # "STOP"
  <2>1. wire # <<>> /\ Head(wire) # "STOP"
    BY <1>1 DEF DestroyPoints, AddPoints, FollowTrajectory, Received
  <2> QED BY <2>1, Consumed DEF TypeOK, OrderNames
<1>2. DestroyPoints \/ AddPoints \/ FollowTrajectory => ~follow /\ main \in {"send", "await"}
  BY <1>1 DEF OneOrder, OnWire, TypeOK
<1>3. DestroyPoints \/ AddPoints => main # "await"
  <2>1. DestroyPoints \/ AddPoints => Head(wire) # "FOLLOW_TRAJECTORY"
    BY DEF DestroyPoints, AddPoints, Received
  <2> QED BY <1>1, <2>1 DEF OneOrder, OnWire
<1>4. FollowTrajectory => main # "send"
  <2>1. FollowTrajectory => Head(wire) = "FOLLOW_TRAJECTORY"
    BY DEF FollowTrajectory, Received
  <2> QED BY <1>1, <2>1 DEF OneOrder, OnWire
<1> QED BY <1>2, <1>3, <1>4

LEMMA TravelStep ==
  ASSUME TypeOK, OneOrder, MovesToFollow, IndexInTrajectory, [Next]_vars
  PROVE  MovesToFollow' /\ IndexInTrajectory'
<1> USE DEF MovesToFollow, IndexInTrajectory
<1>0. points \in Nat /\ at \in Nat /\ drive \in {"still", "driving", "braking"}
  BY DEF TypeOK
<1>1. CASE DestroyPoints \/ AddPoints
  <2>1. drive = "still" /\ at = 0
    BY <1>0, <1>1, WhatArrives
  <2>2. UNCHANGED <<at, drive>>
    BY <1>1 DEF DestroyPoints, AddPoints
  <2>3. points' \in Nat
    <3>1. TypeOK'
      BY <1>1, LowType DEF Low, Orders
    <3> QED BY <3>1 DEF TypeOK
  <2> QED BY <2>1, <2>2, <2>3
<1>2. CASE FollowTrajectory
  <2>1. follow'
    BY <1>2, Zenon DEF FollowTrajectory
  <2>2. /\ points' = points /\ at' = IF points = 0 THEN 0 ELSE 1
        /\ drive' = IF points = 0 THEN "still" ELSE "driving"
    BY <1>2 DEF FollowTrajectory
  <2> QED BY <1>0, <2>1, <2>2
<1>3. CASE Stop
  BY <1>0, <1>3 DEF Stop
<1>4. CASE NextPoint \/ Arrived \/ Braked
  BY <1>0, <1>4 DEF NextPoint, Arrived, Braked
<1>5. CASE FollowEnds
  BY <1>0, <1>5 DEF FollowEnds
<1>6. CASE Main \/ Guard \/ Link \/ Sensors \/ StopEnds \/ UNCHANGED vars
  <2>1. UNCHANGED <<points, at, drive, follow>>
    BY <1>6 DEF Main, Plan, SendPoints, PointsSent, setReady, setMoving, followTrajectory,
                TravelEnds, Standby, Guard, GuardSees, getPath, Memorise, CheckCollision,
                setStopping, immobilise, Link, SendStop, SendOrder, StopAnswered, Sensors,
                setCurrentTrajectoryIndex, ObstacleSeen, EnemyMoves, StopEnds, vars, lowVars
  <2> QED BY <2>1
<1> QED BY <1>1, <1>2, <1>3, <1>4, <1>5, <1>6 DEF Next, Low, Orders

(***************************************************************************)
(* The guard and the state of the robot.                                   *)
(***************************************************************************)
LEMMA GuardStep ==
  ASSUME TypeOK, ReadyToMove, NoStopBetween, [Next]_vars
  PROVE  ReadyToMove' /\ NoStopBetween'
<1> USE DEF ReadyToMove, NoStopBetween
<1>1. CASE Plan \/ SendPoints \/ PointsSent \/ setMoving \/ followTrajectory \/ TravelEnds \/ Standby
  <2>1. main' # "set"
    BY <1>1 DEF Plan, SendPoints, PointsSent, setMoving, followTrajectory, TravelEnds, Standby
  <2> QED BY <2>1
<1>2. CASE setReady
  BY <1>2 DEF setReady, Locked, guardVars
<1>3. CASE Guard
  <2>1. UNCHANGED main
    BY <1>3 DEF Guard, GuardSees, getPath, Memorise, CheckCollision, setStopping, immobilise, mainVars
  <2>2. CASE CheckCollision
    BY <2>1, <2>2 DEF CheckCollision, needCollisionCheck
  <2>3. CASE setStopping
    BY <2>1, <2>3 DEF setStopping
  <2>4. CASE GuardSees \/ getPath \/ Memorise \/ immobilise
    BY <2>1, <2>4 DEF GuardSees, getPath, Memorise, immobilise
  <2> QED BY <1>3, <2>2, <2>3, <2>4 DEF Guard
<1>4. CASE Link \/ Sensors \/ Low \/ UNCHANGED vars
  <2>1. UNCHANGED <<main, etat, guard>>
    BY <1>4 DEF Link, SendStop, SendOrder, StopAnswered, Sensors, setCurrentTrajectoryIndex,
                ObstacleSeen, EnemyMoves, Low, Orders, DestroyPoints, AddPoints, FollowTrajectory,
                Stop, Received, NextPoint, Arrived, Braked, FollowEnds, StopEnds, vars, mainVars,
                guardVars
  <2> QED BY <2>1
<1> QED BY <1>1, <1>2, <1>3, <1>4 DEF Next, Main

LEMMA StopComesStep ==
  ASSUME TypeOK, OneOrder, NoStopBetween, StopComes, [Next]_vars
  PROVE  StopComes'
<1> USE DEF StopComes
<1>0. points \in Nat /\ stops \in Nat
  BY SizesAssumption DEF TypeOK
<1>1. CASE Plan \/ SendPoints \/ PointsSent \/ setReady \/ TravelEnds \/ Standby
  <2>1. main' \notin {"follow", "await"}
    BY <1>1 DEF Plan, SendPoints, PointsSent, setReady, TravelEnds, Standby
  <2> QED BY <2>1
<1>2. CASE setMoving
  BY <1>2 DEF setMoving
<1>3. CASE followTrajectory
  BY <1>3 DEF followTrajectory, Order, guardVars, lowVars
<1>4. CASE Guard
  <2>1. UNCHANGED <<main, stop, points, drive>>
    BY <1>4 DEF Guard, GuardSees, getPath, Memorise, CheckCollision, setStopping, immobilise,
                mainVars, linkVars, lowVars
  <2>2. CASE setStopping
    BY <2>1, <2>2 DEF setStopping
  <2>3. CASE immobilise
    BY <1>0, <2>1, <2>3 DEF immobilise
  <2>4. CASE GuardSees \/ getPath \/ Memorise \/ CheckCollision
    BY <2>1, <2>4 DEF GuardSees, getPath, Memorise, CheckCollision, linkVars
  <2> QED BY <1>4, <2>2, <2>3, <2>4 DEF Guard
<1>5. CASE Link
  BY <1>5 DEF Link, SendStop, SendOrder, StopAnswered, mainVars, guardVars, lowVars
<1>6. CASE Sensors \/ UNCHANGED vars
  BY <1>6 DEF Sensors, setCurrentTrajectoryIndex, ObstacleSeen, EnemyMoves, vars, mainVars,
              guardVars, linkVars, lowVars
<1>7. CASE Low
  <2>1. UNCHANGED <<main, etat, guard, stops>>
    BY <1>7 DEF Low, Orders, DestroyPoints, AddPoints, FollowTrajectory, Stop, Received, NextPoint,
                Arrived, Braked, FollowEnds, StopEnds, mainVars, guardVars, linkVars
  <2>2. CASE DestroyPoints \/ AddPoints
    BY <2>1, <2>2, WhatArrives
  <2>3. CASE FollowTrajectory
    BY <2>1, <2>3 DEF FollowTrajectory
  <2>4. CASE Stop
    BY <2>1, <2>4 DEF Stop
  <2>5. CASE NextPoint \/ Arrived \/ Braked \/ FollowEnds \/ StopEnds
    BY <2>1, <2>5 DEF NextPoint, Arrived, Braked, FollowEnds, StopEnds, linkVars, lowVars
  <2> QED BY <1>7, <2>2, <2>3, <2>4, <2>5 DEF Low, Orders
<1> QED BY <1>1, <1>2, <1>3, <1>4, <1>5, <1>6, <1>7 DEF Next, Main

\* The inductive invariant: one order of the main thread at a time, the low level moves
\* for it alone, and a decided stop stands between the robot and its next point.
THEOREM Invariant == Spec => []Inv
<1>1. Init => Inv
  <2> SUFFICES ASSUME Init PROVE Inv
    OBVIOUS
  <2>1. \A S : OnWire(S)
    BY DEF Init, OnWire
  <2>2. ~follow /\ ~answered
    BY Zenon DEF Init
  <2>3. OneOrder
    BY <2>1, <2>2 DEF Init, OneOrder
  <2>4. MovesToFollow /\ IndexInTrajectory /\ ReadyToMove /\ NoStopBetween /\ StopComes
    BY DEF Init, MovesToFollow, IndexInTrajectory, ReadyToMove, NoStopBetween, StopComes
  <2> QED BY <2>3, <2>4 DEF Inv
<1>2. TypeOK /\ Inv /\ [Next]_vars => Inv'
  BY OneOrderStep, TravelStep, GuardStep, StopComesStep DEF Inv
<1> QED BY <1>1, <1>2, TypeCorrect, PTL DEF Spec

\* The trajectory is never taken away under a travel that goes on: what the low level
\* reads at its index is there, whatever the guard and the main thread order.
THEOREM IndexInTrajectoryHolds == Spec => []IndexInTrajectory
BY Invariant, PTL DEF Inv

\* The assertion of followTrajectory() holds: the monitor of the robot keeps a late stop
\* of the guard out of the way from setReady() to setMoving().
THEOREM ReadyToMoveHolds == Spec => []ReadyToMove
BY Invariant, PTL DEF Inv

\* A robot that drives while the guard does not look has a stop ahead of it.
THEOREM NeverBlindHolds == Spec => []NeverBlind
<1>1. TypeOK /\ Inv => NeverBlind
  <2> SUFFICES ASSUME TypeOK, Inv, drive = "driving", etat # "MOVING"
               PROVE  guard = "immobilise" \/ stops > 0 \/ stop = "sent"
    BY DEF NeverBlind, needCollisionCheck
  <2>1. follow
    BY DEF Inv, MovesToFollow
  <2>2. main = "await"
    BY <2>1 DEF Inv, OneOrder, TypeOK
  <2> QED BY <2>2 DEF Inv, StopComes
<1> QED BY <1>1, TypeCorrect, Invariant, PTL

=============================================================================
