# Verification of camion-grue

This directory holds TLA+ models of the control software of the robot of INTech Senpai, the
configurations TLC checks on small instances, and theorems TLAPS proves for every value of the
constants. It lists the parts of the program, which are modelled and how, what each
run shows, what is proved and how, and what remains.

Check a model with `tlc -config X.cfg M`, the proofs of a module with `tlapm M.tla`.

## 1. The system

Three boards and a Raspberry Pi. The high level program (Java, `src/high_level`) plans the match;
it sends orders over TCP to the low level master (Teensy, C++, `src/low_level/lowlevel_master`), which
follows trajectories in a timer interrupt and drives two slave boards over serial links: the arm
(`lowlevel_actuator`) and the sensors and lights (`lowlevel_sensor`).

    Match, scripts ── Robot ──┬── OutgoingOrderBuffer ── ThreadCommEmitter ──┐
         main thread          │                                             TCP
    ThreadCollisionDegrade ───┘                                              │
    ThreadTourelles, ThreadCapteurs ── buffers ── ThreadCommProcess ── ThreadCommListener
                                                                             │
    CommunicationServer ── OrderMgr ──┬── OrderImmediate ── MotionControlSystem   (main loop)
                                      └── OrderLong, stack      │
                                                           TrajectoryFollower     (1 kHz interrupt)
    SlaveActuator, SlaveSensorLed ── slave boards: SmartArmController, LightsMgr, sensors

| Component | State | Operations | Shares it with | Correct when |
|---|---|---|---|---|
| Trajectory following (`MotionControlSystem`, `TrajectoryFollower`) | phase and flags of the move, vector of points, index, complete flag, two travelling flags, control level | the interrupt `control()`; APPEND, EDIT, DELETE, FOLLOW, STOP, control level, manual move | interrupt and main loop, orders | success is answered only by a robot that stands at an end of trajectory; no error is forgotten; every travel ends; the index stays in the vector |
| Order execution (`OrderMgr`, `OrderLong`, `OrderImmediate`) | stack of 16 long orders, singletons with their own progress | receive, launch, poll, answer | main loop; many clients | a singleton is never launched under itself, and no order is dropped |
| Order sending (`OutgoingOrderBuffer`, `CommProtocol.Id`, `Ticket`, three threads) | priority queue, two flags and a ticket for each identifier | take or put back, write, receive, hand over, wait | four threads and more | one launch for each request, one answer for each launch, given to the call it belongs to; calls return |
| Travels and collision (`Robot`, `ThreadCollisionDegrade`) | `etat`, `path`, index; the path in memory of the guard; new obstacles | `goTo`, `avance`, `followTrajectory`; the loop of the guard | main thread, guard, sensors, order queue | a threatened robot is stopped; a stopped travel ends; states follow each other in order |
| Cubes and score (`Robot.execute`, `poseCubes`, `storeCube`, `Table`) | cube in the gripper, cubes stored, piles, score | take, store, put, retry on error; strike off a cube the robot stands on | main thread, arm, sensor thread (the table) | the program knows what the arm holds; the score counts piles that exist |
| Match and scripts | list of scripts, what is done | run, fail, retry | main thread; the table is shared with the sensor thread | every script ends, nothing is done twice |
| Sensors, static correction | buffers, lists of measures, obstacles | measure, correct | sensor thread, script | a correction uses its own measures |
| Connection media | socket or serial port | open, read, write, close | three threads | a broken connection is noticed |
| Communication server (master) | ring of commands, subscriptions, two vectors of traces | receive, pop, answer, trace | main loop, interrupt, clients | no command is lost or given to another client |
| Slave links, arm | sent, acknowledged, moving lock; step counters and status | command, report, stop, time out | main loop, serial links | a finished order means a finished movement |
| Sensor board, lights (`lowlevel_sensor`, `ContextualLightning`, `SlaveSensorLed`) | addresses of the sensors on one bus, mode of the lights, the lights; what the master last sent and received | start one after the other, measure, report; a mode for each light that changes | main loops, serial line, orders | the boards start; a measure comes from its own sensor, a dead sensor is reported; the lights show what is called for |
| Direction, odometry, drivers, tools | see section 6 | | | |

What is hard in this code: the interrupt strikes between any two steps of an order; `Robot` is
half synchronized; the emergency stop overtakes other orders; the end of the match stops one
thread while others still wait for it; boards lose messages and time out. `PROJECT.json` lists each hazard with
its line and the properties that cover it.

## 2. Plan

1. `MotionControl` with its proofs: a robot that misreports its travel ruins everything above. Done.
2. `OrderLink`, which implements `OrderService`, with its proofs. Done.
3. `CollisionGuard` with its proofs: it takes from 1 how travels and stops end and from 2 how a stop overtakes.
   Done.
4. `ArmLink` over `SmartArm`: the long orders of the arm, over a link that loses frames, down to the steps of each
   command. It discharges what 2 assumes of those orders: each ends. Done.
5. `MatchScripts` over `Cubes`: the plan of the match, its scripts, the retries of `Robot.execute`, the cubes. It
   takes from 4 that an order of the arm is answered, with or without an error. With its proofs. Done.
6. `CommServer`, which implements `CommandService`: reception of several clients, the ring of commands, the double
   buffer of traces, with the proof of the traces. Done.
7. Proofs of what the first six checked: `AnswerExpected` and `FreshAnswer` of 2; the types, `NeverIgnored` and
   `OkMeansDone` of 4; the types, the frames and the ring of 6. Done.
8. `Boards` over `Lights`: how the boards start one another, the sensors on their bus, the lights, with the proof of
   the sensors and of the lights. Done.
9. Next: the turret thread and the start by jumper as extensions of `CollisionGuard`, the bounded buffers of the
   sensors, steering.

Runs are merged, one per module and question, so that the whole stays quick to check.

## 3. Modules

### MotionControl (and MCMotion, MotionControlProofs)

Two actors. `Tick` is one timer interrupt: the follower first (`steady` or an event: `manageStop`, `manageBlocking`,
`checkPosition`, `leaveMoveInit`), then one branch of `MotionControlSystem::control()`; the branches of `Travel` are
exclusive, as the nested tests of the code are. The main loop is in `pc`: an order is split wherever the interrupt
may strike and find a difference, that is between the tests made with the interrupts on and the blocks between
`noInterrupts()` and `interrupts()`. APPEND is `Append_`, then `AddTest`, `AddPush`, `AddEnd` for each point, or
`Abort`. EDIT and DELETE are the test of the bound, the two reads of `trajectoryIndex` and the write, a step each: the
interrupt may cross a point between `index >= trajectoryIndex` (`EditIndex`, `DeleteIndex`) and
`index == trajectoryIndex && travellingToDestination` (`EditCurrent`, `DeleteCurrent`), and then both let through an
order at the point just passed. `IsCurrent` is one step although it reads two variables: a tick between them
that crosses a point leaves `index` behind, so the outcome is that of the tick before or after both reads.

Abstractions. A point is its two flags. A distance to drive is a number of points, `Infinite` without a stop
point ahead. The set of flags of `status` is the or of the error bits; the empty set is MOVE_OK. `DeleteErase` leaves
`size = at` even after the interrupt has cleared the vector: `erase(begin + index, end)` with `begin + index`
beyond `end` is undefined, and libstdc++ moves `end` up to it. `EditOutOfRange` is the other such race: `at()` throws
and the handler of the firmware loops for ever with the interrupts off. `Edit` starts on a
frame whose size the code accepts; the layout of that frame (an index of four bytes over the first point) is not
modelled. The odometry, the PIDs and the wheels are the environment: they only
decide which event of the follower happens.

`HighLevel = TRUE` restricts clients to what the high level program does: no debug orders, deletions from 0, and no
deletion and no new trajectory while a FOLLOW_TRAJECTORY waits (`ClientMay`): `Robot.followTrajectory` waits for its
answer before the trajectory is destroyed or another sent. A wait the end of the match interrupts may be
followed by a DELETE, which comes after `ChronoEnds` has cleared the vector and finds nothing to erase. STOP and the
end of the match come at any time. The discipline matters: a DELETE(0) sent during a travel passes both reads when a
point is crossed between them, and erases the trajectory under a robot that moves. `motion_free` has that behaviour,
and what is checked there holds in spite of it; `AtRest`, `LostMeansBraking`, `Aimed` and `OkMeansArrived` are
promises to the high level program alone, and without the wait (`DeleteMutant`) all four fail.

### OrderLink, OrderService (and MCLink, OrderLinkProofs)

An order is its identifier. `Take`, `Refuse`, `PutBack`, `orderSent`, `communiquer` are the emitter, split at each
access to what it shares; `PutBack` puts an order that must wait back behind the head of its queue, as the code
does. `handleNewCommand` and `executeStackedOrder` are the low level: an immediate order is answered at once, a long
one takes a free slot until it ends; the one that finds no slot is dropped. `answerReceived` is the listener,
`ProcessAnswer` and `ProcessEnd` the processing thread, which sleeps for ever once START_MATCH_CHRONO has ended,
after it has interrupted the main thread. `Call`, `attendStatus`, `TryAgain`, `Interrupted`, `destructor` are the
main thread, `Post` all threads that send without waiting. The program starts in the call of PING (`Senpai.java`),
which `TryAgain` repeats after each timeout; nothing else is sent before it is answered. Orders on the connection
are counted per identifier: their relative order is used by nothing here (`CollisionGuard` keeps it). The connection
holds: TCP neither loses nor repeats, and the code never opens a connection again that the other end closed.

`OrderService` is the promise for long orders: each request is launched once, an order is not launched again before
the answer of its last launch is back, and each launch has one answer. `ServesOrders` is the refinement: `asked`
counts requests from the queue to the connection, `life` is read off the stack and the answers on the connection.

### CollisionGuard (and MCGuard, CollisionGuardProofs)

The main thread makes travels in order (`Plan` to `Standby`); `Locked` is the monitor of the robot, which `setReady`
and `setMoving` take and the end of a travel (`TravelEnds`, `Standby`) does not. The guard is
`ThreadCollisionDegrade`, split where it leaves the monitor: it sees MOVING, gets the path, computes its outline,
waits for an obstacle, checks, orders a stop. An obstacle is a place; it collides with the points that are at that
place within `Ahead` of the index. The queue, the connection and the state of STOP are what `OrderLink` says of
them; the low level is what `MotionControl` says: a STOP clears the trajectory and brakes, both long orders end when
the robot is still, an empty trajectory ends at once. The index reaches the high level late, when a frame of sensors
comes, and an obstacle may be seen or missed.

Left out: the interruption at the end of the match inside a travel (its effect on answers is in `OrderLink`), the
start of the match by jumper, the turret thread, and the positions of the points: a trajectory is how many it has.

### SmartArm, ArmLink (and MCArm, ArmLinkProofs)

`SmartArm` is the board of the arm. A command is a sequence of instructions, one for each case of its switch, in
`Program`: aim the arm, wait for the end of the move, sweep and scan with the sensor, check the arguments, end. The
main loop is `Control`, `Step` (one case of the switch) and what handles the frame received; it is cut there because
the timer interrupt (`MotorBlocked`, `EndOfMove`, `MoveTimeout`) may end the move or raise a fault between the
lines. `TimerExpires` is the time limit of a command: it stops the command, and not the arm. In manual mode nothing
moves by itself, and only that timer ends the command. `fate` is a history variable: what became of the last
command.

`ArmLink` adds the master: a long order of the arm sends its command, waits for the acknowledgement (`AckListen`,
`AckReceived` or `AckTimeout`), then polls the status it believes (`Turn`) behind a lock of 100 ms. The two serial
lines are queues. `Lose` loses a frame, `Button` is somebody who presses STOP or RESET on the arm, `EndOfMatch` is
`StartChrono.terminate()`, which stops the arm in the middle of an order. The board acknowledges every well-formed
command, also one `executeCommand` refuses because another runs: that this never happens is `NeverIgnored`, which
rests on the lock. `ackReceived` is set once and never cleared, so that a command lost later is believed
acknowledged, and answered as done when the lock expires: the model has this, and `OkMeansDone` is stated without
loss.

Abstractions: positions and sensors' values (any), the flags of a status but one (`FAIL` stands for all the board
raises), the layout of frames. Assumed: the lock is longer than a round trip (guard of `LockExpires`), and an
acknowledgement times out only when none is to come.

`OkMeansDone` allows one exception the code has: step 12 of `take_cube` aims again, and aiming erases the faults
raised before, so that `TAKE_CUBE_SMART` may answer without an error after one.

### Cubes, MatchScripts (and MCMatch, CubesProofs, MatchScriptsProofs)

`Cubes` holds the table: the five places of a cross, the faces of a cube, and which face of which cube can be
attacked (`isFacePossible`, `getAllPossible`), as pure operators. `Checked` are the neighbours the code looks at;
`InTheWay` is an independent definition, from the drawing: everything in the width of the arm on its way in.

`MatchScripts` is the main thread, and the sensor thread where it shares the table. `Plan` is `Match.exec()` as a
list of entries: scripts, searches for cubes, and `again`, the loop. `doScript`, `NotDone`, `Search`, `NoMoreCubes`,
`Again` move through it. For each cube of the queue the main thread tests `faisable` and sets out (`SetOut`) or not
(`SkipCube`), travels (`goal` is the cube it is on its way to), and then `run()` marks the cube done (`TakeCube`),
or the travel fails (`NotReached`). Meanwhile `updateObstaclesMobiles`, on the sensor thread, strikes off cubes the
outline of the robot touches, at any time: one that is struck off before the test is skipped, one that is struck off
during the travel is taken all the same, and counted once (`Known`). `Touchable` bounds the cubes this may happen
to. A script is its orders and measures; `line` is what it waits for, and `Answered` gives it any code the order may
get. `execute()` ignores `AX12_ERR`, repeats `MOVE_TIMED_OUT` (`Retry`), and throws the rest; each script catches
what the code catches: `poseCubes` swallows errors in its dangling `else`, `ScriptDeposeCube` tries again, `finally`
clauses move the robot and may throw in turn, `Script.execute` puts the arm away (`rescue`). Static corrections are
`enabled` sides, and `dirty` those with a measure older than the last move.

Left out: the colours in the robot and the score, approach points and the choice among possible cubes (any), where
the robot is (any touchable cube may be under it), the time left but for the cube it makes `SkipCube` leave out. A
search looks at the table at one moment: a cube struck off during it only makes others possible. The end of the
match is a behaviour that stops.

What the model shows the code to do, and no document forbids: with the pile full and something left to do, the next
deposit indexes `longueurGrue` beyond its end (`IndexError`) and the main thread ends in an exception, so that the
loop only ends by itself if the pile fills at the second deposit of a round; the button of the panel is pushed again
after it worked; `AX12_ERR` counts as placed a cube that may not be; an exception between the start and the end of a
correction leaves it on, and the next one uses measures taken on the way (`cut`). The drawing in `ScriptManager`
says the cube A is looked at; `p3` is the cube itself where there is no neighbour.

### CommandService, CommServer (and MCServer, CommServerProofs)

`CommServer` is `communicate()`, cut where a client, the network or the interrupt may act: accept, one byte of one
source at a time (`Receive`), the exchange of the two vectors (`Swap`), `SendTraces`, the clear and the
disconnections (`EndOfCommunicate`), and `getLastCommand` until the ring is empty. A frame on the wire is its bytes
and, for the properties only, the command its sender meant; `AfterByte` is `addByte`, on the bytes. A connection may
be cut between two bytes (`Close`). The 500 us limit of the reception is a free choice at the end of each pass.
`asynchronous_trace` may happen between any two steps.

`CommandService` is the promise: commands of a source are executed once and in order, each in the end, except those
that were cut off, and those refused for want of room, which needs every other source to have one waiting. Reception
tests the room once per pass and a pass may complete one command per source, so that of five at once the fifth is
dropped. The promise ends for a socket cut within a frame (`clean`): nobody resets its handler, and the first frames
of the next client there are read as the end of the old one. Two properties state on the ring itself what the
promise rests on: `FramesRead`, that a handler never cut is where its sender is, whatever the bytes of the data look
like, and `RefusesLast`, that only the serial line, polled last, is ever refused. A command carries the number of
its socket: after a reconnection the answer goes to the new client; this is not a property.

### Lights, Boards (and MCBoards, BoardsProofs)

`Lights` is the seven lights of the robot and the sets of bits of their mode, as pure operators: `setLightningMode`,
the wave of the four flashing lights (`propagate`), `infoSignalOn`. A light is off, on, or blinks with a period;
what its PWM and its clock do in between is left out.

`Boards` is three loops. The arm tries its two sensors up to ten times each (`ArmInit`) and then runs, or stays in
its error loop. The master waits for a report of the arm (`WakeBoard`), sends one mode to wake the sensor board,
waits for its report (`EnterLoop`), and enters its loop: it listens (`MasterListen`), and orders and movement change
the lights (`ContextualUpdate`, `WaitForJumper`, `EndOfMatch`). A frame per light that changes goes into a queue,
`line`; one that finds it full is lost, as bytes are in the reception buffer of the board. The sensor board waits
for a mode (`BoardWait`, `BootUp`), starts its sensors one by one (`SensorsInit`), shows a failure (`EndOfInit`,
`EndOfAlarm`), and goes round `Light`, `Measure`, `Report`.

The sensors are on one bus. `device` is the address a sensor answers to, `address` what its driver calls:
`setAddress` reaches everyone who answers to the old address and may be lost on the way, a read succeeds when anyone
answers. `initialized` is read by the constructor before it is set (`ToF_shortRange.h:90`), which is undefined:
`Init` has each sensor on or off. The history variable `strays` says whether a sensor was on too early, and whether
an address got lost after that.

What the model shows, and no document forbids: one stray sensor or a lost address is harmless, since the next sensor
takes over all that answer to the old address or fails; both at once may give a measure of another sensor
(`OwnMeasure` excludes it). The lights rest on each single frame, since a mode is only sent when it changes: after a
frame that was lost they may be wrong until the next change. At the end of the match both side lights go on by an
order, behind the back of `ContextualLightning`, so that the end of a turn puts out one of them. A sensor of the arm
that fails ten times leaves the master, and so the whole robot, waiting.

## 4. Runs

| Run | Shows | Time |
|---|---|---|
| `motion_hl` | With the high level program as client: success means arrived and still (`OkMeansArrived`), flags are kept (`ErrorsKept`), the copied point is the current one (`Aimed`), a travel lost brakes (`LostMeansBraking`), a robot at rest can start again (`AtRest`), points are refused only behind an end (`CompleteHasEnd`), travels end and are answered (`TravelEnds`, `LongOrdersAnswered`) | 1 min |
| `motion_free` | Any client, debug orders and changes of level included: the index is back at 0 without a travel (`IdleIndex`), and MOVE_OK still means an ended move (`OkMeansEnded`) | 20 s |
| `link_hl` | `OneInFlight`, `AnswerExpected`, `FreshAnswer`, `RoomForLong`, `CallReturns`, `Emitted`, and the refinement `ServesOrders`, from the first PING and its retries to the end of the match | 3 min |
| `link_ping` | Finding: two PING under way break the assertion of `answerReceived` | s |
| `link_end` | Finding: after the end of the match the program may never stop | s |
| `guard` | `IndexInTrajectory`, `ReadyToMove`, `NeverBlind`, and that stopped travels end (`StopEndsTravel`) and enemies stop the robot (`EnemyStops`) | 30 s |
| `guard_ready` | Finding: a stop decided as a travel ends leaves STOPPING behind | s |
| `guard_path` | Finding: the path the guard fetches may be null | s |
| `arm` | `NeverIgnored`, `OkMeansDone`, and every order of the arm is answered (`OrderAnswered`), with a frame lost, a button or the end of the match | 1 min |
| `match` | `CubesAccounted`, `NothingInTheWay`, `StillMeasures`, and every script ends (`ScriptEnds`), whatever fails and whenever the sensor thread strikes off a cube | 2 min |
| `server` | The refinement `ServesCommands` with its liveness, `FramesRead`, `RefusesLast`, and `TracesKept` | 2.5 min |
| `boards` | `LightsFollow`, `OwnMeasure`, and that dead sensors are reported (`DeathReported`) and the boards start (`BoardsStart`) | 1.5 min |

**Bounds.** `motion_hl`: three points of capacity, frames of one or two points with all combinations of flags, level
4. Three points give a current point, a next one and one beyond; two frames meet in one trajectory, and every branch
of `control()` is taken. `motion_free`: two points, single-point frames, levels 2 and 4 (translation without and
with a trajectory); every order is on. `link_*`: FOLLOW_TRAJECTORY (awaited), STOP (posted up to three times, so
that two wait at the head of the queue while a third is under way), START_MATCH_CHRONO, an immediate order: PING,
sent up to twice at a time, or, in `link_end`, one with and one without an answer; three slots, as many as long
orders, the tightest case `StackAssumption` allows. `guard`: three travels, two of them of two frames, the second
through a place the others do not use, so that an outdated path in memory gives another verdict; one point looked at
instead of 13, one point in a frame instead of 11, up to three stops in the queue. `arm`: the two long commands with
a sensor (one looks for a cube, one measures a pile) and the order with a single move, whose instructions are all
those of the nine others; a report is only sent with no other frame on its way up, and two frames down; one
disturbance (a frame lost, a button, the end of the match) until the link is quiet again, then another, so that
several happen in a behaviour but not within one order. `match`: one cross of five cubes, a pattern on three of its
places, all the plan; one retry of `execute()` instead of two, three attempts to put down and two at the button, as
in the code; the sensor thread may strike off the middle cube, a colour of the pattern that others stand in front
of, so that it is struck off before it is possible, in the queue, and on the way to it. `server`: two sockets and
the serial line, a ring of three slots that keeps the relation of the code (one slot less than sockets and serial
line together); a command without data, one whose data is a header byte and a subscription; three events (frames,
traces, at most one cut): three frames fill the ring, wrap it, or overflow it when they complete in one pass.
`boards`: two sensors and one retry, so that a sensor fails, is retried, and meets another at the same address; a
line of two frames and a movement that changes two lights at once, so that the line just holds them, or is full; one
report on its way. Beyond these bounds most safety properties are proved (section 5).

**Deadlock** is checked in `motion_hl`, `guard` and the findings on it. It is not in the `link` runs, where the
program stops at the end, nor in `motion_free`, where `EditOutOfRange` hangs, nor in `match`, where
`exec()` ends or dies. Nor in `boards`, where the arm may give up. It is checked in `arm` and `server`, whose loops
never stop.

**Fairness.** `MotionControl`: `Progress` is weakly fair, as the timer fires every millisecond, a braked wheel stops
and a robot that moves crosses its points or is seen to be blocked; a timer that only ticks steadily is not
progress. `Loop` is weakly fair, as the main loop runs. `FollowExecute` and `StopExecute` are strongly fair: the
loop polls the stack again and again, and another order, however short, may be under way at any one moment.
`OrderLink`: threads are weakly fair step by step, `Take(o)` is strongly fair since an order at the head of the
queue is at the head again and again; every long order terminates, which is `TravelEnds` for the two of
`MotionControl`. No fairness is given to `Post` or `TryAgain`. `CollisionGuard`: threads, orders and braking are
weakly fair; the enemy, the sight of an obstacle that moved, and the time a travel takes are not, except that
sensors read again and again see an enemy that stays. Nothing makes a travel end by itself, so `StopEndsTravel`
rests on the stop alone. `ArmLink`: both loops are weakly fair, an acknowledgement that does not come times out and
the lock expires; `TimerExpires` is strongly fair, as the time limit of a command passes whatever its steps do, and
`SendReport` too, since a report repeated again and again is received. Nothing makes a move of the arm end.
`MatchScripts`: the main thread is weakly fair, since its orders are answered (`OrderAnswered`, `CallReturns`) and
its travels end (`TravelEnds`); the sensor thread is not fair. `CommServer`: the main loop is weakly fair; clients,
network and interrupt are not fair. `Boards`: the three loops are weakly fair, the movement and the match are not.

**Findings.** `link_ping` (a doc disagreement): `CommProtocol.java:216` asserts that an answer is expected; a PING
answered after its 500 ms timeout makes the answer of the second one unexpected. With assertions the listener thread
dies of it. `link_end`: the thread that hands answers over sleeps for ever at the end of the match while a `finally`
clause of a script still asks for one and waits without a timeout; the destructor is never reached. `guard_ready`:
`Robot.followTrajectory` leaves MOVING without the monitor, and a stop decided at that moment marks the next travel
STOPPING, against the assertion of `setReady`. `guard_path`: the same end of travel falls between the guard's two
reads; in a match its thread dies of the null path and nothing watches any more. `EnemyStops` holds up to that
death, and says so.

## 5. Proofs

Safety, for every value of the constants under the named assumptions in the modules (sizes are positive, kinds of
orders are disjoint, no more long orders than slots: the code has 16 and sends 16; the crosses are finitely many).

- `MotionControlProofs`. For any client: `TypeCorrect`, `IdleIndexHolds`, `OkMeansEndedHolds`. For the high level
  program (`ASSUME HighLevel`): `AtRest`, `LostMeansBraking`, `Aimed`, `CompleteHasEnd`, then the action properties
  `OkMeansArrived` and `ErrorsKept`. None is inductive alone: the state of a travel depends on what orders the
  client may have begun. `HighLevelInv` adds `FrameFits` (points to come fit) and `NoRace`, what the client's
  discipline excludes: no edit, no deletion while a FOLLOW_TRAJECTORY waits, no point pushed during a travel, a
  travel that begins only from a phase ENDED. `OutcomeFacts` sums the follower up in one lemma, so that every branch
  of `control()` is proved from the same few facts.
- `OrderLinkProofs`. `OneInFlight` is inductive with the types: each step moves one order by one place.
  `RoomForLong` follows by counting: if no slot were free the slots would hold distinct long orders other than the
  one that arrives, more than the assumption allows. `ServesOrdersHolds` is the refinement: `OnePlace` turns the sum
  of `OneInFlight` into a case distinction, the `Bar` lemmas map each action to a step of `OrderService` or to a
  stutter, `StepBar` assembles them. `AnswerExpected` and `FreshAnswer` follow single orders through the whole link.
  `AnswerInv`: what is under way waits for its answer (`Waits`, for long orders, from `OneInFlight`); an immediate
  order the main thread calls is under way at most once, and only for the call that waits (`Called`), which is why
  neither holds for an order sent again after a timeout: the properties exclude it, and `link_ping` shows it. After
  the end of the match an interrupted call may be made again, so that only long orders are left.
- `CollisionGuardProofs`. `Inv` is inductive with the types. `OneOrder` says that the main thread has at most one
  order between its queue and its answer, and what its place says of the low level; with `MovesToFollow` a robot
  that moves has a FOLLOW_TRAJECTORY unanswered, so that no DESTROY_POINTS or ADD_POINTS meets it
  (`IndexInTrajectory`). `NoStopBetween` is what the monitor guarantees between `setReady` and `setMoving`.
  `StopComes` strengthens `NeverBlind`.
- `ArmLinkProofs`. Two boards and two lines of frames. `OneCommand` says that an order is one command, on its way,
  then running, then over, and what became of it; `Reports`, that a report sent after the command came and saying
  that the arm is still is right; `Believes`, that the master believes the arm moves as long as older reports may be
  on their way, which is what the lock is for. `MoveInv` is the arm alone: between a fault of the interrupt and the
  turn of the loop that finds it. The lemmas `...Facts` sum the steps of the switch up in `Progress`, so that each
  is proved against the link once. `NeverIgnored` is part of the invariant; `OkMeansDone` follows from `Believes` at
  the step that answers. A frame lost, a button and the end of the match end `OneCommand` until the link is quiet
  again (`disturbed`), as in the runs.
- `CubesProofs`. Lemmas on the pure operators: a neighbour stays in its cross, and `TakenChecked`, the heart of it,
  that every place the arm sweeps is looked at by the search, or holds the cube itself. From it `PossibleClear`
  (what is possible is free of obstacles), `PossibleKept` (taking a cube makes no other impossible) and
  `SomethingPossible` (a cross that is not empty has a cube to take: a side by its outer face, or the middle alone).
- `MatchScriptsProofs`. `Inv` is the types and what ties the script to the cubes and to the correction: `Situated`
  (each line of a script is reached in the script that has it), `Carried` (what the robot holds there, and which
  cube it is on its way to), `Retries` and `AttemptsLeft`, `Sides` and `Corrected` (a measure is only dirty when the
  robot has moved during a correction). `AnsweredInv` is the case analysis of the answers of the arm, used by all
  orders. `StillMeasures` follows from `Inv`; `CubesAccounted` from counting, the cubes of finitely many crosses
  being finite: a cube taken goes from the table or the goal to the robot, one struck off leaves the count unless it
  is the goal (`FewerCubes`). `NothingInTheWay` follows from the lemmas of `CubesProofs`, for any table, and from
  `QueuePossible`, that a queue computed earlier is still right about the cubes that are left, whoever removed the
  others.
- `CommServerProofs`. `TraceInv`: the vector the interrupt does not write is empty until the exchange, and sent,
  written and to be written traces together are all traces in order. Only four actions touch them. `InStep`: the
  handler of a source never cut holds exactly the bytes of its first frame that are gone from the wire, so that
  `addByte` finds the length where the sender wrote it (`ReadsFrame`, `FrameOnWire`), and `FramesRead` follows.
  `PassInv`: after n sources a pass has stored at most n commands, and n only if one of each, so that the ring is
  full for the last source alone (`RefusesLast`). `InTurn`: the ring holds at most one command of each source, in
  the order of the sources, so that those of one source are executed as they were sent.
- `BoardsProofs`. `SensorInv` follows the sensors through their start. Without strays (`Named`) a sensor that is on
  was renamed, or missed its name and has since taken the name of a later one; as sensors are called in the order in
  which they were started, the one that goes by a later name gets no answer and is switched off before that name is
  called. With strays and every address received (`Strayed`) the first sensor that starts gives its name to all
  strays, which then fail their own first attempt. `OwnMeasure` needs both halves, and TLC shows that it fails when
  both accidents meet. `LightInv` ties the two ends of the line: the last frame on it, or else the mode the board
  has read, is the one sent last (`SentInv`); a mode read is shown or announced (`Announced`); the differences that
  were sent add up to what is called for (`AddedUp`). `Leads` composes the frames of one look at the movement.
  `DeadForEver` is the safety part of `DeathReported`.

Only model-checked: liveness (`TravelEnds`, `LongOrdersAnswered`, `CallReturns`, `Emitted`, `StopEndsTravel`,
`EnemyStops`, `OrderAnswered`, `ScriptEnds`, `DeathReported`, `BoardsStart`, and the part of `ServesCommands` that
says each command is executed in the end), which rests on fairness and is out of the prover's reach. The safety part
of `ServesCommands` too: its mapping selects the commands of a source in the ring and on the wire (`SelectSeq`), and
what a recursive selection gives for every sequence needs induction over data. `FramesRead`, `RefusesLast` and
`InTurn` are the facts it rests on, proved without it. Every other property of a passing run is a theorem; the type
invariants of `OrderLink`, `CollisionGuard` and `MatchScripts` are theorems and no longer checked by a run.

## 6. Not modelled

- Odometry, PID, motors, encoders, drivers of sensors and servos: floating point and devices, several of them
  third-party.
- The geometry of paths, obstacles and measures; the path finder is an external library (Kraken).
- Connection media, display, configuration, logs, standalone programs, debugging clients: input and output. The
  debugging client appears as the free client of `MotionControl`. That the media never notice a closed connection is
  listed as a hazard.
- Steering of the wheels, the long-range sensors of the arm and the drivers of the sensors beyond their addresses.
- The bounded buffers of the sensors on the Raspberry Pi. The script `ScriptDomotique`, which the match no longer
  uses.
- Within modelled parts: debug setters that write set points past the phases, streams and the content of answers,
  the turret thread, the score, what answers and traces look like and who subscribed to them, increments of the arm,
  the reset of its origin.
- Threads that die in the middle of a list both use (`endStaticCorrection` against the sensor thread), measures of a
  frame buffered before a correction began and processed after, and `getLast`, which waits for ever if the sensor
  thread died.
