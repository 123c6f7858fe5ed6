# Formal models of ad-r1m-ros2

TLA+ specifications of the software of the AD-R1M mobile robot (ROS 2), the TLC
configurations that check them, and theorems checked by TLAPS. Paths below are
relative to `src/`; `rst` stands for
`ad_r1m/doc/explanation/ros2-architecture.rst`.

1. [The system](#1-the-system)
2. [Modules and the code they model](#2-modules-and-the-code-they-model)
3. [Runs](#3-runs)
4. [Fairness](#4-fairness)
5. [Theorems](#5-theorems)
6. [Where code and documentation disagree](#6-where-code-and-documentation-disagree)
7. [Not modelled](#7-not-modelled)
8. [Plan](#8-plan)

To check everything: `tlc -config X.cfg M` for each line of the table of section 3,
`tlapm M.tla` for each module of section 5 for the theorems.

## 1. The system

The robot has two CANopen motor drives behind `diff_drive_controller`, a
velocity multiplexer, a battery management system (BMS) on the same bus, several
cameras, and a number of nodes written in this repository. The nodes
are separate processes (or components of one container) that share nothing but
topics and services; inside a node, concurrency is that of callbacks and threads.

| Component (source) | State it keeps | Operations | Talks to |
|---|---|---|---|
| CRSF teleoperation (`ad_r1m_bringup/scripts/crsf/crsf_node.py`) | state machine init/kill/run, last RC frame, empty-read counter, queue of service calls, "previous stick was static" | poll of the serial line (timer), answer of a service call, battery callback and timer | publishes `killswitch`, `cmd_vel_joy`; calls `<drive>/init`, `<drive>/halt`; reads the radio |
| Keyboard teleoperation (`.../crsf/teleop_keyboard.py`) | state machine of its own, speeds, futures of calls, a copy of the killswitch | keys, synchronous calls with retries, killswitch callback in a second thread | publishes and subscribes to `killswitch`; publishes `cmd_vel_keyboard`; calls the same services |
| Velocity multiplexing (`ad_r1m_bringup/conf/twist_mux.yaml`, external `twist_mux`) | last message and time of each source, the lock | joy 50, nav 30, keyboard 40; lock `killswitch` 255 without time-out | between the two masters, Nav2 and the controller |
| BMS node (`ad_r1m_bringup/scripts/adrd_bms/adrd_bms_node.py`) | the message being filled in, two raw status words, a one-shot timer | object received, timer | subscribes to the CANopen objects, publishes `BatteryState` |
| Point cloud to occupancy grid (`ad_r1m_pointcloud_to_occupancygrid`) | parameters, averages and their count, initial map | cloud, map, parameter change | publishes grids for Nav2 |
| Multi-camera synchroniser (`ad_r1m_perception_cuvslam/src/realsense_image_sync.cpp`) | one buffer of images per topic | image | republishes groups of images for visual SLAM |
| Bird's-eye-view pipeline (`ad_r1m_perception_video`) | frames, mailbox and masks of the segmentation worker, recording queue, sockets | capture threads, worker, writer thread, main loop, publisher process | cameras, ZeroMQ, topics |
| Extrinsic calibration (`ad_r1m_perception_video/ad_r1m_perception_video/utils/extrinsics_calibrator.py`) | level, offset, yaw and homography of four cameras, the last frames | capture threads, keys SPACE, C, q | cameras, the operator |
| Lift and waypoint demo (`ad_r1m_examples/lift_waypoint_demo/scripts`: three commanders, `lift_node.py`, `elevator_server.py`) | waypoint and stage, a call in flight, the pose known, colour and lift of the hardware | goals, service calls, moving backwards, moving on | Nav2 (action and `/goal_pose`), `/amcl_pose`, GPIO and I2C, the multiplexer |
| IMU hardware-in-the-loop demo (`ad_r1m_examples/imu_hil_demo/scripts/imu_hil_controller.py`) and `velocity_control.py` of the lift demo | a velocity with a deadline, each | keys in a thread, control loop (timer); a list of commands | the multiplexer (`imu_hil_demo/config/twist_mux_hil.yaml`) |
| Battery telemetry, status LED, boot scripts, parameter tool, other calibration tools | see section 7 | | |

What is hard, component by component, and what makes it correct:

* **CRSF node.** A kill may come at any moment: from the switch, from the loss of
  the radio link, while a sequence of asynchronous init calls is half sent,
  while a restarted drive owes an answer it will never give. Correct: what it says
  on its topics always agrees with its state; a kill is final unless the switch
  is seen on; a link that dies kills; the queue of calls is one sequence and
  never stops by itself.
* **Keyboard node.** Its calls block, time out, are retried and answered late;
  the killswitch has two writers in two threads, and another master on the
  topic. Correct: `run` means every drive was initialised; outside `run`
  a moving velocity lasts no longer than the halts are called; its copy of the killswitch
  settles on what was last said; its calls end.
* **BMS node.** One message is assembled from objects that come separately,
  in any order, through a bounded queue. Correct: what is published in the end is
  what the BMS said last, and something is published.
* **Point cloud grid.** Parameters are set between clouds, an initial map may come
  late, be of another size, or come from a file; vectors do not all follow the
  size of the grid. Correct: an average is the average of what was seen, nothing
  but setting a size makes the node access a vector past its end.
* **Synchroniser.** Images of several topics come in any order, some are lost, one
  topic runs ahead. Correct: the latest images go out and no older ones, complete groups are published, an
  image goes out on its own topic (it does not, section 6), buffers keep what may still match and no more.
* **Video pipeline.** Five kinds of threads, a mailbox with an event, a bounded queue
  whose consumer must be told to stop, joins, an interrupt at any step, and
  sockets that drop. Correct: no wake-up is lost, a finished recording holds what
  it accepted, a canvas keeps its own masks to the topic through losses and restarts of the publisher, quitting ends.
* **Extrinsic calibration.** Cameras are measured in pairs, each relative to one that may or
  may not have been measured, on two boards that look the same, in an order the operator
  chooses, and any detection may fail. Correct: the view shows the parameters that
  will be used; a measured camera looks where it looks; a camera measured from one that stands right
  stays near its place; the documented procedure puts every camera in its place (it does not, section 6).
* **Lift and waypoint demo.** A commander, a server and Nav2 fail and restart
  independently; calls have no time-out; a goal goes out on two ways, one of which
  displaces the other; poses queue up while nobody spins. Correct: the vehicle
  moves neither back nor to a goal of the commander's action with the lift raised; the lights say what it does; moving back ends near
  the distance asked for; the tour goes on unless an answer is lost.
* **Velocity sources.** The key thread and the control loop share two variables that are written
  in two steps; a program dies without publishing a zero; one source masks another. The yaws by which
  the loop turns the robot may be old. Correct: every nudge and every command ends by itself, a turn ends soon after the yaws known agree,
  and everything ends within the controller's time-out under the killswitch; a nudge renewed in time is not lost.

`PROJECT.json` lists these hazards at the lines where they bite ("hazards"), with the
properties aimed at each.

## 2. Modules and the code they model

`PROJECT.json` ("map") gives the lines of every definition. One action is one
callback where an executor runs callbacks one at a time, and one step between two
points where another thread could see the difference where there are threads.
A definition preceded by "Bug for P" is a plausible mistake in the definition after it;
with it in place of the original the run finds P violated. Those are no part of
the model; they show that the properties depend on the code.

* **`MotorDrives`** (external): the two services of a drive, as the CRSF node uses
  them. Requests are counted, not queued: nothing orders a request to `init` with
  one to `halt`. An init may fail; a driver may restart and forget its requests.
* **`CrsfNode`**: `FastTimer` is `timer_callback` from the read of the line to the
  last publication, `PollBytes` and `PollEmpty` being what the read returns;
  `Control` is the state machine, whose branches of init and kill fall through to
  the branch of run. `EnterKill`, `EnterRun`, `QueueUpServiceCalls` and `ServiceQueueProcess`
  are the methods of those names; `ServiceDone` is the callback of a future. A
  frame is the sign of switch SA and whether the stick is outside its dead zone.
  `raced` is a history variable: the last kill found an init call queued or in flight.
* **`SafetyGate`**: the abstract specification. A gate that opens only with the switch
  on, lets velocities pass only while open and with the switch not off, and when it
  closes says so and stops the robot in one step. `CrsfNode` implements it with
  `armed <- state = "run"`, `motion <- cmd_vel_joy`, `switch <- channels.sa`.
* **`TeleopKeyboard`**: `pc` is the place of `main()`; `Check` and the key actions are
  its loops, `CallService`/`WaitCall`/`CallsDone` are `call_services` with its
  time-outs and attempts, `Verify` the second look at the futures. `KeyR` and `KeyP`
  publish, `Note` is what follows: the background thread (`Receive`) may run in
  between, and again between `Gate` and `UpdateTwist`. A future belongs to the
  last attempt; earlier attempts may still be served. `Quit` is Ctrl-C at a prompt, where it is a key; `Interrupt` is
  the signal anywhere else, whose handler may have shut the context down, so that the program ends without a last velocity.
  `meddled` is a history variable: another publisher came between a publication of the node and its note.
* **`BmsNode`**: `OnCodata`, `TimerElapses`, `Transmit`; two's complement at a width of
  `2 * Half`. Objects that the code treats alike have one representative.
* **`PointCloudGrid`**: `CloudArrives` is the whole of `occupancy_grid_callback` with the chain of
  filters, projection, both averagings and the publication; `ApplyInitialMap`,
  `MapArrives`, `SetParameter` the other callbacks; `GridInit` the constructor with a
  map from a file. A cloud is a set of points with a place and a height; `RadiusOutlier`, `StatisticalOutlier`,
  `PassThrough`, `VoxelGrid` and `ClusterFilter` are the five filters, each of which counts neighbours in what the one before has left.
  `resized` is a history variable. A read past the end of a vector yields either of two values.
* **`ImageSync`**: `SynchronizeImages` is the callback: store, prune, search every
  buffer, publish. `Prune` pops from the front, `Matches` are the images near
  enough, `Group` pairs them with publishers in the order of the map.
* **`VideoPipeline`**: `pc` is the main thread, `worker` the thread of
  `FloorSegmentor`, `thread` the writer of `Display`, `Capture` the capture threads, `Tick` the
  timer of the publisher process, which starts late, ends and is started again (`PublisherStarts`, `PublisherEnds`): what is sent
  while nobody listens, and what is on its way when either end closes its socket (`Disconnect`, `CloseSender`), is lost.
  `Calibrate` is the first frames' calibration of `BEV`, during which keys, captures and interrupts come. Steps end at a lock, an event, a
  queue or a shared attribute. `Interrupt` is Ctrl-C at any step of the loop:
  starting a recording has three of them (`KeyV`, `MakeThread`, `StartThread`), and one that is cut in between makes `Display.stop` raise (`JoinRaises`).
  `SocketOpened` is FALSE in the source: `FramePublisher.__init__` uses `self._sock` and
  never creates it, and every behaviour ends before its first canvas (section 6). `video_threads` sets it
  to TRUE, to check all the code behind it, which is written for a socket that exists.
* **`ExtrinsicCalibration`**: `pc` is the place of `main()`; `OpenCamera` and `ReadFrame` are the
  capture threads, `CalibratePair` is `calibrate_pair`, called twice by SPACE (`KeySpace`, `RearRight`) and twice by C
  (`KeyC`, `RightFront`), whose two results `Average` combines. What a camera detects is
  chosen: a board of those in the half of the picture that is searched, or none, and a level or a
  refused one. Positions are pairs of integers, yaws integers modulo `Turn`, measured with
  an error out of `Noise`. `Turned` does to an offset what the code does (154-167, 320-321): it is turned by the error of the reference's yaw and
  foreshortened by that of its pitch, which is the fallback of 5 degrees until the reference is levelled. `Drift` bounds that for one pair
  (`DriftAssumption`). `procedure`, `measured` and `placed` are history variables: which keys were pressed with everything seen, and which
  cameras were measured from one that stood right.
* **`WaypointDemo`**: the three commanders share one form, a list of stages ahead (`todo`)
  that `Send` and `Await` fill from the code after each goal; `Call` and `Answered` are the service calls
  without a time-out, `Serve` and `ServeFails` the two servers, `BackStep` one turn of the loop of
  `move_backwards`, which takes one pose, the oldest. Nav2 is external: `ActionEnds`, `TakePosted` (a goal on the topic
  displaces that of the action, or is taken later, after the action has ended), `TopicEnds`, `Drive`. Commander and server crash and restart.
* **`DriveSources`**: a velocity is linear and angular. `Yaw` are the callbacks of IMU and odometry: the two yaws agree or they do not
  (`astray`), and in the latter case the loop turns the robot. Time passes in ticks of 0.1 s. `CheckDeadline`, `Zero`, `Publish` are the steps of
  `_control_loop`, between which the key thread (`KeyMove`, `MoveDeadline`, `KeySpace`, `StopDeadline`, `KeyQ`) runs; `SetVelocityFor`, `TimerTick`, `Leave` are
  `velocity_control`. `Message` is `twist_mux` with the priorities, time-outs and lock of the
  configuration, and the time-out of the wheel controller (both external).

`MC*` modules give the constants their values. Interactions: `CrsfNode` extends
`MotorDrives` and composes the node with its drives; `TeleopKeyboard` contains the drives
as its blocking calls see them, and a second master on its topic; `VideoPipeline`
composes two processes; `WaypointDemo` a commander, a server and Nav2; `DriveSources` two programs, four
external parts and their time. `*Proofs` modules hold the theorems of the
module they are named for, `SensorProofs` those of `BmsNode` and `PointCloudGrid`, which share nothing.

## 3. Runs

| Run | Module, cfg | What it shows |
|---|---|---|
| `crsf_safety` | `MCCrsfNode`, `CrsfNode.cfg` | What the node said agrees with its state; the queue is one sequence with a caller; a clean kill is final, and only a live link arms after it; `SafetyGate` is implemented. |
| `crsf_live` | `MCCrsfNode`, `CrsfNodeLive.cfg` | A dead link ends in kill; SA held off ends in kill, and init sequences are sent to the end, if drives answer. |
| `teleop` | `MCTeleopKeyboard`, `TeleopKeyboard.cfg` | `run` means initialised; outside `run` a moving velocity lasts while the halts are called; the copy of the killswitch settles, whoever publishes; calls end. |
| `bms_messages` | `BmsNode`, `BmsNode.cfg` | The last message says what was said last; every object leads to a message. |
| `image_sync` | `MCImageSync`, `ImageSync.cfg` | Nothing useful is dropped; slow cameras have their latest images published and nothing else; complete groups are published; stamps go back by `InnerSlop` at most. |
| `grid_averages` | `MCPointCloudGrid`, `PointCloudGrid.cfg` | Averages are means and stay within what was seen; only a resize makes the node access a vector past its end. |
| `video_threads` | `MCVideoPipeline`, `VideoPipeline.cfg` | No lost wake-up; recordings complete; canvases keep their masks and order; ending a recording and quitting end, in order unless an interrupt cut the start of a recording. |
| `calibration` | `MCExtrinsicCalibration`, `ExtrinsicCalibration.cfg` | The view is made from the current parameters; yaws are the cameras' up to noise and turns; a camera measured from one that stands right stays where it is up to the drift of its pairs. |
| `waypoint_demo` | `MCWaypointDemo`, `WaypointDemo.cfg` | Neither moving back nor driving to a goal of the action with the lift raised; lights agree; moving back is bounded; the tour goes on and every goal's end is noticed. |
| `drive_sources` | `MCDriveSources`, `DriveSources.cfg` | A nudge and a command end within pulse or duration and the time-outs; a turn to the IMU's yaw within the controller's of the end of the error; everything under the killswitch likewise; a nudge renewed in time is kept. |
| `crsf_kill_not_halted` | `MCCrsfNode`, `CrsfKillMeansHalted.cfg` | Violation: a drive enabled in kill. |
| `calibration_procedure` | `MCExtrinsicCalibration`, `CalibrationProcedure.cfg` | Violation: the documented order leaves the front camera out of place. |

TLC checks for deadlock, except in `calibration`, `calibration_procedure` and `waypoint_demo`:
the calibrator ends after `q` or when a camera does not open, `waypoint_follower.py` after its route. Where another system ends (the keyboard node after
Ctrl-C, the BMS after its last object, cameras after their last stamp) the specification
has a step that stays there; the video pipeline's publisher outlives it, ticks, ends and starts.

Bounds, and why they are enough:

* `EmptyLimit` is 50 in the code and 1 here: the code only compares with it, so a
  limit of 1 has every case (below, at, above, and a reset in between). The
  theorems hold for every limit.
* `MaxCalls` (2 for safety, 1 for liveness): no new init sequence with that many calls
  outstanding at a drive or answers unread. With 2, a second sequence starts
  while the last call of the first is still in flight, so two chains of answers
  pop one queue. `MaxHalts` 1: halts are idempotent and nobody reads the answers.
  `MaxRestarts` 1 lets a drive forget its requests once; 0 where a property is about drives that
  stay up.
* `MaxAttempts` 3 is the code's. `Depth` of the keyboard's subscription is 2, not 10, so that
  it overflows; `MaxRemote` 2 messages of another master, one to be overwritten and one to
  be late; `MaxPending` 2 requests, a timed-out one and its retry.
* `Half` 4 has both ends of a signed range and its wrap; `Depth` 2 overflows
  after three objects; `MaxSent` 3 lets an object be said, changed, and be
  overtaken by another. Three objects are enough for a field that depends on two of them.
* Synchroniser: `Launch` is the list of the launch file, four image topics, `camera2` first. `MaxStamp`, `InterSlop`, `InnerSlop` (4, 3, 1)
  separate "too old for the buffer", "matches" and "too far", with stamps on both sides of each and at both boundaries. (Both slops are
  0.02 s by default; with equal slops `RegressionIsBounded` would follow from the matching alone, which is why the inner one is smaller here.)
  Cameras faster and slower than the inner slop are both among the behaviours. 2.3 million states.
* Grid: one column of 1 or 2 cells, three clouds, two maps per source. Two clouds: in one, two points are alone and one is above the
  band and the only neighbour of another; in the other, a row shrinks below the least size of a cluster when it is compacted.
  `Switches`: both averagings, `ror` and `voxel` are set at run time, the others keep the value they start with.
  `Scale` 12 is divisible by 2, 3 and 4, so that neither average rounds in three frames; `Weight` is 1
  instead of 50 for the same reason; the theorems hold for 50, and for any scale. `Contribution` 60: two points saturate a cell. 0.8 million states.
* Video: one frame per camera and then the same again is "no new frame", two
  cameras with the floor searched in one, as `config/pipeline.yaml` has one of four.
  `RecordMax` 1 and not 60, so that the queue is full; `HWM` 2, so that sockets drop and
  the publisher drains more than one; the publisher starts and ends any number of times; three canvases: two recordings, or one recording longer than its queue.
  Any key, at any time, and an interrupt at any step.
* Calibration: `Turn` 36, ten degrees a unit, is divisible by 4, so that the yaws of all cameras are exact, and far from the
  noise; `Noise` {0, 1} makes a measurement right or off by ten degrees, so that means are not whole; two
  levels, for one that changes, one of them 15 degrees from the fallback. Positions are in centimetres, the cameras at the corners of a diamond;
  `Drift` 4 is what noise and pitch do to one pair there (TLC evaluates `DriftAssumption`). `MaxKeys` 4: both keys twice, in any order. 1.4 million states.
* Waypoint demo: three waypoints, one of each kind on the demo's route. `Distance` 2 so that the loop of
  `move_backwards` turns at least twice; `QueueDepth` 3 and not 10, below `MaxLag` 4, so that the queue overflows; `Strays` {0, 4}:
  the pose known before the first one is right, or further off than the distance. `MaxDrive` 3 units to a leg. `MaxCrashes` 2: both parts
  crash, or one twice. `GoalDepth` 1: one goal on the topic may still be taken after that of the action has ended; the theorems hold for any number. 2.2 million states.
* Drive sources: the time-outs are those of the code and the configurations, in tenths of a second (pulse 3, `hil` 5, `nav` 1,
  controller 5). Two commands, one that moves for two ticks and one that turns for one, instead of the
  longer ones of `example_commands`: a command ends while the other source holds the wheels, while it is masked, and alone. Time itself is not bounded. 5.1 million states.

No symmetry is used: `InitSequence` and `floor_cams` order their elements.

## 4. Fairness

* `CrsfNode`: weak fairness of `FastTimer` (a timer keeps firing) and of
  `ServiceDone` (the executor runs callbacks that are due); strong fairness of
  `PollFrame`: while the link is up again and again, some poll completes a frame; a
  handset keeps sending frames, and a poll reads what has arrived. Nothing is assumed of the drives: the
  properties that need their answers have `DriveFairness` as a premiss. `DeadLinkKills` has none.
* `TeleopKeyboard`: weak fairness of what `main()` does between two keys. Not of the keys, the services
  or the background thread (both threads spin the same global executor, so one may
  disturb the other: `teleop_keyboard.py:201`).
* `BmsNode`: weak fairness of both callbacks and of the passing of 1 ms. The last is
  justified only because `MaxSent` makes the BMS pause; a BMS that never paused for 1 ms
  would keep restarting the timer. The `about` of the run and the module say so.
* `VideoPipeline`: weak fairness of each thread (they are scheduled, writes and inference
  end) and of each camera. Not of keys, interrupts, or the publisher.
* `WaypointDemo`: weak fairness of the commander, of a turn of the backward loop in which the vehicle
  moves, of Nav2 ending a goal (it succeeds, fails or is cancelled), and of a server that is up.
  Nobody has to restart a server, and `TourGoesOn` excepts that and a request lost with it.
* `ImageSync`, `PointCloudGrid` and `ExtrinsicCalibration`: none; they have no liveness property, being driven by their inputs alone.
  `DriveSources`: none either. Its timers are on time because `Tick` waits for them; what ends, ends within
  a number of ticks, which is a safety property.

## 5. Theorems

Each is proved for **every** value of the constants that the assumption named in the
module allows (`CrsfNodeAssumption` and so on), from the safety specification alone,
without fairness.

| Module | Theorem | Statement |
|---|---|---|
| `CrsfNodeProofs` | `TypeCorrect` | `TypeOK` |
| | `TopicsAlwaysTellState` | the topics agree with the state; silence is only kept at rest |
| | `CleanKillAlwaysFinal` | what a kill guarantees if no init call was outstanding |
| | `ArmingAlwaysNeedsLink` | after such a kill only a poll that has read bytes arms |
| | `QueueAlwaysSound` | the queue is the rest of one sequence and has a call that will pop it |
| | `ImplementsSafetyGate` | `Spec => ImplementsGate` |
| `TeleopKeyboardProofs` | `TeleopTypes` | `TypeOK` |
| | `AlwaysQuietOutsideRun`, `RunAlwaysInitialised`, `EchoAlwaysAgrees` | the three safety invariants of the node, with any number of messages of other publishers |
| `SensorProofs` | `BmsTypes`, `SettledAlwaysTrue` | `TypeOK`; a settled node says what the BMS said last |
| | `GridTypes` | `GridTypeOK`: the published cells are occupancies, whatever is read past the end of a vector |
| | `AveragesAlwaysSound`, `AveragesAlwaysNear` | `AveragesAreSound` on a scale that does not round; on any scale, the means up to a unit a cloud |
| | `OverrunAlwaysNeedsResize` | no vector is accessed past its end in a run in which no size is set to another value |
| `ImageSyncProofs` | `SyncTypes`, `NothingUsefulEverDropped` | `TypeOK`; a buffer is exactly what may still match |
| | `LatestAlwaysGoOut` | with images further apart than `InnerSlop`, the latest of all topics go out or nothing does; topics may be listed in any order |
| | `PublicationAlwaysSound` | complete groups go out; stamps go back by `InnerSlop` at most |
| `VideoPipelineProofs` | `VideoTypes`, `WakeupNeverLost` | `TypeOK`; no batch waits without a wake-up |
| | `PublishedAlwaysWhole` | canvases keep their masks and their order to the topics |
| | `RecordingAlwaysComplete` | a released recording holds what its queue accepted |
| `ExtrinsicCalibrationProofs` | `CalibrationTypes`, `BevAlwaysCurrent` | `TypeOK`; homographies are never stale |
| | `FacingAlwaysKept`, `OffsetsAlwaysKept` | yaws up to noise and turns; positions up to the drift of one or two pairs |
| `WaypointDemoProofs` | `WaypointTypes` | `TypeOK` |
| | `LiftAndLightsAlwaysAgree` | with the lift raised no moving back and no goal but a late one of the topic, unless a dead commander left it so; the lights say what happens |
| | `WayBackBounded` | the loop of backward moves ends where `BackIsBounded` says |
| `DriveSourcesProofs` | `DriveTypes`, `NudgeAlwaysKept`, `MotionAlwaysEnds` | `TypeOK`; a renewed nudge is kept; nudges, commands and turns end as `MotionEnds` says |

The properties are seldom inductive as they stand. What makes them so:

* **CRSF node.** That a kill leaves no drive enabled depends on no init request being on its
  way, which depends on the queue being empty, which depends on how the node entered
  kill. `GateInv` conjoins `TopicsAgree`, `StaticMeansStill`, `CleanKillHalts`, `CleanKillLeavesNothing` and
  `UnsetInInit` (the killswitch has not been published while in init, so that the abstract gate may
  still close for the first time). `raced` makes the two clean-kill properties true; without it
  they are false, which `KillMeansHalted` shows. `PollCases` reduces a poll to four effects (it idles,
  kills, arms or passes a velocity); the step of the invariant and of the refinement has
  one case per effect. The queue needs properties of `Head`, `Tail` and `SubSeq`.
* **Keyboard node.** `Quiet`: outside `run` the velocity held is zero, calls are made outside `run` only, and `p` has published its killswitch message before it leaves `run`. `Initialised`: an answer that
  has come leaves no request of its service waiting, so that no later one replaces it, and no
  call is made in `run`. `Echoed`: the last message on its way is the last one published, and what main() is about to note is that, if nobody published in between. `Waited`: the call waited for is one of the list.
* **BMS node.** `Kept`: the power supply status is always that of the two statuses kept, and while the
  timer is off the last message is the message kept. `Faithful`: unless something was dropped,
  the last entry of an object in the queue is what was said last, and an object without an entry has been taken over.
* **Point cloud grid.** `GridInv`: the vectors of averages keep their length (`Vectors`), each cloud is counted once at most
  (`Settings`), every sum of what was averaged is a whole number of intensities (`Whole`), an average is within what was
  averaged, and is its mean but for `frames` units of the scale (`AverageNearMean`). One more value in a mean rounds off less than
  one unit for each value there is (`MeanFacts`, `NormalCell`), so a unit a cloud is all that adds up. With `NoRounding`, that is, when
  `Scale` divides by every number of clouds and weights there may be, as 12 does in the run and a multiple of all of them does in general, the
  new sum divides by the new count, because it is `Whole`, and the remainder is zero (`ExactCell`). The code averages floats and has no
  scale: `NoRounding` says that the model does not round, `AverageNearMean` what it would round if it did.
  `Unresized`: as long as no size was set to another value, the grid has as many cells as there are averages.
* **Synchroniser.** `Window`: a buffer has increasing stamps, ends in the latest, and holds everything within
  `InnerSlop` of it and nothing else. With images further apart than that, a buffer is its one latest
  image (`OneImage`), and `LatestFound` is what the search then yields; `Completion` and `Regression` prove the two parts of
  `PublicationIsSound` from `Window`.
* **Video pipeline.** `Woken`: the worker is told to stop only by a main thread that is stopping. `Typed`: the canvas
  from its stitching to its publication is drawn with the masks that go with it. `InOrder`: messages in the
  socket are in order and newer than the topics. `Recorded`: what the queue accepted is what is written, then what
  is in the writer's hand, then what is in the queue but for what ends it.
* **Calibration.** `BevIsCurrent` is inductive with the types (`Current` is its part for one camera). `Facing`
  says what yaws are exactly: the right camera is as mounted, or a turn and the noise of a pair further; in
  the first case the front one, and what the left pair has left for it, are within the noise of two pairs. `PairOffsets`: a pair puts its target within one `Drift` more
  than the reference is off. `Placed` bounds each camera that was measured from a placed one, and what `via_left` keeps for the mean. `Counted` bounds the counters of threads.
* **Waypoint demo.** What the vehicle may do depends on what is ahead of the commander, so the types say which lists of
  stages there are (`Plans`, by commander) and `Follows` which stage comes after which. `LiftAndLightsAgree` needs three parts.
  `Parked`: after a success Nav2 has nothing left to do but a goal of the topic, and only after a success does a commander
  get to the stages at which the lift is used; `backing` and calls belong to stages of theirs. `Queued`: the one request of the
  commander that lives is the last in the queue and that of its stage, what is before it comes from a dead commander, and an
  UP among that makes an orphan. `Shown`: a lift that is up, and no orphan, is purple and between the answer to UP and that to DOWN;
  the BLUE that is answered is still shown when the wait begins. Each step is a case: `ServeLift` by whose request it is,
  `ServerEndsLift` by what the bus left undone, `RestartLift` by what becomes an orphan. `BackIsBounded` needs `BackInv`: of
  the poses that wait, the newest are those of the way back, one apart, and once only they are left the pose known is the one before them,
  so the loop cannot miss the turn at which the distance is reached by more than what waited. `TurnInv` shows it for a turn, with and
  without room in the subscription (`EnqueueFacts`), and `BackEnds` that nothing but a turn of the loop ends the stage.
* **Drive sources.** `Nudged`: while a nudge is due to be kept its deadline is ahead, no iteration of the loop is
  about to zero it, and no key has stopped it. `SpeedEnds`: each source that moves has its end ahead, and the loop turns the robot only while
  the yaws differ. `WheelsEnd`: what the wheels do was published before that, and before the killswitch, and has no longer to go than the
  controller holds a velocity.

Only model-checked: the liveness properties (`DeadLinkKills`, `SwitchIsHeard`, `CallsEnd`,
`UpdatePublished`, `RecordingAndQuitEnd`, `TourGoesOn`), which need fairness and `ENABLED`, out of the
prover's reach. Every invariant and every action property of the passing runs is proved. No theorem
needs induction over data. No module declares a `RECURSIVE` operator, so all of them can be proved about.

## 6. Where code and documentation disagree

Shown by runs (`PROJECT.json`, "findings", quotes the text of each):

1. **Kill does not always halt** (`crsf_node.py:300`; rst:494). `enter_kill` sends the halts and leaves queued and
   in-flight init calls alone; one served after the halt enables the drive in kill.
   `CleanKillIsFinal` is what does hold.
2. **The documented calibration misplaces the front camera** (`extrinsics_calibrator.py:330`; README of
   `ad_r1m_perception_video`, 332). C comes first, "order matters", and places the front camera relative to a left and a
   right one that are at the origin until SPACE has run. SPACE first, then C, gives the positions up to the drift of two pairs (`OffsetsKept`), but then
   the right camera, measured from the rear one, is at 270 degrees instead of -90, the front camera is at 0 by the left one and
   at 360 by the right one, and the mean of the two (431) turns it round: neither order calibrates everything. `FacingKept` is what does hold.

The four below were found the same way. The formulas are in the modules, and TLC refutes each
with the configuration named when it is put in the place of its invariants and properties:

3. **A dead link can arm** (`crsf_node.py:224`; rst:478; `NoArmingOnDeadLink` with `CrsfNode.cfg`). The limit is not looked at in
   kill, so a frame kept through a second loss of the link, while calls are outstanding, arms the robot once
   they are answered. `ArmingNeedsLink` is what does hold.
4. **A partly failed initialisation is not safe** (`teleop_keyboard.py:296`; rst:958; `KillIsSafe` with `TeleopKeyboard.cfg`). `r` releases
   the killswitch first; when one drive fails, kill is entered with the killswitch released and the other drive enabled.
5. **Synchronised images on the wrong topics** (`realsense_image_sync.cpp:151`; launch file `:42`, `:61-65`; `RightTopic` with
   `ImageSync.cfg`). Candidates come in lexicographic
   order of topics, publishers in the order of the configuration, which has `camera2` first. `Launch` has the image
   topics of that list. The launch file also lists their `camera_info` topics, which the component subscribes to as
   images (36); a topic that delivers nothing keeps every group incomplete, so nothing at all is published until that list is
   corrected, and what is published then is this.
6. **The video pipeline does not start** (`zmq_bridge.py:14`; README of the package, `:3`; `CanvasOrStopped` with
   `SocketOpened = FALSE` in `VideoPipeline.cfg`).

Met while modelling, in the models as the code has them, without a property:

* `crsf_node.py:143` says init, kill, run; init goes straight to run (246; the return at 248-250 is commented out).
* The poll that arms also publishes the stick, before any drive is initialised, although the comment at 230 says to wait.
* While an init call is unanswered the node does not look at SA (231), although 43 describes SA as the killswitch. `SwitchIsHeard` therefore needs drives that answer.
* Ctrl-C in `run` of the keyboard node publishes the velocity held once more: the zero that the finally clause writes (333) is overwritten by `update_twist` (229). During a call
  the signal may have shut the context down, and nothing is published. `QuietOutsideRun` says what holds outside `run`.
* `p` in init of the keyboard node halts nothing (246); rst:964 says halts are called during killswitch transitions.
* `batteryStatus` 0 is "charging" (`adrd_bms_node.py:8`) and published as unknown.
* `ror_enable: false` empties the grid, because the next filter reads a cloud that nothing has written (`pointcloud_to_grid_node.cpp:677`; README of the package, 65).
* The thresholds of the PGM reader (539-557) are not those of `map_server`; `filter_enable` is read only at startup although setting it succeeds.
* A key is lost when the other of the two `waitKey` calls consumes it; the sockets drop the newest message, not the oldest (README of the video package, 186).
* Ctrl-C between `display.py:94` and 96 leaves `recording` set without a thread that can be joined: `Display.stop` raises, and the rest of the finally clause (the worker's stop) is skipped.
* The telemetry scales the voltage twice (`crsf_node.py:188-189`).
* The example output of the calibrator's README, "Averaged: X=0.0cm Y=10.3cm", is not the mean of the two lines above it.
* `lift_waypoint_demo`: `CMakeLists.txt` installs `scripts/waypoint_follower.py`, which calls no service, although rst:830 says "Calls elevator
  service after successfully reaching each goal" (that is `commander/waypoint_follower.py`); `lift_node.py` is not installed although
  `demo_run.launch.py` starts it, and the service type it imports, `LiftGPIO`, is defined nowhere in the package.
* `demo_run.py:152` sends BLUE where its comment says GREEN; 178 reports 0.1 m after moving 0.2 m.
* The goal on `/goal_pose` may be taken by Nav2 after that of the action has succeeded (`demo_run.py:149-150`): the vehicle then drives while the commander raises the lift or moves it
  backwards. `LiftAndLightsAgree` and `BackIsBounded` except it by name.
* The lift's service answers before the lift has moved (`lift_node.py:66`), and a request lost with its server is waited for without a time-out (`demo_run.py:34`).
* The docstring of `imu_hil_controller.py` says that it coexists with other sources, but it publishes, zeros too, all
  the time at priority 45: the keyboard (40) and navigation (30) get through only when it is not running.
* The yaw loop of the HIL controller looks at no age: with an IMU or an odometry that fell silent the robot turns until something else stops it (161-166).
* A first nudge can be lost: a loop that has read the expired deadline zeroes the new velocity (155-156, 188-189). `NudgeKept` says what is not lost.

## 7. Not modelled

* **Battery telemetry of the CRSF node** (170-202): a request and arithmetic on its answer; shares nothing with the state machine.
* **Status LED and its watchdog**: two shell scripts, whose hazard (a killed script leaves its
  `gpioset` behind) is in what the shell and the kernel do with processes.
* **Boot scripts and units**: straight-line commands without state.
* **Other calibration tools, parameter tool**: sequential programs run by hand.
* **Launch files, navigation configuration, robot description, worlds**: declarative; what they
  say about a modelled node is used in its constants.
* **The multiplexer of the robot itself** (`ad_r1m_control/config/twist_mux.yaml`), with the two nodes that both publish its lock: `TeleopKeyboard`
  has a foreign master on the topic and `DriveSources` a multiplexer with a lock, but the three are not composed.
* Inside modelled components: image and point-cloud arithmetic, text and formatting, the speed
  keys of the keyboard node, the gain of the yaw loop of the IMU demo (there is an error or there is none), sleeps and the time the
  lift takes, failures inside external libraries.

## 8. Plan

What is left, in this order:

1. **`DriveStack`**: the robot's `twist_mux` (three sources with their priorities and time-outs, one lock without)
   composed with abstract versions of both masters. Properties: no velocity reaches the drives
   while the last killswitch message is on; which master's release undoes whose kill; what a crashed
   master leaves behind; an abstract `VelocityGate` that the composition implements.
2. **`VideoPipeline`**: how old a published canvas may be; what an interrupt during the end of a recording leaves.
3. **`BatteryTelemetry`**: requests once a second, late and reordered answers, the charge computed from the voltage.
4. **`StatusLed`**: watchdog and pattern script.
