# Verification of the ASR flight stack

This directory holds TLA+ models of the flight stack's decision-making parts,
TLC configurations that check them on small instances and TLAPS proofs about
them. Paths below are relative to the repository; `main.cpp` without a path is
`src/asr_autopilot/src/main.cpp`.

    tlc -workers 2 -config Mission_plans.cfg MCMission
    tlapm AutopilotRefinement.tla

## 1. The system

A drone's companion computer runs ROS 2 nodes next to a PX4 flight controller; a
ground station (GCS) runs others; a SiK radio and WiFi carry MAVLink between the
two.

    operator -> GUI / mission_cli -> comms_gcs ==radio, WiFi==> comms_uav
                                                                  |  UAVCommand goals
                            mission blobs (WiFi) -> mission executor -> autopilot -> PX4
                                                                  ^ detections, lidar, position

| Part (source) | State it keeps | Operations | What makes it correct |
|---|---|---|---|
| Command server and flight modes (`main.cpp`, `state_manager`) | `UAVState` (arming, flight mode, trajectory, settle flags), `control_timer_`, control mode and its mutex, landing counters, one execute thread | `handleUAVCommand`, `handleAccepted`, `handleCancel`, `execute` and its bodies, `controlLoop` and its mode functions, `safetyCheckCallback`, `vehicleStatusCallback` | goals one at a time, each resolved once and truthfully; a waiting goal is answered; failsafes take over; a landing ends; a blind descent ramps |
| Mission executor (`mission_executor_node.cpp`, `plan_executor.cpp`) | pending plan, running plan, one state per node of its tree, handles of goals | upload, start, abort, 10 Hz tick, action client callbacks, telemetry | a running plan is not replaced; no task is left behind; retries stay within their budget; a plan ends |
| Plan format and validation (`plan.cpp`, `plan_validator.cpp`, `capabilities.cpp`) | none | parse, validate | only plans without errors are staged |
| Mission bridge (`comms_gcs.cpp`, `comms_uav.cpp`) | three pending requests with attempt counters | send, retry, give up, take a reply for an acknowledgement | requests settle; retries do not multiply flights |
| Blob transport (`mission_protocol.h`) | transfer counter; one reassembler per direction and type | fragment, feed | blobs arrive whole, and no more often than they were sent |
| Duplicate filter (`dedup.h`) | 256 bits per sender | `check` | each packet is handled once and none is lost to the filter |
| MAVLink command path (`comms_*`) | last command type and time on the GCS | `on_uav_command`, `forward_command`, ACKs | the operator is told the fate of the command it was |
| RTCM relay (`send_rtcm`, `handle_rtcm`) | fragment buffers by 5-bit number | split, assemble | corrections arrive whole |
| Peer discovery, camera stream (`udp_socket.h`, `camera_protocol.h`, `comms_*`) | UDP peer, streaming flag, transport, frame assembler | beacon, start, stop, frame, restart | both sides find each other; a stream starts, stops and goes to who asked; a frame shown is one frame |
| Link supervision (`serial_port.h`, `comms_*`) | serial port, receive times | receive threads, reopen, `publish_link_stats` | an outage is reported, a working link is not, an unplugged radio comes back |
| Path planner (`path_planner.cpp`, `main.cpp`) | polynomial or segments, start time, settle target | read the start, four ways to plan, activate, hold, the locked steps of a tick | targets stay near the vehicle; convergence is measured to the goal |
| Controllers | integrators | control | floating point |
| Perception (`detection_filter.cpp`) | probe and marker tracks | associate, update, merge, publish | one track per probe; observations counted once |
| Camera relay (`camera_relay.py`) | last color image, last synchronised set, last stamps | two inputs, timer | no image reaches the detectors twice |
| Loggers (`logger_node.cpp`) | an open writer | open, write, flush, close | one whole log per flight |
| RTK base station (`rtcm_reader.py`) | serial port, receiver with survey and configuration | open, poll, configure, survey, stream | no needless survey, no corrections without one, recovery |
| Other drivers, GCS tools, launch files | little | relays and widgets | - |

`PROJECT.json` lists every part with its status, and under `hazards` the places
where the code is hard to test.

What is hard here: the autopilot's two threads share one `UAVState` through a
locked getter and a locked setter, with unlocked read-modify-write cycles between
them; its executor thread joins the execute thread and then runs nothing else; the
mission executor talks to the autopilot through asynchronous goals that it may
drop at any moment; the bridge matches replies with requests by their type only,
over links that lose, duplicate and reorder.

## 2. The modules

### Autopilot, ActionServer

`Autopilot.tla` is the command server at the grain at which its threads really
interleave. Thread `ros` is the single executor thread of `rclcpp::spin`; a
callback starts only when the one before it has ended (`Call` requires that
nothing is left to do, so a join blocks everything). Thread `exec` is
`execute_thread_`. What a thread has still to do of the function it is in is a
sequence of micro-operations, `todo[t]`; a helper of the code
(`ensureControlLoopRunning`, `cleanupControlLoop`, `planLandingDescent`...) is an
operator that yields its micro-operations, and a micro-operation is one locked
access to the shared state together with what the code computes from it.
`copy[t]` and `scratch[t]` are the local `UAVState` of the running function and of
the helper it calls: writing one back while the other thread has written in
between is exactly how the code loses updates.

`UAVState` keeps the five fields that a decision reads. Positions, set points and
durations are left out: where the code compares them (within the tolerance, ground
seen, timeout) the action has both outcomes. A bad parameter, a full queue or any
other refusal changes nothing and is no action. `px4Armed`, `px4Cmd` and the
position stream are PX4, seen from how the code uses it.

`ActionServer.tla` is what clients rely on: goals in order, one worked on at a
time, one final answer each. `Autopilot` refines it (`ActionServerSpec`) by mapping
the goals' statuses and the goal the execute thread was last started for; the run
`autopilot_goals` checks that on an instance and `AutopilotRefinement.tla` proves it.

### PathPlanner

`PathPlanner.tla` goes into the one handover that `Autopilot` keeps abstract. A plan
takes three locks after each other, for the position (`ReadStart`), the trajectory
(`Generate`) and its activation (`Activate`), and so does a hold after a cancel
(`HoldReads`, `HoldTarget`, `HoldState`). A tick of the control loop takes up to seven:
it reads and stores the state (`ControlLoopReads`, `ControlLoopStores`), reads it again
(`TickReads`), asks how long the trajectory is (`TickDecides`), stores the state if it is
over (`TickCompletes`), asks again (`TickAsksTotal`) and samples (`TickSamples`). Each is
an action, and the execute thread's and the executor's interleave between any two; the
latter plans too, but never within its own tick.

`GenerateTrajectory`, `GenerateSpinTrajectory` and `GenerateMultiWaypointTrajectory` are
the three ways a planner object is written, `SegmentPoint` and `GetTrajectoryPoint` the
lookup. A polynomial is a straight line on one axis, flown at one place a tick: what is
left is which ends, which duration and which elapsed time meet in a sample. `plan` and
`aim` are history: a tick that falls between the reading of a start and the activation
moves the vehicle away from that start, and `plan.late` counts these ticks; `aim.stray`
marks a sample taken at the elapsed time of another trajectory, `plan.undone` an
activation that a callback's store of an older state has taken back. Left out are a
disarm and an arm, which set the target too and end or precede the session of the control
loop that is modelled, and `setUAVMode`'s store on the execute thread of a state it read
before; `Autopilot` has them.

### Mission, Executor

`Mission.tla` is the executor node with its interpreter. Plan trees are constants,
so one specification covers all nestings. A tick computes the path from the root
that `tick_node` descends (`Path`), the status that comes back up (`TickNode`, a
recursive function), the subtrees that are reset (`Resets`), the retries that count
and the sequences that advance, and applies them at once, as the recursion does.
Whether a condition of a `run_until` holds is free at every tick. Goals are shared
with an abstract server that answers, executes and resolves in its own time; a goal
that its handle has forgotten goes on existing.

`Executor.tla` is the node seen from its topics; `Mission` refines it
(`ExecutorSpec`; the published `State` is its status) and `MissionBridge` EXTENDS it,
so that what is shown of the bridge holds of the bridge with the real executor.

### MissionBridge, CommandPath

`MissionBridge.tla` has requests with attempt counters, a lossy link in both
directions that holds up to `MaxCopies` of a message and delivers in any order, the
executor, and replies that end whatever request is pending of that kind. `begun`,
`asked` and `runs` are history variables.

`CommandPath.tla` follows an operator's command through `on_uav_command` with its
300 ms rule, `forward_command`, the callbacks of the action client and the
`COMMAND_ACK` case on the ground; the autopilot is what `ActionServer` promises.
`acks[r]` holds the answers produced for request `r`; under which name the ground
station publishes one is another matter (section 4).

### DedupFilter, MissionTransport, RtcmLink

`DedupFilter.tla` has the ring and the copies of packets under way; a copy not
delivered when `Lag` younger packets have been sent is lost, and any copy may stay
undelivered until then. Two threads take their numbers from one counter
(`ReadNumber`, `SendRaced`), so that two packets may have one number.
`MissionTransport.tla` and `RtcmLink.tla` extend it: the first with fragments of
blobs, the statistics between them and the reassembler; the second with
`send_rtcm`'s fragments and the buffers under their five-bit number, which keep what
an incomplete message left. The CRC is an injective stand-in over the blobs of the
instance and their mixtures (`CrcAssumption`): what a collision would do is not looked
at.

### PeerLink, CameraFrames, LinkHealth

`PeerLink.tla` is how `comms_gcs` and `comms_uav` find each other on WiFi and start
and stop the camera stream: beacons, the peer that each side keeps, the transport
that the stream was given when it began, restarts of either side, on another host
too, and a vehicle whose address changes. `CameraFrames.tla` is the stream's
content: fragments under a frame number, the assembler that keeps one frame.
`LinkHealth.tla` is `comms_gcs`'s supervision: two receive threads that store times,
a timer that compares them with a clock it has read before, unsigned, and the
reopening of an unplugged radio, probe by probe.

### RtkBase, CameraRelay, DetectionFilter, FlightLog

`RtkBase.tla` is the reader thread of `rtcm_reader.py` against a receiver that
loses its data connection, its power or a reply, or refuses. `CameraRelay.tla` has
the relay's two inputs, its timer and the mode without one. `DetectionFilter.tla`
takes a message of detections one at a time and then merges pair by pair, as the
loops over an erasing vector do; which track a detection goes to and where an
estimate moves is free. `FlightLog.tla` is the flight logger's file: what was
written, what was flushed, under which name, and what a loss of power leaves.

### MC modules and proof modules

`MCMission` gives the plan trees. Protocols that keep no state in common are
checked side by side, so that their states add up and do not multiply: in a
behaviour of `MCLink` the link carries missions, corrections or camera frames, in
one of `MCVehicle` there is the link or one node of the vehicle, in one of
`MCBridge` one of five protocols between the two ends. That the parts share no
variable is what makes this sound; where they do meet (the duplicate filter under
blobs and corrections, the executor under the bridge, the action server under the
command path) the modules are composed by EXTENDS or by the abstract specification.

| Proof module | Holds the theorems about |
|---|---|
| `ActionServerProofs`, `AutopilotProofs` | `ActionServer`, the types of `Autopilot` |
| `AutopilotRefinement` | `Autopilot` as an `ActionServer`, control sessions, waits of its two threads |
| `MissionProofs` | `Mission`, and `Mission` as an `Executor` |
| `CommandPathProofs` | `CommandPath` |
| `EndsProofs` | the two ends of the link: `MissionBridge`, `PeerLink`, `LinkHealth`, `RtkBase` |
| `LinkProofs` | the link itself: `DedupFilter`, `RtcmLink`, `MissionTransport`, `CameraFrames` |
| `VehicleProofs` | other nodes of the vehicle: `PathPlanner`, `CameraRelay`, `DetectionFilter`, `FlightLog` |

## 3. What the runs check

| Run | Shows | Bounds |
|---|---|---|
| `autopilot_goals` | `ActionServerSpec`, `ResultMatchesStatus`: any interleaving of two goals, cancels, control loop and failsafe keeps the server's promise; `FreshSession`: a control session starts with no timer, alone | 2 goals of {arm, rtl, set_origin, eland}, faults |
| `autopilot_answers` | `WaitResolves`, `CancelResolves`, `EstopKills` under fairness | 2 goals of {goto, estop} |
| `autopilot_landing` | `LandingEnds`, `PositionLossLands` under fairness; `TypeOK` with the replan limit | 1 land, PX4 armed by itself, positions lost and back |
| `autopilot_safety_blocked` | violated: the safety timer is not independent of goals | see findings |
| `autopilot_stale_settle` | violated: a settle flag just cleared comes back | see findings |
| `autopilot_blind_ramp` | violated: a blind descent kills at once | see findings |
| `mission_plans` | uploads, starts and aborts at any moment of nested retries, sequences and run_untils: `OneTaskWaits`, `NothingAbandoned`, `StartsBounded`, `IndexInRange`, `PlanEnds`, `ExecutorSpec`, `TypeOK` | 3 plans, 2 goals in flight |
| `mission_abort` | violated: an abort may leave a goal flying | see findings |
| `bridge_retries` | missions: `RunsBounded`, `RequestSettles`; commands: `AckTellsFate`, `EveryRequestAnswered`; peers: `PeersFound`, `StreamStarts`, `StreamReachesSender`, `SilentUnlessAsked`; supervision: `LinkStateTrue`, `RadioReadAgain`; base station: `StreamSurveyed`, `SurveyKept`, `CorrectionsResume` | 3 requests, 2 attempts, 2 copies; 3 commands; 2 + 2 hosts, 4 events; timeout 2 of 4 ticks, 2 unpluggings; 4 faults |
| `bridge_abort` | violated: a Status is taken for an abort's answer | see findings |
| `link_and_vehicle` | link: `HandledOnce`, `BlobsIntact`, `CorrectionsWhole`, `CorrectionsArrive`, `FramesWhole`; planner: `TargetNear`, `SettleAtGoal`; perception: `ImageShownOnce`, `ObservationsConserved`, `MergedApart`; logger: `FlightLogged` | ring of 6, 6 packets, 1 restart; 3 frames, 2 runs; 3 trajectories, each prepared over at most 2 ticks; 4 stamps; 5 detections on 4 places; 5 statuses in 3 seconds, 1 loss of power |
| `dedup_lost` | violated: a new packet is dropped as a duplicate | ring of 4 |

Why the bounds are enough. Two goals are the fewest that meet (one runs, one waits
in the join, and a cancel may hit either); a third waits behind the join and meets
only the second. One replan reaches the limit and one more attempt at it. A ramp of
one or two ticks has a beginning and an end. The plans nest a retry in a retry, a
sequence in a retry in a `run_until` in a sequence, one needs arming and one is
invalid; two goals in flight are one abandoned and one live. Two attempts are a
send and a retry, three requests an upload, a start and an abort. Three commands are
one repeated within the 300 ms and one that comes between the first and its answer.
The ring starts at 4 of 6 (`First`), so that six packets pass its end and a restart
brings numbers back; two slots of corrections let a third message reuse the number
of the first; blobs of two fragments that mirror each other make every mixture a
candidate, and the sizes of corrections include the full last fragment and the one
that is cut off. Three frames in two runs give one number twice. Three trajectories
are one that is replaced, one that replaces it while a tick holds the first's start,
and one after (`MaxPlans` is 2 for them: both threads may read a start after the first); two
late ticks take vehicle and target apart from where the start was read, on a path in
either direction. Three tracks are the fewest of which one fusion can move a track
already passed, and five detections give them a second observation. Three seconds
have two flights in one second and one in another. A timeout of two ticks has an
inside and an outside; four faults let the receiver fail at two stages, each twice.
The code's values (256 and 128, 3 attempts, 3 replans, 32 slots, 2^64) are those of
the constants in the proofs, where nothing is bounded.

Fairness. `Autopilot`: both threads make progress; the executor serves every
timer and subscription that is due again and again (strong fairness: rclcpp takes
ready entities in turn, while the condition for one may flicker); the mode mutex,
held for a fraction of a 10 ms period, is got in the end; PX4 acts on commands and
the ramp's clock runs; trajectories' durations elapse and a settling ends by
`kStallTimeout`. Nothing is assumed of clients, of sensors or of the link.
`Mission`: the timer and the client callbacks run and the server works goals off;
that it does is what `WaitResolves` says, with the exceptions named there, and
those exceptions are exceptions to `PlanEnds` as well. `MissionBridge`: only the
GCS's retry timer; the link may lose everything. `CommandPath`: the vehicle's
threads and callbacks run and the autopilot resolves what it accepted. `PeerLink`:
both sides' beacon timers fire, and of the packets that are sent for ever one comes
through again and again. `LinkHealth`: the receive thread of
the radio runs. `RtkBase`: the reader thread runs and a survey of a receiver that
stays powered ends.

Excepted, and said so in the property: `PeersFound` a vehicle that has changed its
address; `LinkStateTrue` the tick that meets a packet between its two readings;
`CorrectionsResume` a refused survey and a reader thread that has died;
`CorrectionsWhole` and `CorrectionsArrive` what an incomplete message left in its
buffer and the message that fills its last fragment; `FramesWhole` a number given
away again by a restart; `TargetNear` a sample at the elapsed time of another
trajectory, `SettleAtGoal` an activation undone by a callback, and both a spin after a
path; `MergedApart` a pair of which a later fusion of the pass moved one;
`FlightLogged` two flights within a second. Each is what the code does, found by the
run that lacked the exception.

`CHECK_DEADLOCK FALSE` stands where the operator may have nothing left to ask.

## 4. Findings

Each is a run with `"expect": "violation"`.

1. `main.cpp:1749`. While a goal waits behind another, `handleAccepted` sits in
   `join` on the only executor thread. No timer runs, the safety timer included, and
   the control loop that would end the goal before does not either; only a cancel
   sent before the join resolves it.
2. `main.cpp:1256`. The control loop stores a state that it read before
   `activateTrajectory` cleared the settle flags: the next goal reports "Reached
   target position." at once.
3. `main.cpp:1346`. The failsafe sets `SAFETYLAND_BLIND` first and so the start of
   the ramp is never recorded; the first tick takes it for finished and kills the
   motors in the air.
4. `mission_executor_node.cpp:79`. An abort between a goal and its response
   cancels nothing.
5. `comms_gcs.cpp:571`. A Status on its way stops the retries of an abort that was
   lost.
6. `dedup.h:29`. A bit whose clearing packet was lost makes the next lap's packet a
   duplicate.

Met while modelling, without a run of their own; the properties named in section 3
carry the exceptions:

- `path_planner.cpp:64` does not reset `is_multi_waypoint_`. A spin after
  `test_multi_waypoint` flies the old path again, against "Position remains constant
  (no translation during spin)" (line 65), and settles in its middle.
- `main.cpp:1256` takes back an activation as well, in the way of finding 2: the vehicle
  stays at the end of the trajectory before, and convergence is measured to that.
- `comms_gcs.cpp:461` names a COMMAND_ACK after the last command given;
  `CommandAck.msg:1` "echoes the command that was acknowledged".
- `comms_gcs.cpp:532` says that a lost peer "re-enters discovery"; a peer is never
  cleared.
- `comms_gcs.cpp:664` reads the clock before the time of the last packet: a packet
  in between makes the unsigned age wrap and a working link is reported lost.
  `CommsHealth.msg` has "any message arrived from GCS", while any byte counts, the
  local radio's own statistics included (`comms_uav.cpp:221`).
- `comms_uav.cpp:499` waits for a short last fragment that a message of 360, 540 or
  720 bytes does not have; the rules in `mavlink_msg_gps_rtcm_data.h:8` foresee it.
- `detection_filter.cpp:430` fuses "any pair"; one pass may leave a pair.
- `rtcm_reader.py:158`: the node "reconnects the same way" unless the error is one
  of the terminal layer, which ends the thread.
- `camera_relay.py`: with a rate of 0, "publish every synced frame", the color topic
  of the detectors gets nothing.
- `logger_node.cpp` expects to see ARMING and DISARMING, which the autopilot never
  publishes (`main.cpp:808`); names have a resolution of one second.
- `main.cpp:1830`: `holdCurrentPosition` writes target and state in two steps; a tick
  between them overwrites the target.

## 5. What is proved

For every value of the constants that satisfies the modules' assumptions, without
bounds on time, plans or goals other than the constants that are called bounds:

| Theorem | States |
|---|---|
| `ActionServerProofs!Serialised` | goals are worked on one at a time |
| `ActionServerProofs!AnswersFinal` | an answer is never changed |
| `AutopilotProofs!TypeCorrect` | every variable keeps its type, the replans stay within their limit, a join has a goal |
| `AutopilotRefinement!ResultsAgree` | what a client is told agrees with how its goal ended |
| `AutopilotRefinement!KeepsPromise` | `Autopilot` implements `ActionServer` |
| `AutopilotRefinement!SessionsStartFresh` | a control session starts with no timer, with the mutex, and alone |
| `AutopilotRefinement!MutexIsGivenUp` | whoever holds the mode mutex waits for nothing before it gives it up |
| `AutopilotRefinement!JoinIsNotDeadlocked` | the thread that `handleAccepted` joins does not wait for the mutex |
| `AutopilotRefinement!NoGoalIsForgotten` | a goal without an answer is in work, or in the join for the one that is |
| `MissionProofs!TypeCorrect` | only valid plans are staged or run, and the interpreter's state keeps its type |
| `MissionProofs!RunningPlanKept` | a running plan is never replaced and nothing is staged behind it |
| `MissionProofs!ImplementsExecutor` | `Mission` implements `Executor`, for every plan tree |
| `MissionProofs!SequencesStayInRange` | a sequence ticked again has a child at its index |
| `MissionProofs!OneTaskAtATime` | one task at most waits for its goal, and none when no plan runs |
| `MissionProofs!NothingIsAbandoned` | no goal known to be accepted is dropped without a cancellation |
| `MissionProofs!StartsAreBounded` | a task is started at most as often as the retries around it multiply to |
| `CommandPathProofs!AnswersTellFate` | a command is answered at most once, with its own fate |
| `EndsProofs!RunsAreBounded` | a plan is flown no more often than `MaxAttempts` for each start requested |
| `EndsProofs!StoppedStreamIsSilent` | a stream not asked for sends nothing |
| `EndsProofs!StreamIsForSender` | a stream goes to the host that asked for it |
| `EndsProofs!LinkStateIsTrue` | a link is reported up exactly if it is, but for a packet between two readings |
| `EndsProofs!StreamIsSurveyed` | corrections come from a receiver that has begun its survey |
| `EndsProofs!SurveyIsKept` | a survey that the receiver holds is not started over |
| `LinkProofs!PacketsHandledOnce` | no packet is handled twice |
| `LinkProofs!CorrectionsHandledOnce`, `!FragmentsHandledOnce` | the same with corrections and with blobs on the link |
| `LinkProofs!CorrectionsComeWhole` | what is injected is one correction as it was sent, but for what an incomplete one left |
| `LinkProofs!CorrectionsComeThrough` | a correction of which all fragments came was injected, but for the same and a full last fragment |
| `LinkProofs!BlobsComeIntact` | a blob is handed over no more often than it was sent |
| `LinkProofs!FramesComeWhole` | a camera frame shown is one frame, unless a restart gave a number twice |
| `VehicleProofs!TargetStaysNear` | the target stays near a vehicle that keeps up with it: within two ticks and those that fell into the preparation of its trajectory |
| `VehicleProofs!SettlesAtGoal` | convergence is measured to the end of the last plan, but for a spin after a path and an activation undone |
| `VehicleProofs!ImagesShownOnce` | no image reaches the detectors twice |
| `VehicleProofs!TracksAreApart` | tracks are apart after a callback, but for pairs that a later fusion moved |
| `VehicleProofs!ObservationsAreConserved` | every detection taken is counted by one track |
| `VehicleProofs!FlightIsLogged` | the log of a flight is whole and on disk, unless another took its name |

Every safety property that a passing run checks is the subject of one of these theorems.

Arguments. In `ActionServer`, `worker` is the last goal or the one before and all
before it are resolved: `IInv` in `ActionServerProofs` is the type together with
that.

In `Autopilot`, the type of `todo` is the hard part: each helper is a
concatenation of one-element sequences of operations, `RoutineTypes` and
`ExecuteType` show that of all of them, and `ContinueType` that running the head and
putting a helper's steps in its place keeps the type; then there is one step per
action. The refinement rests on the shape of what the execute thread has left to do
(`WellFormed`): it ends in the one `finish`, holds at most one operation that may
resolve the goal before, and nothing but `holdCurrentPosition` stands between a
cancellation that was seen and its answer. While such an operation is left the goal is
active, and when the list is empty it is not (`GoalsOK`): that is why a join is enough
for the next goal to start. Neither `ResultMatchesStatus` nor the promise is inductive
without it. Then a step of the execute thread is either routine (`Routinely`: goals and
shape untouched), answering (`AnswerKeeps`) or `finish`, a request is one of
`ActionServer`'s, and everything else happens `Elsewhere`. `FreshSession` needs to know
who holds the mode mutex from the lists alone (`SessionInv`): the list of its holder
begins with a stretch that takes no mutex and ends at the one operation that gives it
up; outside of such a stretch every `lock` has its `ensure` next to it and there is no
`start`; and while a `start` is pending there is no timer, for the timer is set only
by an operation that gives the mutex up. `cleanupControlLoop`, which resets the timer
without the mutex, only helps. `HolderInv` adds that the execute thread holds the mutex
over `ensure`, or `restore` and `start`, alone and that the executor has nothing under way
in a join: hence the holder waits for neither the mutex nor the other thread, and the only
wait on a thread, the join, is for one that gets the mutex. What the join does wait for is
a trajectory that nothing controls meanwhile; that is the finding of
`autopilot_safety_blocked`, not a circular wait. `NoGoalIsForgotten` takes from the
promise, by `Serialised` of `ActionServerProofs` under the refinement mapping, that all
earlier goals are answered, and from `GoalsOK` that the last one is answered once
its list is empty. These three are the safety part of `CancelResolves` and `EstopKills`.

In `Mission`, `PlanNotReplaced` is not inductive: that no plan is staged
while one runs (`IInv`) is, because an upload is refused while running and a start
uses the staged plan up. `ImplementsExecutor` maps the published state; every action of
the goals and of the action client is a stutter of `Executor`, and a tick one of its
ticks whatever the plan tree answers.

What the interpreter does to the tree rests on lemmas about trees. The library's
induction theorems cannot be instantiated, but what is needed of them follows from
`OwnershipAssumption`, by which every nonempty set of nodes has one whose children are all
outside of it (`TreeInduction`): that the recursive functions `Below`, `PathFrom`,
`TickNode` and `Rounds` exist and satisfy their equations, that of two nodes above a third
one is below the other (`Comparable`), and that the subtrees of two children share nothing
(`SiblingsApart`). `WalkInv` is what a tick finds: a task that waits lies on the path that
the next tick walks when no condition holds (`WaitsOnPath`), only sequences have moved on
from their first child (`OthersAtFirst`), and one that is at its end is behind the index of
a sequence above it (`EndedIsBehind`). A path has one leaf, and that is `OneTaskWaits`.
`StartsBounded` is far from inductive: a retry that starts over gives every task below it
new starts. `BudgetInv` says of each task that there is an assignment `L` of starts still
allowed to the nodes above it (`MayStart`): a retry has what its child may still start in
this round and a whole round for every attempt left, any other node what its child has,
unless it is a sequence that has passed that child; and the starts so far together with
those left to the root are within the budget. A step that starts the task pays one from
every node above it, a retry that resets its child pays a round.

In `MissionBridge` each run of a plan is counted against a start that was sent
(`StartsAllowed`): runs, starts on the link and the sends that the request in hand has left
are together at most `begun * MaxAttempts`. A message moves from one of these to the next,
and a lost one leaves them. In `CommandPath` a request is at one place at a time: on its way up, a goal without a
response, or behind one goal of the autopilot (`OnePlace`). Leaving the first two
answers it or makes it a goal, and the one callback of the goal's result answers it
after the goal's status has changed for the last time (`Fate`). In `PeerLink` the stream has a transport
only while it is asked for. In `LinkHealth` the time a receive thread notes is that of
the latest arrival (`Latest`), so that one comparison stands for all of them; a noted
time after the clock's makes the difference wrap to more than any timeout, because
`Wrap > MaxClock + LinkTimeout`, which 2^64 meets. In `RtkBase`, `StageKnows` says what
each stage of the reader has found out about the receiver, which stays true while the
serial port it has open works.

In `DedupFilter` the packets that may still come are the `Lag` youngest, and a bit is
cleared `Half` numbers before it is used again. Numbers grow with the packets, except that
two threads may take one number, which sets them back by at most `Overlap` (`Packing`,
`Counter`, `Together`); hence `Lag + Overlap <= Half` is what the filter needs.
`Remembered` then says that the bit of a packet handled is set while a copy of it is under
way. In `RtcmLink`, `Numbered` and `AloftNewest` say that a number is given again only
when the packets that had it are too old to come (`SlotsAssumption`), `Buffered` where each
fragment in a buffer came from, and `KeptInBuffer`, the converse, that what came is in the
buffer. In `MissionTransport` two functions account for what is delivered, from packets to
transfers and from blobs to transfers (`Accounts`); `BlobInv` has them under an existential
quantifier, which spares the model two history variables. In `CameraFrames` the assembler
holds as many fragments of one number as it has counted.

In `PathPlanner` a plan leads to its end in steps of one place (`PlanLeadsToEnd`). A start
that was read is as far from the vehicle as ticks have passed (`StartNear`), and so the plan
made from it; `OnCourse` follows that distance through activation and flight, in each of the
positions in which the two threads can be: a plan that is flown is at most `plan.late` from
the vehicle, two more where the next point has been sampled, one of which the vehicle then
makes up (`Behind`). `Settling` says what a state that is over, or is about to be stored
again, has to do with the settle target. In `CameraRelay` what is kept is newer than
what was published (`KeptIsNewer`). In `DetectionFilter` tracks lie in the order of their
identities (`IdsGrow`), so that a fused track keeps the earlier place and identity, and
the pairs that the pass has had are apart or moved since (`ComparedApart`). An observation
is a pair of an identity and a number; a fusion renumbers those of the later track behind
those of the earlier, which is a bijection (`FusionCounts`). In `FlightLog` the open log
holds the flight so far, and what is on disk has been written.

Assumptions on constants, beside types and bounds, and why the code meets them:

- `OwnershipAssumption`, `TreeAssumption`: nodes own their children by `unique_ptr`
  (`plan.h`) and the parser builds them from nested JSON, so that no node has two parents
  or is below itself; a task has no member for children, a retry and a `run_until` have one.
- `LagAssumption`: an assumption on the link, that nothing overtakes half a ring of
  packets; `dedup_lost` shows what the filter does not give even so.
- `SlotsAssumption`: of the same kind; two packets at least leave for each of the 32 numbers.
- `CrcAssumption`: the checksum tells each blob from the mixtures of its fragments with
  those of others.
- `CorrectionsAssumption`: `MaxFrags` is 4 in the code, and a message that is split has two.
- `WrapAssumption`: the difference of two 64-bit times wraps at 2^64.

Only model-checked: liveness (`WaitResolves`, `CancelResolves`, `EstopKills`,
`LandingEnds`, `PositionLossLands`, `PlanEnds`, `RequestSettles`,
`EveryRequestAnswered`, `StreamStarts`, `PeersFound`, `RadioReadAgain`,
`CorrectionsResume`), for fairness and ENABLED are out of TLAPS' reach.
`BudgetInv` and `BlobInv`, whose quantified functions range over too much for TLC to
enumerate, are proved without having been checked on an instance; the properties that they
imply, and the invariants without such a quantifier, are checked.

## 6. What is not modelled, and why

- Telemetry relay: a conversion of each message into another, without a state.
- Controllers and transformations: continuous control over floating point.
- Sensing, telemetry and payload of the autopilot: each callback stores what it
  received. The failsafe's conditions are chains of comparisons over such values, which
  a model would repeat; in `Autopilot` the conditions come and go freely.
- Probe and marker detection: image processing and a neural network, one image at a
  time. `tracker.py`, which keeps state, is used by no node.
- Drivers of lidar, gimbal and LED: register I/O. The system manager starts processes
  and waits for nothing. `mission_cli` sends the requests that `MissionBridge` takes
  from its client; the other ground station programs are console, joystick, widgets
  and plots.
- Vehicles and launch files: configuration.
- Vendored MAVLink and ulog_cpp: third-party, most of it generated packing code. It is
  by far the larger part of the repository's lines, so that the share of lines that
  the models stand for is small even where a component is complete; of it only the
  sequence number of a channel (`mavlink_helpers.h:253`) is modelled, in `DedupFilter`.

Within modelled parts: JSON's own exceptions and missing parameters (data below the
model), the ground logger (one log, open for ever), the framing of the receiver's
bytes and `ublox_diag.py`, the race on `control_timer_`'s pointer and on the pending
blobs' strings (undefined behaviour whose visible part, the order of the halves, is
modelled), simulated time, a base station told not to configure its receiver
(`configure_receiver: false`, `rtcm_reader.py:132`, which then neither surveys nor enables
the messages), and pauses between the fragments of a blob, which leave in one step of
`MissionTransport`: the link reorders and loses them as it likes.

## 7. Order of work, and what is left

The models were written in the order: command server, mission executor, bridge,
transport; command path, corrections, peers, supervision, camera frames; base station,
relay, filter, logger, planner. The proofs followed: the command server and its
refinement, the two ends of the link; then the link, the nodes of the vehicle and the plan
trees. What is left:

1. `Mission` with the conditions of `run_until` read from telemetry.
2. `MissionBridge` over `MissionTransport` in place of its abstract link.
3. The safety part of further liveness properties: that a pending request always has a
   timer that will look at it.
