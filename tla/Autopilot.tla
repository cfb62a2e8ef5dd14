------------------------------ MODULE Autopilot ------------------------------
(***************************************************************************)
(* The command server of the autopilot node (asr_autopilot/src/main.cpp).  *)
(*                                                                         *)
(* Two threads share the vehicle state:                                    *)
(*   "ros"   the single executor thread of rclcpp::spin, which runs every  *)
(*           timer, subscription and action-server callback to its end     *)
(*           before the next one, and                                      *)
(*   "exec"  execute_thread_, which carries out one UAVCommand goal.       *)
(* StateManager locks each getUAVState and each setUAVState, but not the   *)
(* pair of them, so a callback is a list of micro-operations and the two   *)
(* threads interleave between any two of these.  todo[t] is what thread t  *)
(* has still to do of the function it is in.                               *)
(***************************************************************************)
EXTENDS Integers, Sequences

CONSTANTS
    Commands,        \* the command types clients send in this instance
    Events,          \* what the surroundings do by themselves in this instance
    MaxGoals,        \* bound: goals accepted in one behaviour
    MaxLandReplans,  \* kMaxLandReplans
    RampTicks        \* length of the blind descent's thrust ramp, in ticks

AllCommands == {"arm", "disarm", "takeoff", "goto", "land", "estop", "eland",
    "manual", "manual_aided", "set_origin", "set_linear_speed",
    "set_angular_speed", "spin", "test_multi_waypoint", "rth", "rtl"}

\* PX4 arms or disarms without being asked (a ground station, its own timer),
\* positions stop arriving, a failsafe condition other than the position holds.
AllEvents == {"armed", "disarmed", "positionLost", "fault"}

ASSUME CommandsAssumption == Commands \subseteq AllCommands
ASSUME EventsAssumption == Events \subseteq AllEvents
ASSUME BoundsAssumption ==
    /\ MaxGoals \in Nat
    /\ MaxLandReplans \in Nat
    /\ RampTicks \in Nat \ {0}

Threads == {"ros", "exec"}
FlightMode == {"EMERGENCY_STOP", "LANDED", "STANDBY", "MANUAL", "MANUAL_AIDED",
    "POSITION", "SAFETYLAND_BLIND", "BEGIN_LAND_POSITION", "LAND_POSITION"}
TrajectoryMode == {"INACTIVE", "ACTIVE", "COMPLETED"}
ControlMode == 0..3  \* manual, manual aided, position, blind landing

(***************************************************************************)
(* The fields of UAVState that a decision reads.                           *)
(***************************************************************************)
UAVState == [armed : BOOLEAN, mode : FlightMode, traj : TrajectoryMode,
             converged : BOOLEAN, stalled : BOOLEAN]

\* A default-constructed UAVState; also a local variable that holds nothing.
Blank == [armed |-> FALSE, mode |-> "STANDBY", traj |-> "INACTIVE",
          converged |-> FALSE, stalled |-> FALSE]

VARIABLES
    uav,          \* uav_state_ of the StateManager
    controlTimer, \* control_timer_ is set: controlLoop runs every 10 ms
    controlMode,  \* current_control_mode_
    modeMutex,    \* holder of current_control_mode_mutex_, or "free"
    landReplans,  \* land_replan_count_
    landClock,    \* ticks since safety_land_start_time_; -1: still the epoch
    todo,         \* per thread: the micro-operations left
    copy,         \* per thread: the local UAVState of the running function
    scratch,      \* per thread: the local UAVState of a helper it calls
    goals,        \* the accepted goals, oldest first
    joining,      \* the executor is inside handleAccepted, joining the thread
    px4Armed,     \* PX4's own arming state
    px4Cmd,       \* the last arm or disarm command PX4 has not acted on
    posFresh      \* positions arrive within position_timeout_threshold_

flight == <<controlTimer, controlMode, modeMutex, landReplans, landClock>>
server == <<goals, joining>>
env == <<px4Armed, px4Cmd, posFresh>>
vars == <<uav, flight, todo, copy, scratch, server, env>>

ControlModeOf == [manual |-> 0, aided |-> 1, pos |-> 2, blind |-> 3]

PlainOp == {"read", "ensure", "start", "unlock", "save", "restore", "cleanup",
    "reset", "kill", "disarm", "arm", "awaitArm", "activate", "poll", "settled",
    "hold", "resolveCanceled", "thenLand", "landIfBegun", "descend", "finish",
    "idle", "dispatch", "position", "blind", "safety", "store"}

Op == [op : PlainOp, arg : {"none"}]
        \cup [op : {"mode"}, arg : FlightMode]
        \cup [op : {"lock"}, arg : DOMAIN ControlModeOf]
        \cup [op : {"status"}, arg : {"armed", "disarmed"}]

Do(o) == <<[op |-> o, arg |-> "none"]>>
DoWith(o, a) == <<[op |-> o, arg |-> a]>>

(***************************************************************************)
(* Functions both threads call, as the micro-operations they perform.      *)
(***************************************************************************)
SetUAVMode(m) == Do("read") \o DoWith("mode", m)

EnsureControlLoopRunning(k) ==
    DoWith("lock", k) \o Do("ensure")

CleanupControlLoop == Do("cleanup")
PlanLandingDescent == Do("read") \o Do("descend")
LandPositionMode == Do("read") \o Do("landIfBegun")
ActivateTrajectory == Do("read") \o Do("activate")
HoldCurrentPosition == Do("read") \o Do("hold")

BeginLanding == SetUAVMode("BEGIN_LAND_POSITION")
                  \o EnsureControlLoopRunning("pos") \o LandPositionMode

FlyTrajectory == SetUAVMode("POSITION") \o EnsureControlLoopRunning("pos")
                   \o ActivateTrajectory

(***************************************************************************)
(* execute: the body run for each command type.                            *)
(***************************************************************************)
Body(c) ==
    CASE c = "estop" -> SetUAVMode("EMERGENCY_STOP") \o Do("kill") \o CleanupControlLoop
      [] c = "eland" -> EnsureControlLoopRunning("blind")
      [] c = "arm" -> Do("arm") \o Do("awaitArm")
      [] c = "disarm" -> Do("disarm") \o CleanupControlLoop
      [] c \in {"takeoff", "goto", "spin", "rth"} -> FlyTrajectory \o Do("poll")
      [] c = "rtl" -> FlyTrajectory \o Do("poll") \o Do("thenLand")
      [] c = "test_multi_waypoint" -> FlyTrajectory
      [] c = "manual" -> CleanupControlLoop \o SetUAVMode("MANUAL")
                           \o EnsureControlLoopRunning("manual")
      [] c = "manual_aided" -> SetUAVMode("MANUAL_AIDED")
                           \o EnsureControlLoopRunning("aided")
      [] c = "land" -> BeginLanding
      [] OTHER -> Do("idle")  \* set_origin and the speed settings

Execute(c) == Body(c) \o Do("finish")

(***************************************************************************)
(* handleUAVCommand: the state-dependent part of the accept decision.  A   *)
(* rejection, for this or for a bad parameter, changes nothing.            *)
(***************************************************************************)
Accepts(c, s) ==
    /\ c = "arm" => ~s.armed
    /\ c = "disarm" => s.armed
    /\ c \in {"set_origin", "set_linear_speed", "set_angular_speed"} => ~s.armed
    /\ c \in {"spin", "takeoff", "goto", "test_multi_waypoint", "rth", "rtl",
              "manual", "manual_aided"} => s.armed
    /\ c = "manual" => s.mode # "MANUAL"
    /\ c = "manual_aided" => s.mode # "MANUAL_AIDED"
    /\ c = "takeoff" => s.mode \in {"LANDED", "STANDBY"}

GoalStatus == {"executing", "canceling", "succeeded", "canceled"}
Outcome == {"none", "reached", "stalled", "canceled", "armed", "timeout", "done"}
Goal == [command : AllCommands, status : GoalStatus, outcome : Outcome]

Active(g) == goals[g].status \in {"executing", "canceling"}

\* The goal execute_thread_ was last started for; 0 before the first.
Running == IF joining THEN Len(goals) - 1 ELSE Len(goals)

-----------------------------------------------------------------------------
Init ==
    /\ uav = Blank
    /\ controlTimer = FALSE
    /\ controlMode \in ControlMode  \* not initialised by the constructor
    /\ modeMutex = "free"
    /\ landReplans = 0
    /\ landClock = -1
    /\ todo = [t \in Threads |-> <<>>]
    /\ copy = [t \in Threads |-> Blank]
    /\ scratch = [t \in Threads |-> Blank]
    /\ goals = <<>>
    /\ joining = FALSE
    /\ px4Armed = FALSE
    /\ px4Cmd = "none"
    /\ posFresh = TRUE

-----------------------------------------------------------------------------
(***************************************************************************)
(* Micro-operations.                                                       *)
(***************************************************************************)
At(t, o) == todo[t] # <<>> /\ Head(todo[t]).op = o
Arg(t) == Head(todo[t]).arg
Continue(t, ops) == todo' = [todo EXCEPT ![t] = ops \o Tail(@)]
Advance(t) == Continue(t, <<>>)
DropCopy(t) == copy' = [copy EXCEPT ![t] = Blank]
DropScratch(t) == scratch' = [scratch EXCEPT ![t] = Blank]

\* getUAVState into the function's local variable.
Read(t) ==
    /\ At(t, "read")
    /\ copy' = [copy EXCEPT ![t] = uav]
    /\ Advance(t)
    /\ UNCHANGED <<uav, flight, scratch, server, env>>

\* setUAVMode writes back the state it read, when the mode differs.
WriteMode(t) ==
    /\ At(t, "mode")
    /\ uav' = IF copy[t].mode # Arg(t) THEN [copy[t] EXCEPT !.mode = Arg(t)] ELSE uav
    /\ DropCopy(t)
    /\ Advance(t)
    /\ UNCHANGED <<flight, scratch, server, env>>

\* cleanupControlLoop, ensureControlLoopRunning and controlLoop read the state
\* and write it back with new time stamps.
Save(t) ==
    /\ At(t, "save")
    /\ scratch' = [scratch EXCEPT ![t] = uav]
    /\ Advance(t)
    /\ UNCHANGED <<uav, flight, copy, server, env>>

Restore(t) ==
    /\ At(t, "restore")
    /\ uav' = scratch[t]
    /\ DropScratch(t)
    /\ Advance(t)
    /\ UNCHANGED <<flight, copy, server, env>>

\* Variant: the mode is changed without the mutex.
LockUnguarded(t) ==
    /\ At(t, "lock")
    /\ modeMutex' = t
    /\ controlMode' = ControlModeOf[Arg(t)]
    /\ scratch' = [scratch EXCEPT ![t] = uav]
    /\ Advance(t)
    /\ UNCHANGED <<uav, controlTimer, landReplans, landClock, copy, server, env>>

\* ensureControlLoopRunning holds the mode mutex from here to its end.
Lock(t) ==
    /\ At(t, "lock")
    /\ modeMutex = "free"
    /\ modeMutex' = t
    /\ controlMode' = ControlModeOf[Arg(t)]
    /\ scratch' = [scratch EXCEPT ![t] = uav]
    /\ Advance(t)
    /\ UNCHANGED <<uav, controlTimer, landReplans, landClock, copy, server, env>>

Ensure(t) ==
    /\ At(t, "ensure")
    /\ IF ~controlTimer /\ scratch[t].armed
         THEN /\ Continue(t, Do("restore") \o Do("start"))
              /\ UNCHANGED <<scratch, modeMutex>>
         ELSE /\ Advance(t)
              /\ DropScratch(t)
              /\ modeMutex' = "free"
    /\ UNCHANGED <<uav, controlTimer, controlMode, landReplans, landClock,
                   copy, server, env>>

StartTimer(t) ==
    /\ At(t, "start")
    /\ controlTimer' = TRUE
    /\ modeMutex' = "free"
    /\ Advance(t)
    /\ UNCHANGED <<uav, controlMode, landReplans, landClock, copy, scratch, server, env>>

Unlock(t) ==
    /\ At(t, "unlock")
    /\ modeMutex' = "free"
    /\ Advance(t)
    /\ UNCHANGED <<uav, controlTimer, controlMode, landReplans, landClock,
                   copy, scratch, server, env>>

Cleanup(t) ==
    /\ At(t, "cleanup")
    /\ Continue(t, IF controlTimer THEN Do("save") \o Do("restore") \o Do("reset")
                                   ELSE <<>>)
    /\ UNCHANGED <<uav, flight, copy, scratch, server, env>>

ResetTimer(t) ==
    /\ At(t, "reset")
    /\ controlTimer' = FALSE
    /\ Advance(t)
    /\ UNCHANGED <<uav, controlMode, modeMutex, landReplans, landClock,
                   copy, scratch, server, env>>

\* Variant: disarm(true) forgets the kill parameter.
SendCommandPlain(t, c) ==
    /\ At(t, c)
    /\ px4Cmd' = IF c = "kill" THEN "disarm" ELSE c
    /\ px4Armed' = (px4Armed /\ px4Cmd # "kill")
    /\ Advance(t)
    /\ UNCHANGED <<uav, flight, copy, scratch, server, posFresh>>

\* arm(), disarm() and disarm(true): a vehicle command to PX4, which gets the
\* commands in order: a kill that is still under way is not lost to the next one.
SendCommand(t, c) ==
    /\ At(t, c)
    /\ px4Cmd' = c
    /\ px4Armed' = (px4Armed /\ px4Cmd # "kill")
    /\ Advance(t)
    /\ UNCHANGED <<uav, flight, copy, scratch, server, posFresh>>

\* landPositionMode: only a landing that has just begun is planned.
LandIfBegun(t) ==
    /\ At(t, "landIfBegun")
    /\ IF copy[t].mode = "BEGIN_LAND_POSITION"
         THEN landReplans' = 0 /\ Continue(t, PlanLandingDescent)
         ELSE UNCHANGED landReplans /\ Advance(t)
    /\ DropCopy(t)
    /\ UNCHANGED <<uav, controlTimer, controlMode, modeMutex, landClock,
                   scratch, server, env>>

Descend(t) ==
    /\ At(t, "descend")
    /\ uav' = [copy[t] EXCEPT !.mode = "LAND_POSITION", !.traj = "ACTIVE"]
    /\ DropCopy(t)
    /\ Advance(t)
    /\ UNCHANGED <<flight, scratch, server, env>>

SharedStep(t) ==
    \/ Read(t) \/ WriteMode(t) \/ Save(t) \/ Restore(t)
    \/ Lock(t) \/ Ensure(t) \/ StartTimer(t) \/ Unlock(t)
    \/ Cleanup(t) \/ ResetTimer(t)
    \/ SendCommand(t, "arm") \/ SendCommand(t, "disarm") \/ SendCommand(t, "kill")
    \/ LandIfBegun(t) \/ Descend(t)

-----------------------------------------------------------------------------
(***************************************************************************)
(* Steps of the execute thread only.                                       *)
(***************************************************************************)
EndsAs(o) == goals' = [goals EXCEPT ![Running] = [@ EXCEPT !.outcome = o]]
Resolve(s, o) == goals' = [goals EXCEPT ![Running] = [@ EXCEPT !.status = s, !.outcome = o]]

\* executeArm polls for the arming state that only vehicleStatusCallback sets.
AwaitArm ==
    /\ At("exec", "awaitArm")
    /\ \/ /\ goals[Running].status = "canceling"
          /\ Resolve("canceled", "canceled")
       \/ uav.armed /\ EndsAs("armed")
       \/ ~uav.armed /\ EndsAs("timeout")  \* kArmTimeout has passed
    /\ Advance("exec")
    /\ UNCHANGED <<uav, flight, copy, scratch, joining, env>>

\* activateTrajectory clears the outcome of the manoeuvre before.
WriteActivate ==
    /\ At("exec", "activate")
    /\ uav' = [copy["exec"] EXCEPT !.traj = "ACTIVE", !.converged = FALSE,
                                   !.stalled = FALSE]
    /\ DropCopy("exec")
    /\ Advance("exec")
    /\ UNCHANGED <<flight, scratch, server, env>>

\* Variant: the wait never looks for a cancel.
PollNoCancel ==
    /\ At("exec", "poll")
    /\ Continue("exec", Do("settled"))
    /\ UNCHANGED <<uav, flight, copy, scratch, server, env>>

\* waitForTrajectoryCompletion: a round looks for a cancel first ...
Poll ==
    /\ At("exec", "poll")
    /\ IF goals[Running].status = "canceling"
         THEN Continue("exec", HoldCurrentPosition \o Do("resolveCanceled"))
         ELSE Continue("exec", Do("settled"))
    /\ UNCHANGED <<uav, flight, copy, scratch, server, env>>

\* Variant: the wait ends only on convergence.
SettledConverged ==
    /\ At("exec", "settled")
    /\ IF uav.converged
         THEN EndsAs("reached") /\ Advance("exec")
         ELSE UNCHANGED goals /\ Continue("exec", Do("poll"))
    /\ UNCHANGED <<uav, flight, copy, scratch, joining, env>>

\* ... and then at the settle outcome.
Settled ==
    /\ At("exec", "settled")
    /\ IF uav.converged \/ uav.stalled
         THEN /\ EndsAs(IF uav.converged THEN "reached" ELSE "stalled")
              /\ Advance("exec")
         ELSE UNCHANGED goals /\ Continue("exec", Do("poll"))
    /\ UNCHANGED <<uav, flight, copy, scratch, joining, env>>

\* holdCurrentPosition marks the abandoned trajectory converged.
WriteHold ==
    /\ At("exec", "hold")
    /\ uav' = [copy["exec"] EXCEPT !.traj = "COMPLETED", !.converged = TRUE,
                                   !.stalled = FALSE]
    /\ DropCopy("exec")
    /\ Advance("exec")
    /\ UNCHANGED <<flight, scratch, server, env>>

ResolveCanceled ==
    /\ At("exec", "resolveCanceled")
    /\ Resolve("canceled", "canceled")
    /\ Advance("exec")
    /\ UNCHANGED <<uav, flight, copy, scratch, joining, env>>

\* executeRtl lands only after a transit that reached home.
ThenLand ==
    /\ At("exec", "thenLand")
    /\ Continue("exec", IF goals[Running].outcome = "reached" THEN BeginLanding ELSE <<>>)
    /\ UNCHANGED <<uav, flight, copy, scratch, server, env>>

Idle ==
    /\ At("exec", "idle")
    /\ Advance("exec")
    /\ UNCHANGED <<uav, flight, copy, scratch, server, env>>

Ending(g) == IF goals[g].outcome = "none" THEN "done" ELSE goals[g].outcome

\* Variant: execute succeeds every goal, without the is_active test.
FinishUnguarded ==
    /\ At("exec", "finish")
    /\ Resolve("succeeded", Ending(Running))
    /\ Advance("exec")
    /\ UNCHANGED <<uav, flight, copy, scratch, joining, env>>

\* The tail of execute: succeed a goal that is not resolved yet; the thread ends.
Finish ==
    /\ At("exec", "finish")
    /\ IF Active(Running) THEN Resolve("succeeded", Ending(Running)) ELSE UNCHANGED goals
    /\ Advance("exec")
    /\ UNCHANGED <<uav, flight, copy, scratch, joining, env>>

ExecStep ==
    \/ SharedStep("exec")
    \/ AwaitArm \/ WriteActivate \/ Poll \/ Settled \/ WriteHold
    \/ ResolveCanceled \/ ThenLand \/ Idle \/ Finish

-----------------------------------------------------------------------------
(***************************************************************************)
(* Callbacks of the executor thread.  One starts only when none is running. *)
(***************************************************************************)
ExecutorFree == todo["ros"] = <<>> /\ ~joining
Call(ops) == ExecutorFree /\ todo' = [todo EXCEPT !["ros"] = ops]

\* handleUAVCommand accepts on the state it reads; handleAccepted then joins.
HandleUAVCommand(c) ==
    /\ ExecutorFree
    /\ Len(goals) < MaxGoals
    /\ Accepts(c, uav)
    /\ goals' = Append(goals, [command |-> c, status |-> "executing", outcome |-> "none"])
    /\ joining' = TRUE
    /\ UNCHANGED <<uav, flight, todo, copy, scratch, env>>

\* Variant: a new thread is started without joining the one before.
HandleAcceptedDetached ==
    /\ joining
    /\ todo' = [todo EXCEPT !["exec"] = Execute(goals[Len(goals)].command)]
    /\ joining' = FALSE
    /\ UNCHANGED <<uav, flight, copy, scratch, goals, env>>

\* handleAccepted: join the thread of the goal before, start one for this goal.
HandleAccepted ==
    /\ joining
    /\ todo["exec"] = <<>>
    /\ todo' = [todo EXCEPT !["exec"] = Execute(goals[Len(goals)].command)]
    /\ joining' = FALSE
    /\ UNCHANGED <<uav, flight, copy, scratch, goals, env>>

\* handleCancel always accepts the cancellation of a goal in progress.
HandleCancel(g) ==
    /\ ExecutorFree
    /\ g \in DOMAIN goals
    /\ goals[g].status = "executing"
    /\ goals' = [goals EXCEPT ![g] = [@ EXCEPT !.status = "canceling"]]
    /\ UNCHANGED <<uav, flight, todo, copy, scratch, joining, env>>

ControlLoop ==
    /\ controlTimer
    /\ Call(Do("restore") \o Do("dispatch"))
    /\ scratch' = [scratch EXCEPT !["ros"] = uav]
    /\ UNCHANGED <<uav, flight, copy, server, env>>

\* controlLoop holds the mode mutex while the mode function runs.
Dispatch ==
    /\ At("ros", "dispatch")
    /\ modeMutex = "free"
    /\ IF controlMode \in {2, 3}
         THEN /\ modeMutex' = "ros"
              /\ copy' = [copy EXCEPT !["ros"] = uav]
              /\ Continue("ros", Do(IF controlMode = 2 THEN "position" ELSE "blind")
                                   \o Do("unlock"))
         ELSE UNCHANGED <<modeMutex, copy>> /\ Advance("ros")  \* the manual modes
    /\ UNCHANGED <<uav, controlTimer, controlMode, landReplans, landClock,
                   scratch, server, env>>

Landing(s) == s.mode = "LAND_POSITION"

(***************************************************************************)
(* positionAndVelocityControl.  Whether the time of the trajectory is up,  *)
(* the ground is near and the vehicle has settled is the vehicle's doing.  *)
(***************************************************************************)
AtPosition(traj) == At("ros", "position") /\ copy["ros"].traj = traj
PositionDone == /\ DropCopy("ros")
                /\ UNCHANGED <<controlTimer, controlMode, modeMutex, landClock,
                               scratch, server, env>>

\* No trajectory, one still being flown, or a settling that has not ended.
NothingNew ==
    /\ At("ros", "position")
    /\ Landing(copy["ros"]) => copy["ros"].traj # "COMPLETED"
    /\ Advance("ros")
    /\ UNCHANGED <<uav, landReplans>>
    /\ PositionDone

TrajectoryCompletes ==
    /\ AtPosition("ACTIVE")
    /\ uav' = [copy["ros"] EXCEPT !.traj = "COMPLETED", !.converged = FALSE,
                                  !.stalled = FALSE]
    /\ Advance("ros")
    /\ UNCHANGED landReplans
    /\ PositionDone

\* Variants: replans are not limited; replans are not counted.
ReplanLandingAlways ==
    /\ AtPosition("COMPLETED") /\ Landing(copy["ros"])
    /\ landReplans' = landReplans + 1
    /\ Continue("ros", PlanLandingDescent)
    /\ UNCHANGED uav
    /\ PositionDone

ReplanLandingUncounted ==
    /\ AtPosition("COMPLETED") /\ Landing(copy["ros"])
    /\ landReplans < MaxLandReplans
    /\ Continue("ros", PlanLandingDescent)
    /\ UNCHANGED <<uav, landReplans>>
    /\ PositionDone

\* The descent is over, but no fresh reading shows the ground.
ReplanLanding ==
    /\ AtPosition("COMPLETED") /\ Landing(copy["ros"])
    /\ landReplans < MaxLandReplans
    /\ landReplans' = landReplans + 1
    /\ Continue("ros", PlanLandingDescent)
    /\ UNCHANGED uav
    /\ PositionDone

\* The descent is over: down, or out of replans.
TouchDown ==
    /\ AtPosition("COMPLETED") /\ Landing(copy["ros"])
    /\ uav' = [copy["ros"] EXCEPT !.mode = "LANDED", !.armed = FALSE]
    /\ Continue("ros", Do("kill") \o CleanupControlLoop)
    /\ UNCHANGED landReplans
    /\ PositionDone

\* Within the tolerance of the target, or no better for kStallTimeout.
SettleEnds ==
    /\ AtPosition("COMPLETED") /\ ~Landing(copy["ros"])
    /\ ~copy["ros"].converged /\ ~copy["ros"].stalled
    /\ \/ uav' = [copy["ros"] EXCEPT !.converged = TRUE]
       \/ uav' = [copy["ros"] EXCEPT !.stalled = TRUE]
    /\ Advance("ros")
    /\ UNCHANGED landReplans
    /\ PositionDone

Position == NothingNew \/ TrajectoryCompletes \/ ReplanLanding \/ TouchDown \/ SettleEnds

\* The ramp's exponential has come within 0.02 of the final thrust.  A start
\* time that was never set is the epoch, from which any time has elapsed.
RampFinished == landClock \in {-1, RampTicks}

\* safetyLandBlindMode
Blind ==
    /\ At("ros", "blind")
    /\ IF copy["ros"].mode # "SAFETYLAND_BLIND"
         THEN /\ uav' = [copy["ros"] EXCEPT !.mode = "SAFETYLAND_BLIND"]
              /\ landClock' = 0
              /\ Advance("ros")
         ELSE /\ Continue("ros", IF RampFinished THEN Do("kill") \o CleanupControlLoop
                                                 ELSE <<>>)
              /\ UNCHANGED <<uav, landClock>>
    /\ DropCopy("ros")
    /\ UNCHANGED <<controlTimer, controlMode, modeMutex, landReplans, scratch, server, env>>

SafetyCheckCallback ==
    /\ Call(Do("safety"))
    /\ copy' = [copy EXCEPT !["ros"] = uav]
    /\ UNCHANGED <<uav, flight, scratch, server, env>>

\* Variant: a landing skips the position check as it does the others.
SafetyIdleWhileLanding(fault) ==
    /\ At("ros", "safety")
    /\ LET s == copy["ros"]
           skip == ~s.armed \/ s.mode \in {"SAFETYLAND_BLIND", "LANDED"} \/ Landing(s)
       IN Continue("ros",
            CASE ~skip /\ ~posFresh ->
                   SetUAVMode("SAFETYLAND_BLIND") \o EnsureControlLoopRunning("blind")
              [] ~skip /\ posFresh /\ fault -> BeginLanding
              [] OTHER -> <<>>)
    /\ DropCopy("ros")
    /\ UNCHANGED <<uav, flight, scratch, server, env>>

\* fault: this check finds the heartbeat stale, the battery low or silent, or the
\* geofence violated.  The first two are not looked at while landing, and a fault
\* changes nothing then.
Safety(fault) ==
    /\ At("ros", "safety")
    /\ LET s == copy["ros"]
           skip == ~s.armed \/ s.mode \in {"SAFETYLAND_BLIND", "LANDED"}
       IN Continue("ros",
            CASE ~skip /\ ~posFresh ->
                   SetUAVMode("SAFETYLAND_BLIND") \o EnsureControlLoopRunning("blind")
              [] ~skip /\ posFresh /\ fault /\ ~Landing(s) -> BeginLanding
              [] OTHER -> <<>>)
    /\ DropCopy("ros")
    /\ UNCHANGED <<uav, flight, scratch, server, env>>

\* vehicleStatusCallback, for a message that carries PX4's arming state.
VehicleStatusCallback ==
    /\ Call(DoWith("status", IF px4Armed THEN "armed" ELSE "disarmed"))
    /\ copy' = [copy EXCEPT !["ros"] = uav]
    /\ UNCHANGED <<uav, flight, scratch, server, env>>

\* The state to store is computed here, and stored after the cleanup.
Status ==
    /\ At("ros", "status")
    /\ LET s == copy["ros"]
           arming == ~s.armed /\ Arg("ros") = "armed"
           disarming == s.armed /\ Arg("ros") = "disarmed"
           standby == \/ disarming /\ s.mode # "EMERGENCY_STOP"
                      \/ arming /\ s.mode = "EMERGENCY_STOP"
       IN /\ copy' = [copy EXCEPT !["ros"].armed = (Arg("ros") = "armed"),
                                  !["ros"].mode = IF standby THEN "STANDBY" ELSE @]
          /\ Continue("ros", IF arming \/ disarming THEN CleanupControlLoop \o Do("store")
                                                    ELSE Do("store"))
    /\ UNCHANGED <<uav, flight, scratch, server, env>>

Store ==
    /\ At("ros", "store")
    /\ uav' = copy["ros"]
    /\ DropCopy("ros")
    /\ Advance("ros")
    /\ UNCHANGED <<flight, scratch, server, env>>

RosStep ==
    \/ SharedStep("ros")
    \/ Dispatch \/ Position \/ Blind \/ Status \/ Store
    \/ \E fault \in BOOLEAN : (fault => "fault" \in Events) /\ Safety(fault)
    \/ HandleAccepted

-----------------------------------------------------------------------------
(***************************************************************************)
(* The surroundings: PX4, the sensors, the link and the passing of time.   *)
(***************************************************************************)
\* PX4 acts on a command: it may refuse to arm, or to disarm without kill.
Px4Act ==
    /\ px4Cmd # "none"
    /\ px4Armed' \in CASE px4Cmd = "kill" -> {FALSE}
                       [] px4Cmd = "arm" -> {TRUE, px4Armed}
                       [] OTHER -> {FALSE, px4Armed}
    /\ px4Cmd' = "none"
    /\ UNCHANGED <<uav, flight, todo, copy, scratch, server, posFresh>>

\* PX4 is armed by another station, or disarms itself after an unused arming.
Px4Changes ==
    /\ (IF px4Armed THEN "disarmed" ELSE "armed") \in Events
    /\ px4Armed' = ~px4Armed
    /\ UNCHANGED <<uav, flight, todo, copy, scratch, server, px4Cmd, posFresh>>

PositionChanges ==
    /\ "positionLost" \in Events
    /\ posFresh' = ~posFresh
    /\ UNCHANGED <<uav, flight, todo, copy, scratch, server, px4Armed, px4Cmd>>

ClockTick ==
    /\ landClock \in 0..RampTicks - 1
    /\ landClock' = landClock + 1
    /\ UNCHANGED <<uav, controlTimer, controlMode, modeMutex, landReplans,
                   todo, copy, scratch, server, env>>

Next ==
    \/ ExecStep
    \/ RosStep
    \/ \E c \in Commands : HandleUAVCommand(c)
    \/ \E g \in 1..MaxGoals : HandleCancel(g)
    \/ ControlLoop \/ SafetyCheckCallback \/ VehicleStatusCallback
    \/ Px4Act \/ Px4Changes \/ PositionChanges \/ ClockTick

Spec == Init /\ [][Next]_vars

(***************************************************************************)
(* Both threads keep running, the executor serves every timer and message  *)
(* that stays due (rclcpp takes the ready entities in turn), PX4 answers   *)
(* and time passes: a trajectory's duration elapses and a settling ends by *)
(* kStallTimeout.  A thread that waits for the mode mutex gets it: the     *)
(* control loop holds it for a fraction of its 10 ms period.  Nothing is   *)
(* assumed of clients, sensors or the link.                                *)
(***************************************************************************)
Fairness ==
    /\ WF_vars(ExecStep)
    /\ SF_vars(Lock("exec"))
    /\ WF_vars(RosStep)
    /\ SF_vars(ControlLoop)
    /\ SF_vars(SafetyCheckCallback)
    /\ SF_vars(VehicleStatusCallback)
    /\ SF_vars(TrajectoryCompletes)
    /\ SF_vars(SettleEnds)
    /\ WF_vars(Px4Act)
    /\ WF_vars(ClockTick)

FairSpec == Spec /\ Fairness

-----------------------------------------------------------------------------
TypeOK ==
    /\ uav \in UAVState
    /\ controlTimer \in BOOLEAN
    /\ controlMode \in ControlMode
    /\ modeMutex \in Threads \cup {"free"}
    /\ landReplans \in 0..MaxLandReplans
    /\ landClock \in -1..RampTicks
    /\ todo \in [Threads -> Seq(Op)]
    /\ copy \in [Threads -> UAVState]
    /\ scratch \in [Threads -> UAVState]
    /\ goals \in Seq(Goal)
    /\ Len(goals) <= MaxGoals
    /\ joining \in BOOLEAN
    /\ joining => Len(goals) > 0
    /\ px4Armed \in BOOLEAN
    /\ px4Cmd \in {"none", "arm", "disarm", "kill"}
    /\ posFresh \in BOOLEAN

(***************************************************************************)
(* Goals.                                                                  *)
(***************************************************************************)
\* Goals are worked on one at a time in the order of their acceptance, resolved
\* once and not canceled unasked: handleAccepted's join and execute's is_active
\* test keep what module ActionServer promises.
Promise == INSTANCE ActionServer WITH
    status <- [g \in DOMAIN goals |-> goals[g].status],
    worker <- Running

ActionServerSpec == Promise!Spec

\* What a client is told agrees with how its goal ended.
ResultMatchesStatus ==
    \A g \in DOMAIN goals :
        /\ goals[g].status = "canceled" <=> goals[g].outcome = "canceled"
        /\ goals[g].status = "succeeded" => goals[g].outcome # "none"

\* A cancel request ends the goal, even while the executor is blocked in a join.
CancelResolves ==
    \A g \in 1..MaxGoals :
        (g \in DOMAIN goals /\ goals[g].status = "canceling")
            ~> (g \in DOMAIN goals /\ ~Active(g))

Waiting == At("exec", "poll") \/ At("exec", "settled")

\* A goal that waits for its trajectory is resolved as long as the position
\* controller has that trajectory to fly: no landing took its place, and no stale
\* state that another thread wrote back undid its activation.
WaitResolves ==
    Waiting ~> (\/ ~Waiting \/ joining \/ Landing(uav) \/ uav.traj = "INACTIVE"
                \/ ~controlTimer \/ controlMode # 2)

\* A landing under way ends: it is completed within the replans, or something
\* else takes the vehicle over.
LandingEnds ==
    (Landing(uav) /\ controlTimer /\ controlMode = 2)
        ~> (~Landing(uav) \/ ~controlTimer \/ controlMode # 2 \/ joining)

PositionLost == uav.armed /\ ~posFresh /\ uav.mode # "LANDED"
FailsafeActs == posFresh \/ ~uav.armed \/ uav.mode \in {"SAFETYLAND_BLIND", "LANDED"}

\* Lost positions lead to the blind landing, unless handleAccepted blocks the
\* thread the safety timer runs on.
PositionLossLands == PositionLost ~> (FailsafeActs \/ joining)

\* The same without that exception: "The (5 Hz) safety timer independently
\* escalates to blind land when position-timeout checking is enabled" (1133).
SafetyTimerIndependent == PositionLost ~> FailsafeActs

\* An accepted estop has PX4 told to kill the motors, unless the goal whose thread
\* it joins is waiting for its trajectory.
EstopKills ==
    (joining /\ goals[Len(goals)].command = "estop") ~> (px4Cmd = "kill" \/ Waiting)

(***************************************************************************)
(* The vehicle.                                                            *)
(***************************************************************************)
\* "Safe to touch here -- control_timer_ is null (controlLoop not running) and we
\* hold current_control_mode_mutex_" (1328): a control session starts with no timer
\* and outside the mode function of the control loop.
FreshSession ==
    \A t \in Threads :
        At(t, "start") => /\ ~controlTimer
                          /\ modeMutex = t
                          /\ ~(t = "exec" /\ (At("ros", "position") \/ At("ros", "blind")))

\* "Clear any leftover outcome from the previous maneuver, or
\* waitForTrajectoryCompletion would see a stale settle_converged" (1760): while a
\* trajectory is active, only holdCurrentPosition makes the state converged.
NoStaleSettle ==
    [][(uav.traj = "ACTIVE" /\ ~uav.converged /\ uav'.converged) => At("exec", "hold")]_vars

\* "Hold the current attitude while ramping thrust down (blind descent)" (1378): the
\* step of safetyLandBlindMode that goes on to kill the motors finds the ramp's clock at
\* its end.
BlindDescentRamps ==
    [][(At("ros", "blind") /\ At("ros", "kill")') => landClock = RampTicks]_vars
=============================================================================
