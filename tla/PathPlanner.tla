---------------------------- MODULE PathPlanner ----------------------------
(***************************************************************************)
(* The handover of a trajectory from the thread that plans it to the one   *)
(* that flies it (asr_autopilot, path_planner.cpp and main.cpp).  Each     *)
(* call of the PathPlanner holds its lock, and so does each of the state   *)
(* manager's.  But a plan takes three of them: where the vehicle is, the   *)
(* trajectory from there, its activation.  A tick of the control loop      *)
(* takes up to seven: the state, which it stores with a new flight time;   *)
(* the state again, how long the trajectory is, the state, to store it, if *)
(* it is over, its length again, and a point of it.  Two threads           *)
(* interleave between any two of these: the one that executes a goal       *)
(* ("exec"), and the executor's ("ros"), which runs the control loop and,  *)
(* when it is not running that, plans the landings of the failsafe and the *)
(* replans.                                                                *)
(*                                                                         *)
(* A trajectory has ends and a duration.  In between the polynomial is     *)
(* replaced by a straight line on one axis, flown at one place a tick.     *)
(* Modelled is one session of the control loop in its position mode.  Left *)
(* to Autopilot are a disarm and an arm, which set the target too, and     *)
(* setUAVMode's store, on the execute thread, of a state it read before;   *)
(* left open is which flight mode a state that is over belongs to.         *)
(***************************************************************************)
EXTENDS Integers, Sequences, FiniteSetsExt

CONSTANTS
    Targets,   \* the places a goto or a landing can lead to
    Leg,       \* the length of a leg of test_multi_waypoint, as a multiple of a place
    MaxSpin,   \* bound: duration of a spin, in ticks
    MaxPlans,  \* bound: trajectories planned before the last one is begun
    MaxLate    \* bound: ticks that fall into the preparation of one trajectory

ASSUME PlannerAssumption ==
    /\ Targets \subseteq Int
    /\ Leg \in Nat \ {0} /\ MaxSpin \in Nat /\ MaxPlans \in Nat /\ MaxLate \in Nat

VARIABLES
    planner,    \* is_multi_waypoint_, segments, the multi-waypoint path, total_time
    trajectory, \* UAVState: trajectory_mode, time since trajectory_start_time_, a settle
                \* flag; and, as history, the number of the plan it was activated for
    planning,   \* where each thread's plan stands: its kind, the position it read, and, as
                \* history, the ticks since then
    tick,       \* where the control loop's tick stands, its uav_state, its dt
    target,     \* target_position_profile_
    settle,     \* settle_target_position_
    place,      \* the vehicle
    plan,       \* history: the latest plan's number and end; the ticks its preparation
                \* has taken, plus two for a hold since; whether it is a spin on a path;
                \* whether a callback stored a state from before its activation
    aim         \* history: plan.late of the plan that gave the target; whether the tick
                \* had the elapsed time of another plan, or the plan is a spin on a path

plannerVars == <<planner, trajectory, planning, tick, target, settle, place, plan, aim>>

Planners == {"exec", "ros"}
Idle == [pc |-> "idle", kind |-> "none", from |-> 0, late |-> 0]
NoTrajectory == [mode |-> "INACTIVE", elapsed |-> 0, settled |-> FALSE, of |-> 0]
Between == [pc |-> "between", copy |-> NoTrajectory, time |-> 0]

PlannerInit ==
    /\ planner = [multi |-> FALSE, segment |-> [from |-> 0, to |-> 0, duration |-> 0],
                  path |-> <<>>, total |-> 0]
    /\ trajectory = NoTrajectory
    /\ planning = [t \in Planners |-> Idle]
    /\ tick = Between
    /\ target = 0 /\ settle = 0 /\ place = 0
    /\ plan = [number |-> 0, end |-> 0, late |-> 0, onPath |-> FALSE, undone |-> FALSE]
    /\ aim = [late |-> 0, stray |-> FALSE]

-----------------------------------------------------------------------------
\* path_planner.cpp

Distance(a, b) == IF a < b THEN b - a ELSE a - b
CalculateDuration(a, b) == Max({Distance(a, b), 1})
EvaluatePolynomial(s, t) == s.from + ((s.to - s.from) * t) \div Max({s.duration, 1})

GenerateKeepingPath(from, to) ==
    [planner EXCEPT !.segment = [from |-> from, to |-> to,
                                 duration |-> CalculateDuration(from, to)],
                    !.total = CalculateDuration(from, to)]
GenerateTrajectory(from, to) ==
    [planner EXCEPT !.multi = FALSE,
                    !.segment = [from |-> from, to |-> to,
                                 duration |-> CalculateDuration(from, to)],
                    !.total = CalculateDuration(from, to)]

GenerateSpinTrajectory(at, duration) ==
    [planner EXCEPT !.segment = [from |-> at, to |-> at, duration |-> duration],
                    !.total = duration]

\* The four legs of executeTestMultiWaypoint, a square folded onto the axis.
GenerateMultiWaypointTrajectory(at) ==
    LET waypoint == <<at, at + Leg, at + 2 * Leg, at + Leg, at>>
    IN [planner EXCEPT !.multi = TRUE,
                       !.path = [i \in 1..4 |->
                           [from |-> waypoint[i], to |-> waypoint[i + 1],
                            start |-> (i - 1) * Leg, duration |-> Leg]],
                       !.total = 4 * Leg]

\* On a path the first segment that time t belongs to, or the end of the last.
SegmentPointUnshifted(path, t) ==
    LET holding == {i \in DOMAIN path : t <= path[i].start + path[i].duration}
    IN EvaluatePolynomial(path[Min(holding \cup {Len(path)})], t)
SegmentPoint(path, t) ==
    LET holding == {i \in DOMAIN path : t \in path[i].start..path[i].start + path[i].duration}
        last == path[Len(path)]
    IN IF holding = {} THEN EvaluatePolynomial(last, last.duration)
       ELSE EvaluatePolynomial(path[Min(holding)], t - path[Min(holding)].start)

GetTrajectoryPoint(t) ==
    IF planner.multi THEN SegmentPoint(planner.path, t)
    ELSE EvaluatePolynomial(planner.segment, Min({t, planner.total}))

-----------------------------------------------------------------------------
\* A plan: getTrajectoryInitState, a call of the planner and the activation, in executeGoto
\* and the others, and in planLandingDescent, which either thread runs.

\* The executor's thread plans only where it does not run the control loop.
ReadStart(t, kind) ==
    /\ planning[t].pc = "idle"
    /\ plan.number < MaxPlans
    /\ t = "ros" => kind = "land" /\ tick.pc = "between"
    /\ planning' = [planning EXCEPT
                      ![t] = [pc |-> "read", kind |-> kind, from |-> place, late |-> 0]]
    /\ UNCHANGED <<planner, trajectory, tick, target, settle, place, plan, aim>>

Generate(t, kind, p, end) ==
    /\ planning[t].pc = "read" /\ planning[t].kind = kind
    /\ planner' = p
    /\ planning' = [planning EXCEPT ![t] = [Idle EXCEPT !.pc = "planned", !.kind = kind]]
    /\ plan' = [number |-> plan.number + 1, end |-> end, late |-> planning[t].late,
                onPath |-> kind = "spin" /\ p.multi, undone |-> FALSE]
    /\ UNCHANGED <<trajectory, tick, target, settle, place, aim>>

PlanGoto(t, to) == Generate(t, "goto", GenerateTrajectory(planning[t].from, to), to)
PlanLandingDescentTo(t, to) == Generate(t, "land", GenerateTrajectory(planning[t].from, to), to)
PlanSpin(t, duration) ==
    Generate(t, "spin", GenerateSpinTrajectory(planning[t].from, duration), planning[t].from)
PlanPath(t) ==
    Generate(t, "path", GenerateMultiWaypointTrajectory(planning[t].from), planning[t].from)

\* planLandingDescent leaves the settle flags as they are, activateTrajectory does not.  Both
\* read the state just before, of which that is all they keep that a step here depends on.
Waits(kind) == kind \in {"goto", "spin"}
Activate(t) ==
    /\ planning[t].pc = "planned"
    /\ trajectory' = [mode |-> "ACTIVE", elapsed |-> 0, of |-> plan.number,
                      settled |-> planning[t].kind = "land" /\ trajectory.settled]
    /\ planning' = [planning EXCEPT
                      ![t] = [Idle EXCEPT !.pc = IF Waits(planning[t].kind) THEN "waiting"
                                                                             ELSE "idle"]]
    /\ UNCHANGED <<planner, tick, target, settle, place, plan, aim>>

\* waitForTrajectoryCompletion: the poll meets a settle flag, or a cancel request, upon
\* which holdCurrentPosition reads the position, makes it the target and sets the state,
\* each under a lock of its own.
SettleEndsWait ==
    /\ planning["exec"].pc = "waiting" /\ trajectory.settled
    /\ planning' = [planning EXCEPT !["exec"] = Idle]
    /\ UNCHANGED <<planner, trajectory, tick, target, settle, place, plan, aim>>

HoldReads ==
    /\ planning["exec"].pc = "waiting"
    /\ planning' = [planning EXCEPT !["exec"] = [@ EXCEPT !.pc = "halting", !.from = place]]
    /\ UNCHANGED <<planner, trajectory, tick, target, settle, place, plan, aim>>

HoldTarget ==
    /\ planning["exec"].pc = "halting"
    /\ planning' = [planning EXCEPT !["exec"] = [Idle EXCEPT !.pc = "holding"]]
    /\ target' = planning["exec"].from
    /\ aim' = [late |-> planning["exec"].late, stray |-> FALSE]
    /\ plan' = [plan EXCEPT !.late = @ + 2]
    /\ UNCHANGED <<planner, trajectory, tick, settle, place>>

HoldState ==
    /\ planning["exec"].pc = "holding"
    /\ planning' = [planning EXCEPT !["exec"] = Idle]
    /\ trajectory' = [trajectory EXCEPT !.mode = "COMPLETED", !.settled = TRUE]
    /\ UNCHANGED <<planner, tick, target, settle, place, plan, aim>>

-----------------------------------------------------------------------------
\* controlLoop and positionAndVelocityControl: each step takes a lock of its own.

\* The flight time is all that controlLoop changes of the state; but it stores the whole of
\* it, from before.  So does vehicleStatusCallback, and setUAVMode in a safety check.
ControlLoopReads ==
    /\ tick.pc = "between" /\ planning["ros"].pc = "idle"
    /\ tick' = [pc |-> "store", copy |-> trajectory, time |-> 0]
    /\ UNCHANGED <<planner, trajectory, planning, target, settle, place, plan, aim>>

StoreCopy ==
    /\ tick.pc = "store"
    /\ trajectory' = tick.copy
    /\ plan' = [plan EXCEPT !.undone = @ \/ trajectory.of # tick.copy.of]
    /\ UNCHANGED <<planner, planning, target, settle, place, aim>>

ControlLoopStores == StoreCopy /\ tick' = [Between EXCEPT !.pc = "ready"]
VehicleStatusStores == StoreCopy /\ tick' = Between

\* A tick's time passes first; the vehicle follows its target.
Follow == IF place < target THEN place + 1 ELSE IF place > target THEN place - 1 ELSE place
TickReads ==
    /\ tick.pc = "ready"
    /\ place' = Follow
    /\ LET now == IF trajectory.mode = "ACTIVE"
                  THEN [trajectory EXCEPT !.elapsed = @ + 1] ELSE trajectory
       IN /\ trajectory' = now
          /\ tick' = IF now.mode = "ACTIVE"
                     THEN [pc |-> "decide", copy |-> now, time |-> now.elapsed]
                     ELSE IF now.mode = "COMPLETED" /\ ~now.settled
                     THEN [pc |-> "settle", copy |-> now, time |-> 0]
                     ELSE Between
    /\ IF planning["exec"].pc \in {"read", "halting"}
       THEN /\ planning["exec"].late < MaxLate
            /\ planning' = [planning EXCEPT !["exec"].late = @ + 1]
       ELSE UNCHANGED planning
    /\ IF planning["exec"].pc = "planned"
       THEN /\ plan.late < MaxLate
            /\ plan' = [plan EXCEPT !.late = @ + 1]
       ELSE UNCHANGED plan
    /\ UNCHANGED <<planner, target, settle, aim>>

TickDecides ==
    /\ tick.pc = "decide"
    /\ tick' = [tick EXCEPT !.pc = IF tick.time > planner.total THEN "over" ELSE "sample"]
    /\ UNCHANGED <<planner, trajectory, planning, target, settle, place, plan, aim>>

TickCompletes ==
    /\ tick.pc = "over"
    /\ trajectory' = [tick.copy EXCEPT !.mode = "COMPLETED", !.settled = FALSE]
    /\ tick' = [tick EXCEPT !.pc = "final"]
    /\ UNCHANGED <<planner, planning, target, settle, place, plan, aim>>

TickAsksTotal ==
    /\ tick.pc = "final"
    /\ tick' = [tick EXCEPT !.pc = "finalSample", !.time = planner.total]
    /\ UNCHANGED <<planner, trajectory, planning, target, settle, place, plan, aim>>

TickSamples ==
    /\ tick.pc \in {"sample", "finalSample"}
    /\ LET point == GetTrajectoryPoint(tick.time)
       IN /\ target' = point
          /\ settle' = IF tick.pc = "finalSample" THEN point ELSE settle
    /\ aim' = [late |-> plan.late, stray |-> tick.copy.of # plan.number \/ plan.onPath]
    /\ tick' = Between
    /\ UNCHANGED <<planner, trajectory, planning, place, plan>>

\* Over and not settled: it converges or stalls at some tick, unless it is a landing, whose
\* replan is the executor's ReadStart.
TickSettles ==
    /\ tick.pc = "settle"
    /\ \/ trajectory' = [tick.copy EXCEPT !.settled = TRUE]
       \/ UNCHANGED trajectory
    /\ tick' = Between
    /\ UNCHANGED <<planner, planning, target, settle, place, plan, aim>>

PlannerNext ==
    \/ \E t \in Planners :
          \/ \E kind \in {"goto", "land", "spin", "path"} : ReadStart(t, kind)
          \/ \E to \in Targets : PlanGoto(t, to) \/ PlanLandingDescentTo(t, to)
          \/ \E d \in 0..MaxSpin : PlanSpin(t, d)
          \/ PlanPath(t)
          \/ Activate(t)
    \/ SettleEndsWait \/ HoldReads \/ HoldTarget \/ HoldState
    \/ ControlLoopReads \/ ControlLoopStores \/ VehicleStatusStores
    \/ TickReads \/ TickDecides \/ TickCompletes \/ TickAsksTotal
    \/ TickSamples \/ TickSettles

PlannerSpec == PlannerInit /\ [][PlannerNext]_plannerVars

-----------------------------------------------------------------------------
\* The target stays near a vehicle that keeps up with it: within two ticks' flight, and one
\* for each tick that fell between the reading of the start and the activation, and two for
\* a hold.  So over all segments and from one trajectory to the next, landings and
\* interrupted paths included; but not of a sample at the elapsed time of another
\* trajectory, nor of a spin after a path.
TargetNear == ~aim.stray => Distance(target, place) <= 2 + aim.late

\* Convergence is measured to where the latest plan ends, whatever the two threads did to
\* each other before it was declared over; except in a spin after a path, and where the
\* store of a callback has undone the activation.
Prepared == \E t \in Planners : planning[t].pc = "planned"
SettleAtGoal ==
    trajectory.mode = "COMPLETED" /\ ~trajectory.settled
      /\ tick.pc \in {"between", "store", "ready", "settle"}
      /\ ~Prepared /\ ~plan.onPath /\ ~plan.undone
    => settle = plan.end
=============================================================================
