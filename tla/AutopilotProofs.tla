--------------------------- MODULE AutopilotProofs ---------------------------
(***************************************************************************)
(* Proofs about the command server, for any set of commands and events and *)
(* any bounds.                                                             *)
(***************************************************************************)
EXTENDS Autopilot, SequenceTheorems, TLAPS

(***************************************************************************)
(* The routines are sequences of micro-operations.                         *)
(***************************************************************************)
LEMMA DoType == \A o \in PlainOp : Do(o) \in Seq(Op)
BY DEF Do, Op

LEMMA CatType == \A r, s \in Seq(Op) : r \o s \in Seq(Op)
BY ConcatProperties

\* The operations that end a goal, or may.
Answering == {"awaitArm", "poll", "settled", "resolveCanceled"}

\* The others, of which every function both threads call is made.
RoutineOp == {o \in Op : o.op \notin Answering \cup {"finish"}}

LEMMA RoutineDo ==
    \A o \in PlainOp \ (Answering \cup {"finish"}) : Do(o) \in Seq(RoutineOp)
BY DEF Do, RoutineOp, Op

LEMMA RoutineDoWith ==
    /\ \A m \in FlightMode : DoWith("mode", m) \in Seq(RoutineOp)
    /\ \A k \in DOMAIN ControlModeOf : DoWith("lock", k) \in Seq(RoutineOp)
BY DEF DoWith, RoutineOp, Op, Answering

LEMMA RoutineCat == \A r, s \in Seq(RoutineOp) : r \o s \in Seq(RoutineOp)
BY ConcatProperties

LEMMA RoutineIsOp == \A r \in Seq(RoutineOp) : r \in Seq(Op)
BY DEF RoutineOp

\* Every function both threads call is a sequence of such micro-operations.
LEMMA RoutineShapes ==
    /\ \A m \in FlightMode : SetUAVMode(m) \in Seq(RoutineOp)
    /\ \A k \in DOMAIN ControlModeOf : EnsureControlLoopRunning(k) \in Seq(RoutineOp)
    /\ CleanupControlLoop \in Seq(RoutineOp)
    /\ PlanLandingDescent \in Seq(RoutineOp)
    /\ ActivateTrajectory \in Seq(RoutineOp)
    /\ HoldCurrentPosition \in Seq(RoutineOp)
    /\ BeginLanding \in Seq(RoutineOp)
    /\ FlyTrajectory \in Seq(RoutineOp)
<1>1. \A m \in FlightMode : SetUAVMode(m) \in Seq(RoutineOp)
  BY RoutineDo, RoutineDoWith, RoutineCat DEF SetUAVMode, PlainOp, Answering
<1>2. \A k \in DOMAIN ControlModeOf : EnsureControlLoopRunning(k) \in Seq(RoutineOp)
  BY RoutineDo, RoutineDoWith, RoutineCat DEF EnsureControlLoopRunning, PlainOp, Answering
<1>3. \A o \in {"read", "cleanup", "descend", "activate", "hold", "landIfBegun"} :
         Do(o) \in Seq(RoutineOp)
  BY RoutineDo DEF PlainOp, Answering
<1>4. /\ CleanupControlLoop \in Seq(RoutineOp)
      /\ PlanLandingDescent \in Seq(RoutineOp)
      /\ ActivateTrajectory \in Seq(RoutineOp)
      /\ HoldCurrentPosition \in Seq(RoutineOp)
      /\ LandPositionMode \in Seq(RoutineOp)
  BY <1>3, RoutineCat DEF CleanupControlLoop, PlanLandingDescent, ActivateTrajectory,
     HoldCurrentPosition, LandPositionMode
<1>5. "pos" \in DOMAIN ControlModeOf /\ {"BEGIN_LAND_POSITION", "POSITION"} \subseteq FlightMode
  BY DEF ControlModeOf, FlightMode
<1>6. BeginLanding \in Seq(RoutineOp)
  <2>1. /\ SetUAVMode("BEGIN_LAND_POSITION") \in Seq(RoutineOp)
        /\ EnsureControlLoopRunning("pos") \in Seq(RoutineOp)
    BY <1>1, <1>2, <1>5
  <2> QED BY <2>1, <1>4, RoutineCat DEF BeginLanding
<1>7. FlyTrajectory \in Seq(RoutineOp)
  <2>1. /\ SetUAVMode("POSITION") \in Seq(RoutineOp)
        /\ EnsureControlLoopRunning("pos") \in Seq(RoutineOp)
    BY <1>1, <1>2, <1>5
  <2> QED BY <2>1, <1>4, RoutineCat DEF FlyTrajectory
<1> QED BY <1>1, <1>2, <1>4, <1>6, <1>7

LEMMA RoutineTypes ==
    /\ \A m \in FlightMode : SetUAVMode(m) \in Seq(Op)
    /\ \A k \in DOMAIN ControlModeOf : EnsureControlLoopRunning(k) \in Seq(Op)
    /\ CleanupControlLoop \in Seq(Op)
    /\ PlanLandingDescent \in Seq(Op)
    /\ ActivateTrajectory \in Seq(Op)
    /\ HoldCurrentPosition \in Seq(Op)
    /\ BeginLanding \in Seq(Op)
    /\ FlyTrajectory \in Seq(Op)
BY RoutineShapes, RoutineIsOp

\* What execute runs for a command.
LEMMA ExecuteType == \A c \in AllCommands : Execute(c) \in Seq(Op)
<1>1. SUFFICES ASSUME NEW c \in AllCommands PROVE Body(c) \in Seq(Op)
  BY DoType, CatType DEF Execute, PlainOp
<1>2. /\ {"EMERGENCY_STOP", "MANUAL", "MANUAL_AIDED"} \subseteq FlightMode
      /\ {"manual", "aided", "blind"} \subseteq DOMAIN ControlModeOf
  BY DEF FlightMode, ControlModeOf
<1>3. \A o \in {"kill", "arm", "awaitArm", "disarm", "poll", "thenLand", "idle"} :
         Do(o) \in Seq(Op)
  BY DoType DEF PlainOp
<1>4. /\ \A m \in {"EMERGENCY_STOP", "MANUAL", "MANUAL_AIDED"} : SetUAVMode(m) \in Seq(Op)
      /\ \A k \in {"manual", "aided", "blind"} : EnsureControlLoopRunning(k) \in Seq(Op)
  BY <1>2, RoutineTypes
<1>5. FlyTrajectory \o Do("poll") \in Seq(Op)
  BY <1>3, RoutineTypes, CatType
<1> QED BY <1>3, <1>4, <1>5, RoutineTypes, CatType DEF Body

(***************************************************************************)
(* Steps of a thread through its list.                                     *)
(***************************************************************************)
LEMMA HeadTail ==
    ASSUME TypeOK, NEW t \in Threads, todo[t] # <<>>
    PROVE  /\ Head(todo[t]) \in Op
           /\ Tail(todo[t]) \in Seq(Op)
BY HeadTailProperties DEF TypeOK

LEMMA ContinueType ==
    ASSUME TypeOK, NEW t \in Threads, todo[t] # <<>>,
           NEW ops \in Seq(Op), Continue(t, ops)
    PROVE  todo' \in [Threads -> Seq(Op)]
<1>1. ops \o Tail(todo[t]) \in Seq(Op)
  BY HeadTail, CatType
<1> QED BY <1>1 DEF Continue, TypeOK

LEMMA AdvanceType ==
    ASSUME TypeOK, NEW t \in Threads, todo[t] # <<>>, Advance(t)
    PROVE  todo' \in [Threads -> Seq(Op)]
BY ContinueType, EmptySeq DEF Advance

LEMMA CallType ==
    ASSUME TypeOK, NEW ops \in Seq(Op), Call(ops)
    PROVE  todo' \in [Threads -> Seq(Op)]
BY DEF TypeOK, Call, Threads

LEMMA ArgTypes ==
    ASSUME TypeOK, NEW t \in Threads
    PROVE  /\ At(t, "mode") => Arg(t) \in FlightMode
           /\ At(t, "lock") => Arg(t) \in DOMAIN ControlModeOf
           /\ At(t, "status") => Arg(t) \in {"armed", "disarmed"}
<1>1. todo[t] # <<>> => Head(todo[t]) \in Op
  BY HeadTail
<1> QED BY <1>1 DEF At, Arg, Op, PlainOp

LEMMA NoSuchGoal ==
    ASSUME TypeOK, NEW g, g \notin 1..Len(goals)
    PROVE  \A e : [goals EXCEPT ![g] = e] = goals
BY LenProperties DEF TypeOK

\* Rewriting fields of one goal keeps the list a list of goals.
LEMMA GoalFields ==
    ASSUME TypeOK, NEW g, NEW st \in GoalStatus, NEW oc \in Outcome
    PROVE  /\ [goals EXCEPT ![g] = [@ EXCEPT !.status = st]] \in Seq(Goal)
           /\ [goals EXCEPT ![g] = [@ EXCEPT !.outcome = oc]] \in Seq(Goal)
           /\ [goals EXCEPT ![g] = [@ EXCEPT !.status = st, !.outcome = oc]] \in Seq(Goal)
           /\ Len([goals EXCEPT ![g] = [@ EXCEPT !.status = st]]) = Len(goals)
           /\ Len([goals EXCEPT ![g] = [@ EXCEPT !.outcome = oc]]) = Len(goals)
           /\ Len([goals EXCEPT ![g] = [@ EXCEPT !.status = st, !.outcome = oc]]) = Len(goals)
<1>1. goals \in Seq(Goal)
  BY DEF TypeOK
<1>2. CASE g \in 1..Len(goals)
  <2>1. goals[g] \in Goal
    BY <1>1, <1>2, ElementOfSeq
  <2>2. \A e \in Goal : /\ [goals EXCEPT ![g] = e] \in Seq(Goal)
                         /\ Len([goals EXCEPT ![g] = e]) = Len(goals)
    BY <1>1, <1>2, ExceptSeq
  <2>3. /\ [goals[g] EXCEPT !.status = st] \in Goal
        /\ [goals[g] EXCEPT !.outcome = oc] \in Goal
        /\ [goals[g] EXCEPT !.status = st, !.outcome = oc] \in Goal
    BY <2>1 DEF Goal
  <2> QED BY <2>2, <2>3
<1>3. CASE g \notin 1..Len(goals)
  <2>1. \A e : [goals EXCEPT ![g] = e] = goals
    BY <1>3, NoSuchGoal
  <2> QED BY <2>1, <1>1, <1>3
<1> QED BY <1>2, <1>3

(***************************************************************************)
(* Type correctness.                                                       *)
(***************************************************************************)
LEMMA BlankType == Blank \in UAVState
BY DEF Blank, UAVState, FlightMode, TrajectoryMode

LEMMA TypeInit == Init => TypeOK
<1> SUFFICES ASSUME Init PROVE TypeOK
  OBVIOUS
<1>1. todo \in [Threads -> Seq(Op)]
  BY EmptySeq DEF Init
<1>2. goals \in Seq(Goal) /\ Len(goals) <= MaxGoals
  BY EmptySeq, BoundsAssumption DEF Init
<1>3. landReplans \in 0..MaxLandReplans /\ landClock \in -1..RampTicks
  BY BoundsAssumption DEF Init
<1> QED BY <1>1, <1>2, <1>3, BlankType DEF Init, TypeOK

LEMMA TypeShared ==
    ASSUME TypeOK, NEW t \in Threads, SharedStep(t)
    PROVE  TypeOK'
<1> USE DEF TypeOK, server, env, flight
<1>1. CASE Read(t)
  BY <1>1, AdvanceType DEF Read, At
<1>2. CASE WriteMode(t)
  <2>1. Arg(t) \in FlightMode
    BY <1>2, ArgTypes DEF WriteMode
  <2>2. uav' \in UAVState /\ copy' \in [Threads -> UAVState]
    BY <1>2, <2>1 DEF WriteMode, UAVState, DropCopy, Blank, FlightMode, TrajectoryMode
  <2> QED BY <1>2, <2>2, AdvanceType DEF WriteMode, At
<1>3. CASE Save(t)
  BY <1>3, AdvanceType DEF Save, At
<1>4. CASE Restore(t)
  BY <1>4, AdvanceType DEF Restore, At, DropScratch, Blank, UAVState, FlightMode, TrajectoryMode
<1>5. CASE Lock(t)
  <2>1. Arg(t) \in DOMAIN ControlModeOf
    BY <1>5, ArgTypes DEF Lock
  <2>2. controlMode' \in ControlMode
    BY <1>5, <2>1 DEF Lock, ControlModeOf, ControlMode
  <2> QED BY <1>5, <2>2, AdvanceType DEF Lock, At
<1>6. CASE Ensure(t)
  <2>1. Do("restore") \o Do("start") \in Seq(Op)
    BY DoType, CatType DEF PlainOp
  <2>2. CASE ~controlTimer /\ scratch[t].armed
    BY <1>6, <2>1, <2>2, ContinueType DEF Ensure, At
  <2>3. CASE ~(~controlTimer /\ scratch[t].armed)
    BY <1>6, <2>3, AdvanceType, BlankType DEF Ensure, At, DropScratch
  <2> QED BY <2>2, <2>3
<1>7. CASE StartTimer(t)
  BY <1>7, AdvanceType DEF StartTimer, At
<1>8. CASE Unlock(t)
  BY <1>8, AdvanceType DEF Unlock, At
<1>9. CASE Cleanup(t)
  <2>1. Do("save") \o Do("restore") \o Do("reset") \in Seq(Op) /\ <<>> \in Seq(Op)
    BY DoType, CatType, EmptySeq DEF PlainOp
  <2> QED BY <1>9, <2>1, ContinueType DEF Cleanup, At
<1>10. CASE ResetTimer(t)
  BY <1>10, AdvanceType DEF ResetTimer, At
<1>11. ASSUME NEW c \in {"arm", "disarm", "kill"}, SendCommand(t, c) PROVE TypeOK'
  BY <1>11, AdvanceType DEF SendCommand, At
<1>12. CASE LandIfBegun(t)
  <2>1. copy' \in [Threads -> UAVState]
    BY <1>12, BlankType DEF LandIfBegun, DropCopy
  <2>2. CASE copy[t].mode = "BEGIN_LAND_POSITION"
    BY <1>12, <2>1, <2>2, ContinueType, RoutineTypes, BoundsAssumption DEF LandIfBegun, At
  <2>3. CASE copy[t].mode # "BEGIN_LAND_POSITION"
    BY <1>12, <2>1, <2>3, AdvanceType DEF LandIfBegun, At
  <2> QED BY <2>2, <2>3
<1>13. CASE Descend(t)
  BY <1>13, AdvanceType DEF Descend, At, DropCopy, Blank, UAVState, FlightMode, TrajectoryMode
<1> QED BY <1>1, <1>2, <1>3, <1>4, <1>5, <1>6, <1>7, <1>8, <1>9, <1>10, <1>11, <1>12, <1>13
        DEF SharedStep

LEMMA TypeExec ==
    ASSUME TypeOK, ExecStep
    PROVE  TypeOK'
<1> USE DEF TypeOK, server, env, flight
<1> DEFINE Typed == goals' \in Seq(Goal) /\ Len(goals') = Len(goals)
<1>a. "exec" \in Threads
  BY DEF Threads
<1>b. {"armed", "timeout", "reached", "stalled", "canceled"} \subseteq Outcome
      /\ {"canceled", "succeeded"} \subseteq GoalStatus
  BY DEF Outcome, GoalStatus
<1>c. ASSUME NEW o \in Outcome, EndsAs(o) PROVE Typed
  BY <1>c, GoalFields DEF EndsAs, GoalStatus
<1>d. ASSUME NEW o \in Outcome, NEW st \in GoalStatus, Resolve(st, o) PROVE Typed
  BY <1>d, GoalFields DEF Resolve
<1>1. CASE SharedStep("exec")
  BY <1>1, <1>a, TypeShared
<1>2. CASE AwaitArm
  <2>1. Typed
    BY <1>2, <1>b, <1>c, <1>d DEF AwaitArm
  <2> QED BY <1>2, <2>1, <1>a, AdvanceType DEF AwaitArm, At
<1>3. CASE WriteActivate
  BY <1>3, <1>a, AdvanceType, BlankType
     DEF WriteActivate, At, DropCopy, UAVState, FlightMode, TrajectoryMode
<1>4. CASE Poll
  <2>1. HoldCurrentPosition \o Do("resolveCanceled") \in Seq(Op) /\ Do("settled") \in Seq(Op)
    BY DoType, RoutineTypes, CatType DEF PlainOp
  <2> QED BY <1>4, <2>1, <1>a, ContinueType DEF Poll, At
<1>5. CASE Settled
  <2>1. CASE uav.converged \/ uav.stalled
    <3>1. Typed
      BY <1>5, <2>1, <1>b, <1>c DEF Settled
    <3> QED BY <1>5, <2>1, <3>1, <1>a, AdvanceType DEF Settled, At
  <2>2. CASE ~(uav.converged \/ uav.stalled)
    <3>1. Do("poll") \in Seq(Op)
      BY DoType DEF PlainOp
    <3> QED BY <1>5, <2>2, <3>1, <1>a, ContinueType DEF Settled, At
  <2> QED BY <2>1, <2>2
<1>6. CASE WriteHold
  BY <1>6, <1>a, AdvanceType, BlankType
     DEF WriteHold, At, DropCopy, UAVState, FlightMode, TrajectoryMode
<1>7. CASE ResolveCanceled
  <2>1. Typed
    BY <1>7, <1>b, <1>d DEF ResolveCanceled
  <2> QED BY <1>7, <2>1, <1>a, AdvanceType DEF ResolveCanceled, At
<1>8. CASE ThenLand
  <2>1. <<>> \in Seq(Op) /\ BeginLanding \in Seq(Op)
    BY EmptySeq, RoutineTypes
  <2> QED BY <1>8, <2>1, <1>a, ContinueType DEF ThenLand, At
<1>9. CASE Idle
  BY <1>9, <1>a, AdvanceType DEF Idle, At
<1>10. CASE Finish
  <2>1. goals \in Seq(Goal)
    OBVIOUS
  <2>2. CASE Running \in 1..Len(goals)
    <3>1. goals[Running] \in Goal
      BY <2>1, <2>2, ElementOfSeq
    <3>2. Ending(Running) \in Outcome
      BY <3>1 DEF Ending, Outcome, Goal
    <3>3. Typed
      BY <1>10, <3>2, <1>b, <1>d DEF Finish
    <3> QED BY <1>10, <3>3, <1>a, AdvanceType DEF Finish, At
  <2>3. CASE Running \notin 1..Len(goals)
    <3>1. \A e : [goals EXCEPT ![Running] = e] = goals
      BY <2>3, NoSuchGoal
    <3>2. Finish => goals' = goals
      BY <3>1 DEF Finish, Resolve
    <3>3. goals' = goals
      BY <1>10, <3>2
    <3> QED BY <1>10, <3>3, <1>a, AdvanceType DEF Finish, At
  <2> QED BY <2>2, <2>3
<1> QED BY <1>1, <1>2, <1>3, <1>4, <1>5, <1>6, <1>7, <1>8, <1>9, <1>10 DEF ExecStep

LEMMA TypePosition ==
    ASSUME TypeOK, Position
    PROVE  TypeOK'
<1> USE DEF TypeOK, server, env, flight
<1>a. "ros" \in Threads
  BY DEF Threads
<1>b. copy' \in [Threads -> UAVState]
  BY BlankType DEF Position, NothingNew, TrajectoryCompletes, ReplanLanding, TouchDown,
     SettleEnds, PositionDone, DropCopy
<1>c. todo["ros"] # <<>>
  BY DEF Position, NothingNew, TrajectoryCompletes, ReplanLanding, TouchDown,
     SettleEnds, AtPosition, At
<1>d. copy["ros"] \in UAVState
  BY <1>a
<1>1. CASE NothingNew
  BY <1>1, <1>a, <1>b, <1>c, AdvanceType DEF NothingNew, PositionDone
<1>2. CASE TrajectoryCompletes
  <2>1. uav' \in UAVState
    BY <1>2, <1>d DEF TrajectoryCompletes, UAVState, TrajectoryMode
  <2> QED BY <1>2, <2>1, <1>a, <1>b, <1>c, AdvanceType DEF TrajectoryCompletes, PositionDone
<1>3. CASE ReplanLanding
  <2>1. landReplans' \in 0..MaxLandReplans
    BY <1>3, BoundsAssumption DEF ReplanLanding
  <2> QED BY <1>3, <2>1, <1>a, <1>b, <1>c, ContinueType, RoutineTypes DEF ReplanLanding, PositionDone
<1>4. CASE TouchDown
  <2>1. uav' \in UAVState
    BY <1>4, <1>d DEF TouchDown, UAVState, FlightMode
  <2>2. Do("kill") \o CleanupControlLoop \in Seq(Op)
    BY DoType, RoutineTypes, CatType DEF PlainOp
  <2> QED BY <1>4, <2>1, <2>2, <1>a, <1>b, <1>c, ContinueType DEF TouchDown, PositionDone
<1>5. CASE SettleEnds
  <2>1. uav' \in UAVState
    BY <1>5, <1>d DEF SettleEnds, UAVState
  <2> QED BY <1>5, <2>1, <1>a, <1>b, <1>c, AdvanceType DEF SettleEnds, PositionDone
<1> QED BY <1>1, <1>2, <1>3, <1>4, <1>5 DEF Position

LEMMA TypeRos ==
    ASSUME TypeOK, RosStep
    PROVE  TypeOK'
<1> USE DEF TypeOK, server, env, flight
<1>a. "ros" \in Threads /\ copy["ros"] \in UAVState
  BY DEF Threads
<1>1. CASE SharedStep("ros")
  BY <1>1, <1>a, TypeShared
<1>2. CASE Dispatch
  <2>1. \A o \in {"position", "blind"} : Do(o) \o Do("unlock") \in Seq(Op)
    BY DoType, CatType DEF PlainOp
  <2>2. CASE controlMode \in {2, 3}
    BY <1>2, <2>1, <2>2, <1>a, ContinueType DEF Dispatch, At
  <2>3. CASE controlMode \notin {2, 3}
    BY <1>2, <2>3, <1>a, AdvanceType DEF Dispatch, At
  <2> QED BY <2>2, <2>3
<1>3. CASE Position
  BY <1>3, TypePosition
<1>4. CASE Blind
  <2>1. copy' \in [Threads -> UAVState]
    BY <1>4, BlankType DEF Blind, DropCopy
  <2>2. CASE copy["ros"].mode # "SAFETYLAND_BLIND"
    <3>1. uav' \in UAVState
      BY <1>4, <2>2, <1>a DEF Blind, UAVState, FlightMode
    <3>2. landClock' \in -1..RampTicks
      BY <1>4, <2>2, BoundsAssumption DEF Blind
    <3> QED BY <1>4, <2>1, <2>2, <3>1, <3>2, <1>a, AdvanceType DEF Blind, At
  <2>3. CASE copy["ros"].mode = "SAFETYLAND_BLIND"
    <3>1. <<>> \in Seq(Op) /\ Do("kill") \o CleanupControlLoop \in Seq(Op)
      BY DoType, RoutineTypes, CatType, EmptySeq DEF PlainOp
    <3> QED BY <1>4, <2>1, <2>3, <3>1, <1>a, ContinueType DEF Blind, At
  <2> QED BY <2>2, <2>3
<1>5. CASE Status
  <2>1. copy' \in [Threads -> UAVState]
    BY <1>5, <1>a DEF Status, UAVState, FlightMode
  <2>2. Do("store") \in Seq(Op) /\ CleanupControlLoop \o Do("store") \in Seq(Op)
    BY DoType, RoutineTypes, CatType DEF PlainOp
  <2> QED BY <1>5, <2>1, <2>2, <1>a, ContinueType DEF Status, At
<1>6. CASE Store
  BY <1>6, <1>a, AdvanceType, BlankType DEF Store, At, DropCopy
<1>7. ASSUME NEW fault \in BOOLEAN, Safety(fault) PROVE TypeOK'
  <2>1. /\ <<>> \in Seq(Op) /\ BeginLanding \in Seq(Op)
        /\ SetUAVMode("SAFETYLAND_BLIND") \o EnsureControlLoopRunning("blind") \in Seq(Op)
    <3>1. "SAFETYLAND_BLIND" \in FlightMode /\ "blind" \in DOMAIN ControlModeOf
      BY DEF FlightMode, ControlModeOf
    <3>2. /\ SetUAVMode("SAFETYLAND_BLIND") \in Seq(Op)
          /\ EnsureControlLoopRunning("blind") \in Seq(Op)
      BY <3>1, RoutineTypes
    <3> QED BY <3>2, RoutineTypes, CatType, EmptySeq
  <2>2. PICK ops \in Seq(Op) : Continue("ros", ops)
    BY <1>7, <2>1 DEF Safety
  <2>3. copy' \in [Threads -> UAVState]
    BY <1>7, BlankType DEF Safety, DropCopy
  <2> QED BY <1>7, <2>2, <2>3, <1>a, ContinueType DEF Safety, At
<1>8. CASE HandleAccepted
  <2>1. goals[Len(goals)] \in Goal
    BY <1>8, ElementOfSeq, LenProperties DEF HandleAccepted
  <2>2. Execute(goals[Len(goals)].command) \in Seq(Op)
    BY <2>1, ExecuteType DEF Goal
  <2> QED BY <1>8, <2>2 DEF HandleAccepted, Threads
<1> QED BY <1>1, <1>2, <1>3, <1>4, <1>5, <1>6, <1>7, <1>8 DEF RosStep

LEMMA TypeRequests ==
    ASSUME TypeOK,
           \/ \E c \in Commands : HandleUAVCommand(c)
           \/ \E g \in 1..MaxGoals : HandleCancel(g)
           \/ ControlLoop \/ SafetyCheckCallback \/ VehicleStatusCallback
    PROVE  TypeOK'
<1> USE DEF TypeOK, server, env, flight
<1>1. ASSUME NEW c \in Commands, HandleUAVCommand(c) PROVE TypeOK'
  <2> DEFINE new == [command |-> c, status |-> "executing", outcome |-> "none"]
  <2>1. new \in Goal
    BY CommandsAssumption DEF Goal, GoalStatus, Outcome
  <2> HIDE DEF new
  <2>2. Append(goals, new) \in Seq(Goal) /\ Len(Append(goals, new)) = Len(goals) + 1
    BY <2>1
  <2>3. goals' = Append(goals, new)
    BY <1>1 DEF HandleUAVCommand, new
  <2>4. Len(goals) \in Nat
    BY LenProperties
  <2> QED BY <1>1, <2>2, <2>3, <2>4, BoundsAssumption DEF HandleUAVCommand
<1>2. ASSUME NEW g \in 1..MaxGoals, HandleCancel(g) PROVE TypeOK'
  <2>1. goals' \in Seq(Goal) /\ Len(goals') = Len(goals)
    BY <1>2, GoalFields DEF HandleCancel, GoalStatus, Outcome
  <2> QED BY <1>2, <2>1 DEF HandleCancel
<1>3. CASE ControlLoop
  <2>1. Do("restore") \o Do("dispatch") \in Seq(Op)
    BY DoType, CatType DEF PlainOp
  <2> QED BY <1>3, <2>1, CallType DEF ControlLoop
<1>4. CASE SafetyCheckCallback
  <2>1. Do("safety") \in Seq(Op)
    BY DoType DEF PlainOp
  <2> QED BY <1>4, <2>1, CallType DEF SafetyCheckCallback
<1>5. CASE VehicleStatusCallback
  <2>1. DoWith("status", IF px4Armed THEN "armed" ELSE "disarmed") \in Seq(Op)
    BY DEF DoWith, Op
  <2> QED BY <1>5, <2>1, CallType DEF VehicleStatusCallback
<1> QED BY <1>1, <1>2, <1>3, <1>4, <1>5

LEMMA TypeEnv ==
    ASSUME TypeOK, Px4Act \/ Px4Changes \/ PositionChanges \/ ClockTick
    PROVE  TypeOK'
<1> USE DEF TypeOK, server, env, flight
<1>1. CASE Px4Act
  BY <1>1 DEF Px4Act
<1>2. CASE Px4Changes
  BY <1>2 DEF Px4Changes
<1>3. CASE PositionChanges
  BY <1>3 DEF PositionChanges
<1>4. CASE ClockTick
  BY <1>4, BoundsAssumption DEF ClockTick
<1> QED BY <1>1, <1>2, <1>3, <1>4

\* Every variable keeps its type, the replans of a landing stay within
\* kMaxLandReplans and the executor only ever joins on behalf of a goal.
THEOREM TypeCorrect == Spec => []TypeOK
<1>1. TypeOK /\ [Next]_vars => TypeOK'
  <2> SUFFICES ASSUME TypeOK, [Next]_vars PROVE TypeOK'
    OBVIOUS
  <2>1. CASE ExecStep
    BY <2>1, TypeExec
  <2>2. CASE RosStep
    BY <2>2, TypeRos
  <2>3. CASE UNCHANGED vars
    BY <2>3 DEF TypeOK, vars, server, env, flight
  <2> QED BY <2>1, <2>2, <2>3, TypeRequests, TypeEnv DEF Next
<1> QED BY <1>1, TypeInit, PTL DEF Spec
=============================================================================
