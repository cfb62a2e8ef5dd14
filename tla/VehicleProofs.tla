---------------------------- MODULE VehicleProofs ---------------------------
(***************************************************************************)
(* What holds of the nodes of the vehicle next to the mission: of the      *)
(* trajectory planner (PathPlanner), the camera relay (CameraRelay), the   *)
(* detection filter (DetectionFilter) and the flight logger (FlightLog).   *)
(* They keep no state in common; each has its own invariant.               *)
(***************************************************************************)
EXTENDS PathPlanner, CameraRelay, DetectionFilter, FlightLog,
        SequenceTheorems, FiniteSetTheorems, TLAPS

-----------------------------------------------------------------------------
(* The path planner. A plan leads from a place to the goal by steps of one *)
(* place a tick; the target is the point of the plan at the time of the    *)
(* tick or, within a tick, the one before it. How far the vehicle is       *)
(* behind it is accounted for by the ticks that fell into its preparation. *)

(***************************************************************************)
(* Path planner.                                                           *)
(***************************************************************************)
LEMMA DivisionExact ==
    \A d \in Nat \ {0}, t \in Int : (d * t) \div d = t /\ ((-d) * t) \div d = -t
OBVIOUS

LEMMA MaxOfTwo == \A a, b \in Int : Max({a, b}) = IF a < b THEN b ELSE a
<1> SUFFICES ASSUME NEW a \in Int, NEW b \in Int PROVE Max({a, b}) = IF a < b THEN b ELSE a
  OBVIOUS
<1>1. \E x \in {a, b} : \A y \in {a, b} : x >= y
  OBVIOUS
<1>2. Max({a, b}) \in {a, b} /\ \A y \in {a, b} : Max({a, b}) >= y
  BY <1>1 DEF Max
<1> QED BY <1>2

LEMMA MinIs ==
    ASSUME NEW S \in SUBSET Int, NEW k \in S, \A j \in S : k <= j
    PROVE  Min(S) = k
<1>1. \E x \in S : \A y \in S : x <= y
  OBVIOUS
<1>2. Min(S) \in S /\ \A y \in S : Min(S) <= y
  BY <1>1 DEF Min
<1>3. Min(S) <= k /\ k <= Min(S) /\ k \in Int /\ Min(S) \in Int
  BY <1>2
<1> QED BY <1>3

\* A segment that is flown at one place a tick, or not at all.
Straight(s) == s.to - s.from \in {0, s.duration, -s.duration}
Segment == {s \in [from : Int, to : Int, duration : Nat] : Straight(s)}

LEMMA OnSegment ==
    ASSUME NEW s \in Segment, NEW t \in Int
    PROVE  EvaluatePolynomial(s, t) =
               s.from + IF s.to = s.from THEN 0 ELSE IF s.to > s.from THEN t ELSE -t
<1> DEFINE d == s.duration
<1>1. s.from \in Int /\ s.to \in Int /\ d \in Nat /\ s.to - s.from \in {0, d, -d}
  BY DEF Segment, Straight
<1> HIDE DEF d
<1>2. EvaluatePolynomial(s, t) = s.from + ((s.to - s.from) * t) \div (IF d < 1 THEN 1 ELSE d)
  <2>1. Max({d, 1}) = IF d < 1 THEN 1 ELSE d
    BY <1>1, MaxOfTwo
  <2> QED BY <2>1 DEF EvaluatePolynomial, d
<1>3. CASE s.to = s.from
  <2>1. (s.to - s.from) * t = 0
    BY <1>1, <1>3
  <2>2. \A e \in Nat \ {0} : 0 \div e = 0
    OBVIOUS
  <2>3. (IF d < 1 THEN 1 ELSE d) \in Nat \ {0}
    BY <1>1
  <2> QED BY <1>1, <1>2, <1>3, <2>1, <2>2, <2>3
<1>4. CASE s.to - s.from = d /\ d # 0
  BY <1>1, <1>2, <1>4, DivisionExact
<1>5. CASE s.to - s.from = -d /\ d # 0
  BY <1>1, <1>2, <1>5, DivisionExact
<1> QED BY <1>1, <1>3, <1>4, <1>5

\* The path of GenerateMultiWaypointTrajectory.
Waypoints(at) == <<at, at + Leg, at + 2 * Leg, at + Leg, at>>
Legs(at) == [i \in 1..4 |-> [from |-> Waypoints(at)[i], to |-> Waypoints(at)[i + 1],
                             start |-> (i - 1) * Leg, duration |-> Leg]]

LEMMA OnPath ==
    ASSUME NEW at \in Int, NEW t \in Nat
    PROVE  SegmentPoint(Legs(at), t) =
               IF t <= 2 * Leg THEN at + t ELSE IF t <= 4 * Leg THEN at + 4 * Leg - t ELSE at
<1> DEFINE path == Legs(at)
           holding == {i \in DOMAIN path : t \in path[i].start..path[i].start + path[i].duration}
           out(s, u) == s.from + IF s.to = s.from THEN 0 ELSE IF s.to > s.from THEN u ELSE -u
<1>1. Leg \in Nat \ {0}
  BY PlannerAssumption
<1>2. /\ path[1].from = at /\ path[1].to = at + Leg
      /\ path[2].from = at + Leg /\ path[2].to = at + 2 * Leg
      /\ path[3].from = at + 2 * Leg /\ path[3].to = at + Leg
      /\ path[4].from = at + Leg /\ path[4].to = at
      /\ path[1].start = 0 /\ path[2].start = Leg /\ path[3].start = 2 * Leg
      /\ path[4].start = 3 * Leg
      /\ \A i \in 1..4 : path[i].duration = Leg
  BY <1>1 DEF Legs, Waypoints
<1>3. DOMAIN path = 1..4 /\ Len(path) = 4
  BY DEF Legs
<1> HIDE DEF path
<1>4. \A i \in 1..4, u \in Int : EvaluatePolynomial(path[i], u) = out(path[i], u)
  <2>1. ASSUME NEW i \in 1..4, NEW u \in Int PROVE EvaluatePolynomial(path[i], u) = out(path[i], u)
    <3> DEFINE s == [from |-> path[i].from, to |-> path[i].to, duration |-> path[i].duration]
    <3>1. s \in Segment
      BY <1>1, <1>2 DEF Segment, Straight
    <3>2. EvaluatePolynomial(s, u) = out(s, u)
      BY <3>1, OnSegment
    <3> QED BY <3>2 DEF EvaluatePolynomial
  <2> QED BY <2>1
<1>5. holding \subseteq 1..4 /\ holding \in SUBSET Int
  BY <1>3
<1>6. \A i \in 1..4 : i \in holding <=> (path[i].start <= t /\ t <= path[i].start + Leg)
  BY <1>1, <1>2, <1>3
<1> HIDE DEF holding
<1>7. SegmentPoint(path, t) = IF holding = {} THEN EvaluatePolynomial(path[4], Leg)
                              ELSE EvaluatePolynomial(path[Min(holding)], t - path[Min(holding)].start)
  BY <1>2, <1>3 DEF SegmentPoint, holding
<1>8. CASE t <= Leg
  <2>1. Min(holding) = 1
    BY <1>1, <1>2, <1>5, <1>6, <1>8, MinIs
  <2>2. holding # {}
    BY <1>1, <1>2, <1>6, <1>8
  <2>3. SegmentPoint(path, t) = out(path[1], t - 0 * Leg)
    BY <1>1, <1>2, <1>4, <1>7, <2>1, <2>2
  <2> QED BY <1>1, <1>2, <1>8, <2>3 DEF path
<1>9. CASE Leg < t /\ t <= 2 * Leg
  <2>1. Min(holding) = 2
    <3>1. 2 \in holding /\ 1 \notin holding
      BY <1>1, <1>2, <1>6, <1>9
    <3>2. \A i \in holding : 2 <= i
      BY <1>5, <3>1
    <3> QED BY <1>5, <3>1, <3>2, MinIs
  <2>2. holding # {}
    BY <1>1, <1>2, <1>6, <1>9
  <2>3. SegmentPoint(path, t) = out(path[2], t - 1 * Leg)
    BY <1>1, <1>2, <1>4, <1>7, <2>1, <2>2
  <2> QED BY <1>1, <1>2, <1>9, <2>3 DEF path
<1>10. CASE 2 * Leg < t /\ t <= 3 * Leg
  <2>1. Min(holding) = 3
    <3>1. 3 \in holding /\ 1 \notin holding /\ 2 \notin holding
      BY <1>1, <1>2, <1>6, <1>10
    <3>2. \A i \in holding : 3 <= i
      BY <1>5, <3>1
    <3> QED BY <1>5, <3>1, <3>2, MinIs
  <2>2. holding # {}
    BY <1>1, <1>2, <1>6, <1>10
  <2>3. SegmentPoint(path, t) = out(path[3], t - 2 * Leg)
    BY <1>1, <1>2, <1>4, <1>7, <2>1, <2>2
  <2> QED BY <1>1, <1>2, <1>10, <2>3 DEF path
<1>11. CASE 3 * Leg < t /\ t <= 4 * Leg
  <2>1. Min(holding) = 4
    <3>1. 4 \in holding /\ 1 \notin holding /\ 2 \notin holding /\ 3 \notin holding
      BY <1>1, <1>2, <1>6, <1>11
    <3>2. \A i \in holding : 4 <= i
      BY <1>5, <3>1
    <3> QED BY <1>5, <3>1, <3>2, MinIs
  <2>2. holding # {}
    BY <1>1, <1>2, <1>6, <1>11
  <2>3. SegmentPoint(path, t) = out(path[4], t - 3 * Leg)
    BY <1>1, <1>2, <1>4, <1>7, <2>1, <2>2
  <2> QED BY <1>1, <1>2, <1>11, <2>3 DEF path
<1>12. CASE 4 * Leg < t
  <2>1. holding = {}
    BY <1>1, <1>2, <1>5, <1>6, <1>12
  <2> QED BY <1>1, <1>2, <1>4, <1>7, <1>12, <2>1 DEF path
<1> QED BY <1>1, <1>8, <1>9, <1>10, <1>11, <1>12

\* Where a plan leads at time t, and what of it the control loop relies on: it is flown
\* at no more than one place a tick, and from its last tick on it is at its end g.
Point(p, t) ==
    IF p.multi THEN SegmentPoint(p.path, t)
    ELSE EvaluatePolynomial(p.segment, Min({t, p.total}))

Leads(p, g) ==
    \A t \in Nat : /\ Point(p, t) \in Int
                   /\ Distance(Point(p, t), Point(p, t + 1)) <= 1
                   /\ t >= p.total => Point(p, t) = g

Plan == [multi : BOOLEAN, segment : Segment, path : {<<>>} \cup {Legs(at) : at \in Int},
         total : Nat]

LEMMA PointOfSegment ==
    ASSUME NEW p \in Plan, ~p.multi, NEW t \in Nat
    PROVE  Point(p, t) = LET u == IF t < p.total THEN t ELSE p.total
                             s == p.segment
                         IN s.from + IF s.to = s.from THEN 0 ELSE IF s.to > s.from THEN u ELSE -u
<1> DEFINE u == IF t < p.total THEN t ELSE p.total
<1>1. p.total \in Nat /\ p.segment \in Segment
  BY DEF Plan
<1>2. Min({t, p.total}) = u
  <2>1. {t, p.total} \in SUBSET Int /\ u \in {t, p.total} /\ \A j \in {t, p.total} : u <= j
    BY <1>1
  <2> HIDE DEF u
  <2> QED BY <2>1, MinIs
<1>3. u \in Int
  BY <1>1
<1> HIDE DEF u
<1>4. Point(p, t) = EvaluatePolynomial(p.segment, u)
  BY <1>2 DEF Point
<1> QED BY <1>1, <1>3, <1>4, OnSegment DEF u

LEMMA SegmentLeads ==
    ASSUME NEW p \in Plan, ~p.multi, p.total = p.segment.duration
    PROVE  Leads(p, p.segment.to) /\ Point(p, 0) = p.segment.from
<1> DEFINE s == p.segment
           out(t) == LET u == IF t < p.total THEN t ELSE p.total
                     IN s.from + IF s.to = s.from THEN 0 ELSE IF s.to > s.from THEN u ELSE -u
<1>1. /\ p.total \in Nat /\ s.from \in Int /\ s.to \in Int
      /\ s.to - s.from \in {0, p.total, -p.total}
  BY DEF Plan, Segment, Straight
<1>2. \A t \in Nat : Point(p, t) = out(t)
  BY PointOfSegment
<1> HIDE DEF s
<1>3. \A t \in Nat : /\ out(t) \in Int
                     /\ Distance(out(t), out(t + 1)) <= 1
                     /\ t >= p.total => out(t) = s.to
  BY <1>1 DEF Distance
<1>4. out(0) = s.from
  BY <1>1
<1> HIDE DEF out
<1> QED BY <1>2, <1>3, <1>4 DEF Leads, s

LEMMA PathLeads ==
    ASSUME NEW p \in Plan, p.multi, NEW at \in Int, p.path = Legs(at), p.total = 4 * Leg
    PROVE  Leads(p, at) /\ Point(p, 0) = at
<1> DEFINE out(t) == IF t <= 2 * Leg THEN at + t ELSE IF t <= 4 * Leg THEN at + 4 * Leg - t ELSE at
<1>1. Leg \in Nat \ {0}
  BY PlannerAssumption
<1>2. \A t \in Nat : Point(p, t) = out(t)
  BY OnPath DEF Point
<1>3. \A t \in Nat : /\ out(t) \in Int
                     /\ Distance(out(t), out(t + 1)) <= 1
                     /\ t >= p.total => out(t) = at
  BY <1>1 DEF Distance
<1>4. out(0) = at
  BY <1>1
<1> HIDE DEF out
<1> QED BY <1>2, <1>3, <1>4 DEF Leads

(***************************************************************************)
(* The invariant.                                                          *)
(***************************************************************************)
Kinds == {"none", "goto", "land", "spin", "path"}
Trajectories == [mode : {"INACTIVE", "ACTIVE", "COMPLETED"}, elapsed : Nat,
                 settled : BOOLEAN, of : Nat]
Plannings == [pc : {"idle", "read", "planned", "waiting", "halting", "holding"},
              kind : Kinds, from : Int, late : Nat]
Ticks == [pc : {"between", "store", "ready", "decide", "sample", "over", "final",
                "finalSample", "settle"},
          copy : Trajectories, time : Nat]
Plans == [number : Nat, end : Int, late : Nat, onPath : BOOLEAN, undone : BOOLEAN]

PlannerTypeOK ==
    /\ planner \in Plan
    /\ planner.multi => planner.path # <<>>
    /\ ~planner.multi => planner.total = planner.segment.duration
    /\ trajectory \in Trajectories
    /\ planning \in [Planners -> Plannings]
    /\ tick \in Ticks
    /\ target \in Int /\ settle \in Int /\ place \in Int
    /\ plan \in Plans
    /\ aim \in [late : Nat, stray : BOOLEAN]

PlanLeadsToEnd == ~plan.onPath => Leads(planner, plan.end)

\* A new plan has a number that no activation has had.
Numbered == trajectory.of <= plan.number /\ tick.copy.of <= plan.number

\* A tick and a plan of the executor's thread exclude each other.
Exclusive == tick.pc # "between" => planning["ros"].pc = "idle"

\* A trajectory that is over and not replaced: the tick samples its end or has done so; and
\* so with the state that a callback is about to store.
Settling ==
    /\ tick.pc = "settle" => tick.copy.mode = "COMPLETED"
    /\ trajectory.mode = "COMPLETED" /\ ~trajectory.settled =>
          /\ tick.pc \notin {"decide", "sample", "over"}
          /\ (~Prepared \/ trajectory.of = plan.number) /\ ~plan.onPath /\ ~plan.undone =>
                 /\ tick.pc \in {"between", "store", "ready", "settle"} => settle = plan.end
                 /\ tick.pc = "finalSample" => tick.time = planner.total
    /\ (/\ tick.pc = "store" /\ tick.copy.mode = "COMPLETED" /\ ~tick.copy.settled
        /\ ~plan.onPath /\ ~plan.undone
        /\ (\/ tick.copy.of = plan.number
            \/ ~Prepared /\ trajectory.of = tick.copy.of)) => settle = plan.end

\* A place that was read is as far behind as ticks have passed.
StartNear ==
    \A t \in Planners : planning[t].pc \in {"read", "halting"} =>
        Distance(planning[t].from, place) <= planning[t].late

\* The vehicle is behind the latest plan: by plan.late where it is not flown yet, by one
\* more after the step that follows, by two at the point that the tick then samples.
Behind(t) ==
    \/ Distance(Point(planner, t), place) <= plan.late
    \/ /\ Distance(Point(planner, t), place) <= 2 + plan.late
       /\ Distance(Point(planner, t), Follow) <= 1 + plan.late

OnCourse ==
    ~plan.onPath =>
        /\ Prepared => Distance(Point(planner, 0), place) <= plan.late
        /\ trajectory.mode = "ACTIVE" /\ trajectory.of = plan.number =>
              \/ Distance(Point(planner, trajectory.elapsed), place) <= plan.late
              \/ /\ tick.pc \in {"decide", "sample", "over"}
                 /\ tick.copy.of = plan.number
                 /\ tick.time = trajectory.elapsed
              \/ tick.pc \in {"between", "store", "ready"} /\ Behind(trajectory.elapsed)
        /\ tick.copy.of = plan.number =>
              /\ tick.pc = "store" /\ tick.copy.mode = "ACTIVE" => Behind(tick.copy.elapsed)
              /\ tick.pc \in {"decide", "sample"} =>
                     Distance(Point(planner, tick.time), place) <= 2 + plan.late
              /\ tick.pc \in {"over", "final", "finalSample"} =>
                     Distance(plan.end, place) <= 2 + plan.late
              /\ tick.pc = "finalSample" => tick.time = planner.total

PlannerInv ==
    PlannerTypeOK /\ PlanLeadsToEnd /\ Numbered /\ Exclusive /\ Settling /\ StartNear
        /\ OnCourse /\ TargetNear

LEMMA PointType ==
    ASSUME PlannerTypeOK, NEW t \in Nat
    PROVE  GetTrajectoryPoint(t) = Point(planner, t) /\ Point(planner, t) \in Int
<1>1. GetTrajectoryPoint(t) = Point(planner, t)
  BY DEF GetTrajectoryPoint, Point
<1>2. CASE planner.multi
  <2>1. PICK at \in Int : planner.path = Legs(at)
    BY <1>2 DEF PlannerTypeOK, Plan
  <2>2. Leg \in Nat
    BY PlannerAssumption
  <2> DEFINE out == IF t <= 2 * Leg THEN at + t
                    ELSE IF t <= 4 * Leg THEN at + 4 * Leg - t ELSE at
  <2>3. out \in Int
    BY <2>2
  <2> HIDE DEF out
  <2>4. SegmentPoint(Legs(at), t) = out
    BY OnPath DEF out
  <2> QED BY <1>1, <1>2, <2>1, <2>3, <2>4 DEF Point
<1>3. CASE ~planner.multi
  <2>1. planner \in Plan /\ planner.total = planner.segment.duration
    BY <1>3 DEF PlannerTypeOK
  <2>2. Leads(planner, planner.segment.to)
    BY <1>3, <2>1, SegmentLeads
  <2> QED BY <1>1, <2>2 DEF Leads
<1> QED BY <1>1, <1>2, <1>3

\* One step of the vehicle.
LEMMA StepTowards ==
    ASSUME target \in Int, place \in Int
    PROVE  /\ Follow \in Int
           /\ Distance(target, Follow) <= Distance(target, place)
           /\ \A x \in Int : Distance(x, Follow) <= Distance(x, place) + 1
BY DEF Follow, Distance

LEMMA PlannerInitially == PlannerInit => PlannerInv
<1> SUFFICES ASSUME PlannerInit PROVE PlannerInv
  OBVIOUS
<1> DEFINE s == [from |-> 0, to |-> 0, duration |-> 0]
<1>1. s \in Segment
  BY DEF Segment, Straight
<1>2. /\ planner \in Plan /\ ~planner.multi /\ planner.total = planner.segment.duration
      /\ planner.segment.to = plan.end
  BY <1>1 DEF PlannerInit, Plan
<1>3. PlanLeadsToEnd
  BY <1>2, SegmentLeads DEF PlanLeadsToEnd
<1>4. /\ trajectory = NoTrajectory /\ NoTrajectory \in Trajectories
      /\ tick = Between /\ Between \in Ticks
      /\ planning = [t \in Planners |-> Idle] /\ Idle \in Plannings
      /\ target = 0 /\ settle = 0 /\ place = 0
      /\ plan = [number |-> 0, end |-> 0, late |-> 0, onPath |-> FALSE, undone |-> FALSE]
      /\ aim = [late |-> 0, stray |-> FALSE]
  BY DEF PlannerInit, NoTrajectory, Between, Idle, Trajectories, Ticks, Plannings, Kinds
<1>5. PlannerTypeOK
  <2>1. /\ plan \in Plans
        /\ aim \in [late : Nat, stray : BOOLEAN]
    BY <1>4 DEF Plans
  <2> QED BY <1>2, <1>4, <2>1 DEF PlannerTypeOK
<1>6. \A t \in Planners : planning[t].pc = "idle"
  BY <1>4 DEF Idle
<1>7. Numbered /\ Exclusive /\ Settling /\ StartNear
  BY <1>4, <1>6 DEF NoTrajectory, Between, Numbered, Exclusive, Settling, StartNear
<1>8. OnCourse
  BY <1>4, <1>6 DEF NoTrajectory, Between, OnCourse, Prepared
<1>9. TargetNear
  BY <1>4 DEF TargetNear, Distance
<1> QED BY <1>3, <1>5, <1>7, <1>8, <1>9 DEF PlannerInv

LEMMA ReadStartKeeps ==
    ASSUME PlannerInv, NEW t \in Planners, NEW kind \in Kinds, ReadStart(t, kind)
    PROVE  PlannerInv'
<1> DEFINE new == [pc |-> "read", kind |-> kind, from |-> place, late |-> 0]
<1>1. /\ planning[t].pc = "idle"
      /\ t = "ros" => tick.pc = "between"
      /\ planning' = [planning EXCEPT ![t] = new]
      /\ UNCHANGED <<planner, trajectory, tick, target, settle, place, plan, aim>>
  BY DEF ReadStart
<1>2. place \in Int /\ planning \in [Planners -> Plannings]
  BY DEF PlannerInv, PlannerTypeOK
<1>3. new \in Plannings
  BY <1>2 DEF Plannings
<1>4. planning' \in [Planners -> Plannings]
  BY <1>1, <1>2, <1>3
<1>5. \A u \in Planners : planning'[u] = IF u = t THEN new ELSE planning[u]
  BY <1>1, <1>2
<1>6. Prepared' = Prepared
  BY <1>1, <1>5 DEF Prepared
<1>7. PlannerTypeOK' /\ PlanLeadsToEnd' /\ Numbered' /\ TargetNear'
  BY <1>1, <1>4 DEF PlannerInv, PlannerTypeOK, PlanLeadsToEnd, Numbered, TargetNear
<1>8. Exclusive' /\ Settling'
  <2>1. Exclusive'
    BY <1>1, <1>5 DEF PlannerInv, Exclusive, Planners
  <2> QED BY <1>1, <1>6, <2>1 DEF PlannerInv, Settling
<1>9. StartNear'
  BY <1>1, <1>2, <1>5 DEF PlannerInv, StartNear, Distance
<1>10. OnCourse'
  BY <1>1, <1>6 DEF PlannerInv, OnCourse, Behind, Follow
<1> QED BY <1>7, <1>8, <1>9, <1>10 DEF PlannerInv

\* What a plan has to fulfil when it takes the place of the one before.
LEMMA GenerateKeeps ==
    ASSUME PlannerInv,
           NEW t \in Planners, NEW kind \in Kinds, NEW p \in Plan, NEW end \in Int,
           Generate(t, kind, p, end),
           p.multi => p.path # <<>>, ~p.multi => p.total = p.segment.duration,
           ~(kind = "spin" /\ p.multi) => Leads(p, end) /\ Point(p, 0) = planning[t].from
    PROVE  PlannerInv'
<1> DEFINE new == [Idle EXCEPT !.pc = "planned", !.kind = kind]
<1>1. /\ planning[t].pc = "read" /\ planner' = p
      /\ planning' = [planning EXCEPT ![t] = new]
      /\ plan' = [number |-> plan.number + 1, end |-> end, late |-> planning[t].late,
                  onPath |-> (kind = "spin" /\ p.multi), undone |-> FALSE]
      /\ UNCHANGED <<trajectory, tick, target, settle, place, aim>>
  BY DEF Generate
<1>2. /\ planning \in [Planners -> Plannings] /\ planning[t] \in Plannings
      /\ plan.number \in Nat /\ trajectory.of \in Nat /\ tick.copy.of \in Nat
  BY DEF PlannerInv, PlannerTypeOK, Trajectories, Ticks, Plans
<1>3. /\ plan' \in Plans
      /\ plan'.number = plan.number + 1 /\ plan'.end = end
      /\ plan'.late = planning[t].late /\ (plan'.onPath <=> (kind = "spin" /\ p.multi))
  <2> DEFINE spun == kind = "spin" /\ p.multi
  <2>1. planning[t].late \in Nat /\ spun \in BOOLEAN
    BY <1>2 DEF Plannings
  <2>2. plan' = [number |-> plan.number + 1, end |-> end, late |-> planning[t].late,
                 onPath |-> spun, undone |-> FALSE]
    BY <1>1
  <2> HIDE DEF spun
  <2>3. /\ plan' \in Plans
        /\ plan'.number = plan.number + 1 /\ plan'.end = end
        /\ plan'.late = planning[t].late /\ plan'.onPath = spun
    BY <1>2, <2>1, <2>2 DEF Plans
  <2> QED BY <2>3 DEF spun
<1>4. new \in Plannings /\ new.pc = "planned"
  <2>1. Idle \in Plannings
    BY DEF Idle, Plannings, Kinds
  <2> QED BY <2>1 DEF Plannings
<1> HIDE DEF new
<1>5. /\ planning' \in [Planners -> Plannings] /\ planning'[t].pc = "planned"
      /\ \A u \in Planners \ {t} : planning'[u] = planning[u]
  BY <1>1, <1>2, <1>4
<1>6. Prepared'
  BY <1>5 DEF Prepared
<1>7. PlannerTypeOK' /\ PlanLeadsToEnd'
  BY <1>1, <1>3, <1>5 DEF PlannerInv, PlannerTypeOK, PlanLeadsToEnd
<1>8. Numbered' /\ trajectory'.of # plan'.number /\ tick'.copy.of # plan'.number
  BY <1>1, <1>2, <1>3 DEF PlannerInv, Numbered
<1>9. Exclusive' /\ Settling' /\ TargetNear'
  <2>1. Exclusive' /\ TargetNear'
    BY <1>1, <1>5 DEF PlannerInv, Exclusive, TargetNear, Planners
  <2>2. /\ (tick.pc = "settle" => tick.copy.mode = "COMPLETED")
        /\ trajectory.mode = "COMPLETED" /\ ~trajectory.settled =>
               tick.pc \notin {"decide", "sample", "over"}
    BY DEF PlannerInv, Settling
  <2>3. trajectory' = trajectory /\ tick' = tick /\ settle' = settle
    BY <1>1
  <2>4. Settling'
    BY <1>6, <1>8, <2>2, <2>3 DEF Settling
  <2> QED BY <2>1, <2>4
<1>10. StartNear'
  BY <1>1, <1>5 DEF PlannerInv, StartNear
<1>11. OnCourse'
  <2>1. ~plan'.onPath => Distance(Point(p, 0), place) <= plan'.late
    BY <1>1, <1>3 DEF PlannerInv, StartNear
  <2> QED BY <1>1, <1>8, <2>1 DEF OnCourse
<1> QED BY <1>7, <1>8, <1>9, <1>10, <1>11 DEF PlannerInv

LEMMA PlansKeep ==
    ASSUME PlannerInv,
           NEW t \in Planners, NEW to \in Int, NEW d \in Nat,
           PlanGoto(t, to) \/ PlanLandingDescentTo(t, to) \/ PlanSpin(t, d) \/ PlanPath(t)
    PROVE  PlannerInv'
<1> DEFINE from == planning[t].from
<1>1. planner \in Plan /\ from \in Int /\ Leg \in Nat
  BY PlannerAssumption DEF PlannerInv, PlannerTypeOK, Plannings
<1> HIDE DEF from
<1>2. CASE PlanGoto(t, to) \/ PlanLandingDescentTo(t, to)
  <2> DEFINE p == GenerateTrajectory(from, to)
  <2>1. CalculateDuration(from, to) = IF Distance(from, to) < 1 THEN 1 ELSE Distance(from, to)
    <3>1. Distance(from, to) \in Int
      BY <1>1 DEF Distance
    <3> QED BY <3>1, MaxOfTwo DEF CalculateDuration
  <2>2. [from |-> from, to |-> to, duration |-> CalculateDuration(from, to)] \in Segment
    BY <1>1, <2>1 DEF Segment, Straight, Distance
  <2>3. /\ p \in Plan /\ ~p.multi /\ p.total = p.segment.duration
        /\ p.segment.to = to /\ p.segment.from = from
    BY <1>1, <2>2 DEF GenerateTrajectory, Plan, Segment
  <2>4. Generate(t, "goto", p, to) \/ Generate(t, "land", p, to)
    BY <1>2 DEF PlanGoto, PlanLandingDescentTo, from
  <2> HIDE DEF p
  <2>5. Leads(p, to) /\ Point(p, 0) = planning[t].from
    BY <2>3, SegmentLeads DEF from
  <2> QED BY <2>3, <2>4, <2>5, GenerateKeeps DEF Kinds
<1>3. CASE PlanSpin(t, d)
  <2> DEFINE p == GenerateSpinTrajectory(from, d)
  <2>1. [from |-> from, to |-> from, duration |-> d] \in Segment
    BY <1>1 DEF Segment, Straight
  <2>2. /\ p \in Plan /\ p.multi = planner.multi /\ p.total = p.segment.duration
        /\ p.segment.to = from /\ p.segment.from = from /\ p.path = planner.path
    BY <1>1, <2>1 DEF GenerateSpinTrajectory, Plan, Segment
  <2>3. Generate(t, "spin", p, from)
    BY <1>3 DEF PlanSpin, from
  <2> HIDE DEF p
  <2>4. ~p.multi => Leads(p, from) /\ Point(p, 0) = planning[t].from
    BY <2>2, SegmentLeads DEF from
  <2> QED BY <1>1, <2>2, <2>3, <2>4, GenerateKeeps DEF PlannerInv, PlannerTypeOK, Kinds
<1>4. CASE PlanPath(t)
  <2> DEFINE p == GenerateMultiWaypointTrajectory(from)
  <2>1. p = [planner EXCEPT !.multi = TRUE, !.path = Legs(from), !.total = 4 * Leg]
    BY DEF GenerateMultiWaypointTrajectory, Legs, Waypoints
  <2>2. 4 * Leg \in Nat /\ Legs(from) # <<>>
    BY <1>1 DEF Legs
  <2>3. p \in Plan /\ p.multi /\ p.path = Legs(from) /\ p.total = 4 * Leg
    BY <1>1, <2>1, <2>2 DEF Plan
  <2>4. Generate(t, "path", p, from)
    BY <1>4 DEF PlanPath, from
  <2> HIDE DEF p
  <2>5. Leads(p, from) /\ Point(p, 0) = planning[t].from
    BY <1>1, <2>3, PathLeads DEF from
  <2> QED BY <1>1, <2>2, <2>3, <2>4, <2>5, GenerateKeeps DEF Kinds
<1> QED BY <1>2, <1>3, <1>4

LEMMA ActivateKeeps ==
    ASSUME PlannerInv, NEW t \in Planners, Activate(t)
    PROVE  PlannerInv'
<1> DEFINE new == [Idle EXCEPT !.pc = IF Waits(planning[t].kind) THEN "waiting" ELSE "idle"]
<1>1. /\ planning[t].pc = "planned"
      /\ trajectory' = [mode |-> "ACTIVE", elapsed |-> 0, of |-> plan.number,
                        settled |-> (planning[t].kind = "land" /\ trajectory.settled)]
      /\ planning' = [planning EXCEPT ![t] = new]
      /\ UNCHANGED <<planner, tick, target, settle, place, plan, aim>>
  BY DEF Activate
<1>2. planning \in [Planners -> Plannings] /\ plan.number \in Nat
  BY DEF PlannerInv, PlannerTypeOK, Plans
<1>3. new \in Plannings /\ new.pc \in {"waiting", "idle"}
  BY DEF Idle, Plannings, Kinds
<1> HIDE DEF new
<1>4. /\ planning' \in [Planners -> Plannings]
      /\ \A u \in Planners : planning'[u] = IF u = t THEN new ELSE planning[u]
  BY <1>1, <1>2, <1>3
<1>5. trajectory' \in Trajectories
  <2>1. (planning[t].kind = "land" /\ trajectory.settled) \in BOOLEAN
    OBVIOUS
  <2> QED BY <1>1, <1>2, <2>1 DEF Trajectories
<1>6. Prepared /\ (Prepared' => Prepared)
  BY <1>1 DEF Prepared
<1>7. PlannerTypeOK' /\ PlanLeadsToEnd' /\ Numbered' /\ Exclusive' /\ Settling' /\ TargetNear'
  <2>1. PlannerTypeOK' /\ PlanLeadsToEnd' /\ Numbered' /\ TargetNear'
    BY <1>1, <1>2, <1>4, <1>5 DEF PlannerInv, PlannerTypeOK, PlanLeadsToEnd, Numbered, TargetNear
  <2>2. Exclusive'
    BY <1>1, <1>4 DEF PlannerInv, Exclusive, Planners
  <2>3. Settling'
    BY <1>1 DEF PlannerInv, Settling
  <2> QED BY <2>1, <2>2, <2>3
<1>8. StartNear'
  BY <1>1, <1>3, <1>4 DEF PlannerInv, StartNear
<1>9. OnCourse'
  <2>1. ~plan.onPath => Distance(Point(planner, 0), place) <= plan.late
    BY <1>6 DEF PlannerInv, OnCourse
  <2>2. trajectory'.elapsed = 0 /\ Follow' = Follow
    BY <1>1 DEF Follow
  <2> QED BY <1>1, <1>6, <2>1, <2>2 DEF PlannerInv, OnCourse, Behind
<1> QED BY <1>7, <1>8, <1>9 DEF PlannerInv

\* A wait, and what ends it, does not touch the other thread nor what is prepared.
LEMMA WaitEndKeeps ==
    ASSUME PlannerInv, NEW new \in Plannings,
           planning["exec"].pc \notin {"read", "planned"}, new.pc \notin {"read", "planned"},
           new.pc = "halting" => new.from = place,
           planning' = [planning EXCEPT !["exec"] = new]
    PROVE  /\ planning' \in [Planners -> Plannings]
           /\ Prepared' = Prepared
           /\ UNCHANGED place => StartNear'
           /\ UNCHANGED tick => Exclusive'
<1>1. planning \in [Planners -> Plannings]
  BY DEF PlannerInv, PlannerTypeOK
<1>2. \A u \in Planners : planning'[u] = IF u = "exec" THEN new ELSE planning[u]
  BY <1>1
<1>3. planning' \in [Planners -> Plannings]
  BY <1>1
<1>4. Prepared' = Prepared
  BY <1>2 DEF Prepared
<1>5. UNCHANGED place => StartNear'
  <2>1. place \in Int /\ new.late \in Nat
    BY DEF PlannerInv, PlannerTypeOK, Plannings
  <2>2. Distance(place, place) <= new.late
    BY <2>1 DEF Distance
  <2> QED BY <1>2, <2>2 DEF PlannerInv, StartNear
<1>6. UNCHANGED tick => Exclusive'
  BY <1>2 DEF PlannerInv, Exclusive, Planners
<1> QED BY <1>3, <1>4, <1>5, <1>6

LEMMA SettleEndsWaitKeeps == PlannerInv /\ SettleEndsWait => PlannerInv'
<1> SUFFICES ASSUME PlannerInv, SettleEndsWait PROVE PlannerInv'
  OBVIOUS
<1>1. /\ planning["exec"].pc = "waiting"
      /\ planning' = [planning EXCEPT !["exec"] = Idle]
      /\ UNCHANGED <<planner, trajectory, tick, target, settle, place, plan, aim>>
  BY DEF SettleEndsWait
<1>2. /\ planning' \in [Planners -> Plannings] /\ Prepared' = Prepared
      /\ StartNear' /\ Exclusive'
  <2>1. Idle \in Plannings /\ Idle.pc = "idle"
    BY DEF Idle, Plannings, Kinds
  <2> QED BY <1>1, <2>1, WaitEndKeeps
<1>3. PlannerTypeOK' /\ PlanLeadsToEnd' /\ Numbered' /\ Settling' /\ TargetNear'
  BY <1>1, <1>2 DEF PlannerInv, PlannerTypeOK, PlanLeadsToEnd, Numbered, Settling, TargetNear
<1>4. OnCourse'
  BY <1>1, <1>2 DEF PlannerInv, OnCourse, Behind, Follow
<1> QED BY <1>2, <1>3, <1>4 DEF PlannerInv

LEMMA HoldReadsKeeps == PlannerInv /\ HoldReads => PlannerInv'
<1> SUFFICES ASSUME PlannerInv, HoldReads PROVE PlannerInv'
  OBVIOUS
<1> DEFINE new == [planning["exec"] EXCEPT !.pc = "halting", !.from = place]
<1>1. /\ planning["exec"].pc = "waiting"
      /\ planning' = [planning EXCEPT !["exec"] = new]
      /\ UNCHANGED <<planner, trajectory, tick, target, settle, place, plan, aim>>
  BY DEF HoldReads
<1>2. /\ planning' \in [Planners -> Plannings] /\ Prepared' = Prepared
      /\ StartNear' /\ Exclusive'
  <2>1. "exec" \in Planners
    BY DEF Planners
  <2>2. planning["exec"] \in Plannings /\ place \in Int
    BY <2>1 DEF PlannerInv, PlannerTypeOK
  <2>3. new \in Plannings /\ new.pc = "halting" /\ new.from = place
    BY <2>2 DEF Plannings
  <2> HIDE DEF new
  <2> QED BY <1>1, <2>3, WaitEndKeeps
<1>3. PlannerTypeOK' /\ PlanLeadsToEnd' /\ Numbered' /\ Settling' /\ TargetNear'
  BY <1>1, <1>2 DEF PlannerInv, PlannerTypeOK, PlanLeadsToEnd, Numbered, Settling, TargetNear
<1>4. OnCourse'
  BY <1>1, <1>2 DEF PlannerInv, OnCourse, Behind, Follow
<1> QED BY <1>2, <1>3, <1>4 DEF PlannerInv

LEMMA HoldTargetKeeps == PlannerInv /\ HoldTarget => PlannerInv'
<1> SUFFICES ASSUME PlannerInv, HoldTarget PROVE PlannerInv'
  OBVIOUS
<1> DEFINE new == [Idle EXCEPT !.pc = "holding"]
           read == planning["exec"]
<1>1. /\ read.pc = "halting"
      /\ planning' = [planning EXCEPT !["exec"] = new]
      /\ target' = read.from
      /\ aim' = [late |-> read.late, stray |-> FALSE]
      /\ plan' = [plan EXCEPT !.late = @ + 2]
      /\ UNCHANGED <<planner, trajectory, tick, settle, place>>
  BY DEF HoldTarget
<1>2. /\ planning' \in [Planners -> Plannings] /\ Prepared' = Prepared
      /\ StartNear' /\ Exclusive'
  <2>1. new \in Plannings /\ new.pc = "holding"
    BY DEF Idle, Plannings, Kinds
  <2> HIDE DEF new
  <2> QED BY <1>1, <2>1, WaitEndKeeps
<1>3. /\ plan \in Plans
      /\ place \in Int /\ tick \in Ticks /\ trajectory \in Trajectories
      /\ read.from \in Int /\ read.late \in Nat
      /\ Distance(read.from, place) <= read.late
  <2>1. "exec" \in Planners
    BY DEF Planners
  <2>2. read \in Plannings
    BY <2>1 DEF PlannerInv, PlannerTypeOK
  <2>3. Distance(read.from, place) <= read.late
    BY <1>1, <2>1 DEF PlannerInv, StartNear
  <2> QED BY <2>2, <2>3 DEF PlannerInv, PlannerTypeOK, Plannings
<1> HIDE DEF read
<1>4. /\ plan' \in Plans
      /\ plan'.number = plan.number /\ plan'.end = plan.end
      /\ plan'.late = plan.late + 2 /\ plan'.onPath = plan.onPath /\ plan.late \in Nat
      /\ plan'.undone = plan.undone
  BY <1>1, <1>3 DEF Plans
<1>5. PlannerTypeOK' /\ PlanLeadsToEnd' /\ Numbered' /\ Settling'
  <2>1. aim' \in [late : Nat, stray : BOOLEAN]
    BY <1>1, <1>3
  <2> QED BY <1>1, <1>2, <1>3, <1>4, <2>1
          DEF PlannerInv, PlannerTypeOK, PlanLeadsToEnd, Numbered, Settling
<1>6. TargetNear'
  BY <1>1, <1>3 DEF TargetNear, Distance
<1>7. OnCourse'
  <2> SUFFICES ASSUME ~plan.onPath PROVE OnCourse'
    BY <1>4 DEF OnCourse
  <2> DEFINE off(x) == Distance(x, place)
  <2>1. \A x \in Int : Distance(x, Follow') <= off(x) + 1 /\ Distance(x, Follow') \in Int
    BY <1>1, <1>3 DEF Follow, Distance
  <2>2. \A x \in Int : off(x) \in Int
    BY <1>3 DEF Distance
  <2>3. /\ Point(planner, 0) \in Int /\ Point(planner, trajectory.elapsed) \in Int
        /\ Point(planner, tick.time) \in Int /\ plan.end \in Int
        /\ Point(planner, tick.copy.elapsed) \in Int
    <3>1. /\ trajectory.elapsed \in Nat /\ tick.copy.elapsed \in Nat /\ tick.time \in Nat
          /\ 0 \in Nat /\ plan.end \in Int
      BY <1>3 DEF Trajectories, Ticks, Plans
    <3> QED BY <3>1, PointType DEF PlannerInv
  <2>4. /\ off(Point(planner, 0)) \in Int /\ off(Point(planner, trajectory.elapsed)) \in Int
        /\ off(Point(planner, tick.time)) \in Int /\ off(plan.end) \in Int
        /\ off(Point(planner, tick.copy.elapsed)) \in Int
    BY <2>2, <2>3
  <2>5. OnCourse
    BY DEF PlannerInv
  <2>6. \A t : Behind(t) => \/ off(Point(planner, t)) <= plan.late
                            \/ off(Point(planner, t)) <= 2 + plan.late
    BY DEF Behind
  <2> HIDE DEF off
  <2>7. Prepared => off(Point(planner, 0)) <= plan.late + 2
    BY <1>4, <2>4, <2>5 DEF OnCourse, off
  <2>8. trajectory.mode = "ACTIVE" /\ trajectory.of = plan.number =>
              \/ off(Point(planner, trajectory.elapsed)) <= plan.late + 2
              \/ /\ tick.pc \in {"decide", "sample", "over"}
                 /\ tick.copy.of = plan.number
                 /\ tick.time = trajectory.elapsed
              \/ /\ tick.pc \in {"between", "store", "ready"}
                 /\ off(Point(planner, trajectory.elapsed)) <= 2 + plan.late
    BY <1>4, <2>4, <2>5, <2>6 DEF OnCourse, off
  <2>9. tick.copy.of = plan.number =>
              /\ (tick.pc = "store" /\ tick.copy.mode = "ACTIVE" =>
                     off(Point(planner, tick.copy.elapsed)) <= 2 + plan.late)
              /\ (tick.pc \in {"decide", "sample"} =>
                     off(Point(planner, tick.time)) <= 4 + plan.late)
              /\ (tick.pc \in {"over", "final", "finalSample"} =>
                     off(plan.end) <= 4 + plan.late)
              /\ (tick.pc = "finalSample" => tick.time = planner.total)
    BY <1>4, <2>4, <2>5, <2>6 DEF OnCourse, off
  <2>10. UNCHANGED <<planner, trajectory, tick, place>> /\ Prepared' = Prepared
    BY <1>1, <1>2
  <2>11. ASSUME NEW t, Point(planner, t) \in Int, off(Point(planner, t)) \in Int
         PROVE  off(Point(planner, t)) <= 2 + plan.late =>
                    /\ Distance(Point(planner, t), place) <= 2 + plan'.late
                    /\ Distance(Point(planner, t), Follow') <= 1 + plan'.late
    BY <1>4, <2>1, <2>11 DEF off
  <2>12. /\ tick.pc = "store" /\ tick.copy.mode = "ACTIVE" /\ tick.copy.of = plan.number =>
               Behind(tick.copy.elapsed)'
         /\ off(Point(planner, trajectory.elapsed)) <= 2 + plan.late =>
               Behind(trajectory.elapsed)'
    BY <2>3, <2>4, <2>9, <2>10, <2>11 DEF Behind
  <2> QED BY <1>4, <2>4, <2>7, <2>8, <2>9, <2>10, <2>12 DEF OnCourse, off
<1> QED BY <1>2, <1>5, <1>6, <1>7 DEF PlannerInv

LEMMA HoldStateKeeps == PlannerInv /\ HoldState => PlannerInv'
<1> SUFFICES ASSUME PlannerInv, HoldState PROVE PlannerInv'
  OBVIOUS
<1>1. /\ planning["exec"].pc = "holding"
      /\ planning' = [planning EXCEPT !["exec"] = Idle]
      /\ trajectory' = [trajectory EXCEPT !.mode = "COMPLETED", !.settled = TRUE]
      /\ UNCHANGED <<planner, tick, target, settle, place, plan, aim>>
  BY DEF HoldState
<1>2. /\ planning' \in [Planners -> Plannings] /\ Prepared' = Prepared
      /\ StartNear' /\ Exclusive'
  <2>1. Idle \in Plannings /\ Idle.pc = "idle"
    BY DEF Idle, Plannings, Kinds
  <2> QED BY <1>1, <2>1, WaitEndKeeps
<1>3. /\ trajectory' \in Trajectories /\ trajectory'.mode = "COMPLETED" /\ trajectory'.settled
      /\ trajectory'.of = trajectory.of
  BY <1>1 DEF PlannerInv, PlannerTypeOK, Trajectories
<1>4. PlannerTypeOK' /\ PlanLeadsToEnd' /\ Numbered' /\ Settling' /\ TargetNear'
  BY <1>1, <1>2, <1>3
     DEF PlannerInv, PlannerTypeOK, PlanLeadsToEnd, Numbered, Settling, TargetNear
<1>5. OnCourse'
  BY <1>1, <1>2, <1>3 DEF PlannerInv, OnCourse, Behind, Follow
<1> QED BY <1>2, <1>4, <1>5 DEF PlannerInv

\* What a callback takes to store is what was there; what it stores may be older.
LEMMA ControlLoopReadsKeeps == PlannerInv /\ ControlLoopReads => PlannerInv'
<1> SUFFICES ASSUME PlannerInv, ControlLoopReads PROVE PlannerInv'
  OBVIOUS
<1>1. /\ tick.pc = "between" /\ planning["ros"].pc = "idle"
      /\ tick' = [pc |-> "store", copy |-> trajectory, time |-> 0]
      /\ UNCHANGED <<planner, trajectory, planning, target, settle, place, plan, aim>>
  BY DEF ControlLoopReads
<1>2. /\ tick' \in Ticks /\ tick'.pc = "store" /\ tick'.copy = trajectory
      /\ trajectory \in Trajectories
  BY <1>1 DEF PlannerInv, PlannerTypeOK, Ticks
<1>3. Prepared' = Prepared /\ Follow' = Follow
  BY <1>1 DEF Prepared, Follow
<1>4. /\ PlannerTypeOK' /\ PlanLeadsToEnd' /\ Numbered' /\ Exclusive' /\ StartNear'
      /\ TargetNear'
  BY <1>1, <1>2 DEF PlannerInv, PlannerTypeOK, PlanLeadsToEnd, Numbered, Exclusive,
                    StartNear, TargetNear
<1>5. Settling'
  BY <1>1, <1>2, <1>3 DEF PlannerInv, Settling
<1>6. OnCourse'
  BY <1>1, <1>2, <1>3 DEF PlannerInv, OnCourse, Behind
<1> QED BY <1>4, <1>5, <1>6 DEF PlannerInv

LEMMA StoreCopyKeeps ==
    PlannerInv /\ (ControlLoopStores \/ VehicleStatusStores) => PlannerInv'
<1> SUFFICES ASSUME PlannerInv, ControlLoopStores \/ VehicleStatusStores PROVE PlannerInv'
  OBVIOUS
<1> DEFINE replaced == trajectory.of # tick.copy.of
<1>1. /\ tick.pc = "store" /\ trajectory' = tick.copy
      /\ plan' = [plan EXCEPT !.undone = @ \/ replaced]
      /\ tick' \in {[Between EXCEPT !.pc = "ready"], Between}
      /\ UNCHANGED <<planner, planning, target, settle, place, aim>>
  BY DEF ControlLoopStores, VehicleStatusStores, StoreCopy
<1>2. /\ tick' \in Ticks /\ tick'.pc \in {"ready", "between"} /\ tick'.copy.of = 0
      /\ trajectory' \in Trajectories /\ plan \in Plans
  <2>1. trajectory' \in Trajectories /\ plan \in Plans
    BY <1>1 DEF PlannerInv, PlannerTypeOK, Ticks
  <2>2. \A b \in {[Between EXCEPT !.pc = "ready"], Between} :
           b \in Ticks /\ b.pc \in {"ready", "between"} /\ b.copy.of = 0
    <3>1. NoTrajectory \in Trajectories /\ NoTrajectory.of = 0
      BY DEF NoTrajectory, Trajectories
    <3> QED BY <3>1 DEF Between, Ticks
  <2> QED BY <1>1, <2>1, <2>2
<1>3. /\ plan' \in Plans /\ plan'.number = plan.number /\ plan'.end = plan.end
      /\ plan'.late = plan.late /\ plan'.onPath = plan.onPath /\ plan.number \in Nat
      /\ ~plan'.undone => ~plan.undone /\ ~replaced
  <2>1. replaced \in BOOLEAN
    OBVIOUS
  <2> HIDE DEF replaced
  <2>2. (plan.undone \/ replaced) \in BOOLEAN /\ plan.number \in Nat
    BY <1>2, <2>1 DEF Plans
  <2>3. plan' = [plan EXCEPT !.undone = plan.undone \/ replaced]
    BY <1>1
  <2> QED BY <1>2, <2>2, <2>3 DEF Plans
<1>4. Prepared' = Prepared /\ Follow' = Follow
  BY <1>1 DEF Prepared, Follow
<1>5. /\ PlannerTypeOK' /\ PlanLeadsToEnd' /\ Numbered' /\ Exclusive' /\ StartNear'
      /\ TargetNear'
  <2>1. PlannerTypeOK' /\ PlanLeadsToEnd'
    BY <1>1, <1>2, <1>3 DEF PlannerInv, PlannerTypeOK, PlanLeadsToEnd
  <2>2. Numbered' /\ Exclusive' /\ StartNear' /\ TargetNear'
    BY <1>1, <1>2, <1>3 DEF PlannerInv, Numbered, Exclusive, StartNear, TargetNear
  <2> QED BY <2>1, <2>2
<1>6. Settling'
  BY <1>1, <1>2, <1>3, <1>4 DEF PlannerInv, Settling
<1>7. OnCourse'
  BY <1>1, <1>2, <1>3, <1>4 DEF PlannerInv, OnCourse, Behind
<1> QED BY <1>5, <1>6, <1>7 DEF PlannerInv

\* A tick begins: the vehicle has moved by a step, and so has what is late.
LEMMA TickReadsKeeps == PlannerInv /\ TickReads => PlannerInv'
<1> SUFFICES ASSUME PlannerInv, TickReads PROVE PlannerInv'
  OBVIOUS
<1> DEFINE now == IF trajectory.mode = "ACTIVE"
                  THEN [trajectory EXCEPT !.elapsed = @ + 1] ELSE trajectory
<1>1. /\ tick.pc = "ready" /\ place' = Follow
      /\ trajectory' = now
      /\ tick' = IF now.mode = "ACTIVE"
                 THEN [pc |-> "decide", copy |-> now, time |-> now.elapsed]
                 ELSE IF now.mode = "COMPLETED" /\ ~now.settled
                 THEN [pc |-> "settle", copy |-> now, time |-> 0]
                 ELSE Between
      /\ planning' = IF planning["exec"].pc \in {"read", "halting"}
                     THEN [planning EXCEPT !["exec"].late = @ + 1] ELSE planning
      /\ plan' = IF planning["exec"].pc = "planned"
                 THEN [plan EXCEPT !.late = @ + 1] ELSE plan
      /\ UNCHANGED <<planner, target, settle, aim>>
  BY DEF TickReads
<1>2. /\ trajectory \in Trajectories /\ target \in Int /\ place \in Int
      /\ planning \in [Planners -> Plannings]
      /\ plan \in Plans
  BY DEF PlannerInv, PlannerTypeOK
<1>3. /\ now \in Trajectories /\ now.mode = trajectory.mode /\ now.of = trajectory.of
      /\ now.settled = trajectory.settled
      /\ now.mode = "ACTIVE" => now.elapsed = trajectory.elapsed + 1
      /\ trajectory.elapsed \in Nat /\ trajectory.of \in Nat
  BY <1>2 DEF Trajectories
<1> HIDE DEF now
<1>4. /\ tick' \in Ticks
      /\ tick'.pc \in {"decide", "settle", "between"}
      /\ tick'.pc = "decide" =>
             trajectory.mode = "ACTIVE" /\ tick'.copy = now /\ tick'.time = now.elapsed
      /\ trajectory.mode = "ACTIVE" => tick'.pc = "decide"
      /\ tick'.pc = "settle" => tick'.copy = now /\ now.mode = "COMPLETED"
      /\ tick'.copy.of \in {now.of, 0}
  BY <1>1, <1>3 DEF Between, NoTrajectory, Ticks, Trajectories
<1>5. /\ place' \in Int /\ Distance(target, place') <= Distance(target, place)
      /\ \A x \in Int : Distance(x, place') <= Distance(x, place) + 1
  BY <1>1, <1>2, StepTowards
<1>6. /\ plan' \in Plans
      /\ plan'.number = plan.number /\ plan'.end = plan.end /\ plan'.onPath = plan.onPath
      /\ plan'.late = plan.late + IF planning["exec"].pc = "planned" THEN 1 ELSE 0
      /\ plan.late \in Nat /\ plan.number \in Nat /\ plan'.undone = plan.undone
  BY <1>1, <1>2 DEF Plans
<1>7. planning["ros"].pc = "idle"
  BY <1>1 DEF PlannerInv, Exclusive
<1>8. /\ planning' \in [Planners -> Plannings]
      /\ \A t \in Planners :
            /\ planning'[t].pc = planning[t].pc /\ planning'[t].from = planning[t].from
            /\ planning[t].pc \in {"read", "halting"} =>
                   planning'[t].late = planning[t].late + 1
  <2>1. "exec" \in Planners /\ planning["exec"] \in Plannings
    BY <1>2 DEF Planners
  <2>2. CASE planning["exec"].pc \in {"read", "halting"}
    <3>1. planning' = [planning EXCEPT !["exec"].late = @ + 1]
      BY <1>1, <2>2
    <3>2. [planning["exec"] EXCEPT !.late = @ + 1] \in Plannings
      BY <2>1 DEF Plannings
    <3>3. planning' \in [Planners -> Plannings]
      BY <1>2, <3>1, <3>2
    <3>4. \A t \in Planners \ {"exec"} : planning'[t] = planning[t] /\ t = "ros"
      BY <1>2, <3>1 DEF Planners
    <3>5. /\ planning'["exec"].pc = planning["exec"].pc
          /\ planning'["exec"].from = planning["exec"].from
          /\ planning'["exec"].late = planning["exec"].late + 1
      BY <1>2, <2>1, <3>1 DEF Plannings
    <3> QED BY <1>7, <3>3, <3>4, <3>5
  <2>3. CASE planning["exec"].pc \notin {"read", "halting"}
    <3>1. planning' = planning /\ \A t \in Planners : planning[t].pc \notin {"read", "halting"}
      BY <1>1, <1>7, <2>3 DEF Planners
    <3> QED BY <1>2, <3>1
  <2> QED BY <2>2, <2>3
<1>9. Prepared' = Prepared /\ (Prepared => planning["exec"].pc = "planned")
  BY <1>7, <1>8 DEF Prepared, Planners
<1>10. PlannerTypeOK' /\ PlanLeadsToEnd' /\ Numbered' /\ Exclusive'
  <2>1. Exclusive'
    BY <1>8, <1>7 DEF Exclusive, Planners
  <2> QED BY <1>1, <1>3, <1>4, <1>5, <1>6, <1>8, <2>1
          DEF PlannerInv, PlannerTypeOK, PlanLeadsToEnd, Numbered
<1>11. Settling'
  BY <1>1, <1>3, <1>4, <1>6, <1>9 DEF PlannerInv, Settling
<1>12. TargetNear'
  <2>1. aim.late \in Nat /\ Distance(target, place) \in Int /\ Distance(target, place') \in Int
    BY <1>2, <1>5 DEF PlannerInv, PlannerTypeOK, Distance
  <2> QED BY <1>1, <1>5, <2>1 DEF PlannerInv, TargetNear
<1>13. StartNear'
  <2> SUFFICES ASSUME NEW t \in Planners, planning[t].pc \in {"read", "halting"}
               PROVE  Distance(planning'[t].from, place') <= planning'[t].late
    BY <1>8 DEF StartNear
  <2> DEFINE from == planning[t].from
             late == planning[t].late
  <2>1. from \in Int /\ late \in Nat
    BY <1>2 DEF Plannings
  <2>2. Distance(from, place) <= late
    BY DEF PlannerInv, StartNear
  <2>3. planning'[t].from = from /\ planning'[t].late = late + 1
    BY <1>8
  <2> HIDE DEF from, late
  <2>4. Distance(from, place) \in Int /\ Distance(from, place') \in Int
    BY <1>2, <1>5, <2>1 DEF Distance
  <2>5. Distance(from, place') <= Distance(from, place) + 1
    BY <1>5, <2>1
  <2> QED BY <2>1, <2>2, <2>3, <2>4, <2>5
<1>14. OnCourse'
  <2> SUFFICES ASSUME ~plan.onPath PROVE OnCourse'
    BY <1>6 DEF OnCourse
  <2> DEFINE start == Point(planner, 0)
             e == trajectory.elapsed
             a == Point(planner, e)
             b == Point(planner, e + 1)
  <2>1. start \in Int /\ a \in Int /\ b \in Int /\ Distance(a, b) <= 1
    <3>1. Leads(planner, plan.end) /\ e \in Nat /\ e + 1 \in Nat
      BY <1>3 DEF PlannerInv, PlanLeadsToEnd
    <3> QED BY <3>1 DEF Leads
  <2>2. Prepared => Distance(start, place') <= plan'.late
    <3>1. Prepared => Distance(start, place) <= plan.late
      BY DEF PlannerInv, OnCourse
    <3> HIDE DEF start
    <3>2. Distance(start, place) \in Int /\ Distance(start, place') \in Int
      BY <1>2, <1>5, <2>1 DEF Distance
    <3>3. Distance(start, place') <= Distance(start, place) + 1
      BY <1>5, <2>1
    <3> QED BY <1>6, <1>9, <2>1, <3>1, <3>2, <3>3
  <2>3. ASSUME trajectory.mode = "ACTIVE", trajectory.of = plan.number
        PROVE  Distance(b, place') <= 2 + plan'.late
    <3>1. \/ Distance(a, place) <= plan.late
          \/ Distance(a, place') <= 1 + plan.late
      BY <1>1, <2>3 DEF PlannerInv, OnCourse, Behind
    <3> HIDE DEF a, b
    <3>2. Distance(a, place') <= Distance(a, place) + 1
      BY <1>5, <2>1
    <3>3. /\ Distance(a, place) \in Int /\ Distance(a, place') \in Int
          /\ Distance(b, place') <= Distance(a, place') + Distance(a, b)
          /\ Distance(b, place') \in Int /\ Distance(a, b) \in Int
      <4>1. \A x, y, z \in Int : /\ Distance(x, y) \in Int
                                 /\ Distance(x, z) <= Distance(y, z) + Distance(y, x)
        BY DEF Distance
      <4> QED BY <1>2, <1>5, <2>1, <4>1
    <3>4. plan'.late \in Int /\ plan.late \in Int /\ plan.late <= plan'.late
      BY <1>6
    <3> QED BY <2>1, <3>1, <3>2, <3>3, <3>4
  <2>4. tick'.pc = "decide" => trajectory'.elapsed = e + 1 /\ tick'.time = e + 1
                              /\ tick'.copy.of = trajectory.of
    BY <1>1, <1>3, <1>4
  <2> QED BY <1>1, <1>3, <1>4, <1>6, <1>9, <2>2, <2>3, <2>4 DEF OnCourse
<1> QED BY <1>10, <1>11, <1>12, <1>13, <1>14 DEF PlannerInv

LEMMA TickDecidesKeeps == PlannerInv /\ TickDecides => PlannerInv'
<1> SUFFICES ASSUME PlannerInv, TickDecides PROVE PlannerInv'
  OBVIOUS
<1>1. /\ tick.pc = "decide" /\ tick \in Ticks /\ planner.total \in Nat
      /\ tick' = [tick EXCEPT !.pc = IF tick.time > planner.total THEN "over" ELSE "sample"]
      /\ UNCHANGED <<planner, trajectory, planning, target, settle, place, plan, aim>>
  BY DEF TickDecides, PlannerInv, PlannerTypeOK, Plan
<1>2. /\ tick' \in Ticks /\ tick'.copy = tick.copy /\ tick'.time = tick.time
      /\ tick'.pc \in {"over", "sample"} /\ tick.time \in Nat
      /\ tick'.pc = "over" => tick.time > planner.total
  BY <1>1 DEF Ticks
<1>3. Prepared' = Prepared
  BY <1>1 DEF Prepared
<1>4. /\ PlannerTypeOK' /\ PlanLeadsToEnd' /\ Numbered' /\ Exclusive' /\ Settling'
      /\ StartNear' /\ TargetNear'
  BY <1>1, <1>2, <1>3 DEF PlannerInv, PlannerTypeOK, PlanLeadsToEnd, Numbered, Exclusive,
                          Settling, StartNear, TargetNear
<1>5. ~plan.onPath /\ tick'.pc = "over" => Point(planner, tick.time) = plan.end
  BY <1>1, <1>2 DEF PlannerInv, PlanLeadsToEnd, Leads
<1>6. OnCourse'
  BY <1>1, <1>2, <1>3, <1>5 DEF PlannerInv, OnCourse
<1> QED BY <1>4, <1>6 DEF PlannerInv

LEMMA TickCompletesKeeps == PlannerInv /\ TickCompletes => PlannerInv'
<1> SUFFICES ASSUME PlannerInv, TickCompletes PROVE PlannerInv'
  OBVIOUS
<1>1. /\ tick.pc = "over" /\ tick \in Ticks
      /\ trajectory' = [tick.copy EXCEPT !.mode = "COMPLETED", !.settled = FALSE]
      /\ tick' = [tick EXCEPT !.pc = "final"]
      /\ UNCHANGED <<planner, planning, target, settle, place, plan, aim>>
  BY DEF TickCompletes, PlannerInv, PlannerTypeOK
<1>2. /\ tick' \in Ticks /\ tick'.copy = tick.copy /\ tick'.pc = "final"
      /\ trajectory' \in Trajectories /\ trajectory'.mode = "COMPLETED"
      /\ trajectory'.of = tick.copy.of
  BY <1>1 DEF Ticks, Trajectories
<1>3. Prepared' = Prepared
  BY <1>1 DEF Prepared
<1>4. /\ PlannerTypeOK' /\ PlanLeadsToEnd' /\ Numbered' /\ Exclusive' /\ Settling'
      /\ StartNear' /\ TargetNear'
  BY <1>1, <1>2, <1>3 DEF PlannerInv, PlannerTypeOK, PlanLeadsToEnd, Numbered, Exclusive,
                          Settling, StartNear, TargetNear
<1>5. OnCourse'
  BY <1>1, <1>2, <1>3 DEF PlannerInv, OnCourse
<1> QED BY <1>4, <1>5 DEF PlannerInv

LEMMA TickAsksTotalKeeps == PlannerInv /\ TickAsksTotal => PlannerInv'
<1> SUFFICES ASSUME PlannerInv, TickAsksTotal PROVE PlannerInv'
  OBVIOUS
<1>1. /\ tick.pc = "final" /\ tick \in Ticks /\ planner.total \in Nat
      /\ tick' = [tick EXCEPT !.pc = "finalSample", !.time = planner.total]
      /\ UNCHANGED <<planner, trajectory, planning, target, settle, place, plan, aim>>
  BY DEF TickAsksTotal, PlannerInv, PlannerTypeOK, Plan
<1>2. /\ tick' \in Ticks /\ tick'.copy = tick.copy /\ tick'.pc = "finalSample"
      /\ tick'.time = planner.total
  BY <1>1 DEF Ticks
<1>3. Prepared' = Prepared
  BY <1>1 DEF Prepared
<1>4. /\ PlannerTypeOK' /\ PlanLeadsToEnd' /\ Numbered' /\ Exclusive' /\ Settling'
      /\ StartNear' /\ TargetNear'
  BY <1>1, <1>2, <1>3 DEF PlannerInv, PlannerTypeOK, PlanLeadsToEnd, Numbered, Exclusive,
                          Settling, StartNear, TargetNear
<1>5. OnCourse'
  BY <1>1, <1>2, <1>3 DEF PlannerInv, OnCourse
<1> QED BY <1>4, <1>5 DEF PlannerInv

LEMMA TickSamplesKeeps == PlannerInv /\ TickSamples => PlannerInv'
<1> SUFFICES ASSUME PlannerInv, TickSamples PROVE PlannerInv'
  OBVIOUS
<1> DEFINE point == Point(planner, tick.time)
<1>1. /\ tick.time \in Nat /\ planner.total \in Nat /\ place \in Int
      /\ trajectory \in Trajectories
      /\ plan \in Plans
  BY DEF PlannerInv, PlannerTypeOK, Plan, Ticks
<1>2. GetTrajectoryPoint(tick.time) = point /\ point \in Int
  BY <1>1, PointType DEF PlannerInv
<1>3. ~plan.onPath => Point(planner, planner.total) = plan.end
  BY <1>1 DEF PlannerInv, PlanLeadsToEnd, Leads
<1>4. /\ tick.pc \in {"sample", "finalSample"} /\ tick' = Between
      /\ target' = point
      /\ settle' = IF tick.pc = "finalSample" THEN point ELSE settle
      /\ aim' = [late |-> plan.late, stray |-> tick.copy.of # plan.number \/ plan.onPath]
      /\ UNCHANGED <<planner, trajectory, planning, place, plan>>
  BY <1>2 DEF TickSamples
<1>5. tick' \in Ticks /\ tick'.pc = "between" /\ tick'.copy.of = 0
  BY <1>4 DEF Between, NoTrajectory, Ticks, Trajectories
<1>6. Prepared' = Prepared
  BY <1>4 DEF Prepared
<1>7. PlannerTypeOK' /\ PlanLeadsToEnd' /\ Numbered' /\ Exclusive' /\ StartNear'
  <2>1. (tick.copy.of # plan.number \/ plan.onPath) \in BOOLEAN
    OBVIOUS
  <2>2. settle' \in Int /\ aim' \in [late : Nat, stray : BOOLEAN]
    BY <1>1, <1>2, <1>4, <2>1 DEF PlannerInv, PlannerTypeOK, Plans
  <2>3. PlannerTypeOK' /\ PlanLeadsToEnd'
    BY <1>2, <1>4, <1>5, <2>2 DEF PlannerInv, PlannerTypeOK, PlanLeadsToEnd
  <2>4. Numbered' /\ Exclusive' /\ StartNear'
    BY <1>1, <1>4, <1>5 DEF PlannerInv, Numbered, Exclusive, StartNear, Plans
  <2> QED BY <2>3, <2>4
<1>8. Settling'
  BY <1>3, <1>4, <1>5, <1>6 DEF PlannerInv, Settling
<1>9. ~plan.onPath /\ tick.copy.of = plan.number => Distance(point, place) <= 2 + plan.late
  BY <1>3, <1>4 DEF PlannerInv, OnCourse
<1> HIDE DEF point
<1>10. TargetNear'
  BY <1>4, <1>9 DEF TargetNear
<1>11. OnCourse'
  <2> SUFFICES ASSUME ~plan.onPath PROVE OnCourse'
    BY <1>4 DEF OnCourse
  <2> DEFINE a == Point(planner, trajectory.elapsed)
  <2>1. ASSUME trajectory.mode = "ACTIVE", trajectory.of = plan.number
        PROVE  \/ Distance(a, place) <= plan.late
               \/ /\ Distance(a, place) <= 2 + plan.late
                  /\ Distance(a, Follow') <= 1 + plan.late
    <3>1. \/ Distance(a, place) <= plan.late
          \/ tick.copy.of = plan.number /\ a = point
      BY <1>4, <2>1 DEF PlannerInv, OnCourse, point
    <3>2. ASSUME tick.copy.of = plan.number
          PROVE  Distance(point, Follow') <= 1 + plan.late
      <4>1. Distance(point, place) <= 2 + plan.late
        BY <1>9, <3>2
      <4>2. Follow' = IF place < point THEN place + 1
                      ELSE IF place > point THEN place - 1 ELSE place
        BY <1>4 DEF Follow
      <4>3. plan.late \in Nat
        BY <1>1 DEF Plans
      <4> QED BY <1>1, <1>2, <4>1, <4>2, <4>3 DEF Distance
    <3> QED BY <1>9, <3>1, <3>2
  <2>2. Prepared => Distance(Point(planner, 0), place) <= plan.late
    BY DEF PlannerInv, OnCourse
  <2> QED BY <1>4, <1>5, <1>6, <2>1, <2>2 DEF OnCourse, Behind
<1> QED BY <1>7, <1>8, <1>10, <1>11 DEF PlannerInv

LEMMA TickSettlesKeeps == PlannerInv /\ TickSettles => PlannerInv'
<1> SUFFICES ASSUME PlannerInv, TickSettles PROVE PlannerInv'
  OBVIOUS
<1>1. /\ tick.pc = "settle" /\ tick \in Ticks /\ tick' = Between
      /\ UNCHANGED <<planner, planning, target, settle, place, plan, aim>>
  BY DEF TickSettles, PlannerInv, PlannerTypeOK
<1>2. /\ tick' \in Ticks /\ tick'.pc = "between" /\ tick'.copy.of = 0
  BY <1>1 DEF Between, NoTrajectory, Ticks, Trajectories
<1>3. Prepared' = Prepared
  BY <1>1 DEF Prepared
<1>4. PlanLeadsToEnd' /\ StartNear' /\ TargetNear' /\ plan.number \in Nat
  BY <1>1 DEF PlannerInv, PlannerTypeOK, PlanLeadsToEnd, StartNear, TargetNear, Plans
<1>5. CASE trajectory' = [tick.copy EXCEPT !.settled = TRUE]
  <2>1. /\ trajectory' \in Trajectories /\ trajectory'.mode = "COMPLETED"
        /\ trajectory'.settled /\ trajectory'.of = tick.copy.of
    BY <1>1, <1>5 DEF PlannerInv, Settling, Ticks, Trajectories
  <2>2. PlannerTypeOK' /\ Numbered' /\ Exclusive' /\ Settling'
    BY <1>1, <1>2, <1>4, <2>1 DEF PlannerInv, PlannerTypeOK, Numbered, Exclusive, Settling
  <2>3. OnCourse'
    BY <1>1, <1>2, <1>3, <2>1 DEF PlannerInv, OnCourse
  <2> QED BY <1>4, <2>2, <2>3 DEF PlannerInv
<1>6. CASE UNCHANGED trajectory
  <2>1. PlannerTypeOK' /\ Numbered' /\ Exclusive' /\ Settling'
    BY <1>1, <1>2, <1>3, <1>4, <1>6 DEF PlannerInv, PlannerTypeOK, Numbered, Exclusive, Settling
  <2>2. OnCourse'
    BY <1>1, <1>2, <1>3, <1>6 DEF PlannerInv, OnCourse
  <2> QED BY <1>4, <2>1, <2>2 DEF PlannerInv
<1> QED BY <1>5, <1>6 DEF TickSettles

LEMMA PlannerStep == PlannerInv /\ [PlannerNext]_plannerVars => PlannerInv'
<1> SUFFICES ASSUME PlannerInv, [PlannerNext]_plannerVars PROVE PlannerInv'
  OBVIOUS
<1>1. ASSUME NEW t \in Planners, NEW kind \in {"goto", "land", "spin", "path"},
             ReadStart(t, kind)
      PROVE  PlannerInv'
  BY <1>1, ReadStartKeeps DEF Kinds
<1>2. ASSUME NEW t \in Planners, NEW to \in Targets,
             PlanGoto(t, to) \/ PlanLandingDescentTo(t, to)
      PROVE  PlannerInv'
  <2>1. to \in Int /\ 0 \in Nat
    BY PlannerAssumption
  <2> QED BY <1>2, <2>1, PlansKeep
<1>3. ASSUME NEW t \in Planners, NEW d \in 0..MaxSpin, PlanSpin(t, d) PROVE PlannerInv'
  <2>1. d \in Nat /\ 0 \in Int
    BY PlannerAssumption
  <2> QED BY <1>3, <2>1, PlansKeep
<1>4. ASSUME NEW t \in Planners, PlanPath(t) \/ Activate(t) PROVE PlannerInv'
  <2>1. 0 \in Int /\ 0 \in Nat
    OBVIOUS
  <2> QED BY <1>4, <2>1, PlansKeep, ActivateKeeps
<1>5. CASE SettleEndsWait \/ HoldReads \/ HoldTarget \/ HoldState
  BY <1>5, SettleEndsWaitKeeps, HoldReadsKeeps, HoldTargetKeeps, HoldStateKeeps
<1>6. CASE \/ ControlLoopReads \/ ControlLoopStores \/ VehicleStatusStores
           \/ TickReads \/ TickDecides \/ TickCompletes \/ TickAsksTotal
           \/ TickSamples \/ TickSettles
  BY <1>6, ControlLoopReadsKeeps, StoreCopyKeeps, TickReadsKeeps,
     TickDecidesKeeps, TickCompletesKeeps, TickAsksTotalKeeps, TickSamplesKeeps, TickSettlesKeeps
<1>7. CASE UNCHANGED plannerVars
  <2>1. Prepared' = Prepared
    BY <1>7 DEF Prepared, plannerVars
  <2>2. /\ PlannerTypeOK' /\ PlanLeadsToEnd' /\ Numbered' /\ Exclusive' /\ Settling'
        /\ StartNear' /\ TargetNear'
    BY <1>7, <2>1 DEF plannerVars, PlannerInv, PlannerTypeOK, PlanLeadsToEnd, Numbered,
                      Exclusive, Settling, StartNear, TargetNear
  <2>3. OnCourse'
    BY <1>7, <2>1 DEF plannerVars, PlannerInv, OnCourse, Behind, Follow
  <2> QED BY <2>2, <2>3 DEF PlannerInv
<1> QED BY <1>1, <1>2, <1>3, <1>4, <1>5, <1>6, <1>7 DEF PlannerNext

\* path_planner.cpp and the control loop: the target is no further from the vehicle than the
\* ticks that fell into the preparation of its trajectory account for, for every length of
\* a leg and every place, and however the planning of both threads and the ticks interleave;
\* of a sample at another trajectory's elapsed time and of a spin on a path it says nothing.
THEOREM TargetStaysNear == PlannerSpec => []TargetNear
<1>1. PlannerInv => TargetNear
  BY DEF PlannerInv
<1> QED BY <1>1, PlannerInitially, PlannerStep, PTL DEF PlannerSpec

\* settle_target_position_: once the control loop has declared a trajectory over, it holds
\* the end of the latest plan, at whatever point of the tick that was made and activated.
THEOREM SettlesAtGoal == PlannerSpec => []SettleAtGoal
<1>1. PlannerInv => SettleAtGoal
  BY DEF PlannerInv, Settling, SettleAtGoal
<1> QED BY <1>1, PlannerInitially, PlannerStep, PTL DEF PlannerSpec

-----------------------------------------------------------------------------
(* The camera relay. What the step that publishes sees is newer than what  *)
(* was published.                                                          *)

(***************************************************************************)
(* Camera relay.                                                           *)
(***************************************************************************)
Stamps == [color : Nat, depth : Nat]

RelayTypeOK ==
    /\ publish_on_sync \in BOOLEAN
    /\ latest_color \in Nat /\ shown \in Nat
    /\ {latest_synced, last_stamp, arrived, synced} \subseteq Stamps

\* What is kept is newer than what was published, and the set no newer than the image.
KeptIsNewer ==
    /\ latest_color # None => latest_color > last_stamp.color
    /\ latest_synced.color # None => latest_synced.color > last_stamp.color
    /\ latest_synced # NoSet => latest_synced.depth > last_stamp.depth
    /\ latest_synced.color <= latest_color

NothingAhead ==
    /\ shown <= last_stamp.color
    /\ last_stamp.color <= arrived.color /\ latest_color <= arrived.color
    /\ last_stamp.depth <= arrived.depth /\ latest_synced.depth <= arrived.depth

RelayInv == RelayTypeOK /\ KeptIsNewer /\ NothingAhead

LEMMA RelayInitially == RelayInit => RelayInv
BY DEF RelayInit, RelayInv, RelayTypeOK, KeptIsNewer, NothingAhead, Stamps, NoSet, None

\* An image or a set that has come, or neither, is published: both are newer than what was
\* published before, or nothing.
LEMMA Publishing ==
    ASSUME RelayInv, NEW color \in Nat, NEW set \in Stamps, Publish(color, set),
           color # None => color > last_stamp.color,
           set.color # None => set.color > last_stamp.color,
           set # NoSet => set.depth > last_stamp.depth,
           set.color <= color, color <= arrived'.color, set.depth <= arrived'.depth,
           arrived' \in Stamps, arrived.color <= arrived'.color, arrived.depth <= arrived'.depth,
           UNCHANGED publish_on_sync
    PROVE  RelayInv' /\ (synced' # synced /\ synced'.color # None => synced'.color > shown)
BY DEF RelayInv, RelayTypeOK, KeptIsNewer, NothingAhead, Stamps, NoSet, None, Publish, ColorTaken

LEMMA RelayStep ==
    ASSUME RelayInv, [RelayNext]_relayVars
    PROVE  RelayInv' /\ (synced' # synced /\ synced'.color # None => synced'.color > shown)
<1> USE DEF RelayInv, RelayTypeOK, KeptIsNewer, NothingAhead, Stamps, NoSet, None
<1>1. ASSUME NEW s \in 1..MaxStamp, OnColor(s)
      PROVE  RelayInv' /\ (synced' # synced /\ synced'.color # None => synced'.color > shown)
  <2>1. s \in Nat /\ s > arrived.color /\ arrived' = [arrived EXCEPT !.color = s]
        /\ UNCHANGED publish_on_sync
    BY <1>1, StampsAssumption DEF OnColor
  <2>2. CASE publish_on_sync
    <3>1. Publish(s, latest_synced)
      BY <1>1, <2>2 DEF OnColor, Keep
    <3> QED BY <2>1, <3>1, Publishing
  <2>3. CASE ~publish_on_sync
    BY <1>1, <2>1, <2>3 DEF OnColor, Keep
  <2> QED BY <2>2, <2>3
<1>2. ASSUME NEW s \in 1..MaxStamp, OnSynced(s)
      PROVE  RelayInv' /\ (synced' # synced /\ synced'.color # None => synced'.color > shown)
  <2>1. s \in Nat /\ s > arrived.depth /\ arrived' = [arrived EXCEPT !.depth = s]
        /\ UNCHANGED publish_on_sync
    BY <1>2, StampsAssumption DEF OnSynced
  <2>2. CASE publish_on_sync
    <3>1. Publish(latest_color, SetOf(s))
      BY <1>2, <2>2 DEF OnSynced, Keep
    <3>2. SetOf(s) = [color |-> latest_color, depth |-> s]
      BY DEF SetOf
    <3> QED BY <2>1, <3>1, <3>2, Publishing
  <2>3. CASE ~publish_on_sync
    BY <1>2, <2>1, <2>3 DEF OnSynced, Keep, SetOf
  <2> QED BY <2>2, <2>3
<1>3. CASE PublishTimer
  BY <1>3, Publishing DEF PublishTimer
<1>4. CASE UNCHANGED relayVars
  BY <1>4 DEF relayVars
<1> QED BY <1>1, <1>2, <1>3, <1>4 DEF RelayNext

\* No color image reaches the detectors twice (camera_relay.py, _publish_color and
\* _publish_depth_pose): a set that is published has no image, or one that is newer than
\* any image published in a set before.
THEOREM ImagesShownOnce == RelaySpec => ImageShownOnce
<1>1. RelayInv /\ [RelayNext]_relayVars => RelayInv'
  BY RelayStep
<1>2. RelayInv /\ [RelayNext]_relayVars
        => [synced' # synced /\ synced'.color # None => synced'.color > shown]_relayVars
  BY RelayStep
<1> QED BY <1>1, <1>2, RelayInitially, PTL DEF RelaySpec, ImageShownOnce

-----------------------------------------------------------------------------
(* The detection filter. The pass over the pairs of tracks leaves behind   *)
(* it pairs that are apart or that a fusion has moved since; a fused track *)
(* keeps the place and the identity of the earlier one, so that no pair is *)
(* skipped when the later one is taken out.                                *)

Track == [id : Nat, place : Places, observations : Nat]

FilterTypeOK ==
    /\ probe_tracks \in Seq(Track)
    /\ next_probe_id \in Nat /\ todo_probes \in Nat
    /\ pass # NotMerging =>
         todo_probes = 0 /\ \E i, j \in Nat \ {0} : i < j /\ pass = <<i, j>>

\* Tracks lie in the order in which they were begun.
Ordered(tracks) == \A k, l \in DOMAIN tracks : k < l => tracks[k].id < tracks[l].id

IdsGrow ==
    /\ Ordered(probe_tracks)
    /\ \A k \in DOMAIN probe_tracks : probe_tracks[k].id < next_probe_id

\* The pass has had the pairs before the one it is at; when it is over, all.
Compared(k, l) == pass # NotMerging => k < pass[1] \/ (k = pass[1] /\ l < pass[2])

\* A pair the pass has had is apart, unless a fusion has moved one of the two since.
ComparedApart ==
    todo_probes = 0 =>
        \A k, l \in DOMAIN probe_tracks :
            k < l /\ Compared(k, l) /\ Near(probe_tracks[k], probe_tracks[l])
              => MovedAfter(k, l)

FilterInv == FilterTypeOK /\ IdsGrow /\ ComparedApart

LEMMA Removed ==
    ASSUME NEW S, NEW s \in Seq(S), NEW j \in 1..Len(s), NEW left, left = RemoveAt(s, j)
    PROVE  /\ left \in Seq(S) /\ Len(left) = Len(s) - 1
           /\ \A k \in 1..Len(left) : left[k] = s[IF k < j THEN k ELSE k + 1]
<1>1. Len(s) \in Nat /\ s \in [1..Len(s) -> S]
  BY LenProperties
<1>2. PICK a : a = SubSeq(s, 1, j - 1)
  OBVIOUS
<1>3. PICK b : b = SubSeq(s, j + 1, Len(s))
  OBVIOUS
<1>4. a \in Seq(S) /\ Len(a) = j - 1 /\ \A k \in 1..j - 1 : a[k] = s[k]
  <2>1. \A k \in 1..j - 1 : s[k] \in S
    BY <1>1
  <2>2. /\ a \in Seq(S) /\ Len(a) = IF 1 <= j - 1 THEN (j - 1) - 1 + 1 ELSE 0
        /\ \A k \in 1..(j - 1) - 1 + 1 : a[k] = s[1 + k - 1]
    BY <1>1, <1>2, <2>1, SubSeqProperties
  <2> QED BY <1>1, <2>2
<1>5. /\ b \in Seq(S) /\ Len(b) = Len(s) - j
      /\ \A k \in 1..Len(s) - j : b[k] = s[j + k]
  <2>1. \A k \in j + 1..Len(s) : s[k] \in S
    BY <1>1
  <2>2. /\ b \in Seq(S) /\ Len(b) = IF j + 1 <= Len(s) THEN Len(s) - (j + 1) + 1 ELSE 0
        /\ \A k \in 1..Len(s) - (j + 1) + 1 : b[k] = s[(j + 1) + k - 1]
    BY <1>1, <1>3, <2>1, SubSeqProperties
  <2>3. ASSUME NEW k \in 1..Len(s) - j PROVE b[k] = s[j + k]
    <3>1. k \in 1..Len(s) - (j + 1) + 1 /\ (j + 1) + k - 1 = j + k
      BY <1>1
    <3> QED BY <2>2, <3>1
  <2>4. Len(b) = Len(s) - j
    <3>1. CASE j + 1 <= Len(s)
      BY <1>1, <2>2, <3>1
    <3>2. CASE ~(j + 1 <= Len(s))
      <4>1. j = Len(s) /\ Len(s) - j = 0
        <5>1. PICK n \in Nat : n = Len(s)
          BY <1>1
        <5>2. j \in 1..n /\ ~(j + 1 <= n)
          BY <3>2, <5>1
        <5>3. j = n /\ n - j = 0
          BY ONLY <5>2, n \in Nat
        <5> QED BY <5>1, <5>3
      <4> QED BY <2>2, <3>2, <4>1
    <3> QED BY <3>1, <3>2
  <2> QED BY <2>2, <2>3, <2>4
<1>6. left = a \o b
  BY <1>2, <1>3 DEF RemoveAt
<1>7. /\ left \in Seq(S) /\ Len(left) = Len(a) + Len(b)
      /\ \A k \in 1..Len(a) + Len(b) : left[k] = IF k <= Len(a) THEN a[k] ELSE b[k - Len(a)]
  <2>1. a \in Seq(S) /\ b \in Seq(S)
    BY <1>4, <1>5
  <2>2. /\ a \o b \in Seq(S) /\ Len(a \o b) = Len(a) + Len(b)
        /\ \A k \in 1..Len(a) + Len(b) :
              (a \o b)[k] = IF k <= Len(a) THEN a[k] ELSE b[k - Len(a)]
    BY ONLY <2>1, ConcatProperties
  <2> QED BY <1>6, <2>2
<1>8. ASSUME NEW k \in 1..Len(left) PROVE left[k] = s[IF k < j THEN k ELSE k + 1]
  <2>1. CASE k < j
    BY <1>1, <1>4, <1>5, <1>7, <2>1
  <2>2. CASE k >= j
    <3>1. k - Len(a) = k - j + 1 /\ k - j + 1 \in 1..Len(s) - j /\ j + (k - j + 1) = k + 1
      BY <1>1, <1>4, <1>5, <1>7, <2>2
    <3>2. left[k] = b[k - j + 1] /\ b[k - j + 1] = s[k + 1]
      BY <1>1, <1>4, <1>5, <1>7, <2>2, <3>1
    <3> QED BY <2>2, <3>2
  <2> QED BY <1>1, <2>1, <2>2
<1>9. Len(left) = Len(s) - 1
  <2>1. PICK n \in Nat : n = Len(s)
    BY <1>1
  <2>2. j \in 1..n /\ Len(a) = j - 1 /\ Len(b) = n - j /\ Len(left) = Len(a) + Len(b)
    BY <1>4, <1>5, <1>7, <2>1
  <2>3. (j - 1) + (n - j) = n - 1
    BY ONLY <2>2, n \in Nat
  <2> QED BY <2>1, <2>2, <2>3
<1> QED BY <1>7, <1>8, <1>9

LEMMA ObservedTrack ==
    ASSUME NEW t \in Track, NEW there \in Places
    PROVE  /\ Observed(t, there) \in Track /\ Observed(t, there).id = t.id
           /\ Observed(t, there).observations = t.observations + 1
<1>1. PICK n \in Nat, o \in Nat, p \in Places :
        t = [id |-> n, place |-> p, observations |-> o]
  BY DEF Track
<1>2. Observed(t, there) = [id |-> n, place |-> there, observations |-> o + 1]
  <2>1. t.observations = o /\ DOMAIN t = {"id", "place", "observations"} /\ t.id = n
    BY <1>1
  <2>2. PICK u : u = [t EXCEPT !.place = there]
    OBVIOUS
  <2>3. u = [id |-> n, place |-> there, observations |-> o]
    BY <1>1, <2>2
  <2>4. Observed(t, there) = [u EXCEPT !.observations = t.observations + 1]
    BY <2>2 DEF Observed
  <2> QED BY <2>1, <2>3, <2>4
<1> QED BY <1>1, <1>2 DEF Track

\* Of two tracks in order the earlier keeps its identity.
LEMMA FusedTrack ==
    ASSUME NEW a \in Track, NEW b \in Track, a.id < b.id, NEW there \in Places
    PROVE  /\ FuseProbeTracks(a, b, there) \in Track
           /\ FuseProbeTracks(a, b, there).id = a.id
           /\ FuseProbeTracks(a, b, there).observations = a.observations + b.observations
<1>1. /\ a.id \in Nat /\ a.observations \in Nat /\ b.observations \in Nat
      /\ FuseProbeTracks(a, b, there)
           = [id |-> a.id, place |-> there, observations |-> a.observations + b.observations]
  BY DEF Track, FuseProbeTracks
<1> QED BY <1>1 DEF Track

LEMMA FilterInitially == FilterInit => FilterInv
BY DEF FilterInit, FilterInv, FilterTypeOK, IdsGrow, Ordered, ComparedApart

\* A pass that begins has compared nothing yet, and none begins within a message.
LEMMA PassBegins ==
    ASSUME FilterInv, Handled
    PROVE  /\ todo_probes' \in Nat /\ todo_probes > 0
           /\ pass' # NotMerging =>
                todo_probes' = 0 /\ \E i, j \in Nat \ {0} : i < j /\ pass' = <<i, j>>
           /\ todo_probes' = 0 => pass' = <<1, 2>>
           /\ probe_tracks' \in Seq(Track) => ComparedApart'
<1>1. /\ todo_probes \in Nat /\ todo_probes > 0 /\ todo_probes' = todo_probes - 1
      /\ pass' = IF todo_probes = 1 THEN <<1, 2>> ELSE NotMerging
  BY DEF Handled, FilterInv, FilterTypeOK
<1>2. /\ todo_probes' \in Nat /\ (todo_probes' = 0 <=> todo_probes = 1)
  BY <1>1
<1>3. <<1, 2>> # NotMerging /\ <<1, 2>>[1] = 1 /\ <<1, 2>>[2] = 2
  BY DEF NotMerging
<1>4. ASSUME probe_tracks' \in Seq(Track) PROVE ComparedApart'
  <2> SUFFICES ASSUME todo_probes' = 0, NEW k \in DOMAIN probe_tracks',
                      NEW l \in DOMAIN probe_tracks', k < l, Compared(k, l)'
               PROVE  FALSE
    BY DEF ComparedApart
  <2>1. pass' = <<1, 2>>
    BY <1>1, <1>2
  <2>2. k < 1 \/ (k = 1 /\ l < 2)
    BY <1>3, <2>1 DEF Compared
  <2>3. k \in Nat \ {0} /\ l \in Nat
    BY <1>4, LenProperties
  <2> QED BY <2>2, <2>3
<1> QED BY <1>1, <1>2, <1>4


\* The pass goes on past a pair that is apart or a track that is compared with all.
LEMMA PassGoesOn ==
    ASSUME FilterInv, pass # NotMerging,
           UNCHANGED <<probe_tracks, next_probe_id, todo_probes, fused>>,
           pass' # NotMerging => \E i, j \in Nat \ {0} : i < j /\ pass' = <<i, j>>,
           \A k, l \in DOMAIN probe_tracks :
              k < l /\ Compared(k, l)'
                => Compared(k, l) \/ ~Near(probe_tracks[k], probe_tracks[l])
    PROVE  FilterInv'
<1>1. FilterTypeOK'
  BY DEF FilterInv, FilterTypeOK
<1>2. IdsGrow'
  BY DEF FilterInv, IdsGrow
<1>3. ComparedApart'
  BY DEF FilterInv, FilterTypeOK, ComparedApart, MovedAfter
<1> QED BY <1>1, <1>2, <1>3 DEF FilterInv

\* A fusion moves the earlier track, which excuses its pairs, and takes out the later.
LEMMA PassFuses ==
    ASSUME FilterInv, NEW i \in Nat \ {0}, NEW j \in Nat \ {0}, i < j, pass = <<i, j>>,
           NEW there \in Places, j <= Len(probe_tracks),
           NEW f, f = FuseProbeTracks(probe_tracks[i], probe_tracks[j], there),
           probe_tracks' = RemoveAt([probe_tracks EXCEPT ![i] = f], j),
           pass' = <<i, j>>,
           fused' = fused \cup {<<f.id, IF f.id = probe_tracks[i].id THEN probe_tracks[j].id
                                        ELSE probe_tracks[i].id>>},
           UNCHANGED <<next_probe_id, todo_probes>>
    PROVE  FilterInv'
<1>0. /\ IdsGrow /\ ComparedApart /\ todo_probes = 0 /\ next_probe_id \in Nat
      /\ probe_tracks \in Seq(Track) /\ Len(probe_tracks) \in Nat
      /\ probe_tracks \in [1..Len(probe_tracks) -> Track]
      /\ pass # NotMerging /\ pass[1] = i /\ pass[2] = j
  <2>1. <<i, j>> # NotMerging /\ <<i, j>>[1] = i /\ <<i, j>>[2] = j
    BY DEF NotMerging
  <2> QED BY <2>1, LenProperties DEF FilterInv, FilterTypeOK
<1>1. /\ i \in 1..Len(probe_tracks) /\ j \in 1..Len(probe_tracks)
      /\ probe_tracks[i] \in Track /\ probe_tracks[j] \in Track
      /\ probe_tracks[i].id < probe_tracks[j].id
  <2>1. i \in 1..Len(probe_tracks) /\ j \in 1..Len(probe_tracks)
    BY <1>0
  <2> QED BY <1>0, <2>1 DEF IdsGrow, Ordered
<1>2. f \in Track /\ f.id = probe_tracks[i].id
  BY <1>1, FusedTrack
<1>3. <<f.id, probe_tracks[j].id>> \in fused' /\ fused \subseteq fused'
  BY <1>2
<1>4. PICK tracks : tracks = [probe_tracks EXCEPT ![i] = f]
  OBVIOUS
<1>5. /\ tracks \in Seq(Track) /\ Len(tracks) = Len(probe_tracks)
      /\ tracks \in [1..Len(probe_tracks) -> Track]
      /\ \A k \in 1..Len(probe_tracks) : /\ tracks[k].id = probe_tracks[k].id
                                         /\ k # i => tracks[k] = probe_tracks[k]
  <2>1. tracks \in Seq(Track) /\ Len(tracks) = Len(probe_tracks)
    BY <1>0, <1>1, <1>2, <1>4, ExceptSeq
  <2> QED BY <1>0, <1>1, <1>2, <1>4, <2>1
<1>6. /\ probe_tracks' \in Seq(Track) /\ Len(probe_tracks') = Len(probe_tracks) - 1
      /\ DOMAIN probe_tracks' = 1..Len(probe_tracks) - 1
      /\ \A k \in 1..Len(probe_tracks) - 1 :
           probe_tracks'[k] = tracks[IF k < j THEN k ELSE k + 1]
  <2>1. /\ probe_tracks' \in Seq(Track) /\ Len(probe_tracks') = Len(tracks) - 1
        /\ \A k \in 1..Len(probe_tracks') :
             probe_tracks'[k] = tracks[IF k < j THEN k ELSE k + 1]
    <3>1. PICK left : left = RemoveAt(tracks, j)
      OBVIOUS
    <3>2. tracks \in Seq(Track) /\ j \in 1..Len(tracks) /\ probe_tracks' = left
      BY <1>1, <1>4, <1>5, <3>1
    <3>3. /\ left \in Seq(Track) /\ Len(left) = Len(tracks) - 1
          /\ \A k \in 1..Len(left) : left[k] = tracks[IF k < j THEN k ELSE k + 1]
      BY ONLY <3>1, <3>2, Removed
    <3> QED BY <3>2, <3>3
  <2> QED BY <1>5, <2>1, LenProperties
<1> DEFINE Was(k) == IF k < j THEN k ELSE k + 1
<1>7. ASSUME NEW k \in 1..Len(probe_tracks) - 1
      PROVE  /\ Was(k) \in 1..Len(probe_tracks) /\ Was(k) # j
             /\ probe_tracks'[k] \in Track
             /\ probe_tracks'[k].id = probe_tracks[Was(k)].id
             /\ Was(k) # i => probe_tracks'[k] = probe_tracks[Was(k)]
             /\ (Was(k) = i <=> k = i)
  <2>1. Was(k) \in 1..Len(probe_tracks) /\ Was(k) # j /\ (Was(k) = i <=> k = i)
    BY <1>0, <1>1
  <2>2. probe_tracks'[k] = tracks[Was(k)]
    BY <1>6
  <2> HIDE DEF Was
  <2> QED BY <1>5, <2>1, <2>2
<1>8. ASSUME NEW k \in 1..Len(probe_tracks) - 1, NEW l \in 1..Len(probe_tracks) - 1, k < l
      PROVE  Was(k) < Was(l)
  BY <1>0, <1>1, <1>8
<1> HIDE DEF Was
<1>9. FilterTypeOK'
  BY <1>0, <1>6 DEF FilterTypeOK
<1>10. IdsGrow'
  <2>1. Ordered(probe_tracks')
    <3>1. ASSUME NEW k \in 1..Len(probe_tracks) - 1, NEW l \in 1..Len(probe_tracks) - 1, k < l
          PROVE  probe_tracks'[k].id < probe_tracks'[l].id
      <4>1. probe_tracks[Was(k)].id < probe_tracks[Was(l)].id
        BY <1>0, <1>7, <1>8, <3>1 DEF IdsGrow, Ordered
      <4> QED BY <1>7, <4>1
    <3> QED BY <1>6, <3>1 DEF Ordered
  <2>2. ASSUME NEW k \in 1..Len(probe_tracks) - 1 PROVE probe_tracks'[k].id < next_probe_id'
    <3>1. probe_tracks[Was(k)].id < next_probe_id
      BY <1>0, <1>7 DEF IdsGrow
    <3> QED BY <1>7, <3>1
  <2> QED BY <1>6, <2>1, <2>2 DEF IdsGrow
<1>11. ComparedApart'
  <2> SUFFICES ASSUME NEW k \in 1..Len(probe_tracks) - 1, NEW l \in 1..Len(probe_tracks) - 1,
                      k < l, Compared(k, l)', Near(probe_tracks'[k], probe_tracks'[l])
               PROVE  MovedAfter(k, l)'
    BY <1>6 DEF ComparedApart
  <2>1. k \in Nat /\ l \in Nat /\ (k < i \/ (k = i /\ l < j))
    <3>1. pass' # NotMerging /\ pass'[1] = i /\ pass'[2] = j
      BY <1>0
    <3> QED BY <1>0, <3>1 DEF Compared
  <2>2. CASE k = i
    <3>1. Was(l) \in 1..Len(probe_tracks) /\ Was(l) < j
      BY <1>7, <2>1, <2>2 DEF Was
    <3>2. probe_tracks[Was(l)].id < probe_tracks[j].id
      BY <1>0, <1>1, <3>1 DEF IdsGrow, Ordered
    <3>3. probe_tracks'[k].id = f.id /\ probe_tracks'[l].id < probe_tracks[j].id
      BY <1>2, <1>7, <2>2, <3>2
    <3>4. PICK e : e = <<f.id, probe_tracks[j].id>>
      OBVIOUS
    <3>5. e \in fused' /\ e[1] = f.id /\ e[2] = probe_tracks[j].id
      BY <1>3, <3>4
    <3> QED BY <1>1, <1>7, <3>3, <3>5 DEF MovedAfter, Track
  <2>3. CASE l = i
    <3>1. PICK e : e = <<f.id, probe_tracks[j].id>>
      OBVIOUS
    <3>2. e \in fused' /\ e[1] = f.id
      BY <1>3, <3>1
    <3>3. probe_tracks'[l].id = f.id
      BY <1>2, <1>7, <2>3
    <3> QED BY <3>2, <3>3 DEF MovedAfter
  <2>4. CASE k # i /\ l # i
    <3>1. /\ Was(k) \in 1..Len(probe_tracks) /\ Was(l) \in 1..Len(probe_tracks)
          /\ Was(k) < Was(l) /\ Was(k) = k /\ k < i
          /\ probe_tracks'[k] = probe_tracks[Was(k)] /\ probe_tracks'[l] = probe_tracks[Was(l)]
      <4>1. k < i /\ Was(k) = k
        BY <2>1, <2>4 DEF Was
      <4> QED BY <1>7, <1>8, <2>4, <4>1
    <3>2. Compared(Was(k), Was(l))
      BY <1>0, <3>1 DEF Compared
    <3>3. MovedAfter(Was(k), Was(l))
      <4>1. Was(k) \in DOMAIN probe_tracks /\ Was(l) \in DOMAIN probe_tracks
        BY <1>0, <3>1
      <4> QED BY <1>0, <3>1, <3>2, <4>1 DEF ComparedApart
    <3> QED BY <1>3, <3>1, <3>3 DEF MovedAfter
  <2> QED BY <2>2, <2>3, <2>4
<1> QED BY <1>9, <1>10, <1>11 DEF FilterInv

LEMMA PassStep == ASSUME FilterInv, MergeProbeTracks PROVE FilterInv'
<1>1. /\ pass # NotMerging /\ UNCHANGED <<next_probe_id, todo_probes>>
      /\ DOMAIN probe_tracks = 1..Len(probe_tracks) /\ Len(probe_tracks) \in Nat
  BY LenProperties DEF MergeProbeTracks, FilterInv, FilterTypeOK
<1>2. PICK i \in Nat \ {0}, j \in Nat \ {0} : i < j /\ pass = <<i, j>>
  BY <1>1 DEF FilterInv, FilterTypeOK
<1>3. pass[1] = i /\ pass[2] = j
  BY <1>2
<1>4. ASSUME NEW there \in Places, MergePair(i, j, there) PROVE FilterInv'
  <2>1. CASE Near(probe_tracks[i], probe_tracks[j])
    <3>1. PICK f : f = FuseProbeTracks(probe_tracks[i], probe_tracks[j], there)
      OBVIOUS
    <3>2. /\ j <= Len(probe_tracks)
          /\ probe_tracks' = RemoveAt([probe_tracks EXCEPT ![i] = f], j)
          /\ pass' = <<i, j>>
          /\ fused' = fused \cup {<<f.id, IF f.id = probe_tracks[i].id
                                          THEN probe_tracks[j].id ELSE probe_tracks[i].id>>}
      BY <1>4, <2>1, <3>1 DEF MergePair, AfterErasure
    <3> QED BY <1>1, <1>2, <3>1, <3>2, PassFuses
  <2>2. CASE ~Near(probe_tracks[i], probe_tracks[j])
    <3>1. pass' = <<i, j + 1>> /\ UNCHANGED <<probe_tracks, fused>>
      BY <1>4, <2>2 DEF MergePair
    <3>2. pass' # NotMerging /\ pass'[1] = i /\ pass'[2] = j + 1
      BY <3>1 DEF NotMerging
    <3>3. \A k, l \in DOMAIN probe_tracks :
             k < l /\ Compared(k, l)' => Compared(k, l) \/ (k = i /\ l = j)
      BY <1>1, <1>3, <3>2 DEF Compared
    <3>4. i < j + 1 /\ j + 1 \in Nat \ {0}
      BY <1>2
    <3> QED BY <1>1, <2>2, <3>1, <3>3, <3>4, PassGoesOn
  <2> QED BY <2>1, <2>2
<1>5. CASE NextTrack(i, j)
  <2>1. /\ j > Len(probe_tracks) /\ UNCHANGED <<probe_tracks, fused>>
        /\ pass' = IF i < Len(probe_tracks) THEN <<i + 1, i + 2>> ELSE NotMerging
    BY <1>5 DEF NextTrack
  <2>2. pass' # NotMerging => \E a, b \in Nat \ {0} : a < b /\ pass' = <<a, b>>
    <3>1. i + 1 \in Nat \ {0} /\ i + 2 \in Nat \ {0} /\ i + 1 < i + 2
      BY <1>2
    <3> QED BY <2>1, <3>1
  <2>3. ASSUME NEW k \in DOMAIN probe_tracks, NEW l \in DOMAIN probe_tracks, k < l,
               Compared(k, l)'
        PROVE  Compared(k, l)
    <3>1. k \in 1..Len(probe_tracks) /\ l \in 1..Len(probe_tracks)
      BY <1>1
    <3>2. CASE i < Len(probe_tracks)
      <4>1. pass' # NotMerging /\ pass'[1] = i + 1 /\ pass'[2] = i + 2
        BY <2>1, <3>2 DEF NotMerging
      <4>2. k < i + 1
        BY <1>1, <1>2, <2>3, <3>1, <4>1 DEF Compared
      <4> QED BY <1>1, <1>2, <1>3, <2>1, <3>1, <4>2 DEF Compared
    <3>3. CASE i >= Len(probe_tracks)
      BY <1>1, <1>2, <1>3, <2>3, <3>1, <3>3 DEF Compared
    <3> QED BY <1>1, <1>2, <3>2, <3>3
  <2> QED BY <1>1, <2>1, <2>2, <2>3, PassGoesOn
<1> QED BY <1>3, <1>4, <1>5 DEF MergeProbeTracks

LEMMA FilterInductive == ASSUME FilterInv, [FilterNext]_filterVars PROVE FilterInv'
<1> USE DEF FilterInv
<1>0. /\ FilterTypeOK /\ IdsGrow /\ ComparedApart
      /\ probe_tracks \in Seq(Track) /\ DOMAIN probe_tracks = 1..Len(probe_tracks)
      /\ Len(probe_tracks) \in Nat /\ probe_tracks \in [1..Len(probe_tracks) -> Track]
  BY LenProperties DEF FilterTypeOK
<1>1. ASSUME NEW n \in 1..MaxDetections, OnProbeData(n) PROVE FilterInv'
  <2>1. /\ todo_probes' = n /\ n \in Nat \ {0} /\ pass = NotMerging
        /\ UNCHANGED <<probe_tracks, next_probe_id, pass>>
    BY <1>1, FilterAssumption DEF OnProbeData, Spinning
  <2> QED BY <2>1 DEF FilterTypeOK, IdsGrow, ComparedApart
<1>2. CASE Skip
  <2>1. Handled /\ probe_tracks' = probe_tracks /\ next_probe_id' = next_probe_id
    BY <1>2 DEF Skip
  <2>2. FilterTypeOK'
    BY <1>0, <2>1, PassBegins DEF FilterTypeOK
  <2>3. IdsGrow'
    BY <1>0, <2>1 DEF IdsGrow
  <2>4. ComparedApart'
    BY <1>0, <2>1, PassBegins
  <2> QED BY <2>2, <2>3, <2>4
<1>3. ASSUME NEW there \in Places, InitProbeTrack(there) PROVE FilterInv'
  <2>1. PICK t : t = [id |-> next_probe_id, place |-> there, observations |-> 1]
    OBVIOUS
  <2>2. t \in Track /\ t.id = next_probe_id /\ next_probe_id \in Nat
    BY <1>0, <1>3, <2>1 DEF Track, FilterTypeOK
  <2>3. /\ Handled /\ probe_tracks' = Append(probe_tracks, t)
        /\ next_probe_id' = next_probe_id + 1
    BY <1>3, <2>1 DEF InitProbeTrack
  <2>4. /\ probe_tracks' \in Seq(Track) /\ Len(probe_tracks') = Len(probe_tracks) + 1
        /\ DOMAIN probe_tracks' = 1..Len(probe_tracks) + 1
        /\ \A k \in 1..Len(probe_tracks) : probe_tracks'[k] = probe_tracks[k]
        /\ probe_tracks'[Len(probe_tracks) + 1] = t
    BY <1>0, <2>2, <2>3, AppendProperties, LenProperties
  <2>5. FilterTypeOK'
    BY <2>2, <2>3, <2>4, PassBegins DEF FilterTypeOK
  <2>6. \A k \in DOMAIN probe_tracks' :
          probe_tracks'[k].id \in Nat /\ probe_tracks'[k].id < next_probe_id'
    <3>1. ASSUME NEW k \in 1..Len(probe_tracks)
          PROVE  probe_tracks'[k].id \in Nat /\ probe_tracks'[k].id < next_probe_id
      <4>1. probe_tracks[k] \in Track
        BY <1>0
      <4> QED BY <1>0, <2>4, <4>1 DEF IdsGrow, Track
    <3>2. ASSUME NEW k \in 1..Len(probe_tracks) + 1
          PROVE  k \in 1..Len(probe_tracks) \/ k = Len(probe_tracks) + 1
      BY <1>0
    <3> QED BY <2>2, <2>3, <2>4, <3>1, <3>2
  <2>7. Ordered(probe_tracks')
    <3> SUFFICES ASSUME NEW k \in 1..Len(probe_tracks) + 1,
                        NEW l \in 1..Len(probe_tracks) + 1, k < l
                 PROVE  probe_tracks'[k].id < probe_tracks'[l].id
      BY <2>4 DEF Ordered
    <3>1. k \in 1..Len(probe_tracks)
      BY <1>0
    <3>2. CASE l \in 1..Len(probe_tracks)
      BY <1>0, <2>4, <3>1, <3>2 DEF IdsGrow, Ordered
    <3>3. CASE l = Len(probe_tracks) + 1
      BY <1>0, <2>2, <2>4, <3>1, <3>3 DEF IdsGrow
    <3> QED BY <1>0, <3>2, <3>3
  <2>8. IdsGrow'
    BY <2>6, <2>7 DEF IdsGrow
  <2> QED BY <2>3, <2>4, <2>5, <2>8, PassBegins
<1>4. ASSUME NEW there \in Places, NEW n \in DOMAIN probe_tracks, Update(n, there)
      PROVE  FilterInv'
  <2>1. PICK t : t = Observed(probe_tracks[n], there)
    OBVIOUS
  <2>2. t \in Track /\ t.id = probe_tracks[n].id
    <3>1. probe_tracks[n] \in Track
      BY <1>0
    <3> QED BY <2>1, <3>1, ObservedTrack
  <2>3. /\ Handled /\ probe_tracks' = [probe_tracks EXCEPT ![n] = t]
        /\ next_probe_id' = next_probe_id
    BY <1>4, <2>1 DEF Update
  <2>4. probe_tracks' \in Seq(Track) /\ DOMAIN probe_tracks' = DOMAIN probe_tracks
    BY <1>0, <1>4, <2>2, <2>3, ExceptSeq
  <2>5. \A k \in DOMAIN probe_tracks : probe_tracks'[k].id = probe_tracks[k].id
    BY <1>0, <2>2, <2>3
  <2>6. FilterTypeOK'
    BY <1>0, <2>3, <2>4, PassBegins DEF FilterTypeOK
  <2>7. IdsGrow'
    BY <1>0, <2>3, <2>4, <2>5 DEF IdsGrow, Ordered
  <2> QED BY <2>3, <2>4, <2>6, <2>7, PassBegins
<1>5. CASE MergeProbeTracks
  BY <1>5, PassStep
<1>6. ASSUME NEW m \in Markers, OnArucoData(m) PROVE FilterInv'
  <2>1. UNCHANGED <<probe_tracks, next_probe_id, todo_probes, pass, fused>>
    BY <1>6 DEF OnArucoData
  <2> QED BY <2>1 DEF FilterTypeOK, IdsGrow, ComparedApart, Compared, MovedAfter
<1>7. CASE UNCHANGED filterVars
  BY <1>7 DEF filterVars, FilterTypeOK, IdsGrow, ComparedApart, Compared, MovedAfter
<1> QED BY <1>1, <1>2, <1>3, <1>4, <1>5, <1>6, <1>7 DEF FilterNext

LEMMA FilterInvariant == FilterSpec => []FilterInv
BY FilterInitially, FilterInductive, PTL DEF FilterSpec

\* When a message of detections has been handled, no two tracks are within the merge
\* distance of each other unless a later fusion of the pass has moved one of them
\* (DetectionFilter::merge_probe_tracks).
THEOREM TracksAreApart == FilterSpec => []MergedApart
<1>1. FilterInv => MergedApart
  BY DEF FilterInv, ComparedApart, Compared, MergedApart, Spinning
<1> QED BY <1>1, FilterInvariant, PTL

-----------------------------------------------------------------------------
(* The detection filter, what it counts. Each observation of a track is a  *)
(* pair of its identity and a number; a fusion renumbers those of the      *)
(* later track behind those of the earlier one.                            *)

CountInv ==
    /\ accepted \in Nat
    /\ aruco_tracks \in [DOMAIN aruco_tracks -> Nat]
    /\ IsFiniteSet(ProbeObservations(probe_tracks))
    /\ IsFiniteSet(MarkerObservations(aruco_tracks))
    /\ ObservationsConserved

LEMMA ProbeObservation ==
    ASSUME NEW tracks \in Seq(Track), NEW x
    PROVE  x \in ProbeObservations(tracks)
             <=> \E k \in DOMAIN tracks : \E n \in 1..tracks[k].observations :
                    x = <<tracks[k].id, n>>
BY DEF ProbeObservations, Range

LEMMA MarkerObservation ==
    ASSUME NEW tracks, NEW x
    PROVE  x \in MarkerObservations(tracks)
             <=> \E m \in DOMAIN tracks : \E n \in 1..tracks[m] : x = <<m, n>>
BY DEF MarkerObservations

LEMMA CountInitially == FilterInit => CountInv
<1> SUFFICES ASSUME FilterInit PROVE CountInv
  OBVIOUS
<1>1. /\ probe_tracks = <<>> /\ aruco_tracks = [m \in {} |-> 0] /\ accepted = 0
      /\ DOMAIN aruco_tracks = {} /\ probe_tracks \in Seq(Track) /\ DOMAIN probe_tracks = {}
  BY DEF FilterInit
<1>2. ProbeObservations(probe_tracks) = {}
  BY <1>1, ProbeObservation
<1>3. MarkerObservations(aruco_tracks) = {}
  BY <1>1, MarkerObservation
<1>4. accepted \in Nat /\ aruco_tracks \in [DOMAIN aruco_tracks -> Nat]
  BY <1>1
<1>5. accepted = 0 + 0
  BY <1>1
<1> QED BY <1>2, <1>3, <1>4, <1>5, FS_EmptySet DEF CountInv, ObservationsConserved

\* One more observation of a track, or the first one of a new one.
LEMMA OneMoreCounts ==
    ASSUME CountInv, NEW x, accepted' = accepted + 1,
           \/ /\ x \notin ProbeObservations(probe_tracks)
              /\ ProbeObservations(probe_tracks') = ProbeObservations(probe_tracks) \cup {x}
              /\ UNCHANGED aruco_tracks
           \/ /\ x \notin MarkerObservations(aruco_tracks)
              /\ MarkerObservations(aruco_tracks') = MarkerObservations(aruco_tracks) \cup {x}
              /\ aruco_tracks' \in [DOMAIN aruco_tracks' -> Nat]
              /\ UNCHANGED probe_tracks
    PROVE  CountInv'
<1> DEFINE p == ProbeObservations(probe_tracks)
           q == MarkerObservations(aruco_tracks)
           p1 == ProbeObservations(probe_tracks')
           q1 == MarkerObservations(aruco_tracks')
<1>1. /\ IsFiniteSet(p) /\ IsFiniteSet(q) /\ accepted = Cardinality(p) + Cardinality(q)
      /\ Cardinality(p) \in Nat /\ Cardinality(q) \in Nat
  BY FS_CardinalityType DEF CountInv, ObservationsConserved
<1>2. \/ x \notin p /\ p1 = p \cup {x} /\ q1 = q
      \/ x \notin q /\ q1 = q \cup {x} /\ p1 = p
  OBVIOUS
<1>3. /\ aruco_tracks' \in [DOMAIN aruco_tracks' -> Nat] /\ accepted' \in Nat
      /\ p1 = ProbeObservations(probe_tracks') /\ q1 = MarkerObservations(aruco_tracks')
  BY DEF CountInv
<1> HIDE DEF p, q, p1, q1
<1>4. /\ IsFiniteSet(p1) /\ IsFiniteSet(q1)
      /\ Cardinality(p1) + Cardinality(q1) = Cardinality(p) + Cardinality(q) + 1
  <2>1. CASE x \notin p /\ p1 = p \cup {x} /\ q1 = q
    <3>1. IsFiniteSet(p1) /\ Cardinality(p1) = Cardinality(p) + 1
      BY <1>1, <2>1, FS_AddElement
    <3> QED BY <1>1, <2>1, <3>1
  <2>2. CASE x \notin q /\ q1 = q \cup {x} /\ p1 = p
    <3>1. IsFiniteSet(q1) /\ Cardinality(q1) = Cardinality(q) + 1
      BY <1>1, <2>2, FS_AddElement
    <3> QED BY <1>1, <2>2, <3>1
  <2> QED BY <1>2, <2>1, <2>2
<1> QED BY <1>1, <1>4, <1>3 DEF CountInv, ObservationsConserved

\* A fusion renumbers: what was counted for the later track is counted behind what was
\* counted for the earlier one.
LEMMA FusionCounts ==
    ASSUME CountInv, NEW a \in Track, NEW b \in Track, a.id # b.id, NEW new \in Track,
           new.id = a.id, new.observations = a.observations + b.observations,
           probe_tracks \in Seq(Track), probe_tracks' \in Seq(Track),
           a \in Range(probe_tracks), b \in Range(probe_tracks),
           \A t \in Range(probe_tracks) : t \in {a, b} \/ t.id \notin {a.id, b.id},
           Range(probe_tracks') = (Range(probe_tracks) \ {a, b}) \cup {new},
           UNCHANGED <<aruco_tracks, accepted>>
    PROVE  CountInv'
<1>1. PICK p : p = ProbeObservations(probe_tracks)
  OBVIOUS
<1>2. PICK p1 : p1 = ProbeObservations(probe_tracks')
  OBVIOUS
<1>3. PICK na \in Nat, nb \in Nat, ia \in Nat, ib \in Nat :
        /\ na = a.observations /\ nb = b.observations /\ ia = a.id /\ ib = b.id
        /\ ia # ib
  BY DEF Track
<1> DEFINE Rest == UNION {{t.id} \X (1..t.observations) : t \in Range(probe_tracks) \ {a, b}}
<1> DEFINE Of(t) == {t.id} \X (1..t.observations)
<1>4. p = Rest \cup ({ia} \X (1..na)) \cup ({ib} \X (1..nb))
  <2>1. Of(a) = {ia} \X (1..na) /\ Of(b) = {ib} \X (1..nb)
    BY <1>3
  <2>2. p = Rest \cup Of(a) \cup Of(b)
    BY <1>1 DEF ProbeObservations
  <2> QED BY <2>1, <2>2
<1>5. p1 = Rest \cup ({ia} \X (1..na + nb))
  <2>1. Of(new) = {ia} \X (1..na + nb)
    BY <1>3
  <2>2. p1 = Rest \cup Of(new)
    BY <1>2 DEF ProbeObservations
  <2> QED BY <2>1, <2>2
<1>6. \A x \in Rest : \E i, n : x = <<i, n>> /\ i # ia /\ i # ib
  BY <1>3
<1> HIDE DEF Rest
<1> DEFINE Renumber(x) == IF x[1] = ib THEN <<ia, na + x[2]>> ELSE x
           g == [x \in p |-> Renumber(x)]
<1>7. ASSUME NEW x \in p
      PROVE  \/ x \in Rest /\ g[x] = x /\ x[1] # ia /\ x[1] # ib
             \/ \E n \in 1..na : x = <<ia, n>> /\ g[x] = x
             \/ \E n \in 1..nb : x = <<ib, n>> /\ g[x] = <<ia, na + n>>
  <2>1. CASE x \in Rest
    BY <1>6, <2>1
  <2>2. CASE x \in {ia} \X (1..na)
    BY <1>3, <2>2
  <2>3. CASE x \in {ib} \X (1..nb)
    BY <1>3, <2>3
  <2> QED BY <1>4, <2>1, <2>2, <2>3
<1>8. ASSUME NEW x \in p PROVE g[x] \in p1
  <2>1. \A n \in 1..na : n \in 1..na + nb
    BY <1>3
  <2>2. \A n \in 1..nb : na + n \in 1..na + nb
    BY <1>3
  <2> HIDE DEF g
  <2> QED BY <1>5, <1>7, <2>1, <2>2
<1>9. ASSUME NEW x \in p, NEW y \in p, g[x] = g[y] PROVE x = y
  <2>1. \A n \in 1..na, k \in 1..nb : n # na + k
    BY <1>3
  <2>2. \A n, k \in 1..nb : na + n = na + k => n = k
    BY <1>3
  <2>3. \A n, k : <<ia, n>>[1] = ia /\ (<<ia, n>> = <<ia, k>> => n = k)
    OBVIOUS
  <2> HIDE DEF g
  <2>4. CASE x \in Rest /\ g[x] = x /\ x[1] # ia /\ x[1] # ib
    <3>1. g[y] = x
      BY <1>9, <2>4
    <3>2. ASSUME NEW n \in 1..nb, g[y] = <<ia, na + n>> PROVE FALSE
      <4>1. x = <<ia, na + n>> /\ x[1] = ia
        BY <3>1, <3>2
      <4> QED BY <2>4, <4>1
    <3>3. g[y] = y
      BY <1>7, <3>2
    <3> QED BY <3>1, <3>3
  <2>5. CASE \E n \in 1..na : x = <<ia, n>> /\ g[x] = x
    BY <1>7, <1>9, <2>1, <2>3, <2>5
  <2>6. CASE \E n \in 1..nb : x = <<ib, n>> /\ g[x] = <<ia, na + n>>
    BY <1>7, <1>9, <2>1, <2>2, <2>3, <2>6
  <2> QED BY <1>7, <2>4, <2>5, <2>6
<1>10. ASSUME NEW y \in p1 PROVE \E x \in p : g[x] = y
  <2>1. CASE y \in Rest
    <3>1. y \in p
      BY <1>4, <2>1
    <3>2. y[1] # ib
      BY <1>6, <2>1
    <3> QED BY <3>1, <3>2
  <2>2. CASE y \in {ia} \X (1..na + nb)
    <3>1. PICK n \in 1..na + nb : y = <<ia, n>>
      BY <2>2
    <3>2. CASE n \in 1..na
      <4>1. y \in p /\ y[1] # ib
        BY <1>3, <1>4, <3>1, <3>2
      <4> QED BY <4>1
    <3>3. CASE n - na \in 1..nb
      <4>1. PICK k \in 1..nb : k = n - na
        BY <3>3
      <4>2. PICK x : x = <<ib, k>>
        OBVIOUS
      <4>3. x \in p /\ x[1] = ib /\ x[2] = k /\ na + k = n
        BY <1>3, <1>4, <4>1, <4>2
      <4>4. g[x] = <<ia, na + x[2]>>
        BY <4>3
      <4> HIDE DEF g
      <4>5. na + x[2] = n
        BY <4>3
      <4>6. g[x] = y
        BY ONLY <3>1, <4>4, <4>5
      <4> QED BY <4>3, <4>6
    <3>4. n \in 1..na \/ n - na \in 1..nb
      BY <3>1
    <3> HIDE DEF g
    <3> QED BY <3>2, <3>3, <3>4
  <2> QED BY <1>5, <2>1, <2>2
<1>11. ExistsBijection(p, p1)
  <2>1. g \in [p -> p1]
    BY <1>8
  <2> HIDE DEF g
  <2> QED BY <1>9, <1>10, <2>1 DEF ExistsBijection, Bijection, Injection, Surjection, IsInjective
<1>12. IsFiniteSet(p1) /\ Cardinality(p1) = Cardinality(p)
  <2>1. IsFiniteSet(p)
    BY <1>1 DEF CountInv
  <2> QED BY ONLY <1>11, <2>1, FS_Bijection
<1> QED BY <1>1, <1>2, <1>12 DEF CountInv, ObservationsConserved

\* Two places hold two identities, and a track is what is counted under its own.
LEMMA TracksByIdentity ==
    ASSUME FilterInv
    PROVE  /\ probe_tracks \in Seq(Track) /\ probe_tracks \in [1..Len(probe_tracks) -> Track]
           /\ Len(probe_tracks) \in Nat /\ DOMAIN probe_tracks = 1..Len(probe_tracks)
           /\ \A k, l \in DOMAIN probe_tracks :
                probe_tracks[k].id = probe_tracks[l].id => k = l
<1>1. /\ probe_tracks \in Seq(Track) /\ probe_tracks \in [1..Len(probe_tracks) -> Track]
      /\ Len(probe_tracks) \in Nat /\ DOMAIN probe_tracks = 1..Len(probe_tracks)
  BY LenProperties DEF FilterInv, FilterTypeOK
<1>2. ASSUME NEW k \in 1..Len(probe_tracks), NEW l \in 1..Len(probe_tracks),
             probe_tracks[k].id = probe_tracks[l].id
      PROVE  k = l
  <2>1. /\ k < l => probe_tracks[k].id < probe_tracks[l].id
        /\ l < k => probe_tracks[l].id < probe_tracks[k].id
    BY <1>1 DEF FilterInv, IdsGrow, Ordered
  <2>2. probe_tracks[k].id \in Nat /\ probe_tracks[l].id \in Nat
    BY <1>1 DEF Track
  <2>3. ~(k < l) /\ ~(l < k)
    BY <1>2, <2>1, <2>2
  <2> QED BY <1>1, <2>3
<1> QED BY <1>1, <1>2

LEMMA UpdateCounts ==
    ASSUME FilterInv, CountInv, NEW there \in Places, NEW k \in DOMAIN probe_tracks,
           Update(k, there)
    PROVE  CountInv'
<1>1. PICK t : t = Observed(probe_tracks[k], there)
  OBVIOUS
<1>2. /\ probe_tracks \in Seq(Track) /\ probe_tracks \in [1..Len(probe_tracks) -> Track]
      /\ DOMAIN probe_tracks = 1..Len(probe_tracks) /\ probe_tracks[k] \in Track
  BY TracksByIdentity
<1>3. /\ t \in Track /\ t.id = probe_tracks[k].id
      /\ t.observations = probe_tracks[k].observations + 1
  BY <1>1, <1>2, ObservedTrack
<1>4. /\ probe_tracks' = [probe_tracks EXCEPT ![k] = t] /\ accepted' = accepted + 1
      /\ UNCHANGED aruco_tracks
  BY <1>1 DEF Update, Handled
<1>5. probe_tracks' \in Seq(Track) /\ DOMAIN probe_tracks' = DOMAIN probe_tracks
  BY <1>2, <1>3, <1>4, ExceptSeq
<1>6. PICK i \in Nat, n \in Nat :
        i = probe_tracks[k].id /\ n = probe_tracks[k].observations
  BY <1>2 DEF Track
<1>7. probe_tracks'[k] = t /\ \A l \in DOMAIN probe_tracks : l # k => probe_tracks'[l] = probe_tracks[l]
  BY <1>2, <1>4
<1>8. \A m : m \in 1..n + 1 <=> m \in 1..n \/ m = n + 1
  BY <1>6
<1>9. <<i, n + 1>> \notin ProbeObservations(probe_tracks)
  <2> SUFFICES ASSUME NEW l \in DOMAIN probe_tracks, NEW m \in 1..probe_tracks[l].observations,
                      <<i, n + 1>> = <<probe_tracks[l].id, m>>
               PROVE  FALSE
    BY <1>2, ProbeObservation
  <2>1. probe_tracks[l].id = i /\ m = n + 1
    OBVIOUS
  <2>2. l = k
    BY <1>6, <2>1, TracksByIdentity
  <2>3. n + 1 \in 1..n
    BY <1>6, <2>1, <2>2
  <2> QED BY <1>6, <2>3
<1>10. ProbeObservations(probe_tracks') = ProbeObservations(probe_tracks) \cup {<<i, n + 1>>}
  <2>1. ASSUME NEW x
        PROVE  x \in ProbeObservations(probe_tracks')
                 <=> x \in ProbeObservations(probe_tracks) \/ x = <<i, n + 1>>
    <3>1. x \in ProbeObservations(probe_tracks')
            <=> \/ \E l \in DOMAIN probe_tracks \ {k} :
                      \E m \in 1..probe_tracks[l].observations : x = <<probe_tracks[l].id, m>>
                \/ \E m \in 1..n + 1 : x = <<i, m>>
      <4>1. x \in ProbeObservations(probe_tracks')
              <=> \E l \in DOMAIN probe_tracks : \E m \in 1..probe_tracks'[l].observations :
                     x = <<probe_tracks'[l].id, m>>
        BY <1>5, ProbeObservation
      <4> QED BY <1>3, <1>6, <1>7, <4>1
    <3>2. x \in ProbeObservations(probe_tracks)
            <=> \/ \E l \in DOMAIN probe_tracks \ {k} :
                      \E m \in 1..probe_tracks[l].observations : x = <<probe_tracks[l].id, m>>
                \/ \E m \in 1..n : x = <<i, m>>
      <4>1. x \in ProbeObservations(probe_tracks)
              <=> \E l \in DOMAIN probe_tracks : \E m \in 1..probe_tracks[l].observations :
                     x = <<probe_tracks[l].id, m>>
        BY <1>2, ProbeObservation
      <4> QED BY <1>6, <4>1
    <3> QED BY ONLY <1>8, <3>1, <3>2
  <2> QED BY <2>1
<1> QED BY <1>4, <1>9, <1>10, OneMoreCounts

LEMMA BeginCounts ==
    ASSUME FilterInv, CountInv, NEW there \in Places, InitProbeTrack(there)
    PROVE  CountInv'
<1>1. PICK t : t = [id |-> next_probe_id, place |-> there, observations |-> 1]
  OBVIOUS
<1>2. t \in Track /\ t.id = next_probe_id /\ t.observations = 1 /\ next_probe_id \in Nat
  BY <1>1 DEF Track, FilterInv, FilterTypeOK
<1>3. /\ probe_tracks' = Append(probe_tracks, t) /\ accepted' = accepted + 1
      /\ UNCHANGED aruco_tracks
  BY <1>1 DEF InitProbeTrack, Handled
<1>4. /\ probe_tracks \in Seq(Track) /\ probe_tracks \in [1..Len(probe_tracks) -> Track]
      /\ Len(probe_tracks) \in Nat /\ DOMAIN probe_tracks = 1..Len(probe_tracks)
  BY TracksByIdentity
<1>5. /\ probe_tracks' \in Seq(Track) /\ DOMAIN probe_tracks' = 1..Len(probe_tracks) + 1
      /\ \A k \in DOMAIN probe_tracks : probe_tracks'[k] = probe_tracks[k]
      /\ probe_tracks'[Len(probe_tracks) + 1] = t
  BY <1>2, <1>3, <1>4, AppendProperties, LenProperties
<1>6. \A k : k \in DOMAIN probe_tracks' <=> k \in DOMAIN probe_tracks \/ k = Len(probe_tracks) + 1
  BY <1>4, <1>5
<1>7. <<next_probe_id, 1>> \notin ProbeObservations(probe_tracks)
  <2> SUFFICES ASSUME NEW l \in DOMAIN probe_tracks, NEW m \in 1..probe_tracks[l].observations,
                      <<next_probe_id, 1>> = <<probe_tracks[l].id, m>>
               PROVE  FALSE
    BY <1>4, ProbeObservation
  <2>1. probe_tracks[l].id = next_probe_id
    OBVIOUS
  <2>2. probe_tracks[l].id < next_probe_id
    BY DEF FilterInv, IdsGrow
  <2> QED BY <1>2, <2>1, <2>2
<1>8. ProbeObservations(probe_tracks') = ProbeObservations(probe_tracks) \cup {<<next_probe_id, 1>>}
  <2>1. ASSUME NEW x
        PROVE  x \in ProbeObservations(probe_tracks')
                 <=> x \in ProbeObservations(probe_tracks) \/ x = <<next_probe_id, 1>>
    <3>1. x \in ProbeObservations(probe_tracks')
            <=> \E l \in DOMAIN probe_tracks' : \E m \in 1..probe_tracks'[l].observations :
                   x = <<probe_tracks'[l].id, m>>
      BY <1>5, ProbeObservation
    <3>2. x \in ProbeObservations(probe_tracks)
            <=> \E l \in DOMAIN probe_tracks : \E m \in 1..probe_tracks[l].observations :
                   x = <<probe_tracks[l].id, m>>
      BY <1>4, ProbeObservation
    <3>3. \A m : m \in 1..t.observations <=> m = 1
      BY <1>2
    <3> QED BY <1>2, <1>5, <1>6, <3>1, <3>2, <3>3
  <2> QED BY <2>1
<1> QED BY <1>3, <1>7, <1>8, OneMoreCounts

LEMMA MarkerCounts == ASSUME CountInv, NEW m \in Markers, OnArucoData(m) PROVE CountInv'
<1> DEFINE n == IF m \in DOMAIN aruco_tracks THEN aruco_tracks[m] ELSE 0
<1>1. n \in Nat /\ aruco_tracks \in [DOMAIN aruco_tracks -> Nat]
  BY DEF CountInv
<1>2. /\ aruco_tracks' = [k \in DOMAIN aruco_tracks \cup {m} |->
                            IF k # m THEN aruco_tracks[k]
                            ELSE IF m \in DOMAIN aruco_tracks THEN aruco_tracks[m] + 1 ELSE 1]
      /\ accepted' = accepted + 1 /\ UNCHANGED probe_tracks
  BY DEF OnArucoData
<1>3. /\ DOMAIN aruco_tracks' = DOMAIN aruco_tracks \cup {m}
      /\ \A k \in DOMAIN aruco_tracks : k # m => aruco_tracks'[k] = aruco_tracks[k]
      /\ aruco_tracks'[m] = n + 1
  BY <1>2
<1>4. aruco_tracks' \in [DOMAIN aruco_tracks' -> Nat]
  <2>1. \A k \in DOMAIN aruco_tracks' : aruco_tracks'[k] \in Nat
    BY <1>1, <1>3
  <2>2. aruco_tracks' = [k \in DOMAIN aruco_tracks' |-> aruco_tracks'[k]]
    BY <1>2
  <2> QED BY <2>1, <2>2
<1>5. m \in DOMAIN aruco_tracks => aruco_tracks[m] = n
  OBVIOUS
<1>6. m \notin DOMAIN aruco_tracks => n = 0
  OBVIOUS
<1> HIDE DEF n
<1>7. \A k : k \in 1..n + 1 <=> k \in 1..n \/ k = n + 1
  BY <1>1
<1>8. n + 1 \notin 1..n /\ (n = 0 => 1..n = {})
  BY <1>1
<1>9. <<m, n + 1>> \notin MarkerObservations(aruco_tracks)
  BY <1>5, <1>8, MarkerObservation
<1>10. MarkerObservations(aruco_tracks') = MarkerObservations(aruco_tracks) \cup {<<m, n + 1>>}
  <2>1. ASSUME NEW x
        PROVE  x \in MarkerObservations(aruco_tracks')
                 <=> x \in MarkerObservations(aruco_tracks) \/ x = <<m, n + 1>>
    <3>1. x \in MarkerObservations(aruco_tracks')
            <=> \/ \E k \in DOMAIN aruco_tracks \ {m} : \E j \in 1..aruco_tracks[k] : x = <<k, j>>
                \/ \E j \in 1..n + 1 : x = <<m, j>>
      BY <1>3, MarkerObservation
    <3>2. x \in MarkerObservations(aruco_tracks)
            <=> \/ \E k \in DOMAIN aruco_tracks \ {m} : \E j \in 1..aruco_tracks[k] : x = <<k, j>>
                \/ \E j \in 1..n : x = <<m, j>>
      <4>1. x \in MarkerObservations(aruco_tracks)
              <=> \E k \in DOMAIN aruco_tracks : \E j \in 1..aruco_tracks[k] : x = <<k, j>>
        BY MarkerObservation
      <4>2. CASE m \in DOMAIN aruco_tracks
        BY <1>5, <4>1, <4>2
      <4>3. CASE m \notin DOMAIN aruco_tracks
        <5>1. 1..n = {}
          BY <1>6, <1>8, <4>3
        <5> QED BY <4>1, <4>3, <5>1
      <4> QED BY <4>2, <4>3
    <3> QED BY ONLY <1>7, <3>1, <3>2
  <2> QED BY <2>1
<1> QED BY <1>2, <1>4, <1>9, <1>10, OneMoreCounts

\* The tracks after a fusion: the later one is gone, the earlier one is the fused one.
LEMMA FusionLeaves ==
    ASSUME FilterInv, NEW i \in Nat \ {0}, NEW j \in Nat, i < j, j <= Len(probe_tracks),
           NEW f \in Track, probe_tracks' = RemoveAt([probe_tracks EXCEPT ![i] = f], j)
    PROVE  /\ probe_tracks' \in Seq(Track)
           /\ Range(probe_tracks') = (Range(probe_tracks) \ {probe_tracks[i], probe_tracks[j]}) \cup {f}
<1>1. /\ probe_tracks \in Seq(Track) /\ probe_tracks \in [1..Len(probe_tracks) -> Track]
      /\ Len(probe_tracks) \in Nat /\ DOMAIN probe_tracks = 1..Len(probe_tracks)
      /\ \A k, l \in DOMAIN probe_tracks :
           probe_tracks[k].id = probe_tracks[l].id => k = l
  BY TracksByIdentity
<1>2. PICK n \in Nat : n = Len(probe_tracks)
  BY <1>1
<1>3. i \in 1..n /\ j \in 1..n
  BY <1>2
<1> DEFINE tracks == [probe_tracks EXCEPT ![i] = f]
<1>0. PICK left : left = RemoveAt(tracks, j)
  OBVIOUS
<1>4. /\ tracks \in Seq(Track) /\ Len(tracks) = n
      /\ tracks[i] = f /\ \A k \in 1..n : k # i => tracks[k] = probe_tracks[k]
  BY <1>1, <1>2, <1>3, ExceptSeq
<1> HIDE DEF tracks
<1>5. /\ left \in Seq(Track) /\ Len(left) = n - 1
      /\ \A k \in 1..n - 1 : left[k] = tracks[IF k < j THEN k ELSE k + 1]
  <2>1. j \in 1..Len(tracks) /\ left = RemoveAt(tracks, j)
    BY <1>0, <1>3, <1>4
  <2>2. /\ left \in Seq(Track) /\ Len(left) = Len(tracks) - 1
        /\ \A k \in 1..Len(left) : left[k] = tracks[IF k < j THEN k ELSE k + 1]
    BY ONLY <1>4, <2>1, Removed
  <2>3. Len(tracks) = n
    BY <1>4
  <2> QED BY ONLY <2>2, <2>3
<1>6. DOMAIN left = 1..n - 1
  BY <1>5, LenProperties
<1>7. ASSUME NEW t
      PROVE  t \in Range(left) <=> \E k \in 1..n : k # j /\ t = tracks[k]
  <2>1. t \in Range(left) <=> \E k \in 1..n - 1 : t = left[k]
    BY <1>6 DEF Range
  <2>2. ASSUME NEW k \in 1..n - 1 PROVE \E l \in 1..n : l # j /\ left[k] = tracks[l]
    <3>1. PICK l : l = IF k < j THEN k ELSE k + 1
      OBVIOUS
    <3>2. l \in 1..n /\ l # j
      BY <1>2, <3>1
    <3> QED BY <1>5, <3>1, <3>2
  <2>3. ASSUME NEW l \in 1..n, l # j PROVE \E k \in 1..n - 1 : left[k] = tracks[l]
    <3>1. PICK k : k = IF l < j THEN l ELSE l - 1
      OBVIOUS
    <3>2. k \in 1..n - 1 /\ l = IF k < j THEN k ELSE k + 1
      BY <1>2, <1>3, <2>3, <3>1
    <3> QED BY <1>5, <3>2
  <2> QED BY <2>1, <2>2, <2>3
<1>8. ASSUME NEW t
      PROVE  t \in Range(left)
               <=> t = f \/ \E k \in 1..n : k # i /\ k # j /\ t = probe_tracks[k]
  <2>1. i # j
    BY <1>2
  <2>2. ASSUME NEW k \in 1..n, k # j
        PROVE  t = tracks[k] <=> (k = i /\ t = f) \/ (k # i /\ t = probe_tracks[k])
    BY <1>4
  <2> QED BY <1>3, <1>7, <2>1, <2>2
<1>9. ASSUME NEW t
       PROVE  t \in Range(probe_tracks) \ {probe_tracks[i], probe_tracks[j]}
                <=> \E k \in 1..n : k # i /\ k # j /\ t = probe_tracks[k]
  <2>1. t \in Range(probe_tracks) <=> \E k \in 1..n : t = probe_tracks[k]
    BY <1>1, <1>2 DEF Range
  <2>2. \A k \in 1..n : /\ probe_tracks[k] = probe_tracks[i] => k = i
                        /\ probe_tracks[k] = probe_tracks[j] => k = j
    BY <1>1, <1>2, <1>3
  <2> QED BY <2>1, <2>2
<1>10. probe_tracks' = left
  BY <1>0 DEF tracks
<1> QED BY <1>5, <1>8, <1>9, <1>10

LEMMA FuseCounts ==
    ASSUME FilterInv, CountInv, NEW i \in Nat \ {0}, NEW j \in Nat, i < j,
           j <= Len(probe_tracks), NEW there \in Places, NEW f,
           f = FuseProbeTracks(probe_tracks[i], probe_tracks[j], there),
           probe_tracks' = RemoveAt([probe_tracks EXCEPT ![i] = f], j),
           UNCHANGED <<aruco_tracks, accepted>>
    PROVE  CountInv'
<1> DEFINE a == probe_tracks[i]
           b == probe_tracks[j]
<1>1. /\ probe_tracks \in Seq(Track) /\ probe_tracks \in [1..Len(probe_tracks) -> Track]
      /\ Len(probe_tracks) \in Nat /\ DOMAIN probe_tracks = 1..Len(probe_tracks)
      /\ \A k, l \in DOMAIN probe_tracks :
           probe_tracks[k].id = probe_tracks[l].id => k = l
  BY TracksByIdentity
<1>2. i \in DOMAIN probe_tracks /\ j \in DOMAIN probe_tracks
  BY <1>1
<1>3. a \in Track /\ b \in Track /\ a.id < b.id /\ a.id # b.id
  <2>1. a \in Track /\ b \in Track /\ a.id < b.id
    BY <1>1, <1>2 DEF FilterInv, IdsGrow, Ordered
  <2> QED BY <2>1 DEF Track
<1>4. a \in Range(probe_tracks) /\ b \in Range(probe_tracks)
  BY <1>2 DEF Range
<1>5. \A t \in Range(probe_tracks) : t \in {a, b} \/ t.id \notin {a.id, b.id}
  BY <1>1, <1>2 DEF Range
<1> HIDE DEF a, b
<1>6. f = FuseProbeTracks(a, b, there)
  BY DEF a, b
<1>7. f \in Track /\ f.id = a.id /\ f.observations = a.observations + b.observations
  BY <1>3, <1>6, FusedTrack
<1>8. /\ probe_tracks' \in Seq(Track)
      /\ Range(probe_tracks') = (Range(probe_tracks) \ {a, b}) \cup {f}
  <2>1. /\ probe_tracks' \in Seq(Track)
        /\ Range(probe_tracks') = (Range(probe_tracks) \ {probe_tracks[i], probe_tracks[j]}) \cup {f}
    BY <1>7, FusionLeaves
  <2> QED BY <2>1 DEF a, b
<1> QED BY <1>1, <1>3, <1>4, <1>5, <1>7, <1>8, FusionCounts

LEMMA CountInductive ==
    ASSUME FilterInv, CountInv, [FilterNext]_filterVars
    PROVE  CountInv'
<1>1. ASSUME UNCHANGED <<probe_tracks, aruco_tracks, accepted>> PROVE CountInv'
  BY <1>1 DEF CountInv, ObservationsConserved
<1>2. ASSUME NEW n \in 1..MaxDetections, OnProbeData(n) PROVE CountInv'
  BY <1>1, <1>2 DEF OnProbeData
<1>3. CASE Skip
  BY <1>1, <1>3 DEF Skip, Handled
<1>4. ASSUME NEW there \in Places, InitProbeTrack(there) PROVE CountInv'
  BY <1>4, BeginCounts
<1>5. ASSUME NEW there \in Places, NEW k \in DOMAIN probe_tracks, Update(k, there)
      PROVE  CountInv'
  BY <1>5, UpdateCounts
<1>6. CASE MergeProbeTracks
  <2>1. pass # NotMerging /\ UNCHANGED <<aruco_tracks, accepted>>
    BY <1>6 DEF MergeProbeTracks
  <2>2. PICK i \in Nat \ {0}, j \in Nat \ {0} : i < j /\ pass = <<i, j>>
    BY <2>1 DEF FilterInv, FilterTypeOK
  <2>3. ASSUME NEW there \in Places, MergePair(i, j, there) PROVE CountInv'
    <3>1. CASE ~Near(probe_tracks[i], probe_tracks[j])
      BY <1>1, <2>1, <2>3, <3>1 DEF MergePair
    <3>2. CASE Near(probe_tracks[i], probe_tracks[j])
      <4>1. PICK f : f = FuseProbeTracks(probe_tracks[i], probe_tracks[j], there)
        OBVIOUS
      <4>2. /\ j <= Len(probe_tracks)
            /\ probe_tracks' = RemoveAt([probe_tracks EXCEPT ![i] = f], j)
        BY <2>3, <3>2, <4>1 DEF MergePair
      <4> QED BY <2>1, <2>2, <4>1, <4>2, FuseCounts
    <3> QED BY <3>1, <3>2
  <2>4. CASE NextTrack(i, j)
    BY <1>1, <2>1, <2>4 DEF NextTrack
  <2>5. pass[1] = i /\ pass[2] = j
    BY <2>2
  <2> QED BY <1>6, <2>3, <2>4, <2>5 DEF MergeProbeTracks
<1>7. ASSUME NEW m \in Markers, OnArucoData(m) PROVE CountInv'
  BY <1>7, MarkerCounts
<1>8. CASE UNCHANGED filterVars
  BY <1>1, <1>8 DEF filterVars
<1> QED BY <1>2, <1>3, <1>4, <1>5, <1>6, <1>7, <1>8 DEF FilterNext

\* Every detection that the filter took is counted by one track, whichever it updated and
\* whatever was fused since (DetectionFilter::fuse_probe_tracks).
THEOREM ObservationsAreConserved == FilterSpec => []ObservationsConserved
<1>1. FilterInit => CountInv
  BY CountInitially
<1>2. FilterInv /\ CountInv /\ [FilterNext]_filterVars => CountInv'
  BY CountInductive
<1>3. CountInv => ObservationsConserved
  BY DEF CountInv
<1> QED BY <1>1, <1>2, <1>3, FilterInvariant, PTL DEF FilterSpec

-----------------------------------------------------------------------------
(* The flight logger. The open log holds the flight so far; when it is     *)
(* closed, all of it is on disk.                                           *)

Status == {"active", "disarmed"}

LogTypeOK ==
    /\ log_trigger \in {"armed", "always"}
    /\ second \in Names /\ writer \in Names \cup {NoLog}
    /\ logs \in [Names -> Seq(Status)] /\ safe \in [Names -> Nat]
    /\ airborne \in Seq(Status)
    /\ landed \in [log : Names \cup {NoLog}, statuses : Seq(Status)]

\* What is on disk for certain has been written.
SafeIsWritten == \A n \in Names : safe[n] <= Len(logs[n])

\* The open log holds the flight so far.
OpenLogHoldsFlight ==
    airborne = IF writer = NoLog THEN <<>> ELSE logs[writer]

\* The log of the last flight is closed, whole and on disk, unless its name was given
\* twice.
LandedIsSafe ==
    landed.log # NoLog /\ landed.log \notin taken
      => /\ writer # landed.log
         /\ landed.statuses # <<>>
         /\ logs[landed.log] = landed.statuses
         /\ safe[landed.log] = Len(landed.statuses)

LogInv == LogTypeOK /\ SafeIsWritten /\ (Armed => OpenLogHoldsFlight /\ LandedIsSafe)

LEMMA LogInitially == LogInit => LogInv
<1> SUFFICES ASSUME LogInit PROVE LogInv
  OBVIOUS
<1> USE DEF LogInit
<1>1. 1 \in Names /\ NoLog \notin Names
  BY LogBoundsAssumption DEF Names, NoLog
<1>2. LogTypeOK
  <2>1. logs \in [Names -> Seq(Status)] /\ safe \in [Names -> Nat] /\ airborne \in Seq(Status)
    OBVIOUS
  <2>2. writer \in Names \cup {NoLog}
    BY <1>1
  <2>3. landed \in [log : Names \cup {NoLog}, statuses : Seq(Status)]
    <3>1. <<>> \in Seq(Status)
      OBVIOUS
    <3> QED BY <3>1
  <2> QED BY <1>1, <2>1, <2>2, <2>3 DEF LogTypeOK
<1>3. SafeIsWritten
  BY DEF SafeIsWritten
<1>4. Armed => OpenLogHoldsFlight /\ LandedIsSafe
  BY DEF OpenLogHoldsFlight, LandedIsSafe
<1> QED BY <1>2, <1>3, <1>4 DEF LogInv

LEMMA LoggerWrites ==
    ASSUME LogInv, NEW s \in Status, OnStatus(s)
    PROVE  LogInv'
<1> USE DEF LogInv
<1>1. /\ LogTypeOK /\ SafeIsWritten /\ NoLog \notin Names /\ second \in Names
      /\ logs \in [Names -> Seq(Status)] /\ safe \in [Names -> Nat] /\ airborne \in Seq(Status)
      /\ writer \in Names \cup {NoLog}
  BY DEF LogTypeOK, Names, NoLog
<1>2. /\ log_trigger' = log_trigger /\ second' = second /\ Write(s)
      /\ s = "active" => airborne' = Append(airborne, s) /\ landed' = landed
      /\ s # "active" => /\ airborne' = <<>>
                         /\ landed' = IF airborne = <<>> THEN landed
                                      ELSE [log |-> writer, statuses |-> Append(airborne, s)]
  BY DEF OnStatus
<1>3. PICK log : log = IF Opens(s) THEN second ELSE writer
  OBVIOUS
<1>4. log \in Names \cup {NoLog}
  BY <1>1, <1>3
<1>5. airborne' \in Seq(Status) /\ landed' \in [log : Names \cup {NoLog}, statuses : Seq(Status)]
  <2>1. Append(airborne, s) \in Seq(Status) /\ <<>> \in Seq(Status)
    BY <1>1
  <2>2. landed \in [log : Names \cup {NoLog}, statuses : Seq(Status)]
    BY <1>1 DEF LogTypeOK
  <2>3. [log |-> writer, statuses |-> Append(airborne, s)]
          \in [log : Names \cup {NoLog}, statuses : Seq(Status)]
    BY <1>1, <2>1
  <2> QED BY <1>2, <2>1, <2>2, <2>3
<1>6. CASE log = NoLog
  <2>1. UNCHANGED <<writer, logs, safe, taken>>
    BY <1>2, <1>3, <1>6 DEF Write
  <2>2. LogTypeOK' /\ SafeIsWritten'
    BY <1>1, <1>2, <1>5, <2>1 DEF LogTypeOK, SafeIsWritten
  <2>3. ASSUME Armed PROVE OpenLogHoldsFlight' /\ LandedIsSafe'
    <3>1. writer = NoLog /\ s = "disarmed" /\ airborne = <<>>
      <4>1. ~Opens(s) /\ writer = NoLog
        BY <1>1, <1>3, <1>6
      <4> QED BY <2>3, <4>1 DEF Opens, Status, OpenLogHoldsFlight
    <3>2. airborne' = <<>> /\ landed' = landed
      BY <1>2, <3>1
    <3> QED BY <2>1, <2>3, <3>1, <3>2 DEF OpenLogHoldsFlight, LandedIsSafe
  <2> QED BY <1>2, <2>2, <2>3 DEF Armed
<1>7. CASE log # NoLog
  <2>1. log \in Names
    BY <1>4, <1>7
  <2>2. PICK before : before = IF Opens(s) THEN <<>> ELSE logs[log]
    OBVIOUS
  <2>3. before \in Seq(Status) /\ Len(before) \in Nat
    BY <1>1, <2>1, <2>2
  <2>4. /\ logs' = [logs EXCEPT ![log] = Append(before, s)]
        /\ taken' = IF Opens(s) /\ logs[log] # <<>> THEN taken \cup {log} ELSE taken
        /\ safe' = [safe EXCEPT ![log] =
                          CASE Closes(s) -> Len(before) + 1
                            [] Opens(s) -> 0
                            [] OTHER -> @]
        /\ writer' = IF Closes(s) THEN NoLog ELSE log
    BY <1>2, <1>3, <1>7, <2>2 DEF Write
  <2>5. Append(before, s) \in Seq(Status) /\ Len(Append(before, s)) = Len(before) + 1
    BY <2>3
  <2>6. ~(Opens(s) /\ Closes(s))
    BY DEF Opens, Closes
  <2>7. /\ logs' \in [Names -> Seq(Status)]
        /\ logs'[log] = Append(before, s)
        /\ \A n \in Names : n # log => logs'[n] = logs[n]
    BY <1>1, <2>1, <2>4, <2>5
  <2>8. /\ Closes(s) => safe' = [safe EXCEPT ![log] = Len(before) + 1]
        /\ Opens(s) => safe' = [safe EXCEPT ![log] = 0]
        /\ ~Closes(s) /\ ~Opens(s) => safe' = [safe EXCEPT ![log] = safe[log]]
    BY <2>4, <2>6
  <2>9. /\ safe' \in [Names -> Nat]
        /\ \A n \in Names : n # log => safe'[n] = safe[n]
        /\ Closes(s) => safe'[log] = Len(before) + 1
        /\ Opens(s) => safe'[log] = 0
        /\ ~Closes(s) /\ ~Opens(s) => safe'[log] = safe[log]
    <3>1. PICK on \in Nat : safe' = [safe EXCEPT ![log] = on]
      <4>1. safe[log] \in Nat /\ Len(before) + 1 \in Nat /\ 0 \in Nat
        BY <1>1, <2>1, <2>3
      <4> QED BY <2>8, <4>1
    <3>2. /\ safe' \in [Names -> Nat] /\ safe'[log] = on
          /\ \A n \in Names : n # log => safe'[n] = safe[n]
      BY <1>1, <2>1, <3>1
    <3> QED BY <1>1, <2>1, <2>3, <2>8, <3>2
  <2>10. LogTypeOK'
    <3>1. writer' \in Names \cup {NoLog}
      BY <2>1, <2>4
    <3> QED BY <1>1, <1>2, <1>5, <2>7, <2>9, <3>1 DEF LogTypeOK
  <2>11. SafeIsWritten'
    <3>1. safe'[log] <= Len(logs'[log])
      <4>1. ~Opens(s) => safe[log] <= Len(before)
        BY <1>1, <2>1, <2>2 DEF SafeIsWritten
      <4>2. safe[log] \in Nat
        BY <1>1, <2>1
      <4> QED BY <2>3, <2>5, <2>7, <2>9, <4>1, <4>2
    <3>2. ASSUME NEW n \in Names PROVE safe'[n] <= Len(logs'[n])
      BY <1>1, <2>7, <2>9, <3>1 DEF SafeIsWritten
    <3> QED BY <3>2 DEF SafeIsWritten
  <2>12. ASSUME Armed PROVE OpenLogHoldsFlight' /\ LandedIsSafe'
    <3>1. OpenLogHoldsFlight /\ LandedIsSafe
      BY <2>12
    <3>2. before = airborne
      <4>1. CASE Opens(s)
        BY <2>2, <3>1, <4>1 DEF Opens, OpenLogHoldsFlight
      <4>2. CASE ~Opens(s)
        BY <1>3, <1>7, <2>2, <3>1, <4>2 DEF OpenLogHoldsFlight
      <4> QED BY <4>1, <4>2
    \* A name that had a log already is taken.
    <3>3. landed.log # NoLog /\ landed.log \notin taken' => landed.log # log
      <4>1. CASE Opens(s)
        <5>1. landed.log = log /\ landed.log \notin taken /\ landed.log # NoLog
                => logs[log] # <<>>
          BY <3>1 DEF LandedIsSafe
        <5> QED BY <2>4, <4>1, <5>1
      <4>2. CASE ~Opens(s)
        BY <1>3, <2>4, <3>1, <4>2 DEF LandedIsSafe
      <4> QED BY <4>1, <4>2
    <3>4. landed.log \in Names \cup {NoLog} /\ taken \subseteq taken'
      BY <1>1, <2>4 DEF LogTypeOK
    <3>5. landed.log # NoLog /\ landed.log \notin taken'
            => /\ landed.statuses # <<>>
               /\ logs'[landed.log] = landed.statuses
               /\ safe'[landed.log] = Len(landed.statuses)
      BY <2>7, <2>9, <3>1, <3>3, <3>4 DEF LandedIsSafe
    <3>6. CASE s = "active"
      <4>1. ~Closes(s) /\ writer' = log /\ landed' = landed /\ airborne' = Append(airborne, s)
        BY <1>2, <2>4, <3>6 DEF Closes
      <4>2. OpenLogHoldsFlight'
        BY <1>7, <2>7, <3>2, <4>1 DEF OpenLogHoldsFlight
      <4>3. LandedIsSafe'
        BY <3>3, <3>5, <4>1 DEF LandedIsSafe
      <4> QED BY <4>2, <4>3
    <3>7. CASE s = "disarmed"
      <4>1. Closes(s) /\ ~Opens(s) /\ writer' = NoLog /\ airborne' = <<>> /\ log = writer
        BY <1>2, <1>3, <2>4, <2>12, <3>7 DEF Closes, Opens
      <4>2. OpenLogHoldsFlight'
        BY <4>1 DEF OpenLogHoldsFlight
      <4>3. CASE airborne = <<>>
        <5>1. landed' = landed
          BY <1>2, <3>7, <4>3
        <5> QED BY <3>4, <3>5, <4>1, <4>2, <5>1 DEF LandedIsSafe
      <4>4. CASE airborne # <<>>
        <5>1. landed'.log = log /\ landed'.statuses = Append(before, s)
          BY <1>2, <3>2, <3>7, <4>1, <4>4
        <5>2. Append(before, s) # <<>>
          BY <2>3
        <5> QED BY <1>7, <2>5, <2>7, <2>9, <4>1, <4>2, <5>1, <5>2 DEF LandedIsSafe
      <4> QED BY <4>3, <4>4
    <3> QED BY <3>6, <3>7 DEF Status
  <2> QED BY <1>2, <2>10, <2>11, <2>12 DEF Armed
<1> QED BY <1>6, <1>7

\* What a loss of power leaves of a log.
LEMMA WhatIsLeft ==
    ASSUME NEW s \in Seq(Status), NEW on \in Nat, NEW k \in Nat, on <= Len(s),
           NEW left, left = SubSeq(s, 1, IF k < on THEN on ELSE IF k > Len(s) THEN Len(s) ELSE k)
    PROVE  /\ left \in Seq(Status) /\ Len(left) \in Nat
           /\ on = Len(s) => left = s
<1>1. PICK m : m = IF k < on THEN on ELSE IF k > Len(s) THEN Len(s) ELSE k
  OBVIOUS
<1>2. m \in 0..Len(s) /\ (on = Len(s) => m = Len(s))
  BY <1>1
<1>3. SubSeq(s, 1, m) \in Seq(Status)
  BY <1>2
<1>4. SubSeq(s, 1, Len(s)) = s
  OBVIOUS
<1>5. left = SubSeq(s, 1, m)
  BY <1>1
<1>6. left \in Seq(Status) /\ Len(left) \in Nat
  BY <1>3, <1>5
<1>7. on = Len(s) => left = s
  BY <1>2, <1>4, <1>5
<1> QED BY <1>6, <1>7

LEMMA LoggerStops == ASSUME LogInv, PowerLoss PROVE LogInv'
<1> USE DEF LogInv
<1>1. /\ LogTypeOK /\ SafeIsWritten /\ NoLog \notin Names /\ second \in Names
      /\ logs \in [Names -> Seq(Status)] /\ safe \in [Names -> Nat]
  BY DEF LogTypeOK, Names, NoLog
<1>2. /\ second' \in second + 1..MaxSeconds
      /\ writer' = IF Armed THEN NoLog ELSE second'
      /\ safe' = [n \in Names |-> Len(logs'[n])]
      /\ airborne' = <<>>
      /\ UNCHANGED <<log_trigger, taken, landed>>
  BY DEF PowerLoss
<1>3. PICK k \in 0..MaxStatuses :
        logs' = [n \in Names |-> SubSeq(logs[n], 1, IF k < safe[n] THEN safe[n]
                                        ELSE IF k > Len(logs[n]) THEN Len(logs[n]) ELSE k)]
  BY DEF PowerLoss
<1>4. ASSUME NEW n \in Names
      PROVE  /\ logs'[n] \in Seq(Status) /\ Len(logs'[n]) \in Nat
             /\ safe[n] = Len(logs[n]) => logs'[n] = logs[n]
  <2>1. logs[n] \in Seq(Status) /\ safe[n] \in Nat /\ safe[n] <= Len(logs[n]) /\ k \in Nat
    BY <1>1, LogBoundsAssumption DEF SafeIsWritten
  <2>2. logs'[n] = SubSeq(logs[n], 1, IF k < safe[n] THEN safe[n]
                                      ELSE IF k > Len(logs[n]) THEN Len(logs[n]) ELSE k)
    BY <1>3
  <2> QED BY ONLY <2>1, <2>2, WhatIsLeft
<1>5. second' \in Names
  BY <1>1, <1>2, LogBoundsAssumption DEF Names
<1>6. logs' \in [Names -> Seq(Status)] /\ safe' \in [Names -> Nat]
  <2>1. logs' = [n \in Names |-> logs'[n]]
    BY <1>3
  <2> QED BY <1>2, <1>4, <2>1
<1>7. LogTypeOK'
  <2>1. airborne' \in Seq(Status)
    BY <1>2
  <2>2. landed' \in [log : Names \cup {NoLog}, statuses : Seq(Status)]
    BY <1>1, <1>2 DEF LogTypeOK
  <2>3. log_trigger' \in {"armed", "always"} /\ writer' \in Names \cup {NoLog}
    BY <1>1, <1>2, <1>5 DEF LogTypeOK
  <2> QED BY <1>5, <1>6, <2>1, <2>2, <2>3 DEF LogTypeOK
<1>8. SafeIsWritten'
  BY <1>2, <1>4 DEF SafeIsWritten
<1>9. ASSUME Armed PROVE OpenLogHoldsFlight' /\ LandedIsSafe'
  <2>1. writer' = NoLog
    BY <1>2, <1>9
  <2>2. LandedIsSafe /\ landed.log \in Names \cup {NoLog}
    BY <1>1, <1>9 DEF LogTypeOK
  <2>3. ASSUME landed.log # NoLog, landed.log \notin taken
        PROVE  /\ logs'[landed.log] = landed.statuses
               /\ safe'[landed.log] = Len(landed.statuses)
    <3>1. /\ landed.log \in Names /\ logs[landed.log] = landed.statuses
          /\ safe[landed.log] = Len(logs[landed.log])
      BY <2>2, <2>3 DEF LandedIsSafe
    <3> QED BY <1>2, <1>4, <3>1
  <2>4. LandedIsSafe'
    BY <1>2, <2>1, <2>2, <2>3 DEF LandedIsSafe
  <2>5. OpenLogHoldsFlight'
    BY <1>2, <2>1 DEF OpenLogHoldsFlight
  <2> QED BY <2>4, <2>5
<1> QED BY <1>2, <1>7, <1>8, <1>9 DEF Armed

LEMMA LogInductive == ASSUME LogInv, [LogNext]_logVars PROVE LogInv'
<1> USE DEF LogInv
<1>1. CASE OnStatus("active") \/ OnStatus("disarmed")
  BY <1>1, LoggerWrites DEF Status
<1>2. CASE OnFlushTimer
  <2>1. /\ writer # NoLog /\ safe' = [safe EXCEPT ![writer] = Len(logs[writer])]
        /\ UNCHANGED <<log_trigger, writer, logs, second, taken, airborne, landed>>
    BY <1>2 DEF OnFlushTimer
  <2>2. /\ writer \in Names /\ safe \in [Names -> Nat] /\ logs[writer] \in Seq(Status)
        /\ Len(logs[writer]) \in Nat
    BY <2>1 DEF LogTypeOK
  <2>3. /\ safe' \in [Names -> Nat] /\ safe'[writer] = Len(logs[writer])
        /\ \A n \in Names : n # writer => safe'[n] = safe[n]
    BY <2>1, <2>2
  <2>4. LogTypeOK'
    BY <2>1, <2>3 DEF LogTypeOK
  <2>5. SafeIsWritten'
    BY <2>1, <2>2, <2>3 DEF SafeIsWritten
  <2>6. Armed => OpenLogHoldsFlight' /\ LandedIsSafe'
    <3>1. landed.log # NoLog => landed.log \in Names
      BY DEF LogTypeOK
    <3> QED BY <2>1, <2>2, <2>3, <3>1 DEF OpenLogHoldsFlight, LandedIsSafe
  <2> QED BY <2>1, <2>4, <2>5, <2>6 DEF Armed
<1>3. CASE SecondPasses
  <2>1. /\ second' \in Names
        /\ UNCHANGED <<log_trigger, writer, logs, safe, taken, airborne, landed>>
    BY <1>3, LogBoundsAssumption DEF SecondPasses, LogTypeOK, Names
  <2> QED BY <2>1 DEF LogTypeOK, SafeIsWritten, OpenLogHoldsFlight, LandedIsSafe, Armed
<1>4. CASE PowerLoss
  BY <1>4, LoggerStops
<1>5. CASE UNCHANGED logVars
  BY <1>5 DEF logVars, LogTypeOK, SafeIsWritten, OpenLogHoldsFlight, LandedIsSafe, Armed
<1> QED BY <1>1, <1>2, <1>3, <1>4, <1>5 DEF LogNext

LEMMA LogInvariant == LogSpec => []LogInv
BY LogInitially, LogInductive, PTL DEF LogSpec

\* The log of a flight holds every status from the first armed one to the final
\* disarmed one, and a loss of power takes nothing from it (LoggerNode::onStatus).
THEOREM FlightIsLogged == LogSpec => []FlightLogged
<1>1. LogInv => FlightLogged
  BY DEF LogInv, LandedIsSafe, FlightLogged
<1> QED BY <1>1, LogInvariant, PTL
=============================================================================
