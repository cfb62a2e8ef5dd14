--------------------------- MODULE MissionProofs ---------------------------
(***************************************************************************)
(* What holds of the mission executor for every plan tree.                 *)
(***************************************************************************)
EXTENDS Mission, TLAPS

-----------------------------------------------------------------------------
(* Types, the staged plan, and the Executor that the bridge relies on.     *)

\* A plan is staged only while none runs.
StagedWhileIdle == status = "running" => pending = NoPlan

IInv == TypeOK /\ StagedWhileIdle

USE DEF GoalIds, Handle, Goal, ServerStates, Free, Sent, NoHandle, Failed, Succeeded

\* Cancelling keeps the goals well typed, whatever the handles are.
LEMMA CancelType ==
    ASSUME NEW gs \in [GoalIds -> Goal], NEW hs, NEW S
    PROVE  Cancel(gs, hs, S) \in [GoalIds -> Goal]
BY DEF Cancel

\* Destroying handles keeps the others well typed.
LEMMA EraseType ==
    ASSUME NEW hs \in [Nodes -> Handle], NEW S
    PROVE  Erase(hs, S) \in [Nodes -> Handle]
BY DEF Erase

\* A tick that sends a goal finds an id for it.
LEMMA FreshType ==
    ASSUME FreeIds # {}
    PROVE  Fresh \in GoalIds
BY DEF Fresh, FreeIds

\* A tick keeps the types, whatever the tree answers.
LEMMA TickType ==
    ASSUME IInv, NEW fired, NEW sends, NEW ready, TickWith(fired, sends, ready)
    PROVE  TypeOK'
<1> USE DEF IInv, TypeOK
<1> DEFINE hs == [n \in Nodes |->
                    IF n \in sends THEN HandleAfterSend(n, ready) ELSE handle[n]]
           gs == IF sends # {} /\ ready THEN [goals EXCEPT ![Fresh] = Sent] ELSE goals
           R == TickNode(hs, fired)
           reset == Resets(Path(fired), R, fired)
<1>2. sends # {} => Fresh \in GoalIds
  BY FreshType DEF TickWith
<1>3. hs \in [Nodes -> Handle]
  BY <1>2 DEF HandleAfterSend
<1>4. gs \in [GoalIds -> Goal]
  BY <1>2
<1>5. handle' = Erase(hs, reset) /\ goals' = Cancel(gs, hs, reset)
  BY DEF TickWith
<1>6. handle' \in [Nodes -> Handle] /\ goals' \in [GoalIds -> Goal]
  <2> HIDE DEF hs, gs, reset
  <2> QED BY <1>3, <1>4, <1>5, CancelType, EraseType
<1>7. index' \in [Nodes -> Nat] /\ attempts' \in [Nodes -> Nat] /\ starts' \in [Nodes -> Nat]
  <2> DEFINE adv == Advances(Path(fired), R)
             cnt == Counts(Path(fired), R)
             once(n) == n \in sends /\ handle[n].phase = "none" /\ starts[n] <= Budget(n)
  <2>1. /\ index' = [n \in Nodes |-> IF n \in reset THEN 0
                                      ELSE IF n \in adv THEN index[n] + 1 ELSE index[n]]
        /\ attempts' = [n \in Nodes |-> IF n \in reset THEN 0
                                      ELSE IF n \in cnt THEN attempts[n] + 1 ELSE attempts[n]]
        /\ starts' = [n \in Nodes |-> IF once(n) THEN starts[n] + 1 ELSE starts[n]]
    BY DEF TickWith
  <2> HIDE DEF adv, cnt, reset, once
  <2> QED BY <2>1
<1> QED BY <1>6, <1>7 DEF TickWith

\* The end of a goal is written into the handle that waits for it.
LEMMA EndsType ==
    ASSUME IInv, NEW g \in GoalIds, NEW outcome \in {Failed, Succeeded}, Ends(g, outcome)
    PROVE  IInv'
<1> USE DEF IInv, TypeOK
<1>1. goals' \in [GoalIds -> Goal]
  BY DEF Ends
<1>2. ASSUME NEW n \in Nodes PROVE [handle[n] EXCEPT !.goal = outcome] \in Handle
  <2>1. handle[n] \in Handle
    OBVIOUS
  <2> QED BY <2>1
<1>3. handle' \in [Nodes -> Handle]
  BY <1>2 DEF Ends
<1> QED BY <1>1, <1>3 DEF Ends, StagedWhileIdle

\* The server's side of a goal stays well typed.
LEMMA ServerType ==
    ASSUME IInv, NEW g \in GoalIds, NEW from, NEW to \in SUBSET ServerStates,
           ServerStep(g, from, to)
    PROVE  IInv'
<1> USE DEF IInv, TypeOK
<1>1. PICK s \in to : goals' = [goals EXCEPT ![g].server = s]
  BY DEF ServerStep
<1>2. [goals[g] EXCEPT !.server = s] \in Goal
  <2>1. goals[g] \in Goal
    OBVIOUS
  <2> QED BY <2>1
<1>3. goals' \in [GoalIds -> Goal]
  BY <1>1, <1>2
<1> QED BY <1>3 DEF ServerStep, StagedWhileIdle

\* Every callback keeps the invariant.
LEMMA Inductive == ASSUME IInv, [Next]_vars PROVE IInv'
<1>1. ASSUME NEW p \in Plans, OnUpload(p) PROVE IInv'
  BY <1>1 DEF OnUpload, Stage, IInv, TypeOK, StagedWhileIdle
<1>2. ASSUME NEW p \in Plans, OnStart(p) PROVE IInv'
  BY <1>2, PlansAssumption DEF OnStart, NewExecutor, IInv, TypeOK, StagedWhileIdle
<1>3. ASSUME NEW p \in Plans, OnAbort(p) PROVE IInv'
  <2> DEFINE S == Below[Root[plan]]
  <2>1. /\ handle' = Erase(handle, S) /\ goals' = Cancel(goals, handle, S)
        /\ index' = [n \in Nodes |-> IF n \in S THEN 0 ELSE index[n]]
        /\ attempts' = [n \in Nodes |-> IF n \in S THEN 0 ELSE attempts[n]]
        /\ status' = "failure" /\ UNCHANGED <<pending, plan, armed, starts>>
    BY <1>3 DEF OnAbort
  <2> HIDE DEF S
  <2> QED BY <2>1, CancelType, EraseType DEF IInv, TypeOK, StagedWhileIdle
<1>4. CASE Tick
  <2>1. PICK fired, sends, ready : TickWith(fired, sends, ready)
    BY <1>4 DEF Tick
  <2>2. TypeOK'
    BY <2>1, TickType
  <2>3. StagedWhileIdle'
    BY <1>4, <2>1 DEF Tick, TickWith, IInv, StagedWhileIdle
  <2> QED BY <2>2, <2>3 DEF IInv
<1>5. ASSUME NEW g \in GoalIds, GoalResponse(g) PROVE IInv'
  <2>1. CASE Ends(g, Failed)
    BY <2>1, EndsType
  <2>2. CASE /\ goals' = [goals EXCEPT ![g].known = TRUE]
             /\ UNCHANGED <<pending, plan, status, index, attempts, handle, armed, starts>>
    BY <2>2 DEF IInv, TypeOK, StagedWhileIdle
  <2> QED BY <1>5, <2>1, <2>2 DEF GoalResponse
<1>6. ASSUME NEW g \in GoalIds, Result(g) PROVE IInv'
  <2>1. Ends(g, Failed) \/ Ends(g, Succeeded)
    BY <1>6 DEF Result
  <2> QED BY <2>1, EndsType
<1>7. ASSUME NEW g \in GoalIds, ServerAnswers(g) \/ ServerResolves(g)
      PROVE  IInv'
  BY <1>7, ServerType DEF ServerAnswers, ServerResolves
<1>8. CASE TelemetryStatus
  BY <1>8 DEF TelemetryStatus, IInv, TypeOK, StagedWhileIdle
<1>9. CASE UNCHANGED vars
  BY <1>9 DEF vars, IInv, TypeOK, StagedWhileIdle
<1>10. CASE \E p \in Plans : OnUpload(p) \/ OnStart(p) \/ OnAbort(p)
  BY <1>10, <1>1, <1>2, <1>3
<1>11. CASE \E g \in GoalIds : \/ GoalResponse(g) \/ Result(g)
                              \/ ServerAnswers(g) \/ ServerResolves(g)
  BY <1>11, <1>5, <1>6, <1>7
<1> QED BY <1>4, <1>8, <1>9, <1>10, <1>11 DEF Next

\* It holds before the first callback.
LEMMA InitialState == Init => IInv
<1>1. Free \in Goal /\ NoHandle \in Handle
  OBVIOUS
<1> HIDE DEF Free, Goal, NoHandle, Handle, GoalIds
<1>2. Init => goals \in [GoalIds -> Goal] /\ handle \in [Nodes -> Handle]
  <2>1. Init => /\ goals = [g \in GoalIds |-> Free]
                /\ handle = [n \in Nodes |-> NoHandle]
    BY DEF Init
  <2> QED BY <1>1, <2>1
<1>3. Init => StagedWhileIdle
  BY DEF Init, StagedWhileIdle
<1>4. Init => /\ pending \in Accepted \cup {NoPlan} /\ plan \in Accepted \cup {NoPlan}
              /\ armed \in BOOLEAN
  BY DEF Init
<1>5. Init => /\ index \in [Nodes -> Nat] /\ attempts \in [Nodes -> Nat]
              /\ starts \in [Nodes -> Nat]
  BY DEF Init
<1> QED BY <1>2, <1>3, <1>4, <1>5 DEF IInv, TypeOK

\* It holds always.
LEMMA Invariant == Spec => []IInv
BY InitialState, Inductive, PTL DEF Spec

\* Every variable keeps its type; in particular only a plan without validation
\* errors is ever staged or run (MissionExecutorNode::on_upload, on_start).
THEOREM TypeCorrect == Spec => []TypeOK
<1>1. IInv => TypeOK
  BY DEF IInv
<1> QED BY <1>1, Invariant, PTL

\* A running plan is never replaced and no plan waits behind it
\* (MissionExecutorNode::on_upload refuses, so on_start has nothing to start).
THEOREM RunningPlanKept == Spec => PlanNotReplaced
<1>1. ASSUME IInv, [Next]_vars, status = "running" PROVE plan' = plan /\ pending' = pending
  <2> USE <1>1 DEF IInv, StagedWhileIdle
  <2>1. ASSUME NEW p \in Plans PROVE ~OnUpload(p) /\ ~OnStart(p)
    BY PlansAssumption DEF OnUpload, OnStart
  <2>2. ASSUME NEW p \in Plans, OnAbort(p) PROVE plan' = plan /\ pending' = pending
    BY <2>2 DEF OnAbort
  <2>3. CASE Tick
    BY <2>3 DEF Tick, TickWith
  <2>4. ASSUME NEW g \in GoalIds, GoalResponse(g) \/ Result(g)
        PROVE  plan' = plan /\ pending' = pending
    BY <2>4 DEF GoalResponse, Result, Ends
  <2>5. ASSUME NEW g \in GoalIds, ServerAnswers(g) \/ ServerResolves(g)
        PROVE  plan' = plan /\ pending' = pending
    BY <2>5 DEF ServerAnswers, ServerResolves, ServerStep
  <2>6. CASE TelemetryStatus
    BY <2>6 DEF TelemetryStatus
  <2>7. CASE UNCHANGED vars
    BY <2>7 DEF vars
  <2> QED BY <2>1, <2>2, <2>3, <2>4, <2>5, <2>6, <2>7 DEF Next
<1> QED BY <1>1, Invariant, PTL DEF Spec, PlanNotReplaced

\* The node starts as an Executor does.
LEMMA InitRefines == ASSUME Init PROVE Promise!Init
BY DEF Init, Promise!Init, State

\* Every callback is a request of the Executor, its tick, or none of its business.
LEMMA StepRefines ==
    ASSUME IInv, [Next]_vars
    PROVE  [Promise!Next]_(Promise!vars)
<1> USE DEF State, Promise!vars
<1>1. ASSUME NEW p \in Plans, OnUpload(p) PROVE Promise!Upload(p)
  BY <1>1 DEF OnUpload, Stage, Promise!Upload
<1>2. ASSUME NEW p \in Plans, OnStart(p) PROVE Promise!Start(p)
  BY <1>2 DEF OnStart, NewExecutor, Promise!Start
<1>3. ASSUME NEW p \in Plans, OnAbort(p) PROVE Promise!Abort(p)
  BY <1>3 DEF OnAbort, Promise!Abort
<1>4. CASE Tick
  <2>1. status = "running" /\ UNCHANGED <<pending, plan>>
    BY <1>4 DEF Tick, TickWith
  <2>2. State' \in {"running", "success", "failure"}
    OBVIOUS
  <2>3. Promise!Tick
    BY <2>1, <2>2 DEF Promise!Tick
  <2> QED BY <2>3 DEF Promise!Next
<1>5. ASSUME NEW g \in GoalIds, GoalResponse(g) \/ Result(g)
      PROVE  UNCHANGED <<pending, plan, status>>
  BY <1>5 DEF GoalResponse, Result, Ends
<1>6. ASSUME NEW g \in GoalIds, ServerAnswers(g) \/ ServerResolves(g)
      PROVE  UNCHANGED <<pending, plan, status>>
  BY <1>6 DEF ServerAnswers, ServerResolves, ServerStep
<1>7. CASE TelemetryStatus
  BY <1>7 DEF TelemetryStatus
<1>8. CASE UNCHANGED vars
  BY <1>8 DEF vars
<1>9. CASE \E p \in Plans : OnUpload(p) \/ OnStart(p) \/ OnAbort(p)
  BY <1>1, <1>2, <1>3, <1>9 DEF Promise!Next
<1>10. CASE \E g \in GoalIds : \/ GoalResponse(g) \/ Result(g)
                               \/ ServerAnswers(g) \/ ServerResolves(g)
  BY <1>5, <1>6, <1>10
<1> QED BY <1>4, <1>7, <1>8, <1>9, <1>10 DEF Next

\* The node keeps the promise the bridge builds on, whatever the plans are: a valid
\* upload is staged unless a plan runs, a start uses it up, a plan ends or is
\* aborted once (MissionExecutorNode::on_upload, on_start, on_abort, tick).
THEOREM ImplementsExecutor == Spec => ExecutorSpec
BY InitRefines, StepRefines, Invariant, PTL DEF Spec, ExecutorSpec, Promise!Spec

HIDE DEF GoalIds, Handle, Goal, ServerStates, Free, Sent, NoHandle, Failed, Succeeded

-----------------------------------------------------------------------------
(* Plan trees: what is below what.                                         *)

\* The children of a node are nodes.
LEMMA KidIsNode ==
    ASSUME NEW n \in Nodes, NEW i \in DOMAIN Kids[n]
    PROVE  Kids[n][i] \in Nodes
BY TreeAssumption

\* A plan is the least set that holds its root and with a node the node's children.
LEMMA BelowDef ==
    Below = [n \in Nodes |-> {n} \cup UNION {Below[Kids[n][i]] : i \in DOMAIN Kids[n]}]
<1> DEFINE Closed == {S \in SUBSET Nodes : \A m \in S : \A i \in DOMAIN Kids[m] : Kids[m][i] \in S}
           B == [n \in Nodes |-> {m \in Nodes : \A S \in Closed : n \in S => m \in S}]
           Step(f) == [n \in Nodes |-> {n} \cup UNION {f[Kids[n][i]] : i \in DOMAIN Kids[n]}]
<1>1. ASSUME NEW n \in Nodes PROVE B[n] = Step(B)[n]
  <2>1. \A i \in DOMAIN Kids[n] : Kids[n][i] \in Nodes
    BY KidIsNode
  <2>2. ASSUME NEW m \in Step(B)[n] PROVE m \in B[n]
    <3>1. CASE m = n
      BY <3>1
    <3>2. CASE m # n
      <4>1. PICK i \in DOMAIN Kids[n] : m \in B[Kids[n][i]]
        BY <2>2, <3>2
      <4> QED BY <4>1, <2>1
    <3> QED BY <3>1, <3>2
  <2>3. ASSUME NEW m \in B[n] PROVE m \in Step(B)[n]
    <3>1. Step(B)[n] \in SUBSET Nodes
      BY <2>1
    <3>2. ASSUME NEW x \in Step(B)[n], NEW j \in DOMAIN Kids[x]
          PROVE  Kids[x][j] \in Step(B)[n]
      <4>0. x \in Nodes /\ Kids[x][j] \in Nodes
        <5>1. x \in Nodes
          <6> HIDE DEF Step
          <6> QED BY <3>1, <3>2
        <5> QED BY <5>1, <3>2, KidIsNode
      <4>1. CASE x = n
        <5>1. Kids[x][j] \in B[Kids[n][j]]
          BY <4>1, <4>0
        <5> HIDE DEF B
        <5> QED BY <5>1, <4>1
      <4>2. CASE x # n
        <5>1. PICK i \in DOMAIN Kids[n] : x \in B[Kids[n][i]]
          BY <3>2, <4>2
        <5>2. Kids[x][j] \in B[Kids[n][i]]
          BY <5>1, <2>1, <4>0
        <5> HIDE DEF B
        <5> QED BY <5>2
      <4> QED BY <4>1, <4>2
    <3>3. Step(B)[n] \in Closed
      <4> HIDE DEF Step
      <4> QED BY <3>1, <3>2
    <3>4. n \in Step(B)[n]
      BY DEF B
    <3> HIDE DEF Step
    <3> QED BY <2>3, <3>3, <3>4
  <2> QED
    <3> HIDE DEF Step, B
    <3> QED BY <2>2, <2>3
<1>2. B = Step(B)
  <2> HIDE DEF B
  <2>1. DOMAIN B = Nodes /\ B = [n \in Nodes |-> B[n]]
    BY DEF B
  <2> QED BY <2>1, <1>1
<1>3. \E f : f = Step(f)
  <2> HIDE DEF B, Step
  <2> QED BY <1>2
<1> QED
  <2>1. Below = CHOOSE f : f = Step(f)
    BY DEF Below
  <2> HIDE DEF Step
  <2>2. Below = Step(Below)
    BY <1>3, <2>1
  <2> QED BY <2>2 DEF Step

\* What is below a node is the node and what is below its children.
LEMMA BelowStep ==
    ASSUME NEW n \in Nodes
    PROVE  /\ Below[n] = {n} \cup UNION {Below[Kids[n][i]] : i \in DOMAIN Kids[n]}
           /\ n \in Below[n]
           /\ \A i \in DOMAIN Kids[n] : Below[Kids[n][i]] \subseteq Below[n]
           /\ \A m \in Below[n] : m = n \/ \E i \in DOMAIN Kids[n] : m \in Below[Kids[n][i]]
<1>1. Below[n] = {n} \cup UNION {Below[Kids[n][i]] : i \in DOMAIN Kids[n]}
  <2> DEFINE F(m) == {m} \cup UNION {Below[Kids[m][i]] : i \in DOMAIN Kids[m]}
  <2>1. Below = [m \in Nodes |-> F(m)]
    BY BelowDef
  <2> HIDE DEF F
  <2>2. Below[n] = F(n)
    BY <2>1
  <2> QED BY <2>2 DEF F
<1> QED BY <1>1

\* What holds of a node when it holds of its children holds of all nodes.
LEMMA TreeInduction ==
    ASSUME NEW G \in SUBSET Nodes,
           \A n \in Nodes : (\A i \in DOMAIN Kids[n] : Kids[n][i] \in G) => n \in G
    PROVE  G = Nodes
<1> DEFINE Bad == Nodes \ G
<1>1. SUFFICES ASSUME Bad # {} PROVE FALSE
  OBVIOUS
<1>2. PICK n \in Bad : \A i \in DOMAIN Kids[n] : Kids[n][i] \notin Bad
  <2>1. Bad \in (SUBSET Nodes) \ {{}}
    BY <1>1
  <2> HIDE DEF Bad
  <2> QED BY <2>1, OwnershipAssumption
<1>3. \A i \in DOMAIN Kids[n] : Kids[n][i] \in G
  BY <1>2, KidIsNode
<1> QED BY <1>2, <1>3

\* A plan consists of nodes.
LEMMA BelowNodes == ASSUME NEW n \in Nodes PROVE Below[n] \in SUBSET Nodes
<1> DEFINE G == {m \in Nodes : Below[m] \in SUBSET Nodes}
<1>1. ASSUME NEW m \in Nodes, \A i \in DOMAIN Kids[m] : Kids[m][i] \in G
      PROVE  m \in G
  BY <1>1, BelowStep
<1>2. G = Nodes
  <2> HIDE DEF G
  <2>1. G \in SUBSET Nodes
    BY DEF G
  <2> QED BY <1>1, <2>1, TreeInduction
<1> QED BY <1>2

\* A plan holds with a node all that is below it.
LEMMA BelowTransitive ==
    ASSUME NEW n \in Nodes, NEW m \in Below[n]
    PROVE  Below[m] \subseteq Below[n]
<1> DEFINE G == {k \in Nodes : \A l \in Below[k] : Below[l] \subseteq Below[k]}
<1>1. ASSUME NEW k \in Nodes, \A i \in DOMAIN Kids[k] : Kids[k][i] \in G
      PROVE  k \in G
  <2>1. ASSUME NEW l \in Below[k] PROVE Below[l] \subseteq Below[k]
    <3>1. CASE l = k
      BY <3>1
    <3>2. CASE l # k
      <4>1. PICK i \in DOMAIN Kids[k] : l \in Below[Kids[k][i]]
        BY <3>2, BelowStep
      <4>2. Below[l] \subseteq Below[Kids[k][i]]
        BY <1>1, <4>1
      <4> QED BY <4>2, BelowStep
    <3> QED BY <3>1, <3>2
  <2> QED BY <2>1
<1>2. G = Nodes
  <2> HIDE DEF G
  <2>1. G \in SUBSET Nodes
    BY DEF G
  <2> QED BY <1>1, <2>1, TreeInduction
<1> QED BY <1>2

\* No node is below one of its children.
LEMMA NoCycle ==
    ASSUME NEW n \in Nodes, NEW i \in DOMAIN Kids[n]
    PROVE  n \notin Below[Kids[n][i]]
<1> DEFINE S == {m \in Below[Kids[n][i]] : n \in Below[m]}
<1>1. SUFFICES ASSUME n \in Below[Kids[n][i]] PROVE FALSE
  OBVIOUS
<1>2. Kids[n][i] \in Nodes
  BY KidIsNode
<1>3. S \in SUBSET Nodes
  BY <1>2, BelowNodes
<1>4. n \in S
  BY <1>1, BelowStep
<1>5. ASSUME NEW m \in S PROVE \E j \in DOMAIN Kids[m] : Kids[m][j] \in S
  <2>1. CASE m = n
    <3>1. Kids[n][i] \in S
      BY <1>1, <1>2, BelowStep
    <3> HIDE DEF S
    <3> QED BY <2>1, <3>1
  <2>2. CASE m # n
    <3>0. m \in Nodes
      BY <1>3
    <3>1. PICK j \in DOMAIN Kids[m] : n \in Below[Kids[m][j]]
      BY <3>0, <2>2, BelowStep
    <3>2. Kids[m][j] \in Nodes
      BY <3>0, KidIsNode
    <3>3. Kids[m][j] \in Below[m]
      BY <3>0, <3>2, BelowStep
    <3>4. Kids[m][j] \in Below[Kids[n][i]]
      BY <1>2, <3>3, BelowTransitive
    <3> QED BY <3>1, <3>4
  <2> QED BY <2>1, <2>2
<1> QED
  <2> HIDE DEF S
  <2>1. S \in (SUBSET Nodes) \ {{}}
    BY <1>3, <1>4
  <2> QED BY <2>1, <1>5, OwnershipAssumption

\* The one place that holds a node below b, b apart, is below b.
LEMMA ParentBelow ==
    ASSUME NEW b \in Nodes, NEW n \in Nodes, NEW i \in DOMAIN Kids[n],
           Kids[n][i] \in Below[b], Kids[n][i] # b
    PROVE  n \in Below[b]
<1> DEFINE G == {k \in Nodes : Kids[n][i] \in Below[k] /\ Kids[n][i] # k => n \in Below[k]}
<1>1. ASSUME NEW k \in Nodes, \A j \in DOMAIN Kids[k] : Kids[k][j] \in G
      PROVE  k \in G
  <2>1. SUFFICES ASSUME Kids[n][i] \in Below[k], Kids[n][i] # k PROVE n \in Below[k]
    OBVIOUS
  <2>2. PICK j \in DOMAIN Kids[k] : Kids[n][i] \in Below[Kids[k][j]]
    BY <2>1, BelowStep
  <2>3. CASE Kids[n][i] = Kids[k][j]
    BY <2>3, OwnershipAssumption, BelowStep
  <2>4. CASE Kids[n][i] # Kids[k][j]
    BY <2>2, <2>4, <1>1, BelowStep
  <2> QED BY <2>3, <2>4
<1>2. G = Nodes
  <2> HIDE DEF G
  <2>1. G \in SUBSET Nodes
    BY DEF G
  <2> QED BY <1>1, <2>1, TreeInduction
<1> QED BY <1>2

\* Of two nodes with a node below both, one is below the other.
LEMMA Comparable ==
    ASSUME NEW a \in Nodes, NEW b \in Nodes, NEW x \in Below[a], x \in Below[b]
    PROVE  a \in Below[b] \/ b \in Below[a]
<1> DEFINE G == {k \in Nodes : x \in Below[k] => k \in Below[b] \/ b \in Below[k]}
<1>1. ASSUME NEW k \in Nodes, \A j \in DOMAIN Kids[k] : Kids[k][j] \in G
      PROVE  k \in G
  <2>1. SUFFICES ASSUME x \in Below[k] PROVE k \in Below[b] \/ b \in Below[k]
    OBVIOUS
  <2>2. CASE x = k
    BY <2>2
  <2>3. CASE x # k
    <3>1. PICK j \in DOMAIN Kids[k] : x \in Below[Kids[k][j]]
      BY <2>1, <2>3, BelowStep
    <3>2. Kids[k][j] \in Below[b] \/ b \in Below[Kids[k][j]]
      BY <3>1, <1>1
    <3>3. Below[Kids[k][j]] \subseteq Below[k] /\ Kids[k][j] \in Below[Kids[k][j]]
      BY BelowStep, KidIsNode
    <3> QED BY <3>2, <3>3, ParentBelow
  <2> QED BY <2>2, <2>3
<1>2. G = Nodes
  <2> HIDE DEF G
  <2>1. G \in SUBSET Nodes
    BY DEF G
  <2> QED BY <1>1, <2>1, TreeInduction
<1> QED BY <1>2

\* Two children of a node have nothing below them in common.
LEMMA SiblingsApart ==
    ASSUME NEW n \in Nodes, NEW i \in DOMAIN Kids[n], NEW j \in DOMAIN Kids[n],
           NEW x \in Below[Kids[n][i]], x \in Below[Kids[n][j]]
    PROVE  i = j
<1> DEFINE a == Kids[n][i]
           b == Kids[n][j]
<1>0. a \in Nodes /\ b \in Nodes
  BY KidIsNode
<1>1. SUFFICES ASSUME a # b PROVE FALSE
  BY OwnershipAssumption
<1>2. a \in Below[b] \/ b \in Below[a]
  BY <1>0, Comparable
<1>3. n \in Below[b] \/ n \in Below[a]
  BY <1>0, <1>1, <1>2, ParentBelow
<1> QED BY <1>3, NoCycle

-----------------------------------------------------------------------------
(* The path that a tick walks down.                                        *)

IndexOK == index \in [Nodes -> Nat]

\* The child that a node ticks is a node, and below it.
LEMMA CurrentIsKid ==
    ASSUME IndexOK, NEW fired, NEW n \in Nodes, ~Leaf(n, fired)
    PROVE  /\ index[n] + 1 \in DOMAIN Kids[n]
           /\ Current(n) \in Nodes
           /\ Below[Current(n)] \subseteq Below[n]
           /\ Current(n) \in Below[n]
<1>1. Kids[n] \in Seq(Nodes) /\ index[n] \in Nat
  BY TreeAssumption DEF IndexOK
<1>2. index[n] + 1 \in DOMAIN Kids[n]
  BY <1>1 DEF Leaf
<1>3. Current(n) \in Nodes
  BY <1>2, KidIsNode DEF Current
<1>4. Below[Current(n)] \subseteq Below[n] /\ Current(n) \in Below[Current(n)]
  BY <1>2, <1>3, BelowStep DEF Current
<1> QED BY <1>2, <1>3, <1>4

\* A tick goes from a node to its current child until it comes to a leaf.
LEMMA PathDef ==
    ASSUME IndexOK, NEW fired
    PROVE  PathFrom(fired) =
             [n \in Nodes |-> {n} \cup (IF Leaf(n, fired) THEN {}
                                        ELSE PathFrom(fired)[Current(n)])]
<1> DEFINE Closed == {S \in SUBSET Nodes : \A m \in S : ~Leaf(m, fired) => Current(m) \in S}
           B == [n \in Nodes |-> {m \in Nodes : \A S \in Closed : n \in S => m \in S}]
           Step(f) == [n \in Nodes |-> {n} \cup (IF Leaf(n, fired) THEN {} ELSE f[Current(n)])]
<1>1. ASSUME NEW n \in Nodes PROVE B[n] = Step(B)[n]
  <2>1. \A m \in Nodes : ~Leaf(m, fired) => Current(m) \in Nodes
    BY CurrentIsKid
  <2>2. ASSUME NEW m \in Step(B)[n] PROVE m \in B[n]
    <3>1. CASE m = n
      BY <3>1
    <3>2. CASE m # n
      <4>1. ~Leaf(n, fired) /\ m \in B[Current(n)]
        BY <2>2, <3>2
      <4> QED BY <4>1, <2>1
    <3> QED BY <3>1, <3>2
  <2>3. ASSUME NEW m \in B[n] PROVE m \in Step(B)[n]
    <3>1. Step(B)[n] \in SUBSET Nodes
      BY <2>1
    <3>2. ASSUME NEW x \in Step(B)[n], ~Leaf(x, fired)
          PROVE  Current(x) \in Step(B)[n]
      <4>1. CASE x = n
        <5>1. Current(n) \in B[Current(n)]
          BY <4>1, <3>2, <2>1
        <5> HIDE DEF B
        <5> QED BY <5>1, <4>1, <3>2
      <4>2. CASE x # n
        <5>1. ~Leaf(n, fired) /\ x \in B[Current(n)]
          BY <3>2, <4>2
        <5>2. Current(x) \in B[Current(n)]
          BY <5>1, <2>1, <3>2
        <5> HIDE DEF B
        <5> QED BY <5>1, <5>2
      <4> QED BY <4>1, <4>2
    <3>3. Step(B)[n] \in Closed
      <4> HIDE DEF Step
      <4> QED BY <3>1, <3>2
    <3>4. n \in Step(B)[n]
      BY DEF B
    <3> HIDE DEF Step
    <3> QED BY <2>3, <3>3, <3>4
  <2> QED
    <3> HIDE DEF Step, B
    <3> QED BY <2>2, <2>3
<1>2. B = Step(B)
  <2> HIDE DEF B
  <2>1. DOMAIN B = Nodes /\ B = [n \in Nodes |-> B[n]]
    BY DEF B
  <2> QED BY <2>1, <1>1
<1>3. \E f : f = Step(f)
  <2> HIDE DEF B, Step
  <2> QED BY <1>2
<1> QED
  <2>1. PathFrom(fired) = CHOOSE f : f = Step(f)
    BY DEF PathFrom
  <2> HIDE DEF Step
  <2>2. PathFrom(fired) = Step(PathFrom(fired))
    BY <1>3, <2>1
  <2> QED BY <2>2 DEF Step

PathSteps(fired) ==
    \A n \in Nodes :
        /\ n \in PathFrom(fired)[n]
        /\ Leaf(n, fired) => PathFrom(fired)[n] = {n}
        /\ ~Leaf(n, fired) => PathFrom(fired)[n] = {n} \cup PathFrom(fired)[Current(n)]

\* The path from a node is the node and the path from its current child.
LEMMA PathStep == IndexOK => \A fired : PathSteps(fired)
<1>1. SUFFICES ASSUME IndexOK, NEW fired, NEW n \in Nodes
               PROVE  PathFrom(fired)[n] = {n} \cup (IF Leaf(n, fired) THEN {}
                                                     ELSE PathFrom(fired)[Current(n)])
  BY DEF PathSteps
<1> DEFINE F(m) == {m} \cup (IF Leaf(m, fired) THEN {} ELSE PathFrom(fired)[Current(m)])
<1>2. PathFrom(fired) = [m \in Nodes |-> F(m)]
  BY <1>1, PathDef
<1> HIDE DEF F
<1>3. PathFrom(fired)[n] = F(n)
  BY <1>2
<1> QED BY <1>3 DEF F

\* A path stays below the node it comes from.
LEMMA PathBelow ==
    ASSUME IndexOK, NEW fired, NEW n \in Nodes
    PROVE  PathFrom(fired)[n] \subseteq Below[n]
<1> DEFINE G == {k \in Nodes : PathFrom(fired)[k] \subseteq Below[k]}
<1>1. ASSUME NEW k \in Nodes, \A i \in DOMAIN Kids[k] : Kids[k][i] \in G
      PROVE  k \in G
  <2>1. CASE Leaf(k, fired)
    BY <2>1, PathStep, BelowStep DEF PathSteps
  <2>2. CASE ~Leaf(k, fired)
    <3>1. Current(k) \in G
      BY <2>2, <1>1, CurrentIsKid DEF Current
    <3>2. PathFrom(fired)[k] = {k} \cup PathFrom(fired)[Current(k)]
      BY <2>2, PathStep DEF PathSteps
    <3> QED BY <2>2, <3>1, <3>2, BelowStep, CurrentIsKid
  <2> QED BY <2>1, <2>2
<1>2. G = Nodes
  <2> HIDE DEF G
  <2>1. G \in SUBSET Nodes
    BY DEF G
  <2> QED BY <1>1, <2>1, TreeInduction
<1> QED BY <1>2

\* A path goes on from each of its nodes as from the first.
LEMMA PathGoesOn ==
    ASSUME IndexOK, NEW fired, NEW n \in Nodes, NEW m \in PathFrom(fired)[n]
    PROVE  PathFrom(fired)[m] \subseteq PathFrom(fired)[n]
<1> DEFINE P == PathFrom(fired)
           G == {k \in Nodes : \A l \in P[k] : P[l] \subseteq P[k]}
<1> HIDE DEF P
<1>1. ASSUME NEW k \in Nodes, \A i \in DOMAIN Kids[k] : Kids[k][i] \in G
      PROVE  k \in G
  <2>1. CASE Leaf(k, fired)
    <3>1. P[k] = {k}
      BY <2>1, PathStep DEF PathSteps, P
    <3> QED BY <3>1
  <2>2. CASE ~Leaf(k, fired)
    <3>1. Current(k) \in G
      BY <2>2, <1>1, CurrentIsKid DEF Current
    <3>2. P[k] = {k} \cup P[Current(k)]
      BY <2>2, PathStep DEF PathSteps, P
    <3> QED BY <3>1, <3>2
  <2> QED BY <2>1, <2>2
<1>2. G = Nodes
  <2> HIDE DEF G
  <2>1. G \in SUBSET Nodes
    BY DEF G
  <2> QED BY <1>1, <2>1, TreeInduction
<1>3. m \in P[n]
  BY DEF P
<1>4. P[m] \subseteq P[n]
  BY <1>2, <1>3
<1> QED BY <1>4 DEF P

\* A path has one leaf.
LEMMA OneLeaf ==
    ASSUME IndexOK, NEW fired, NEW n \in Nodes,
           NEW t \in PathFrom(fired)[n], NEW u \in PathFrom(fired)[n],
           Leaf(t, fired), Leaf(u, fired)
    PROVE  t = u
<1> DEFINE P == PathFrom(fired)
           G == {k \in Nodes : \A l, m \in P[k] : Leaf(l, fired) /\ Leaf(m, fired) => l = m}
<1> HIDE DEF P
<1>1. ASSUME NEW k \in Nodes, \A i \in DOMAIN Kids[k] : Kids[k][i] \in G
      PROVE  k \in G
  <2>1. CASE Leaf(k, fired)
    <3>1. P[k] = {k}
      BY <2>1, PathStep DEF PathSteps, P
    <3> QED BY <3>1
  <2>2. CASE ~Leaf(k, fired)
    <3>1. Current(k) \in G
      BY <2>2, <1>1, CurrentIsKid DEF Current
    <3>2. P[k] = {k} \cup P[Current(k)]
      BY <2>2, PathStep DEF PathSteps, P
    <3> QED BY <2>2, <3>1, <3>2
  <2> QED BY <2>1, <2>2
<1>2. G = Nodes
  <2> HIDE DEF G
  <2>1. G \in SUBSET Nodes
    BY DEF G
  <2> QED BY <1>1, <2>1, TreeInduction
<1>3. t \in P[n] /\ u \in P[n]
  BY DEF P
<1> QED BY <1>2, <1>3

\* A path comes to a leaf.
LEMMA PathHasLeaf ==
    ASSUME IndexOK, NEW fired, NEW n \in Nodes
    PROVE  \E t \in PathFrom(fired)[n] : Leaf(t, fired)
<1> DEFINE P == PathFrom(fired)
           G == {k \in Nodes : \E l \in P[k] : Leaf(l, fired)}
<1> HIDE DEF P
<1>1. ASSUME NEW k \in Nodes, \A i \in DOMAIN Kids[k] : Kids[k][i] \in G
      PROVE  k \in G
  <2>1. CASE Leaf(k, fired)
    <3>1. P[k] = {k}
      BY <2>1, PathStep DEF PathSteps, P
    <3> QED BY <2>1, <3>1
  <2>2. CASE ~Leaf(k, fired)
    <3>1. Current(k) \in G
      BY <2>2, <1>1, CurrentIsKid DEF Current
    <3>2. P[k] = {k} \cup P[Current(k)]
      BY <2>2, PathStep DEF PathSteps, P
    <3> QED BY <2>2, <3>1, <3>2
  <2> QED BY <2>1, <2>2
<1>2. G = Nodes
  <2> HIDE DEF G
  <2>1. G \in SUBSET Nodes
    BY DEF G
  <2> QED BY <1>1, <2>1, TreeInduction
<1> QED BY <1>2 DEF P

\* The leaf of a path is the leaf of what is left of it.
LEMMA LeafOfRest ==
    ASSUME IndexOK, NEW fired, NEW n \in Nodes,
           NEW t \in PathFrom(fired)[n], Leaf(t, fired),
           NEW m \in PathFrom(fired)[n]
    PROVE  t \in PathFrom(fired)[m]
<1>1. m \in Nodes
  BY PathBelow, BelowNodes
<1>2. PICK l \in PathFrom(fired)[m] : Leaf(l, fired)
  BY <1>1, PathHasLeaf
<1>3. l \in PathFrom(fired)[n]
  BY <1>2, PathGoesOn
<1> QED BY <1>2, <1>3, OneLeaf

-----------------------------------------------------------------------------
(* The status that it hands up.                                            *)

\* The status that a tick hands up: a task's poll, a leaf's own status, or what the
\* current child's status becomes.
Handed(hs, fired, n, child) ==
    IF Kind[n] = "task" THEN Poll(hs[n])
    ELSE IF Leaf(n, fired) THEN IF n \in fired THEN "success" ELSE "failure"
    ELSE IF \/ Kind[n] = "sequence" /\ child = "success" /\ ~SequenceEnds(n)
            \/ Kind[n] = "retry" /\ child = "failure" /\ ~RetryExhausted(n)
         THEN "running" ELSE child

\* The recursion of tick_node has a solution: the status of the leaf, unless a sequence
\* or a retry on the way up turns it into "running".
LEMMA TickNodeDef ==
    ASSUME IndexOK, NEW hs, NEW fired
    PROVE  TickNode(hs, fired) =
             [n \in Nodes |-> Handed(hs, fired, n, TickNode(hs, fired)[Current(n)])]
<1> DEFINE P == PathFrom(fired)
           Leaves(n) == {m \in P[n] : Leaf(m, fired)}
           End(n) == CHOOSE m \in Leaves(n) : TRUE
           Base(e) == IF Kind[e] = "task" THEN Poll(hs[e])
                      ELSE IF e \in fired THEN "success" ELSE "failure"
           Turns(m, s) == \/ Kind[m] = "sequence" /\ s = "success" /\ ~SequenceEnds(m)
                          \/ Kind[m] = "retry" /\ s = "failure" /\ ~RetryExhausted(m)
           Turned(n) == \E m \in P[n] : ~Leaf(m, fired) /\ Turns(m, Base(End(n)))
           B == [n \in Nodes |-> IF Turned(n) THEN "running" ELSE Base(End(n))]
           Step(f) == [n \in Nodes |-> Handed(hs, fired, n, f[Current(n)])]
<1>1. ASSUME NEW n \in Nodes PROVE B[n] = Step(B)[n]
  <2>1. CASE Leaf(n, fired)
    <3>1. P[n] = {n}
      BY <2>1, PathStep DEF PathSteps
    <3> HIDE DEF P
    <3>2. Leaves(n) = {n}
      BY <2>1, <3>1
    <3>3. End(n) = n
      BY <3>2
    <3>4. ~Turned(n)
      <4> HIDE DEF Turns, End, Base
      <4> QED BY <2>1, <3>1
    <3>5. B[n] = Base(n)
      <4> HIDE DEF Turned, End, Base
      <4> QED BY <3>3, <3>4
    <3> QED BY <3>5, <2>1 DEF Handed
  <2>2. CASE ~Leaf(n, fired)
    <3> DEFINE c == Current(n)
    <3>0. c \in Nodes /\ Kind[n] # "task"
      <4>1. c \in Nodes
        BY <2>2, CurrentIsKid
      <4>2. Kind[n] = "task" => Len(Kids[n]) = 0
        BY TreeAssumption
      <4> QED BY <4>1, <4>2, <2>2 DEF Leaf, IndexOK
    <3>1. P[n] = {n} \cup P[c]
      BY <2>2, PathStep DEF PathSteps
    <3> HIDE DEF P, c
    <3>2. Leaves(n) = Leaves(c)
      BY <2>2, <3>1
    <3>3. End(n) = End(c)
      BY <3>2
    <3>4. Turned(n) <=> Turned(c) \/ Turns(n, Base(End(c)))
      <4> HIDE DEF Turns, End, Base
      <4> QED BY <2>2, <3>1, <3>3
    <3>5. B[n] = IF Turned(n) THEN "running" ELSE Base(End(c))
      <4> HIDE DEF Turned, End, Base
      <4> QED BY <3>3
    <3>6. B[c] = IF Turned(c) THEN "running" ELSE Base(End(c))
      <4> HIDE DEF Turned, End, Base
      <4> QED BY <3>0
    <3>7. Step(B)[n] = IF Turns(n, B[c]) THEN "running" ELSE B[c]
      <4> HIDE DEF B
      <4> QED BY <2>2, <3>0 DEF Handed, c
    <3>8. Turned(c) => ~Turns(n, "running")
      OBVIOUS
    <3> HIDE DEF B, Step, Turns, Turned, End, Base
    <3> QED BY <3>4, <3>5, <3>6, <3>7, <3>8
  <2> QED BY <2>1, <2>2
<1>2. B = Step(B)
  <2>0. DOMAIN B = Nodes
    OBVIOUS
  <2> HIDE DEF B
  <2>1. B = [n \in Nodes |-> B[n]]
    BY <2>0 DEF B
  <2> QED BY <2>1, <1>1
<1>3. \E f : f = Step(f)
  <2> HIDE DEF B, Step
  <2> QED BY <1>2
<1> QED
  <2>1. TickNode(hs, fired) = CHOOSE f : f = Step(f)
    BY DEF TickNode, Handed
  <2> HIDE DEF Step
  <2>2. TickNode(hs, fired) = Step(TickNode(hs, fired))
    BY <1>3, <2>1
  <2> QED BY <2>2 DEF Step

\* One step of this recursion.
LEMMA TickNodeStep ==
    ASSUME IndexOK, NEW hs, NEW fired, NEW n \in Nodes
    PROVE  TickNode(hs, fired)[n] = Handed(hs, fired, n, TickNode(hs, fired)[Current(n)])
<1> DEFINE F(m) == Handed(hs, fired, m, TickNode(hs, fired)[Current(m)])
<1>1. TickNode(hs, fired) = [m \in Nodes |-> F(m)]
  BY TickNodeDef
<1> HIDE DEF F
<1>2. TickNode(hs, fired)[n] = F(n)
  BY <1>1
<1> QED BY <1>2 DEF F

\* A path that ends in a task that waits for its goal hands up "running" all along.
LEMMA RunningUp ==
    ASSUME IndexOK, NEW hs, NEW fired, NEW t \in Nodes, Kind[t] = "task",
           Poll(hs[t]) = "running", NEW n \in Nodes, t \in PathFrom(fired)[n]
    PROVE  TickNode(hs, fired)[n] = "running"
<1> DEFINE P == PathFrom(fired)
           R == TickNode(hs, fired)
           G == {k \in Nodes : t \in P[k] => R[k] = "running"}
<1> HIDE DEF P, R
<1>1. ASSUME NEW k \in Nodes, \A i \in DOMAIN Kids[k] : Kids[k][i] \in G
      PROVE  k \in G
  <2>1. SUFFICES ASSUME t \in P[k] PROVE R[k] = "running"
    OBVIOUS
  <2>2. R[k] = Handed(hs, fired, k, R[Current(k)])
    BY TickNodeStep DEF R
  <2>3. CASE k = t
    BY <2>2, <2>3 DEF Handed
  <2>4. CASE k # t
    <3>1. ~Leaf(k, fired) /\ t \in P[Current(k)]
      BY <2>1, <2>4, PathStep DEF PathSteps, P
    <3>2. Current(k) \in G
      BY <3>1, <1>1, CurrentIsKid DEF Current
    <3>3. R[Current(k)] = "running"
      BY <3>1, <3>2
    <3>4. Kind[k] # "task"
      <4>1. Kind[k] = "task" => Len(Kids[k]) = 0
        BY TreeAssumption
      <4> QED BY <4>1, <3>1 DEF Leaf, IndexOK
    <3> QED BY <2>2, <3>1, <3>3, <3>4 DEF Handed
  <2> QED BY <2>3, <2>4
<1>2. G = Nodes
  <2> HIDE DEF G
  <2>1. G \in SUBSET Nodes
    BY DEF G
  <2> QED BY <1>1, <2>1, TreeInduction
<1> QED BY <1>2 DEF P, R

\* A node that a tick leaves "success" hands it up to a sequence that goes on to its
\* next child, or to the end.
LEMMA SuccessUp ==
    ASSUME IndexOK, NEW hs, NEW fired, NEW t \in Nodes,
           TickNode(hs, fired)[t] = "success", NEW n \in Nodes, t \in PathFrom(fired)[n]
    PROVE  \/ TickNode(hs, fired)[n] = "success"
           \/ \E p \in PathFrom(fired)[n] :
                 /\ Kind[p] = "sequence" /\ ~Leaf(p, fired)
                 /\ TickNode(hs, fired)[Current(p)] = "success"
                 /\ t \in Below[Current(p)]
<1> DEFINE P == PathFrom(fired)
           R == TickNode(hs, fired)
           Goes(p) == /\ Kind[p] = "sequence" /\ ~Leaf(p, fired)
                      /\ R[Current(p)] = "success" /\ t \in Below[Current(p)]
           G == {k \in Nodes : t \in P[k] => R[k] = "success" \/ \E p \in P[k] : Goes(p)}
<1> HIDE DEF P, R
<1>1. ASSUME NEW k \in Nodes, \A i \in DOMAIN Kids[k] : Kids[k][i] \in G
      PROVE  k \in G
  <2>1. SUFFICES ASSUME t \in P[k] PROVE R[k] = "success" \/ \E p \in P[k] : Goes(p)
    OBVIOUS
  <2>2. R[k] = Handed(hs, fired, k, R[Current(k)])
    BY TickNodeStep DEF R
  <2>3. CASE k = t
    BY <2>3 DEF R
  <2>4. CASE k # t
    <3>1. ~Leaf(k, fired) /\ t \in P[Current(k)] /\ P[k] = {k} \cup P[Current(k)]
      BY <2>1, <2>4, PathStep DEF PathSteps, P
    <3>2. Current(k) \in G
      BY <3>1, <1>1, CurrentIsKid DEF Current
    <3>3. CASE \E p \in P[Current(k)] : Goes(p)
      <4> HIDE DEF Goes
      <4> QED BY <3>1, <3>3
    <3>4. CASE R[Current(k)] = "success"
      <4>1. CASE Kind[k] = "sequence"
        <5>1. t \in Below[Current(k)]
          BY <3>1, CurrentIsKid, PathBelow DEF P
        <5>2. Goes(k)
          BY <3>1, <3>4, <4>1, <5>1
        <5> HIDE DEF Goes
        <5> QED BY <3>1, <5>2
      <4>2. CASE Kind[k] # "sequence"
        <5>1. Kind[k] # "task"
          <6>1. Kind[k] = "task" => Len(Kids[k]) = 0
            BY TreeAssumption
          <6> QED BY <6>1, <3>1 DEF Leaf, IndexOK
        <5> QED BY <2>2, <3>1, <3>4, <4>2, <5>1 DEF Handed
      <4> QED BY <4>1, <4>2
    <3> QED BY <3>1, <3>2, <3>3, <3>4
  <2> QED BY <2>3, <2>4
<1>2. G = Nodes
  <2> HIDE DEF G
  <2>1. G \in SUBSET Nodes
    BY DEF G
  <2> QED BY <1>1, <2>1, TreeInduction
<1> QED BY <1>2 DEF P, R

\* A path with no condition that holds is cut off by one that does, or is the same.
LEMMA CutOrSame ==
    ASSUME IndexOK, NEW fired, NEW n \in Nodes, NEW t \in PathFrom({})[n]
    PROVE  \/ t \in PathFrom(fired)[n]
           \/ \E f \in PathFrom(fired)[n] \cap fired : t \in Below[Current(f)]
<1> DEFINE P == PathFrom(fired)
           Q == PathFrom({})
           G == {k \in Nodes : t \in Q[k] =>
                   t \in P[k] \/ \E f \in P[k] \cap fired : t \in Below[Current(f)]}
<1> HIDE DEF P, Q
<1>1. ASSUME NEW k \in Nodes, \A i \in DOMAIN Kids[k] : Kids[k][i] \in G
      PROVE  k \in G
  <2>1. SUFFICES ASSUME t \in Q[k]
                 PROVE  t \in P[k] \/ \E f \in P[k] \cap fired : t \in Below[Current(f)]
    OBVIOUS
  <2>0. k \in P[k]
    BY PathStep DEF PathSteps, P
  <2>2. CASE k = t
    BY <2>0, <2>2
  <2>3. CASE k # t
    <3>1. ~Leaf(k, {}) /\ t \in Q[Current(k)]
      BY <2>1, <2>3, PathStep DEF PathSteps, Q
    <3>2. CASE k \in fired
      <4>1. t \in Below[Current(k)]
        BY <3>1, CurrentIsKid, PathBelow DEF Q
      <4> QED BY <4>1, <3>2, <2>0
    <3>3. CASE k \notin fired
      <4>1. ~Leaf(k, fired)
        BY <3>1, <3>3 DEF Leaf
      <4>2. P[k] = {k} \cup P[Current(k)]
        BY <4>1, PathStep DEF PathSteps, P
      <4>3. Current(k) \in G
        BY <3>1, <1>1, CurrentIsKid DEF Current
      <4> QED BY <3>1, <4>2, <4>3
    <3> QED BY <3>2, <3>3
  <2> QED BY <2>2, <2>3
<1>2. G = Nodes
  <2> HIDE DEF G
  <2>1. G \in SUBSET Nodes
    BY DEF G
  <2> QED BY <1>1, <2>1, TreeInduction
<1> QED BY <1>2 DEF P, Q

\* A condition that holds only cuts the path off.
LEMMA PathShortens ==
    ASSUME IndexOK, NEW fired, NEW n \in Nodes
    PROVE  PathFrom(fired)[n] \subseteq PathFrom({})[n]
<1> DEFINE P == PathFrom(fired)
           Q == PathFrom({})
           G == {k \in Nodes : P[k] \subseteq Q[k]}
<1> HIDE DEF P, Q
<1>1. ASSUME NEW k \in Nodes, \A i \in DOMAIN Kids[k] : Kids[k][i] \in G
      PROVE  k \in G
  <2>1. CASE Leaf(k, fired)
    BY <2>1, PathStep DEF PathSteps, P, Q
  <2>2. CASE ~Leaf(k, fired)
    <3>1. ~Leaf(k, {})
      BY <2>2 DEF Leaf
    <3>2. P[k] = {k} \cup P[Current(k)] /\ Q[k] = {k} \cup Q[Current(k)]
      BY <2>2, <3>1, PathStep DEF PathSteps, P, Q
    <3>3. Current(k) \in G
      BY <2>2, <1>1, CurrentIsKid DEF Current
    <3> QED BY <3>2, <3>3
  <2> QED BY <2>1, <2>2
<1>2. G = Nodes
  <2> HIDE DEF G
  <2>1. G \in SUBSET Nodes
    BY DEF G
  <2> QED BY <1>1, <2>1, TreeInduction
<1> QED BY <1>2 DEF P, Q

\* A sequence above a node of the path is at the child that the path goes through.
LEMMA PathIsCurrent ==
    ASSUME IndexOK, NEW n \in Nodes, NEW t \in PathFrom({})[n],
           NEW m \in Below[n], NEW i \in DOMAIN Kids[m], t \in Below[Kids[m][i]]
    PROVE  i = index[m] + 1
<1> DEFINE Q == PathFrom({})
           G == {k \in Nodes : t \in Q[k] =>
                   \A l \in Below[k] : \A j \in DOMAIN Kids[l] :
                      t \in Below[Kids[l][j]] => j = index[l] + 1}
<1> HIDE DEF Q
<1>1. ASSUME NEW k \in Nodes, \A j \in DOMAIN Kids[k] : Kids[k][j] \in G
      PROVE  k \in G
  <2>1. SUFFICES ASSUME t \in Q[k], NEW l \in Below[k], NEW j \in DOMAIN Kids[l],
                        t \in Below[Kids[l][j]]
                 PROVE  j = index[l] + 1
    OBVIOUS
  <2>2. l \in Nodes /\ Kids[l][j] \in Nodes
    BY BelowNodes, KidIsNode
  <2>3. t \in Below[l]
    BY <2>1, <2>2, BelowStep
  <2>4. t # k
    <3>1. SUFFICES ASSUME t = k PROVE FALSE
      OBVIOUS
    <3>2. CASE l = k
      BY <2>1, <3>1, <3>2, NoCycle
    <3>3. CASE l # k
      <4>1. PICK x \in DOMAIN Kids[k] : l \in Below[Kids[k][x]]
        BY <3>3, BelowStep
      <4>2. Below[l] \subseteq Below[Kids[k][x]]
        BY <4>1, KidIsNode, BelowTransitive
      <4> QED BY <2>3, <3>1, <4>2, NoCycle
    <3> QED BY <3>2, <3>3
  <2>5. ~Leaf(k, {}) /\ t \in Q[Current(k)]
    BY <2>1, <2>4, PathStep DEF PathSteps, Q
  <2>6. /\ index[k] + 1 \in DOMAIN Kids[k] /\ Current(k) \in Nodes
        /\ t \in Below[Current(k)]
    BY <2>5, CurrentIsKid, PathBelow DEF Q
  <2>7. CASE l = k
    BY <2>1, <2>6, <2>7, SiblingsApart DEF Current
  <2>8. CASE l # k
    <3>1. PICK x \in DOMAIN Kids[k] : l \in Below[Kids[k][x]]
      BY <2>8, BelowStep
    <3>2. t \in Below[Kids[k][x]]
      BY <2>3, <3>1, KidIsNode, BelowTransitive
    <3>3. x = index[k] + 1
      BY <2>6, <3>2, SiblingsApart DEF Current
    <3>4. Current(k) \in G /\ l \in Below[Current(k)]
      BY <1>1, <3>1, <3>3 DEF Current
    <3> QED BY <2>1, <2>5, <3>4
  <2> QED BY <2>7, <2>8
<1>2. G = Nodes
  <2> HIDE DEF G
  <2>1. G \in SUBSET Nodes
    BY DEF G
  <2> QED BY <1>1, <2>1, TreeInduction
<1>3. n \in G /\ t \in Q[n]
  BY <1>2 DEF Q
<1> QED BY <1>3

-----------------------------------------------------------------------------
(* Which task waits and where the sequences are.                           *)

RunsAccepted == status = "running" => plan \in Accepted

\* Only a sequence moves on from its first child.
OthersAtFirst == \A n \in Nodes : Kind[n] # "sequence" => index[n] = 0

\* A handle that does not exist waits for nothing.
NoneIsIdle == \A n \in Nodes : handle[n].phase = "none" => handle[n].goal = Failed

\* Only the task that the next tick comes to waits for a goal.
WaitsOnPath ==
    \A n \in Nodes : Unresolved(n) => /\ status = "running"
                                      /\ Kind[n] = "task"
                                      /\ n \in Path({})

\* A sequence above n has gone on past the child that n is below.
Behind(n) ==
    \E m \in Below[Root[plan]] \cap NodesOf("sequence") : \E i \in DOMAIN Kids[m] :
        i <= index[m] /\ n \in Below[Kids[m][i]]

\* A sequence that has come to its end is not ticked again.
EndedIsBehind ==
    status = "running" =>
        \A n \in Below[Root[plan]] \cap NodesOf("sequence") :
            index[n] >= Len(Kids[n]) => Behind(n)

WalkInv ==
    /\ IInv /\ RunsAccepted /\ OthersAtFirst /\ NoneIsIdle /\ WaitsOnPath /\ EndedIsBehind

\* The same of the path after a step.
LEMMA PathStepNext == IndexOK' => PathSteps({})'
<1>1. IndexOK => PathSteps({})
  BY PathStep
<1> QED BY <1>1, PTL

\* A step that moves no sequence leaves the path where it was.
LEMMA PathStays ==
    ASSUME IndexOK, index' = index, NEW n \in Nodes, NEW t \in PathFrom({})[n]
    PROVE  t \in PathFrom({})'[n]
<1> DEFINE P == PathFrom({})
           Q == PathFrom({})'
           G == {k \in Nodes : t \in P[k] => t \in Q[k]}
<1>0. PathSteps({}) /\ PathSteps({})'
  BY PathStep, PathStepNext DEF IndexOK
<1>1. ASSUME NEW k \in Nodes, \A i \in DOMAIN Kids[k] : Kids[k][i] \in G
      PROVE  k \in G
  <2>1. SUFFICES ASSUME t \in P[k] PROVE t \in Q[k]
    OBVIOUS
  <2>2. Leaf(k, {})' = Leaf(k, {}) /\ Current(k)' = Current(k)
    BY DEF Leaf, Current
  <2>3. CASE Leaf(k, {})
    <3>1. P[k] = {k} /\ k \in Q[k]
      BY <2>3, <1>0 DEF PathSteps
    <3> QED BY <2>1, <3>1
  <2>4. CASE ~Leaf(k, {})
    <3>1. P[k] = {k} \cup P[Current(k)]
      BY <2>4, <1>0 DEF PathSteps
    <3>2. Q[k] = {k} \cup Q[Current(k)]
      BY <2>4, <2>2, <1>0 DEF PathSteps
    <3>3. Current(k) \in G
      BY <2>4, <1>1, CurrentIsKid DEF Current
    <3> HIDE DEF P, Q
    <3> QED BY <2>1, <3>1, <3>2, <3>3
  <2> QED BY <2>3, <2>4
<1>2. G = Nodes
  <2> HIDE DEF G
  <2>1. G \in SUBSET Nodes
    BY DEF G
  <2> QED BY <1>1, <2>1, TreeInduction
<1> QED BY <1>2

\* A plan that runs is valid.
LEMMA RootIsNode ==
    ASSUME WalkInv, status = "running"
    PROVE  plan \in Accepted /\ Root[plan] \in Nodes
BY PlansAssumption DEF WalkInv, RunsAccepted, Accepted

\* Callbacks that let no task wait that did not wait, and leave the tree alone.
LEMMA QuietKeeps ==
    ASSUME WalkInv, UNCHANGED <<plan, status, index>>,
           \A n \in Nodes : handle'[n].goal \in GoalIds => handle[n].goal \in GoalIds
    PROVE  RunsAccepted' /\ OthersAtFirst' /\ WaitsOnPath' /\ EndedIsBehind'
<1>1. RunsAccepted' /\ OthersAtFirst'
  BY DEF WalkInv, RunsAccepted, OthersAtFirst
<1>2. WaitsOnPath'
  <2>1. SUFFICES ASSUME NEW n \in Nodes, handle'[n].goal \in GoalIds
                 PROVE  status = "running" /\ Kind[n] = "task" /\ n \in Path({})'
    BY DEF WaitsOnPath, Unresolved
  <2>2. status = "running" /\ Kind[n] = "task" /\ n \in Path({})
    BY <2>1 DEF WalkInv, WaitsOnPath, Unresolved
  <2>3. Root[plan] \in Nodes
    BY <2>2, RootIsNode
  <2>4. n \in PathFrom({})'[Root[plan]]
    BY <2>2, <2>3, PathStays DEF Path, WalkInv, IInv, TypeOK, IndexOK
  <2> QED BY <2>2, <2>4 DEF Path
<1>3. EndedIsBehind'
  BY DEF WalkInv, EndedIsBehind, Behind
<1> QED BY <1>1, <1>2, <1>3

\* What a tick does to the handles and the indices.
TickEffect(fired, sends, ready, hs, reset, adv) ==
    /\ IndexOK
    /\ fired \in SUBSET (Path({}) \cap NodesOf("run_until"))
    /\ sends = {n \in Path(fired) \cap Tasks : Sends(n)}
    /\ hs = [n \in Nodes |-> IF n \in sends THEN HandleAfterSend(n, ready) ELSE handle[n]]
    /\ reset = Resets(Path(fired), TickNode(hs, fired), fired)
    /\ adv = Advances(Path(fired), TickNode(hs, fired))
    /\ status' = TickNode(hs, fired)[Root[plan]]
    /\ index' = [n \in Nodes |-> IF n \in reset THEN 0
                                 ELSE IF n \in adv THEN index[n] + 1 ELSE index[n]]
    /\ handle' = Erase(hs, reset)
    /\ plan' = plan

\* After a tick only the task on the path waits: either it is the one that waited, and
\* nothing has moved, or none is left.
LEMMA TickWaits ==
    ASSUME WalkInv, status = "running", NEW fired, NEW sends, NEW ready, NEW hs, NEW reset,
           NEW adv, TickEffect(fired, sends, ready, hs, reset, adv)
    PROVE  WaitsOnPath'
<1> USE DEF TickEffect
<1> DEFINE root == Root[plan]
           R == TickNode(hs, fired)
<1>1. SUFFICES ASSUME NEW n \in Nodes, handle'[n].goal \in GoalIds
               PROVE  status' = "running" /\ Kind[n] = "task" /\ n \in Path({})'
  BY DEF WaitsOnPath, Unresolved
<1>0. root \in Nodes /\ IndexOK
  BY RootIsNode
<1>2. n \notin reset /\ hs[n].goal \in GoalIds
  BY <1>1 DEF Erase, NoHandle, Failed, GoalIds
<1>3. Kind[n] = "task" /\ n \in PathFrom(fired)[root]
  <2>1. CASE n \in sends
    BY <2>1 DEF Tasks, NodesOf, Path
  <2>2. CASE n \notin sends
    <3>1. handle[n].goal \in GoalIds
      BY <1>2, <2>2
    <3>2. Kind[n] = "task" /\ n \in PathFrom({})[root]
      BY <3>1 DEF WalkInv, WaitsOnPath, Unresolved, Path
    <3>3. \A f \in PathFrom(fired)[root] \cap fired : n \notin Below[Current(f)]
      BY <1>2 DEF Resets, Path
    <3> QED BY <1>0, <3>2, <3>3, CutOrSame
  <2> QED BY <2>1, <2>2
<1>4. Poll(hs[n]) = "running"
  BY <1>2 DEF Poll, GoalIds, Failed, Succeeded
<1>5. Leaf(n, fired)
  <2>1. Len(Kids[n]) = 0
    BY <1>3, TreeAssumption
  <2> QED BY <2>1 DEF Leaf, IndexOK
<1>6. status' = "running"
  BY <1>0, <1>3, <1>4, RunningUp
<1>7. ASSUME NEW m \in PathFrom(fired)[root], m # n
      PROVE  m \in Nodes /\ ~Leaf(m, fired) /\ R[Current(m)] = "running"
  <2>1. m \in Nodes
    BY <1>0, PathBelow, BelowNodes
  <2>2. n \in PathFrom(fired)[m]
    BY <1>0, <1>3, <1>5, LeafOfRest
  <2>3. ~Leaf(m, fired)
    BY <1>0, <1>3, <1>5, <1>7, OneLeaf
  <2>4. n \in PathFrom(fired)[Current(m)]
    BY <1>7, <2>1, <2>2, <2>3, PathStep DEF PathSteps
  <2> QED BY <2>1, <2>3, <2>4, <1>3, <1>4, CurrentIsKid, RunningUp
<1>8. reset = {}
  <2>1. ASSUME NEW m \in PathFrom(fired)[root], Kind[m] = "retry"
        PROVE  R[Current(m)] # "failure"
    BY <1>3, <1>7, <2>1
  <2>2. ASSUME NEW m \in PathFrom(fired)[root] PROVE m \notin fired
    <3>1. CASE m = n
      BY <1>3, <3>1 DEF NodesOf
    <3>2. CASE m # n
      BY <1>7, <3>2 DEF Leaf
    <3> QED BY <3>1, <3>2
  <2> HIDE DEF R
  <2> QED BY <2>1, <2>2 DEF Resets, ResetsRetryOnly, Path, NodesOf, R
<1>9. adv = {}
  <2>1. ASSUME NEW m \in PathFrom(fired)[root], Kind[m] = "sequence"
        PROVE  R[Current(m)] # "success"
    BY <1>3, <1>7, <2>1
  <2> HIDE DEF R
  <2> QED BY <2>1 DEF Advances, Path, NodesOf, R
<1>10. index' = index
  <2>1. index = [k \in Nodes |-> index[k]]
    BY DEF IndexOK
  <2> QED BY <1>8, <1>9, <2>1
<1>11. n \in PathFrom({})[root]
  BY <1>0, <1>3, PathShortens
<1>12. n \in PathFrom({})'[root]
  BY <1>0, <1>10, <1>11, PathStays
<1> QED BY <1>3, <1>6, <1>12 DEF Path

\* A sequence that a tick takes to its end is behind another, or the plan has ended.
LEMMA TickEnds ==
    ASSUME WalkInv, status = "running", NEW fired, NEW sends, NEW ready, NEW hs, NEW reset,
           NEW adv, TickEffect(fired, sends, ready, hs, reset, adv)
    PROVE  OthersAtFirst' /\ EndedIsBehind'
<1> USE DEF TickEffect
<1> DEFINE root == Root[plan]
           R == TickNode(hs, fired)
<1>0. root \in Nodes /\ IndexOK /\ plan \in Accepted
  BY RootIsNode
<1>1. OthersAtFirst'
  BY DEF WalkInv, OthersAtFirst, Advances, NodesOf
<1>2. ASSUME NEW m \in PathFrom(fired)[root], Kind[m] \in {"retry", "run_until"}
      PROVE  Current(m) \in Nodes
  <2>1. m \in Nodes
    BY <1>0, PathBelow, BelowNodes
  <2>2. index[m] = 0 /\ Len(Kids[m]) = 1 /\ Kids[m] \in Seq(Nodes)
    BY <1>2, <2>1, TreeAssumption DEF WalkInv, OthersAtFirst
  <2> QED BY <2>2 DEF Current
<1>3. ASSUME NEW m \in Nodes, m \in reset PROVE Below[m] \subseteq reset
  <2>1. ASSUME NEW k \in PathFrom(fired)[root], Kind[k] \in {"retry", "run_until"},
               m \in Below[Current(k)]
        PROVE  Below[m] \subseteq Below[Current(k)]
    BY <1>2, <2>1, BelowTransitive
  <2> QED BY <1>3, <2>1 DEF Resets, ResetsRetryOnly, Path, NodesOf
<1>4. SUFFICES ASSUME status' = "running", NEW n \in Below[root], Kind[n] = "sequence",
                      index'[n] >= Len(Kids[n])
               PROVE  Behind(n)'
  BY <1>1 DEF EndedIsBehind, NodesOf
<1>5. n \in Nodes /\ Kids[n] \in Seq(Nodes)
  BY <1>0, BelowNodes, TreeAssumption
<1>6. n \notin reset
  <2>1. ~NodeError(n)
    BY <1>0, <1>4 DEF Accepted
  <2>2. Len(Kids[n]) > 0
    BY <1>4, <1>5, <2>1 DEF NodeError
  <2> QED BY <1>4, <1>5, <2>2
<1>7. ASSUME NEW m \in Below[root], Kind[m] = "sequence", NEW i \in DOMAIN Kids[m],
             n \in Below[Kids[m][i]]
      PROVE  m \in Nodes /\ m \notin reset
  <2>1. m \in Nodes
    BY <1>0, BelowNodes
  <2>2. n \in Below[m]
    BY <1>7, <2>1, BelowStep
  <2> QED BY <1>3, <1>6, <2>1, <2>2
<1>8. CASE index[n] >= Len(Kids[n])
  <2>1. Behind(n)
    BY <1>4, <1>5, <1>8 DEF WalkInv, EndedIsBehind, NodesOf
  <2>0. PICK m \in Below[root] \cap NodesOf("sequence") :
          \E i \in DOMAIN Kids[m] : i <= index[m] /\ n \in Below[Kids[m][i]]
    BY <2>1 DEF Behind
  <2>2. PICK i \in DOMAIN Kids[m] :
          m \in Nodes /\ Kind[m] = "sequence" /\ i <= index[m] /\ n \in Below[Kids[m][i]]
    BY <2>0 DEF NodesOf
  <2>3. m \notin reset
    BY <1>7, <2>2
  <2>4. index'[m] \in Nat /\ index[m] \in Nat /\ index'[m] >= index[m]
    BY <2>2, <2>3 DEF IndexOK
  <2>5. i \in Nat
    <3>1. Kids[m] \in Seq(Nodes)
      BY <2>2, TreeAssumption
    <3> QED BY <3>1
  <2> QED BY <2>2, <2>4, <2>5 DEF Behind, NodesOf
<1>9. CASE index[n] < Len(Kids[n])
  <2>1. n \in adv
    BY <1>4, <1>5, <1>6, <1>9 DEF IndexOK
  <2>2. n \in PathFrom(fired)[root] /\ R[Current(n)] = "success"
    BY <2>1 DEF Advances, Path
  <2>3. index'[n] = index[n] + 1
    BY <1>5, <1>6, <2>1
  <2>4. SequenceEnds(n)
    BY <1>4, <2>3 DEF SequenceEnds
  <2>5. ~Leaf(n, fired)
    BY <1>4, <1>5, <1>9 DEF Leaf, NodesOf, IndexOK
  <2>6. R[n] = "success"
    <3>1. R[n] = Handed(hs, fired, n, R[Current(n)])
      BY <1>0, <1>5, TickNodeStep
    <3> HIDE DEF R
    <3> QED BY <3>1, <1>4, <2>2, <2>4, <2>5 DEF Handed
  <2>7. R[root] # "success"
    BY <1>4
  <2>8. PICK p \in PathFrom(fired)[root] :
           /\ Kind[p] = "sequence" /\ ~Leaf(p, fired)
           /\ R[Current(p)] = "success" /\ n \in Below[Current(p)]
    BY <1>0, <1>5, <2>2, <2>6, <2>7, SuccessUp
  <2>9. p \in Below[root] /\ p \in Nodes
    BY <1>0, PathBelow, BelowNodes
  <2>10. index[p] + 1 \in DOMAIN Kids[p] /\ index[p] \in Nat /\ index[p] < Len(Kids[p])
    BY <1>0, <2>8, <2>9, CurrentIsKid DEF Leaf, IndexOK
  <2>11. p \notin reset
    BY <1>7, <2>8, <2>9, <2>10 DEF Current
  <2>12. p \in adv
    BY <2>8, <2>9, <2>10 DEF Advances, Path, NodesOf
  <2>13. index'[p] = index[p] + 1
    BY <2>9, <2>11, <2>12
  <2> QED BY <2>8, <2>9, <2>10, <2>13 DEF Behind, NodesOf, Current
<1>10. index[n] \in Nat /\ Len(Kids[n]) \in Nat
  BY <1>5 DEF IndexOK
<1> QED BY <1>8, <1>9, <1>10

\* A tick has such an effect, and a handle waits for a goal only once it exists.
LEMMA TickHasEffect ==
    ASSUME WalkInv, NEW fired \in SUBSET (Path({}) \cap NodesOf("run_until")), NEW sends,
           sends = {n \in Path(fired) \cap Tasks : Sends(n)}, NEW ready,
           TickWith(fired, sends, ready)
    PROVE  \E hs, reset, adv : TickEffect(fired, sends, ready, hs, reset, adv)
<1> DEFINE hs == [n \in Nodes |-> IF n \in sends THEN HandleAfterSend(n, ready) ELSE handle[n]]
           reset == Resets(Path(fired), TickNode(hs, fired), fired)
           adv == Advances(Path(fired), TickNode(hs, fired))
<1>1. /\ status' = TickNode(hs, fired)[Root[plan]]
      /\ index' = [n \in Nodes |-> IF n \in reset THEN 0
                                   ELSE IF n \in adv THEN index[n] + 1 ELSE index[n]]
      /\ handle' = Erase(hs, reset)
      /\ plan' = plan
  BY DEF TickWith
<1>2. IndexOK
  BY DEF WalkInv, IInv, TypeOK, IndexOK
<1>3. TickEffect(fired, sends, ready, hs, reset, adv)
  <2>1. hs = [n \in Nodes |-> IF n \in sends THEN HandleAfterSend(n, ready) ELSE handle[n]]
        /\ reset = Resets(Path(fired), TickNode(hs, fired), fired)
        /\ adv = Advances(Path(fired), TickNode(hs, fired))
    OBVIOUS
  <2> HIDE DEF hs, reset, adv
  <2> QED BY <1>1, <1>2, <2>1 DEF TickEffect
<1> HIDE DEF hs, reset, adv
<1> QED BY <1>3

\* A tick keeps the invariant.
LEMMA TickKeeps == ASSUME WalkInv, Tick PROVE WalkInv'
<1>1. status = "running"
  BY DEF Tick
<1>A. PICK fired \in SUBSET (Path({}) \cap NodesOf("run_until")) :
        \E sends \in {{n \in Path(fired) \cap Tasks : Sends(n)}} :
           \E ready : TickWith(fired, sends, ready)
  BY DEF Tick
<1>B. PICK sends \in {{n \in Path(fired) \cap Tasks : Sends(n)}} :
        \E ready : TickWith(fired, sends, ready)
  BY <1>A
<1>2. PICK ready : TickWith(fired, sends, ready)
  BY <1>B
<1>3. PICK hs, reset, adv : TickEffect(fired, sends, ready, hs, reset, adv)
  BY <1>2, TickHasEffect
<1>4. WaitsOnPath' /\ OthersAtFirst' /\ EndedIsBehind'
  BY <1>1, <1>3, TickWaits, TickEnds
<1>5. RunsAccepted'
  BY <1>1, <1>3 DEF TickEffect, WalkInv, RunsAccepted
<1>6. NoneIsIdle'
  BY <1>3 DEF TickEffect, WalkInv, NoneIsIdle, Erase, NoHandle, HandleAfterSend, Failed
<1>7. IInv'
  <2>1. Next
    BY DEF Next
  <2> QED BY <2>1, Inductive DEF WalkInv
<1> QED BY <1>4, <1>5, <1>6, <1>7 DEF WalkInv

\* The end of a goal lets no task wait that did not wait.
LEMMA EndsKeeps ==
    ASSUME WalkInv, IInv', NEW g \in GoalIds, NEW outcome \in {Failed, Succeeded},
           Ends(g, outcome)
    PROVE  WalkInv'
<1>1. ASSUME NEW n \in Nodes
      PROVE  /\ handle'[n].goal \in GoalIds => handle[n].goal \in GoalIds
             /\ handle'[n].phase = handle[n].phase
             /\ handle'[n].goal = handle[n].goal \/ handle[n].goal = g
  <2>1. handle[n] \in Handle
    BY DEF WalkInv, IInv, TypeOK
  <2>2. handle'[n] = IF handle[n].goal = g THEN [handle[n] EXCEPT !.goal = outcome] ELSE handle[n]
    BY DEF Ends
  <2> QED BY <2>1, <2>2 DEF Handle, GoalIds, Failed, Succeeded
<1>2. NoneIsIdle'
  BY <1>1 DEF WalkInv, NoneIsIdle, GoalIds, Failed
<1> QED BY <1>1, <1>2, QuietKeeps DEF Ends, WalkInv

\* So does every callback.
LEMMA WalkInductive == ASSUME WalkInv, [Next]_vars PROVE WalkInv'
<1>0. IInv'
  BY Inductive DEF WalkInv
<1>Q. ASSUME UNCHANGED <<plan, status, index, handle>> PROVE WalkInv'
  BY <1>0, <1>Q, QuietKeeps DEF WalkInv, NoneIsIdle
<1>1. ASSUME NEW p \in Plans, OnUpload(p) PROVE WalkInv'
  BY <1>1, <1>Q DEF OnUpload, Stage
<1>2. ASSUME NEW p \in Plans, OnStart(p) PROVE WalkInv'
  <2>1. /\ plan' = p /\ pending = p
        /\ index' = [n \in Nodes |-> 0] /\ handle' = [n \in Nodes |-> NoHandle]
    BY <1>2 DEF OnStart, NewExecutor
  <2>2. RunsAccepted'
    BY <2>1, PlansAssumption DEF WalkInv, IInv, TypeOK, RunsAccepted, Accepted
  <2>3. OthersAtFirst' /\ NoneIsIdle' /\ WaitsOnPath'
    BY <2>1 DEF OthersAtFirst, NoneIsIdle, WaitsOnPath, Unresolved, NoHandle, Failed, GoalIds
  <2>4. EndedIsBehind'
    <3>1. p \in Accepted /\ Root[p] \in Nodes
      BY <2>1, PlansAssumption DEF WalkInv, IInv, TypeOK, Accepted
    <3>2. ASSUME NEW n \in Below[Root[p]], Kind[n] = "sequence" PROVE 0 < Len(Kids[n])
      <4>1. n \in Nodes /\ ~NodeError(n)
        BY <3>1, BelowNodes DEF Accepted
      <4> QED BY <3>2, <4>1, TreeAssumption DEF NodeError
    <3>3. ASSUME NEW n \in Below[Root[p]], Kind[n] = "sequence" PROVE index'[n] = 0
      BY <2>1, <3>1, BelowNodes
    <3>4. ASSUME NEW n \in Below[Root[p]], Kind[n] = "sequence"
          PROVE  ~(index'[n] >= Len(Kids[n]))
      <4>1. Len(Kids[n]) \in Nat
        BY <3>1, BelowNodes, TreeAssumption
      <4> QED BY <3>2, <3>3, <3>4, <4>1
    <3> QED BY <2>1, <3>4 DEF EndedIsBehind, NodesOf
  <2> QED BY <1>0, <2>2, <2>3, <2>4 DEF WalkInv
<1>3. ASSUME NEW p \in Plans, OnAbort(p) PROVE WalkInv'
  <2> DEFINE S == Below[Root[plan]]
  <2>1. /\ handle' = Erase(handle, S) /\ status = "running" /\ status' = "failure"
        /\ index' = [n \in Nodes |-> IF n \in S THEN 0 ELSE index[n]]
    BY <1>3 DEF OnAbort
  <2>2. WaitsOnPath'
    <3>1. SUFFICES ASSUME NEW n \in Nodes, handle'[n].goal \in GoalIds PROVE FALSE
      BY DEF WaitsOnPath, Unresolved
    <3>2. n \notin S /\ handle[n].goal \in GoalIds
      <4> HIDE DEF S
      <4> QED BY <2>1, <3>1 DEF Erase, NoHandle, Failed, GoalIds
    <3>3. n \in PathFrom({})[Root[plan]]
      BY <3>2 DEF WalkInv, WaitsOnPath, Unresolved, Path
    <3>4. n \in S
      BY <2>1, <3>3, RootIsNode, PathBelow DEF WalkInv, IInv, TypeOK, IndexOK
    <3> QED BY <3>2, <3>4
  <2>3. RunsAccepted' /\ EndedIsBehind'
    BY <2>1 DEF RunsAccepted, EndedIsBehind
  <2>4. OthersAtFirst' /\ NoneIsIdle'
    <3> HIDE DEF S
    <3> QED BY <2>1 DEF WalkInv, OthersAtFirst, NoneIsIdle, Erase, NoHandle
  <2> QED BY <1>0, <2>2, <2>3, <2>4 DEF WalkInv
<1>5. ASSUME NEW g \in GoalIds, GoalResponse(g) PROVE WalkInv'
  BY <1>0, <1>5, <1>Q, EndsKeeps DEF GoalResponse
<1>6. ASSUME NEW g \in GoalIds, Result(g) PROVE WalkInv'
  BY <1>0, <1>6, EndsKeeps DEF Result
<1>7. ASSUME NEW g \in GoalIds, ServerAnswers(g) \/ ServerResolves(g) PROVE WalkInv'
  BY <1>7, <1>Q DEF ServerAnswers, ServerResolves, ServerStep
<1>8. CASE TelemetryStatus
  BY <1>8, <1>Q DEF TelemetryStatus
<1>9. CASE UNCHANGED vars
  BY <1>9, <1>Q DEF vars
<1>10. CASE \E p \in Plans : OnUpload(p) \/ OnStart(p) \/ OnAbort(p)
  BY <1>10, <1>1, <1>2, <1>3
<1>11. CASE \E g \in GoalIds : \/ GoalResponse(g) \/ Result(g)
                              \/ ServerAnswers(g) \/ ServerResolves(g)
  BY <1>11, <1>5, <1>6, <1>7
<1> QED BY TickKeeps, <1>8, <1>9, <1>10, <1>11 DEF Next

\* It holds before the first plan.
LEMMA WalkInitial == Init => WalkInv
<1>1. SUFFICES ASSUME Init PROVE WalkInv
  OBVIOUS
<1>2. IInv
  BY <1>1, InitialState
<1>3. /\ index = [n \in Nodes |-> 0] /\ status = "success"
      /\ handle = [n \in Nodes |-> NoHandle]
  BY <1>1 DEF Init
<1> QED BY <1>2, <1>3 DEF WalkInv, RunsAccepted, OthersAtFirst, NoneIsIdle, WaitsOnPath,
             EndedIsBehind, Unresolved, NoHandle, Failed, GoalIds

\* It holds always.
LEMMA WalkInvariant == Spec => []WalkInv
BY WalkInitial, WalkInductive, PTL DEF Spec

\* The interpreter never reads past the children of a sequence, however sequences,
\* retries and run_untils are nested (SequenceNode in PlanExecutor::tick_node).
THEOREM SequencesStayInRange == Spec => []IndexInRange
<1>1. ASSUME WalkInv PROVE IndexInRange
  <2>1. SUFFICES ASSUME status = "running", NEW n \in Path({}), Kind[n] = "sequence",
                        ~(index[n] < Len(Kids[n]))
                 PROVE  FALSE
    BY DEF IndexInRange
  <2>2. Root[plan] \in Nodes /\ IndexOK
    BY <1>1, <2>1, RootIsNode DEF WalkInv, IInv, TypeOK, IndexOK
  <2>3. n \in Below[Root[plan]] /\ n \in Nodes
    BY <2>1, <2>2, PathBelow, BelowNodes DEF Path
  <2>4. index[n] >= Len(Kids[n])
    BY <2>1, <2>2, <2>3, TreeAssumption DEF IndexOK
  <2>5. Behind(n)
    BY <1>1, <2>1, <2>3, <2>4 DEF WalkInv, EndedIsBehind, NodesOf
  <2>6. PICK m \in Below[Root[plan]] \cap NodesOf("sequence") :
          \E i \in DOMAIN Kids[m] : i <= index[m] /\ n \in Below[Kids[m][i]]
    BY <2>5 DEF Behind
  <2>7. PICK i \in DOMAIN Kids[m] : i <= index[m] /\ n \in Below[Kids[m][i]]
    BY <2>6
  <2>8. i = index[m] + 1
    BY <2>1, <2>2, <2>6, <2>7, PathIsCurrent DEF Path
  <2>9. index[m] \in Nat
    BY <2>2, <2>6 DEF IndexOK, NodesOf
  <2> QED BY <2>7, <2>8, <2>9
<1> QED BY <1>1, WalkInvariant, PTL

\* The vehicle is never given two commands by two live tasks of a plan, and none by a
\* plan that has ended (PlanExecutor::tick_node, reset_node and abort).
THEOREM OneTaskAtATime == Spec => []OneTaskWaits
<1>1. ASSUME WalkInv PROVE OneTaskWaits
  <2>1. SUFFICES ASSUME NEW m \in Nodes, NEW n \in Nodes, Unresolved(m), Unresolved(n)
                 PROVE  m = n /\ status = "running"
    BY DEF OneTaskWaits
  <2>2. /\ status = "running" /\ Kind[m] = "task" /\ Kind[n] = "task"
        /\ m \in PathFrom({})[Root[plan]] /\ n \in PathFrom({})[Root[plan]]
    BY <1>1, <2>1 DEF WalkInv, WaitsOnPath, Path
  <2>3. Root[plan] \in Nodes /\ IndexOK
    BY <1>1, <2>2, RootIsNode DEF WalkInv, IInv, TypeOK, IndexOK
  <2>4. Len(Kids[m]) = 0 /\ Len(Kids[n]) = 0
    BY <2>2, TreeAssumption
  <2>5. Leaf(m, {}) /\ Leaf(n, {})
    BY <2>3, <2>4 DEF Leaf, IndexOK
  <2> QED BY <2>2, <2>3, <2>5, OneLeaf
<1> QED BY <1>1, WalkInvariant, PTL

\* A handle that is destroyed and waited for g asks for the cancellation of g.
LEMMA CancelAsks ==
    ASSUME NEW gs \in [GoalIds -> Goal], NEW hs, NEW S, NEW g \in GoalIds, NEW n \in S,
           hs[n].goal = g, Cancel(gs, hs, S)[g].known
    PROVE  Cancel(gs, hs, S)[g].asked
<1>1. gs[g] \in Goal
  OBVIOUS
<1>2. Cancel(gs, hs, S)[g] = IF gs[g].known THEN [gs[g] EXCEPT !.asked = TRUE] ELSE gs[g]
  BY DEF Cancel
<1> QED BY <1>1, <1>2

\* No goal that the client knows to be executing is left behind by a task that was reset,
\* without its cancellation (UAVCommandSkillHandle::cancel, called by reset_node).
THEOREM NothingIsAbandoned == Spec => NothingAbandoned
<1>1. ASSUME WalkInv, [Next]_vars, NEW g \in GoalIds, NEW n \in Nodes, handle[n].goal = g,
             \A m \in Nodes : handle'[m].goal # g, goals'[g].known
      PROVE  goals'[g].asked
  <2>1. Unresolved(n) /\ status = "running" /\ pending = NoPlan
    BY <1>1 DEF Unresolved, WalkInv, WaitsOnPath, IInv, StagedWhileIdle
  <2>2. goals \in [GoalIds -> Goal] /\ handle[n] \in Handle /\ handle[n].phase # "none"
    <3>1. goals \in [GoalIds -> Goal] /\ handle[n] \in Handle
      BY <1>1 DEF WalkInv, IInv, TypeOK
    <3>2. handle[n].goal # Failed
      BY <1>1 DEF Failed, GoalIds
    <3> QED BY <1>1, <3>1, <3>2 DEF WalkInv, NoneIsIdle
  <2>3. handle' # handle
    BY <1>1
  <2>4. ASSUME NEW p \in Plans PROVE ~OnUpload(p) /\ ~OnStart(p)
    BY <2>1, PlansAssumption DEF OnUpload, OnStart
  <2>5. ASSUME NEW p \in Plans, OnAbort(p) PROVE goals'[g].asked
    <3> DEFINE S == Below[Root[plan]]
    <3>1. handle' = Erase(handle, S) /\ goals' = Cancel(goals, handle, S)
      BY <2>5 DEF OnAbort
    <3> HIDE DEF S
    <3>2. n \in S
      BY <1>1, <3>1 DEF Erase
    <3> QED BY <1>1, <2>2, <3>1, <3>2, CancelAsks
  <2>6. CASE Tick
    <3>A. PICK fired :
            \E sends \in {{k \in Path(fired) \cap Tasks : Sends(k)}} :
               \E ready : TickWith(fired, sends, ready)
      BY <2>6 DEF Tick
    <3>B. PICK sends \in {{k \in Path(fired) \cap Tasks : Sends(k)}} :
            \E ready : TickWith(fired, sends, ready)
      BY <3>A
    <3>1. PICK ready : TickWith(fired, sends, ready)
      BY <3>B
    <3> DEFINE hs == [k \in Nodes |->
                        IF k \in sends THEN HandleAfterSend(k, ready) ELSE handle[k]]
               gs == IF sends # {} /\ ready THEN [goals EXCEPT ![Fresh] = Sent] ELSE goals
               reset == Resets(Path(fired), TickNode(hs, fired), fired)
    <3>2. handle' = Erase(hs, reset) /\ goals' = Cancel(gs, hs, reset)
          /\ (sends # {} => FreeIds # {})
      BY <3>1 DEF TickWith
    <3>3. n \notin sends
      BY <1>1, <2>2 DEF Sends, Poll, GoalIds, Failed, Succeeded
    <3>4. hs[n].goal = g
      BY <1>1, <3>3
    <3>5. gs \in [GoalIds -> Goal]
      <4>1. Sent \in Goal
        BY DEF Sent, Free, Goal, ServerStates
      <4>2. sends # {} => Fresh \in GoalIds
        BY <3>2, FreshType
      <4> HIDE DEF Goal, Sent, Fresh, GoalIds
      <4> QED BY <2>2, <4>1, <4>2
    <3> HIDE DEF hs, gs, reset
    <3>6. n \in reset
      BY <1>1, <3>2, <3>4 DEF Erase
    <3> QED BY <1>1, <3>2, <3>4, <3>5, <3>6, CancelAsks
  <2>7. ASSUME NEW h \in GoalIds, GoalResponse(h) \/ Result(h) PROVE FALSE
    <3>1. PICK outcome : Ends(h, outcome)
      BY <2>3, <2>7 DEF GoalResponse, Result
    <3>2. handle'[n] = IF handle[n].goal = h THEN [handle[n] EXCEPT !.goal = outcome]
                       ELSE handle[n]
      BY <3>1 DEF Ends
    <3>3. h = g
      BY <1>1, <3>2
    <3>4. goals'[g] = Free
      BY <2>2, <3>1, <3>3 DEF Ends
    <3>5. goals'[g].known = FALSE
      BY <3>4 DEF Free
    <3> QED BY <1>1, <3>5
  <2>8. ASSUME NEW h \in GoalIds, ServerAnswers(h) \/ ServerResolves(h) PROVE FALSE
    BY <2>3, <2>8 DEF ServerAnswers, ServerResolves, ServerStep
  <2>9. ~TelemetryStatus /\ ~UNCHANGED vars
    BY <2>3 DEF TelemetryStatus, vars
  <2> QED BY <1>1, <2>4, <2>5, <2>6, <2>7, <2>8, <2>9 DEF Next
<1>2. ASSUME WalkInv, [Next]_vars
      PROVE  \A g \in GoalIds :
                /\ \E n \in Nodes : handle[n].goal = g
                /\ \A n \in Nodes : handle'[n].goal # g
                /\ goals'[g].known
                => goals'[g].asked
  BY <1>1, <1>2
<1> QED BY <1>2, WalkInvariant, PTL DEF Spec, NothingAbandoned

-----------------------------------------------------------------------------
(* How often a run may start a task.                                       *)

\* There is one child that n is below.
LEMMA ChildAboveIs ==
    ASSUME NEW m \in Nodes, NEW n \in Below[m], n # m
    PROVE  \E i \in DOMAIN Kids[m] :
              /\ ChildAbove(m, n) = Kids[m][i]
              /\ n \in Below[Kids[m][i]]
              /\ \A j \in DOMAIN Kids[m] : n \in Below[Kids[m][j]] => j = i
<1> DEFINE i == CHOOSE j \in DOMAIN Kids[m] : n \in Below[Kids[m][j]]
<1>1. \E j \in DOMAIN Kids[m] : n \in Below[Kids[m][j]]
  BY BelowStep
<1>2. i \in DOMAIN Kids[m] /\ n \in Below[Kids[m][i]]
  BY <1>1
<1>3. ChildAbove(m, n) = Kids[m][i]
  BY DEF ChildAbove
<1> HIDE DEF i
<1> QED BY <1>2, <1>3, SiblingsApart

\* The child above n is the one to go on from.
LEMMA ChildAboveFacts ==
    ASSUME NEW m \in Nodes, NEW n \in Below[m], n # m
    PROVE  /\ ChildAbove(m, n) \in Nodes
           /\ ChildAbove(m, n) # m
           /\ Below[ChildAbove(m, n)] \subseteq Below[m]
           /\ m \notin Below[ChildAbove(m, n)]
           /\ n \in Below[ChildAbove(m, n)]
           /\ \A k \in Below[m] : k # m /\ n \in Below[k] => k \in Below[ChildAbove(m, n)]
<1> DEFINE c == ChildAbove(m, n)
<1>1. PICK i \in DOMAIN Kids[m] :
         /\ c = Kids[m][i]
         /\ n \in Below[Kids[m][i]]
         /\ \A j \in DOMAIN Kids[m] : n \in Below[Kids[m][j]] => j = i
  BY ChildAboveIs
<1> HIDE DEF c
<1>2. c \in Nodes /\ Below[c] \subseteq Below[m] /\ m \notin Below[c] /\ c # m
  BY <1>1, KidIsNode, BelowStep, NoCycle
<1>3. ASSUME NEW k \in Below[m], k # m, n \in Below[k] PROVE k \in Below[c]
  <2>1. PICK j \in DOMAIN Kids[m] : k \in Below[Kids[m][j]]
    BY <1>3, BelowStep
  <2>2. n \in Below[Kids[m][j]]
    BY <1>3, <2>1, KidIsNode, BelowTransitive
  <2> QED BY <1>1, <2>1, <2>2
<1> QED BY <1>1, <1>2, <1>3 DEF c

Factor(m) == IF Kind[m] = "retry" THEN Limit[m] ELSE 1
RoundStep(n, f, m) ==
    IF n = m \/ n \notin Below[m] THEN 1 ELSE Factor(m) * f[ChildAbove(m, n)]

\* The recursion of Rounds has a solution, for going down comes to an end.
LEMMA RoundsDef ==
    ASSUME NEW n \in Nodes
    PROVE  Rounds(n) = [m \in Nodes |-> RoundStep(n, Rounds(n), m)]
<1> DEFINE Good(f, k) == \A m \in Below[k] : n \in Below[m] => f[m] = RoundStep(n, f, m)
           Same == {k \in Nodes : n \in Below[k] =>
                      \A f, g \in [Nodes -> Int] : Good(f, k) /\ Good(g, k) => f[k] = g[k]}
           Some == {k \in Nodes : \E f \in [Nodes -> Int] : Good(f, k)}
           F == [k \in Nodes |-> IF n \notin Below[k] THEN 1
                                 ELSE (CHOOSE f \in [Nodes -> Int] : Good(f, k))[k]]
           Step(f) == [m \in Nodes |-> RoundStep(n, f, m)]
<1>0. \A m \in Nodes : Factor(m) \in Int
  BY TreeAssumption DEF Factor
<1>1. ASSUME NEW k \in Nodes, NEW f, Good(f, k), NEW c \in Nodes, Below[c] \subseteq Below[k]
      PROVE  Good(f, c)
  BY <1>1
<1>2. ASSUME NEW k \in Nodes, \A i \in DOMAIN Kids[k] : Kids[k][i] \in Same
      PROVE  k \in Same
  <2>1. SUFFICES ASSUME n \in Below[k], NEW f \in [Nodes -> Int], NEW g \in [Nodes -> Int],
                        Good(f, k), Good(g, k)
                 PROVE  f[k] = g[k]
    OBVIOUS
  <2>2. f[k] = RoundStep(n, f, k) /\ g[k] = RoundStep(n, g, k)
    BY <2>1, BelowStep
  <2>3. CASE n = k
    BY <2>2, <2>3 DEF RoundStep
  <2>4. CASE n # k
    <3> DEFINE c == ChildAbove(k, n)
    <3>1. c \in Nodes /\ Below[c] \subseteq Below[k] /\ n \in Below[c]
      BY <2>1, <2>4, ChildAboveFacts
    <3>2. c \in Same
      BY <1>2, <2>1, <2>4, ChildAboveIs
    <3>3. Good(f, c) /\ Good(g, c)
      <4> HIDE DEF Good, c
      <4> QED BY <1>1, <2>1, <3>1
    <3>4. f[c] = g[c]
      <4> HIDE DEF Good, c
      <4> QED BY <3>1, <3>2, <3>3
    <3> QED BY <2>1, <2>2, <2>4, <3>4 DEF RoundStep
  <2> QED BY <2>3, <2>4
<1>3. ASSUME NEW k \in Nodes, \A i \in DOMAIN Kids[k] : Kids[k][i] \in Some
      PROVE  k \in Some
  <2>1. CASE n \notin Below[k]
    <3>1. \A m \in Below[k] : n \notin Below[m]
      BY <2>1, BelowTransitive
    <3>2. [m \in Nodes |-> 1] \in [Nodes -> Int]
      OBVIOUS
    <3> QED BY <3>1, <3>2
  <2>2. CASE n = k
    <3>1. ASSUME NEW m \in Below[k], n \in Below[m] PROVE m = k
      <4>1. SUFFICES ASSUME m # k PROVE FALSE
        OBVIOUS
      <4>2. PICK i \in DOMAIN Kids[k] : m \in Below[Kids[k][i]]
        BY <4>1, BelowStep
      <4> QED BY <2>2, <3>1, <4>2, KidIsNode, BelowTransitive, NoCycle
    <3> DEFINE f == [m \in Nodes |-> 1]
    <3>2. f \in [Nodes -> Int] /\ f[k] = RoundStep(n, f, k)
      BY <2>2 DEF RoundStep
    <3> HIDE DEF f
    <3> QED BY <3>1, <3>2
  <2>3. CASE n # k /\ n \in Below[k]
    <3> DEFINE c == ChildAbove(k, n)
    <3>1. /\ c \in Nodes /\ c # k /\ Below[c] \subseteq Below[k] /\ n \in Below[c]
          /\ k \notin Below[c]
          /\ \A m \in Below[k] : m # k /\ n \in Below[m] => m \in Below[c]
      BY <2>3, ChildAboveFacts
    <3>2. c \in Some
      BY <1>3, <2>3, ChildAboveIs
    <3>3. PICK f \in [Nodes -> Int] : Good(f, c)
      BY <3>2
    <3> DEFINE g == [f EXCEPT ![k] = Factor(k) * f[c]]
    <3>4. g \in [Nodes -> Int]
      BY <1>0, <3>1
    <3>5. g[k] = RoundStep(n, g, k)
      BY <2>3, <3>1 DEF RoundStep
    <3>6. ASSUME NEW m \in Below[k], m # k, n \in Below[m] PROVE g[m] = RoundStep(n, g, m)
      <4>1. m \in Below[c] /\ m \in Nodes
        BY <3>1, <3>6, BelowNodes
      <4>2. g[m] = f[m] /\ f[m] = RoundStep(n, f, m)
        BY <3>3, <3>6, <4>1
      <4>3. CASE n = m
        BY <4>2, <4>3 DEF RoundStep
      <4>4. CASE n # m
        <5> DEFINE d == ChildAbove(m, n)
        <5>1. d \in Nodes /\ Below[d] \subseteq Below[m]
          BY <3>6, <4>1, <4>4, ChildAboveFacts
        <5>2. d \in Below[c]
          BY <3>1, <4>1, <5>1, BelowStep, BelowTransitive
        <5>3. d # k
          BY <3>1, <5>2
        <5> HIDE DEF d
        <5>4. g[d] = f[d]
          BY <5>1, <5>3
        <5> QED BY <3>6, <4>2, <4>4, <5>4 DEF RoundStep, d
      <4> QED BY <4>3, <4>4
    <3> HIDE DEF g
    <3>7. Good(g, k)
      BY <3>5, <3>6
    <3> HIDE DEF Good
    <3> QED BY <3>4, <3>7
  <2> QED BY <2>1, <2>2, <2>3
<1>4. Same = Nodes
  <2> HIDE DEF Same
  <2>1. Same \in SUBSET Nodes
    BY DEF Same
  <2> QED BY <1>2, <2>1, TreeInduction
<1>5. Some = Nodes
  <2> HIDE DEF Some
  <2>1. Some \in SUBSET Nodes
    BY DEF Some
  <2> QED BY <1>3, <2>1, TreeInduction
<1>6. ASSUME NEW k \in Nodes PROVE F[k] = RoundStep(n, F, k)
  <2>1. CASE n \notin Below[k]
    BY <2>1 DEF RoundStep
  <2>2. CASE n \in Below[k]
    <3> DEFINE f == CHOOSE h \in [Nodes -> Int] : Good(h, k)
    <3>1. f \in [Nodes -> Int] /\ Good(f, k)
      <4>1. \E h \in [Nodes -> Int] : Good(h, k)
        BY <1>5
      <4> HIDE DEF Good
      <4> QED BY <4>1
    <3>2. F[k] = f[k]
      <4> HIDE DEF Good
      <4> QED BY <2>2
    <3> HIDE DEF f, F
    <3>3. f[k] = RoundStep(n, f, k)
      BY <3>1, <2>2, BelowStep
    <3>4. CASE n = k
      BY <3>2, <3>3, <3>4 DEF RoundStep
    <3>5. CASE n # k
      <4> DEFINE c == ChildAbove(k, n)
                 g == CHOOSE h \in [Nodes -> Int] : Good(h, c)
      <4>1. c \in Nodes /\ Below[c] \subseteq Below[k] /\ n \in Below[c]
        BY <2>2, <3>5, ChildAboveFacts
      <4> HIDE DEF c
      <4>2. g \in [Nodes -> Int] /\ Good(g, c)
        <5>1. \E h \in [Nodes -> Int] : Good(h, c)
          BY <1>5, <4>1
        <5> HIDE DEF Good
        <5> QED BY <5>1
      <4>3. F[c] = g[c]
        <5> HIDE DEF Good
        <5> QED BY <4>1 DEF F
      <4> HIDE DEF g
      <4>4. f[c] = g[c]
        <5>1. Good(f, c)
          <6> HIDE DEF Good
          <6> QED BY <1>1, <3>1, <4>1
        <5>2. c \in Same
          <6> HIDE DEF Same
          <6> QED BY <1>4, <4>1
        <5> HIDE DEF Good
        <5> QED BY <3>1, <4>1, <4>2, <5>1, <5>2
      <4> QED BY <2>2, <3>2, <3>3, <3>5, <4>3, <4>4 DEF RoundStep, c
    <3> QED BY <3>4, <3>5
  <2> QED BY <2>1, <2>2
<1>7. \E f : f = Step(f)
  <2>1. DOMAIN F = Nodes
    OBVIOUS
  <2> HIDE DEF F
  <2>2. F = [m \in Nodes |-> F[m]]
    BY <2>1 DEF F
  <2>3. F = Step(F)
    BY <1>6, <2>2
  <2> HIDE DEF Step
  <2> QED BY <2>3
<1>8. Rounds(n) = CHOOSE f : f = Step(f)
  BY DEF Rounds, RoundStep, Factor
<1> HIDE DEF Step
<1>9. Rounds(n) = Step(Rounds(n))
  BY <1>7, <1>8
<1> QED BY <1>9 DEF Step

\* L is what the tree still allows task t: below each node at most L of the starts that
\* a run of the node allows are left.
Charged(t, L, m) ==
    LET k == ChildAbove(m, t) IN
    /\ \/ Kind[m] = "sequence"
             /\ \E i \in DOMAIN Kids[m] : i <= index[m] /\ t \in Below[Kids[m][i]]
       \/ L[m] >= L[k]
    /\ Kind[m] = "retry" =>
          \A d \in Nat : attempts[m] + 1 + d = Limit[m] => L[m] >= L[k] + d * Rounds(t)[k]

MayStart(t, L) ==
    /\ L \in [Nodes -> Nat]
    /\ starts[t] + L[Root[plan]] <= Budget(t)
    /\ handle[t].phase = "none" => L[t] >= 1
    /\ \A m \in Below[Root[plan]] : t \in Below[m] =>
          /\ L[m] <= Rounds(t)[m]
          /\ m # t => Charged(t, L, m)

BudgetInv ==
    /\ WalkInv
    /\ status = "running" => \A t \in Tasks : \E L : MayStart(t, L)
    /\ StartsBounded

\* One step of this recursion.
LEMMA RoundsStep ==
    ASSUME NEW t \in Nodes, NEW m \in Nodes
    PROVE  Rounds(t)[m] = RoundStep(t, Rounds(t), m)
<1> DEFINE F(k) == RoundStep(t, Rounds(t), k)
<1>1. Rounds(t) = [k \in Nodes |-> F(k)]
  BY RoundsDef
<1> HIDE DEF F
<1>2. Rounds(t)[m] = F(m)
  BY <1>1
<1> QED BY <1>2 DEF F

\* Multiplication is monotonic.
LEMMA Grows ==
    ASSUME NEW a \in Nat, NEW b \in Nat, NEW c \in Nat, a <= b
    PROVE  a * c <= b * c
<1>1. PICK d \in Nat : b = a + d
  BY b - a \in Nat
<1>2. b * c = a * c + d * c /\ d * c \in Nat /\ a * c \in Nat
  BY <1>1
<1> QED BY <1>2

\* Every node of a valid plan allows a start, and a retry as many as its child and its
\* attempts together.
LEMMA RoundsPositive ==
    ASSUME NEW p \in Accepted, NEW t \in Nodes, NEW n \in Below[Root[p]]
    PROVE  /\ Rounds(t)[n] \in Nat \ {0}
           /\ Kind[n] = "retry" => Limit[n] \in Nat \ {0}
<1>0. Root[p] \in Nodes
  BY PlansAssumption DEF Accepted
<1>1. ASSUME NEW k \in Below[Root[p]], Kind[k] = "retry" PROVE Limit[k] \in Nat \ {0}
  <2>1. k \in Nodes /\ ~NodeError(k)
    BY <1>0, BelowNodes DEF Accepted
  <2> QED BY <1>1, <2>1, TreeAssumption DEF NodeError
<1> DEFINE G == {k \in Nodes : k \in Below[Root[p]] => Rounds(t)[k] \in Nat \ {0}}
<1>2. ASSUME NEW k \in Nodes, \A i \in DOMAIN Kids[k] : Kids[k][i] \in G
      PROVE  k \in G
  <2>1. SUFFICES ASSUME k \in Below[Root[p]] PROVE Rounds(t)[k] \in Nat \ {0}
    OBVIOUS
  <2>2. CASE t = k \/ t \notin Below[k]
    <3>1. Rounds(t)[k] = 1
      BY <2>2, RoundsStep DEF RoundStep
    <3> QED BY <3>1
  <2>3. CASE t # k /\ t \in Below[k]
    <3> DEFINE c == ChildAbove(k, t)
    <3>1. Rounds(t)[k] = Factor(k) * Rounds(t)[c]
      BY <2>3, RoundsStep DEF RoundStep
    <3>2. c \in G
      BY <1>2, <2>3, ChildAboveIs
    <3>3. c \in Below[Root[p]]
      BY <1>0, <2>1, <2>3, ChildAboveFacts, BelowStep, BelowTransitive
    <3>4. Factor(k) \in Nat \ {0}
      BY <1>1, <2>1 DEF Factor
    <3>5. Rounds(t)[c] \in Nat \ {0}
      BY <3>2, <3>3
    <3> HIDE DEF c
    <3>6. \A x, y \in Nat \ {0} : x * y \in Nat \ {0}
      <4>1. ASSUME NEW x \in Nat \ {0}, NEW y \in Nat \ {0} PROVE 1 * y <= x * y
        BY Grows
      <4> QED BY <4>1
    <3> QED BY <3>1, <3>4, <3>5, <3>6
  <2> QED BY <2>2, <2>3
<1>3. G = Nodes
  <2> HIDE DEF G
  <2>1. G \in SUBSET Nodes
    BY DEF G
  <2> QED BY <1>2, <2>1, TreeInduction
<1> QED BY <1>0, <1>1, <1>3, BelowNodes

\* Whatever the child has left, a node that can afford its child anew is charged.
LEMMA AffordsAnew ==
    ASSUME NEW p \in Accepted, NEW m \in Below[Root[p]], NEW t \in Below[m], t # m
    PROVE  LET k == ChildAbove(m, t) IN
           /\ Rounds(t)[m] >= Rounds(t)[k]
           /\ Rounds(t)[k] \in Nat
           /\ Kind[m] = "retry" =>
                 \A a, d \in Nat : a + 1 + d = Limit[m] =>
                     Rounds(t)[m] >= Rounds(t)[k] + d * Rounds(t)[k]
<1> DEFINE k == ChildAbove(m, t)
           A == Rounds(t)
<1>0. Root[p] \in Nodes /\ m \in Nodes /\ t \in Nodes
  BY PlansAssumption, BelowNodes DEF Accepted
<1>1. k \in Below[Root[p]]
  BY <1>0, ChildAboveFacts, BelowStep, BelowTransitive
<1>2. A[k] \in Nat
  BY <1>0, <1>1, RoundsPositive
<1>3. A[m] = Factor(m) * A[k]
  BY <1>0, RoundsStep DEF RoundStep
<1>4. Factor(m) \in Nat \ {0}
  BY <1>0, RoundsPositive DEF Factor
<1> HIDE DEF A, k
<1>5. A[m] >= A[k]
  <2>1. 1 * A[k] <= Factor(m) * A[k]
    BY <1>2, <1>4, Grows
  <2> QED BY <2>1, <1>2, <1>3, <1>4
<1>6. ASSUME Kind[m] = "retry", NEW a \in Nat, NEW d \in Nat, a + 1 + d = Limit[m]
      PROVE  A[m] >= A[k] + d * A[k]
  <2>1. Factor(m) = a + 1 + d
    BY <1>6 DEF Factor
  <2>2. (1 + d) * A[k] <= Factor(m) * A[k]
    BY <1>2, <1>4, <2>1, Grows
  <2>3. (1 + d) * A[k] = A[k] + d * A[k]
    BY <1>2
  <2> QED BY <1>3, <2>2, <2>3
<1> QED BY <1>2, <1>5, <1>6 DEF A, k

\* A path goes through all nodes that are above one of its nodes.
LEMMA AncestorOnPath ==
    ASSUME IndexOK, NEW fired, NEW n \in Nodes, NEW t \in PathFrom(fired)[n],
           NEW m \in Below[n], t \in Below[m]
    PROVE  m \in PathFrom(fired)[n]
<1> DEFINE P == PathFrom(fired)
           G == {k \in Nodes : t \in P[k] =>
                   \A l \in Below[k] : t \in Below[l] => l \in P[k]}
<1> HIDE DEF P
<1>1. ASSUME NEW k \in Nodes, \A j \in DOMAIN Kids[k] : Kids[k][j] \in G
      PROVE  k \in G
  <2>1. SUFFICES ASSUME t \in P[k], NEW l \in Below[k], t \in Below[l]
                 PROVE  l \in P[k]
    OBVIOUS
  <2>2. CASE l = k
    BY <2>2, PathStep DEF PathSteps, P
  <2>3. CASE l # k
    <3>1. PICK x \in DOMAIN Kids[k] : l \in Below[Kids[k][x]]
      BY <2>3, BelowStep
    <3>2. t \in Below[Kids[k][x]]
      BY <2>1, <3>1, KidIsNode, BelowTransitive
    <3>3. t # k
      BY <3>2, NoCycle
    <3>4. ~Leaf(k, fired) /\ t \in P[Current(k)] /\ P[k] = {k} \cup P[Current(k)]
      BY <2>1, <3>3, PathStep DEF PathSteps, P
    <3>5. index[k] + 1 \in DOMAIN Kids[k] /\ t \in Below[Current(k)]
      BY <3>4, CurrentIsKid, PathBelow DEF P
    <3>6. x = index[k] + 1
      BY <3>2, <3>5, SiblingsApart DEF Current
    <3>7. Current(k) \in G /\ l \in Below[Current(k)]
      BY <1>1, <3>1, <3>6 DEF Current
    <3> QED BY <2>1, <3>4, <3>7
  <2> QED BY <2>2, <2>3
<1>2. G = Nodes
  <2> HIDE DEF G
  <2>1. G \in SUBSET Nodes
    BY DEF G
  <2> QED BY <1>1, <2>1, TreeInduction
<1> QED BY <1>2 DEF P

\* A task that a tick comes to is paid for by all nodes of the path.
LEMMA PathPays ==
    ASSUME IndexOK, NEW fired, NEW root \in Nodes, NEW t \in PathFrom(fired)[root], NEW L,
           L \in [Nodes -> Nat],
           \A m \in Below[root] : t \in Below[m] /\ m # t => Charged(t, L, m)
    PROVE  L[root] >= L[t]
<1> DEFINE P == PathFrom(fired)
           G == {k \in Nodes : k \in Below[root] /\ t \in P[k] => L[k] >= L[t]}
<1> HIDE DEF P
<1>0. t \in Nodes
  BY PathBelow, BelowNodes
<1>1. ASSUME NEW k \in Nodes, \A j \in DOMAIN Kids[k] : Kids[k][j] \in G
      PROVE  k \in G
  <2>1. SUFFICES ASSUME k \in Below[root], t \in P[k] PROVE L[k] >= L[t]
    OBVIOUS
  <2>2. CASE k = t
    BY <2>2
  <2>3. CASE k # t
    <3>1. ~Leaf(k, fired) /\ t \in P[Current(k)]
      BY <2>1, <2>3, PathStep DEF PathSteps, P
    <3>2. /\ index[k] + 1 \in DOMAIN Kids[k] /\ Current(k) \in Nodes
          /\ t \in Below[Current(k)] /\ t \in Below[k] /\ Current(k) \in Below[root]
      BY <2>1, <3>1, CurrentIsKid, PathBelow, BelowTransitive DEF P
    <3>3. ChildAbove(k, t) = Current(k)
      BY <2>3, <3>2, ChildAboveIs DEF Current
    <3>4. \A i \in DOMAIN Kids[k] : t \in Below[Kids[k][i]] => i = index[k] + 1
      BY <3>2, SiblingsApart DEF Current
    <3>5. L[k] >= L[Current(k)]
      <4>1. ~ \E i \in DOMAIN Kids[k] : i <= index[k] /\ t \in Below[Kids[k][i]]
        BY <3>4 DEF IndexOK
      <4> QED BY <2>1, <2>3, <3>2, <3>3, <4>1 DEF Charged
    <3>6. L[Current(k)] >= L[t]
      <4>1. Current(k) \in G
        BY <1>1, <3>2 DEF Current
      <4> QED BY <3>1, <3>2, <4>1
    <3> QED BY <1>0, <3>2, <3>5, <3>6
  <2> QED BY <2>2, <2>3
<1>2. G = Nodes
  <2> HIDE DEF G
  <2>1. G \in SUBSET Nodes
    BY DEF G
  <2> QED BY <1>1, <2>1, TreeInduction
<1>3. root \in Below[root]
  BY BelowStep
<1> QED BY <1>2, <1>3 DEF P

\* The same of the retries' counters and of how often tasks were started.
CountEffect(fired, sends, ready, hs, reset, adv) ==
    /\ TickEffect(fired, sends, ready, hs, reset, adv)
    /\ attempts \in [Nodes -> Nat] /\ starts \in [Nodes -> Nat]
    /\ attempts' = [n \in Nodes |->
          IF n \in reset THEN 0
          ELSE IF n \in Counts(Path(fired), TickNode(hs, fired))
               THEN attempts[n] + 1 ELSE attempts[n]]
    /\ starts' = [n \in Nodes |->
          IF n \in sends /\ handle[n].phase = "none" /\ starts[n] <= Budget(n)
          THEN starts[n] + 1 ELSE starts[n]]

\* A node that is reset is below the current child of a node that resets.
Resetting(fired, hs, m) ==
    /\ m \in Path(fired)
    /\ \/ m \in fired
       \/ /\ Kind[m] = "retry" /\ ~RetryExhausted(m)
          /\ TickNode(hs, fired)[Current(m)] = "failure"

\* Exactly what is below the current child of such a node is reset.
LEMMA ResetIsBelow ==
    ASSUME WalkInv, status = "running", NEW fired, NEW sends, NEW ready, NEW hs, NEW reset,
           NEW adv, TickEffect(fired, sends, ready, hs, reset, adv)
    PROVE  /\ \A n \in reset : \E x \in Below[Root[plan]] :
                 Resetting(fired, hs, x) /\ n \in Below[Current(x)]
           /\ \A x : Resetting(fired, hs, x) =>
                 /\ Below[Current(x)] \subseteq reset
                 /\ x \in Nodes /\ index[x] = 0 /\ 1 \in DOMAIN Kids[x]
                 /\ Current(x) = Kids[x][1] /\ Current(x) \in Nodes
<1> USE DEF TickEffect
<1>0. Root[plan] \in Nodes
  BY RootIsNode
<1>1. ASSUME NEW x \in Path(fired) PROVE x \in Below[Root[plan]] /\ x \in Nodes
  BY <1>0, PathBelow, BelowNodes DEF Path
<1>2. ASSUME NEW n \in reset
      PROVE  \E x \in Below[Root[plan]] : Resetting(fired, hs, x) /\ n \in Below[Current(x)]
  <2>1. \E x \in Path(fired) : Resetting(fired, hs, x) /\ n \in Below[Current(x)]
    BY <1>2 DEF Resets, ResetsRetryOnly, Resetting, NodesOf
  <2> QED BY <1>1, <2>1
<1>3. ASSUME NEW x, Resetting(fired, hs, x)
      PROVE  /\ Below[Current(x)] \subseteq reset
             /\ x \in Nodes /\ index[x] = 0 /\ 1 \in DOMAIN Kids[x]
             /\ Current(x) = Kids[x][1] /\ Current(x) \in Nodes
  <2>1. x \in Nodes
    BY <1>1, <1>3 DEF Resetting
  <2>2. Kind[x] \in {"retry", "run_until"}
    BY <1>3 DEF Resetting, NodesOf
  <2>3. index[x] = 0 /\ Len(Kids[x]) = 1 /\ Kids[x] \in Seq(Nodes)
    BY <2>1, <2>2, TreeAssumption DEF WalkInv, OthersAtFirst
  <2>4. 1 \in DOMAIN Kids[x] /\ Current(x) = Kids[x][1] /\ Current(x) \in Nodes
    BY <2>3 DEF Current
  <2>5. Below[Current(x)] \subseteq reset
    <3>1. CASE x \in fired
      BY <1>3, <3>1 DEF Resetting, Resets
    <3>2. CASE x \notin fired
      BY <1>3, <2>1, <3>2 DEF Resetting, Resets, ResetsRetryOnly, NodesOf
    <3> QED BY <3>1, <3>2
  <2> QED BY <2>1, <2>3, <2>4, <2>5
<1> QED BY <1>2, <1>3

\* A child is reset with its parent or by it; the root never is.
LEMMA ResetFromAbove ==
    ASSUME WalkInv, status = "running", NEW fired, NEW sends, NEW ready, NEW hs, NEW reset,
           NEW adv, TickEffect(fired, sends, ready, hs, reset, adv)
    PROVE  /\ Root[plan] \notin reset
           /\ \A m \in Nodes : m \in reset => Below[m] \subseteq reset
           /\ \A m \in Nodes : \A i \in DOMAIN Kids[m] :
                 Kids[m][i] \in reset /\ m \notin reset
                   => Resetting(fired, hs, m) /\ Kids[m][i] = Current(m)
<1>0. Root[plan] \in Nodes
  BY RootIsNode
<1>1. ASSUME Root[plan] \in reset PROVE FALSE
  <2>1. PICK x \in Below[Root[plan]] :
          Resetting(fired, hs, x) /\ Root[plan] \in Below[Current(x)]
    BY <1>1, ResetIsBelow
  <2>2. x \in Nodes /\ Current(x) \in Nodes /\ 1 \in DOMAIN Kids[x] /\ Current(x) = Kids[x][1]
    BY <2>1, ResetIsBelow
  <2>3. x \in Below[Current(x)]
    BY <2>1, <2>2, BelowTransitive
  <2> QED BY <2>2, <2>3, NoCycle
<1>2. ASSUME NEW m \in Nodes, m \in reset PROVE Below[m] \subseteq reset
  <2>1. PICK x \in Below[Root[plan]] : Resetting(fired, hs, x) /\ m \in Below[Current(x)]
    BY <1>2, ResetIsBelow
  <2>2. Current(x) \in Nodes /\ Below[Current(x)] \subseteq reset
    BY <2>1, ResetIsBelow
  <2> QED BY <2>1, <2>2, BelowTransitive
<1>3. ASSUME NEW m \in Nodes, NEW i \in DOMAIN Kids[m], Kids[m][i] \in reset, m \notin reset
      PROVE  Resetting(fired, hs, m) /\ Kids[m][i] = Current(m)
  <2>1. PICK x \in Below[Root[plan]] :
          Resetting(fired, hs, x) /\ Kids[m][i] \in Below[Current(x)]
    BY <1>3, ResetIsBelow
  <2>2. /\ x \in Nodes /\ Current(x) \in Nodes /\ Below[Current(x)] \subseteq reset
        /\ 1 \in DOMAIN Kids[x] /\ Current(x) = Kids[x][1]
    BY <2>1, ResetIsBelow
  <2>3. CASE Kids[m][i] = Current(x)
    <3>1. m = x
      BY <2>2, <2>3, OwnershipAssumption
    <3> QED BY <2>1, <2>3, <3>1
  <2>4. CASE Kids[m][i] # Current(x)
    BY <1>3, <2>1, <2>2, <2>4, ParentBelow
  <2> QED BY <2>3, <2>4
<1> QED BY <1>1, <1>2, <1>3

\* What is left after a tick: all of it below a node that was reset or has finished,
\* and one start less along the path to a task that the tick started.
After(t, L, fired, hs, reset, started) ==
    [m \in Nodes |->
        IF m \notin Below[Root[plan]] \/ t \notin Below[m] THEN L[m]
        ELSE IF m \in reset \/ (m \in Path(fired) /\ TickNode(hs, fired)[m] # "running")
             THEN Rounds(t)[m]
        ELSE IF started THEN L[m] - 1 ELSE L[m]]

\* A tick leaves every node charged for what its child has left.
LEMMA TickCharges ==
    ASSUME WalkInv, status = "running", status' = "running",
           NEW fired, NEW sends, NEW ready, NEW hs, NEW reset, NEW adv,
           CountEffect(fired, sends, ready, hs, reset, adv),
           NEW t \in Tasks, NEW L, MayStart(t, L),
           NEW started \in BOOLEAN, started => t \in Path(fired) /\ L[t] >= 1,
           NEW M, M = After(t, L, fired, hs, reset, started), M \in [Nodes -> Nat],
           \A m \in Below[Root[plan]] : t \in Below[m] => M[m] <= Rounds(t)[m],
           NEW m \in Below[Root[plan]], t \in Below[m], m # t
    PROVE  Charged(t, M, m)'
<1> DEFINE root == Root[plan]
           P == PathFrom(fired)
           R == TickNode(hs, fired)
           A == Rounds(t)
           k == ChildAbove(m, t)
<1> HIDE DEF P, R, A, k
<1>0. /\ root \in Nodes /\ plan \in Accepted /\ IndexOK /\ plan' = plan
      /\ TickEffect(fired, sends, ready, hs, reset, adv)
      /\ m \in Nodes /\ t \in Nodes
      /\ Path(fired) = P[root]
  BY RootIsNode, BelowNodes DEF CountEffect, TickEffect, Tasks, NodesOf, Path, P
<1>1. PICK i \in DOMAIN Kids[m] :
         /\ k = Kids[m][i] /\ t \in Below[Kids[m][i]]
         /\ \A j \in DOMAIN Kids[m] : t \in Below[Kids[m][j]] => j = i
  BY <1>0, ChildAboveIs DEF k
<1>2. /\ k \in Nodes /\ k \in Below[root] /\ t \in Below[k] /\ k # m
  <2>1. /\ k \in Nodes /\ k # m /\ Below[k] \subseteq Below[m] /\ t \in Below[k]
    BY <1>0, ChildAboveFacts DEF k
  <2>2. k \in Below[root]
    BY <1>0, <2>1, BelowStep, BelowTransitive
  <2> QED BY <2>1, <2>2
<1>3. /\ A[m] >= A[k] /\ A[k] \in Nat
      /\ Kind[m] = "retry" => \A a, d \in Nat : a + 1 + d = Limit[m] => A[m] >= A[k] + d * A[k]
  BY <1>0, AffordsAnew DEF A, k
<1>4. M[m] = IF m \in reset \/ (m \in P[root] /\ R[m] # "running") THEN A[m]
             ELSE IF started THEN L[m] - 1 ELSE L[m]
  BY <1>0 DEF After, A, R
<1>5. M[k] = IF k \in reset \/ (k \in P[root] /\ R[k] # "running") THEN A[k]
             ELSE IF started THEN L[k] - 1 ELSE L[k]
  BY <1>0, <1>2 DEF After, A, R
<1>6. /\ M[m] \in Nat /\ M[k] \in Nat /\ L[m] \in Nat /\ L[k] \in Nat
      /\ M[k] <= A[k] /\ M[m] <= A[m]
  BY <1>0, <1>2 DEF MayStart, A
<1>7. /\ index[m] \in Nat /\ attempts[m] \in Nat
      /\ index'[m] = IF m \in reset THEN 0 ELSE IF m \in adv THEN index[m] + 1 ELSE index[m]
      /\ attempts'[m] = IF m \in reset THEN 0
                        ELSE IF m \in Counts(P[root], R) THEN attempts[m] + 1 ELSE attempts[m]
  BY <1>0 DEF CountEffect, TickEffect, IndexOK, R
<1>8. /\ \/ Kind[m] = "sequence" /\ i <= index[m]
         \/ L[m] >= L[k]
      /\ Kind[m] = "retry" =>
            \A d \in Nat : attempts[m] + 1 + d = Limit[m] => L[m] >= L[k] + d * A[k]
  <2>1. Charged(t, L, m)
    BY DEF MayStart
  <2> QED BY <1>1, <2>1 DEF Charged, k, A
<1>9. SUFFICES /\ \/ Kind[m] = "sequence" /\ i <= index'[m]
                  \/ M[m] >= M[k]
               /\ Kind[m] = "retry" =>
                     \A d \in Nat : attempts'[m] + 1 + d = Limit[m] => M[m] >= M[k] + d * A[k]
  BY <1>1 DEF Charged, k, A
<1>10. CASE M[m] = A[m]
  <2>1. attempts'[m] \in Nat
    BY <1>7
  <2>2. ASSUME Kind[m] = "retry", NEW d \in Nat, attempts'[m] + 1 + d = Limit[m]
        PROVE  M[m] >= M[k] + d * A[k]
    <3>1. A[m] >= A[k] + d * A[k]
      BY <1>3, <2>1, <2>2
    <3>2. d * A[k] \in Nat
      BY <1>3
    <3> QED BY <1>3, <1>6, <1>10, <3>1, <3>2
  <2> QED BY <1>3, <1>6, <1>10, <2>2
<1>11. CASE m \notin reset /\ ~(m \in P[root] /\ R[m] # "running")
  <2>1. M[m] = IF started THEN L[m] - 1 ELSE L[m]
    BY <1>4, <1>11
  <2>2. k \in reset => Resetting(fired, hs, m) /\ k = Current(m)
    BY <1>0, <1>1, <1>11, ResetFromAbove
  <2>3. k \in P[root] => m \in P[root]
    <3>1. k \in Below[m]
      BY <1>0, <1>1, <1>2, BelowStep
    <3> QED BY <1>0, <3>1, AncestorOnPath DEF P
  <2>4. CASE m \notin P[root]
    <3>1. M[k] = IF started THEN L[k] - 1 ELSE L[k]
      BY <1>0, <1>5, <2>2, <2>3, <2>4 DEF Resetting
    <3>2. index'[m] = index[m] /\ attempts'[m] = attempts[m]
      BY <1>0, <1>7, <1>11, <2>4 DEF TickEffect, Advances, Counts
    <3>3. \A d \in Nat : d * A[k] \in Nat
      BY <1>3
    <3> QED BY <1>6, <1>8, <2>1, <3>1, <3>2, <3>3
  <2>5. CASE m \in P[root]
    <3> DEFINE c == Current(m)
    <3>0. R[m] = "running" /\ R[m] = Handed(hs, fired, m, R[c])
      BY <1>0, <1>11, <2>5, TickNodeStep DEF R
    <3>1. Kind[m] # "task"
      <4>1. Kind[m] = "task" => DOMAIN Kids[m] = {}
        BY <1>0, TreeAssumption
      <4> QED BY <1>1, <4>1
    <3>2. ~Leaf(m, fired)
      BY <3>0, <3>1 DEF Handed
    <3>3. index[m] + 1 \in DOMAIN Kids[m] /\ c = Kids[m][index[m] + 1] /\ c \in Nodes
          /\ m \notin fired
      BY <1>0, <3>2, CurrentIsKid DEF Current, Leaf
    <3>4. c \in P[root]
      <4>1. c \in P[c] /\ P[m] = {m} \cup P[c]
        BY <1>0, <3>2, <3>3, PathStep DEF PathSteps, P
      <4>2. P[m] \subseteq P[root]
        BY <1>0, <2>5, PathGoesOn DEF P
      <4> QED BY <4>1, <4>2
    <3>5. i \in Nat
      <4>1. Kids[m] \in Seq(Nodes)
        BY <1>0, TreeAssumption
      <4> QED BY <4>1
    <3> HIDE DEF c
    <3>6. CASE i # index[m] + 1
      <4>0. k # c
        BY <1>0, <1>1, <3>3, <3>6, OwnershipAssumption
      <4>1. Kind[m] = "sequence"
        <5>1. Kind[m] \in {"retry", "run_until"} => Len(Kids[m]) = 1
          BY <1>0, TreeAssumption
        <5>2. Kids[m] \in Seq(Nodes) /\ Kind[m] \in Kinds
          BY <1>0, TreeAssumption
        <5> QED BY <1>1, <3>1, <3>3, <3>6, <5>1, <5>2 DEF Kinds
      <4>2. t \notin P[root]
        <5>1. SUFFICES ASSUME t \in P[root] PROVE FALSE
          OBVIOUS
        <5>2. k \in P[root]
          BY <1>0, <1>2, <5>1, AncestorOnPath DEF P
        <5>3. Leaf(t, fired)
          <6>1. Len(Kids[t]) = 0
            BY <1>0, TreeAssumption DEF Tasks, NodesOf
          <6> QED BY <1>0, <6>1 DEF Leaf, IndexOK
        <5>4. t \in P[m]
          BY <1>0, <2>5, <5>1, <5>3, LeafOfRest DEF P
        <5>5. t \in P[c]
          BY <1>0, <3>2, <5>4, PathStep DEF PathSteps, P, c
        <5>6. t \in Below[c]
          BY <1>0, <3>3, <5>5, PathBelow DEF P
        <5> QED BY <1>1, <3>3, <3>6, <5>6
      <4>3. ~started
        BY <1>0, <4>2
      <4>4. k \notin P[root]
        <5>1. SUFFICES ASSUME k \in P[root] PROVE FALSE
          OBVIOUS
        <5>2. c \in Below[root] /\ c \in P[root]
          BY <1>0, <3>4, PathBelow DEF P
        <5>3. PICK u \in P[k] : Leaf(u, fired)
          BY <1>0, <1>2, PathHasLeaf DEF P
        <5>4. u \in P[root]
          BY <1>0, <5>1, <5>3, PathGoesOn DEF P
        <5>5. u \in P[c]
          BY <1>0, <5>2, <5>3, <5>4, LeafOfRest DEF P
        <5>6. u \in Below[c] /\ u \in Below[k]
          BY <1>0, <1>2, <3>3, <5>3, <5>5, PathBelow DEF P
        <5> QED BY <1>0, <1>1, <3>3, <3>6, <5>6, SiblingsApart
      <4>5. M[k] = L[k]
        BY <1>5, <2>2, <4>0, <4>3, <4>4 DEF c
      <4>6. M[m] = L[m]
        BY <2>1, <4>3
      <4>7. index'[m] \in Nat /\ index'[m] >= index[m]
        BY <1>7, <1>11
      <4> QED BY <1>8, <3>5, <4>1, <4>5, <4>6, <4>7, <1>7
    <3>7. CASE i = index[m] + 1
      <4>0. k = c
        BY <1>1, <3>3, <3>7
      <4>1. L[m] >= L[k]
        BY <1>7, <1>8, <3>7
      <4>2. CASE R[c] = "running"
        <5>1. k \notin reset
          BY <2>2, <3>3, <4>2 DEF Resetting, R, c
        <5>2. M[k] = IF started THEN L[k] - 1 ELSE L[k]
          BY <1>5, <4>0, <4>2, <5>1
        <5>3. attempts'[m] = attempts[m]
          BY <1>7, <1>11, <4>2 DEF Counts, c
        <5>4. \A d \in Nat : d * A[k] \in Nat
          BY <1>3
        <5> QED BY <1>6, <1>8, <2>1, <4>1, <5>2, <5>3, <5>4
      <4>3. CASE R[c] = "success"
        <5>1. Kind[m] = "sequence"
          BY <3>0, <3>1, <3>2, <4>3 DEF Handed
        <5>2. m \in adv
          BY <1>0, <2>5, <3>2, <4>3, <5>1 DEF TickEffect, Advances, NodesOf, Leaf, IndexOK, R, c
        <5>3. index'[m] = index[m] + 1
          BY <1>7, <1>11, <5>2
        <5> QED BY <3>5, <3>7, <5>1, <5>3, <1>7
      <4>4. CASE R[c] # "running" /\ R[c] # "success"
        <5>1. Kind[m] = "retry" /\ R[c] = "failure" /\ ~RetryExhausted(m)
          BY <3>0, <3>1, <3>2, <4>4 DEF Handed
        <5>2. m \in Counts(P[root], R)
          BY <1>0, <2>5, <5>1 DEF Counts, NodesOf, c
        <5>3. attempts'[m] = attempts[m] + 1
          BY <1>7, <1>11, <5>2
        <5>4. attempts[m] + 1 < Limit[m] /\ Limit[m] \in Int
          BY <1>0, <1>7, <5>1, TreeAssumption DEF RetryExhausted
        <5>5. started => L[k] >= 1
          <6>1. ASSUME started PROVE L[k] >= L[t]
            <7>1. t \in P[root] /\ L[t] >= 1
              BY <1>0, <6>1
            <7>2. Leaf(t, fired)
              <8>1. Len(Kids[t]) = 0
                BY <1>0, TreeAssumption DEF Tasks, NodesOf
              <8> QED BY <1>0, <8>1 DEF Leaf, IndexOK
            <7>3. t \in P[c]
              BY <1>0, <3>4, <7>1, <7>2, LeafOfRest DEF P
            <7>4. \A l \in Below[k] : t \in Below[l] /\ l # t => Charged(t, L, l)
              BY <1>0, <1>2, BelowTransitive DEF MayStart
            <7>5. L \in [Nodes -> Nat]
              BY DEF MayStart
            <7> QED BY <1>0, <1>2, <4>0, <7>3, <7>4, <7>5, PathPays DEF P
          <6>2. L[t] \in Nat
            BY <1>0 DEF MayStart
          <6> QED BY <1>6, <6>1, <6>2
        <5>6. ASSUME NEW d \in Nat, attempts'[m] + 1 + d = Limit[m]
              PROVE  M[m] >= M[k] + d * A[k]
          <6>1. L[m] >= L[k] + (d + 1) * A[k]
            BY <1>7, <1>8, <5>1, <5>3, <5>6
          <6>2. (d + 1) * A[k] = A[k] + d * A[k] /\ d * A[k] \in Nat
            BY <1>3
          <6> QED BY <1>3, <1>6, <2>1, <5>5, <6>1, <6>2
        <5>7. M[m] >= M[k]
          <6>1. PICK d \in Nat : attempts'[m] + 1 + d = Limit[m]
            <7>1. Limit[m] - (attempts[m] + 2) \in Nat
              BY <1>7, <5>4
            <7> QED BY <1>7, <5>3, <5>4, <7>1
          <6>2. M[m] >= M[k] + d * A[k] /\ d * A[k] \in Nat
            BY <1>3, <5>6, <6>1
          <6> QED BY <1>6, <6>2
        <5> QED BY <5>6, <5>7
      <4> QED BY <4>2, <4>3, <4>4
    <3> QED BY <3>6, <3>7
  <2> QED BY <2>4, <2>5
<1> QED BY <1>4, <1>10, <1>11

\* A tick starts a task only if its tree still allows it.
LEMMA TickSpends ==
    ASSUME WalkInv, status = "running",
           NEW fired, NEW sends, NEW ready, NEW hs, NEW reset, NEW adv,
           CountEffect(fired, sends, ready, hs, reset, adv),
           NEW t \in Tasks, NEW L, MayStart(t, L)
    PROVE  /\ starts'[t] <= Budget(t)
           /\ status' = "running" => \E K : MayStart(t, K)'
<1> DEFINE root == Root[plan]
           A == Rounds(t)
           started == t \in sends /\ handle[t].phase = "none"
<1>0. /\ root \in Nodes /\ plan \in Accepted /\ IndexOK /\ plan' = plan /\ t \in Nodes
      /\ TickEffect(fired, sends, ready, hs, reset, adv) /\ L \in [Nodes -> Nat]
      /\ root \in Below[root]
  BY RootIsNode, BelowStep DEF CountEffect, TickEffect, Tasks, NodesOf, MayStart
<1>1. started => t \in Path(fired) /\ L[t] >= 1
  BY <1>0 DEF TickEffect, MayStart
<1>2. ASSUME started, NEW m \in Below[root], t \in Below[m]
      PROVE  L[m] >= 1
  <2>1. m \in Nodes
    BY <1>0, BelowNodes
  <2>2. t \in PathFrom(fired)[root] /\ Leaf(t, fired)
    <3>1. Len(Kids[t]) = 0
      BY <1>0, TreeAssumption DEF Tasks, NodesOf
    <3> QED BY <1>0, <1>1, <1>2, <3>1 DEF Leaf, IndexOK, Path
  <2>3. t \in PathFrom(fired)[m]
    <3>1. m \in PathFrom(fired)[root]
      BY <1>0, <1>2, <2>2, AncestorOnPath
    <3> QED BY <1>0, <2>2, <3>1, LeafOfRest
  <2>4. \A l \in Below[m] : t \in Below[l] /\ l # t => Charged(t, L, l)
    BY <1>0, <1>2, BelowTransitive DEF MayStart
  <2>5. L[m] >= L[t] /\ L[m] \in Nat /\ L[t] \in Nat
    BY <1>0, <2>1, <2>3, <2>4, PathPays
  <2> QED BY <1>1, <1>2, <2>5
<1>3. t \notin Below[root] => ~started
  BY <1>0, <1>1, PathBelow DEF Path
<1>4. starts[t] \in Nat /\ starts'[t] \in Nat /\ starts'[t] <= starts[t] + IF started THEN 1 ELSE 0
  BY <1>0 DEF CountEffect
<1>5. /\ L[root] \in Nat /\ starts[t] + L[root] <= Budget(t)
      /\ Budget(t) = A[root] /\ A[root] \in Nat \ {0}
  BY <1>0, RoundsPositive DEF MayStart, Budget
<1>6. started => L[root] >= 1
  BY <1>0, <1>2, <1>3
<1>7. starts'[t] <= Budget(t)
  <2> HIDE DEF started, A
  <2> QED BY <1>4, <1>5, <1>6
<1>8. ASSUME status' = "running" PROVE \E K : MayStart(t, K)'
  <2>0. PICK b \in BOOLEAN : b = started
    OBVIOUS
  <2>1. PICK K : K = After(t, L, fired, hs, reset, b)
    OBVIOUS
  <2> HIDE DEF started
  <2>2. \A m \in Below[root] : t \in Below[m] => A[m] \in Nat \ {0} /\ L[m] <= A[m]
    BY <1>0, RoundsPositive DEF MayStart
  <2>3. ASSUME NEW m \in Nodes
        PROVE  K[m] = IF m \notin Below[root] \/ t \notin Below[m] THEN L[m]
                 ELSE IF m \in reset \/ (m \in Path(fired) /\ TickNode(hs, fired)[m] # "running")
                      THEN A[m]
                 ELSE IF b THEN L[m] - 1 ELSE L[m]
    BY <2>1 DEF After
  <2>4. ASSUME NEW m \in Nodes
        PROVE  /\ K[m] \in Nat
               /\ m \in Below[root] /\ t \in Below[m] => K[m] <= A[m]
    <3>1. L[m] \in Nat
      BY <1>0
    <3> HIDE DEF A
    <3> QED BY <1>2, <2>0, <2>2, <2>3, <3>1
  <2>5. K \in [Nodes -> Nat]
    <3>1. K = [m \in Nodes |-> K[m]]
      BY <2>1 DEF After
    <3> QED BY <2>4, <3>1
  <2>6. \A m \in Below[root] : t \in Below[m] => K[m] <= A[m]
    BY <1>0, <2>4, BelowNodes
  <2>7. ASSUME NEW m \in Below[root], t \in Below[m], m # t PROVE Charged(t, K, m)'
    BY <1>1, <1>8, <2>0, <2>1, <2>5, <2>6, <2>7, TickCharges
  <2>8. starts'[t] + K[root] <= Budget(t)
    <3>1. root \notin reset
      BY <1>0, ResetFromAbove
    <3>2. TickNode(hs, fired)[root] = "running"
      BY <1>0, <1>8 DEF TickEffect
    <3>3. K[root] = IF b THEN L[root] - 1 ELSE L[root]
      BY <1>0, <1>3, <2>0, <2>3, <3>1, <3>2
    <3> QED BY <1>4, <1>5, <1>6, <2>0, <3>3
  <2>9. ASSUME handle'[t].phase = "none" PROVE K[t] >= 1
    <3>1. CASE t \notin Below[root]
      <4>1. K[t] = L[t] /\ t \notin Path(fired)
        BY <1>0, <2>3, <3>1, PathBelow DEF Path
      <4>2. t \notin reset
        <5>1. SUFFICES ASSUME t \in reset PROVE FALSE
          OBVIOUS
        <5>2. PICK x \in Below[root] : Resetting(fired, hs, x) /\ t \in Below[Current(x)]
          BY <1>0, <5>1, ResetIsBelow
        <5>3. x \in Nodes /\ 1 \in DOMAIN Kids[x] /\ Current(x) = Kids[x][1]
          BY <1>0, <5>2, ResetIsBelow
        <5>4. t \in Below[x]
          BY <5>2, <5>3, BelowStep
        <5> QED BY <1>0, <3>1, <5>2, <5>4, BelowTransitive
      <4>3. handle'[t] = handle[t]
        BY <1>0, <4>1, <4>2 DEF TickEffect, Erase
      <4> QED BY <2>9, <4>1, <4>3 DEF MayStart
    <3>2. CASE t \in Below[root]
      <4>1. A[t] = 1 /\ t \in Below[t]
        BY <1>0, RoundsStep, BelowStep DEF RoundStep
      <4>2. CASE t \in reset \/ (t \in Path(fired) /\ TickNode(hs, fired)[t] # "running")
        BY <1>0, <2>3, <3>2, <4>1, <4>2
      <4>3. CASE ~(t \in reset \/ (t \in Path(fired) /\ TickNode(hs, fired)[t] # "running"))
        <5>1. handle'[t] = IF t \in sends THEN HandleAfterSend(t, ready) ELSE handle[t]
          BY <1>0, <4>3 DEF TickEffect, Erase
        <5>2. t \notin sends /\ handle[t].phase = "none"
          BY <2>9, <5>1 DEF HandleAfterSend
        <5>3. ~b
          BY <2>0, <5>2 DEF started
        <5>4. K[t] = L[t]
          BY <1>0, <2>3, <3>2, <4>1, <4>3, <5>3
        <5> QED BY <5>2, <5>4 DEF MayStart
      <4> QED BY <4>2, <4>3
    <3> QED BY <3>1, <3>2
  <2>10. MayStart(t, K)'
    <3>1. Budget(t)' = Budget(t)
      BY <1>0 DEF Budget
    <3> QED BY <1>0, <2>5, <2>6, <2>7, <2>8, <2>9, <3>1 DEF MayStart
  <2> QED BY <2>10
<1> QED BY <1>7, <1>8

\* Callbacks that leave the tree alone use no start up.
LEMMA BudgetQuiet ==
    ASSUME BudgetInv, WalkInv', UNCHANGED <<plan, status, index, attempts, starts>>,
           \A n \in Nodes : handle'[n].phase = handle[n].phase
    PROVE  BudgetInv'
<1>1. Tasks \subseteq Nodes
  BY DEF Tasks, NodesOf
<1>2. StartsBounded'
  BY DEF BudgetInv, StartsBounded, Budget
<1>3. ASSUME status' = "running", NEW t \in Tasks PROVE \E L : MayStart(t, L)'
  <2>1. PICK L : MayStart(t, L)
    BY <1>3 DEF BudgetInv
  <2>2. ASSUME NEW m \in Below[Root[plan]], t \in Below[m], m # t PROVE Charged(t, L, m)'
    <3>1. Charged(t, L, m)
      BY <2>1, <2>2 DEF MayStart
    <3> QED BY <3>1 DEF Charged
  <2>3. Budget(t)' = Budget(t)
    BY DEF Budget
  <2>4. MayStart(t, L)'
    BY <1>1, <2>1, <2>2, <2>3 DEF MayStart
  <2> QED BY <2>4
<1> QED BY <1>2, <1>3 DEF BudgetInv

\* A run begins with all starts left.
LEMMA StartAllows ==
    ASSUME BudgetInv, WalkInv', NEW p \in Plans, OnStart(p)
    PROVE  BudgetInv'
<1>1. /\ plan' = p /\ pending = p /\ status' = "running"
      /\ index' = [n \in Nodes |-> 0] /\ attempts' = [n \in Nodes |-> 0]
      /\ starts' = [n \in Nodes |-> 0]
  BY DEF OnStart, NewExecutor
<1>2. p \in Accepted /\ Root[p] \in Nodes
  BY <1>1, PlansAssumption DEF BudgetInv, WalkInv, IInv, TypeOK, Accepted
<1>3. ASSUME NEW t \in Tasks PROVE (\E L : MayStart(t, L)') /\ starts'[t] <= Budget(t)'
  <2> DEFINE A == Rounds(t)
  <2>0. t \in Nodes /\ starts'[t] = 0
    BY <1>1 DEF Tasks, NodesOf
  <2>1. \A m \in Below[Root[p]] : A[m] \in Nat \ {0} /\ m \in Nodes
    BY <1>2, <2>0, RoundsPositive, BelowNodes
  <2>2. PICK L : L = [m \in Nodes |-> IF m \in Below[Root[p]] THEN A[m] ELSE 1]
    OBVIOUS
  <2> HIDE DEF A
  <2>3. L \in [Nodes -> Nat] /\ \A m \in Below[Root[p]] : L[m] = A[m]
    BY <2>1, <2>2
  <2>4. L[t] >= 1
    BY <2>0, <2>1, <2>2
  <2>5. Budget(t)' = A[Root[p]] /\ Root[p] \in Below[Root[p]]
    BY <1>1, <1>2, BelowStep DEF Budget, A
  <2>6. ASSUME NEW m \in Below[Root[p]], t \in Below[m], m # t PROVE Charged(t, L, m)'
    <3> DEFINE k == ChildAbove(m, t)
    <3>1. /\ A[m] >= A[k] /\ A[k] \in Nat
          /\ Kind[m] = "retry" =>
                \A a, d \in Nat : a + 1 + d = Limit[m] => A[m] >= A[k] + d * A[k]
      BY <1>2, <2>6, AffordsAnew DEF A
    <3>2. k \in Below[Root[p]]
      BY <1>2, <2>1, <2>6, ChildAboveFacts, BelowStep, BelowTransitive
    <3>3. L[m] = A[m] /\ L[k] = A[k]
      BY <2>3, <3>2
    <3>4. attempts'[m] = 0
      BY <1>1, <2>1
    <3>5. ASSUME Kind[m] = "retry", NEW d \in Nat, attempts'[m] + 1 + d = Limit[m]
          PROVE  L[m] >= L[k] + d * A[k]
      <4>1. 0 \in Nat /\ 0 + 1 + d = Limit[m]
        BY <3>4, <3>5
      <4>2. A[m] >= A[k] + d * A[k]
        BY <3>1, <3>5, <4>1
      <4> QED BY <3>3, <4>2
    <3>6. L[m] >= L[k]
      BY <3>1, <3>3
    <3> QED BY <3>5, <3>6 DEF Charged, A
  <2>7. \A m \in Below[Root[p]] : L[m] <= A[m]
    BY <2>1, <2>3
  <2>8. MayStart(t, L)'
    <3>1. starts'[t] + L[Root[p]] <= Budget(t)'
      BY <2>0, <2>1, <2>3, <2>5
    <3> QED BY <1>1, <2>3, <2>4, <2>6, <2>7, <3>1 DEF MayStart, A
  <2>9. starts'[t] <= Budget(t)'
    BY <2>0, <2>1, <2>5
  <2> QED BY <2>8, <2>9
<1>4. StartsBounded'
  BY <1>3 DEF StartsBounded
<1> QED BY <1>3, <1>4 DEF BudgetInv

\* A tick has such an effect.
LEMMA TickHasCounts ==
    ASSUME WalkInv, NEW fired \in SUBSET (Path({}) \cap NodesOf("run_until")), NEW sends,
           sends = {n \in Path(fired) \cap Tasks : Sends(n)}, NEW ready,
           TickWith(fired, sends, ready)
    PROVE  \E hs, reset, adv : CountEffect(fired, sends, ready, hs, reset, adv)
<1> DEFINE hs == [n \in Nodes |-> IF n \in sends THEN HandleAfterSend(n, ready) ELSE handle[n]]
           reset == Resets(Path(fired), TickNode(hs, fired), fired)
<1>1. PICK h, r, a : TickEffect(fired, sends, ready, h, r, a)
  BY TickHasEffect
<1>2. h = hs /\ r = reset
  BY <1>1 DEF TickEffect
<1>3. /\ attempts' = [n \in Nodes |->
             IF n \in reset THEN 0
             ELSE IF n \in Counts(Path(fired), TickNode(hs, fired))
                  THEN attempts[n] + 1 ELSE attempts[n]]
      /\ starts' = [n \in Nodes |->
             IF n \in sends /\ handle[n].phase = "none" /\ starts[n] <= Budget(n)
             THEN starts[n] + 1 ELSE starts[n]]
  BY DEF TickWith
<1> HIDE DEF hs, reset
<1>4. CountEffect(fired, sends, ready, h, r, a)
  BY <1>1, <1>2, <1>3 DEF CountEffect, WalkInv, IInv, TypeOK
<1> QED BY <1>4

\* A tick keeps the invariant.
LEMMA TickStaysInBudget == ASSUME BudgetInv, Tick PROVE BudgetInv'
<1>1. status = "running"
  BY DEF Tick
<1>A. PICK fired \in SUBSET (Path({}) \cap NodesOf("run_until")) :
        \E sends \in {{n \in Path(fired) \cap Tasks : Sends(n)}} :
           \E ready : TickWith(fired, sends, ready)
  BY DEF Tick
<1>B. PICK sends \in {{n \in Path(fired) \cap Tasks : Sends(n)}} :
        \E ready : TickWith(fired, sends, ready)
  BY <1>A
<1>2. PICK ready : TickWith(fired, sends, ready)
  BY <1>B
<1>0. WalkInv
  BY DEF BudgetInv
<1>3. PICK hs, reset, adv : CountEffect(fired, sends, ready, hs, reset, adv)
  BY <1>0, <1>2, TickHasCounts
<1>4. ASSUME NEW t \in Tasks
      PROVE  /\ starts'[t] <= Budget(t)
             /\ status' = "running" => \E M : MayStart(t, M)'
  <2>1. PICK L : MayStart(t, L)
    BY <1>1 DEF BudgetInv
  <2> QED BY <1>0, <1>1, <1>3, <2>1, TickSpends
<1>5. StartsBounded'
  <2>1. plan' = plan
    BY <1>3 DEF CountEffect, TickEffect
  <2> QED BY <1>4, <2>1 DEF StartsBounded, Budget
<1>6. WalkInv'
  BY <1>0, TickKeeps
<1> QED BY <1>4, <1>5, <1>6 DEF BudgetInv

\* So does every callback.
LEMMA BudgetInductive == ASSUME BudgetInv, [Next]_vars PROVE BudgetInv'
<1>0. WalkInv /\ WalkInv'
  BY WalkInductive DEF BudgetInv
<1>Q. ASSUME UNCHANGED <<plan, status, index, attempts, starts, handle>> PROVE BudgetInv'
  BY <1>0, <1>Q, BudgetQuiet
<1>E. ASSUME NEW g \in GoalIds, NEW outcome, Ends(g, outcome) PROVE BudgetInv'
  <2>1. ASSUME NEW n \in Nodes PROVE handle'[n].phase = handle[n].phase
    <3>1. handle[n] \in Handle
      BY <1>0 DEF WalkInv, IInv, TypeOK
    <3>2. handle'[n] = IF handle[n].goal = g THEN [handle[n] EXCEPT !.goal = outcome] ELSE handle[n]
      BY <1>E DEF Ends
    <3> QED BY <3>1, <3>2
  <2> QED BY <1>0, <1>E, <2>1, BudgetQuiet DEF Ends
<1>1. ASSUME NEW p \in Plans, OnUpload(p) PROVE BudgetInv'
  BY <1>1, <1>Q DEF OnUpload, Stage
<1>2. ASSUME NEW p \in Plans, OnStart(p) PROVE BudgetInv'
  BY <1>0, <1>2, StartAllows
<1>3. ASSUME NEW p \in Plans, OnAbort(p) PROVE BudgetInv'
  <2>1. status' = "failure" /\ plan' = plan /\ starts' = starts
    BY <1>3 DEF OnAbort
  <2>2. StartsBounded'
    BY <2>1 DEF BudgetInv, StartsBounded, Budget
  <2> QED BY <1>0, <2>1, <2>2 DEF BudgetInv
<1>5. ASSUME NEW g \in GoalIds, GoalResponse(g) PROVE BudgetInv'
  BY <1>5, <1>Q, <1>E DEF GoalResponse
<1>6. ASSUME NEW g \in GoalIds, Result(g) PROVE BudgetInv'
  BY <1>6, <1>E DEF Result
<1>7. ASSUME NEW g \in GoalIds, ServerAnswers(g) \/ ServerResolves(g) PROVE BudgetInv'
  BY <1>7, <1>Q DEF ServerAnswers, ServerResolves, ServerStep
<1>8. CASE TelemetryStatus
  BY <1>8, <1>Q DEF TelemetryStatus
<1>9. CASE UNCHANGED vars
  BY <1>9, <1>Q DEF vars
<1>10. CASE \E p \in Plans : OnUpload(p) \/ OnStart(p) \/ OnAbort(p)
  BY <1>10, <1>1, <1>2, <1>3
<1>11. CASE \E g \in GoalIds : \/ GoalResponse(g) \/ Result(g)
                              \/ ServerAnswers(g) \/ ServerResolves(g)
  BY <1>11, <1>5, <1>6, <1>7
<1> QED BY TickStaysInBudget, <1>8, <1>9, <1>10, <1>11 DEF Next

\* A task is started at most as often as the max_attempts of the retries around it allow
\* together, however they are nested with sequences and run_untils (RetryNode in
\* PlanExecutor::tick_node, reset_node).
THEOREM StartsAreBounded == Spec => []StartsBounded
<1>1. Init => BudgetInv
  BY WalkInitial DEF Init, BudgetInv, StartsBounded
<1>2. BudgetInv => StartsBounded
  BY DEF BudgetInv
<1> QED BY <1>1, <1>2, BudgetInductive, PTL DEF Spec
=============================================================================
