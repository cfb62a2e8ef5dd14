------------------------------ MODULE Mission ------------------------------
(***************************************************************************)
(* The onboard mission executor (asr_mission): the node that stages,       *)
(* starts and aborts plans, the tick interpreter of the plan tree, the     *)
(* skill handles that turn tasks into UAVCommand goals, and the exchange   *)
(* of each goal with the action server.                                    *)
(*                                                                         *)
(* The node is single threaded: each subscription, timer and action-client *)
(* callback is one action.  The plan trees are constants.  A tick walks    *)
(* down one path of the tree and hands a status back up; which run_until   *)
(* conditions hold is a free choice at every tick.                         *)
(***************************************************************************)
EXTENDS Integers, Sequences

CONSTANTS
    Plans,        \* the plans an operator may upload
    NoPlan,       \* a null unique_ptr<Plan>
    Nodes,        \* the nodes of all plans
    Root,         \* plan -> its root node
    Kind,         \* node -> "task", "sequence", "retry" or "run_until"
    Kids,         \* node -> its children, one below a retry or a run_until
    Limit,        \* retry node -> max_attempts
    Capable,      \* nodes whose skill, params and conditions the vehicle has
    NeedsArm,     \* tasks whose skill the runner arms the vehicle for
    MaxInFlight   \* bound: goals that wait for their result

Kinds == {"task", "sequence", "retry", "run_until"}

ASSUME PlansAssumption == NoPlan \notin Plans /\ Root \in [Plans -> Nodes]
ASSUME TreeAssumption ==
    /\ Kind \in [Nodes -> Kinds]
    /\ Kids \in [Nodes -> Seq(Nodes)]
    /\ Limit \in [Nodes -> Int]
    /\ \A n \in Nodes : Kind[n] \in {"retry", "run_until"} => Len(Kids[n]) = 1
    /\ \A n \in Nodes : Kind[n] = "task" => Kids[n] = <<>>

\* A node owns its children (unique_ptr): no two places of a plan hold the same node,
\* and going down from node to child one comes to an end.
ASSUME OwnershipAssumption ==
    /\ \A m, n \in Nodes : \A i \in DOMAIN Kids[m], j \in DOMAIN Kids[n] :
          Kids[m][i] = Kids[n][j] => m = n /\ i = j
    /\ \A S \in (SUBSET Nodes) \ {{}} :
          \E n \in S : \A i \in DOMAIN Kids[n] : Kids[n][i] \notin S
ASSUME BoundsAssumption == MaxInFlight \in Nat \ {0}

VARIABLES
    pending,   \* pending_plan_: validated, not yet started
    plan,      \* plan_: started last; NoPlan before the first start
    status,    \* status_ of the node and of its executor
    index,     \* SequenceState.index of every sequence
    attempts,  \* RetryState.attempts of every retry
    handle,    \* TaskState.handle of every task
    goals,     \* the UAVCommand goals the node has sent
    armed,     \* telemetry: arming_state_ of the last status message
    starts     \* history: how often each task was started in this run

vars == <<pending, plan, status, index, attempts, handle, goals, armed, starts>>

NodesOf(k) == {n \in Nodes : Kind[n] = k}
Tasks == NodesOf("task")
GoalIds == 1..MaxInFlight

ServerStates == {"free", "sent", "rejected", "executing", "succeeded", "failed"}

\* known: the goal response has arrived, goal_handle is set.  asked: the client
\* has called async_cancel_goal.
Goal == [server : ServerStates, known : BOOLEAN, asked : BOOLEAN]
Free == [server |-> "free", known |-> FALSE, asked |-> FALSE]
Sent == [Free EXCEPT !.server = "sent"]

\* A UAVCommandSkillHandle is a "command" handle; an AutoArmSkillHandle starts
\* "arming" and becomes one.  The CallbackState of a handle is its goal in flight
\* or, once done, how it ended.
Failed == 0
Succeeded == -1
NoHandle == [phase |-> "none", goal |-> Failed]
Handle == [phase : {"none", "arming", "command"},
           goal : GoalIds \cup {Failed, Succeeded}]

-----------------------------------------------------------------------------
(* Validation.                                                             *)

Below[n \in Nodes] == {n} \cup UNION {Below[Kids[n][i]] : i \in DOMAIN Kids[n]}

NodeError(n) ==
    \/ n \notin Capable
    \/ Kind[n] = "sequence" /\ Kids[n] = <<>>
    \/ Kind[n] = "retry" /\ Limit[n] < 1

Accepted == {p \in Plans : ~ \E n \in Below[Root[p]] : NodeError(n)}

-----------------------------------------------------------------------------
(* Handles and goals.                                                      *)

FreeIds == {g \in GoalIds : goals[g] = Free}
Fresh == CHOOSE g \in FreeIds : TRUE

\* poll of the handle's present goal.
Poll(h) ==
    CASE h.goal = Failed -> "failure"
      [] h.goal = Succeeded -> "success"
      [] OTHER -> "running"

\* Ticking task n sends a goal: its first, or its command once it has armed.
Sends(n) ==
    \/ handle[n].phase = "none"
    \/ handle[n].phase = "arming" /\ Poll(handle[n]) = "success"

HandleAfterSend(n, ready) ==
    [phase |-> IF handle[n].phase = "none" /\ n \in NeedsArm /\ ~armed
                  THEN "arming" ELSE "command",
     goal  |-> IF ready THEN Fresh ELSE Failed]

\* Handles of the nodes in S are destroyed; a goal is canceled only if its
\* response has arrived and its result has not.
CancelNone(gs, hs, S) == gs
Cancel(gs, hs, S) ==
    [g \in GoalIds |->
        IF gs[g].known /\ \E n \in S : hs[n].goal = g
        THEN [gs[g] EXCEPT !.asked = TRUE] ELSE gs[g]]

Erase(hs, S) == [n \in Nodes |-> IF n \in S THEN NoHandle ELSE hs[n]]

-----------------------------------------------------------------------------
(* One tick of the interpreter.                                            *)

\* Below a run_until whose condition has fired nothing is ticked; a sequence
\* past its last child would read outside of its children.
Leaf(n, fired) == n \in fired \/ index[n] >= Len(Kids[n])
Current(n) == Kids[n][index[n] + 1]

PathFrom(fired) ==
    LET P[n \in Nodes] ==
            {n} \cup (IF Leaf(n, fired) THEN {} ELSE P[Current(n)])
    IN P
Path(fired) == PathFrom(fired)[Root[plan]]

RetryExhaustedLate(n) == attempts[n] >= Limit[n]
RetryExhausted(n) == attempts[n] + 1 >= Limit[n]

SequenceEndsLate(n) == FALSE
SequenceEnds(n) == index[n] + 1 >= Len(Kids[n])

\* What tick_node returns for n when the tasks' handles are hs.
TickNode(hs, fired) ==
    LET R[n \in Nodes] ==
            IF Kind[n] = "task" THEN Poll(hs[n])
            ELSE IF Leaf(n, fired) THEN IF n \in fired THEN "success" ELSE "failure"
            ELSE LET child == R[Current(n)] IN
                 IF \/ Kind[n] = "sequence" /\ child = "success" /\ ~SequenceEnds(n)
                    \/ Kind[n] = "retry" /\ child = "failure" /\ ~RetryExhausted(n)
                 THEN "running" ELSE child
    IN R

\* The children that reset_node is called on: of a run_until that fired, and of a
\* retry whose child failed and that has an attempt left.
ResetsRetryOnly(path, R, fired) ==
    UNION {Below[Current(n)] : n \in {m \in path \cap NodesOf("retry") :
                    R[Current(m)] = "failure" /\ ~RetryExhausted(m)}}
Resets(path, R, fired) ==
    ResetsRetryOnly(path, R, fired)
      \cup UNION {Below[Current(n)] : n \in path \cap fired}

CountNone(path, R) == {}
Counts(path, R) ==
    {n \in path \cap NodesOf("retry") : R[Current(n)] = "failure"}

Advances(path, R) ==
    {n \in path \cap NodesOf("sequence") :
        index[n] < Len(Kids[n]) /\ R[Current(n)] = "success"}

\* The child of m that n is below.
ChildAbove(m, n) == Kids[m][CHOOSE i \in DOMAIN Kids[m] : n \in Below[Kids[m][i]]]

\* How often a run of m may start n: max_attempts of the retries around n, multiplied.
Rounds(n) ==
    LET A[m \in Nodes] ==
            IF n = m \/ n \notin Below[m] THEN 1
            ELSE (IF Kind[m] = "retry" THEN Limit[m] ELSE 1) * A[ChildAbove(m, n)]
    IN A
Budget(n) == Rounds(n)[Root[plan]]

-----------------------------------------------------------------------------
(* The node's callbacks.  Requests that are refused (an upload or a start  *)
(* that does not fit, an abort of another plan, a blob that does not       *)
(* parse) change nothing and are left out.                                 *)

Init ==
    /\ pending = NoPlan
    /\ plan = NoPlan
    /\ status = "success"
    /\ index = [n \in Nodes |-> 0]
    /\ attempts = [n \in Nodes |-> 0]
    /\ handle = [n \in Nodes |-> NoHandle]
    /\ goals = [g \in GoalIds |-> Free]
    /\ armed = FALSE
    /\ starts = [n \in Nodes |-> 0]

Stage(p) ==
    /\ pending' = IF p \in Accepted THEN p ELSE NoPlan
    /\ UNCHANGED <<plan, status, index, attempts, handle, goals, armed, starts>>

OnUploadUnchecked(p) ==
    /\ status # "running"
    /\ pending' = p
    /\ UNCHANGED <<plan, status, index, attempts, handle, goals, armed, starts>>
OnUpload(p) ==
    /\ status # "running"
    /\ Stage(p)

\* The executor before this one goes with its state and its handles; nothing is
\* canceled.
NewExecutor(p) ==
    /\ plan' = p
    /\ status' = "running"
    /\ index' = [n \in Nodes |-> 0]
    /\ attempts' = [n \in Nodes |-> 0]
    /\ handle' = [n \in Nodes |-> NoHandle]
    /\ starts' = [n \in Nodes |-> 0]
    /\ UNCHANGED <<goals, armed>>

OnStartStaysStaged(p) == pending = p /\ NewExecutor(p) /\ UNCHANGED pending
OnStart(p) ==
    /\ pending = p
    /\ NewExecutor(p)
    /\ pending' = NoPlan

\* The conditions of fired hold, the tasks of sends send their next goal, and the
\* action server is ready or not.
TickWith(fired, sends, ready) ==
    LET path == Path(fired)
        hs == [n \in Nodes |->
                 IF n \in sends THEN HandleAfterSend(n, ready) ELSE handle[n]]
        gs == IF sends # {} /\ ready THEN [goals EXCEPT ![Fresh] = Sent] ELSE goals
        R == TickNode(hs, fired)
        reset == Resets(path, R, fired)
    IN /\ sends # {} => FreeIds # {}
       /\ status' = R[Root[plan]]
       /\ index' = [n \in Nodes |->
             IF n \in reset THEN 0
             ELSE IF n \in Advances(path, R) THEN index[n] + 1 ELSE index[n]]
       /\ attempts' = [n \in Nodes |->
             IF n \in reset THEN 0
             ELSE IF n \in Counts(path, R) THEN attempts[n] + 1 ELSE attempts[n]]
       /\ handle' = Erase(hs, reset)
       /\ goals' = Cancel(gs, hs, reset)
       /\ starts' = [n \in Nodes |->
             IF n \in sends /\ handle[n].phase = "none" /\ starts[n] <= Budget(n)
             THEN starts[n] + 1 ELSE starts[n]]
       /\ UNCHANGED <<pending, plan, armed>>

\* The timer callback; it is the timer's last when the plan ends.
Tick ==
    /\ status = "running"
    /\ \E fired \in SUBSET (Path({}) \cap NodesOf("run_until")) :
       \E sends \in {{n \in Path(fired) \cap Tasks : Sends(n)}} :
       \E ready \in IF sends = {} THEN {TRUE} ELSE BOOLEAN :
          TickWith(fired, sends, ready)

\* executor_->abort() resets the whole tree; the tick that follows only reports it.
OnAbort(p) ==
    /\ status = "running"
    /\ plan = p
    /\ status' = "failure"
    /\ LET reset == Below[Root[plan]]
       IN /\ index' = [n \in Nodes |-> IF n \in reset THEN 0 ELSE index[n]]
          /\ attempts' = [n \in Nodes |-> IF n \in reset THEN 0 ELSE attempts[n]]
          /\ handle' = Erase(handle, reset)
          /\ goals' = Cancel(goals, handle, reset)
    /\ UNCHANGED <<pending, plan, armed, starts>>

-----------------------------------------------------------------------------
(* The action client's callbacks and the server it talks to.               *)

Ends(g, outcome) ==
    /\ goals' = [goals EXCEPT ![g] = Free]
    /\ handle' = [n \in Nodes |->
          IF handle[n].goal = g THEN [handle[n] EXCEPT !.goal = outcome] ELSE handle[n]]
    /\ UNCHANGED <<pending, plan, status, index, attempts, armed, starts>>

GoalResponse(g) ==
    /\ ~goals[g].known
    /\ \/ goals[g].server = "rejected" /\ Ends(g, Failed)
       \/ /\ goals[g].server \notin {"free", "sent", "rejected"}
          /\ goals' = [goals EXCEPT ![g].known = TRUE]
          /\ UNCHANGED <<pending, plan, status, index, attempts, handle, armed, starts>>

Result(g) ==
    /\ goals[g].known
    /\ \/ goals[g].server = "succeeded" /\ Ends(g, Succeeded)
       \/ goals[g].server = "failed" /\ Ends(g, Failed)

ServerStep(g, from, to) ==
    /\ goals[g].server \in from
    /\ \E s \in to : goals' = [goals EXCEPT ![g].server = s]
    /\ UNCHANGED <<pending, plan, status, index, attempts, handle, armed, starts>>

ServerAnswers(g) == ServerStep(g, {"sent"}, {"executing", "rejected"})

\* "failed" is every end but success: aborted, canceled, or succeeded with
\* result.success unset.  Goals end that way with or without a cancellation, and
\* a cancellation may come too late.
ServerResolves(g) == ServerStep(g, {"executing"}, {"succeeded", "failed"})

TelemetryStatus ==
    /\ armed' = ~armed
    /\ UNCHANGED <<pending, plan, status, index, attempts, handle, goals, starts>>

Next ==
    \/ \E p \in Plans : OnUpload(p) \/ OnStart(p) \/ OnAbort(p)
    \/ Tick
    \/ \E g \in GoalIds : \/ GoalResponse(g) \/ Result(g)
                          \/ ServerAnswers(g) \/ ServerResolves(g)
    \/ TelemetryStatus

Spec == Init /\ [][Next]_vars

\* The timer fires and the client's callbacks are run; the server answers every
\* goal and works it off.
Fairness ==
    /\ WF_vars(Tick)
    /\ WF_vars(\E g \in GoalIds : GoalResponse(g) \/ Result(g))
    /\ WF_vars(\E g \in GoalIds : ServerAnswers(g) \/ ServerResolves(g))

FairSpec == Spec /\ Fairness

-----------------------------------------------------------------------------
(* Properties.                                                             *)

Unresolved(n) == handle[n].goal \in GoalIds

\* Only plans that the validation found no error in are staged or run.  (status is
\* whatever tick_node returns for the root.)
TypeOK ==
    /\ pending \in Accepted \cup {NoPlan}
    /\ plan \in Accepted \cup {NoPlan}
    /\ index \in [Nodes -> Nat]
    /\ attempts \in [Nodes -> Nat]
    /\ handle \in [Nodes -> Handle]
    /\ goals \in [GoalIds -> Goal]
    /\ armed \in BOOLEAN
    /\ starts \in [Nodes -> Nat]

\* A sequence that is ticked again still has a child to tick: children[index] of
\* SequenceNode is never read past its end, across retries and aborts.
IndexInRange ==
    status = "running" =>
        \A n \in Path({}) : Kind[n] = "sequence" => index[n] < Len(Kids[n])

\* However sequences, retries and run_untils are nested, one task at most waits
\* for its goal: the vehicle is never given two commands by two live tasks.  A plan
\* that ended, on its own, early or by an abort, waits for none.
OneTaskWaits ==
    \A m, n \in Nodes : Unresolved(m) /\ Unresolved(n) => m = n /\ status = "running"

\* A task whose handle is reset leaves no goal behind that the client knows to be
\* executing, unless the cancellation of that goal has been asked for.
NothingAbandoned ==
    [][\A g \in GoalIds :
         /\ \E n \in Nodes : handle[n].goal = g
         /\ \A n \in Nodes : handle'[n].goal # g
         /\ goals'[g].known
         => goals'[g].asked]_vars

\* A task is started at most as often as the retries around it allow together.
StartsBounded == plan # NoPlan => \A n \in Tasks : starts[n] <= Budget(n)

\* A plan that runs is not replaced by another, uploaded or started meanwhile, and
\* a start takes the plan that was staged last.
PlanNotReplaced ==
    [][status = "running" => plan' = plan /\ pending' = pending]_vars

\* What publish_status says of status; anything it does not know is a failure.
State == IF status \in {"running", "success"} THEN status ELSE "failure"

\* What the bridge sees of the node is an Executor: a start uses up the staged plan,
\* whatever goes on in the plan tree and with the goals.
Promise == INSTANCE Executor WITH Valid <- Accepted, status <- State
ExecutorSpec == Promise!Spec

\* A plan that was started ends, when the server answers its goals: no nesting of
\* retries loops for ever and no result is missed.
PlanEnds == status = "running" ~> status # "running"

\* "Operator abort: cancel anything running and stop the plan." (plan_executor.h)
AbortCancelsEverything ==
    status = "failure" =>
        \A g \in GoalIds : goals[g].known /\ goals[g].server = "executing"
                             => goals[g].asked
=============================================================================
