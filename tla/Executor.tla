------------------------------ MODULE Executor ------------------------------
(***************************************************************************)
(* What the mission executor node promises to whoever talks to it over     *)
(* in/mission_upload, in/mission_start and in/mission_abort: an uploaded   *)
(* plan is staged if it is valid, a start uses up the staged plan, a plan  *)
(* runs until it ends or is aborted, and requests that do not fit change   *)
(* nothing.  Mission implements it; MissionBridge builds on it.            *)
(***************************************************************************)
CONSTANTS
    Plans,   \* the plans an operator may upload
    NoPlan,  \* no plan
    Valid    \* the plans without validation errors

VARIABLES
    pending,  \* validated, not yet started
    plan,     \* started last
    status    \* "running", "success" or "failure" of plan

vars == <<pending, plan, status>>

Init == pending = NoPlan /\ plan = NoPlan /\ status = "success"

Upload(p) ==
    /\ status # "running"
    /\ pending' = IF p \in Valid THEN p ELSE NoPlan
    /\ UNCHANGED <<plan, status>>

Start(p) ==
    /\ pending = p
    /\ pending' = NoPlan
    /\ plan' = p
    /\ status' = "running"

Tick ==
    /\ status = "running"
    /\ status' \in {"running", "success", "failure"}
    /\ UNCHANGED <<pending, plan>>

Abort(p) ==
    /\ status = "running"
    /\ plan = p
    /\ status' = "failure"
    /\ UNCHANGED <<pending, plan>>

Next == (\E p \in Plans : Upload(p) \/ Start(p) \/ Abort(p)) \/ Tick

Spec == Init /\ [][Next]_vars
=============================================================================
