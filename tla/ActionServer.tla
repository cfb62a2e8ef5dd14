---------------------------- MODULE ActionServer ----------------------------
(***************************************************************************)
(* What the UAVCommand action server of the autopilot promises its clients *)
(* (asr_autopilot/src/main.cpp, handleUAVCommand to execute): goals are    *)
(* worked on one at a time, in the order they were accepted, each is       *)
(* resolved once, and only a goal whose cancellation was asked for is      *)
(* reported as canceled.  While a goal waits for the one before it, the    *)
(* server takes no other request.                                          *)
(***************************************************************************)
EXTENDS Integers, Sequences

CONSTANT MaxGoals  \* bound: goals accepted in one behaviour

VARIABLES
    status,  \* the status of every accepted goal, oldest first
    worker   \* the goal the server works on; 0 before the first

vars == <<status, worker>>

Status == {"executing", "canceling", "succeeded", "canceled"}
Resolved(g) == status[g] \in {"succeeded", "canceled"}
Listening == worker = Len(status)

Init == status = <<>> /\ worker = 0

Accept ==
    /\ Listening
    /\ Len(status) < MaxGoals
    /\ status' = Append(status, "executing")
    /\ UNCHANGED worker

Start ==
    /\ ~Listening
    /\ worker > 0 => Resolved(worker)
    /\ worker' = worker + 1
    /\ UNCHANGED status

Cancel(g) ==
    /\ Listening
    /\ status[g] = "executing"
    /\ status' = [status EXCEPT ![g] = "canceling"]
    /\ UNCHANGED worker

\* Success is reported for whatever execute completes, cancelled in the meantime
\* or not; the goal's message tells how it ended.
Resolve ==
    /\ worker > 0
    /\ ~Resolved(worker)
    /\ \E s \in {"succeeded", "canceled"} :
         /\ s = "canceled" => status[worker] = "canceling"
         /\ status' = [status EXCEPT ![worker] = s]
    /\ UNCHANGED worker

Next == Accept \/ Start \/ (\E g \in DOMAIN status : Cancel(g)) \/ Resolve

Spec == Init /\ [][Next]_vars

-----------------------------------------------------------------------------
TypeOK ==
    /\ status \in Seq(Status)
    /\ worker \in 0..Len(status)
    /\ worker >= Len(status) - 1

\* Every goal but the one worked on and the one that waits for it is resolved, so
\* a goal's thread never overlaps another's (handleAccepted joins it first).
OneAtATime == \A g \in 1..worker - 1 : Resolved(g)

\* The answer a client got for a goal is final.
ResolvedOnce ==
    [][\A g \in DOMAIN status : Resolved(g) => status'[g] = status[g]]_vars
=============================================================================
