---------------------------- MODULE MissionBridge ----------------------------
(***************************************************************************)
(* The mission bridge: comms_gcs sends uploads, starts and aborts to       *)
(* comms_uav over the WiFi link, resends what gets no reply and takes a    *)
(* Validate or a Status coming back for the reply (handle_mission_v2_-     *)
(* extension, check_mission_retries); comms_uav hands the blobs to the     *)
(* mission executor and returns what that publishes.                       *)
(*                                                                         *)
(* The link loses messages and delays them past each other.  A blob is one *)
(* message here: MissionTransport models how it is cut into fragments.     *)
(***************************************************************************)
EXTENDS Integers, Executor

CONSTANTS
    MaxAttempts,  \* MISSION_MAX_RETRIES: sends of one request
    MaxRequests,  \* bound: requests of the operator
    MaxCopies     \* bound: copies of one message on the link

ASSUME BoundsAssumption ==
    /\ MaxAttempts \in Nat \ {0}
    /\ MaxRequests \in Nat
    /\ MaxCopies \in Nat \ {0}

VARIABLES
    request,  \* pending_upload_, pending_start_, pending_abort_
    up,       \* messages on the way to the vehicle
    down,     \* messages on the way to the ground station
    asked,    \* history: requests the operator has made
    begun,    \* history: the start requests among them
    runs      \* history: plans the executor has started

executorVars == <<pending, plan, status>>
linkVars == <<up, down>>
history == <<asked, begun, runs>>
bridgeVars == <<executorVars, request, linkVars, history>>

Requests == {"upload", "start", "abort"}
Replies == {"validate", "status"}
Idle == [active |-> FALSE, blob |-> NoPlan, attempts |-> 0]

BridgeInit ==
    /\ Init
    /\ request = [k \in Requests |-> Idle]
    /\ up = [m \in Requests \X Plans |-> 0]
    /\ down = [m \in Replies |-> 0]
    /\ asked = 0 /\ begun = 0 /\ runs = 0

-----------------------------------------------------------------------------
\* A message that is sent gets on the link or is lost.
Send(link, m) ==
    {link} \cup IF link[m] < MaxCopies THEN {[link EXCEPT ![m] = @ + 1]} ELSE {}
Take(link, m) == [link EXCEPT ![m] = @ - 1]

\* on_mission_upload, on_mission_start, on_mission_abort
OnMission(k, p) ==
    /\ asked < MaxRequests
    /\ asked' = asked + 1
    /\ begun' = IF k = "start" THEN begun + 1 ELSE begun
    /\ request' = [request EXCEPT ![k] = [active |-> TRUE, blob |-> p, attempts |-> 1]]
    /\ up' \in Send(up, <<k, p>>)
    /\ UNCHANGED <<executorVars, down, runs>>

\* check_mission_retries; MISSION_RETRY_TIMEOUT may pass at any time.
RetryUncounted(k) ==
    /\ request[k].active
    /\ request[k].attempts < MaxAttempts
    /\ up' \in Send(up, <<k, request[k].blob>>)
    /\ UNCHANGED <<executorVars, request, down, history>>
Retry(k) ==
    /\ request[k].active
    /\ request[k].attempts < MaxAttempts
    /\ request' = [request EXCEPT ![k].attempts = @ + 1]
    /\ up' \in Send(up, <<k, request[k].blob>>)
    /\ UNCHANGED <<executorVars, down, history>>

GiveUp(k) ==
    /\ request[k].active
    /\ request[k].attempts >= MaxAttempts
    /\ request' = [request EXCEPT ![k].active = FALSE]
    /\ UNCHANGED <<executorVars, linkVars, history>>

\* comms_uav and the executor: a request that the executor takes is answered by a
\* Validate, by the Status that an abort publishes at once, or, for a start, not
\* before the next tick; one that it refuses is not answered.
ReceiveUpload(p) ==
    /\ IF status # "running"
       THEN Upload(p) /\ down' \in Send(down, "validate")
       ELSE UNCHANGED <<executorVars, down>>
    /\ UNCHANGED runs

ReceiveStart(p) ==
    /\ IF pending = p
       THEN Start(p) /\ runs' = runs + 1
       ELSE UNCHANGED <<executorVars, runs>>
    /\ UNCHANGED down

ReceiveAbort(p) ==
    /\ IF status = "running" /\ plan = p
       THEN Abort(p) /\ down' \in Send(down, "status")
       ELSE UNCHANGED <<executorVars, down>>
    /\ UNCHANGED runs

Receive(k, p) ==
    /\ up[<<k, p>>] > 0
    /\ up' = Take(up, <<k, p>>)
    /\ \/ k = "upload" /\ ReceiveUpload(p)
       \/ k = "start" /\ ReceiveStart(p)
       \/ k = "abort" /\ ReceiveAbort(p)
    /\ UNCHANGED <<request, asked, begun>>

ExecutorTick ==
    /\ Tick
    /\ down' \in Send(down, "status")
    /\ UNCHANGED <<request, up, history>>

\* comms_gcs: neither reply is matched with the request it ends.
HandleReply(r) ==
    /\ down[r] > 0
    /\ down' = Take(down, r)
    /\ request' = [k \in Requests |->
          IF (k = "upload") = (r = "validate")
          THEN [request[k] EXCEPT !.active = FALSE] ELSE request[k]]
    /\ UNCHANGED <<executorVars, up, history>>

BridgeNext ==
    \/ \E k \in Requests :
         \/ Retry(k) \/ GiveUp(k)
         \/ \E p \in Plans : OnMission(k, p) \/ Receive(k, p)
    \/ ExecutorTick
    \/ \E r \in Replies : HandleReply(r)

BridgeSpec == BridgeInit /\ [][BridgeNext]_bridgeVars

\* The 500 ms retry timer of the ground station keeps firing.
Fairness == \A k \in Requests : WF_bridgeVars(Retry(k) \/ GiveUp(k))
FairBridgeSpec == BridgeSpec /\ Fairness

-----------------------------------------------------------------------------
\* A late retry may restage a plan and start it again, after it has ended, but one
\* start request flies the plan no more often than it is sent.
RunsBounded == runs <= begun * MaxAttempts

\* Every request is answered or given up, however many messages the link loses: the
\* ground station does not resend for ever.
RequestSettles == \A k \in Requests : request[k].active ~> ~request[k].active

\* "any Status confirms a start or abort took effect" (comms_gcs.cpp): the abort of
\* a running plan is not taken for answered while the plan runs on.
StatusConfirmsAbort ==
    [][/\ request["abort"].active
       /\ ~request'["abort"].active
       /\ request["abort"].attempts < MaxAttempts
       => ~(status = "running" /\ plan = request["abort"].blob)]_bridgeVars
=============================================================================
