---------------------------- MODULE CommandPath ----------------------------
(***************************************************************************)
(* An operator's command on its way to the autopilot and its answer on the *)
(* way back (asr_comms): on_uav_command on the ground, forward_command and *)
(* the action client's callbacks on the vehicle, the COMMAND_ACK case of   *)
(* comms_gcs.  The autopilot is what ActionServer promises.  The links     *)
(* lose messages and let them pass each other; that none comes twice is    *)
(* the duplicate filter's part (DedupFilter).                              *)
(***************************************************************************)
EXTENDS Integers, Sequences, FiniteSets

CONSTANTS
    Known,       \* command types that have a MAVLink command of their own
    Unknown,     \* command types that on_uav_command does not know
    Video,       \* the camera stream requests
    NoCommand,   \* the empty command type
    MaxGiven     \* bound: requests of the operator

ASSUME TypesAssumption ==
    /\ Known \cap Unknown = {} /\ Video \cap (Known \cup Unknown) = {}
    /\ NoCommand \notin Known \cup Unknown \cup Video
    /\ MaxGiven \in Nat

VARIABLES
    given,     \* history: the type of every request
    pending_command_type,
    recent,    \* last_command_sent_ is less than 300 ms ago
    uplink,    \* the requests on their way to the vehicle
    sentGoals, \* goals without a response
    goalOf,    \* the request behind every accepted goal
    goals,     \* the autopilot's goals
    worker,
    told,      \* goals whose result callback has run
    acks,      \* history: the results the vehicle has sent in answer to each request
    downlink,  \* the COMMAND_ACKs on their way
    shown      \* what comms_gcs has published last on command_ack

groundVars == <<given, pending_command_type, recent>>
vehicleVars == <<sentGoals, goalOf, told>>
serverVars == <<goals, worker>>
commandVars == <<groundVars, uplink, vehicleVars, serverVars, acks, downlink, shown>>

Server == INSTANCE ActionServer WITH status <- goals, MaxGoals <- MaxGiven

CommandInit ==
    /\ given = <<>>
    /\ pending_command_type = NoCommand
    /\ recent = FALSE
    /\ uplink = {}
    /\ sentGoals = {}
    /\ goalOf = <<>>
    /\ Server!Init
    /\ told = {}
    /\ acks = [r \in 1..MaxGiven |-> <<>>]
    /\ downlink = {}
    /\ shown = [request |-> 0, command_type |-> NoCommand]

-----------------------------------------------------------------------------
\* A request gets on the link or is lost; it may also be lost there.
Leaves(m, link) == {link, link \cup {m}}

\* on_uav_command.  A repetition within 300 ms is dropped; a command without a
\* MAVLink command is remembered like any other and then dropped.
Remembered(type) == type

OnUavCommand(type) ==
    /\ Len(given) < MaxGiven
    /\ ~(type = pending_command_type /\ recent)
    /\ given' = Append(given, type)
    /\ recent' = TRUE
    /\ pending_command_type' = Remembered(type)
    /\ IF type \in Known THEN uplink' \in Leaves(Len(given'), uplink) ELSE UNCHANGED uplink
    /\ UNCHANGED <<vehicleVars, serverVars, acks, downlink, shown>>

\* on_camera_stream_request
OnCameraRequest(type) ==
    /\ Len(given) < MaxGiven
    /\ given' = Append(given, type)
    /\ uplink' \in Leaves(Len(given'), uplink)
    /\ UNCHANGED <<pending_command_type, recent, vehicleVars, serverVars, acks, downlink, shown>>

TimePasses ==
    /\ recent
    /\ recent' = FALSE
    /\ UNCHANGED <<given, pending_command_type, uplink, vehicleVars, serverVars,
                   acks, downlink, shown>>

Ack(r, result) ==
    /\ acks' = [acks EXCEPT ![r] = Append(@, result)]
    /\ downlink' \in Leaves(<<r, Len(acks'[r])>>, downlink)

\* forward_command: a camera request is answered at once, a command is denied for
\* the time being if the action server is not there, or becomes a goal.
ForwardCommand(r) ==
    /\ r \in uplink
    /\ uplink' = uplink \ {r}
    /\ \/ /\ given[r] \in Video
          /\ Ack(r, "accepted")
          /\ UNCHANGED sentGoals
       \/ /\ given[r] \in Known
          /\ Ack(r, "temporarily rejected")
          /\ UNCHANGED sentGoals
       \/ /\ given[r] \in Known
          /\ sentGoals' = sentGoals \cup {r}
          /\ UNCHANGED <<acks, downlink>>
    /\ UNCHANGED <<groundVars, goalOf, told, serverVars, shown>>

\* The server takes the goal, and the response brings a handle; or it does not.
GoalAccepted(r) ==
    /\ r \in sentGoals
    /\ Server!Accept
    /\ goalOf' = Append(goalOf, r)
    /\ sentGoals' = sentGoals \ {r}
    /\ UNCHANGED <<groundVars, uplink, told, acks, downlink, shown>>

GoalRejectedSilently(r) ==
    /\ r \in sentGoals
    /\ Server!Listening
    /\ sentGoals' = sentGoals \ {r}
    /\ UNCHANGED <<groundVars, uplink, goalOf, told, serverVars, acks, downlink, shown>>
GoalRejected(r) ==
    /\ r \in sentGoals
    /\ Server!Listening
    /\ sentGoals' = sentGoals \ {r}
    /\ Ack(r, "denied")
    /\ UNCHANGED <<groundVars, uplink, goalOf, told, serverVars, shown>>

ServerWorks ==
    /\ \/ Server!Start
       \/ Server!Resolve
       \/ \E g \in DOMAIN goals : Server!Cancel(g)
    /\ UNCHANGED <<groundVars, uplink, vehicleVars, acks, downlink, shown>>

\* result_callback: success is the autopilot's own verdict on a goal that ran to
\* its end.
ResultOfAny(g) == {"accepted", "failed"}
ResultOf(g) ==
    IF goals[g] = "canceled" THEN {"cancelled"} ELSE {"accepted", "failed"}

Result(g) ==
    /\ Server!Resolved(g)
    /\ g \notin told
    /\ told' = told \cup {g}
    /\ \E result \in ResultOf(g) : Ack(goalOf[g], result)
    /\ UNCHANGED <<groundVars, uplink, sentGoals, goalOf, serverVars, shown>>

\* The COMMAND_ACK case of handle_message: the answer is published under the type
\* of the last command.
CommandAck(ack) ==
    /\ ack \in downlink
    /\ downlink' = downlink \ {ack}
    /\ shown' = [request |-> ack[1], command_type |-> pending_command_type]
    /\ UNCHANGED <<groundVars, uplink, vehicleVars, serverVars, acks>>

CommandNext ==
    \/ \E type \in Known \cup Unknown : OnUavCommand(type)
    \/ \E type \in Video : OnCameraRequest(type)
    \/ TimePasses
    \/ \E r \in uplink : ForwardCommand(r)
    \/ \E r \in sentGoals : GoalAccepted(r) \/ GoalRejected(r)
    \/ ServerWorks
    \/ \E g \in DOMAIN goals : Result(g)
    \/ \E ack \in downlink : CommandAck(ack)

CommandSpec == CommandInit /\ [][CommandNext]_commandVars

-----------------------------------------------------------------------------
Flies(r) == {g \in DOMAIN goals : goalOf[g] = r}

\* A request is answered at most once, and the answer is the fate of that request:
\* what was denied is never flown, what was accepted was completed and what is
\* called cancelled was canceled, in whatever order goals end and callbacks run.
AckTellsFate ==
    \A r \in DOMAIN given : given[r] \in Known =>
        /\ Len(acks[r]) <= 1
        /\ \A k \in DOMAIN acks[r] :
             /\ acks[r][k] \in {"denied", "temporarily rejected"} => Flies(r) = {}
             /\ acks[r][k] = "cancelled" => \E g \in Flies(r) : goals[g] = "canceled"
             /\ acks[r][k] \in {"accepted", "failed"} =>
                  \E g \in Flies(r) : goals[g] = "succeeded"

\* The vehicle's threads run, the callbacks of the action client among them, and the
\* autopilot works its goals off.
CommandFairness ==
    /\ \A r \in 1..MaxGiven :
         /\ WF_commandVars(ForwardCommand(r))
         /\ WF_commandVars(GoalAccepted(r) \/ GoalRejected(r))
         /\ WF_commandVars(r \in DOMAIN goals /\ Result(r))
    /\ WF_commandVars(ServerWorks)
FairCommandSpec == CommandSpec /\ CommandFairness

\* A request that reached the vehicle is answered, also if the autopilot is busy
\* with other goals when it comes.
EveryRequestAnswered ==
    \A r \in 1..MaxGiven : r \in uplink \cup sentGoals ~> acks[r] # <<>>
=============================================================================
