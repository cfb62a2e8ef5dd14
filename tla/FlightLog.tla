----------------------------- MODULE FlightLog -----------------------------
(***************************************************************************)
(* The flight logger (asr_logger, logger_node.cpp): with the trigger       *)
(* "armed" a log is opened by the first status that is not DISARMED and    *)
(* closed after the first that is.  A log's name is the second in which it *)
(* was opened.  Statuses come by best effort, so some are lost; when the   *)
(* computer loses power, so is part of what was written since the last     *)
(* fsync.  The other topics are written while a log is open.               *)
(***************************************************************************)
EXTENDS Integers, Sequences

CONSTANTS
    MaxStatuses,    \* bound: statuses that reach the logger
    MaxSeconds,     \* bound: seconds of the wall clock
    MaxPowerLosses  \* bound: how often the computer loses power

ASSUME LogBoundsAssumption ==
    MaxStatuses \in Nat /\ MaxSeconds \in Nat \ {0} /\ MaxPowerLosses \in Nat

VARIABLES
    log_trigger,  \* log_trigger_
    writer,       \* writer_: the name of the open log, or NoLog
    logs,         \* per name the statuses in the log, "active" or "disarmed"
    safe,         \* how many statuses of each log are on disk for certain
    second,       \* the wall clock
    taken,        \* history: the names that were given twice
    airborne,     \* history: the statuses since the vehicle was first seen armed
    landed,       \* history: the log and the statuses of the last flight that ended
    received,     \* history: statuses that have reached the logger
    powerLosses   \* history: how often the computer has lost power

logVars == <<log_trigger, writer, logs, safe, second, taken, airborne, landed, received,
             powerLosses>>

NoLog == 0
Names == 1..MaxSeconds
Armed == log_trigger = "armed"

LogInit ==
    /\ log_trigger \in {"armed", "always"}
    /\ second = 1
    /\ writer = IF Armed THEN NoLog ELSE second
    /\ logs = [n \in Names |-> <<>>] /\ safe = [n \in Names |-> 0]
    /\ taken = {}
    /\ airborne = <<>> /\ landed = [log |-> NoLog, statuses |-> <<>>]
    /\ received = 0 /\ powerLosses = 0

\* onStatus; initWriter overwrites a log that has the name already.
Opens(status) == Armed /\ status = "active" /\ writer = NoLog
ClosesNever(status) == FALSE
Closes(status) == Armed /\ status = "disarmed"
Write(status) ==
    LET log == IF Opens(status) THEN second ELSE writer
        before == IF Opens(status) THEN <<>> ELSE logs[log]
    IN IF log = NoLog THEN UNCHANGED <<writer, logs, safe, taken>>
       ELSE /\ logs' = [logs EXCEPT ![log] = Append(before, status)]
            /\ taken' = IF Opens(status) /\ logs[log] # <<>> THEN taken \cup {log} ELSE taken
            /\ safe' = [safe EXCEPT ![log] =
                          CASE Closes(status) -> Len(before) + 1
                            [] Opens(status) -> 0
                            [] OTHER -> @]
            /\ writer' = IF Closes(status) THEN NoLog ELSE log

OnStatus(status) ==
    /\ received < MaxStatuses
    /\ received' = received + 1
    /\ Write(status)
    /\ IF status = "active"
       THEN airborne' = Append(airborne, status) /\ UNCHANGED landed
       ELSE /\ airborne' = <<>>
            /\ landed' = IF airborne = <<>> THEN landed
                         ELSE [log |-> writer, statuses |-> Append(airborne, status)]
    /\ UNCHANGED <<log_trigger, second, powerLosses>>

OnFlushTimer ==
    /\ writer # NoLog
    /\ safe' = [safe EXCEPT ![writer] = Len(logs[writer])]
    /\ UNCHANGED <<log_trigger, writer, logs, second, taken, airborne, landed, received,
                   powerLosses>>

SecondPasses ==
    /\ second < MaxSeconds
    /\ second' = second + 1
    /\ UNCHANGED <<log_trigger, writer, logs, safe, taken, airborne, landed, received,
                   powerLosses>>

\* The logger starts anew with the computer, some seconds later; of what was not yet
\* on disk a part is lost.
PowerLoss ==
    /\ powerLosses < MaxPowerLosses
    /\ powerLosses' = powerLosses + 1
    /\ second' \in second + 1..MaxSeconds
    /\ writer' = IF Armed THEN NoLog ELSE second'
    /\ logs' \in {[n \in Names |-> SubSeq(logs[n], 1, IF k < safe[n] THEN safe[n]
                                      ELSE IF k > Len(logs[n]) THEN Len(logs[n]) ELSE k)] :
                  k \in 0..MaxStatuses}
    /\ safe' = [n \in Names |-> Len(logs'[n])]
    /\ airborne' = <<>>
    /\ UNCHANGED <<log_trigger, taken, landed, received>>

LogNext ==
    \/ OnStatus("active") \/ OnStatus("disarmed")
    \/ OnFlushTimer \/ SecondPasses \/ PowerLoss

LogSpec == LogInit /\ [][LogNext]_logVars

-----------------------------------------------------------------------------
\* "one log per flight", of all that has come between the first status of the flight
\* and its "final disarmed sample", and no loss of power afterwards takes anything
\* away; only a flight that begins in the same second as the one before replaces it.
FlightLogged ==
    Armed /\ landed.log # NoLog /\ landed.log \notin taken
      => logs[landed.log] = landed.statuses
=============================================================================
