------------------------------ MODULE RtkBase ------------------------------
(***************************************************************************)
(* The RTK base station (asr_drivers, rtcm_reader.py): a thread opens the  *)
(* u-blox receiver, asks what became of its survey, configures it if it    *)
(* has none, waits for the survey to end and passes its corrections on.    *)
(* The receiver keeps survey and configuration in RAM: they outlast the    *)
(* loss of the data connection and are gone after a power cycle.           *)
(***************************************************************************)
EXTENDS Integers

CONSTANT MaxFaults  \* bound: disconnections, lost replies and refusals

ASSUME FaultsAssumption == MaxFaults \in Nat

VARIABLES
    receiver,    \* plugged: it is there; survey: "none", "active" or "valid";
                 \* rtcm: the output of corrections is enabled
    reader,      \* what the thread is at
    serial,      \* the Serial it has open works
    unanswered,  \* history: the receiver has not replied to a poll
    refused,     \* history: it has rejected the start of a survey, the last time
    faults       \* history: disconnections, lost replies and refusals

baseVars == <<receiver, reader, serial, unanswered, refused, faults>>

BaseStart(there) ==
    /\ receiver \in [plugged : there, survey : {"none"}, rtcm : {FALSE}]
    /\ reader = "waiting"
    /\ serial = FALSE
    /\ unanswered = FALSE /\ refused = FALSE
    /\ faults = 0
BaseInit == BaseStart(BOOLEAN)
BaseOff == BaseStart({FALSE})

Fault == faults < MaxFaults /\ faults' = faults + 1

-----------------------------------------------------------------------------
\* _wait_for_port
OpenedConfiguring == "configuring"
Opened == "polling"
WaitForPort ==
    /\ reader = "waiting"
    /\ receiver.plugged
    /\ serial' = TRUE
    /\ reader' = Opened
    /\ UNCHANGED <<receiver, unanswered, refused, faults>>

\* _survey_state, and what _run makes of it.  No reply reads as no survey.
After(state) ==
    CASE state = "valid" -> "resuming"
      [] state = "active" -> "enabling"
      [] state = "none" -> "configuring"
SurveyState ==
    /\ reader = "polling" /\ serial
    /\ \/ /\ reader' = After(receiver.survey)
          /\ UNCHANGED <<unanswered, faults>>
       \/ /\ Fault
          /\ reader' = After("none")
          /\ unanswered' = TRUE
    /\ UNCHANGED <<receiver, serial, refused>>

\* _configure_receiver: the time mode is reset first; the survey that is asked for
\* then may be refused, and nothing waits for that to be put right.
ResetTimeMode ==
    /\ reader = "configuring" /\ serial
    /\ reader' = "starting"
    /\ receiver' = [receiver EXCEPT !.survey = "none"]
    /\ UNCHANGED <<serial, unanswered, refused, faults>>
StartSurvey ==
    /\ reader = "starting" /\ serial
    /\ reader' = "enabling"
    /\ \/ /\ receiver' = [receiver EXCEPT !.survey = "active"]
          /\ refused' = FALSE
          /\ UNCHANGED faults
       \/ /\ Fault
          /\ refused' = TRUE
          /\ UNCHANGED receiver
    /\ UNCHANGED <<serial, unanswered>>

\* _enable_rtcm_output: for a new survey, one that goes on and one that is over.
EnableOutput ==
    /\ reader \in {"enabling", "resuming"} /\ serial
    /\ reader' = IF reader = "resuming" THEN "streaming" ELSE "surveying"
    /\ receiver' = [receiver EXCEPT !.rtcm = TRUE]
    /\ UNCHANGED <<serial, unanswered, refused, faults>>

\* _wait_for_survey: it is over when the receiver says so, or when the accuracy and
\* the time that were asked for are reached, even if the receiver goes on.
SurveyIgnored == TRUE
SurveyOver == receiver.survey \in {"active", "valid"}
WaitForSurvey ==
    /\ reader = "surveying" /\ serial
    /\ SurveyOver
    /\ reader' = "streaming"
    /\ UNCHANGED <<receiver, serial, unanswered, refused, faults>>

\* _run: a lost link is an exception at the next read or write.  One that is neither
\* a SerialException nor an OSError ends the thread; where the input buffer is
\* cleared, the serial library passes such an error of the terminal on.
LossSwallowed ==
    /\ reader \notin {"waiting", "ended", "surveying"}
    /\ ~serial
    /\ reader' = "waiting"
    /\ UNCHANGED <<receiver, serial, unanswered, refused, faults>>
LinkLost ==
    /\ reader \notin {"waiting", "ended"}
    /\ ~serial
    /\ reader' = "waiting"
    /\ UNCHANGED <<receiver, serial, unanswered, refused, faults>>
ThreadEnds ==
    /\ reader \in {"polling", "configuring", "starting"}
    /\ ~serial
    /\ reader' = "ended"
    /\ UNCHANGED <<receiver, serial, unanswered, refused, faults>>

-----------------------------------------------------------------------------
\* The receiver.
SurveyEnds ==
    /\ receiver.survey = "active"
    /\ receiver' = [receiver EXCEPT !.survey = "valid"]
    /\ UNCHANGED <<reader, serial, unanswered, refused, faults>>
Disconnect ==
    /\ receiver.plugged
    /\ Fault
    /\ receiver' = [receiver EXCEPT !.plugged = FALSE]
    /\ serial' = FALSE
    /\ UNCHANGED <<reader, unanswered, refused>>
PowerCycle ==
    /\ Fault
    /\ receiver' = [plugged |-> FALSE, survey |-> "none", rtcm |-> FALSE]
    /\ serial' = FALSE
    /\ UNCHANGED <<reader, unanswered, refused>>
Connect ==
    /\ ~receiver.plugged
    /\ receiver' = [receiver EXCEPT !.plugged = TRUE]
    /\ UNCHANGED <<reader, serial, unanswered, refused, faults>>

ReaderNext ==
    \/ WaitForPort \/ SurveyState \/ ResetTimeMode \/ StartSurvey \/ EnableOutput
    \/ WaitForSurvey \/ LinkLost \/ ThreadEnds

BaseNext == ReaderNext \/ SurveyEnds \/ Disconnect \/ PowerCycle \/ Connect

BaseSpec == BaseInit /\ [][BaseNext]_baseVars

\* The thread runs, and a survey ends.
BaseFairness == WF_baseVars(ReaderNext) /\ WF_baseVars(SurveyEnds)
FairBaseSpec == BaseSpec /\ BaseFairness

-----------------------------------------------------------------------------
\* "if it still holds a valid survey (it kept power -- data-only disconnect or node
\* restart), streaming resumes without re-surveying" (rtcm_reader.py), however often
\* and when the connection is lost; except when the poll gets no reply in time.
SurveyKept ==
    [][receiver.survey # "none" /\ receiver'.survey = "none"
         => ~receiver'.plugged \/ unanswered]_baseVars

\* Corrections that are passed on come from a receiver that has them enabled and whose
\* survey has begun at least, whatever was lost and reset before.
Streaming == reader = "streaming" /\ serial
StreamSurveyed == Streaming => receiver.rtcm /\ receiver.survey # "none"

\* "waits (1 s retry) for the receiver at startup and reconnects the same way if it is
\* unplugged": in the end there are corrections again, unless the receiver has refused
\* a survey or the thread has died of an exception it does not expect.
CorrectionsResume ==
    <>[]receiver.plugged => <>[](Streaming \/ refused \/ reader = "ended")
=============================================================================
