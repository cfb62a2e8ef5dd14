----------------------------- MODULE MCVehicle -----------------------------
(***************************************************************************)
(* Small parts of the system side by side, for model checking: one         *)
(* direction of the link, as MCLink has it, or a node of the vehicle next  *)
(* to the mission: the autopilot's trajectory planner, the camera relay,   *)
(* the detection filter or the flight logger.  As they are modelled they   *)
(* keep no state in common, so that a behaviour has one of them and their  *)
(* states add up rather than multiply.                                     *)
(***************************************************************************)
EXTENDS MCLink, PathPlanner, CameraRelay, DetectionFilter, FlightLog

VARIABLE node

vehicleVars == <<linkVars, plannerVars, relayVars, filterVars, logVars, node>>

VehicleInit ==
    /\ LinkInit /\ PlannerInit /\ RelayInit /\ FilterInit /\ LogInit
    /\ node \in {"link", "path_planner", "camera_relay", "detection_filter", "asr_logger"}
    /\ node # "link" => traffic = "missions"
    /\ node # "camera_relay" => ~publish_on_sync
    /\ node # "asr_logger" => log_trigger = "armed"

VehicleNext ==
    /\ UNCHANGED node
    /\ \/ /\ node = "link" /\ LinkNext
          /\ UNCHANGED <<plannerVars, relayVars, filterVars, logVars>>
       \/ /\ node = "path_planner" /\ PlannerNext
          /\ UNCHANGED <<linkVars, relayVars, filterVars, logVars>>
       \/ /\ node = "camera_relay" /\ RelayNext
          /\ UNCHANGED <<linkVars, plannerVars, filterVars, logVars>>
       \/ /\ node = "detection_filter" /\ FilterNext
          /\ UNCHANGED <<linkVars, plannerVars, relayVars, logVars>>
       \/ /\ node = "asr_logger" /\ LogNext
          /\ UNCHANGED <<linkVars, plannerVars, relayVars, filterVars>>

VehicleSpec == VehicleInit /\ [][VehicleNext]_vehicleVars
=============================================================================
