------------------------------- MODULE MCLink -------------------------------
(***************************************************************************)
(* One direction of the link for model checking.  A behaviour has the      *)
(* traffic of one of the three that send more than one packet for a        *)
(* message: mission blobs, GNSS corrections and camera frames.  They have  *)
(* nothing but the sequence numbers in common, and the camera not even     *)
(* these, so that their states add up rather than multiply.                *)
(***************************************************************************)
EXTENDS MissionTransport, RtcmLink, CameraFrames, TLC

CONSTANTS copy1, copy2  \* the copies of a packet

VARIABLE traffic

missionVars == <<fragments, transfer_id, reassembler, sent, delivered>>
correctionVars == <<corrections, gps_rtcm, rtcm_seq, rtcm_frags, injected>>
linkVars == <<dedupVars, missionVars, correctionVars, cameraVars, traffic>>

LinkInit ==
    /\ TransportInit /\ RtcmInit /\ CameraInit
    /\ traffic \in {"missions", "corrections", "camera"}

LinkNext ==
    /\ UNCHANGED traffic
    /\ \/ /\ traffic = "missions" /\ TransportNext
          /\ UNCHANGED <<correctionVars, cameraVars>>
       \/ /\ traffic = "corrections" /\ RtcmNext
          /\ UNCHANGED <<missionVars, cameraVars>>
       \/ /\ traffic = "camera" /\ CameraNext
          /\ UNCHANGED <<dedupVars, missionVars, correctionVars>>

LinkSpec == LinkInit /\ [][LinkNext]_linkVars

\* Blobs: a short one and two of two fragments that a mixture of their fragments
\* would look like.
MCBlobs == {<<1>>, <<1, 2>>, <<2, 1>>}

\* Corrections: one packet, two and three with a rest, one that fills its last
\* fragment and one that is cut off after the third.
MCCorrections ==
    {[full |-> 0, rest |-> TRUE], [full |-> 1, rest |-> TRUE], [full |-> 2, rest |-> TRUE],
     [full |-> 2, rest |-> FALSE], [full |-> 3, rest |-> TRUE]}

Symmetry == Permutations(Copies)
=============================================================================
