------------------------------ MODULE MCBridge ------------------------------
(***************************************************************************)
(* What the two ends of the link do for the operator, for model checking.  *)
(* A behaviour is one of the mission bridge, of the command path, of peer  *)
(* discovery with the camera stream, of link supervision or of the RTK     *)
(* base: the five keep no state in common, so their states add up rather   *)
(* than multiply.                                                          *)
(***************************************************************************)
EXTENDS MissionBridge, CommandPath, PeerLink, LinkHealth, RtkBase

VARIABLE protocol

endVars == <<bridgeVars, commandVars, peerVars, healthVars, baseVars, protocol>>

EndsInit ==
    /\ BridgeInit /\ CommandInit /\ HealthInit
    /\ \/ protocol \in {"missions", "commands", "health"} /\ PeersOff /\ BaseOff
       \/ protocol = "peers" /\ PeerInit /\ BaseOff
       \/ protocol = "base" /\ PeersOff /\ BaseInit

EndsNext ==
    /\ UNCHANGED protocol
    /\ \/ /\ protocol = "missions" /\ BridgeNext
          /\ UNCHANGED <<commandVars, peerVars, healthVars, baseVars>>
       \/ /\ protocol = "commands" /\ CommandNext
          /\ UNCHANGED <<bridgeVars, peerVars, healthVars, baseVars>>
       \/ /\ protocol = "peers" /\ PeerNext
          /\ UNCHANGED <<bridgeVars, commandVars, healthVars, baseVars>>
       \/ /\ protocol = "health" /\ HealthNext
          /\ UNCHANGED <<bridgeVars, commandVars, peerVars, baseVars>>
       \/ /\ protocol = "base" /\ BaseNext
          /\ UNCHANGED <<bridgeVars, commandVars, peerVars, healthVars>>

\* The fair actions of the protocols that a behaviour is not about stay disabled.
FairEndsSpec ==
    /\ EndsInit /\ [][EndsNext]_endVars
    /\ Fairness /\ CommandFairness /\ PeerFairness /\ HealthFairness /\ BaseFairness
=============================================================================
