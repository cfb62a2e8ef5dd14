CONSTANTS
  Commands = {"goto", "estop"}
  Events = {"armed", "positionLost"}
  MaxGoals = 2
  MaxLandReplans = 1
  RampTicks = 1
SPECIFICATION FairSpec
PROPERTY SafetyTimerIndependent
