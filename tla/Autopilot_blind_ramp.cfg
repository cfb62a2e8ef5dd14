CONSTANTS
  Commands = {"eland"}
  Events = {"armed", "positionLost"}
  MaxGoals = 1
  MaxLandReplans = 1
  RampTicks = 2
SPECIFICATION Spec
PROPERTY BlindDescentRamps
